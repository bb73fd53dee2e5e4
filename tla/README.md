# OpenWoW in TLA+

OpenWoW is a from-scratch C++20 client of World of Warcraft 3.3.5a. Most of its
840 000 lines run on one thread, once per frame, and are best tested by running
them. This project is about the rest: the parts whose correctness depends on the
order in which threads, callbacks and servers act, which no test of the repository
can choose. Each module is a translation of the code it names, checked by TLC on
small instances; the most important results are proved by TLAPS for every value of
the constants.

Paths below are relative to the root of the repository.

## 1. The system

### 1.1 Components

| component | state it keeps | operations | who uses it |
|---|---|---|---|
| **Frame job system** `src/openwow/runtime/scheduling/frame_job_system` | a queue of Jobs, a stop flag, worker threads; per dispatch a batch: an atomic cursor and a wait group | `Initialize`, `Shutdown`, `SubmitRange`, `ParallelFor`, `FrameWaitGroup::Wait`, `WorkerLoop`, `DrainBatch` | the main thread dispatches animation, culling, particle and skinning work of the frame |
| **Frame scheduler** `.../frame_scheduler` | entries per phase, dirty flags, deferred additions and removals, nesting depth | `Register`, `Unregister`, `Clear`, `RunFrame`, `RunPhase` | every system with per-frame work; callbacks register and unregister one another |
| **Thread pool** `.../thread_pool_system` | priority queues, task records, running and completed counts, two condition variables | `Initialize`, `Shutdown`, `Submit`, `CancelTask`, `ForgetTask`, `WaitForAll`, `WorkerLoop` | texture, model and map streaming, audio decoding |
| **Realm session** `.../net/wotlk/protocol/world_protocol` | two streams, the transfer flag, held packets, control packets of the second stream, two atomics that announce a lost connection, two threads | `Connect`, `Disconnect`, `CancelPendingIo`, `SendPacket`, `RecvPacket`, the transfer handlers, `ServiceHeartbeat`, authentication and character operations | glue flow before the world, `NetworkRecvThread` and the game loop in it |
| **World packet pipeline** `.../net/transport/packet_queue`, `network_recv_thread`, `apps/client/glue_host/glue_client.cpp` | a bounded queue that drops its oldest packet, a stop flag, deferred packets | start and stop with the world, push, pop, pop by opcode, disconnect detection | fills the game loop with packets |
| **Glue flow** `apps/client/glue_host/glue_flow.cpp`, `src/openwow/ui/glue/cgluemgr.cpp` | the phase, CGlueMgr's own state, a future per operation, one cancel flag | logon, realm list, realm connect, character operations, four ways to cancel | the login, realm and character screens' scripts |
| **TCP client** `.../net/transport/tcp_client.cpp` | a socket, an epoch, a lifecycle counter, a cancellation flag | `Connect`, `Disconnect`, `Read`, `Write` | both sessions |
| **Logon session** `.../net/auth` | SRP6 values, a stage | a request and reply exchange | glue flow |
| **Packet dispatcher** `.../net/wotlk/main_thread_packet_dispatcher.cpp` | one handler per opcode with a generation | `Register`, `Registration::Reset`, `Dispatch` | all game systems |
| **M2 resource streamer** `.../render/m2/m2_resource_streamer.cpp`, with `M2SystemState` | records with generations and leases, a commit queue, a mailbox that the pool's tasks fill, the published models | `Acquire`, `Release`, `Pump`, `Shutdown`, `ReleaseDeviceResources`, `LoadModelInstance` | world, glue and unit rendering |
| **Other streamers** `.../render`, `.../world/streaming` | as above, smaller | request, poll, cancel, publish | rendering; they use the thread pool |
| **Async file reads** `.../data/async_file_read.cpp` | request queues, I/O threads | queue, cancel, poll | data loading |
| **Game systems** `.../game` | mirrors of the server's state | one handler per packet | main thread only |
| **User interface** `.../ui` | frames, scripts, layout | Lua calls and events | main thread only |
| **Rendering, audio, media, archives, platform, core, debug, ...** | see `components` of PROJECT.json | | |

### 1.2 How they interact

The main loop runs a frame: it pumps the network (`RealmRuntime` pops packets and
hands them to the dispatcher), runs the frame scheduler's phases, dispatches ranges
to the frame jobs and joins them before it draws, and polls the streamers, whose
loads run on the thread pool. Entering the world starts a receive thread that loops
in `RealmSession::RecvPacket`; a transfer to another server adds a third thread to
the session. Leaving stops the receive thread first, then disconnects.

### 1.3 Where it is hard, and what makes each part correct

* *Frame jobs*: lock-free claims from an atomic cursor, late Jobs of batches whose
  caller has already returned, a wait group that is decremented to zero while its
  waiter falls asleep, shutdown with work in the queue. Correct: every item runs
  exactly once; a wait returns after the last item and never before; nothing of a
  batch is touched afterwards; shutdown loses nothing and ends.
* *Frame scheduler*: callbacks that change the list being walked, from inside, from
  a nested run or from another thread. Correct: no registration lost, no removal
  forgotten, the order of the priorities, no call after a removal, no entry skipped.
* *Thread pool*: cancel against take, forget against finish, submit against stop,
  notify against sleep, several lives. Correct: a cancelled task never runs, no task
  runs twice, records and counters say what is the case, nobody sleeps for ever.
* *Realm session*: any order of redirect, suspend and force on two streams, with
  writes that fail and threads that cancel. Correct: packets are written in the order
  of the calls, once; none goes to a server that does not listen; threads and events of a
  dropped second stream leave no trace; a lost connection is announced once.
* *Packet pipeline*: the receive thread against leaving, deferred packets against live
  ones, a full queue. Correct: order, no packet of an old session in a new one.
* *Glue flow*: cancellation while a future is running or has just finished, by a state
  that scripts set and a phase that the flow sets. Correct: no result of a cancelled
  attempt is used; no phase without its future; the main thread never waits for an
  operation it has not told to stop; the flow comes to rest.
* *TCP client*: disconnect against a pending connect, read or write. Correct: an
  operation of an old epoch never touches the new socket.
* *Streamers*: loads that finish for a record that was released, requested again or lost
  in a device reset; leases taken again while a model is about to be recycled. Correct:
  only the current request counts; a leased model stays; nothing unused stays.
* *Dispatcher*: registrations reset after they were overwritten. Correct: the newer
  handler stays (a generation number sees to it in a few sequential lines).

The `hazards` of PROJECT.json list these at their lines, with the properties that
catch them going wrong.

## 2. The plan

Order of work, the most important first. Modules 1 to 8 exist.

1. **FrameJobs**, with the abstract **RangeWork** it implements, and
   **FrameJobsProofs**.
2. **FrameScheduler** and **FrameSchedulerProofs**.
3. **ThreadPool** and **ThreadPoolProofs**, with the abstract **TaskService** it
   implements.
4. **RealmSession**, the connection and its transfer, and **RealmSessionProofs**.
5. **PacketPipeline** and **PacketPipelineProofs**: character operations under
   `operation_mutex_`, the hand-over to the world, the receive thread, the queue and the
   way back. It takes the stream as a source of packets that may end.
6. **TcpClient**, the socket under the sessions, with its epochs and cancellation, and
   **TcpClientProofs**.
7. **ModelStreamer**, built on TaskService (what it assumes of the pool is what
   ThreadPool is shown to implement), and **ModelStreamerProofs**.
8. **GlueFlow** and **GlueFlowProofs**: the screens before the world, with their futures
   and the cancellation flag they share. PacketPipeline takes its logon and connect as an outcome
   (`Reconnect`).
9. Candidates, in this order: the query cache of the game (pending queries, answers and
   callbacks), the account-data sync, the event scheduler, the download threads; an
   abstract stream that TcpClient implements and RealmSession is built on.

Every safety property that a passing run checks has its theorem; what is left to prove is
listed at the end of section 7.

## 3. The modules

`map` in PROJECT.json gives, for every definition, the lines it translates.
Definitions marked `\* slip:` are the plausible mistakes that show each property
can fail; no action uses them.

### 3.1 FrameJobs and RangeWork

One thread, `Main`, owns the system: only the main thread dispatches ranges in this
code, starts the system and shuts it down. `pc` is the point between two atomic steps of a thread. A
step under a mutex is one action; an atomic operation (`fetch_add` of the cursor, a
load or `fetch_sub` of `remaining_`) is one action; testing the predicate of a
condition variable and going to sleep are two, with the mutex held in between, so
that a notification not made under the mutex would be lost in the model as in the
code. Every dispatch is a `batch`, and a queued Job is the batch it refers to.

| code | model |
|---|---|
| `queue_`, `stopping_`, `workers_` | `queue`, `stopping`, `initialized` and the `pc` of the workers |
| `RangeBatch::cursor` | `cursor`, in grains |
| `FrameWaitGroup::remaining_` | `remaining` |
| `DispatchRange` | `DispatchInline`, `DispatchBatch`, `PushJobs`, `NotifyAll`, `NotifyOne` |
| `WorkerLoop` | `TakeJob`, `PollEmpty`, `PollUnderLock`, `Park`, `Block` |
| `DrainBatch`, `MarkDone` | `Claim`, `FinishGrain`, `MarkDone`, `NotifyGroup` |
| `Wait` | `CallWait`, `WaitReturns`, `LoadRemaining`, `Block` |
| `Shutdown` | `SetStopping`, `WakeForStop`, `JoinWorkers` |

The spin budgets before a thread blocks are abstracted: any poll may give up. The
number of workers is a constant; choosing it from the hardware is left out.

`RangeWork` is the promise without threads: the items asked for are started once,
finished once and may be joined when none is outstanding. `FrameJobs` implements it
under the mapping `Work` (an item is to do until a claim has passed it to fn).

### 3.2 FrameScheduler

Callbacks are handles. `Register` takes its handle from an atomic before it takes the
mutex, so it is two steps (`TakeHandle`, `AddCallback`); `IsPendingRemoval` and the
call it lets through are two (`Choose`, `CallCallback`), because the mutex is released
between them. `run` is the stack of `RunFrame` and `RunPhase` calls: a callback is
"inside" while it may call back into the scheduler. `EndRun` applies the deferred
removals and then the additions. The erasures are `Only`, which is `SelectSeq` without its
recursion, so that something can be proved of it. A callback may throw, which ends its run
through `RunScope`. `MayThrow` also allows `Clear`; the liveness run sets it to FALSE, since a
frame that always throws calls nobody after the thrower.

### 3.3 ThreadPool

A critical section under `m_mutex` is one step, a notification outside it a step of
its own. `Initialize(0)` gives the synchronous mode, in which `Submit` runs the task in
the caller. Two assumptions come from the users of the pool, not from its code: in
synchronous mode only the owner submits (`Shutdown` waits for workers, not for callers
that run a task themselves), and callers drop their ids when the pool is shut down
(`Initialize` starts the ids again at 1, so that a kept one would name a new task). A task that submits to the pool
it runs in is left out: no task of this code does. `held` keeps a third promise of the callers:
a task is not used after `ForgetTask`. Those that do both cancel first and forget then
(m2_resource_streamer.cpp:146, 190 and 408, glue_texture_stream.cpp:411,
texture_manager.cpp:1034); a `CancelTask` of a task that was forgotten while it waited would
keep its record, as only a task that has run looks at `m_forgetOnCompletion`.

`TaskService` is the promise without threads, queues and priorities: a task that was
submitted is begun at most once or withdrawn before it was begun, its record is kept
until it is forgotten, and closing withdraws what waits and lasts until nothing runs.
`ThreadPool` implements it (`ImplementsTaskService`): a task is "withdrawn" when
`CancelTask` or `Shutdown` has taken it out of its queue.

### 3.4 RealmSession

Four actors:

* the *owning thread*: it sends, services the heartbeat, starts futures and the receive
  thread, cancels and joins them, and disconnects (`at["owner"]`);
* the *reader*: the future that connects and authenticates, an operation at the character
  screen or `NetworkRecvThread`, one after another (`task`), each in the loop of
  `RecvPacket` (`io`);
* the *secondary thread* (`sec`), which connects, answers the challenge of the second
  server and publishes what it reads;
* the *servers*, which may send any packet of a transfer (valid, forged, cut short, out of
  place) on either stream and close any stream at any time.

`Connect` and `Authenticate` run in a future (glue_flow.cpp:2026), so `CancelPendingIo` has
two callers: the reader (`Connect`'s own `Disconnect`, an authentication that fails) and, at
the same time, the owner, by an overdue heartbeat or because the player gives up
(glue_flow.cpp:1248, 1298, 1413). Both go through the same steps (`CallStep`), each with a
`seen` of its own for `was_connected`, and the callback may be owed by either.

| code | model |
|---|---|
| `connected_`, `disconnect_notification_pending_` | `connected`, `notify`: separate atomics written in separate steps, with the connection they speak of |
| `primary_stream_`, `secondary_stream_`, their clients | `primary`, `secondary`, `up` |
| `transfer_pending_`, `held_outbound_packets_` | `suspended`, `held` |
| `secondary_control_packets_`, `secondary_disconnected_`, the two flags | `ctl`, `secGone`, `event`, `stop` |
| `phase_` | `phase`: `select`, `world`, or any `other` |
| `RecvPacket`, `HandleConnectionPacket` | `IoStep`, `Receive` |
| `SecondaryReceiveMain` | `SecStep`, `SecReceive` |
| `CancelPendingIo`, `Disconnect`, `Connect` | `Call`, `TakeNotice`, `TakeConnected`, `CloseStreams`, `Join`, `Callback`, `ClearSession`, `Open`, `Publish` |
| leaving the world, giving up | `Leave`, `GiveUp`, `Return`, `Disconnect` |

`send_mutex_` is held over several steps only by `CompleteConnectionTransfer`
(`SendLocked`); the other critical sections are one step. `wire` is what `SendPacket` has
written on any stream, in order; each packet is the number of its call. The answer to the
second server's challenge (`SecAnswer`) is no packet of `SendPacket`: it goes out on the
second stream at once, suspended or not. `deaf` are the streams whose server does not expect
packets of `SendPacket`: a second one before its order to send what is queued, and one that
has suspended the session until it gives that order. `OnlyToListeners` says that none is
written there; the session itself only knows `transfer_pending_`.

Of the phases, only what the heartbeat and `ReturnToCharacterSelect` look at is kept. What
authentication writes, framing, encryption and `transfer_cookie_` are left out. `GiveUp` is
possible while the glue flow lasts: in the world `Leave` takes its place. A second
`std::thread::join` of the same thread is undefined; the model takes it as the end of the
process (`DoubleJoin`).

These behaviours of the model are worth a maintainer's attention although no text of the
repository contradicts them, so that they are recorded as hazards and not as findings:

* `CancelPendingIo` raises `secondary_stop_requested_` and then joins. A reader that is
  handling a redirect at that moment lowers the flag again and starts a thread; the
  owner then joins a thread nobody has told to stop, and the main thread waits until
  that server closes its stream.
* An overdue heartbeat or a player who gives up (owner) and a transfer handler or another
  `CancelPendingIo` (reader) may join the secondary thread at the same time.
* A session that is suspended at the character screen and whose servers then say nothing
  stays suspended: a heartbeat counts as overdue in the world only (world_protocol.cpp:444).
  `WaitingEnds` therefore speaks of the world.

### 3.5 PacketPipeline

What one connection's packets go through above the stream. Four actors:

* the *main thread*, whose place in its frame is `main`: it services the heartbeat and
  polls for a realm split (`pump`, `poll`), updates the flow (`flow`, `joinOp`), loads a
  world (`load`), runs the world's network tick (`tick`), decides whether the world is
  over (`check`) and joins the receive thread (`joinRecv`);
* the thread of the operation whose future the flow holds (`opPc`): take the mutex, send
  the request, receive until the answer comes or the deadline passes, finish;
* `NetworkRecvThread` (`recv`): test the stop flag and the connection, read, push;
* the server, which sends, answers late or never, and closes when it likes.

| code | model |
|---|---|
| `operation_mutex_`, `phase_` | `lock`, `phase` |
| what the stream holds, `deferred_packets_` | `wire`, `deferred` |
| `FetchCharacterList`, `EnterWorld` on their thread | `OpLocks`, `OpSends`, `OpReceives`, `OpGivesUp`, `OpFinishes` |
| `TryReceiveRealmSplit` | `PollStarts`, `PollRefused`, `PollTakesDeferred`, `PollReads`, `PollFindsNothing` |
| glue flow: start, harvest, cancel, back to login | `FlowStarts`, `FlowHarvests`, `FlowCancels`, `OperationJoined`, `FlowDisconnects` |
| `after_enter_world` | `HandOver`, `HandOverFails` |
| `PacketQueue::Push` with its bound | `Push`, which drops the oldest |
| the world's tick and loading screen | `LoadPumpsWarden`, `HandlePacket`, `LoadingScreenEnds` |
| `GlueClient::Render`, `ReturnFromWorldToGlue` | `LogoutComplete`, `WorldTransportDisconnect`, `StayInWorld`, `ReturnFromWorldToGlue` |

Packets the server sends unasked are numbered in the order of their sending; that is how
`WorldSeesAll` tells a packet lost, doubled, out of order or left over from an earlier
connection. Answers carry no number: a late answer of an operation that timed out is
passed on like any other packet. An entry that timed out and is tried again may therefore
take the late `SMSG_LOGIN_VERIFY_WORLD` of the first attempt, which names no character,
for its own answer; the protocol has no number either, so this is no property of the
client.

Left out: framing and encryption; the transfer (RealmSession has it); the packets the
session answers by itself, which never reach the queue; the operations other than
list and enter, which take the same path as list; a world whose user interface fails to
start. `Connect` and `Authenticate` are their outcome (`Reconnect`). The poll that is
repeated within a frame after a split goes through `pump` again, as if a frame in which
nothing happened lay between. The loading screen goes in the loading tick, once a packet that
may have held the player's object has been handled, and the world is ticked once more in that
frame before the loss of the connection is looked at (`LoadingScreenEnds`). The queue's mutex makes each push and pop one step.

### 3.6 TcpClient

Callers on any thread and the client's I/O thread. A call is a number with an
`OperationState` (`calls`) and stands for the thread that makes it, as threads keep
nothing from one call to the next; its caller (`pc`) takes the call's mutex, posts to the
I/O thread and waits. `posted` is run in order; handlers of finished, failed or aborted
operations (`due`) run in any order, which is what Boost.Asio promises. A handler is one
step, except that the last test of a successful connect and its store of `connected_`
are two (`ConnectEnds`, `StoreConnected`): another thread may take a new lifecycle
between. Closing the socket after `IsCurrentLifecycle` is one step with the test, since
only the I/O thread opens sockets.

| code | model |
|---|---|
| `lifecycle_`, `socket_epoch_`, `connected_`, `active_connect_` | `lifecycle`, `epoch`, `connected`, `active` |
| `Connect`, `Disconnect` | `Lock`, `NextLifecycle`, `MarkDisconnected`, `DispatchClose`, `CloseDone`, `Begin`, `Return` |
| `Write`, `Read` | `Lock`, `Begin`, `Return` |
| `Await`'s cancellation | `AskToCancel`, `RunCancel` |
| `StartConnect` and its handlers | `StartConnect`, `Resolved`, `ConnectEnds`, `ConnectFails`, `StoreConnected` |
| `StartRead`, `StartWrite` and theirs | `StartTransfer`, `ReadEnds`, `WriteEnds` |
| the deadline | `TimesOut` |

Bytes are "some" or "none". `torn` remembers that an operation moved bytes its caller was
not told of (for a failed write: may have), `on` which socket it used; both are history.
When an operation is completed the rest of its state is dropped, as nobody reads it again.

The model shows a schedule worth a maintainer's attention: a
`Disconnect` overtaken by a whole `Connect` between its first two statements clears the
new connection's flag and leaves its socket open (tcp_client.cpp:225; the session's
authentication then fails and disconnects, so no property excludes it).

### 3.7 ModelStreamer

`M2ResourceStreamer` and what it uses of `M2SystemState` and its repository. The main
thread's calls are one step each, except `Pump` (which takes the mailbox's three queues
one after the other, while tasks post to them) and `Shutdown` (which joins the workers).
The pool is an instance of TaskService by EXTENDS: its variables `open`, `state` and `kept`
are moved by its own actions.

| code | model |
|---|---|
| `model_paths_`, `models_`, `next_model_id_` | `rows`, `models`, `nextModel` |
| `records_`, `leases_`, `commit_queue_`, `next_generation_` | `records`, `leases`, `queue`, `nextGen` |
| `mailbox_` and its three queues | `box`, `headers`, `earlies`, `finals` |
| `Acquire`, `Release` | the same |
| the task that prepares a model | `TaskBegins`, `PostHeader`, `PostEarly`, `PostFinal` |
| `Pump` | `DrainHeaders`, `DrainEarly`, `DrainCompletions`, `CommitOne`, `EndPump` |
| the recycle delay | `TimePasses` |
| `Shutdown`, the device reset | `Shutdown`, `Joined`, `DeviceReset` |
| `LoadModelInstance`, instances | `LoadModelInstance`, `CreateInstance`, `DestroyInstances` |

A budget is the permission to stop after the first commit; a delay is over when it is;
bounds are known not at all, from the header or from the model. A task carries the mailbox
it was submitted with, so that what it posts after a `Shutdown` goes where nobody looks. A file
loader may be set at any time, replaced or not. A `Pump` ends early, and puts the model it
looked at back into the queue by its priority, while the graphics device restarts (m2_resource_streamer.cpp:654); what the liveness
properties need of a restart is that it ends. `UnloadModel` (m2_system_state.cpp:404) has no
caller and is left out, so `LeasedModelStays` says nothing of it.

### 3.8 GlueFlow

The main thread, with the scripts that run on it, and one thread per operation. Three
pieces of state have to agree: `phase` (what the flow thinks is running), `glue` (the
state of CGlueMgr, which the scripts' calls set at once and by which a cancel decides what
there is to cancel) and the futures, whose destruction blocks the main thread while the
operation runs. `Pump` is the order in which one `PumpGlueFlow` looks at things, with its
early returns; `after` and `joining` say what the main thread waits for and what it does
then. All operations read one `flag` (`cancel_requested`), which every start lowers.

| code | model |
|---|---|
| the scripts' calls on CGlueMgr | the actions of `Scripts`, which leave what they want in `wants` |
| `PumpGlueFlow` | the actions of `MainThread`, one entry of `Pump` each |
| `CancelByState`, `AbortLoginNetOperation`, `CancelRealmConnection` | `CancelByState` and its cases |
| an operation on its thread | `OperationEnds`, `OperationWaits`, `OperationSeesFlag`, `QueueEnds` |

Entering the world belongs to PacketPipeline; the login patch, the error phase and the
timed disconnect (no code sets `disconnect_requested`) are left out. What scripts call in
the events that a pump fires counts as called before the next pump, except for the realm
that is picked after a logon.

The model shows schedules worth a maintainer's attention; no text of the repository
contradicts them, so they are no findings:

* A realm connection that was abandoned while the realm kept it in its queue is told to
  stop by a flag that the next operation lowers again; the queue has no deadline, and the
  connection goes on holding the session's operation mutex. When CGlueMgr's state still
  says connecting, a cancel (glue_flow.cpp:1423) destroys its future without cancelling it
  and the main thread waits for the realm.
* A realm list that is requested while a logon waits for a PIN, matrix or token stops the
  main thread for good: `CanRequestRealmList` (auth_protocol.cpp:1330) takes the mutex the
  logon holds, and the main thread is the one that would take the PIN. This is why the run
  does not check deadlock.
* A realm picked while another is connected only clears `connected` (cgluemgr.cpp:1047)
  and waits for a disconnect notice that nothing but the world reports; the player has to
  pick again.
* Escape on the realm dialog ends the phase and leaves CGlueMgr's state, so that
  `DefaultServerLogin` is refused until something is cancelled.
* Cancelling a rename resets the screen only; the rename goes on.

## 4. The runs

| run | module, cfg | what it shows | size |
|---|---|---|---|
| `frame_jobs` | MCFrameJobs | `IInv`, `WaitReturnsAfterWork`, `ShutdownRunsTheQueue`, `ReturnedBatchIsFrozen`, `ImplementsRangeWork` | 2 workers, 2 dispatches of 0, 1 or 5 items, 2 starts, 1 spurious wake-up |
| `frame_jobs_live` | MCFrameJobs, Live | `EveryItemRuns`, `CallsReturn` | 2 workers, 2 dispatches of up to 2 items |
| `frame_scheduler` | MCFrameScheduler | `IInv` (`RunsInOrder`, `NoCallAfterRemoval` and what they rest on), `NothingLost`, `EntriesFrozen` | main and one other thread, 3 callbacks of 2 priorities, nesting 2 |
| `frame_scheduler_live` | MCFrameScheduler, Live | `FrameCallsEveryone`, `KeptIsCalled` | 2 phases, 2 callbacks, nesting 2 |
| `thread_pool` | MCThreadPool | `IInv` (with `RunsAtMostOnce`), `StatusMovesForward`, `QueuedIsServed`, `CallersReturn`, `ImplementsTaskService` | 2 workers, 2 callers, 3 tasks, 2 priorities, 2 lives |
| `realm_session` | MCRealmSession | `IInv` (`PublishedIsSignalled`, `ThreadHasStream` and what the proofs rest on), `NothingLostInTransfer`, `AnnouncedOnce`, `OnlyToListeners`, `WaitingEnds` | 2 packets of the owner, 3 transfer packets, 3 streams, 2 connections |
| `realm_session_notice` | MCRealmSession, Notice | `DropIsAnnounced` is **violated** (section 6) | 1 packet, 3 transfer packets, 2 streams, 1 connection |
| `packet_pipeline` | MCPacketPipeline | `TypeOK`, `ReceiveIsSafe`, `WorldSeesAll`, `PhaseMatchesScreen`, `WorldEnds` | 2 unasked packets, 2 operations, 2 connections, queue of 2 |
| `tcp_client` | MCTcpClient | `IInv` (`SocketIsTheLastConnects` and `SocketInv`, which it rests on), `StreamStaysWhole`, `CallsEnd` | 3 calls, all at once or one after the other |
| `model_streamer` | MCModelStreamer | `IInv` (`RecordsFit`, `LeasesAreCounted`, `LeasesFit`, `QueueIsExact`, `RowsAreOwn`, `TasksAreWanted`, `TasksFit`, `PoolFits`, `PostsAreOnce`, `UnleasedIsTimed`), `LeasedModelStays`, `TicketsMoveForward` | 2 paths, 2 priorities, 2 leases, 2 tasks, up to 2 textures, 1 synchronous load |
| `model_streamer_live` | MCModelStreamer, Live | `IInv`, `TicketsAreAnswered`, `UnusedGoes` | 1 path, 2 leases, 2 tasks, 1 shutdown or device reset |
| `glue_flow` | MCGlueFlow | `IInv` (`PhaseHasFuture`, `JoinsAreCancelled`, `CancelledIsTold`), `CancelledStaysCancelled`, `FlowComesToRest` | logon, realm list, realm connect and three character operations; one start and one cancel between two pumps |

Where a run has both safety and liveness it is checked under the fair specification, which
allows the same steps.

Why the bounds are enough to meet the interesting cases:

* *Frame jobs*: with one grain per participant (`TargetGrains = 1`), 5 items make 5
  grains of 1 when the caller takes part and 2 + 2 + 1 when it does not, and 1 item
  makes 1: more grains than workers, a last grain that is short, fewer grains than
  workers, and claims past the end. Two
  dispatches let late Jobs of the first be popped during the second. Two starts let a
  shutdown be followed by new workers.
* *Scheduler*: three callbacks suffice for one that is running, one before and one after
  it; nesting of two for a run inside a callback; one other thread for every race with
  main, as all others do the same. The frame counter only counts.
* *Pool*: two workers race for one task; three tasks put one in each of running, queued
  and finished; two lives reuse the ids.
* *Session*: a whole transfer takes a redirect, a suspend and a force; in place of any of them
  comes one out of place, and a third stream is that of a second redirect. Closed streams and
  packets that belong to no transfer cost nothing of the bound. The second connection is the one
  into which something of the first could leak.
* *Pipeline*: two unasked packets and a late answer overflow a queue of two and two packets
  fill it in order; two operations are two worlds in one connection, or a list that times
  out and an entry that meets its late answer; the second connection is where something of
  the first would show. The code's queue is larger
  (`kCharacterWorldPacketQueueCapacity`); only "full" matters.
* *TCP client*: a connect, a transfer on its socket and a second connect are three calls, the
  least in which something of an earlier socket can meet a later one; so are a connect
  and the two disconnects that overtake it, all at once.
* *Streamer*: two leases of one path share a record or follow one another as two
  generations; two paths compete in the commit queue by priority; one synchronous load
  publishes a model beside a request for it. The second run has one path so that a reset
  fits in: tasks of the old mailbox and the old generation meet the new record.
* *Glue flow*: every operation is restarted without a bound; only the calls between two
  pumps are bounded, to one start and one cancel, which is what disagreement of phase and
  state needs. Of the character operations, creation has the flow of deletion and is left
  out of the run.

Symmetry is used in safety runs only. Deadlock is checked in every other run: `FrameJobs` and
`TcpClient` have `Rest` and `RealmSession` has `Dead` for the states in which the system
really rests; only `glue_flow` does without, for the reason in section 3.8.

## 5. Fairness

Weak fairness per thread says that the operating system schedules it. It is assumed
of workers (`WorkerStep`, `Drain`), of steps a call has already begun (`OwnStep`,
`CallerStep`, `MainSteps`), never of a user's decision to call. Beyond that:

* a task or a range function returns: the code has no other way to get a worker back;
* in FrameScheduler, `RunFrame` is strongly fair since the main loop calls it for ever,
  although other calls of main may disable it in between, and a callback at depth l
  returns (strongly fair: it may run phases itself meanwhile);
* in RealmSession the servers owe nothing: no fairness on packets, only on reads and
  writes that time out, on connects that succeed or fail, and in the world on the
  heartbeat (`OverdueHeartbeat`), which is serviced every frame and gives up when a ping
  stays unanswered, as it does while it is held. At the character screen an unanswered
  ping counts for nothing, and nothing is assumed there.
* in PacketPipeline the main thread's frames, the operation's thread and the receive
  thread go on (every wait of theirs has a deadline, or ends with one of the others); the
  server need not send, answer or close, and the user need not start anything.
* in TcpClient callers go on, posted work is run and timers go off; nobody owes an answer
  or a cancellation.
* in ModelStreamer the game loop pumps every frame, the pool begins what it was given and
  tasks return, delays run out, a restart of the graphics device ends (`SF` of `CommitOne`) and a
  shutdown that has begun is gone through; nobody need ask for or release anything.
* in GlueFlow the main thread pumps and each operation ends by its deadline or once it sees
  the flag. Nothing is owed by the player or the realm's queue: a waiting operation nobody
  has cancelled is an end that `FlowComesToRest` accepts (`Held`), and the property speaks
  of behaviours in which the scripts at last leave the flow alone, since a script that asks
  for the realm list in every frame keeps every result from being looked at.

## 6. Finding

`RealmSession`: `disconnect_notification_pending_` is documented as "Set when the
connection was dropped from the I/O path (receive thread) without running the
disconnected callback; the next CancelPendingIo on the owning thread runs it"
(world_protocol.h:367). A write that fails on the receive thread (an acknowledgement or
the flush at the end of a transfer) clears `connected_` and leaves that flag alone. The
next `CancelPendingIo` finds neither and the disconnected callback never runs;
`RealmRuntime` then keeps its Warden state and pending Warden packets into the next
session. The run `realm_session_notice` shows the schedule. The other way to drop the
connection, `AbortConnectionFromIo`, is announced exactly once (`AnnouncedOnce`).

## 7. The proofs

**FrameJobsProofs** proves for any number of workers, batches and items, and for any
target of grains per participant:

* `Invariance`: `Spec => []IInv`. `IInv` says who holds what: a grain below the cursor
  is held by one thread (`GrainsAreOwned`) until `remaining_` has been reduced by it
  (`RemainingIsOwed`), and fn has had exactly the items the cursor has passed
  (`CallsFollowCursor`). None of the checked properties is inductive by itself: that no
  item runs twice needs the owner of every grain, and that a wait returns after the
  work needs the sum of what is owed. There is one lemma per action.
* `NoItemTwiceHolds`, `WaitReturnsAfterWorkHolds`, `ReturnedBatchIsFrozenHolds`: the
  consequences the callers rely on. The second rests on `remaining_ = 0` leaving no
  grain unaccounted (`ZeroIsComplete`) and on `GrainIndex`: the grains counted by
  `DispatchRange` are exactly those `DrainBatch`'s test lets begin.
* `ShutdownRunsTheQueueHolds`: needs a second invariant, `ShutdownInv` (a range with
  items left is referred to by a Job, by the dispatch about to push one, or by a
  thread draining it; a worker leaves only when the queue is empty for good).

**ThreadPoolProofs** proves for any number of workers, callers, priorities, tasks and
lives of the pool:

* `Invariance`: `Spec => []IInv`. The records are what the queues and the threads say
  (`RecordsAreTrue`), the counters count them (`CountersAreTrue`), and a life of the
  pool leaves nothing to the next (`LivesAreApart`). The work is in three facts about
  moving one id: into a queue (`AppendingOne`), out of it at any position (`LosingOne`,
  used by the worker's pop and by `CancelTask`) and through a run (`Beginning`,
  `Ending`).
* `RunsAtMostOnceHolds` and `StatusMovesForwardHolds` follow.

**PacketPipelineProofs** proves for any number of packets, operations and connections,
and any capacity of the queue:

* `Invariance`: `Spec => []IInv`, with one lemma per actor and one step per action. The
  receive state of a session has no lock of its own, and what keeps its readers apart
  differs from pair to pair: the mutex keeps the poll from an operation
  (`LockTellsReader`), the screen and the joins keep the world's thread from both
  (`ScreenTellsThreads`), and the poll, which may take the mutex on any screen, is kept
  out of the world by the phase alone (`PhaseFollows`).
* `ReceiveIsSafeHolds` and `PhaseMatchesScreenHolds` follow.
* `StreamInvariance`: `Spec => []Stream`, from `Invariance`, and with it `WorldSeesAllHolds`
  and `TypeOKHolds`. The places a packet can be in make one line, `handled`, `queue`,
  `hold`, `deferred`, `wire`; which of them are empty on which screen (`Apart`) is what
  makes a step keep the order. A step moves a packet from one place to the next (`Moved`),
  takes one out and accounts for it in `past` or `lost` (`Accounted`), adds the newest at
  the end (`Added`), or lets Warden's packets overtake the others without changing the
  order among either (`Reordered`, from `Parted`). `NumbersOfConcat`, `TakenOut` and
  `Embeds` are the facts about sequences these rest on.

**FrameSchedulerProofs** proves for any threads, phases and priorities and however many
callbacks, frames and nested runs:

* `Invariance` (`Spec => []IInv`) and `NothingLostHolds`, by one induction: neither is
  inductive without the other. That a sorted phase runs in strict order needs that a
  handle has one entry (`NothingLost`); that it has one needs that the handle on its way
  from the counter to the mutex is new (`HandlesAreNew`). A callback that was chosen may be
  called because it was kept when it was chosen and Main removes nothing in between
  (`ChosenMayBeCalled`, `RunsAreNested`).
* `EntriesFrozenHolds`: the vectors walked without the mutex stay as they are.
* `FrameCallsEveryoneHolds`: what a frame owes lies ahead of where it stands (`OwedIsAhead`).
* The lemmas about lists: what erasing and picking keep (`OnlyFacts`, `OnlyKeepsOrder`), that
  a sorting is a permutation (`SortingFacts`: as many places as handles). Induction on a
  position is replaced by a least position (`LeastNatural`, from the library's `WFMin`).

**RealmSessionProofs** proves for any number of streams, packets, redirects and connections,
whatever the servers send:

* `Invariance` (`Spec => []IInv`), `NothingLostInTransferHolds`, `AnnouncedOnceHolds`, by one
  induction (`Inductive`) with a lemma per action. `IInv` says what each label of the reader, the two
  callers of `CancelPendingIo` and the secondary thread tells of the rest (`ReaderFits`,
  `CallersFit`), that the two streams are never one (`StreamsDiffer`), where the callback
  owed for a connection is (`OneNotice`), that the atomics speak of the last connection
  unless it is being replaced (`LatestConnection`), and that held packets wait for the end
  of a transfer (`HeldIsKept`): with nothing held a packet may be written at once and stays
  in order.
* `OnlyToListenersHolds`: the action property, from `ListenersKnown`, which follows a
  server's order to send what is queued from its receipt through the queue of control
  packets, the join and the promotion to the flush.

**TcpClientProofs** proves for any number of calls:

* `Invariance`: `Spec => []IInv`, the socket is the last `Connect`'s. A lifecycle is one
  call's (`LifecyclesDiffer`), so only one attempt may still open a socket, and by then it
  has closed the old one (`CleanStart`); hence the epoch of an operation tells whether it
  is on the present socket (`EpochTellsSocket`).
* `StreamStaysWholeHolds`: a connection that is open is in step.

**GlueFlowProofs** proves for any set of character operations and any number of calls the
scripts make between two pumps:

* `Invariance`: `Spec => []IInv`. The phase has its future, and the main thread blocks on
  its phase's operation only when it told it to stop.
* `CancelledIsNotTakenUp`: `Spec => CancelledStaysCancelled`, from `CancelledIsTold`: a
  cancelled operation that still has the phase finds the flag up, since every start that
  lowers the flag takes the phase.

**ModelStreamerProofs** proves for any number of paths, priorities, models, tasks and leases:

* `Invariance`: `Spec => []IInv`. A generation is given out with each preparation and
  carried by one task or posted (`PostsAreOnce`), so of the completions Pump takes in one
  at most is for a record (`AnswersFacts`), which therefore enters the queue of commits
  once (`QueueIsExact`). A record is its path's only one (`RowsAreOwn`), so a commit
  publishes under the id its record has. The pool keeps the tasks of preparations that are
  waited for, because each has its own and no other record shares it (`TasksFit`); and what
  is recycled or dropped has no lease, because every lease is counted (`LeasesAreCounted`).
* The lemmas are in layers: what inserting and taking out do to a sequence
  (`InsertAtFacts`, `RemoveAtFacts`), to the queue (`Inserted`, `TakenOut`), to the leases
  (`LeaseGranted`, `LeaseReturned`), the rows (`RowsReserved`, `RowsErased`), the pool's
  tasks and the posts; then one lemma per action. The queue that a batch of completions
  leaves (`Enqueued`, a recursive function) is characterised by a least number of
  completions after which it would be wrong (`EnqueuedFacts`).
* `LeasedModelStaysHolds`: the same induction carries what a lease remembers of its record.
* `TicketsMoveForwardHolds`: from the invariant at both ends of a step a record that is
  leased is there afterwards, and each action changes what it shows in one of a few ways
  (`HeldGoesOn`), all of them forward.

**Refinement**, step by step under the mappings of section 3: `Refinement` of FrameJobsProofs
(`Spec => ImplementsRangeWork`) and of ThreadPoolProofs (`Spec => ImplementsTaskService`).
Both use their `Invariance` in each step: which item a claim passes on, and which record
a worker, a cancel or a finish moves, is what the invariant knows.

The assumptions are those the modules state, which TLC evaluates in every run:
`WorkersAssumption`, `BoundsAssumption`, `PoolAssumption`, `SchedulerAssumption`, those of
GlueFlow and TcpClient, `StreamerAssumption` of ModelStreamer with `TaskAssumption` of
TaskService, and `BoundAssumption` of RealmSession and of PacketPipeline. Threads are finite
sets that do not overlap where that matters, there is a phase and a first stream, `list` is
a character operation, `NoPath` is no path, priorities and bounds are natural numbers, and
the capacity of the queue is a positive one.

Only model-checked: liveness everywhere (fairness and ENABLED are out of the prover's
reach), and that a step is possible at all. In particular `LoadPumpsWarden` chooses an
ascending sequence of places, and that there always is one is left to the run.
Not proved either are facts that would complete the picture: an invariant of
ModelStreamer with the pool's own records in it (ThreadPool implements TaskService, but
the two are not composed in one module).

## 8. What is not modelled

`components` of PROJECT.json lists every part with its reason. In short: the
candidates at the end of the plan; the other streamers, which repeat the model streamer
with less state; the dispatcher, one map on one thread; the asynchronous file reads, whose
queues nothing in this commit fills; sequential code whose difficulty is in the data (file
formats, cryptography, layout, geometry, rendering, audio); the game systems, which
mirror server state on one thread; and the older network stack (`WowClientConnection`,
`NetEventQueue`), which nothing in this commit constructs. Weak memory is not modelled
either: atomics are sequentially consistent in every module, and the code's data under
acquire and release orders is assumed to be published by them.
