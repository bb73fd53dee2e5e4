--------------------------- MODULE PacketPipeline ---------------------------
(***************************************************************************)
(* How the packets of one realm connection reach the world                 *)
(* (net/wotlk/protocol/world_protocol, net/transport/packet_queue and      *)
(* network_recv_thread, apps/client/glue_host).  At the character screens  *)
(* the session is read by the thread of an operation (FetchCharacterList,  *)
(* EnterWorld) and, in every frame, by the main thread, which polls for    *)
(* SMSG_REALM_SPLIT; both put what they do not want into deferred_packets_.*)
(* EnterWorld's success hands the session over: the deferred packets open  *)
(* the world's bounded PacketQueue and NetworkRecvThread fills it, until a *)
(* logout or a lost connection takes the main thread back to the glue.     *)
(*                                                                         *)
(* `main' is where the main thread is in its frame.  Packets the server    *)
(* sends unasked carry the number of their sending in the connection,      *)
(* answers 0.  Framing, encryption, the transfer (module RealmSession),    *)
(* packets the session handles itself and a world UI that fails to start   *)
(* are left out.  Connect and Authenticate are their outcome.              *)
(***************************************************************************)
EXTENDS Naturals, Sequences, SequencesExt

CONSTANTS
    MaxSent,      \* bound: packets the server sends unasked in a connection
    MaxStarts,    \* bound: operations started
    MaxConnects,  \* bound: connections
    Capacity      \* kCharacterWorldPacketQueueCapacity

ASSUME BoundAssumption ==
    /\ {MaxSent, MaxStarts, MaxConnects, Capacity} \subseteq Nat
    /\ Capacity > 0

VARIABLES
    connected,  \* connected()
    phase,      \* phase_, authenticated_ with it
    lock,       \* who holds operation_mutex_
    wire,       \* packets received or under way, in order
    deferred,   \* deferred_packets_
    closed,     \* has the server closed the connection?
    asked,      \* requests the server has not answered
    playing,    \* has the server a character in the world?
    op,         \* the operation whose future the flow holds
    opPc,       \* where its thread is
    opOk,       \* did it succeed?
    mode,       \* the UiMode; "entering" is kLoading before the hand-over
    main,       \* where the main thread is in its frame
    target,     \* the screen the world is left for
    queue,      \* the world's PacketQueue
    logout,     \* logout_complete_
    recv,       \* where NetworkRecvThread is
    stop,       \* its stop_requested_
    gone,       \* its disconnected_
    hold,       \* the packet it is about to push
    starts,     \* history: operations started
    connects,   \* history: connections made
    sent,       \* history: packets sent unasked in this connection
    handled,    \* history: what this world has handled
    past,       \* history: numbers handled, dropped or destroyed earlier
    lost        \* history: numbers the full queue has dropped in this world

linkVars == <<connected, phase>>
streamVars == <<wire, deferred>>
serverVars == <<closed, asked, playing, sent>>
opVars == <<op, opPc, opOk>>
recvVars == <<recv, stop, gone, hold>>
worldVars == <<queue, logout, handled, past, lost>>
vars == <<linkVars, streamVars, serverVars, opVars, recvVars, worldVars, lock, mode,
          main, target, starts, connects>>
-----------------------------------------------------------------------------
Unasked == {"data", "warden", "split", "logout"}
Packet(kind, number) == [kind |-> kind, n |-> number]
Numbers(s) == {p.n : p \in ToSet(s)} \ {0}

Init ==
    /\ connected = FALSE /\ phase = "none" /\ lock = "free"
    /\ wire = <<>> /\ deferred = <<>>
    /\ closed = TRUE /\ asked = <<>> /\ playing = FALSE /\ sent = 0
    /\ op = "none" /\ opPc = "none" /\ opOk = FALSE
    /\ mode = "login" /\ main = "pump" /\ target = "login"
    /\ queue = <<>> /\ logout = FALSE
    /\ recv = "off" /\ stop = FALSE /\ gone = FALSE /\ hold = <<>>
    /\ starts = 0 /\ connects = 0
    /\ handled = <<>> /\ past = {} /\ lost = {}

InWorld == mode \in {"loading", "world"}
CanPerformCharacterOperation == connected /\ phase = "select"

\* What AbortConnectionFromIo, CancelPendingIo and a write that finds the stream
\* closed do to the session's atomics.
Drop == connected' = FALSE /\ phase' = "none"

\* PacketQueue::Push, of several packets in turn: the oldest ones give way.
BoundedLate(s) == SubSeq(s, Len(s) - Capacity, Len(s))  \* slip: one too many stays
Bounded(s) == SubSeq(s, Len(s) - Capacity + 1, Len(s))
Overflow(s) == IF Len(s) > Capacity THEN SubSeq(s, 1, Len(s) - Capacity) ELSE <<>>
Push(s) ==
    LET all == queue \o s IN
    /\ queue' = IF Len(all) > Capacity THEN Bounded(all) ELSE all
    /\ lost' = lost \cup Numbers(Overflow(all))
-----------------------------------------------------------------------------
(* The server: it may fall silent or close at any time.                    *)

ServerSends(kind) ==
    /\ connected /\ ~closed
    /\ sent < MaxSent
    /\ kind = "logout" => playing
    /\ wire' = Append(wire, Packet(kind, sent + 1))
    /\ sent' = sent + 1
    /\ playing' = (playing /\ kind # "logout")
    /\ UNCHANGED <<linkVars, deferred, closed, asked, opVars, recvVars, worldVars, lock,
                   mode, main, target, starts, connects>>

ServerAnswers ==
    /\ connected /\ ~closed
    /\ asked # <<>>
    /\ asked' = Tail(asked)
    /\ \/ /\ Head(asked) = "list"
          /\ wire' = Append(wire, Packet("list", 0))
          /\ UNCHANGED playing
       \/ /\ Head(asked) = "enter" /\ ~playing
          /\ wire' = Append(wire, Packet("enter", 0))
          /\ playing' = TRUE
       \/ /\ Head(asked) = "enter"
          /\ wire' = Append(wire, Packet("refused", 0))
          /\ UNCHANGED playing
    /\ UNCHANGED <<linkVars, deferred, closed, sent, opVars, recvVars, worldVars, lock,
                   mode, main, target, starts, connects>>

ServerCloses ==
    /\ connected /\ ~closed
    /\ closed' = TRUE
    /\ UNCHANGED <<linkVars, streamVars, asked, playing, sent, opVars, recvVars,
                   worldVars, lock, mode, main, target, starts, connects>>
-----------------------------------------------------------------------------
(* The thread of an operation.                                             *)

OpUnchanged == UNCHANGED <<closed, playing, sent, recvVars, worldVars, op, mode, main,
                           target, starts, connects>>

OpLocks ==
    /\ opPc = "lock"
    /\ lock = "free"
    /\ lock' = "op"
    /\ opOk' = FALSE
    /\ IF CanPerformCharacterOperation
         THEN /\ opPc' = "send"
              /\ phase' = IF op = "enter" THEN "entering" ELSE phase
         ELSE opPc' = "finish" /\ UNCHANGED phase
    /\ UNCHANGED <<connected, streamVars, asked>>
    /\ OpUnchanged

OpSends ==
    /\ opPc = "send"
    /\ \/ connected /\ asked' = Append(asked, op) /\ opPc' = "receive"
          /\ UNCHANGED linkVars
       \/ opPc' = "finish" /\ (Drop \/ UNCHANGED linkVars) /\ UNCHANGED asked
    /\ UNCHANGED <<streamVars, lock, opOk>>
    /\ OpUnchanged

Expected(p) == p.kind = op \/ (op = "enter" /\ p.kind = "refused")

\* ReceiveExpectedPacket keeps looking; what it passes over waits for the world.
OpReceives ==
    /\ opPc = "receive"
    /\ connected /\ wire # <<>>
    /\ wire' = Tail(wire)
    /\ IF Expected(Head(wire))
         THEN /\ opPc' = "finish"
              /\ opOk' = (Head(wire).kind = op)
              /\ UNCHANGED deferred
         ELSE deferred' = Append(deferred, Head(wire)) /\ UNCHANGED <<opPc, opOk>>
    /\ UNCHANGED <<linkVars, asked, lock>>
    /\ OpUnchanged

\* The deadline has passed, the connection is gone or the user has given up.
OpGivesUp ==
    /\ opPc = "receive"
    /\ \/ UNCHANGED linkVars
       \/ closed /\ wire = <<>> /\ Drop
    /\ opPc' = "finish"
    /\ UNCHANGED <<streamVars, asked, lock, opOk>>
    /\ OpUnchanged

LeaveEntering == UNCHANGED phase  \* slip: a failed entry leaves the phase as it is
RestoreCharacterSelect ==
    phase' = IF phase = "entering"
               THEN IF connected THEN "select" ELSE "none"
               ELSE phase

\* EnterWorld's finish; either way the lock goes with the scope.
OpFinishes ==
    /\ opPc = "finish"
    /\ IF op = "enter" /\ opOk THEN phase' = "world"
       ELSE IF op = "enter" THEN RestoreCharacterSelect ELSE UNCHANGED phase
    /\ opPc' = "done"
    /\ lock' = "free"
    /\ UNCHANGED <<connected, streamVars, asked, opOk>>
    /\ OpUnchanged

OpStep == OpLocks \/ OpSends \/ OpReceives \/ OpGivesUp \/ OpFinishes
-----------------------------------------------------------------------------
(* The main thread's frame at the character screens (PumpGlueFlow).        *)

MainUnchanged == UNCHANGED <<closed, asked, playing, sent, recvVars, connects>>

\* ServiceHeartbeat: a ping that cannot be written, or one that was not answered.  The
\* poll that is repeated returns here, as if a frame with nothing to do lay between.
HeartbeatFails ==
    /\ main = "pump"
    /\ connected /\ phase # "none"
    /\ Drop
    /\ UNCHANGED <<streamVars, serverVars, opVars, recvVars, worldVars, lock, mode, main,
                   target, starts, connects>>

LockForgotten == TRUE  \* slip: the poll does not ask for the mutex
TryLock == lock = "free"

\* TryReceiveRealmSplit; UNCHANGED lock in a poll that did not take it.
PollStarts ==
    /\ main = "pump"
    /\ TryLock /\ CanPerformCharacterOperation
    /\ lock' = "main" /\ main' = "poll"
    /\ UNCHANGED <<linkVars, streamVars, opVars, worldVars, mode, target, starts>>
    /\ MainUnchanged

PollRefused ==
    /\ main = "pump"
    /\ ~TryLock \/ ~CanPerformCharacterOperation
    /\ main' = "flow"
    /\ UNCHANGED <<linkVars, streamVars, opVars, worldVars, lock, mode, target, starts>>
    /\ MainUnchanged

IsSplit(p) == p.kind = "split"
SplitWaits == \E i \in DOMAIN deferred : IsSplit(deferred[i])

PollEnds(next) ==
    /\ main = "poll"
    /\ lock' = "free"
    /\ main' = next
    /\ UNCHANGED <<opVars, queue, logout, handled, lost, mode, target, starts>>
    /\ MainUnchanged

\* A split the session has deferred, out of its turn; the poll is repeated.
PollTakesDeferred ==
    /\ \E first \in DOMAIN deferred :
          /\ IsSplit(deferred[first])
          /\ \A i \in 1 .. first - 1 : ~IsSplit(deferred[i])
          /\ deferred' = RemoveAt(deferred, first)
          /\ past' = past \cup {deferred[first].n}
    /\ UNCHANGED <<linkVars, wire>>
    /\ PollEnds("pump")

PollReads ==
    /\ ~SplitWaits
    /\ connected /\ wire # <<>>
    /\ wire' = Tail(wire)
    /\ UNCHANGED linkVars
    /\ IF IsSplit(Head(wire))
         THEN past' = past \cup {Head(wire).n} /\ UNCHANGED deferred /\ PollEnds("pump")
         ELSE deferred' = Append(deferred, Head(wire)) /\ UNCHANGED past /\ PollEnds("flow")

PollFindsNothing ==
    /\ ~SplitWaits
    /\ UNCHANGED linkVars \/ (closed /\ wire = <<>> /\ Drop)
    /\ UNCHANGED <<streamVars, past>>
    /\ PollEnds("flow")

Flow(next) ==
    /\ main = "flow"
    /\ main' = next
    /\ MainUnchanged

\* A future is joined when it is destroyed; only a thread that is done lets go.
ForgetOperation == op' = "none" /\ opPc' = "none" /\ opOk' = FALSE

FlowStarts(o) ==
    /\ Flow("tick")
    /\ mode = "select" /\ op = "none"
    /\ starts < MaxStarts
    /\ starts' = starts + 1
    /\ op' = o /\ opPc' = "lock" /\ UNCHANGED opOk
    /\ mode' = IF o = "enter" THEN "entering" ELSE mode
    /\ UNCHANGED <<linkVars, streamVars, worldVars, lock, target>>

FlowHasNothing ==
    /\ Flow("tick")
    /\ opPc # "done"
    /\ UNCHANGED <<linkVars, streamVars, opVars, worldVars, lock, mode, target, starts>>

FlowHarvests ==
    /\ Flow("tick")
    /\ opPc = "done"
    /\ ~(op = "enter" /\ opOk)
    /\ ForgetOperation
    /\ mode' = "select"
    /\ UNCHANGED <<linkVars, streamVars, worldVars, lock, target, starts>>

\* CancelByState: a list is told to give up and joined; entering the world is cut off
\* by CancelPendingIo (CancelRealmConnection).
FlowCancels ==
    /\ Flow("joinOp")
    /\ op # "none"
    /\ IF op = "enter" THEN Drop ELSE UNCHANGED linkVars
    /\ UNCHANGED <<streamVars, opVars, worldVars, lock, mode, target, starts>>

ResetReceiveState == wire' = <<>> /\ deferred' = <<>>
Disconnect == Drop /\ ResetReceiveState

OperationJoined ==
    /\ main = "joinOp"
    /\ opPc = "done"
    /\ ForgetOperation
    /\ IF op = "enter" THEN Disconnect ELSE UNCHANGED <<linkVars, streamVars>>
    /\ mode' = "select" /\ main' = "tick"
    /\ UNCHANGED <<worldVars, lock, target, starts>>
    /\ MainUnchanged

\* The user goes back to the login screen.
FlowDisconnects ==
    /\ Flow("tick")
    /\ mode = "select" /\ op = "none"
    /\ Disconnect
    /\ mode' = "login"
    /\ UNCHANGED <<opVars, worldVars, lock, target, starts>>

\* Connect and Authenticate, to a new server: everything is counted afresh.
Reconnect ==
    /\ main = "flow" /\ mode = "login"
    /\ connects < MaxConnects
    /\ connects' = connects + 1
    /\ connected' = TRUE /\ phase' = "select"
    /\ ResetReceiveState
    /\ closed' = FALSE /\ asked' = <<>> /\ playing' = FALSE /\ sent' = 0
    /\ past' = {} /\ lost' = {}
    /\ mode' = "select" /\ main' = "tick"
    /\ UNCHANGED <<opVars, recvVars, queue, logout, handled, lock, target, starts>>
-----------------------------------------------------------------------------
(* Handing over, the world's frames and leaving it.                        *)

DrainForgotten == UNCHANGED <<queue, lost, deferred>>  \* slip: nothing is handed over
DrainDeferredPackets == Push(deferred) /\ deferred' = <<>>

\* after_enter_world: the queue is made, filled and only then given to the thread.
HandOver ==
    /\ main = "flow"
    /\ op = "enter" /\ opPc = "done" /\ opOk
    /\ ForgetOperation
    /\ DrainDeferredPackets
    /\ logout' = FALSE /\ handled' = <<>>
    /\ recv' = "loop" /\ stop' = FALSE /\ gone' = FALSE
    /\ mode' = "loading" /\ main' = "load"
    /\ UNCHANGED <<linkVars, wire, hold, serverVars, past, lock, target, starts, connects>>

\* The character is gone or cannot be adopted.
HandOverFails ==
    /\ Flow("tick")
    /\ op = "enter" /\ opPc = "done" /\ opOk
    /\ ForgetOperation
    /\ Disconnect
    /\ mode' = "select"
    /\ UNCHANGED <<worldVars, lock, target, starts>>

WorldUnchanged == UNCHANGED <<linkVars, streamVars, serverVars, opVars, recvVars, past,
                              lost, lock, target, starts, connects>>

IsWarden(p) == p.kind = "warden"
WardenPlaces(s) == {i \in DOMAIN s : IsWarden(s[i])}

\* The ascending sequences of the places I of s, of which there is one.  `At' of it is
\* what SelectSeq would give, in a form that can be reasoned about.
InOrder(s, I) ==
    {at \in UNION {[1 .. n -> I] : n \in 0 .. Len(s)} :
        ToSet(at) = I /\ \A j, k \in DOMAIN at : j < k => at[j] < at[k]}
At(s, at) == [k \in DOMAIN at |-> s[at[k]]]

\* While the world loads in one long frame, SMSG_WARDEN_DATA is handled first.
LoadPumpsWarden ==
    /\ main = "load"
    /\ WardenPlaces(queue) # {}
    /\ \E taken \in InOrder(queue, WardenPlaces(queue)),
          left \in InOrder(queue, DOMAIN queue \ WardenPlaces(queue)) :
          /\ handled' = handled \o At(queue, taken)
          /\ queue' = At(queue, left)
    /\ UNCHANGED <<logout, mode, main>>
    /\ WorldUnchanged

LoadEnds ==
    /\ main = "load"
    /\ main' = "tick"
    /\ UNCHANGED <<queue, logout, handled, mode>>
    /\ WorldUnchanged

\* UpdateNetwork: as many as the frame's budget allows.
HandlePacket ==
    /\ main = "tick" /\ InWorld
    /\ queue # <<>>
    /\ queue' = Tail(queue)
    /\ handled' = Append(handled, Head(queue))
    /\ logout' = (logout \/ Head(queue).kind = "logout")
    /\ UNCHANGED <<mode, main>>
    /\ WorldUnchanged

TickEnds ==
    /\ main = "tick"
    /\ main' = IF mode = "world" THEN "check" ELSE "pump"
    /\ UNCHANGED <<queue, logout, handled, mode>>
    /\ WorldUnchanged

\* The loading screen may go once the player's object has come, in a packet handled; what
\* the object needs may take longer.  The same frame ticks the world once more.
LoadingScreenEnds ==
    /\ main = "tick" /\ mode = "loading"
    /\ \E p \in ToSet(handled) : p.kind = "data"
    /\ mode' = "world"
    /\ UNCHANGED <<queue, logout, handled, main>>
    /\ WorldUnchanged

ConnectionLost == gone \/ ~connected

StopForgotten == UNCHANGED stop  \* slip: the thread is joined but not told to stop
RequestStop == stop' = TRUE

Leave(screen) ==
    /\ main = "check"
    /\ RequestStop
    /\ main' = "joinRecv"
    /\ target' = screen
    /\ UNCHANGED <<linkVars, streamVars, serverVars, opVars, recv, gone, hold, queue,
                   handled, past, lost, lock, mode, starts, connects>>

LogoutComplete == logout /\ logout' = FALSE /\ Leave("select")
WorldTransportDisconnect ==
    ~logout /\ ConnectionLost /\ UNCHANGED logout /\ Leave("login")

StayInWorld ==
    /\ main = "check"
    /\ ~logout /\ ~ConnectionLost
    /\ main' = "pump"
    /\ UNCHANGED <<queue, logout, handled, mode>>
    /\ WorldUnchanged

JoinForgotten == TRUE  \* slip: NetworkRecvThread::Stop does not join
Joined == recv = "ended"

\* ReturnFromWorldToGlue, once the thread is joined.
ReturnFromWorldToGlue ==
    /\ main = "joinRecv"
    /\ Joined
    /\ queue' = <<>> /\ handled' = <<>> /\ lost' = {}
    /\ past' = past \cup Numbers(handled \o queue) \cup lost
    /\ IF target = "select" /\ connected /\ phase \in {"world", "select"}
         THEN phase' = "select" /\ UNCHANGED <<connected, streamVars>>
         ELSE Disconnect
    /\ mode' = target /\ main' = "pump"
    /\ UNCHANGED <<serverVars, opVars, recvVars, logout, lock, target, starts, connects>>

MainStep ==
    \/ HeartbeatFails \/ PollStarts \/ PollRefused
    \/ PollTakesDeferred \/ PollReads \/ PollFindsNothing
    \/ \E o \in {"list", "enter"} : FlowStarts(o)
    \/ FlowHasNothing \/ FlowHarvests \/ FlowCancels \/ OperationJoined
    \/ FlowDisconnects \/ Reconnect
    \/ HandOver \/ HandOverFails \/ LoadPumpsWarden \/ LoadEnds
    \/ HandlePacket \/ TickEnds \/ LoadingScreenEnds
    \/ LogoutComplete \/ WorldTransportDisconnect \/ StayInWorld
    \/ ReturnFromWorldToGlue
-----------------------------------------------------------------------------
(* NetworkRecvThread.                                                      *)

RecvUnchanged == UNCHANGED <<deferred, serverVars, opVars, stop, logout, handled, past,
                             lock, mode, main, target, starts, connects>>

RecvLoops ==
    /\ recv = "loop"
    /\ gone' = (gone \/ (~stop /\ ~connected))
    /\ recv' = IF stop \/ ~connected THEN "ended" ELSE "read"
    /\ UNCHANGED <<linkVars, wire, hold, queue, lost>>
    /\ RecvUnchanged

RecvReceives ==
    /\ recv = "read"
    /\ connected /\ wire # <<>>
    /\ hold' = <<Head(wire)>>
    /\ wire' = Tail(wire)
    /\ recv' = "push"
    /\ UNCHANGED <<linkVars, gone, queue, lost>>
    /\ RecvUnchanged

\* A timeout, a stop or a connection that is lost, perhaps found so by this read.
RecvFails ==
    /\ recv = "read"
    /\ UNCHANGED linkVars \/ (closed /\ wire = <<>> /\ Drop)
    /\ gone' = (gone \/ (~stop /\ ~connected'))
    /\ recv' = IF stop \/ ~connected' THEN "ended" ELSE "loop"
    /\ UNCHANGED <<wire, hold, queue, lost>>
    /\ RecvUnchanged

RecvPushes ==
    /\ recv = "push"
    /\ Push(hold)
    /\ hold' = <<>>
    /\ recv' = "loop"
    /\ UNCHANGED <<linkVars, wire, gone>>
    /\ RecvUnchanged

RecvStep == RecvLoops \/ RecvReceives \/ RecvFails \/ RecvPushes
-----------------------------------------------------------------------------
Next ==
    \/ \E kind \in Unasked : ServerSends(kind)
    \/ ServerAnswers \/ ServerCloses
    \/ OpStep \/ MainStep \/ RecvStep

Spec == Init /\ [][Next]_vars

\* Frames go on and threads are scheduled; every wait of the code has a deadline or an
\* end the threads bring about.  The server and the user owe nothing.
FairSpec ==
    /\ Spec
    /\ WF_vars(MainStep)
    /\ WF_vars(OpStep)
    /\ WF_vars(RecvStep)
-----------------------------------------------------------------------------
Answers == {"list", "enter", "refused"}
Packets == [kind : Unasked \cup Answers, n : 0 .. MaxSent]

TypeOK ==
    /\ {connected, closed, playing, opOk, logout, stop, gone} \subseteq BOOLEAN
    /\ phase \in {"none", "select", "entering", "world"}
    /\ lock \in {"free", "op", "main"}
    /\ {wire, deferred, queue, hold, handled} \subseteq Seq(Packets)
    /\ Len(queue) <= Capacity /\ Len(hold) <= 1
    /\ asked \in Seq({"list", "enter"})
    /\ op \in {"none", "list", "enter"}
    /\ opPc \in {"none", "lock", "send", "receive", "finish", "done"}
    /\ mode \in {"login", "select", "entering", "loading", "world"}
    /\ main \in {"pump", "poll", "flow", "joinOp", "load", "tick", "check", "joinRecv"}
    /\ target \in {"login", "select"}
    /\ recv \in {"off", "loop", "read", "push", "ended"}
    /\ starts \in 0 .. MaxStarts /\ connects \in 0 .. MaxConnects
    /\ sent \in 0 .. MaxSent
    /\ past \cup lost \subseteq 1 .. MaxSent

\* A session's receive state has no lock of its own: at most one thread is inside
\* RecvPacket.  operation_mutex_ keeps the poll from an operation, the phase and the
\* join keep both from the world's thread, across timeouts, cancels and returns.
OneReader ==
    /\ ~(opPc = "receive" /\ main = "poll")
    /\ recv \in {"read", "push"} => opPc # "receive" /\ main # "poll"

\* The thread pushes into a queue that exists: the world destroys it after the join.
ThreadHasQueue == recv \in {"loop", "read", "push"} => InWorld

\* Whoever receives is alone at it, and NetworkRecvThread has somewhere to put it.
ReceiveIsSafe == OneReader /\ ThreadHasQueue

Line == handled \o queue \o hold \o deferred \o wire
Once(s) == \A i, j \in DOMAIN s : s[i].n = s[j].n /\ s[i].n # 0 => i = j
InTurn(s) ==
    \A i, j \in DOMAIN s :
        i < j /\ s[i].n # 0 /\ s[j].n # 0 /\ (IsWarden(s[i]) <=> IsWarden(s[j]))
            => s[i].n < s[j].n

\* While the connection is up every packet the server has sent unasked in it is, once,
\* handled by this world or on its way there, in the order of sending (Warden's own
\* packets apart, in theirs): whether an operation, a poll or the thread received it.
\* Only a full queue loses any, and nothing comes from an earlier connection.
WorldSeesAll ==
    connected =>
        /\ Numbers(Line) = (1 .. sent) \ (past \cup lost)
        /\ Once(Line)
        /\ InTurn(Line)

\* A connected client at rest in the world or at its character screen is in the phase
\* that screen needs: no way through entries that fail, time out or are cancelled and
\* worlds that end leaves it where every request is refused.
PhaseMatchesScreen ==
    connected =>
        /\ InWorld => phase = "world"
        /\ mode = "select" /\ op = "none" => phase = "select"

\* The world is left when its connection is lost, whoever finds out, or when the server
\* has logged the character out.
WorldEnds == mode = "world" /\ (~connected \/ logout) ~> ~InWorld
=============================================================================
