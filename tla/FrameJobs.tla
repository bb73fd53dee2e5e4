------------------------------ MODULE FrameJobs ------------------------------
(***************************************************************************)
(* FrameJobSystem and FrameWaitGroup (runtime/scheduling/frame_job_system) *)
(* split a range of items over worker threads.  One thread, Main, owns the *)
(* system: it initializes it, dispatches ranges (ParallelFor takes part in *)
(* the work and joins it, SubmitRange hands back a wait group to join      *)
(* later) and shuts it down.  Every dispatch is a batch of its own.        *)
(*                                                                         *)
(* A label of pc is a point between two atomic steps of a thread.  A step  *)
(* that holds a mutex from start to end is one action, guarded by the      *)
(* mutex being free; a thread at "blocking" has evaluated the predicate of *)
(* a condition variable and still holds its mutex, one at "waiting" sleeps *)
(* in the condition variable and holds nothing.                            *)
(***************************************************************************)
EXTENDS Naturals, Sequences, FiniteSets

CONSTANTS
    Workers,       \* the worker threads Initialize starts
    Main,          \* the thread that owns the system
    Batches,       \* the dispatches of a behaviour, each a RangeBatch
    NoBatch,       \* a thread's batch when it has none
    MaxCount,      \* bound: the items of one dispatch
    Counts,        \* bound: the item counts a dispatch may ask for
    TargetGrains,  \* kTargetGrainsPerParticipant
    MaxStarts,     \* bound: calls of Initialize that start workers
    MaxSpurious    \* bound: spurious wake-ups of condition variables

ASSUME WorkersAssumption ==
    /\ IsFiniteSet(Workers)
    /\ Workers # {}
    /\ Main \notin Workers

ASSUME BoundsAssumption ==
    /\ MaxCount \in Nat
    /\ Counts \subseteq 0 .. MaxCount
    /\ TargetGrains \in Nat \ {0}
    /\ MaxStarts \in Nat
    /\ MaxSpurious \in Nat
    /\ NoBatch \notin Batches

Threads == Workers \cup {Main}
Items == 0 .. MaxCount - 1

VARIABLES
    pc,          \* [Threads -> label]
    batch,       \* [Threads -> batch the thread dispatches, drains or awaits]
    at,          \* [Threads -> index of the grain the thread claimed]
    executed,    \* [Threads -> DrainBatch's local `executed']
    queue,       \* queue_: a Job is the batch it refers to
    stopping,    \* stopping_
    initialized, \* initialized_
    count,       \* [Batches -> number of items the dispatch asked for]
    grain,       \* [Batches -> items of a grain]
    cursor,      \* [Batches -> the atomic cursor, in grains]
    remaining,   \* [Batches -> the wait group's remaining_]
    stage,       \* [Batches -> "unused", run "inline" or shared as a "batch"]
    joins,       \* does the dispatch under way take part in its batch?
    notified,    \* notify_one calls the dispatch under way has made
    groups,      \* the wait groups SubmitRange returned and Main still holds
    joined,      \* the batches whose Wait() has returned
    starts,      \* counter for MaxStarts
    spurious,    \* counter for MaxSpurious
    calls,       \* history: [Batches -> [Items -> calls of fn that got the item]]
    ran,         \* history: [Threads -> the grains counted by `executed']
    accounted    \* history: [Batches -> the grains subtracted from remaining_]

threadVars == <<pc, batch, at, executed, ran>>
ownerVars == <<stopping, initialized, starts>>
dispatchVars == <<count, grain, stage, joins>>
progressVars == <<cursor, calls>>
groupVars == <<remaining, accounted>>
vars == <<threadVars, ownerVars, dispatchVars, progressVars, groupVars,
          queue, notified, groups, joined, spurious>>
-----------------------------------------------------------------------------
(* How DispatchRange cuts a range.                                         *)

AtLeastOne(n) == IF n = 0 THEN 1 ELSE n
AtMost(m, n) == IF m <= n THEN m ELSE n

Participants(p) == Cardinality(Workers) + (IF p THEN 1 ELSE 0)
GrainOf(n, p) == AtLeastOne(n \div (Participants(p) * TargetGrains))
WholeGrains(n, g) == n \div g  \* slip: the last, partial grain is forgotten
GrainsOf(n, g) == (n + g - 1) \div g

\* Has a grain that begins here any item left?
NotPast(begin, n) == begin <= n  \* slip: one grain too many
HasItems(begin, n) == begin < n

\* The items of the range [begin, min(begin + grain, count)) of grain k.
ItemsOf(k, n, g) == {i \in Items : k * g <= i /\ i < AtMost(k * g + g, n)}

JobCount(b) == AtMost(Cardinality(Workers), GrainsOf(count[b], grain[b]))
-----------------------------------------------------------------------------
Init ==
    /\ pc = [t \in Threads |-> IF t = Main THEN "idle" ELSE "off"]
    /\ batch = [t \in Threads |-> NoBatch]
    /\ at = [t \in Threads |-> 0]
    /\ executed = [t \in Threads |-> 0]
    /\ ran = [t \in Threads |-> {}]
    /\ queue = <<>>
    /\ stopping = FALSE
    /\ initialized = FALSE
    /\ count = [b \in Batches |-> 0]
    /\ grain = [b \in Batches |-> 1]
    /\ cursor = [b \in Batches |-> 0]
    /\ remaining = [b \in Batches |-> 0]
    /\ stage = [b \in Batches |-> "unused"]
    /\ joins = FALSE
    /\ notified = 0
    /\ groups = {}
    /\ joined = {}
    /\ starts = 0
    /\ spurious = 0
    /\ calls = [b \in Batches |-> [i \in Items |-> 0]]
    /\ accounted = [b \in Batches |-> {}]

Goto(t, label) == pc' = [pc EXCEPT ![t] = label]

\* queue_mutex_ is held across steps only by a worker about to sleep, a wait
\* group's mutex only by Main about to sleep on it.
QueueMutexFree == \A w \in Workers : pc[w] # "blocking"
GroupMutexFree(b) == ~(pc[Main] = "blocking" /\ batch[Main] = b)
-----------------------------------------------------------------------------
(* Initialize and Shutdown.                                                *)

Initialize ==
    /\ pc[Main] = "idle"
    /\ ~initialized
    /\ starts < MaxStarts
    /\ starts' = starts + 1
    /\ stopping' = FALSE
    /\ initialized' = TRUE
    /\ pc' = [t \in Threads |-> IF t \in Workers THEN "poll" ELSE pc[t]]
    /\ UNCHANGED <<batch, at, executed, ran, dispatchVars, progressVars,
                   groupVars, queue, notified, groups, joined, spurious>>

\* notify_all on queue_cv_: the sleepers go on to retake the mutex.
WakeWorkers(label) ==
    pc' = [t \in Threads |->
              IF t = Main THEN label
              ELSE IF pc[t] = "waiting" THEN "park" ELSE pc[t]]

StoreStopping ==
    /\ pc[Main] = "idle"
    /\ initialized
    /\ stopping' = TRUE
    /\ Goto(Main, "wakeAll")
    /\ UNCHANGED <<batch, at, executed, ran, initialized, starts, dispatchVars,
                   progressVars, groupVars, queue, notified, groups, joined,
                   spurious>>

\* stopping_ is stored under queue_mutex_, so that no worker is between its test
\* of stopping_ and its sleep.
SetStopping == QueueMutexFree /\ StoreStopping

WakeForStop ==
    /\ pc[Main] = "wakeAll"
    /\ WakeWorkers("join")
    /\ UNCHANGED <<batch, at, executed, ran, ownerVars, dispatchVars,
                   progressVars, groupVars, queue, notified, groups, joined,
                   spurious>>

JoinWorkers ==
    /\ pc[Main] = "join"
    /\ \A w \in Workers : pc[w] = "exited"
    /\ initialized' = FALSE
    /\ pc' = [t \in Threads |-> IF t = Main THEN "idle" ELSE "off"]
    /\ UNCHANGED <<batch, at, executed, ran, stopping, starts, dispatchVars,
                   progressVars, groupVars, queue, notified, groups, joined,
                   spurious>>
-----------------------------------------------------------------------------
(* DispatchRange, for ParallelFor (p) and for SubmitRange (~p).            *)

\* An empty range, or no worker to share it with: fn(0, count) runs here.
DispatchInline(b, n, p) ==
    /\ pc[Main] = "idle"
    /\ stage[b] = "unused"
    /\ n = 0 \/ ~initialized
    /\ stage' = [stage EXCEPT ![b] = "inline"]
    /\ count' = [count EXCEPT ![b] = n]
    /\ calls' = [calls EXCEPT ![b] = [i \in Items |-> IF i < n THEN 1 ELSE 0]]
    /\ groups' = IF p THEN groups ELSE groups \cup {b}
    /\ joined' = IF p THEN joined \cup {b} ELSE joined
    /\ UNCHANGED <<threadVars, ownerVars, grain, joins, cursor, groupVars,
                   queue, notified, spurious>>

DispatchBatch(b, n, p) ==
    /\ pc[Main] = "idle"
    /\ stage[b] = "unused"
    /\ n > 0 /\ initialized
    /\ stage' = [stage EXCEPT ![b] = "batch"]
    /\ count' = [count EXCEPT ![b] = n]
    /\ grain' = [grain EXCEPT ![b] = GrainOf(n, p)]
    /\ remaining' = [remaining EXCEPT ![b] = GrainsOf(n, GrainOf(n, p))]
    /\ joins' = p
    /\ batch' = [batch EXCEPT ![Main] = b]
    /\ Goto(Main, "enqueue")
    /\ UNCHANGED <<at, executed, ran, ownerVars, progressVars, accounted, queue,
                   notified, groups, joined, spurious>>

PushJobs ==
    /\ pc[Main] = "enqueue"
    /\ queue' = queue \o [i \in 1 .. JobCount(batch[Main]) |-> batch[Main]]
    /\ Goto(Main, "notify")
    /\ UNCHANGED <<batch, at, executed, ran, ownerVars, dispatchVars,
                   progressVars, groupVars, notified, groups, joined, spurious>>

Enqueue == QueueMutexFree /\ PushJobs

\* Where Main stands when DispatchRange returns, and what it holds: ParallelFor
\* the batch it joins, the caller of SubmitRange the wait group.
AfterDispatch == IF joins THEN "drain" ELSE "idle"
ReturnGroup ==
    IF joins THEN UNCHANGED <<batch, groups>>
    ELSE /\ batch' = [batch EXCEPT ![Main] = NoBatch]
         /\ groups' = groups \cup {batch[Main]}

NotifyAll ==
    /\ pc[Main] = "notify"
    /\ JobCount(batch[Main]) >= Cardinality(Workers)
    /\ WakeWorkers(AfterDispatch)
    /\ ReturnGroup
    /\ UNCHANGED <<at, executed, ran, ownerVars, dispatchVars,
                   progressVars, groupVars, queue, notified, joined, spurious>>

\* The loop of notify_one: each call wakes one sleeper, if there is one.
NotifyOne ==
    /\ pc[Main] = "notify"
    /\ JobCount(batch[Main]) < Cardinality(Workers)
    /\ LET last == notified + 1 >= JobCount(batch[Main])
           here == IF last THEN AfterDispatch ELSE "notify"
           sleepers == {w \in Workers : pc[w] = "waiting"}
       IN /\ \/ /\ sleepers = {}
                /\ Goto(Main, here)
             \/ \E w \in sleepers :
                   pc' = [pc EXCEPT ![Main] = here, ![w] = "park"]
          /\ notified' = IF last THEN 0 ELSE notified + 1
          /\ IF last THEN ReturnGroup ELSE UNCHANGED <<batch, groups>>
    /\ UNCHANGED <<at, executed, ran, ownerVars, dispatchVars,
                   progressVars, groupVars, queue, joined, spurious>>
-----------------------------------------------------------------------------
(* WorkerLoop.                                                             *)

TakeJob(w) ==
    /\ queue # <<>>
    /\ batch' = [batch EXCEPT ![w] = Head(queue)]
    /\ queue' = Tail(queue)
    /\ Goto(w, "drain")

\* The lock-free poll gives up: the queue looked empty, try_lock failed, or
\* the spin window ran out.
PollEmpty(w) ==
    /\ pc[w] = "poll"
    /\ Goto(w, "park")
    /\ UNCHANGED <<batch, queue>>

PollUnderLock(w) ==
    /\ pc[w] = "poll"
    /\ QueueMutexFree
    /\ \/ TakeJob(w)
       \/ /\ queue = <<>> /\ stopping
          /\ Goto(w, "exited")
          /\ UNCHANGED <<batch, queue>>

\* slip: the stop is looked at before the queue
ParkStopFirst(w) ==
    /\ pc[w] = "park"
    /\ QueueMutexFree
    /\ IF stopping
         THEN Goto(w, "exited") /\ UNCHANGED <<batch, queue>>
         ELSE \/ TakeJob(w)
              \/ /\ queue = <<>>
                 /\ Goto(w, "blocking")
                 /\ UNCHANGED <<batch, queue>>

\* slip: queue_cv_.wait without a predicate
ParkBlindly(w) ==
    /\ pc[w] = "park"
    /\ QueueMutexFree
    /\ Goto(w, "blocking")
    /\ UNCHANGED <<batch, queue>>

\* lock; evaluate the predicate of queue_cv_.wait.
Park(w) ==
    /\ pc[w] = "park"
    /\ QueueMutexFree
    /\ \/ TakeJob(w)
       \/ /\ queue = <<>>
          /\ Goto(w, IF stopping THEN "exited" ELSE "blocking")
          /\ UNCHANGED <<batch, queue>>

WorkerLoop(w) ==
    /\ PollEmpty(w) \/ PollUnderLock(w) \/ Park(w)
    /\ UNCHANGED <<at, executed, ran, ownerVars, dispatchVars, progressVars,
                   groupVars, notified, groups, joined, spurious>>

\* cv.wait releases the mutex and sleeps in one step (both condition variables).
Block(t) ==
    /\ pc[t] = "blocking"
    /\ Goto(t, "waiting")
    /\ UNCHANGED <<batch, at, executed, ran, ownerVars, dispatchVars,
                   progressVars, groupVars, queue, notified, groups, joined,
                   spurious>>

SpuriousWake(t) ==
    /\ pc[t] = "waiting"
    /\ spurious < MaxSpurious
    /\ spurious' = spurious + 1
    /\ Goto(t, IF t = Main THEN "lockGroup" ELSE "park")
    /\ UNCHANGED <<batch, at, executed, ran, ownerVars, dispatchVars,
                   progressVars, groupVars, queue, notified, groups, joined>>
-----------------------------------------------------------------------------
(* DrainBatch and FrameWaitGroup::MarkDone, on a worker or on Main.         *)

Claim(t) ==
    LET b == batch[t] IN
    /\ pc[t] = "drain"
    /\ cursor' = [cursor EXCEPT ![b] = @ + 1]
    /\ IF HasItems(cursor[b] * grain[b], count[b])
         THEN /\ at' = [at EXCEPT ![t] = cursor[b]]
              /\ calls' = [calls EXCEPT ![b] =
                    [i \in Items |->
                        IF i \in ItemsOf(cursor[b], count[b], grain[b])
                          THEN @[i] + 1 ELSE @[i]]]
              /\ Goto(t, "run")
         ELSE /\ Goto(t, "subtract")
              /\ UNCHANGED <<at, calls>>
    /\ UNCHANGED <<batch, executed, ran, ownerVars, dispatchVars, groupVars,
                   queue, notified, groups, joined, spurious>>

FinishGrain(t) ==
    /\ pc[t] = "run"
    /\ executed' = [executed EXCEPT ![t] = @ + 1]
    /\ ran' = [ran EXCEPT ![t] = @ \cup {at[t]}]
    /\ at' = [at EXCEPT ![t] = 0]
    /\ Goto(t, "drain")
    /\ UNCHANGED <<batch, ownerVars, dispatchVars, progressVars, groupVars,
                   queue, notified, groups, joined, spurious>>

\* Where a thread goes after MarkDone: a worker drops its Job, Main waits.
AfterMark(t) == IF t = Main THEN "wait" ELSE "poll"
DropJob(t) == batch' = IF t = Main THEN batch ELSE [batch EXCEPT ![t] = NoBatch]

\* What MarkDone subtracts: every grain the DrainBatch executed.
OneGrain(t) == AtMost(executed[t], 1)  \* slip: one grain per drain
Amount(t) == executed[t]

MarkDone(t) ==
    LET b == batch[t] IN
    /\ pc[t] = "subtract"
    /\ remaining' = [remaining EXCEPT ![b] = @ - Amount(t)]
    /\ accounted' = [accounted EXCEPT ![b] = @ \cup ran[t]]
    /\ executed' = [executed EXCEPT ![t] = 0]
    /\ ran' = [ran EXCEPT ![t] = {}]
    /\ IF Amount(t) # 0 /\ remaining[b] = Amount(t)
         THEN Goto(t, "notifyGroup") /\ UNCHANGED batch
         ELSE Goto(t, AfterMark(t)) /\ DropJob(t)
    /\ UNCHANGED <<at, ownerVars, dispatchVars, progressVars, queue, notified,
                   groups, joined, spurious>>

\* notify_all on the group's cv_: Main is the only possible sleeper.
NotifySleepers(t) ==
    LET b == batch[t]
        woken == pc[Main] = "waiting" /\ batch[Main] = b
    IN
    /\ pc[t] = "notifyGroup"
    /\ pc' = [x \in Threads |->
                 IF x = t THEN AfterMark(t)
                 ELSE IF x = Main /\ woken THEN "lockGroup" ELSE pc[x]]
    /\ DropJob(t)
    /\ UNCHANGED <<at, executed, ran, ownerVars, dispatchVars, progressVars,
                   groupVars, queue, notified, groups, joined, spurious>>

\* The notification holds the group's mutex, so that Main is not between its
\* test of remaining_ and its sleep.
NotifyGroup(t) == GroupMutexFree(batch[t]) /\ NotifySleepers(t)
-----------------------------------------------------------------------------
(* FrameWaitGroup::Wait.                                                    *)

CallWait(b) ==
    /\ pc[Main] = "idle"
    /\ b \in groups
    /\ batch' = [batch EXCEPT ![Main] = b]
    /\ Goto(Main, "wait")
    /\ UNCHANGED <<at, executed, ran, ownerVars, dispatchVars, progressVars,
                   groupVars, queue, notified, groups, joined, spurious>>

WaitReturns ==
    /\ Goto(Main, "idle")
    /\ batch' = [batch EXCEPT ![Main] = NoBatch]
    /\ groups' = groups \ {batch[Main]}
    /\ joined' = joined \cup {batch[Main]}

\* Load remaining_, first and while spinning, then under the group's mutex.
LoadRemaining ==
    /\ pc[Main] \in {"wait", "lockGroup"}
    /\ IF remaining[batch[Main]] = 0
         THEN WaitReturns
         ELSE /\ Goto(Main, IF pc[Main] = "wait" THEN "lockGroup" ELSE "blocking")
              /\ UNCHANGED <<batch, groups, joined>>
    /\ UNCHANGED <<at, executed, ran, ownerVars, dispatchVars, progressVars,
                   groupVars, queue, notified, spurious>>
-----------------------------------------------------------------------------
Dispatch(b) ==
    \E n \in Counts, p \in BOOLEAN :
        DispatchInline(b, n, p) \/ DispatchBatch(b, n, p)

\* What Main may decide to do between two calls: nothing obliges it to.
MainChooses ==
    \/ Initialize
    \/ SetStopping
    \/ \E b \in Batches : Dispatch(b) \/ CallWait(b)

\* What Main does inside a call.
MainSteps == WakeForStop \/ JoinWorkers \/ Enqueue \/ NotifyAll \/ NotifyOne
                \/ LoadRemaining

Drain(t) == Claim(t) \/ FinishGrain(t) \/ MarkDone(t) \/ NotifyGroup(t)

\* Between calls Main may stay away for ever: only then may nothing happen.
Rest == pc[Main] = "idle" /\ UNCHANGED vars

Next ==
    \/ MainChooses
    \/ MainSteps
    \/ \E w \in Workers : WorkerLoop(w)
    \/ \E t \in Threads : Drain(t) \/ Block(t) \/ SpuriousWake(t)
    \/ Rest

Fairness ==
    /\ WF_vars(MainSteps)
    /\ \A w \in Workers : WF_vars(WorkerLoop(w))
    /\ \A t \in Threads : WF_vars(Drain(t) \/ Block(t))

Spec == Init /\ [][Next]_vars
FairSpec == Spec /\ Fairness
-----------------------------------------------------------------------------
WorkerLabels == {"off", "poll", "park", "blocking", "waiting", "drain", "run",
                 "subtract", "notifyGroup", "exited"}
MainLabels == {"idle", "wakeAll", "join", "enqueue", "notify", "drain", "run",
               "subtract", "notifyGroup", "wait", "lockGroup", "blocking",
               "waiting"}

\* The labels of MarkDone and DrainBatch, at which a thread works for its batch.
Draining == {"drain", "run", "subtract", "notifyGroup"}

TypeOK ==
    /\ pc \in [Threads -> WorkerLabels \cup MainLabels]
    /\ \A w \in Workers : pc[w] \in WorkerLabels
    /\ pc[Main] \in MainLabels
    /\ batch \in [Threads -> Batches \cup {NoBatch}]
    /\ at \in [Threads -> Nat]
    /\ executed \in [Threads -> Nat]
    /\ ran \in [Threads -> SUBSET Nat]
    /\ queue \in Seq(Batches)
    /\ stopping \in BOOLEAN
    /\ initialized \in BOOLEAN
    /\ count \in [Batches -> 0 .. MaxCount]
    /\ grain \in [Batches -> Nat \ {0}]
    /\ cursor \in [Batches -> Nat]
    /\ remaining \in [Batches -> Nat]
    /\ stage \in [Batches -> {"unused", "inline", "batch"}]
    /\ joins \in BOOLEAN
    /\ notified \in Nat
    /\ groups \subseteq Batches
    /\ joined \subseteq Batches
    /\ starts \in 0 .. MaxStarts
    /\ spurious \in 0 .. MaxSpurious
    /\ calls \in [Batches -> [Items -> Nat]]
    /\ accounted \in [Batches -> SUBSET Nat]

\* The grains of a batch, and whether fn has been given an item.
Grains(b) == 0 .. GrainsOf(count[b], grain[b]) - 1
Called(b, i) == calls[b][i] > 0

\* fn never gets an item twice, whichever threads share the range: every
\* fetch_add of DrainBatch hands out a grain nobody else has.
NoItemTwice == \A b \in Batches : \A i \in Items : calls[b][i] <= 1

\* When Wait() or ParallelFor has returned, fn has had every item and no
\* thread is still inside it: the caller's captures may go out of scope, even
\* though Jobs of the batch may still sit in queue_.
WaitReturnsAfterWork ==
    \A b \in joined :
        /\ \A i \in Items : i < count[b] => Called(b, i)
        /\ \A t \in Threads : ~(batch[t] = b /\ pc[t] = "run")

\* Nothing SubmitRange queued is lost by Shutdown: the workers drain queue_
\* before they exit, whether or not anybody waits for the group.
ShutdownRunsTheQueue ==
    ~initialized =>
        /\ queue = <<>>
        /\ \A b \in Batches : \A i \in Items :
              stage[b] # "unused" /\ i < count[b] => calls[b][i] = 1

\* A batch whose wait returned is never touched again, although late workers
\* still pop its Jobs: their DrainBatch finds no grain and MarkDone(0) does
\* not subtract.
ReturnedBatchIsFrozen ==
    [][\A b \in joined : remaining'[b] = remaining[b] /\ calls'[b] = calls[b]]_vars

\* The items a thread is running fn on.
RunningItems(b) ==
    UNION {ItemsOf(at[t], count[b], grain[b]) :
              t \in {u \in Threads : pc[u] = "run" /\ batch[u] = b}}
Asked == {b \in Batches : stage[b] # "unused"}

\* The refinement mapping to RangeWork: an item is to do until a claim has
\* passed it to fn, running while the claimer is in fn, then done.
Work == INSTANCE RangeWork WITH
    todo <- [b \in Batches |->
               {i \in Items : stage[b] # "unused" /\ i < count[b] /\ ~Called(b, i)}],
    running <- [b \in Batches |-> RunningItems(b)],
    done <- [b \in Batches |-> {i \in Items : Called(b, i)} \ RunningItems(b)],
    asked <- Asked

\* Claims, completions, wake-ups and the late Jobs implement the promise that
\* every item is started and finished once, and joined only afterwards.
ImplementsRangeWork == Work!Spec

\* Every item of a dispatched range reaches fn, also when the range is
\* submitted to workers that are all asleep and nobody waits for it.
EveryItemRuns ==
    \A b \in Batches :
        stage[b] = "batch" ~> \A i \in Items : i < count[b] => Called(b, i)

\* Every call returns.  A wait, and a ParallelFor: the wake-up of the last MarkDone is
\* not lost between the waiter's test and its sleep.  A shutdown: no worker sleeps
\* through the stop, and none exits early.
CallsReturn == pc[Main] # "idle" ~> pc[Main] = "idle"
-----------------------------------------------------------------------------
(* The inductive invariant: who holds which grain.                          *)

\* The grains a thread has claimed and not yet subtracted.
Holding == {"drain", "run", "subtract"}
Held(t) == ran[t] \cup (IF pc[t] = "run" THEN {at[t]} ELSE {})

\* A thread inside a batch has one; `executed' counts the grains it has run;
\* workers exist while the system is initialized.
ThreadsInv ==
    /\ \A t \in Threads :
          /\ pc[t] \in Draining => batch[t] \in Batches /\ stage[batch[t]] = "batch"
          /\ pc[t] \notin Holding => ran[t] = {}
          /\ IsFiniteSet(ran[t])
          /\ executed[t] = Cardinality(ran[t])
          /\ pc[t] = "run" => at[t] \notin ran[t]
    /\ ~initialized => \A w \in Workers : pc[w] = "off"
    /\ pc[Main] \in {"enqueue", "notify"} =>
          batch[Main] \in Batches /\ stage[batch[Main]] = "batch"
    /\ pc[Main] \in {"wait", "lockGroup", "blocking", "waiting"} =>
          batch[Main] \in Batches /\ stage[batch[Main]] # "unused"

\* Nothing of a batch exists before it is dispatched, and nobody shares a
\* range that ran inline.
StagesInv ==
    /\ \A b \in Batches :
          /\ stage[b] # "batch" =>
                cursor[b] = 0 /\ remaining[b] = 0 /\ accounted[b] = {}
          /\ stage[b] = "unused" => b \notin groups \cup joined
          /\ stage[b] = "batch" => count[b] > 0
          /\ stage[b] = "unused" => \A i \in Items : calls[b][i] = 0
          /\ stage[b] = "inline" =>
                \A i \in Items : calls[b][i] = IF i < count[b] THEN 1 ELSE 0
    /\ \A i \in DOMAIN queue : stage[queue[i]] = "batch"

\* remaining_ is what is owed: the grains no thread has subtracted yet.
RemainingIsOwed ==
    \A b \in Batches :
        stage[b] = "batch" =>
            /\ \A k \in accounted[b] : k < cursor[b] /\ k < GrainsOf(count[b], grain[b])
            /\ remaining[b] = Cardinality(Grains(b) \ accounted[b])

\* A claimed grain has one holder until it is accounted for.
GrainsAreOwned ==
    /\ \A t \in Threads : pc[t] \in Holding =>
          \A k \in Held(t) :
              /\ k < cursor[batch[t]]
              /\ k < GrainsOf(count[batch[t]], grain[batch[t]])
              /\ k \notin accounted[batch[t]]
    /\ \A t, u \in Threads :
          /\ t # u /\ batch[t] = batch[u]
          /\ pc[t] \in Holding /\ pc[u] \in Holding
          => Held(t) \cap Held(u) = {}

\* fn has had exactly the items below the cursor.
CallsFollowCursor ==
    \A b \in Batches :
        stage[b] = "batch" =>
            \A i \in Items :
                calls[b][i] =
                    IF i < AtMost(cursor[b] * grain[b], count[b]) THEN 1 ELSE 0

JoinedIsDone ==
    \A b \in joined : stage[b] = "batch" => remaining[b] = 0

\* The inductive invariant of the batches: a claimed grain has one holder until
\* remaining_ accounts for it, and fn has had what the cursor has passed.
IInv ==
    /\ TypeOK
    /\ ThreadsInv
    /\ StagesInv
    /\ RemainingIsOwed
    /\ GrainsAreOwned
    /\ CallsFollowCursor
    /\ JoinedIsDone

\* Why Shutdown strands nothing: a range with items left is referred to by a
\* Job in queue_, by the dispatch about to push one or by a thread draining it,
\* and a worker exits only once the queue is empty for good.
ShutdownInv ==
    /\ ~initialized => queue = <<>>
    /\ initialized => \A w \in Workers : pc[w] # "off"
    /\ initialized /\ stopping => pc[Main] \in {"wakeAll", "join"}
    /\ pc[Main] \in {"wakeAll", "join"} => stopping
    /\ pc[Main] \in {"wakeAll", "join", "enqueue", "notify", "drain", "run"} =>
          initialized
    /\ \A w \in Workers :
          pc[w] = "exited" => queue = <<>> /\ pc[Main] \in {"wakeAll", "join"}
    /\ \A b \in Batches :
          stage[b] = "batch" /\ cursor[b] * grain[b] < count[b] =>
              \/ \E i \in DOMAIN queue : queue[i] = b
              \/ pc[Main] = "enqueue" /\ batch[Main] = b
              \/ \E t \in Threads : batch[t] = b /\ pc[t] \in {"drain", "run"}
=============================================================================
