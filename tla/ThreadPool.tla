----------------------------- MODULE ThreadPool -----------------------------
(***************************************************************************)
(* ThreadPoolSystem (runtime/scheduling/thread_pool_system) runs submitted *)
(* tasks on worker threads by priority, or in the submitting thread when   *)
(* it was initialized with none.  Owner starts and stops the pool; every   *)
(* caller submits, cancels, forgets and waits for all.                     *)
(*                                                                         *)
(* A critical section under m_mutex is one step.  A condition variable is  *)
(* notified in a step of its own wherever the code has released the mutex; *)
(* testing a predicate and going to sleep is one step, since what changes  *)
(* the predicate holds the mutex.  A sleeper may wake for no reason.       *)
(***************************************************************************)
EXTENDS Naturals, Sequences, FiniteSets, SequencesExt

CONSTANTS
    Workers,      \* the worker threads
    Callers,      \* the threads that use the pool
    Owner,        \* the caller that starts and stops it
    ThreadCounts, \* the arguments of Initialize: 0 for the synchronous mode
    Priorities,   \* the TaskPriority values in use
    MaxTasks,     \* bound: tasks submitted after one Initialize
    MaxStarts     \* bound: calls of Initialize

ASSUME PoolAssumption ==
    /\ IsFiniteSet(Workers) /\ IsFiniteSet(Callers)
    /\ Owner \in Callers
    /\ Workers \cap Callers = {}
    /\ ThreadCounts \subseteq {0, Cardinality(Workers)}
    /\ Priorities \subseteq Nat
    /\ MaxTasks \in Nat
    /\ MaxStarts \in Nat

Threads == Workers \cup Callers
Ids == 1 .. MaxTasks
NoTask == 0

VARIABLES
    pc,            \* [Threads -> label]
    task,          \* [Threads -> the task the thread runs]
    queues,        \* m_queues: [Priorities -> sequence of ids]
    tasks,         \* m_tasks: [Ids -> status, "none" without a record]
    forget,        \* m_forgetOnCompletion
    nextId,        \* m_nextId
    initialized,   \* m_initialized
    stopping,      \* m_stopping
    syncMode,      \* m_syncMode
    running,       \* m_runningCount
    completed,     \* m_completedCount
    starts,        \* counter for MaxStarts
    held,          \* the ids the callers still use: submitted, not forgotten
    runs,          \* history: [Ids -> times the task was begun]
    withdrawn      \* history: the ids CancelTask or Shutdown cancelled

poolVars == <<initialized, stopping, syncMode, starts>>
countVars == <<running, completed>>
recordVars == <<tasks, forget>>
historyVars == <<held, runs, withdrawn>>
vars == <<pc, task, queues, recordVars, nextId, poolVars, countVars, historyVars>>

Queued == UNION {ToSet(queues[p]) : p \in Priorities}
QueuesEmpty == \A p \in Priorities : queues[p] = <<>>
Goto(t, label) == pc' = [pc EXCEPT ![t] = label]

Init ==
    /\ pc = [t \in Threads |-> IF t \in Callers THEN "idle" ELSE "off"]
    /\ task = [t \in Threads |-> NoTask]
    /\ queues = [p \in Priorities |-> <<>>]
    /\ tasks = [i \in Ids |-> "none"]
    /\ forget = {}
    /\ nextId = 1
    /\ initialized = FALSE
    /\ stopping = FALSE
    /\ syncMode = FALSE
    /\ running = 0
    /\ completed = 0
    /\ starts = 0
    /\ held = {}
    /\ runs = [i \in Ids |-> 0]
    /\ withdrawn = {}
-----------------------------------------------------------------------------
(* Initialize and Shutdown.                                                *)

\* Task ids, records and counters start again: the ids of an earlier life mean
\* nothing, and the callers drop them.
Initialize(n) ==
    /\ pc[Owner] = "idle"
    /\ ~initialized
    /\ starts < MaxStarts
    /\ starts' = starts + 1
    /\ stopping' = FALSE
    /\ initialized' = TRUE
    /\ completed' = 0
    /\ running' = 0
    /\ nextId' = 1
    /\ tasks' = [i \in Ids |-> "none"]
    /\ forget' = {}
    /\ queues' = [p \in Priorities |-> <<>>]
    /\ syncMode' = (n = 0)
    /\ pc' = [t \in Threads |->
                 IF t \in Workers /\ n # 0 THEN "ready" ELSE pc[t]]
    /\ held' = {}
    /\ runs' = [i \in Ids |-> 0]
    /\ withdrawn' = {}
    /\ UNCHANGED task

\* What is queued is cancelled in the critical section that refuses further tasks.
Stop ==
    /\ pc[Owner] = "idle"
    /\ initialized
    /\ stopping' = TRUE
    /\ initialized' = FALSE
    /\ tasks' = [i \in Ids |->
                    IF i \in Queued /\ tasks[i] # "none" THEN "cancelled"
                    ELSE tasks[i]]
    /\ withdrawn' = withdrawn \cup Queued
    /\ queues' = [p \in Priorities |-> <<>>]
    /\ Goto(Owner, "wakeAll")
    /\ UNCHANGED <<task, forget, nextId, syncMode, starts, countVars, held, runs>>

WokenWaiter(t) == IF pc[t] = "awaiting" THEN "waitAll" ELSE pc[t]  \* slip: workers sleep on
Woken(t) ==
    CASE pc[t] = "sleeping" -> "ready"
      [] pc[t] = "awaiting" -> "waitAll"
      [] OTHER -> pc[t]

WakeAll ==
    /\ pc[Owner] = "wakeAll"
    /\ pc' = [t \in Threads |-> IF t = Owner THEN "join" ELSE Woken(t)]
    /\ UNCHANGED <<task, queues, recordVars, nextId, poolVars, countVars,
                   historyVars>>

Join ==
    /\ pc[Owner] = "join"
    /\ \A w \in Workers : pc[w] \in {"off", "exited"}
    /\ syncMode' = FALSE
    /\ pc' = [t \in Threads |->
                 IF t = Owner THEN "idle" ELSE IF t \in Workers THEN "off" ELSE pc[t]]
    /\ UNCHANGED <<task, queues, recordVars, nextId, initialized, stopping, starts,
                   countVars, historyVars>>
-----------------------------------------------------------------------------
(* Submit.                                                                 *)

Enter(id) ==
    /\ nextId' = nextId + 1
    /\ held' = held \cup {id}

Submit(c, p) ==
    /\ pc[c] = "idle"
    /\ initialized /\ ~syncMode
    /\ nextId \in Ids
    /\ Enter(nextId)
    /\ tasks' = [tasks EXCEPT ![nextId] = "pending"]
    /\ queues' = [queues EXCEPT ![p] = Append(@, nextId)]
    /\ Goto(c, "notify")
    /\ UNCHANGED <<task, forget, poolVars, countVars, runs, withdrawn>>

\* m_cv.notify_one, after the mutex is released.
NotifyOne(c) ==
    /\ pc[c] = "notify"
    /\ LET sleepers == {w \in Workers : pc[w] = "sleeping"}
       IN \/ /\ sleepers = {}
             /\ Goto(c, "idle")
          \/ \E w \in sleepers :
                pc' = [pc EXCEPT ![c] = "idle", ![w] = "ready"]
    /\ UNCHANGED <<task, queues, recordVars, nextId, poolVars, countVars,
                   historyVars>>

\* The synchronous mode: the caller runs the task itself, without the mutex.  Only
\* the owner may submit then: Shutdown joins workers, it does not wait for a caller.
SubmitSync(c) ==
    /\ c = Owner
    /\ pc[c] = "idle"
    /\ initialized /\ syncMode
    /\ nextId \in Ids
    /\ Enter(nextId)
    /\ tasks' = [tasks EXCEPT ![nextId] = "running"]
    /\ running' = running + 1
    /\ runs' = [runs EXCEPT ![nextId] = @ + 1]
    /\ task' = [task EXCEPT ![c] = nextId]
    /\ Goto(c, "inline")
    /\ UNCHANGED <<queues, forget, completed, poolVars, withdrawn>>
-----------------------------------------------------------------------------
(* WorkerLoop.                                                             *)

\* The first task of the highest priority queued.
Highest(p) ==
    /\ queues[p] # <<>>
    /\ \A q \in Priorities : queues[q] # <<>> => q <= p

TakeTask(w) ==
    /\ pc[w] = "ready"
    /\ ~stopping
    /\ \E p \in Priorities :
          /\ Highest(p)
          /\ task' = [task EXCEPT ![w] = Head(queues[p])]
          /\ queues' = [queues EXCEPT ![p] = Tail(@)]
          /\ tasks' = [tasks EXCEPT ![Head(queues[p])] = "running"]
          /\ runs' = [runs EXCEPT ![Head(queues[p])] = @ + 1]
    /\ running' = running + 1
    /\ Goto(w, "running")
    /\ UNCHANGED <<forget, nextId, poolVars, completed, held, withdrawn>>

\* slip: the queues are not looked at before the worker sleeps
IdleAnyway(w) ==
    /\ pc[w] = "ready"
    /\ Goto(w, IF stopping THEN "exited" ELSE "sleeping")
    /\ UNCHANGED <<task, queues, recordVars, nextId, poolVars, countVars,
                   historyVars>>

Idle(w) == (stopping \/ QueuesEmpty) /\ IdleAnyway(w)

\* slip: what was forgotten while it ran keeps its record
KeepRecord(i, status) == tasks' = [tasks EXCEPT ![i] = status] /\ UNCHANGED forget
\* The record gets its final status, or goes if it was forgotten meanwhile.
CloseRecord(i, status) ==
    /\ tasks' = [tasks EXCEPT ![i] = IF i \in forget THEN "none" ELSE status]
    /\ forget' = forget \ {i}

\* The task has returned, or thrown.
Finish(t) ==
    /\ \E status \in {"completed", "failed"} : CloseRecord(task[t], status)
    /\ running' = running - 1
    /\ completed' = completed + 1
    /\ task' = [task EXCEPT ![t] = NoTask]
    /\ UNCHANGED <<queues, nextId, poolVars, historyVars>>

FinishTask(w) ==
    /\ pc[w] = "running"
    /\ Finish(w)
    /\ Goto(w, "announce")

\* m_doneCV.notify_all.
WakeWaiters(t, label) ==
    pc' = [x \in Threads |->
              IF x = t THEN label
              ELSE IF pc[x] = "awaiting" THEN "waitAll" ELSE pc[x]]

Announce(w) ==
    /\ pc[w] = "announce"
    /\ WakeWaiters(w, "ready")
    /\ UNCHANGED <<task, queues, recordVars, nextId, poolVars, countVars,
                   historyVars>>

FinishSync(c) ==
    /\ pc[c] = "inline"
    /\ Finish(c)
    /\ WakeWaiters(c, "idle")
-----------------------------------------------------------------------------
(* CancelTask, ForgetTask and WaitForAll.                                  *)

\* slip: the record is cancelled, the queue keeps the task
CancelRecord(i) == UNCHANGED queues
Dequeue(i) ==
    \E p \in Priorities : \E k \in DOMAIN queues[p] :
        /\ queues[p][k] = i
        /\ queues' = [queues EXCEPT ![p] = RemoveAt(@, k)]

CancelQuietly(c) == UNCHANGED pc  \* slip: nobody is told of the cancellation
CancelNotifies(c) == WakeWaiters(c, "idle")

CancelTask(c, i) ==
    /\ pc[c] = "idle"
    /\ i \in held
    /\ i \in Queued
    /\ Dequeue(i)
    /\ tasks' = [tasks EXCEPT ![i] = "cancelled"]
    /\ withdrawn' = withdrawn \cup {i}
    /\ CancelNotifies(c)
    /\ UNCHANGED <<task, forget, nextId, poolVars, countVars, held, runs>>

\* slip: a task under way loses its record at once
ForgetAtOnce(i) == tasks' = [tasks EXCEPT ![i] = "none"] /\ UNCHANGED forget
ForgetRecord(i) ==
    IF tasks[i] \in {"pending", "running"}
      THEN forget' = forget \cup {i} /\ UNCHANGED tasks
      ELSE tasks' = [tasks EXCEPT ![i] = "none"] /\ UNCHANGED forget

\* A caller that forgets a task uses its id no more: those of the code cancel first, as a
\* task that waits when it is forgotten and is cancelled then would keep its record.
ForgetTask(c, i) ==
    /\ pc[c] = "idle"
    /\ i \in held
    /\ ForgetRecord(i)
    /\ held' = held \ {i}
    /\ UNCHANGED <<pc, task, queues, nextId, poolVars, countVars, runs, withdrawn>>

WaitForAll(c) ==
    /\ pc[c] = "idle"
    /\ Goto(c, "waitAll")
    /\ UNCHANGED <<task, queues, recordVars, nextId, poolVars, countVars,
                   historyVars>>

TestDone(c) ==
    /\ pc[c] = "waitAll"
    /\ Goto(c, IF QueuesEmpty /\ running = 0 THEN "idle" ELSE "awaiting")
    /\ UNCHANGED <<task, queues, recordVars, nextId, poolVars, countVars,
                   historyVars>>

SpuriousWake(t) ==
    /\ \/ pc[t] = "sleeping" /\ Goto(t, "ready")
       \/ pc[t] = "awaiting" /\ Goto(t, "waitAll")
    /\ UNCHANGED <<task, queues, recordVars, nextId, poolVars, countVars,
                   historyVars>>
-----------------------------------------------------------------------------
WorkerStep(w) == TakeTask(w) \/ Idle(w) \/ FinishTask(w) \/ Announce(w)
OwnerStep == WakeAll \/ Join
CallerStep(c) == NotifyOne(c) \/ FinishSync(c) \/ TestDone(c)

Next ==
    \/ \E n \in ThreadCounts : Initialize(n)
    \/ Stop \/ OwnerStep
    \/ \E c \in Callers :
          \/ \E p \in Priorities : Submit(c, p)
          \/ SubmitSync(c)
          \/ \E i \in Ids : CancelTask(c, i) \/ ForgetTask(c, i)
          \/ WaitForAll(c)
          \/ CallerStep(c)
    \/ \E w \in Workers : WorkerStep(w)
    \/ \E t \in Threads : SpuriousWake(t)

Spec == Init /\ [][Next]_vars

\* The threads are scheduled, and the tasks they run return.
FairSpec ==
    /\ Spec
    /\ \A w \in Workers : WF_vars(WorkerStep(w))
    /\ \A c \in Callers : WF_vars(CallerStep(c))
    /\ WF_vars(OwnerStep)
-----------------------------------------------------------------------------
Labels == {"off", "ready", "sleeping", "running", "announce", "exited", "idle",
           "notify", "inline", "waitAll", "awaiting", "wakeAll", "join"}
Statuses == {"none", "pending", "running", "completed", "failed", "cancelled"}

TypeOK ==
    /\ pc \in [Threads -> Labels]
    /\ task \in [Threads -> Ids \cup {NoTask}]
    /\ queues \in [Priorities -> Seq(Ids)]
    /\ tasks \in [Ids -> Statuses]
    /\ forget \subseteq Ids
    /\ nextId \in 1 .. MaxTasks + 1
    /\ initialized \in BOOLEAN
    /\ stopping \in BOOLEAN
    /\ syncMode \in BOOLEAN
    /\ running \in Nat
    /\ completed \in Nat
    /\ starts \in 0 .. MaxStarts
    /\ held \subseteq Ids
    /\ runs \in [Ids -> Nat]
    /\ withdrawn \subseteq Ids

Runners == {t \in Threads : pc[t] \in {"running", "inline"}}

\* A task runs at most once, and one that CancelTask or Shutdown cancelled never.
RunsAtMostOnce == \A i \in Ids : runs[i] <= IF i \in withdrawn THEN 0 ELSE 1

\* The records tell the truth: a task is pending exactly when it is queued, in one
\* place, and running exactly when one thread runs it, so that what a record says
\* is what CancelTask and ForgetTask will find.
RecordsAreTrue ==
    /\ \A i \in Ids : tasks[i] = "pending" <=> i \in Queued
    /\ \A i \in Ids : tasks[i] = "running" <=> \E t \in Runners : task[t] = i
    /\ \A t, u \in Runners : task[t] = task[u] => t = u
    /\ \A p, q \in Priorities : \A i \in DOMAIN queues[p], j \in DOMAIN queues[q] :
          queues[p][i] = queues[q][j] => p = q /\ i = j

\* The counters count: m_runningCount the tasks being run, whatever starts and
\* stops happened, and m_completedCount those that were begun and have ended.
CountersAreTrue ==
    /\ running = Cardinality(Runners)
    /\ running + completed = Cardinality({i \in Ids : runs[i] > 0})

\* What the lives of the pool leave alone: workers outlive no Shutdown, nothing is
\* queued after one, only the owner runs a task itself, and an id that was not given
\* out has no trace.
LivesAreApart ==
    /\ pc[Owner] \notin {"wakeAll", "join"} /\ ~initialized =>
          \A w \in Workers : pc[w] = "off"
    /\ initialized => ~stopping /\ pc[Owner] \notin {"wakeAll", "join"}
    /\ ~initialized => QueuesEmpty
    /\ \A c \in Callers : pc[c] # "running" /\ (pc[c] = "inline" => c = Owner)
    /\ \A i \in Ids : i >= nextId =>
          tasks[i] = "none" /\ runs[i] = 0 /\ i \notin held \cup forget \cup withdrawn

\* Forgetting is not leaked: a task waits to be forgotten only while it is queued or
\* running (a pool being stopped is emptied by the next Initialize), and nobody
\* uses the id of a task that waits.
ForgottenIsLive ==
    /\ initialized => \A i \in forget : tasks[i] \in {"pending", "running"}
    /\ forget \cap held = {}

\* A task that is queued was never begun nor cancelled.
QueuedIsNew == \A i \in Queued : runs[i] = 0 /\ i \notin withdrawn

\* A thread runs a task, which was begun, and a thread that runs none has none.
RunnersHaveTasks ==
    \A t \in Threads :
        IF t \in Runners THEN task[t] # NoTask /\ runs[task[t]] > 0 ELSE task[t] = NoTask

\* The inductive invariant: records, queues, threads and counters agree.
IInv ==
    /\ TypeOK
    /\ RecordsAreTrue
    /\ RunsAtMostOnce
    /\ QueuedIsNew
    /\ RunnersHaveTasks
    /\ CountersAreTrue
    /\ LivesAreApart
    /\ ForgottenIsLive

\* A record only moves forward, and no record comes back after it went: a finished
\* or cancelled task is not made to look alive, except by a new life of the pool.
Forward ==
    {<<"none", "pending">>, <<"none", "running">>, <<"pending", "running">>,
     <<"pending", "cancelled">>, <<"running", "completed">>,
     <<"running", "failed">>, <<"running", "none">>, <<"completed", "none">>,
     <<"failed", "none">>, <<"cancelled", "none">>}
StatusMovesForward ==
    [][starts' = starts =>
          \A i \in Ids : \/ tasks'[i] = tasks[i]
                         \/ /\ <<tasks[i], tasks'[i]>> \in Forward
                            /\ tasks[i] = "none" => i = nextId]_vars

\* What users are promised (TaskService): whatever the queues, threads and records go
\* through, a task is begun once or withdrawn, a stopped pool begins nothing, and the
\* next life starts when the last one has ended.
ServiceState(i) ==
    CASE i >= nextId -> "new"
      [] i \in Queued -> "queued"
      [] i \in {task[t] : t \in Threads} -> "running"
      [] i \in withdrawn -> "withdrawn"
      [] OTHER -> "ended"
TS == INSTANCE TaskService WITH
          open <- initialized,
          kept <- {i \in Ids : tasks[i] # "none" /\ i \notin forget},
          state <- [i \in Ids |-> ServiceState(i)]
ImplementsTaskService == TS!Service

\* No wake-up is lost: a task that is queued is run or cancelled.
QueuedIsServed == \A i \in Ids : i \in Queued ~> i \notin Queued

\* WaitForAll returns, whether its tasks finish or are cancelled meanwhile, and Shutdown
\* does: every worker sees the stop.
CallersReturn == \A c \in Callers : pc[c] \in {"waitAll", "wakeAll"} ~> pc[c] = "idle"
=============================================================================
