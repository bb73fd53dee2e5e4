----------------------------- MODULE TaskService -----------------------------
(***************************************************************************)
(* What the users of a thread pool rely on.  A submitted task is begun at  *)
(* most once, whenever the pool pleases, or withdrawn before it was begun; *)
(* its record is kept until it is forgotten.  Stopping the pool withdraws  *)
(* what waits, and lasts until nothing runs; ids are given out again in    *)
(* the pool's next life.                                                   *)
(*                                                                         *)
(* ThreadPool implements this module, ModelStreamer is built on it.        *)
(***************************************************************************)
EXTENDS Naturals, FiniteSets

CONSTANT MaxTasks   \* bound: tasks submitted in one life of the pool

ASSUME TaskAssumption == MaxTasks \in Nat

TaskIds == 1 .. MaxTasks

VARIABLES
    open,    \* the pool accepts tasks
    state,   \* [TaskIds -> what became of the task]
    kept     \* the tasks that are not forgotten

taskVars == <<open, state, kept>>

States == {"new", "queued", "running", "ended", "withdrawn"}
In(s) == {i \in TaskIds : state[i] = s}

Closed ==
    /\ open = FALSE
    /\ state = [i \in TaskIds |-> "new"]
    /\ kept = {}

\* A pool is opened again only after whatever ran in its last life has ended.
Open ==
    /\ ~open
    /\ In("queued") \cup In("running") = {}
    /\ open' = TRUE
    /\ state' = [i \in TaskIds |-> "new"]
    /\ kept' = {}

\* Ids are given out in order.
NextId(i) == i \in TaskIds /\ \A j \in TaskIds : state[j] = "new" <=> j >= i

\* A pool without workers begins the task in the call.
SubmitAs(i, s) ==
    /\ open
    /\ NextId(i)
    /\ state' = [state EXCEPT ![i] = s]
    /\ kept' = kept \cup {i}
    /\ UNCHANGED open

Move(i, from, to) ==
    /\ state[i] = from
    /\ state' = [state EXCEPT ![i] = to]
    /\ UNCHANGED <<open, kept>>

Begin(i) == Move(i, "queued", "running")
End(i) == Move(i, "running", "ended")
Withdraw(i) == Move(i, "queued", "withdrawn")

Forget(i) ==
    /\ i \in kept
    /\ kept' = kept \ {i}
    /\ UNCHANGED <<open, state>>

Close ==
    /\ open
    /\ open' = FALSE
    /\ state' = [i \in TaskIds |->
                    IF state[i] = "queued" THEN "withdrawn" ELSE state[i]]
    /\ UNCHANGED kept

Step ==
    \/ Open \/ Close
    \/ \E i \in TaskIds :
          \/ \E s \in {"queued", "running"} : SubmitAs(i, s)
          \/ Begin(i) \/ End(i) \/ Withdraw(i) \/ Forget(i)

Service == Closed /\ [][Step]_taskVars
=============================================================================
