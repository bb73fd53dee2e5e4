---------------------------- MODULE ModelStreamer ----------------------------
(***************************************************************************)
(* M2ResourceStreamer (render/m2/m2_resource_streamer) and the parts of    *)
(* M2ModelRepository and M2SystemState it works on.  The main thread asks  *)
(* for models and gets leases (tickets); tasks of a thread pool prepare    *)
(* the models and post what they found in a mailbox; Pump, once a frame,   *)
(* takes the mailbox in, commits textures and models within a budget and   *)
(* recycles what nobody uses.                                              *)
(*                                                                         *)
(* The main thread's calls are steps, except Pump, which takes the three   *)
(* queues of the mailbox one after the other, and Shutdown, which joins    *)
(* the workers.  The pool is TaskService's.  A budget is the permission to *)
(* stop after the first commit; a delay is over when TimePasses says so.   *)
(***************************************************************************)
EXTENDS Naturals, Sequences, FiniteSets, SequencesExt, TaskService

CONSTANTS
    Paths,        \* the models' paths
    NoPath,
    Priorities,   \* the M2StreamPriority values in use
    MaxTextures,  \* bound: textures of a model
    MaxModels,    \* bound: model ids given out
    MaxLeases,    \* bound: calls of Acquire
    MaxResets,    \* bound: shutdowns and device resets
    MaxLoads      \* bound: synchronous loads

ASSUME StreamerAssumption ==
    /\ NoPath \notin Paths
    /\ Priorities \subseteq Nat
    /\ MaxTextures \in Nat /\ MaxModels \in Nat /\ MaxLeases \in Nat
    /\ MaxResets \in Nat /\ MaxLoads \in Nat

Ids == 1 .. MaxModels
LeaseIds == 1 .. MaxLeases
None == 0

VARIABLES
    rows,        \* model_paths_: [Paths -> model id]
    models,      \* models_: the ids of the published models
    instances,   \* the models that have instances
    nextModel,   \* next_model_id_
    records,     \* records_: [Ids -> record], Absent where there is none
    leases,      \* leases_: [LeaseIds -> record and generation]
    queue,       \* commit_queue_
    nextGen,     \* next_generation_
    nextLease,   \* next_lease_id_
    loader,      \* file_loader_ is set
    job,         \* [TaskIds -> what a task was submitted with and has posted]
    box,         \* which mailbox is mailbox_
    headers,     \* header_bounds_completions: set of posts
    earlies,     \* early_completions: set of posts
    finals,      \* completions: sequence of posts with their outcomes
    pc,          \* where the main thread is
    progressed,  \* this Pump has committed something
    resets, loads \* counters for MaxResets and MaxLoads

repoVars == <<rows, models, instances, nextModel>>
recordVars == <<records, leases, queue, nextGen, nextLease>>
postVars == <<headers, earlies, finals>>
mainVars == <<loader, pc, progressed, resets, loads>>
vars == <<repoVars, recordVars, postVars, mainVars, job, box, taskVars>>

Absent ==
    [phase |-> "none", path |-> NoPath, gen |-> 0, leases |-> 0, priority |-> 0,
     task |-> None, queued |-> FALSE, textures |-> 0, timer |-> "off", info |-> "none",
     model |-> None]
NoLease == [record |-> None, gen |-> 0]
NoJob == [record |-> None, gen |-> 0, box |-> 0, posted |-> 0]

Known == {i \in Ids : records[i].phase # "none"}
Held == {l \in LeaseIds : leases[l] # NoLease}
RecordOf(l) == records[leases[l].record]

Init ==
    /\ Closed
    /\ rows = [p \in Paths |-> None]
    /\ models = {}
    /\ instances = {}
    /\ nextModel = 1
    /\ records = [i \in Ids |-> Absent]
    /\ leases = [l \in LeaseIds |-> NoLease]
    /\ queue = <<>>
    /\ nextGen = 1
    /\ nextLease = 1
    /\ loader = FALSE
    /\ job = [t \in TaskIds |-> NoJob]
    /\ box = 1
    /\ headers = {}
    /\ earlies = {}
    /\ finals = <<>>
    /\ pc = "idle"
    /\ progressed = FALSE
    /\ resets = 0
    /\ loads = 0
-----------------------------------------------------------------------------
(* The repository.                                                         *)

\* The id a path has, or gets.
IdFor(p) == IF rows[p] # None THEN rows[p] ELSE nextModel

ReserveIdentity(p) ==
    /\ IdFor(p) \in Ids
    /\ rows' = [rows EXCEPT ![p] = IdFor(p)]
    /\ nextModel' = IF rows[p] = None THEN nextModel + 1 ELSE nextModel

\* The rows that are left when the models in gone are erased with their rows, and
\* those of the records in ids that have no model are forgotten.
RowsWithout(gone, ids) ==
    [p \in Paths |-> IF \/ rows[p] \in gone
                        \/ rows[p] \in ids /\ rows[p] \notin models
                       THEN None ELSE rows[p]]
-----------------------------------------------------------------------------
(* Start and the loader.                                                   *)

NewMailbox ==
    /\ box' = box + 1
    /\ headers' = {}
    /\ earlies' = {}
    /\ finals' = <<>>

\* Also what Schedule does first when it finds the pool stopped.
Start ==
    /\ pc = "idle"
    /\ Open
    /\ NewMailbox
    /\ UNCHANGED <<repoVars, recordVars, mainVars, job>>

Removed(ids) == [i \in Ids |-> IF i \in ids THEN Absent ELSE records[i]]

\* The first loader, or another: it may find what the old one did not, and unused failures
\* are dropped.
SetFileLoader ==
    /\ pc = "idle"
    /\ loader' = TRUE
    /\ LET obsolete == {i \in Known : /\ records[i].phase = "failed"
                                      /\ records[i].leases = 0}
       IN /\ records' = Removed(obsolete)
          /\ rows' = RowsWithout({}, obsolete)
    /\ UNCHANGED <<models, instances, nextModel, leases, queue, nextGen, nextLease,
                   postVars, pc, progressed, resets, loads, job, box, taskVars>>
-----------------------------------------------------------------------------
(* Acquire and Release.                                                    *)

\* slip: a failure takes the record off the queue and says nothing
FailedQuietly(r) == [r EXCEPT !.queued = FALSE, !.timer = "set"]
Failed(r) ==
    [r EXCEPT !.phase = "failed", !.queued = FALSE, !.textures = 0, !.timer = "set"]

\* slip: a new lease leaves the count alone
GrantUncounted(i, r) ==
    /\ records' = [records EXCEPT ![i] = r]
    /\ leases' = [leases EXCEPT ![nextLease] = [record |-> i, gen |-> r.gen]]
    /\ nextLease' = nextLease + 1

Grant(i, r) ==
    /\ records' = [records EXCEPT ![i] = [r EXCEPT !.leases = @ + 1]]
    /\ leases' = [leases EXCEPT ![nextLease] = [record |-> i, gen |-> r.gen]]
    /\ nextLease' = nextLease + 1

\* Prepares record i in a task, or fails it when there is no loader; the lease is
\* granted either way.  old is the task it had, withdrawn and forgotten by now.
Schedule(i, r, old) ==
    IF loader
      THEN \E t \in TaskIds :
              /\ open /\ NextId(t)
              /\ state' = [s \in TaskIds |->
                              IF s = t THEN "queued"
                              ELSE IF s = old THEN "withdrawn" ELSE state[s]]
              /\ kept' = (kept \ {old}) \cup {t}
              /\ job' = [s \in TaskIds |->
                            IF s = t THEN [record |-> i, gen |-> r.gen, box |-> box,
                                           posted |-> 0]
                            ELSE IF s = old THEN NoJob ELSE job[s]]
              /\ Grant(i, [r EXCEPT !.phase = "preparing", !.task = t])
              /\ UNCHANGED open
      ELSE /\ state' = [s \in TaskIds |-> IF s = old THEN "withdrawn" ELSE state[s]]
           /\ kept' = kept \ {old}
           /\ job' = [s \in TaskIds |-> IF s = old THEN NoJob ELSE job[s]]
           /\ Grant(i, Failed([r EXCEPT !.task = None]))
           /\ UNCHANGED open

AcquireNew(p, priority) ==
    LET i == IdFor(p)
        r == [Absent EXCEPT !.path = p, !.gen = nextGen, !.priority = priority]
    IN /\ records[i].phase = "none"
       /\ nextGen' = nextGen + 1
       /\ \/ /\ i \in models
             /\ Grant(i, [r EXCEPT !.phase = "ready", !.model = i, !.info = "model"])
             /\ UNCHANGED <<job, taskVars>>
          \/ /\ i \notin models
             /\ Schedule(i, r, None)
       /\ UNCHANGED queue

\* The record's priority after a request, and its delay: a ready record that is
\* leased again is not recycled.
Renewed(r, priority) ==
    [r EXCEPT !.priority = IF priority > @ THEN priority ELSE @,
              !.timer = IF r.phase = "failed" THEN @ ELSE "off"]

\* Behind those of its priority and before those of a lower one.
Place(q, priority) ==
    CHOOSE at \in 1 .. Len(q) + 1 :
        /\ \A k \in 1 .. at - 1 : records[q[k]].priority >= priority
        /\ at <= Len(q) => records[q[at]].priority < priority
Insert(q, i, priority) == InsertAt(q, Place(q, priority), i)

\* A queued record is in the queue once.
Without(q, i) == RemoveAt(q, CHOOSE at \in DOMAIN q : q[at] = i)

AcquireKnown(p, priority) ==
    LET i == IdFor(p)
        r == records[i]
        raised == priority > r.priority
        resubmit == raised /\ r.phase = "preparing" /\ state[r.task] = "queued"
        retry == r.phase = "failed" /\ r.leases = 0 /\ r.timer = "past"
    IN /\ r.phase # "none"
       /\ queue' = IF raised /\ r.queued THEN Insert(Without(queue, i), i, priority)
                   ELSE queue
       /\ \/ /\ resubmit
             /\ Schedule(i, Renewed(r, priority), r.task)
             /\ UNCHANGED nextGen
          \/ /\ retry
             /\ Schedule(i, [Renewed(r, priority) EXCEPT !.gen = nextGen,
                                                         !.info = "none"], None)
             /\ nextGen' = nextGen + 1
          \/ /\ ~resubmit /\ ~retry
             /\ Grant(i, Renewed(r, priority))
             /\ UNCHANGED <<job, taskVars, nextGen>>

Acquire(p, priority) ==
    /\ pc = "idle"
    /\ nextLease \in LeaseIds
    /\ ReserveIdentity(p)
    /\ AcquireNew(p, priority) \/ AcquireKnown(p, priority)
    /\ UNCHANGED <<models, instances, postVars, mainVars, box>>

\* slip: a released preparation keeps its task's record in the pool
CancelOnly(theirs) ==
    /\ state' = [t \in TaskIds |-> IF t \in theirs /\ state[t] = "queued"
                                      THEN "withdrawn" ELSE state[t]]
    /\ job' = [t \in TaskIds |-> IF t \in theirs /\ state[t] = "queued"
                                    THEN NoJob ELSE job[t]]
    /\ UNCHANGED <<open, kept>>
\* CancelTask and ForgetTask: a task that runs goes on, and nobody listens.
CancelAndForget(theirs) ==
    /\ state' = [t \in TaskIds |-> IF t \in theirs /\ state[t] = "queued"
                                      THEN "withdrawn" ELSE state[t]]
    /\ job' = [t \in TaskIds |-> IF t \in theirs /\ state[t] = "queued"
                                    THEN NoJob ELSE job[t]]
    /\ kept' = kept \ theirs
    /\ UNCHANGED open

\* slip: a model that is being committed is dropped with its last lease
ReleasedAtOnce(r) == r.phase \in {"preparing", "textures", "model"}
DroppedOnRelease(r) == r.phase = "preparing"

\* The last lease of a preparation ends it; of a commit, lets it go on; of a ready
\* model, starts its delay.  (A ticket that holds no lease is ignored.)
Release(l) ==
    /\ pc = "idle"
    /\ l \in Held
    /\ leases' = [leases EXCEPT ![l] = NoLease]
    /\ LET i == leases[l].record
           r == [records[i] EXCEPT !.leases = @ - 1]
       IN IF r.leases = 0 /\ DroppedOnRelease(r)
            THEN /\ CancelAndForget({r.task})
                 /\ records' = Removed({i})
                 /\ rows' = RowsWithout({}, {i})
            ELSE /\ records' = [records EXCEPT ![i] =
                        IF r.leases = 0 /\ r.phase = "ready"
                          THEN [r EXCEPT !.timer = "set"] ELSE r]
                 /\ UNCHANGED <<rows, job, taskVars>>
    /\ UNCHANGED <<models, instances, nextModel, queue, nextGen, nextLease, postVars,
                   mainVars, box>>
-----------------------------------------------------------------------------
(* The tasks.                                                              *)

TaskBegins(t) ==
    /\ Begin(t)
    /\ UNCHANGED <<repoVars, recordVars, postVars, mainVars, job, box>>

\* The header's bounds, then what the model is like, then the prepared bundle: the
\* first two may be missing.  Posts go to the mailbox the task was given, which may
\* not be the one Pump reads.
For(t) == [record |-> job[t].record, gen |-> job[t].gen]

Post(t, what) ==
    /\ state[t] = "running"
    /\ job[t].posted < what
    /\ job' = [job EXCEPT ![t].posted = what]

PostHeader(t) ==
    /\ Post(t, 1)
    /\ headers' = IF job[t].box = box THEN headers \cup {For(t)} ELSE headers
    /\ UNCHANGED <<repoVars, recordVars, mainVars, earlies, finals, box, taskVars>>

PostEarly(t) ==
    /\ Post(t, 2)
    /\ earlies' = IF job[t].box = box THEN earlies \cup {For(t)} ELSE earlies
    /\ UNCHANGED <<repoVars, recordVars, mainVars, headers, finals, box, taskVars>>

\* What preparing a model comes to: how many textures it needs, or Broken.
Broken == MaxTextures + 1
Outcomes == 0 .. Broken

\* The last post is the task's last act.
PostFinal(t) ==
    /\ \E outcome \in Outcomes :
          finals' = IF job[t].box = box
                      THEN Append(finals, [post |-> For(t), outcome |-> outcome])
                      ELSE finals
    /\ End(t)
    /\ job' = [job EXCEPT ![t] = NoJob]
    /\ UNCHANGED <<repoVars, recordVars, mainVars, headers, earlies, box>>
-----------------------------------------------------------------------------
(* Pump.                                                                   *)

\* slip: a post is taken in whatever generation it was made for
SameRecord(post, i) == post.record = i /\ records[i].phase = "preparing"
\* A post counts for the generation it was made for, while that is being prepared.
IsFor(post, i) ==
    /\ post.record = i
    /\ post.gen = records[i].gen
    /\ records[i].phase = "preparing"

\* slip: the header's bounds replace those of the whole model
TakeHeader(info) == "header"
WithHeader(info) == IF info = "model" THEN "model" ELSE "header"

DrainHeaders ==
    /\ pc = "idle"
    /\ pc' = "early"
    /\ headers' = {}
    /\ records' = [i \in Ids |->
                      IF \E post \in headers : IsFor(post, i)
                        THEN [records[i] EXCEPT !.info = WithHeader(@)]
                        ELSE records[i]]
    /\ UNCHANGED <<repoVars, leases, queue, nextGen, nextLease, earlies, finals,
                   loader, progressed, resets, loads, job, box, taskVars>>

DrainEarly ==
    /\ pc = "early"
    /\ pc' = "completions"
    /\ earlies' = {}
    /\ records' = [i \in Ids |->
                      IF \E post \in earlies : IsFor(post, i)
                        THEN [records[i] EXCEPT !.info = "model"] ELSE records[i]]
    /\ UNCHANGED <<repoVars, leases, queue, nextGen, nextLease, headers, finals,
                   loader, progressed, resets, loads, job, box, taskVars>>

CommitPhase(textures) == IF textures = 0 THEN "model" ELSE "textures"

\* What a completion makes of the record it is for.
Completed(r, outcome) ==
    IF outcome = Broken THEN Failed([r EXCEPT !.task = None])
    ELSE [r EXCEPT !.task = None, !.info = "model", !.queued = TRUE,
                   !.textures = outcome, !.phase = CommitPhase(outcome)]

\* The completions that are for a record, of which there is one for each.
Answers == {f \in ToSet(finals) : IsFor(f.post, f.post.record)}

\* The queue when the k-th completion has been taken in.
Enqueue(q, f) ==
    IF f \in Answers /\ f.outcome # Broken
      THEN Insert(q, f.post.record, records[f.post.record].priority) ELSE q
Enqueued ==
    LET after[k \in 0 .. Len(finals)] ==
            IF k = 0 THEN queue ELSE Enqueue(after[k - 1], finals[k])
    IN after[Len(finals)]

DrainCompletions ==
    /\ pc = "completions"
    /\ pc' = "commit"
    /\ progressed' = FALSE
    /\ finals' = <<>>
    /\ records' = [i \in Ids |->
                      IF \E f \in Answers : f.post.record = i
                        THEN LET f == CHOOSE f \in Answers : f.post.record = i
                             IN Completed(records[i], f.outcome)
                        ELSE records[i]]
    /\ queue' = Enqueued
    /\ kept' = kept \ {records[f.post.record].task : f \in Answers}
    /\ UNCHANGED <<repoVars, leases, nextGen, nextLease, headers, earlies, loader,
                   resets, loads, job, box, open, state>>

Requeue(i) == Insert(Tail(queue), i, records[i].priority)

\* The next texture is committed, or cannot be.
CommitTexture(i) ==
    /\ records[i].phase = "textures"
    /\ \/ /\ LET left == records[i].textures - 1
             IN records' = [records EXCEPT ![i].textures = left,
                                           ![i].phase = CommitPhase(left)]
          /\ queue' = Requeue(i)
          /\ progressed' = TRUE
       \/ /\ records' = [records EXCEPT ![i] = Failed(@)]
          /\ queue' = Tail(queue)
          /\ UNCHANGED progressed
    /\ UNCHANGED repoVars

\* slip: nobody starts the delay of a model that became ready without a lease
ReadyFor(r, m) == [r EXCEPT !.phase = "ready", !.model = m, !.queued = FALSE]
BecomesReady(r, m) ==
    [r EXCEPT !.phase = "ready", !.model = m, !.queued = FALSE,
              !.timer = IF r.leases = 0 THEN "set" ELSE "off"]

\* CommitPreparedModel publishes under the id the path has now; one that is there
\* already is used, and the graphics device may refuse another.
CommitModel(i) ==
    LET m == IdFor(records[i].path)
    IN /\ records[i].phase = "model"
       /\ ReserveIdentity(records[i].path)
       /\ queue' = Tail(queue)
       /\ progressed' = TRUE
       /\ \/ /\ records' = [records EXCEPT ![i] = BecomesReady(@, m)]
             /\ models' = models \cup {m}
          \/ /\ m \notin models
             /\ records' = [records EXCEPT ![i] = Failed(@)]
             /\ UNCHANGED models
       /\ UNCHANGED instances

CommitOne ==
    /\ pc = "commit"
    /\ queue # <<>>
    /\ CommitTexture(Head(queue)) \/ CommitModel(Head(queue))
    /\ UNCHANGED <<leases, nextGen, nextLease, postVars, loader, pc, resets, loads,
                   job, box, taskVars>>

Expired ==
    {i \in Known : /\ records[i].phase = "ready"
                   /\ records[i].leases = 0
                   /\ records[i].timer = "past"}
Stale ==
    {i \in Known : /\ records[i].phase = "failed"
                   /\ records[i].leases = 0
                   /\ records[i].timer = "past"}

\* The queue is empty, or the time is up after a commit, or what was looked up does not fit
\* the budget any more or finds the device restarting, when Pump commits nothing at all;
\* then RecycleExpired: models that have instances are tried again later.  (The
\* system's recycle_model does not throw.)
EndPump ==
    /\ pc = "commit"
    /\ \/ (queue = <<>> \/ progressed) /\ UNCHANGED queue
       \/ queue # <<>> /\ queue' = Requeue(Head(queue))
    /\ LET refused == {i \in Expired : records[i].model \in instances}
           gone == {records[i].model : i \in Expired \ refused}
           removed == Stale \cup (Expired \ refused)
       IN /\ models' = models \ gone
          /\ rows' = RowsWithout(gone, removed)
          /\ records' = [i \in Ids |->
                            IF i \in removed THEN Absent
                            ELSE IF i \in refused THEN [records[i] EXCEPT !.timer = "set"]
                            ELSE records[i]]
    /\ pc' = "idle"
    /\ progressed' = FALSE
    /\ UNCHANGED <<instances, nextModel, leases, nextGen, nextLease, postVars, loader,
                   resets, loads, job, box, taskVars>>

\* A delay runs out, kRetailRecycleDelay or kNegativeCacheDelay, and the next scan
\* (kRecycleScanInterval) is due.
TimePasses(i) ==
    /\ records[i].timer = "set"
    /\ records' = [records EXCEPT ![i].timer = "past"]
    /\ UNCHANGED <<repoVars, leases, queue, nextGen, nextLease, postVars, mainVars,
                   job, box, taskVars>>
-----------------------------------------------------------------------------
(* Instances and synchronous loads.                                        *)

\* A ready ticket creates an instance of its model, if the model is there.
CreateInstance(l) ==
    /\ pc = "idle"
    /\ l \in Held
    /\ RecordOf(l).phase = "ready"
    /\ RecordOf(l).model \in models
    /\ instances' = instances \cup {RecordOf(l).model}
    /\ UNCHANGED <<rows, models, nextModel, recordVars, postVars, mainVars, job, box,
                   taskVars>>

DestroyInstances(m) ==
    /\ pc = "idle"
    /\ m \in instances
    /\ instances' = instances \ {m}
    /\ UNCHANGED <<rows, models, nextModel, recordVars, postVars, mainVars, job, box,
                   taskVars>>

\* LoadModelInstance: the model is loaded on the spot, around the streamer.
LoadModelInstance(p) ==
    /\ pc = "idle"
    /\ loads < MaxLoads
    /\ loads' = loads + 1
    /\ ReserveIdentity(p)
    /\ \/ /\ models' = models \cup {IdFor(p)}
          /\ instances' = instances \cup {IdFor(p)}
       \/ /\ IdFor(p) \notin models
          /\ UNCHANGED <<models, instances>>
    /\ UNCHANGED <<recordVars, postVars, loader, pc, progressed, resets, job, box,
                   taskVars>>
-----------------------------------------------------------------------------
(* Shutdown and the loss of the device.                                    *)

NothingIsKnown ==
    /\ records' = [i \in Ids |-> Absent]
    /\ leases' = [l \in LeaseIds |-> NoLease]
    /\ queue' = <<>>
    /\ NewMailbox
    /\ UNCHANGED <<nextGen, nextLease>>

\* Shutdown of the streamer alone, or of the whole system ("reset").
Shutdown ==
    /\ pc = "idle"
    /\ resets < MaxResets
    /\ resets' = resets + 1
    /\ pc' \in {"join", "reset"}
    /\ IF open THEN Close ELSE UNCHANGED taskVars
    /\ job' = [t \in TaskIds |-> IF state[t] = "queued" THEN NoJob ELSE job[t]]
    /\ UNCHANGED <<repoVars, recordVars, postVars, loader, progressed, loads, box>>

\* The workers are joined: each model without instances goes, leased or not.
Joined ==
    /\ pc \in {"join", "reset"}
    /\ In("running") = {}
    /\ LET gone == {records[i].model : i \in Known} \ instances
       IN IF pc = "join"
            THEN /\ models' = models \ gone
                 /\ rows' = RowsWithout(gone, Known)
                 /\ UNCHANGED instances
            ELSE /\ models' = {}
                 /\ instances' = {}
                 /\ rows' = [p \in Paths |-> None]
    /\ NothingIsKnown
    /\ loader' = FALSE
    /\ pc' = "idle"
    /\ UNCHANGED <<nextModel, progressed, resets, loads, job, taskVars>>

\* The workers go on: what they prepare is for nobody.
DeviceReset ==
    /\ pc = "idle"
    /\ resets < MaxResets
    /\ resets' = resets + 1
    /\ CancelAndForget({records[i].task : i \in Known})
    /\ NothingIsKnown
    /\ models' = {}
    /\ instances' = {}
    /\ rows' = [p \in Paths |-> None]
    /\ UNCHANGED <<nextModel, loader, pc, progressed, loads>>
-----------------------------------------------------------------------------
TaskStep(t) ==
    TaskBegins(t) \/ PostHeader(t) \/ PostEarly(t) \/ PostFinal(t)
PumpStep == DrainHeaders \/ DrainEarly \/ DrainCompletions \/ CommitOne \/ EndPump

Next ==
    \/ Start \/ SetFileLoader
    \/ \E p \in Paths, priority \in Priorities : Acquire(p, priority)
    \/ \E l \in LeaseIds : Release(l) \/ CreateInstance(l)
    \/ \E t \in TaskIds : TaskStep(t)
    \/ PumpStep
    \/ \E i \in Ids : TimePasses(i) \/ DestroyInstances(i)
    \/ \E p \in Paths : LoadModelInstance(p)
    \/ Shutdown \/ Joined \/ DeviceReset

Spec == Init /\ [][Next]_vars

\* The game loop pumps every frame, the pool begins what it was given and the tasks
\* return, delays run out and a shutdown is scheduled to its end.  A restart of the device
\* ends, and the Pumps after it commit: each the first at least of what is queued.
FairSpec ==
    /\ Spec
    /\ WF_vars(PumpStep)
    /\ SF_vars(CommitOne)
    /\ WF_vars(Joined)
    /\ \A t \in TaskIds : WF_vars(TaskBegins(t)) /\ WF_vars(PostFinal(t))
    /\ \A i \in Ids : WF_vars(TimePasses(i))
-----------------------------------------------------------------------------
Phases == {"none", "preparing", "textures", "model", "ready", "failed"}
Records ==
    [phase : Phases, path : Paths \cup {NoPath}, gen : Nat, leases : Nat,
     priority : Nat, task : TaskIds \cup {None}, queued : BOOLEAN,
     textures : 0 .. MaxTextures,
     timer : {"off", "set", "past"}, info : {"none", "header", "model"},
     model : Ids \cup {None}]

TypeOK ==
    /\ open \in BOOLEAN
    /\ state \in [TaskIds -> States]
    /\ kept \subseteq TaskIds
    /\ rows \in [Paths -> Ids \cup {None}]
    /\ models \subseteq Ids
    /\ instances \subseteq Ids
    /\ nextModel \in Nat /\ nextGen \in Nat /\ nextLease \in Nat /\ box \in Nat
    /\ records \in [Ids -> Records]
    /\ leases \in [LeaseIds -> [record : Ids \cup {None}, gen : Nat]]
    /\ queue \in Seq(Ids)
    /\ job \in [TaskIds -> [record : Ids \cup {None}, gen : Nat, box : Nat,
                            posted : 0 .. 2]]
    /\ headers \subseteq [record : Ids, gen : Nat]
    /\ earlies \subseteq [record : Ids, gen : Nat]
    /\ finals \in Seq([post : [record : Ids, gen : Nat],
                       outcome : Outcomes])
    /\ pc \in {"idle", "early", "completions", "commit", "join", "reset"}
    /\ loader \in BOOLEAN /\ progressed \in BOOLEAN
    /\ resets \in 0 .. MaxResets /\ loads \in 0 .. MaxLoads

\* What the phase of a record tells.
RecordsFit ==
    \A i \in Ids :
        /\ records[i].phase = "none" => records[i] = Absent
        /\ records[i].phase # "none" => records[i].gen < nextGen
        /\ records[i].phase = "textures" <=> records[i].textures > 0
        /\ records[i].phase = "preparing" <=> records[i].task # None
        /\ records[i].phase = "ready" => records[i].model = i /\ i \in models
        /\ records[i].phase = "failed" => records[i].timer # "off"

LeasesOf(i) == {l \in Held : leases[l].record = i}

\* Every lease is counted once, by its record.
LeasesAreCounted == \A i \in Ids : records[i].leases = Cardinality(LeasesOf(i))

LeasesFit ==
    /\ \A l \in Held : leases[l].record \in Known
    /\ \A l \in LeaseIds : l >= nextLease => l \notin Held

\* What is prepared is queued for its commit, once, and by priority; nothing else is.
QueueIsExact ==
    /\ ToSet(queue) = {i \in Ids : records[i].queued}
    /\ \A i \in Ids : records[i].queued <=> records[i].phase \in {"textures", "model"}
    /\ \A a, b \in DOMAIN queue : queue[a] = queue[b] => a = b
    /\ \A a, b \in DOMAIN queue :
          a < b => records[queue[a]].priority >= records[queue[b]].priority

\* A record is the only one of its path, and the path's row leads to it: a model is
\* published under the id its record has, never beside it.
RowsAreOwn ==
    /\ \A i \in Known : records[i].path \in Paths /\ rows[records[i].path] = i
    /\ \A p, q \in Paths : rows[p] = rows[q] /\ rows[p] # None => p = q
    /\ \A p \in Paths : rows[p] < nextModel

\* The pool remembers the tasks of preparations that are waited for, and no others:
\* task records do not pile up, whoever gives up on what and when.
TasksAreWanted ==
    open => kept = {records[i].task : i \in Known} \ {None}

\* A preparation has a task of its own, and outlives neither the pool nor its task.
TasksFit ==
    \A i \in Ids : LET t == records[i].task IN
        t # None =>
            /\ open \/ pc \in {"join", "reset"}
            /\ state[t] # "new"
            /\ state[t] = "queued" => job[t].gen = records[i].gen
            /\ \A j \in Ids : records[j].task = t => j = i

\* Nothing waits in a pool that is closed, and a shutdown closes it.
PoolFits ==
    /\ ~open => In("queued") = {}
    /\ pc \in {"join", "reset"} => ~open

\* A generation is prepared once: by one task, or it has been posted.
Working == In("queued") \cup In("running")
PostsAreOnce ==
    /\ \A t \in Working : job[t].record \in Ids /\ job[t].gen < nextGen
    /\ \A s, t \in Working : job[s].gen = job[t].gen => s = t
    /\ \A a \in DOMAIN finals :
          /\ finals[a].post.gen < nextGen
          /\ \A t \in Working : job[t].gen # finals[a].post.gen
          /\ \A b \in DOMAIN finals : finals[a].post.gen = finals[b].post.gen => a = b

\* What nobody leases is on its way out or to its commit, where its delay starts.
UnleasedIsTimed ==
    \A i \in Known : records[i].leases = 0 =>
        /\ records[i].phase # "preparing"
        /\ records[i].phase \in {"ready", "failed"} => records[i].timer # "off"

\* A ticket that is held leads to the request it was given for, never to a later one of
\* the same path; and when it is ready it can be used: its model is not recycled,
\* replaced or published under another id while the lease lasts, whoever else loads the
\* path, releases it or asks for it again.  (UnloadModel, which would, has no caller.)
LeasedModelStays ==
    \A l \in Held :
        /\ RecordOf(l).gen = leases[l].gen
        /\ RecordOf(l).phase = "ready" => RecordOf(l).model \in models

IInv ==
    /\ TypeOK
    /\ RecordsFit
    /\ LeasesAreCounted
    /\ LeasesFit
    /\ QueueIsExact
    /\ RowsAreOwn
    /\ TasksAreWanted
    /\ TasksFit
    /\ PoolFits
    /\ PostsAreOnce
    /\ UnleasedIsTimed

Rank == [preparing |-> 1, textures |-> 2, model |-> 3, ready |-> 4, failed |-> 5,
         none |-> 6]
InfoRank == [none |-> 1, header |-> 2, model |-> 3]

\* What a ticket reports only moves forward: a model that is ready or has failed
\* stays so, and its bounds are never replaced by the coarser ones of the header,
\* which a task may post before and Pump take in after those of the model.
TicketsMoveForward ==
    [][\A l \in Held : leases'[l] = leases[l] =>
          /\ Rank[RecordOf(l).phase] <= Rank[records'[leases[l].record].phase]
          /\ RecordOf(l).phase = "ready" => records'[leases[l].record].phase = "ready"
          /\ InfoRank[RecordOf(l).info] <= InfoRank[records'[leases[l].record].info]]_vars

\* Whoever waits for a ticket learns: it becomes ready or fails, or is given up.
TicketsAreAnswered ==
    \A l \in LeaseIds :
        l \in Held ~> l \notin Held \/ RecordOf(l).phase \in {"ready", "failed"}

\* Nothing that is not used stays for ever: an unleased record goes, is leased again
\* or has instances.
UnusedGoes ==
    \A i \in Ids :
        i \in Known /\ records[i].leases = 0
          ~> i \notin Known \/ records[i].leases > 0 \/ records[i].model \in instances
=============================================================================
