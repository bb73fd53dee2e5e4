-------------------------- MODULE ThreadPoolProofs --------------------------
(***************************************************************************)
(* The inductive invariant of ThreadPool, for any number of workers,       *)
(* callers, priorities and tasks: records, queues, threads and counters    *)
(* agree, so that a cancelled task never runs and no other runs twice.     *)
(***************************************************************************)
EXTENDS ThreadPool, FiniteSetTheorems, TLAPS

USE DEF poolVars, countVars, recordVars, historyVars
-----------------------------------------------------------------------------
(* Queues: what q holds, and that it holds nothing twice.                  *)

Holds(q, i) == \E p \in Priorities : \E k \in DOMAIN q[p] : q[p][k] = i
Once(q) ==
    \A p, r \in Priorities : \A i \in DOMAIN q[p], j \in DOMAIN q[r] :
        q[p][i] = q[r][j] => p = r /\ i = j

\* q becomes r by losing the element at position k of priority p.
Loses(q, r, p, k) ==
    /\ Len(r[p]) = Len(q[p]) - 1
    /\ \A j \in 1 .. Len(r[p]) : r[p][j] = IF j < k THEN q[p][j] ELSE q[p][j + 1]
    /\ \A x \in Priorities : x # p => r[x] = q[x]

LEMMA QueuedHolds == \A i : i \in Queued <=> Holds(queues, i)
  BY DEF Queued, Holds, ToSet

LEMMA QueuedHoldsPrime == \A i : i \in Queued' <=> Holds(queues', i)
  BY DEF Queued, Holds, ToSet

LEMMA TailLoses ==
    ASSUME NEW q \in [Priorities -> Seq(Ids)], NEW p \in Priorities, q[p] # <<>>
    PROVE  LET r == [q EXCEPT ![p] = Tail(@)] IN
           /\ r \in [Priorities -> Seq(Ids)]
           /\ Loses(q, r, p, 1)
           /\ 1 \in DOMAIN q[p] /\ Head(q[p]) = q[p][1]
  <1> DEFINE r == [q EXCEPT ![p] = Tail(@)]
  <1>1. q[p] \in Seq(Ids)  OBVIOUS
  <1>2. Tail(q[p]) \in Seq(Ids)  BY <1>1
  <1>3. r \in [Priorities -> Seq(Ids)]  BY <1>2
  <1>4. Loses(q, r, p, 1)  BY <1>1 DEF Loses
  <1> QED  BY <1>1, <1>3, <1>4

LEMMA RemoveAtLoses ==
    ASSUME NEW q \in [Priorities -> Seq(Ids)], NEW p \in Priorities,
           NEW k \in DOMAIN q[p]
    PROVE  LET r == [q EXCEPT ![p] = RemoveAt(@, k)] IN
           /\ r \in [Priorities -> Seq(Ids)]
           /\ Loses(q, r, p, k)
  <1> DEFINE r == [q EXCEPT ![p] = RemoveAt(@, k)]
             s == q[p]
             a == SubSeq(s, 1, k - 1)
             b == SubSeq(s, k + 1, Len(s))
  <1>1. s \in Seq(Ids) /\ k \in 1 .. Len(s) /\ Len(s) \in Nat  OBVIOUS
  <1> HIDE DEF s
  <1>2. /\ a \in Seq(Ids) /\ Len(a) = k - 1
        /\ \A j \in 1 .. k - 1 : a[j] = s[j]
    BY <1>1
  <1>3. /\ b \in Seq(Ids) /\ Len(b) = Len(s) - k
        /\ \A j \in 1 .. Len(s) - k : b[j] = s[k + j]
    BY <1>1
  <1> HIDE DEF a, b
  <1>4. /\ a \o b \in Seq(Ids)
        /\ Len(a \o b) = Len(s) - 1
        /\ \A j \in 1 .. Len(s) - 1 :
              (a \o b)[j] = IF j < k THEN a[j] ELSE b[j - (k - 1)]
    BY <1>1, <1>2, <1>3
  <1>5. \A j \in 1 .. Len(s) - 1 :
           (a \o b)[j] = IF j < k THEN s[j] ELSE s[j + 1]
    <2> TAKE j \in 1 .. Len(s) - 1
    <2>1. CASE j < k  BY <2>1, <1>1, <1>2, <1>4
    <2>2. CASE ~(j < k)
      <3>1. j - (k - 1) \in 1 .. Len(s) - k /\ k + (j - (k - 1)) = j + 1
        BY <2>2, <1>1
      <3> QED  BY <3>1, <2>2, <1>3, <1>4
    <2> QED  BY <2>1, <2>2
  <1>6. r = [q EXCEPT ![p] = a \o b]  BY DEF RemoveAt, a, b, s
  <1>7. r \in [Priorities -> Seq(Ids)]  BY <1>4, <1>6
  <1>8. Loses(q, r, p, k)
    <2>1. r[p] = a \o b /\ \A x \in Priorities : x # p => r[x] = q[x]  BY <1>6
    <2> QED  BY <2>1, <1>4, <1>5 DEF Loses, s
  <1> QED  BY <1>7, <1>8

LEMMA LosingOne ==
    ASSUME NEW q \in [Priorities -> Seq(Ids)], NEW r \in [Priorities -> Seq(Ids)],
           NEW p \in Priorities, NEW k \in DOMAIN q[p],
           Loses(q, r, p, k), Once(q)
    PROVE  /\ Once(r)
           /\ \A i : Holds(r, i) <=> Holds(q, i) /\ i # q[p][k]
  <1> DEFINE From(x, j) == IF x = p /\ ~(j < k) THEN j + 1 ELSE j
  <1>1. k \in 1 .. Len(q[p]) /\ Len(q[p]) \in Nat /\ Len(r[p]) = Len(q[p]) - 1
    BY DEF Loses
  <1>2. \A x \in Priorities : \A j \in DOMAIN r[x] :
           /\ From(x, j) \in DOMAIN q[x]
           /\ r[x][j] = q[x][From(x, j)]
           /\ x = p => From(x, j) # k
    <2> TAKE x \in Priorities
    <2> TAKE j \in DOMAIN r[x]
    <2>1. CASE x = p
      <3>1. j \in 1 .. Len(r[p])  BY <2>1
      <3> QED  BY <2>1, <3>1, <1>1 DEF Loses
    <2>2. CASE x # p  BY <2>2 DEF Loses
    <2> QED  BY <2>1, <2>2
  <1>3. Once(r)
    <2> SUFFICES ASSUME NEW x \in Priorities, NEW y \in Priorities,
                        NEW i \in DOMAIN r[x], NEW j \in DOMAIN r[y],
                        r[x][i] = r[y][j]
                 PROVE  x = y /\ i = j
      BY DEF Once
    <2>1. x = y /\ From(x, i) = From(y, j)  BY <1>2 DEF Once
    <2>2. i \in Nat /\ j \in Nat  OBVIOUS
    <2> QED  BY <2>1, <2>2, <1>1
  <1>4. ASSUME NEW i, Holds(r, i)  PROVE Holds(q, i) /\ i # q[p][k]
    <2>1. PICK x \in Priorities : \E j \in DOMAIN r[x] : r[x][j] = i
      BY <1>4 DEF Holds
    <2>2. PICK j \in DOMAIN r[x] : r[x][j] = i  BY <2>1
    <2>3. From(x, j) \in DOMAIN q[x] /\ q[x][From(x, j)] = i  BY <2>2, <1>2
    <2>4. i # q[p][k]
      <3> SUFFICES ASSUME i = q[p][k] PROVE FALSE  OBVIOUS
      <3>1. x = p /\ From(x, j) = k  BY <2>3 DEF Once
      <3> QED  BY <3>1, <1>2, <2>2
    <2> QED  BY <2>3, <2>4 DEF Holds
  <1>5. ASSUME NEW i, Holds(q, i), i # q[p][k]  PROVE Holds(r, i)
    <2>1. PICK x \in Priorities : \E j \in DOMAIN q[x] : q[x][j] = i
      BY <1>5 DEF Holds
    <2>2. PICK j \in DOMAIN q[x] : q[x][j] = i  BY <2>1
    <2>3. CASE x # p  BY <2>2, <2>3 DEF Holds, Loses
    <2>4. CASE x = p
      <3>1. j \in 1 .. Len(q[p]) /\ j # k  BY <2>2, <2>4, <1>5
      <3>2. CASE j < k
        <4>1. j \in 1 .. Len(r[p]) /\ r[p][j] = i
          BY <3>1, <3>2, <1>1, <2>2, <2>4 DEF Loses
        <4> QED  BY <4>1 DEF Holds
      <3>3. CASE k < j
        <4>1. j - 1 \in 1 .. Len(r[p]) /\ ~(j - 1 < k) /\ (j - 1) + 1 = j
          BY <3>1, <3>3, <1>1
        <4>2. r[p][j - 1] = i  BY <4>1, <2>2, <2>4 DEF Loses
        <4> QED  BY <4>1, <4>2 DEF Holds
      <3> QED  BY <3>1, <3>2, <3>3, <1>1
    <2> QED  BY <2>3, <2>4
  <1> QED  BY <1>3, <1>4, <1>5

LEMMA AppendingOne ==
    ASSUME NEW q \in [Priorities -> Seq(Ids)], NEW p \in Priorities, NEW n \in Ids,
           Once(q), ~Holds(q, n)
    PROVE  LET r == [q EXCEPT ![p] = Append(@, n)] IN
           /\ r \in [Priorities -> Seq(Ids)]
           /\ Once(r)
           /\ \A i : Holds(r, i) <=> Holds(q, i) \/ i = n
  <1> DEFINE r == [q EXCEPT ![p] = Append(@, n)]
  <1>1. q[p] \in Seq(Ids) /\ Len(q[p]) \in Nat  OBVIOUS
  <1>2. r \in [Priorities -> Seq(Ids)]  BY <1>1
  <1>3. /\ DOMAIN r[p] = 1 .. Len(q[p]) + 1
        /\ r[p][Len(q[p]) + 1] = n
        /\ \A j \in DOMAIN q[p] : j \in DOMAIN r[p] /\ r[p][j] = q[p][j]
        /\ \A x \in Priorities : x # p => r[x] = q[x]
    BY <1>1
  <1> HIDE DEF r
  <1>4. \A x \in Priorities : \A j \in DOMAIN r[x] :
           \/ j \in DOMAIN q[x] /\ r[x][j] = q[x][j]
           \/ x = p /\ j = Len(q[p]) + 1
    <2> TAKE x \in Priorities
    <2> TAKE j \in DOMAIN r[x]
    <2>1. CASE x = p
      <3>1. j \in 1 .. Len(q[p]) \/ j = Len(q[p]) + 1  BY <2>1, <1>1, <1>3
      <3> QED  BY <2>1, <3>1, <1>1, <1>3
    <2>2. CASE x # p  BY <2>2, <1>3
    <2> QED  BY <2>1, <2>2
  <1>5. Once(r)  BY <1>3, <1>4 DEF Once, Holds
  <1>6. \A i : Holds(r, i) <=> Holds(q, i) \/ i = n
    <2> TAKE i
    <2>1. ASSUME Holds(r, i) PROVE Holds(q, i) \/ i = n
      BY <2>1, <1>3, <1>4 DEF Holds
    <2>2. ASSUME Holds(q, i) PROVE Holds(r, i)
      <3>1. PICK x \in Priorities : \E j \in DOMAIN q[x] : q[x][j] = i
        BY <2>2 DEF Holds
      <3>2. PICK j \in DOMAIN q[x] : q[x][j] = i  BY <3>1
      <3>3. j \in DOMAIN r[x] /\ r[x][j] = i  BY <3>2, <1>3
      <3> QED  BY <3>3 DEF Holds
    <2>3. ASSUME i = n PROVE Holds(r, i)
      <3>1. Len(q[p]) + 1 \in DOMAIN r[p]  BY <1>1, <1>3
      <3> QED  BY <3>1, <2>3, <1>3 DEF Holds
    <2> QED  BY <2>1, <2>2, <2>3
  <1> QED  BY <1>2, <1>5, <1>6 DEF r
-----------------------------------------------------------------------------
(* Counting threads and tasks.                                             *)

Begun == {i \in Ids : runs[i] > 0}

LEMMA Finite ==
    /\ IsFiniteSet(Ids) /\ IsFiniteSet(Begun) /\ IsFiniteSet(Begun')
    /\ IsFiniteSet(Runners) /\ IsFiniteSet(Runners')
  <1>1. IsFiniteSet(Ids)  BY FS_Interval, PoolAssumption DEF Ids
  <1>2. IsFiniteSet(Threads)  BY FS_Union, PoolAssumption DEF Threads
  <1>3. Begun \subseteq Ids /\ Begun' \subseteq Ids  BY DEF Begun
  <1>4. Runners \subseteq Threads /\ Runners' \subseteq Threads  BY DEF Runners
  <1> QED  BY <1>1, <1>2, <1>3, <1>4, FS_Subset

LEMMA NothingRuns ==
    ASSUME IInv, ~initialized, pc[Owner] = "idle"
    PROVE  Runners = {}
  <1> SUFFICES ASSUME NEW t \in Runners PROVE FALSE  OBVIOUS
  <1>1. t \in Workers \/ t \in Callers  BY DEF Runners, Threads
  <1> QED  BY <1>1 DEF Runners, IInv, LivesAreApart

\* The conjuncts of IInv that the labels of the threads do not enter.
LEMMA SameRunners ==
    ASSUME IInv, TypeOK', LivesAreApart', Runners' = Runners,
           UNCHANGED <<task, queues, recordVars, running, completed, held, runs,
                       withdrawn>>,
           initialized' => initialized
    PROVE  IInv'
  <1>1. RecordsAreTrue'  BY QueuedHolds, QueuedHoldsPrime DEF IInv, RecordsAreTrue, Holds
  <1>2. RunsAtMostOnce'  BY DEF IInv, RunsAtMostOnce
  <1>3. QueuedIsNew'  BY QueuedHolds, QueuedHoldsPrime DEF IInv, QueuedIsNew
  <1>4. RunnersHaveTasks'  BY DEF IInv, RunnersHaveTasks
  <1>5. CountersAreTrue'  BY DEF IInv, CountersAreTrue
  <1>6. ForgottenIsLive'  BY DEF IInv, ForgottenIsLive
  <1> QED  BY <1>1, <1>2, <1>3, <1>4, <1>5, <1>6 DEF IInv
-----------------------------------------------------------------------------
(* Each action preserves the invariant.                                    *)

LEMMA InitInv == Init => IInv
  <1> SUFFICES ASSUME Init PROVE IInv  OBVIOUS
  <1> USE PoolAssumption DEF Init
  <1>1. TypeOK
    <2>1. pc \in [Threads -> Labels] /\ task \in [Threads -> Ids \cup {NoTask}]
      BY DEF Labels
    <2>2. queues \in [Priorities -> Seq(Ids)] /\ tasks \in [Ids -> Statuses]
      BY DEF Statuses
    <2>3. nextId \in 1 .. MaxTasks + 1 /\ starts \in 0 .. MaxStarts  OBVIOUS
    <2> QED  BY <2>1, <2>2, <2>3 DEF TypeOK
  <1>2. Runners = {} /\ {i \in Ids : runs[i] > 0} = {}
    BY DEF Runners, Threads
  <1>3. Queued = {}  BY DEF Queued, ToSet
  <1>4. RecordsAreTrue  BY <1>2, <1>3 DEF RecordsAreTrue
  <1>5. CountersAreTrue
    <2>1. Cardinality(Runners) = 0 /\ Cardinality({i \in Ids : runs[i] > 0}) = 0
      BY <1>2, FS_EmptySet
    <2> QED  BY <2>1 DEF CountersAreTrue
  <1>6. RunnersHaveTasks  BY <1>2 DEF RunnersHaveTasks
  <1>7. LivesAreApart  BY DEF LivesAreApart, Threads, QueuesEmpty, Ids
  <1>8. RunsAtMostOnce /\ QueuedIsNew /\ ForgottenIsLive
    BY <1>3 DEF RunsAtMostOnce, QueuedIsNew, ForgottenIsLive
  <1> QED  BY <1>1, <1>4, <1>5, <1>6, <1>7, <1>8 DEF IInv

LEMMA InitializePreserves ==
    ASSUME IInv, NEW n \in ThreadCounts, Initialize(n)
    PROVE  IInv'
  <1> USE PoolAssumption DEF Initialize
  <1>0. TypeOK  BY DEF IInv
  <1>1. TypeOK'
    <2>1. pc' \in [Threads -> Labels]  BY <1>0 DEF TypeOK, Labels
    <2>2. queues' \in [Priorities -> Seq(Ids)] /\ tasks' \in [Ids -> Statuses]
      BY DEF Statuses
    <2>3. starts' \in 0 .. MaxStarts /\ nextId' \in 1 .. MaxTasks + 1
      BY <1>0 DEF TypeOK
    <2>4. syncMode' \in BOOLEAN  OBVIOUS
    <2> QED  BY <1>0, <2>1, <2>2, <2>3, <2>4 DEF TypeOK
  <1>2. Runners = {}  BY NothingRuns
  <1>3. Runners' = {}  BY <1>2, <1>0 DEF Runners, TypeOK
  <1>4. {i \in Ids : runs'[i] > 0} = {}  OBVIOUS
  <1>5. Queued' = {}  BY DEF Queued, ToSet
  <1>6. RecordsAreTrue'  BY <1>3, <1>5 DEF RecordsAreTrue
  <1>7. CountersAreTrue'
    <2>1. Cardinality(Runners') = 0 /\ Cardinality({i \in Ids : runs'[i] > 0}) = 0
      BY <1>3, <1>4, FS_EmptySet
    <2> QED  BY <2>1 DEF CountersAreTrue
  <1>8. RunnersHaveTasks'  BY <1>2, <1>3 DEF RunnersHaveTasks, IInv
  <1>9. LivesAreApart'
    BY <1>0 DEF LivesAreApart, Threads, QueuesEmpty, IInv, TypeOK
  <1>10. (RunsAtMostOnce /\ QueuedIsNew /\ ForgottenIsLive)'
    BY <1>5 DEF RunsAtMostOnce, QueuedIsNew, ForgottenIsLive
  <1> QED  BY <1>1, <1>6, <1>7, <1>8, <1>9, <1>10 DEF IInv

LEMMA StopPreserves ==
    ASSUME IInv, Stop
    PROVE  IInv'
  <1> USE PoolAssumption DEF Stop, Goto
  <1>0. TypeOK  BY DEF IInv
  <1>1. Queued \subseteq Ids  BY <1>0 DEF Queued, ToSet, TypeOK
  <1>2. TypeOK'
    <2>1. pc' \in [Threads -> Labels]  BY <1>0 DEF TypeOK, Labels
    <2>2. queues' \in [Priorities -> Seq(Ids)] /\ tasks' \in [Ids -> Statuses]
      BY <1>0 DEF TypeOK, Statuses
    <2>3. withdrawn' \subseteq Ids  BY <1>0, <1>1 DEF TypeOK
    <2> QED  BY <1>0, <2>1, <2>2, <2>3 DEF TypeOK
  <1>3. Queued' = {}  BY DEF Queued, ToSet
  <1>4. Runners' = Runners  BY <1>0 DEF Runners, TypeOK
  <1>5. RecordsAreTrue'
    <2>1. \A i \in Ids : tasks'[i] # "pending"
      BY <1>0 DEF IInv, RecordsAreTrue
    <2>2. \A i \in Ids : tasks'[i] = "running" <=> tasks[i] = "running"
      BY DEF IInv, RecordsAreTrue
    <2> QED  BY <2>1, <2>2, <1>3, <1>4 DEF IInv, RecordsAreTrue
  <1>6. RunsAtMostOnce'  BY <1>0 DEF IInv, RunsAtMostOnce, QueuedIsNew, TypeOK
  <1>7. QueuedIsNew'  BY <1>3 DEF QueuedIsNew
  <1>8. RunnersHaveTasks'  BY <1>4 DEF IInv, RunnersHaveTasks
  <1>9. CountersAreTrue'  BY <1>4 DEF IInv, CountersAreTrue
  <1>10. LivesAreApart'
    BY <1>0, <1>1 DEF IInv, LivesAreApart, RecordsAreTrue, QueuesEmpty, TypeOK, Threads
  <1>11. ForgottenIsLive'  BY DEF IInv, ForgottenIsLive
  <1> QED  BY <1>2, <1>5, <1>6, <1>7, <1>8, <1>9, <1>10, <1>11 DEF IInv

\* The steps that only move a thread between labels at which it runs no task.
QuietStep ==
    \/ OwnerStep
    \/ \E c \in Callers : NotifyOne(c) \/ WaitForAll(c) \/ TestDone(c)
    \/ \E w \in Workers : Idle(w) \/ Announce(w)
    \/ \E t \in Threads : SpuriousWake(t)

LEMMA QuietPreserves ==
    ASSUME IInv, QuietStep
    PROVE  IInv'
  <1> USE PoolAssumption
  <1>0. TypeOK /\ LivesAreApart  BY DEF IInv
  <1>1. /\ UNCHANGED <<task, queues, recordVars, nextId, starts, initialized,
                       stopping, countVars, historyVars>>
        /\ syncMode' \in BOOLEAN
    BY <1>0 DEF QuietStep, OwnerStep, WakeAll, Join, NotifyOne, WaitForAll, TestDone,
                Idle, IdleAnyway, Announce, SpuriousWake, TypeOK
  <1> DEFINE Quiet == /\ pc' \in [Threads -> Labels]
                      /\ Runners' = Runners
                      /\ LivesAreApart'
  <1>2. Quiet
    <2>1. CASE WakeAll
      BY <2>1, <1>0 DEF WakeAll, Woken, TypeOK, Labels, Runners, Threads,
                        LivesAreApart, QueuesEmpty
    <2>2. CASE Join
      BY <2>2, <1>0 DEF Join, TypeOK, Labels, Runners, Threads, LivesAreApart,
                        QueuesEmpty
    <2>3. ASSUME NEW c \in Callers, NotifyOne(c) PROVE Quiet
      BY <2>3, <1>0 DEF NotifyOne, Goto, TypeOK, Labels, Runners, Threads,
                        LivesAreApart, QueuesEmpty
    <2>4. ASSUME NEW c \in Callers, WaitForAll(c) \/ TestDone(c) PROVE Quiet
      BY <2>4, <1>0 DEF WaitForAll, TestDone, Goto, TypeOK, Labels, Runners, Threads,
                        LivesAreApart, QueuesEmpty
    <2>5. ASSUME NEW w \in Workers, Idle(w) PROVE Quiet
      BY <2>5, <1>0 DEF Idle, IdleAnyway, Goto, TypeOK, Labels, Runners, Threads,
                        LivesAreApart, QueuesEmpty
    <2>7. ASSUME NEW w \in Workers, Announce(w) PROVE Quiet
      <3>1. /\ \A x \in Threads :
                  pc'[x] = IF x = w THEN "ready"
                           ELSE IF pc[x] = "awaiting" THEN "waitAll" ELSE pc[x]
            /\ pc' \in [Threads -> Labels] /\ pc[w] = "announce"
        BY <2>7, <1>0 DEF Announce, WakeWaiters, TypeOK, Labels, Threads
      <3>2. UNCHANGED <<queues, tasks, nextId, runs, held, forget, withdrawn,
                        initialized, stopping>>
        BY <2>7 DEF Announce
      <3>3. Runners' = Runners  BY <3>1 DEF Runners, Threads
      <3>4. LivesAreApart'
        BY <3>1, <3>2, <1>0 DEF LivesAreApart, QueuesEmpty, Threads
      <3> QED  BY <3>1, <3>3, <3>4
    <2>6. ASSUME NEW t \in Threads, SpuriousWake(t) PROVE Quiet
      <3>1. PICK l \in {"ready", "waitAll"} :
               /\ pc' = [pc EXCEPT ![t] = l]
               /\ pc[t] \in {"sleeping", "awaiting"}
        BY <2>6 DEF SpuriousWake, Goto
      <3>2. UNCHANGED <<queues, tasks, nextId, runs, held, forget, withdrawn,
                        initialized, stopping>>
        BY <2>6 DEF SpuriousWake
      <3>3. pc' \in [Threads -> Labels]  BY <3>1, <1>0 DEF TypeOK, Labels
      <3>4. Runners' = Runners  BY <3>1, <1>0 DEF TypeOK, Runners
      <3>5. LivesAreApart'
        BY <3>1, <3>2, <1>0 DEF TypeOK, LivesAreApart, QueuesEmpty, Threads
      <3> QED  BY <3>3, <3>4, <3>5
    <2> QED  BY <2>1, <2>2, <2>3, <2>4, <2>5, <2>6, <2>7 DEF QuietStep, OwnerStep
  <1>3. TypeOK'  BY <1>0, <1>1, <1>2 DEF TypeOK
  <1> QED  BY <1>1, <1>2, <1>3, SameRunners

LEMMA FreshId ==
    ASSUME IInv, nextId \in Ids
    PROVE  /\ tasks[nextId] = "none" /\ runs[nextId] = 0
           /\ nextId \notin held \cup forget \cup withdrawn
           /\ ~Holds(queues, nextId)
           /\ \A t \in Runners : task[t] # nextId
           /\ nextId + 1 \in 1 .. MaxTasks + 1
  <1>1. nextId \in Nat /\ nextId <= MaxTasks /\ MaxTasks \in Nat
    BY PoolAssumption DEF IInv, TypeOK, Ids
  <1>2. /\ tasks[nextId] = "none" /\ runs[nextId] = 0
        /\ nextId \notin held \cup forget \cup withdrawn
    BY <1>1 DEF IInv, LivesAreApart
  <1> QED  BY <1>1, <1>2, QueuedHolds DEF IInv, RecordsAreTrue, TypeOK

\* A task begins: t takes the task n, which was queued or is new.
LEMMA Beginning ==
    ASSUME IInv, NEW t \in Threads, t \notin Runners, NEW n \in Ids,
           runs[n] = 0, n \notin withdrawn,
           \A u \in Runners : task[u] # n,
           Runners' = Runners \cup {t},
           task' = [task EXCEPT ![t] = n],
           tasks' = [tasks EXCEPT ![n] = "running"],
           runs' = [runs EXCEPT ![n] = @ + 1],
           running' = running + 1,
           UNCHANGED <<completed, withdrawn>>,
           queues' \in [Priorities -> Seq(Ids)], Once(queues'),
           \A i \in Ids : Holds(queues', i) <=> Holds(queues, i) /\ i # n
    PROVE  RecordsAreTrue' /\ RunsAtMostOnce' /\ QueuedIsNew' /\ RunnersHaveTasks'
           /\ CountersAreTrue'
  <1>0. /\ TypeOK /\ RecordsAreTrue /\ RunsAtMostOnce /\ QueuedIsNew
        /\ RunnersHaveTasks /\ CountersAreTrue
    BY DEF IInv
  <1>1. /\ tasks \in [Ids -> Statuses] /\ runs \in [Ids -> Nat]
        /\ task \in [Threads -> Ids \cup {NoTask}]
        /\ running \in Nat /\ completed \in Nat
        /\ Runners \subseteq Threads
    BY <1>0 DEF TypeOK, Runners
  <1>2. RecordsAreTrue'
    <2>1. \A i \in Ids : tasks'[i] = "pending" <=> i \in Queued'
      BY <1>0, <1>1, QueuedHolds, QueuedHoldsPrime DEF RecordsAreTrue
    <2>2. \A i \in Ids : tasks'[i] = "running" <=> \E u \in Runners' : task'[u] = i
      <3> TAKE i \in Ids
      <3>1. CASE i = n  BY <3>1, <1>1
      <3>2. CASE i # n
        <4>1. tasks'[i] = tasks[i]  BY <3>2, <1>1
        <4>2. ASSUME NEW u \in Runners, task[u] = i
              PROVE  u \in Runners' /\ task'[u] = i
          BY <4>2, <1>1
        <4>3. ASSUME NEW u \in Runners', task'[u] = i
              PROVE  u \in Runners /\ task[u] = i
          BY <4>3, <3>2, <1>1
        <4> QED  BY <4>1, <4>2, <4>3, <1>0 DEF RecordsAreTrue
      <3> QED  BY <3>1, <3>2
    <2>3. \A u, v \in Runners' : task'[u] = task'[v] => u = v
      BY <1>0, <1>1 DEF RecordsAreTrue
    <2> QED  BY <2>1, <2>2, <2>3 DEF RecordsAreTrue, Once
  <1>3. RunsAtMostOnce'  BY <1>0, <1>1 DEF RunsAtMostOnce
  <1>4. QueuedIsNew'
    <2> SUFFICES ASSUME NEW i \in Queued' PROVE runs'[i] = 0 /\ i \notin withdrawn'
      BY DEF QueuedIsNew
    <2>1. i \in Ids  BY DEF Queued, ToSet
    <2>2. i \in Queued /\ i # n  BY <2>1, QueuedHolds, QueuedHoldsPrime
    <2> QED  BY <2>1, <2>2, <1>0, <1>1 DEF QueuedIsNew
  <1>5. RunnersHaveTasks'  BY <1>0, <1>1 DEF RunnersHaveTasks, NoTask, Ids
  <1>6. CountersAreTrue'
    <2>1. Begun' = Begun \cup {n} /\ n \notin Begun  BY <1>1 DEF Begun
    <2>2. Cardinality(Begun') = Cardinality(Begun) + 1
      BY <2>1, Finite, FS_AddElement
    <2>3. Cardinality(Runners') = Cardinality(Runners) + 1
      BY Finite, FS_AddElement
    <2>4. Cardinality(Begun) \in Nat /\ Cardinality(Runners) \in Nat
      BY Finite, FS_CardinalityType
    <2>5. running = Cardinality(Runners) /\ running + completed = Cardinality(Begun)
      BY <1>0 DEF CountersAreTrue, Begun
    <2>6. running' = Cardinality(Runners') /\ running' + completed' = Cardinality(Begun')
      BY <2>2, <2>3, <2>4, <2>5, <1>1
    <2> QED  BY <2>6 DEF CountersAreTrue, Begun
  <1> QED  BY <1>2, <1>3, <1>4, <1>5, <1>6

LEMMA SubmitPreserves ==
    ASSUME IInv, NEW c \in Callers, NEW p \in Priorities, Submit(c, p)
    PROVE  IInv'
  <1> USE PoolAssumption DEF Submit, Enter, Goto
  <1>0. TypeOK  BY DEF IInv
  <1>1. queues \in [Priorities -> Seq(Ids)] /\ Once(queues)
    BY <1>0 DEF TypeOK, IInv, RecordsAreTrue, Once
  <1>2. /\ queues' \in [Priorities -> Seq(Ids)]
        /\ Once(queues')
        /\ \A i : Holds(queues', i) <=> Holds(queues, i) \/ i = nextId
    BY <1>1, FreshId, AppendingOne
  <1>3. TypeOK'
    <2>1. pc' \in [Threads -> Labels] /\ tasks' \in [Ids -> Statuses]
      BY <1>0 DEF TypeOK, Labels, Statuses
    <2>2. held' \subseteq Ids  BY <1>0 DEF TypeOK
    <2> QED  BY <1>0, <1>2, <2>1, <2>2, FreshId DEF TypeOK
  <1>4. Runners' = Runners  BY <1>0 DEF TypeOK, Runners, Threads
  <1>5. RecordsAreTrue'
    <2>1. \A i \in Ids : tasks'[i] = "pending" <=> i \in Queued'
      BY <1>0, <1>2, QueuedHolds, QueuedHoldsPrime DEF TypeOK, IInv, RecordsAreTrue
    <2>2. \A i \in Ids : tasks'[i] = "running" <=> tasks[i] = "running"
      BY <1>0, FreshId DEF TypeOK
    <2> QED  BY <2>1, <2>2, <1>2, <1>4 DEF IInv, RecordsAreTrue, Once
  <1>6. RunsAtMostOnce'  BY DEF IInv, RunsAtMostOnce
  <1>7. QueuedIsNew'
    BY <1>2, QueuedHolds, QueuedHoldsPrime, FreshId DEF IInv, QueuedIsNew
  <1>8. RunnersHaveTasks'  BY <1>4 DEF IInv, RunnersHaveTasks
  <1>9. CountersAreTrue'  BY <1>4 DEF IInv, CountersAreTrue
  <1>10. LivesAreApart'
    BY <1>0, FreshId DEF IInv, LivesAreApart, TypeOK, Threads, Ids
  <1>11. ForgottenIsLive'  BY <1>0, FreshId DEF IInv, ForgottenIsLive, TypeOK
  <1> QED  BY <1>3, <1>5, <1>6, <1>7, <1>8, <1>9, <1>10, <1>11 DEF IInv

LEMMA SubmitSyncPreserves ==
    ASSUME IInv, NEW c \in Callers, SubmitSync(c)
    PROVE  IInv'
  <1> USE PoolAssumption DEF SubmitSync, Enter, Goto
  <1>0. TypeOK  BY DEF IInv
  <1>1. queues \in [Priorities -> Seq(Ids)] /\ Once(queues)
    BY <1>0 DEF TypeOK, IInv, RecordsAreTrue, Once
  <1>2. TypeOK'
    <2>1. pc' \in [Threads -> Labels] /\ tasks' \in [Ids -> Statuses]
      BY <1>0 DEF TypeOK, Labels, Statuses
    <2>2. task' \in [Threads -> Ids \cup {NoTask}]  BY <1>0 DEF TypeOK
    <2>3. runs' \in [Ids -> Nat]  BY <1>0 DEF TypeOK
    <2>4. held' \subseteq Ids /\ running' \in Nat  BY <1>0 DEF TypeOK
    <2> QED  BY <1>0, <2>1, <2>2, <2>3, <2>4, FreshId DEF TypeOK
  <1>3. c \in Threads /\ c \notin Runners /\ Runners' = Runners \cup {c}
    BY <1>0 DEF TypeOK, Runners, Threads
  <1>4. \A i \in Ids : Holds(queues', i) <=> Holds(queues, i) /\ i # nextId
    BY FreshId
  <1>5. RecordsAreTrue' /\ RunsAtMostOnce' /\ QueuedIsNew' /\ RunnersHaveTasks'
        /\ CountersAreTrue'
    BY <1>1, <1>3, <1>4, FreshId, Beginning
  <1>6. LivesAreApart'
    BY <1>0, FreshId DEF IInv, LivesAreApart, TypeOK, Threads, Ids, QueuesEmpty
  <1>7. ForgottenIsLive'  BY <1>0, FreshId DEF IInv, ForgottenIsLive, TypeOK
  <1> QED  BY <1>2, <1>5, <1>6, <1>7 DEF IInv

LEMMA TakeTaskPreserves ==
    ASSUME IInv, NEW w \in Workers, TakeTask(w)
    PROVE  IInv'
  <1> USE PoolAssumption DEF Goto
  <1>0. TypeOK  BY DEF IInv
  <1>1. PICK p \in Priorities :
           /\ queues[p] # <<>>
           /\ task' = [task EXCEPT ![w] = Head(queues[p])]
           /\ queues' = [queues EXCEPT ![p] = Tail(@)]
           /\ tasks' = [tasks EXCEPT ![Head(queues[p])] = "running"]
           /\ runs' = [runs EXCEPT ![Head(queues[p])] = @ + 1]
    BY DEF TakeTask, Highest
  <1> DEFINE n == Head(queues[p])
  <1>2. queues \in [Priorities -> Seq(Ids)] /\ Once(queues)
    BY <1>0 DEF TypeOK, IInv, RecordsAreTrue, Once
  <1>3. /\ queues' \in [Priorities -> Seq(Ids)]
        /\ Loses(queues, queues', p, 1)
        /\ 1 \in DOMAIN queues[p] /\ n = queues[p][1]
    BY <1>1, <1>2, TailLoses
  <1>4. n \in Ids  BY <1>2, <1>3
  <1>5. Once(queues') /\ \A i : Holds(queues', i) <=> Holds(queues, i) /\ i # n
    BY <1>2, <1>3, LosingOne
  <1>6. n \in Queued  BY <1>3, QueuedHolds DEF Holds
  <1> HIDE DEF n
  <1>7. /\ tasks[n] = "pending" /\ runs[n] = 0 /\ n \notin withdrawn
        /\ \A u \in Runners : task[u] # n
    BY <1>4, <1>6 DEF IInv, RecordsAreTrue, QueuedIsNew
  <1>8. /\ pc[w] = "ready" /\ pc' = [pc EXCEPT ![w] = "running"] /\ ~stopping
        /\ running' = running + 1
        /\ UNCHANGED <<forget, nextId, poolVars, completed, held, withdrawn>>
    BY DEF TakeTask
  <1>9. /\ task' = [task EXCEPT ![w] = n] /\ tasks' = [tasks EXCEPT ![n] = "running"]
        /\ runs' = [runs EXCEPT ![n] = @ + 1]
    BY <1>1 DEF n
  <1>10. TypeOK'
    <2>1. pc' \in [Threads -> Labels]  BY <1>0, <1>8 DEF TypeOK, Labels
    <2>2. tasks' \in [Ids -> Statuses]  BY <1>0, <1>9 DEF TypeOK, Statuses
    <2>3. task' \in [Threads -> Ids \cup {NoTask}]  BY <1>0, <1>4, <1>9 DEF TypeOK
    <2>4. runs' \in [Ids -> Nat]  BY <1>0, <1>4, <1>9 DEF TypeOK
    <2> QED  BY <1>0, <2>1, <2>2, <2>3, <2>4, <1>3, <1>8 DEF TypeOK
  <1>11. w \in Threads /\ w \notin Runners /\ Runners' = Runners \cup {w}
    BY <1>0, <1>8 DEF TypeOK, Runners, Threads
  <1>12. RecordsAreTrue' /\ RunsAtMostOnce' /\ QueuedIsNew' /\ RunnersHaveTasks'
         /\ CountersAreTrue'
    BY <1>3, <1>4, <1>5, <1>7, <1>8, <1>9, <1>11, Beginning
  <1>13. initialized
    <2>1. queues[p] # <<>>  BY <1>1
    <2> QED  BY <2>1 DEF IInv, LivesAreApart, QueuesEmpty
  <1>14. LivesAreApart'
    <2>1. n < nextId
      BY <1>0, <1>4, <1>7 DEF IInv, LivesAreApart, TypeOK, Ids
    <2> QED
      BY <2>1, <1>0, <1>4, <1>8, <1>9, <1>13 DEF IInv, LivesAreApart, TypeOK, Threads, Ids
  <1>15. ForgottenIsLive'  BY <1>0, <1>4, <1>8, <1>9 DEF IInv, ForgottenIsLive, TypeOK
  <1> QED  BY <1>10, <1>12, <1>14, <1>15 DEF IInv

\* What a thread runs was given out, and its record says that it runs.
LEMMA TaskUnderWay ==
    ASSUME IInv, NEW t \in Runners
    PROVE  task[t] \in Ids /\ tasks[task[t]] = "running" /\ task[t] < nextId
  <1>0. TypeOK /\ t \in Threads  BY DEF IInv, Runners
  <1>1. task[t] \in Ids  BY <1>0 DEF IInv, RunnersHaveTasks, TypeOK
  <1>2. tasks[task[t]] = "running"  BY <1>1 DEF IInv, RecordsAreTrue
  <1>3. ~(task[t] >= nextId)  BY <1>1, <1>2 DEF IInv, LivesAreApart
  <1>4. task[t] \in Int /\ nextId \in Int  BY <1>0, <1>1, PoolAssumption DEF TypeOK, Ids
  <1> QED  BY <1>1, <1>2, <1>3, <1>4

\* A task ends: t, which ran it, runs none.
LEMMA Ending ==
    ASSUME IInv, NEW t \in Runners, Finish(t), Runners' = Runners \ {t},
           pc' \in [Threads -> Labels], LivesAreApart'
    PROVE  IInv'
  <1> USE DEF Finish
  <1>0. TypeOK /\ t \in Threads  BY DEF IInv, Runners
  <1> DEFINE n == task[t]
  <1>1. n \in Ids  BY <1>0 DEF IInv, RunnersHaveTasks, TypeOK
  <1>2. PICK s \in {"completed", "failed", "none"} :
           /\ tasks' = [tasks EXCEPT ![n] = s]
           /\ forget' = forget \ {n}
    BY DEF CloseRecord
  <1>3. /\ task' = [task EXCEPT ![t] = NoTask]
        /\ running' = running - 1 /\ completed' = completed + 1
        /\ UNCHANGED <<queues, nextId, poolVars, historyVars>>
    OBVIOUS
  <1>4. tasks[n] = "running"  BY <1>1 DEF IInv, RecordsAreTrue
  <1>5. running = Cardinality(Runners) /\ Cardinality(Runners') = Cardinality(Runners) - 1
        /\ Cardinality(Runners') \in Nat /\ Cardinality(Runners) \in Nat
    BY Finite, FS_RemoveElement, FS_CardinalityType DEF IInv, CountersAreTrue
  <1> HIDE DEF n, Finish
  <1>6. TypeOK'
    <2>1. tasks' \in [Ids -> Statuses] /\ task' \in [Threads -> Ids \cup {NoTask}]
      BY <1>0, <1>1, <1>2, <1>3 DEF TypeOK, Statuses
    <2>2. running' \in Nat /\ completed' \in Nat  BY <1>0, <1>3, <1>5 DEF TypeOK
    <2>3. forget' \subseteq Ids  BY <1>0, <1>2 DEF TypeOK
    <2> QED  BY <1>0, <1>3, <2>1, <2>2, <2>3 DEF TypeOK
  <1>7. RecordsAreTrue'
    <2>1. \A i \in Ids : tasks'[i] = "pending" <=> i \in Queued'
      BY <1>0, <1>1, <1>2, <1>3, <1>4, QueuedHolds, QueuedHoldsPrime
      DEF TypeOK, IInv, RecordsAreTrue
    <2>2. \A i \in Ids : tasks'[i] = "running" <=> \E u \in Runners' : task'[u] = i
      <3> TAKE i \in Ids
      <3>1. CASE i = n
        <4>1. tasks'[i] # "running"  BY <3>1, <1>0, <1>2 DEF TypeOK
        <4>2. ASSUME NEW u \in Runners', task'[u] = i PROVE FALSE
          <5>1. u \in Runners /\ u # t /\ task[u] = n
            BY <4>2, <3>1, <1>0, <1>3 DEF TypeOK, Runners
          <5> QED  BY <5>1 DEF IInv, RecordsAreTrue, n
        <4> QED  BY <4>1, <4>2
      <3>2. CASE i # n
        <4>1. tasks'[i] = tasks[i]  BY <3>2, <1>0, <1>2 DEF TypeOK
        <4>2. ASSUME NEW u \in Runners, task[u] = i
              PROVE  u \in Runners' /\ task'[u] = i
          BY <4>2, <3>2, <1>0, <1>3 DEF TypeOK, Runners, n
        <4>3. ASSUME NEW u \in Runners', task'[u] = i
              PROVE  u \in Runners /\ task[u] = i
          BY <4>3, <1>0, <1>3 DEF TypeOK, Runners
        <4> QED  BY <4>1, <4>2, <4>3 DEF IInv, RecordsAreTrue
      <3> QED  BY <3>1, <3>2
    <2>3. \A u, v \in Runners' : task'[u] = task'[v] => u = v
      BY <1>0, <1>3 DEF TypeOK, Runners, IInv, RecordsAreTrue
    <2> QED  BY <2>1, <2>2, <2>3, <1>3 DEF IInv, RecordsAreTrue
  <1>8. RunsAtMostOnce'  BY <1>3 DEF IInv, RunsAtMostOnce
  <1>9. QueuedIsNew'
    BY <1>3, QueuedHolds, QueuedHoldsPrime DEF IInv, QueuedIsNew
  <1>10. RunnersHaveTasks'
    BY <1>0, <1>3 DEF IInv, RunnersHaveTasks, TypeOK, NoTask
  <1>11. CountersAreTrue'
    <2>1. running' = Cardinality(Runners')  BY <1>3, <1>5
    <2>2. running' + completed' = running + completed  BY <1>0, <1>3, <1>5 DEF TypeOK
    <2> QED  BY <2>1, <2>2, <1>3 DEF IInv, CountersAreTrue
  <1>12. ForgottenIsLive'
    BY <1>0, <1>1, <1>2, <1>3 DEF IInv, ForgottenIsLive, TypeOK
  <1> QED  BY <1>6, <1>7, <1>8, <1>9, <1>10, <1>11, <1>12 DEF IInv

LEMMA FinishTaskPreserves ==
    ASSUME IInv, NEW w \in Workers, FinishTask(w)
    PROVE  IInv'
  <1>0. TypeOK  BY DEF IInv
  <1>1. /\ pc[w] = "running" /\ Finish(w)
        /\ pc' = [pc EXCEPT ![w] = "announce"]
    BY DEF FinishTask, Goto
  <1>2. w \in Runners  BY <1>1 DEF Runners, Threads
  <1>3. Runners' = Runners \ {w}  BY <1>0, <1>1 DEF Runners, TypeOK, Threads
  <1>4. pc' \in [Threads -> Labels]  BY <1>0, <1>1 DEF TypeOK, Labels
  <1>5. LivesAreApart'
    <2>1. task[w] \in Ids  BY <1>2, TaskUnderWay
    <2>2. task[w] < nextId  BY <1>2, TaskUnderWay
    <2>3. \A i \in Ids : i >= nextId => tasks'[i] = tasks[i]
      BY <1>0, <1>1, <2>1, <2>2 DEF Finish, CloseRecord, TypeOK, Ids
    <2>4. forget' \subseteq forget  BY <1>1 DEF Finish, CloseRecord
    <2>5. /\ UNCHANGED <<nextId, initialized, stopping, queues, runs, held, withdrawn>>
          /\ \A c \in Callers : pc'[c] = pc[c]
          /\ pc[w] # "off"
      BY <1>0, <1>1, PoolAssumption DEF Finish, TypeOK, Threads
    <2> QED
      BY <2>3, <2>4, <2>5, PoolAssumption DEF IInv, LivesAreApart, QueuesEmpty
  <1> QED  BY <1>1, <1>2, <1>3, <1>4, <1>5, Ending

LEMMA FinishSyncPreserves ==
    ASSUME IInv, NEW c \in Callers, FinishSync(c)
    PROVE  IInv'
  <1>0. TypeOK  BY DEF IInv
  <1>1. /\ pc[c] = "inline" /\ Finish(c)
        /\ \A x \in Threads :
              pc'[x] = IF x = c THEN "idle"
                       ELSE IF pc[x] = "awaiting" THEN "waitAll" ELSE pc[x]
        /\ pc' \in [Threads -> Labels]
    BY <1>0 DEF FinishSync, WakeWaiters, TypeOK, Labels
  <1>2. c \in Runners  BY <1>1 DEF Runners, Threads
  <1>3. Runners' = Runners \ {c}  BY <1>1 DEF Runners, Threads
  <1>5. LivesAreApart'
    <2>1. task[c] \in Ids  BY <1>2, TaskUnderWay
    <2>2. task[c] < nextId  BY <1>2, TaskUnderWay
    <2>3. \A i \in Ids : i >= nextId => tasks'[i] = tasks[i]
      BY <1>0, <1>1, <2>1, <2>2 DEF Finish, CloseRecord, TypeOK, Ids
    <2>4. forget' \subseteq forget  BY <1>1 DEF Finish, CloseRecord
    <2>5. UNCHANGED <<nextId, initialized, stopping, queues, runs, held, withdrawn>>
      BY <1>1 DEF Finish
    <2>6. Owner \in Threads /\ \A w \in Workers : w \in Threads /\ w # c
      BY PoolAssumption DEF Threads
    <2>7. pc'[Owner] \notin {"wakeAll", "join"} /\ pc[Owner] \notin {"wakeAll", "join"}
      BY <1>1, <2>6 DEF IInv, LivesAreApart
    <2>8. \A w \in Workers : pc[w] = "off" => pc'[w] = "off"  BY <1>1, <2>6
    <2>9. \A x \in Callers : pc'[x] # "running" /\ (pc'[x] = "inline" => x = Owner)
      BY <1>1 DEF IInv, LivesAreApart, Threads
    <2> QED
      BY <2>3, <2>4, <2>5, <2>7, <2>8, <2>9 DEF IInv, LivesAreApart, QueuesEmpty
  <1> QED  BY <1>1, <1>2, <1>3, <1>5, Ending

LEMMA CancelTaskPreserves ==
    ASSUME IInv, NEW c \in Callers, NEW n \in Ids, CancelTask(c, n)
    PROVE  IInv'
  <1>0. TypeOK  BY DEF IInv
  <1>1. /\ pc[c] = "idle" /\ n \in held /\ n \in Queued /\ Dequeue(n)
        /\ tasks' = [tasks EXCEPT ![n] = "cancelled"]
        /\ withdrawn' = withdrawn \cup {n}
        /\ UNCHANGED <<task, forget, nextId, poolVars, countVars, held, runs>>
        /\ \A x \in Threads :
              pc'[x] = IF x = c THEN "idle"
                       ELSE IF pc[x] = "awaiting" THEN "waitAll" ELSE pc[x]
        /\ pc' \in [Threads -> Labels]
    BY <1>0 DEF CancelTask, CancelNotifies, WakeWaiters, TypeOK, Labels
  <1>2. queues \in [Priorities -> Seq(Ids)] /\ Once(queues)
    BY <1>0 DEF TypeOK, IInv, RecordsAreTrue, Once
  <1>a. PICK p \in Priorities : \E k \in DOMAIN queues[p] :
           queues[p][k] = n /\ queues' = [queues EXCEPT ![p] = RemoveAt(@, k)]
    BY <1>1 DEF Dequeue
  <1>3. PICK k \in DOMAIN queues[p] :
           queues[p][k] = n /\ queues' = [queues EXCEPT ![p] = RemoveAt(@, k)]
    BY <1>a
  <1>4. queues' \in [Priorities -> Seq(Ids)] /\ Loses(queues, queues', p, k)
    BY <1>2, <1>3, RemoveAtLoses
  <1>5. Once(queues') /\ \A i : Holds(queues', i) <=> Holds(queues, i) /\ i # n
    <2>1. k \in DOMAIN queues[p]  OBVIOUS
    <2>2. /\ Once(queues')
          /\ \A i : Holds(queues', i) <=> Holds(queues, i) /\ i # queues[p][k]
      BY <1>2, <1>4, <2>1, LosingOne
    <2> QED  BY <2>2, <1>3
  <1>6. tasks[n] = "pending" /\ runs[n] = 0 /\ n < nextId
    BY <1>0, <1>1 DEF IInv, RecordsAreTrue, QueuedIsNew, LivesAreApart, TypeOK, Ids
  <1>7. TypeOK'
    <2>1. tasks' \in [Ids -> Statuses]  BY <1>0, <1>1 DEF TypeOK, Statuses
    <2> QED  BY <2>1, <1>0, <1>1, <1>4 DEF TypeOK
  <1>8. Runners' = Runners
    BY <1>1 DEF Runners, Threads
  <1>9. RecordsAreTrue'
    <2>1. \A i \in Ids : tasks'[i] = "pending" <=> i \in Queued'
      BY <1>0, <1>1, <1>5, QueuedHolds, QueuedHoldsPrime DEF TypeOK, IInv, RecordsAreTrue
    <2>2. \A i \in Ids : tasks'[i] = "running" <=> tasks[i] = "running"
      BY <1>0, <1>1, <1>6 DEF TypeOK
    <2> QED  BY <2>1, <2>2, <1>1, <1>5, <1>8 DEF IInv, RecordsAreTrue, Once
  <1>10. RunsAtMostOnce'  BY <1>0, <1>1, <1>6 DEF IInv, RunsAtMostOnce, TypeOK
  <1>11. QueuedIsNew'
    BY <1>1, <1>5, QueuedHolds, QueuedHoldsPrime DEF IInv, QueuedIsNew
  <1>12. RunnersHaveTasks'  BY <1>1, <1>8 DEF IInv, RunnersHaveTasks
  <1>13. CountersAreTrue'  BY <1>1, <1>8 DEF IInv, CountersAreTrue
  <1>14. LivesAreApart'
    <2>1. Owner \in Threads /\ \A w \in Workers : w \in Threads /\ w # c
      BY PoolAssumption DEF Threads
    <2>2. pc'[Owner] \in {"wakeAll", "join"} <=> pc[Owner] \in {"wakeAll", "join"}
      BY <1>1, <2>1
    <2>3. \A w \in Workers : pc[w] = "off" => pc'[w] = "off"  BY <1>1, <2>1
    <2>4. \A x \in Callers : pc'[x] # "running" /\ (pc'[x] = "inline" => x = Owner)
      BY <1>1 DEF IInv, LivesAreApart, Threads
    <2>5. initialized
      <3>1. queues[p] # <<>>  BY <1>3
      <3> QED  BY <3>1 DEF IInv, LivesAreApart, QueuesEmpty
    <2>6. \A i \in Ids : i >= nextId =>
             tasks'[i] = "none" /\ i \notin withdrawn'
      BY <1>0, <1>1, <1>6 DEF IInv, LivesAreApart, TypeOK, Ids
    <2> QED  BY <1>1, <2>2, <2>3, <2>4, <2>5, <2>6 DEF IInv, LivesAreApart
  <1>15. ForgottenIsLive'  BY <1>0, <1>1 DEF IInv, ForgottenIsLive, TypeOK
  <1> QED  BY <1>7, <1>9, <1>10, <1>11, <1>12, <1>13, <1>14, <1>15 DEF IInv

LEMMA ForgetTaskPreserves ==
    ASSUME IInv, NEW c \in Callers, NEW n \in Ids, ForgetTask(c, n)
    PROVE  IInv'
  <1> USE DEF ForgetTask
  <1>0. TypeOK  BY DEF IInv
  <1>1. /\ tasks' \in [Ids -> Statuses]
        /\ \A i \in Ids :
              \/ tasks'[i] = tasks[i]
              \/ /\ tasks'[i] = "none" /\ i = n
                 /\ tasks[i] \notin {"pending", "running"}
        /\ forget' \subseteq forget \cup {n}
        /\ n \in forget' => n \in forget \/ tasks[n] \in {"pending", "running"}
        /\ n \in held
    BY <1>0 DEF ForgetRecord, TypeOK, Statuses
  <1>2. TypeOK'  BY <1>0, <1>1 DEF TypeOK
  <1>3. Runners' = Runners  BY DEF Runners
  <1>4. RecordsAreTrue'
    <2>1. \A i \in Ids : /\ tasks'[i] = "pending" <=> tasks[i] = "pending"
                         /\ tasks'[i] = "running" <=> tasks[i] = "running"
      BY <1>1
    <2>2. Queued' = Queued  BY DEF Queued
    <2> QED  BY <2>1, <2>2, <1>3 DEF IInv, RecordsAreTrue
  <1>5. RunsAtMostOnce'  BY DEF IInv, RunsAtMostOnce
  <1>6. QueuedIsNew'  BY DEF IInv, QueuedIsNew, Queued
  <1>7. RunnersHaveTasks'  BY <1>3 DEF IInv, RunnersHaveTasks
  <1>8. CountersAreTrue'  BY <1>3 DEF IInv, CountersAreTrue
  <1>9. LivesAreApart'
    BY <1>0, <1>1 DEF IInv, LivesAreApart, QueuesEmpty, TypeOK, Ids
  <1>10. ForgottenIsLive'
    BY <1>0, <1>1 DEF IInv, ForgottenIsLive, TypeOK, ForgetRecord
  <1> QED  BY <1>2, <1>4, <1>5, <1>6, <1>7, <1>8, <1>9, <1>10 DEF IInv
-----------------------------------------------------------------------------
LEMMA NextInv == IInv /\ [Next]_vars => IInv'
  <1> SUFFICES ASSUME IInv, [Next]_vars PROVE IInv'  OBVIOUS
  <1>1. CASE UNCHANGED vars
    BY <1>1 DEF vars, IInv, TypeOK, RecordsAreTrue, RunsAtMostOnce, QueuedIsNew,
                RunnersHaveTasks, CountersAreTrue, LivesAreApart, ForgottenIsLive,
                Runners, Queued, QueuesEmpty
  <1>2. CASE QuietStep  BY <1>2, QuietPreserves
  <1>3. CASE ~QuietStep /\ Next
    BY <1>3, InitializePreserves, StopPreserves, SubmitPreserves, SubmitSyncPreserves,
       TakeTaskPreserves, FinishTaskPreserves, FinishSyncPreserves, CancelTaskPreserves,
       ForgetTaskPreserves
    DEF Next, QuietStep, CallerStep, WorkerStep
  <1> QED  BY <1>1, <1>2, <1>3

\* Records, queues, threads and counters agree in every state of the pool.
THEOREM Invariance == Spec => []IInv
  BY InitInv, NextInv, PTL DEF Spec

\* A task runs at most once, and one that CancelTask or Shutdown cancelled never: a
\* caller told that its task was cancelled may free what the task would use.
THEOREM RunsAtMostOnceHolds == Spec => []RunsAtMostOnce
  <1>1. IInv => RunsAtMostOnce  BY DEF IInv
  <1> QED  BY <1>1, Invariance, PTL

\* A record only moves forward: no finished, cancelled or forgotten task is made to
\* look alive, except by a new life of the pool.
THEOREM StatusMovesForwardHolds == Spec => StatusMovesForward
  <1> DEFINE Moves == starts' = starts =>
                 \A i \in Ids : \/ tasks'[i] = tasks[i]
                                \/ /\ <<tasks[i], tasks'[i]>> \in Forward
                                   /\ tasks[i] = "none" => i = nextId
  <1>1. IInv /\ [Next]_vars => [Moves]_vars
    <2> SUFFICES ASSUME IInv, Next, starts' = starts, NEW i \in Ids,
                        tasks'[i] # tasks[i]
                 PROVE  /\ <<tasks[i], tasks'[i]>> \in Forward
                        /\ tasks[i] = "none" => i = nextId
      BY DEF vars
    <2>0. TypeOK  BY DEF IInv
    <2> USE <2>0 DEF Forward, TypeOK
    <2>1. ASSUME NEW n \in ThreadCounts, Initialize(n) PROVE FALSE
      BY <2>1 DEF Initialize
    <2>2. CASE Stop  BY <2>2 DEF Stop, IInv, RecordsAreTrue
    <2>3. CASE QuietStep
      BY <2>3 DEF QuietStep, OwnerStep, WakeAll, Join, NotifyOne, WaitForAll, TestDone,
                  Idle, IdleAnyway, Announce, SpuriousWake
    <2>4. ASSUME NEW c \in Callers, NEW p \in Priorities, Submit(c, p)
          PROVE  /\ <<tasks[i], tasks'[i]>> \in Forward
                 /\ tasks[i] = "none" => i = nextId
      BY <2>4, FreshId DEF Submit
    <2>5. ASSUME NEW c \in Callers, SubmitSync(c)
          PROVE  /\ <<tasks[i], tasks'[i]>> \in Forward
                 /\ tasks[i] = "none" => i = nextId
      BY <2>5, FreshId DEF SubmitSync
    <2>6. ASSUME NEW c \in Callers, NEW n \in Ids, CancelTask(c, n)
          PROVE  <<tasks[i], tasks'[i]>> \in Forward /\ tasks[i] # "none"
      BY <2>6 DEF CancelTask, IInv, RecordsAreTrue
    <2>7. ASSUME NEW c \in Callers, NEW n \in Ids, ForgetTask(c, n)
          PROVE  <<tasks[i], tasks'[i]>> \in Forward /\ tasks[i] # "none"
      BY <2>7 DEF ForgetTask, ForgetRecord, Statuses
    <2>8. ASSUME NEW t \in Runners, Finish(t)
          PROVE  <<tasks[i], tasks'[i]>> \in Forward /\ tasks[i] # "none"
      <3>1. task[t] \in Ids /\ tasks[task[t]] = "running"  BY TaskUnderWay
      <3>2. PICK s \in {"completed", "failed"} : CloseRecord(task[t], s)
        BY <2>8 DEF Finish
      <3> QED  BY <3>1, <3>2 DEF CloseRecord
    <2>9. ASSUME NEW w \in Workers, TakeTask(w)
          PROVE  <<tasks[i], tasks'[i]>> \in Forward /\ tasks[i] # "none"
      <3>1. PICK p \in Priorities :
               /\ queues[p] # <<>>
               /\ tasks' = [tasks EXCEPT ![Head(queues[p])] = "running"]
        BY <2>9 DEF TakeTask, Highest
      <3>2. 1 \in DOMAIN queues[p] /\ Head(queues[p]) = queues[p][1]
            /\ Head(queues[p]) \in Ids
        BY <3>1, TailLoses
      <3>3. tasks[Head(queues[p])] = "pending"
        BY <3>2, QueuedHolds DEF Holds, IInv, RecordsAreTrue
      <3> QED  BY <3>1, <3>2, <3>3
    <2>10. ASSUME NEW w \in Workers, FinishTask(w)
           PROVE  <<tasks[i], tasks'[i]>> \in Forward /\ tasks[i] # "none"
      BY <2>10, <2>8 DEF FinishTask, Runners, Threads
    <2>11. ASSUME NEW c \in Callers, FinishSync(c)
           PROVE  <<tasks[i], tasks'[i]>> \in Forward /\ tasks[i] # "none"
      BY <2>11, <2>8 DEF FinishSync, Runners, Threads
    <2> QED
      BY <2>1, <2>2, <2>3, <2>4, <2>5, <2>6, <2>7, <2>9, <2>10, <2>11
      DEF Next, QuietStep, CallerStep, WorkerStep
  <1> QED  BY <1>1, Invariance, PTL DEF Spec, StatusMovesForward
-----------------------------------------------------------------------------
(* The refinement of TaskService.                                          *)

\* What the record of a task says of it.
RecordState(i) ==
    IF i >= nextId THEN "new"
    ELSE IF tasks[i] = "pending" THEN "queued"
    ELSE IF tasks[i] = "running" THEN "running"
    ELSE IF i \in withdrawn THEN "withdrawn" ELSE "ended"

Kept == {i \in Ids : tasks[i] # "none" /\ i \notin forget}

\* In the mapping to TaskService the records stand for the queues and threads.
Tell == \A i \in Ids : ServiceState(i) = RecordState(i)

LEMMA RecordsTell == IInv => Tell
  <1> SUFFICES ASSUME IInv, NEW i \in Ids PROVE ServiceState(i) = RecordState(i)
    BY DEF Tell
  <1>1. tasks[i] = "pending" <=> i \in Queued  BY DEF IInv, RecordsAreTrue
  <1>2. tasks[i] = "running" <=> i \in {task[t] : t \in Threads}
    <2>1. i # NoTask  BY DEF Ids, NoTask
    <2>2. tasks[i] = "running" <=> \E t \in Runners : task[t] = i
      BY DEF IInv, RecordsAreTrue
    <2>3. \A t \in Threads : task[t] = i => t \in Runners
      BY <2>1 DEF IInv, RunnersHaveTasks
    <2>4. Runners \subseteq Threads  BY DEF Runners
    <2> QED  BY <2>2, <2>3, <2>4
  <1> DEFINE busy == i \in {task[t] : t \in Threads}
  <1> HIDE DEF busy
  <1>3. ServiceState(i) =
           CASE i >= nextId -> "new"
             [] i \in Queued -> "queued"
             [] busy -> "running"
             [] i \in withdrawn -> "withdrawn"
             [] OTHER -> "ended"
    BY DEF ServiceState, busy
  <1>4. ~(i >= nextId) \/ (i \notin Queued /\ ~busy /\ i \notin withdrawn)
    BY <1>1, <1>2 DEF IInv, LivesAreApart, busy
  <1>5. /\ ~(i \in Queued /\ busy)
        /\ ~(i \in Queued /\ i \in withdrawn)
        /\ ~(busy /\ i \in withdrawn)
    <2>1. i \in Queued => i \notin withdrawn  BY DEF IInv, QueuedIsNew
    <2>2. ASSUME busy, i \in withdrawn PROVE FALSE
      <3>1. runs[i] <= 0  BY <2>2 DEF IInv, RunsAtMostOnce
      <3>2. PICK t \in Threads : task[t] = i  BY <2>2 DEF busy
      <3>3. runs[i] > 0  BY <3>2 DEF IInv, RunnersHaveTasks, Ids, NoTask
      <3>4. runs[i] \in Nat  BY DEF IInv, TypeOK
      <3> QED  BY <3>1, <3>3, <3>4
    <2> QED  BY <1>1, <1>2, <2>1, <2>2 DEF busy
  <1>6. (tasks[i] = "pending" <=> i \in Queued) /\ (tasks[i] = "running" <=> busy)
    BY <1>1, <1>2 DEF busy
  <1>7. CASE i >= nextId
    <2>1. ServiceState(i) = "new"  BY <1>3, <1>4, <1>7
    <2> QED  BY <2>1, <1>7 DEF RecordState
  <1>8. CASE ~(i >= nextId) /\ i \in Queued
    <2>1. ServiceState(i) = "queued"  BY <1>3, <1>5, <1>8
    <2> QED  BY <2>1, <1>6, <1>8 DEF RecordState
  <1>9. CASE ~(i >= nextId) /\ i \notin Queued /\ busy
    <2>1. ServiceState(i) = "running"  BY <1>3, <1>5, <1>9
    <2> QED  BY <2>1, <1>6, <1>9 DEF RecordState
  <1>10. CASE ~(i >= nextId) /\ i \notin Queued /\ ~busy /\ i \in withdrawn
    <2>1. ServiceState(i) = "withdrawn"  BY <1>3, <1>10
    <2> QED  BY <2>1, <1>6, <1>10 DEF RecordState
  <1>11. CASE ~(i >= nextId) /\ i \notin Queued /\ ~busy /\ i \notin withdrawn
    <2>1. ServiceState(i) = "ended"  BY <1>3, <1>11
    <2> QED  BY <2>1, <1>6, <1>11 DEF RecordState
  <1> QED  BY <1>7, <1>8, <1>9, <1>10, <1>11

LEMMA RecordsTellNext == IInv' => Tell'
  BY RecordsTell, PTL

\* The mapped variables before and after a step.
LEMMA Mapping ==
    ASSUME IInv, IInv'
    PROVE  /\ [i \in Ids |-> ServiceState(i)] = [i \in Ids |-> RecordState(i)]
           /\ [i \in Ids |-> ServiceState(i)]' = [i \in Ids |-> RecordState(i)']
  BY RecordsTell, RecordsTellNext DEF Tell

LEMMA IsMove ==
    ASSUME IInv, IInv', NEW n \in Ids, NEW to,
           \A i \in Ids : RecordState(i)' = IF i = n THEN to ELSE RecordState(i),
           UNCHANGED <<initialized, Kept>>
    PROVE  TS!Move(n, RecordState(n), to)
  BY Mapping, RecordsTell, RecordsTellNext DEF Tell, TS!Move, Kept

LEMMA IsSubmit ==
    ASSUME IInv, IInv', initialized, nextId \in Ids, nextId' = nextId + 1, NEW s,
           \A i \in Ids : RecordState(i)' = IF i = nextId THEN s ELSE RecordState(i),
           Kept' = Kept \cup {nextId}, initialized' = initialized
    PROVE  TS!SubmitAs(nextId, s)
  <1>1. \A j \in Ids : RecordState(j) = "new" <=> j >= nextId  BY DEF RecordState
  <1>2. TS!NextId(nextId)
    BY <1>1, RecordsTell DEF Tell, TS!NextId, TS!TaskIds, Ids
  <1> QED
    BY <1>2, RecordsTell, RecordsTellNext DEF Tell, TS!SubmitAs, Kept

LEMMA IsStutter ==
    ASSUME IInv, IInv', \A i \in Ids : RecordState(i)' = RecordState(i),
           UNCHANGED <<initialized, Kept>>
    PROVE  UNCHANGED TS!taskVars
  BY RecordsTell, RecordsTellNext DEF Tell, TS!taskVars, Kept

LEMMA InitRefines == Init => TS!Closed
  <1> SUFFICES ASSUME Init PROVE TS!Closed  OBVIOUS
  <1>1. IInv  BY InitInv
  <1>2. \A i \in Ids : RecordState(i) = "new"  BY DEF Init, RecordState, Ids
  <1>3. Kept = {}  BY DEF Init, Kept
  <1> QED
    BY <1>1, <1>2, <1>3, RecordsTell DEF Init, Tell, TS!Closed, TS!TaskIds, Ids, Kept

LEMMA InitializeRefines ==
    ASSUME IInv, IInv', NEW n \in ThreadCounts, Initialize(n)
    PROVE  TS!Open
  <1>1. /\ ~initialized /\ initialized' = TRUE /\ nextId' = 1
        /\ tasks' = [i \in Ids |-> "none"]
    BY DEF Initialize
  <1>2. \A i \in Ids : ServiceState(i)' = "new"
    <2>1. \A i \in Ids : RecordState(i)' = "new"  BY <1>1 DEF RecordState, Ids
    <2> QED  BY <2>1, RecordsTellNext DEF Tell
  <1>3. \A i \in Ids : ServiceState(i) \notin {"queued", "running"}
    <2>1. Runners = {}  BY NothingRuns DEF Initialize
    <2>2. Queued = {}  BY <1>1, QueuedHolds DEF IInv, LivesAreApart, QueuesEmpty, Holds
    <2>3. \A i \in Ids : tasks[i] \notin {"pending", "running"}
      BY <2>1, <2>2 DEF IInv, RecordsAreTrue
    <2>4. \A i \in Ids : RecordState(i) \notin {"queued", "running"}
      BY <2>3 DEF RecordState
    <2> QED  BY <2>4, RecordsTell DEF Tell
  <1>4. Kept' = {}  BY <1>1 DEF Kept
  <1> QED
    BY <1>1, <1>2, <1>3, <1>4 DEF TS!Open, TS!In, TS!TaskIds, Ids, Kept

LEMMA StopRefines ==
    ASSUME IInv, IInv', Stop
    PROVE  TS!Close
  <1>1. /\ initialized /\ initialized' = FALSE /\ withdrawn' = withdrawn \cup Queued
        /\ tasks' = [i \in Ids |->
              IF i \in Queued /\ tasks[i] # "none" THEN "cancelled" ELSE tasks[i]]
        /\ UNCHANGED <<nextId, forget>>
    BY DEF Stop
  <1>2. \A i \in Ids :
           /\ RecordState(i)' =
                 IF RecordState(i) = "queued" THEN "withdrawn" ELSE RecordState(i)
           /\ tasks'[i] # "none" <=> tasks[i] # "none"
    <2> TAKE i \in Ids
    <2>1. tasks[i] = "pending" <=> i \in Queued  BY DEF IInv, RecordsAreTrue
    <2>2. i >= nextId => tasks[i] = "none"  BY DEF IInv, LivesAreApart
    <2> QED  BY <1>1, <2>1, <2>2 DEF RecordState
  <1>3. \A i \in Ids : ServiceState(i)' =
           IF ServiceState(i) = "queued" THEN "withdrawn" ELSE ServiceState(i)
    BY <1>2, RecordsTell, RecordsTellNext DEF Tell
  <1>4. Kept' = Kept  BY <1>1, <1>2 DEF Kept
  <1> QED  BY <1>1, <1>3, <1>4 DEF TS!Close, TS!TaskIds, Ids, Kept

LEMMA SubmitRefines ==
    ASSUME IInv, IInv', NEW c \in Callers,
           (\E p \in Priorities : Submit(c, p)) \/ SubmitSync(c)
    PROVE  \E i \in TS!TaskIds, s \in {"queued", "running"} : TS!SubmitAs(i, s)
  <1>1. PICK r \in {"pending", "running"} :
           /\ initialized /\ nextId \in Ids /\ nextId' = nextId + 1
           /\ tasks' = [tasks EXCEPT ![nextId] = r]
           /\ UNCHANGED <<initialized, forget, withdrawn>>
    BY DEF Submit, SubmitSync, Enter
  <1>2. tasks \in [Ids -> Statuses] /\ nextId \in Nat /\ Ids \subseteq Nat
    BY <1>1, PoolAssumption DEF IInv, TypeOK, Ids
  <1> DEFINE s == IF r = "pending" THEN "queued" ELSE "running"
  <1>3. \A i \in Ids : RecordState(i)' = IF i = nextId THEN s ELSE RecordState(i)
    BY <1>1, <1>2 DEF RecordState
  <1>4. Kept' = Kept \cup {nextId}
    BY <1>1, <1>2, FreshId DEF Kept
  <1>5. TS!SubmitAs(nextId, s)
    BY <1>1, <1>3, <1>4, IsSubmit
  <1> QED  BY <1>1, <1>5 DEF TS!TaskIds, Ids

LEMMA TakeTaskRefines ==
    ASSUME IInv, IInv', NEW w \in Workers, TakeTask(w)
    PROVE  \E i \in TS!TaskIds : TS!Begin(i)
  <1>1. PICK p \in Priorities :
           /\ queues[p] # <<>>
           /\ tasks' = [tasks EXCEPT ![Head(queues[p])] = "running"]
           /\ UNCHANGED <<initialized, nextId, forget, withdrawn>>
    BY DEF TakeTask, Highest
  <1>2. PICK n \in Ids : n = Head(queues[p]) /\ Holds(queues, n)
    <2>1. queues \in [Priorities -> Seq(Ids)]  BY DEF IInv, TypeOK
    <2>2. 1 \in DOMAIN queues[p] /\ Head(queues[p]) = queues[p][1] /\ queues[p][1] \in Ids
      BY <1>1, <2>1, TailLoses
    <2> QED  BY <2>2 DEF Holds
  <1>3. tasks[n] = "pending" /\ tasks \in [Ids -> Statuses] /\ ~(n >= nextId)
    BY <1>2, QueuedHolds DEF IInv, RecordsAreTrue, TypeOK, LivesAreApart
  <1>4. \A i \in Ids : RecordState(i)' = IF i = n THEN "running" ELSE RecordState(i)
    BY <1>1, <1>2, <1>3 DEF RecordState
  <1>5. RecordState(n) = "queued" /\ Kept' = Kept
    BY <1>1, <1>2, <1>3 DEF RecordState, Kept
  <1>6. TS!Begin(n)
    BY <1>1, <1>4, <1>5, IsMove DEF TS!Begin
  <1> QED  BY <1>6 DEF TS!TaskIds, Ids

LEMMA FinishRefines ==
    ASSUME IInv, IInv', NEW t \in Runners, Finish(t)
    PROVE  \E i \in TS!TaskIds : TS!End(i)
  <1>1. PICK n \in Ids : n = task[t] /\ tasks[n] = "running" /\ ~(n >= nextId)
    BY TaskUnderWay DEF IInv, LivesAreApart
  <1>2. PICK r \in {"completed", "failed"} :
           /\ tasks' = [tasks EXCEPT ![n] = IF n \in forget THEN "none" ELSE r]
           /\ forget' = forget \ {n}
           /\ UNCHANGED <<initialized, nextId, withdrawn>>
    BY <1>1 DEF Finish, CloseRecord
  <1>3. n \notin withdrawn
    <2>1. runs[n] > 0 /\ runs[n] \in Nat
      BY <1>1 DEF IInv, RunnersHaveTasks, Runners, TypeOK
    <2> QED  BY <2>1 DEF IInv, RunsAtMostOnce
  <1>4. tasks \in [Ids -> Statuses]  BY DEF IInv, TypeOK
  <1>5. \A i \in Ids : RecordState(i)' = IF i = n THEN "ended" ELSE RecordState(i)
    BY <1>1, <1>2, <1>3, <1>4 DEF RecordState
  <1>6. RecordState(n) = "running" /\ Kept' = Kept
    BY <1>1, <1>2, <1>4 DEF RecordState, Kept
  <1>7. TS!End(n)
    BY <1>2, <1>5, <1>6, IsMove DEF TS!End
  <1> QED  BY <1>7 DEF TS!TaskIds, Ids

LEMMA CancelRefines ==
    ASSUME IInv, IInv', NEW c \in Callers, NEW n \in Ids, CancelTask(c, n)
    PROVE  \E i \in TS!TaskIds : TS!Withdraw(i)
  <1>1. /\ n \in Queued /\ tasks' = [tasks EXCEPT ![n] = "cancelled"]
        /\ withdrawn' = withdrawn \cup {n}
        /\ UNCHANGED <<initialized, nextId, forget>>
    BY DEF CancelTask
  <1>2. tasks[n] = "pending" /\ tasks \in [Ids -> Statuses] /\ ~(n >= nextId)
    BY <1>1 DEF IInv, RecordsAreTrue, TypeOK, LivesAreApart
  <1>3. \A i \in Ids : RecordState(i)' = IF i = n THEN "withdrawn" ELSE RecordState(i)
    BY <1>1, <1>2 DEF RecordState
  <1>4. RecordState(n) = "queued" /\ Kept' = Kept
    BY <1>1, <1>2 DEF RecordState, Kept
  <1>5. TS!Withdraw(n)
    BY <1>1, <1>3, <1>4, IsMove DEF TS!Withdraw
  <1> QED  BY <1>5 DEF TS!TaskIds, Ids

LEMMA ForgetRefines ==
    ASSUME IInv, IInv', NEW c \in Callers, NEW n \in Ids, ForgetTask(c, n)
    PROVE  (\E i \in TS!TaskIds : TS!Forget(i)) \/ UNCHANGED TS!taskVars
  <1>1. /\ n \in held /\ n \notin forget
        /\ \/ /\ tasks[n] \in {"pending", "running"}
              /\ forget' = forget \cup {n} /\ tasks' = tasks
           \/ /\ tasks[n] \notin {"pending", "running"}
              /\ tasks' = [tasks EXCEPT ![n] = "none"] /\ forget' = forget
        /\ UNCHANGED <<initialized, nextId, withdrawn>>
    BY DEF ForgetTask, ForgetRecord, IInv, ForgottenIsLive
  <1>2. tasks \in [Ids -> Statuses]  BY DEF IInv, TypeOK
  <1>3. \A i \in Ids : RecordState(i)' = RecordState(i)
    BY <1>1, <1>2 DEF RecordState
  <1>4. Kept' = Kept \ {n}
    BY <1>1, <1>2 DEF Kept
  <1>5. CASE n \in Kept
    <2>1. TS!Forget(n)
      BY <1>1, <1>3, <1>4, <1>5, RecordsTell, RecordsTellNext DEF Tell, TS!Forget, Kept
    <2> QED  BY <2>1 DEF TS!TaskIds, Ids
  <1>6. CASE n \notin Kept
    BY <1>1, <1>3, <1>4, <1>6, IsStutter
  <1> QED  BY <1>5, <1>6

LEMMA StepRefines == IInv /\ IInv' /\ [Next]_vars => [TS!Step]_(TS!taskVars)
  <1> SUFFICES ASSUME IInv, IInv', [Next]_vars PROVE [TS!Step]_(TS!taskVars)
    OBVIOUS
  <1>1. CASE UNCHANGED vars \/ QuietStep
    <2>1. UNCHANGED <<tasks, nextId, withdrawn, forget, initialized>>
      BY <1>1 DEF vars, QuietStep, OwnerStep, WakeAll, Join, NotifyOne, WaitForAll,
                  TestDone, Idle, IdleAnyway, Announce, SpuriousWake
    <2>2. \A i \in Ids : RecordState(i)' = RecordState(i)  BY <2>1 DEF RecordState
    <2>3. Kept' = Kept  BY <2>1 DEF Kept
    <2> QED  BY <2>1, <2>2, <2>3, IsStutter
  <1>2. ASSUME NEW n \in ThreadCounts, Initialize(n) PROVE TS!Step
    BY <1>2, InitializeRefines DEF TS!Step
  <1>3. CASE Stop
    BY <1>3, StopRefines DEF TS!Step
  <1>4. ASSUME NEW c \in Callers, (\E p \in Priorities : Submit(c, p)) \/ SubmitSync(c)
        PROVE  TS!Step
    BY <1>4, SubmitRefines DEF TS!Step
  <1>5. ASSUME NEW w \in Workers, TakeTask(w) PROVE TS!Step
    BY <1>5, TakeTaskRefines DEF TS!Step
  <1>6. ASSUME NEW t \in Threads, FinishTask(t) \/ FinishSync(t) PROVE TS!Step
    <2>1. t \in Runners /\ Finish(t)  BY <1>6 DEF FinishTask, FinishSync, Runners
    <2> QED  BY <2>1, FinishRefines DEF TS!Step
  <1>7. ASSUME NEW c \in Callers, NEW i \in Ids, CancelTask(c, i) PROVE TS!Step
    BY <1>7, CancelRefines DEF TS!Step
  <1>8. ASSUME NEW c \in Callers, NEW i \in Ids, ForgetTask(c, i)
        PROVE  [TS!Step]_(TS!taskVars)
    BY <1>8, ForgetRefines DEF TS!Step
  <1> QED
    BY <1>1, <1>2, <1>3, <1>4, <1>5, <1>6, <1>7, <1>8
    DEF Next, QuietStep, CallerStep, WorkerStep, Threads

\* Whatever goes on between queues, threads and records, the pool is the service its
\* users rely on (and ModelStreamer is built on): a task is begun once or withdrawn, a
\* stopped pool begins nothing, and a new life starts when the last one has ended.
\* (Submit, WorkerLoop, CancelTask, ForgetTask, Initialize, Shutdown)
THEOREM Refinement == Spec => ImplementsTaskService
  BY InitRefines, StepRefines, Invariance, PTL DEF Spec, ImplementsTaskService, TS!Service
=============================================================================
