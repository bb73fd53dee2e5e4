--------------------------- MODULE FrameJobsProofs ---------------------------
EXTENDS FrameJobs, Integers, FiniteSetTheorems, TLAPS

LEMMA DivBounds ==
    ASSUME NEW a \in Nat, NEW g \in Nat \ {0}
    PROVE  /\ a \div g \in Nat
           /\ (a \div g) * g <= a
           /\ a < (a \div g) * g + g
  BY SMTT(30)

LEMMA MulMonotone ==
    ASSUME NEW a \in Nat, NEW b \in Nat, NEW g \in Nat \ {0}, a <= b
    PROVE  a * g <= b * g /\ a * g \in Nat /\ b * g \in Nat
  BY SMTT(30)

LEMMA MulNext ==
    ASSUME NEW a \in Nat, NEW g \in Nat
    PROVE  (a + 1) * g = a * g + g
  BY SMTT(30)

LEMMA GrainIndex ==
    ASSUME NEW n \in Nat \ {0}, NEW g \in Nat \ {0}, NEW k \in Nat
    PROVE  /\ GrainsOf(n, g) \in Nat
           /\ k < GrainsOf(n, g) <=> k * g < n
  <1> DEFINE q == GrainsOf(n, g)
  <1>1. q \in Nat /\ q * g <= n + g - 1 /\ n + g - 1 < q * g + g
    BY DivBounds, n + g - 1 \in Nat DEF GrainsOf
  <1>2. CASE k < q
    <2>1. (k + 1) * g <= q * g  BY <1>2, <1>1, MulMonotone, k + 1 \in Nat
    <2>2. (k + 1) * g = k * g + g  BY MulNext
    <2>3. k * g \in Nat /\ q * g \in Nat  BY MulMonotone, <1>1
    <2> HIDE DEF q
    <2> QED  BY <1>1, <1>2, <2>1, <2>2, <2>3 DEF q
  <1>3. CASE q <= k
    <2>1. q * g <= k * g  BY <1>3, <1>1, MulMonotone
    <2>2. k * g \in Nat /\ q * g \in Nat  BY MulMonotone, <1>1
    <2> HIDE DEF q
    <2> QED  BY <1>1, <1>3, <2>1, <2>2 DEF q
  <1> QED  BY <1>1, <1>2, <1>3

LEMMA GrainPositive ==
    ASSUME NEW n \in Nat, NEW p \in BOOLEAN
    PROVE  GrainOf(n, p) \in Nat \ {0}
  <1>1. Cardinality(Workers) \in Nat /\ Cardinality(Workers) # 0
    BY WorkersAssumption, FS_CardinalityType, FS_EmptySet
  <1>2. Participants(p) \in Nat \ {0}  BY <1>1 DEF Participants
  <1>3. Participants(p) * TargetGrains \in Nat \ {0}
    BY <1>2, BoundsAssumption, SMTT(30)
  <1>4. n \div (Participants(p) * TargetGrains) \in Nat  BY <1>3, DivBounds
  <1> QED  BY <1>4 DEF GrainOf, AtLeastOne

USE DEF threadVars, ownerVars, dispatchVars, progressVars, groupVars

LEMMA JobCountType ==
    ASSUME IInv, NEW b \in Batches, stage[b] = "batch"
    PROVE  JobCount(b) \in Nat \ {0}
  <1>1. count[b] \in Nat \ {0} /\ grain[b] \in Nat \ {0}
    BY BoundsAssumption DEF IInv, TypeOK, StagesInv
  <1>2. GrainsOf(count[b], grain[b]) \in Nat \ {0}
    <2>1. 0 \in Nat /\ 0 * grain[b] = 0  BY <1>1
    <2>2. GrainsOf(count[b], grain[b]) \in Nat /\ 0 < GrainsOf(count[b], grain[b])
      BY <1>1, <2>1, GrainIndex
    <2> QED  BY <2>2
  <1>3. Cardinality(Workers) \in Nat \ {0}
    BY WorkersAssumption, FS_CardinalityType, FS_EmptySet
  <1> QED  BY <1>2, <1>3 DEF JobCount, AtMost

\* In this step no thread gains a grain, none is accounted for and no cursor
\* goes back.
KeepsGrains ==
    \A t \in Threads :
        pc'[t] \in Holding /\ Held(t)' # {} =>
            /\ pc[t] \in Holding
            /\ batch'[t] = batch[t]
            /\ Held(t)' \subseteq Held(t)
            /\ cursor[batch[t]] <= cursor'[batch[t]]
            /\ count'[batch[t]] = count[batch[t]]
            /\ grain'[batch[t]] = grain[batch[t]]
            /\ accounted'[batch[t]] = accounted[batch[t]]

\* Such a step leaves every claimed grain with its one holder.
LEMMA OwnedFrame ==
    ASSUME TypeOK, TypeOK', GrainsAreOwned,
           KeepsGrains,
           \A t \in Threads :
               pc[t] \in Holding => batch[t] \in Batches
    PROVE  GrainsAreOwned'
  <1>1. ASSUME NEW t \in Threads, pc'[t] \in Holding, NEW k \in Held(t)'
        PROVE  /\ k < cursor'[batch'[t]]
               /\ k < GrainsOf(count'[batch'[t]], grain'[batch'[t]])
               /\ k \notin accounted'[batch'[t]]
    <2>1. /\ pc[t] \in Holding /\ k \in Held(t) /\ batch'[t] = batch[t]
          /\ batch[t] \in Batches
      BY <1>1 DEF KeepsGrains
    <2>2. k \in Nat  BY <2>1 DEF TypeOK, Held
    <2>3. /\ k < cursor[batch[t]]
          /\ k < GrainsOf(count[batch[t]], grain[batch[t]])
          /\ k \notin accounted[batch[t]]
      BY <2>1 DEF GrainsAreOwned
    <2>4. cursor[batch[t]] \in Nat /\ cursor'[batch[t]] \in Nat
      BY <2>1 DEF TypeOK
    <2> QED  BY <1>1, <2>1, <2>2, <2>3, <2>4 DEF KeepsGrains
  <1>2. ASSUME NEW t \in Threads, NEW u \in Threads, t # u, batch'[t] = batch'[u],
               pc'[t] \in Holding, pc'[u] \in Holding
        PROVE  Held(t)' \cap Held(u)' = {}
    <2>1. CASE Held(t)' = {} \/ Held(u)' = {}  BY <2>1
    <2>2. CASE Held(t)' # {} /\ Held(u)' # {}
      <3>1. Held(t) \cap Held(u) = {}  BY <1>2, <2>2 DEF GrainsAreOwned, KeepsGrains
      <3> QED  BY <3>1, <1>2, <2>2 DEF KeepsGrains
    <2> QED  BY <2>1, <2>2
  <1> QED  BY <1>1, <1>2 DEF GrainsAreOwned

LEMMA InitializeStep ==
    ASSUME IInv, Initialize
    PROVE  IInv'
  <1> USE WorkersAssumption, BoundsAssumption DEF IInv, Initialize, Goto
  <1>1. pc' \in [Threads -> WorkerLabels \cup MainLabels]
    BY DEF TypeOK, WorkerLabels, MainLabels, Threads
  <1>2. pc'[Main] \in MainLabels /\ \A w_1 \in Workers : pc'[w_1] \in WorkerLabels
    BY DEF TypeOK, WorkerLabels, MainLabels, Threads
  <1>3. TypeOK'
    <2>1. starts' \in 0 .. MaxStarts  BY DEF TypeOK
    <2>2. stopping' \in BOOLEAN /\ initialized' \in BOOLEAN  OBVIOUS
    <2> QED  BY <1>1, <1>2, <2>1, <2>2 DEF TypeOK
  <1>4. ThreadsInv'
    BY DEF ThreadsInv, StagesInv, TypeOK, Threads, Draining, Holding
  <1>5. StagesInv'
    BY DEF StagesInv, ThreadsInv, TypeOK, Threads
  <1>6. RemainingIsOwed'
    BY DEF RemainingIsOwed, Grains
  <1>7. KeepsGrains
    BY DEF KeepsGrains, ThreadsInv, TypeOK, Threads, Holding, Draining, Held
  <1>8. GrainsAreOwned'
    BY <1>3, <1>7, OwnedFrame DEF ThreadsInv, Holding, Draining
  <1>9. CallsFollowCursor'
    BY DEF CallsFollowCursor
  <1>10. JoinedIsDone'
    BY DEF JoinedIsDone, StagesInv
  <1> QED  BY <1>3, <1>4, <1>5, <1>6, <1>8, <1>9, <1>10

LEMMA SetStoppingStep ==
    ASSUME IInv, SetStopping
    PROVE  IInv'
  <1> USE WorkersAssumption, BoundsAssumption DEF IInv, SetStopping, StoreStopping, Goto
  <1>1. pc' \in [Threads -> WorkerLabels \cup MainLabels]
    BY DEF TypeOK, WorkerLabels, MainLabels, Threads
  <1>2. pc'[Main] \in MainLabels /\ \A w_1 \in Workers : pc'[w_1] \in WorkerLabels
    BY DEF TypeOK, WorkerLabels, MainLabels, Threads
  <1>3. TypeOK'
    BY <1>1, <1>2 DEF TypeOK, ThreadsInv, Threads
  <1>4. ThreadsInv'
    BY DEF ThreadsInv, StagesInv, TypeOK, Threads, Draining, Holding
  <1>5. StagesInv'
    BY DEF StagesInv, ThreadsInv, TypeOK, Threads
  <1>6. RemainingIsOwed'
    BY DEF RemainingIsOwed, Grains
  <1>7. KeepsGrains
    BY DEF KeepsGrains, ThreadsInv, TypeOK, Threads, Holding, Draining, Held
  <1>8. GrainsAreOwned'
    BY <1>3, <1>7, OwnedFrame DEF ThreadsInv, Holding, Draining
  <1>9. CallsFollowCursor'
    BY DEF CallsFollowCursor
  <1>10. JoinedIsDone'
    BY DEF JoinedIsDone, StagesInv
  <1> QED  BY <1>3, <1>4, <1>5, <1>6, <1>8, <1>9, <1>10

LEMMA WakeForStopStep ==
    ASSUME IInv, WakeForStop
    PROVE  IInv'
  <1> USE WorkersAssumption, BoundsAssumption DEF IInv, WakeForStop, WakeWorkers, Goto
  <1>1. pc' \in [Threads -> WorkerLabels \cup MainLabels]
    BY DEF TypeOK, WorkerLabels, MainLabels, Threads
  <1>2. pc'[Main] \in MainLabels /\ \A w_1 \in Workers : pc'[w_1] \in WorkerLabels
    BY DEF TypeOK, WorkerLabels, MainLabels, Threads
  <1>3. TypeOK'
    BY <1>1, <1>2 DEF TypeOK, ThreadsInv, Threads
  <1>4. ThreadsInv'
    BY DEF ThreadsInv, StagesInv, TypeOK, Threads, Draining, Holding
  <1>5. StagesInv'
    BY DEF StagesInv, ThreadsInv, TypeOK, Threads
  <1>6. RemainingIsOwed'
    BY DEF RemainingIsOwed, Grains
  <1>7. KeepsGrains
    BY DEF KeepsGrains, ThreadsInv, TypeOK, Threads, Holding, Draining, Held
  <1>8. GrainsAreOwned'
    BY <1>3, <1>7, OwnedFrame DEF ThreadsInv, Holding, Draining
  <1>9. CallsFollowCursor'
    BY DEF CallsFollowCursor
  <1>10. JoinedIsDone'
    BY DEF JoinedIsDone, StagesInv
  <1> QED  BY <1>3, <1>4, <1>5, <1>6, <1>8, <1>9, <1>10

LEMMA JoinWorkersStep ==
    ASSUME IInv, JoinWorkers
    PROVE  IInv'
  <1> USE WorkersAssumption, BoundsAssumption DEF IInv, JoinWorkers, Goto
  <1>1. pc' \in [Threads -> WorkerLabels \cup MainLabels]
    BY DEF TypeOK, WorkerLabels, MainLabels, Threads
  <1>2. pc'[Main] \in MainLabels /\ \A w_1 \in Workers : pc'[w_1] \in WorkerLabels
    BY DEF TypeOK, WorkerLabels, MainLabels, Threads
  <1>3. TypeOK'
    BY <1>1, <1>2 DEF TypeOK, ThreadsInv, Threads
  <1>4. ThreadsInv'
    BY DEF ThreadsInv, StagesInv, TypeOK, Threads, Draining, Holding
  <1>5. StagesInv'
    BY DEF StagesInv, ThreadsInv, TypeOK, Threads
  <1>6. RemainingIsOwed'
    BY DEF RemainingIsOwed, Grains
  <1>7. KeepsGrains
    BY DEF KeepsGrains, ThreadsInv, TypeOK, Threads, Holding, Draining, Held
  <1>8. GrainsAreOwned'
    BY <1>3, <1>7, OwnedFrame DEF ThreadsInv, Holding, Draining
  <1>9. CallsFollowCursor'
    BY DEF CallsFollowCursor
  <1>10. JoinedIsDone'
    BY DEF JoinedIsDone, StagesInv
  <1> QED  BY <1>3, <1>4, <1>5, <1>6, <1>8, <1>9, <1>10

LEMMA DispatchInlineStep ==
    ASSUME IInv, NEW b \in Batches, NEW n \in Counts, NEW p \in BOOLEAN, DispatchInline(b, n, p)
    PROVE  IInv'
  <1> USE WorkersAssumption, BoundsAssumption DEF IInv, DispatchInline, Goto
  <1>1. pc' \in [Threads -> WorkerLabels \cup MainLabels]
    BY DEF TypeOK, WorkerLabels, MainLabels, Threads
  <1>2. pc'[Main] \in MainLabels /\ \A w_1 \in Workers : pc'[w_1] \in WorkerLabels
    BY DEF TypeOK, WorkerLabels, MainLabels, Threads
  <1>3. TypeOK'
    BY <1>1, <1>2 DEF TypeOK, ThreadsInv, Threads
  <1>4. ThreadsInv'
    BY DEF ThreadsInv, StagesInv, TypeOK, Threads, Draining, Holding
  <1>5. StagesInv'
    <2>1. ASSUME NEW c \in Batches, c # b
          PROVE  /\ stage'[c] = stage[c] /\ count'[c] = count[c] /\ calls'[c] = calls[c]
                 /\ c \in groups' <=> c \in groups
                 /\ c \in joined' <=> c \in joined
      BY <2>1 DEF TypeOK
    <2>2. /\ stage'[b] = "inline" /\ count'[b] = n
          /\ calls'[b] = [i \in Items |-> IF i < n THEN 1 ELSE 0]
      BY DEF TypeOK
    <2>3. ASSUME NEW i \in DOMAIN queue PROVE queue[i] \in Batches /\ queue[i] # b
      BY DEF StagesInv, TypeOK
    <2> QED  BY <2>1, <2>2, <2>3 DEF StagesInv, TypeOK
  <1>6. RemainingIsOwed'
    BY DEF RemainingIsOwed, Grains, TypeOK
  <1>7. KeepsGrains
    BY DEF KeepsGrains, ThreadsInv, TypeOK, Threads, Holding, Draining, Held
  <1>8. GrainsAreOwned'
    BY <1>3, <1>7, OwnedFrame DEF ThreadsInv, Holding, Draining
  <1>9. CallsFollowCursor'
    BY DEF CallsFollowCursor
  <1>10. JoinedIsDone'
    BY DEF JoinedIsDone, StagesInv
  <1> QED  BY <1>3, <1>4, <1>5, <1>6, <1>8, <1>9, <1>10

LEMMA DispatchBatchStep ==
    ASSUME IInv, NEW b \in Batches, NEW n \in Counts, NEW p \in BOOLEAN, DispatchBatch(b, n, p)
    PROVE  IInv'
  <1> USE WorkersAssumption, BoundsAssumption DEF IInv, DispatchBatch, Goto
  <1>1. pc' \in [Threads -> WorkerLabels \cup MainLabels]
    BY DEF TypeOK, WorkerLabels, MainLabels, Threads
  <1>2. pc'[Main] \in MainLabels /\ \A w_1 \in Workers : pc'[w_1] \in WorkerLabels
    BY DEF TypeOK, WorkerLabels, MainLabels, Threads
  <1>3. TypeOK'
    <2>1. GrainOf(n, p) \in Nat \ {0} /\ n \in Nat \ {0}  BY GrainPositive
    <2>2. GrainsOf(n, GrainOf(n, p)) \in Nat  BY <2>1, GrainIndex
    <2> QED  BY <1>1, <1>2, <2>1, <2>2 DEF TypeOK, Threads
  <1>4. ThreadsInv'
    BY DEF ThreadsInv, StagesInv, TypeOK, Threads, Draining, Holding
  <1>5. StagesInv'
    <2>1. ASSUME NEW c \in Batches, c # b
          PROVE  stage'[c] = stage[c] /\ count'[c] = count[c] /\ remaining'[c] = remaining[c]
      BY <2>1 DEF TypeOK
    <2>2. stage'[b] = "batch" /\ count'[b] = n  BY DEF TypeOK
    <2>3. ASSUME NEW i \in DOMAIN queue PROVE queue[i] \in Batches /\ queue[i] # b
      BY DEF StagesInv, TypeOK
    <2> QED  BY <2>1, <2>2, <2>3 DEF StagesInv, TypeOK
  <1>6. RemainingIsOwed'
    <2>1. GrainOf(n, p) \in Nat \ {0} /\ n \in Nat \ {0}  BY GrainPositive
    <2>2. GrainsOf(n, GrainOf(n, p)) \in Nat  BY <2>1, GrainIndex
    <2>3. accounted[b] = {}  BY DEF StagesInv
    <2>4. /\ count'[b] = n /\ grain'[b] = GrainOf(n, p)
          /\ remaining'[b] = GrainsOf(n, GrainOf(n, p))
          /\ accounted'[b] = {}
      BY <2>3 DEF TypeOK
    <2>5. Cardinality(0 .. GrainsOf(n, GrainOf(n, p)) - 1) = GrainsOf(n, GrainOf(n, p))
      BY <2>2, FS_Interval
    <2>6. remaining'[b] = Cardinality(Grains(b)' \ accounted'[b])
      BY <2>4, <2>5, Grains(b)' \ {} = Grains(b)' DEF Grains
    <2>7. ASSUME NEW c \in Batches, c # b
          PROVE  /\ stage'[c] = stage[c] /\ count'[c] = count[c]
                 /\ grain'[c] = grain[c] /\ remaining'[c] = remaining[c]
      BY <2>7 DEF TypeOK
    <2> QED  BY <2>4, <2>6, <2>7 DEF RemainingIsOwed, Grains
  <1>7. KeepsGrains
    BY DEF KeepsGrains, ThreadsInv, TypeOK, Threads, Holding, Draining, Held
  <1>8. GrainsAreOwned'
    BY <1>3, <1>7, OwnedFrame DEF ThreadsInv, Holding, Draining
  <1>9. CallsFollowCursor'
    <2>1. /\ cursor'[b] = 0 /\ count'[b] = n /\ grain'[b] \in Nat
          /\ calls'[b] = calls[b]
      BY GrainPositive DEF TypeOK, StagesInv
    <2>2. \A i \in Items : calls[b][i] = 0  BY DEF StagesInv
    <2>3. AtMost(cursor'[b] * grain'[b], count'[b]) = 0
      BY <2>1 DEF AtMost
    <2>4. ASSUME NEW c \in Batches, c # b
          PROVE  /\ stage'[c] = stage[c] /\ count'[c] = count[c]
                 /\ grain'[c] = grain[c] 
      BY <2>4 DEF TypeOK
    <2> QED  BY <2>1, <2>2, <2>3, <2>4 DEF CallsFollowCursor, Items
  <1>10. JoinedIsDone'
    BY DEF JoinedIsDone, StagesInv
  <1> QED  BY <1>3, <1>4, <1>5, <1>6, <1>8, <1>9, <1>10

LEMMA EnqueueStep ==
    ASSUME IInv, Enqueue
    PROVE  IInv'
  <1> USE WorkersAssumption, BoundsAssumption DEF IInv, Enqueue, PushJobs, Goto
  <1>1. pc' \in [Threads -> WorkerLabels \cup MainLabels]
    BY DEF TypeOK, WorkerLabels, MainLabels, Threads
  <1>2. pc'[Main] \in MainLabels /\ \A w_1 \in Workers : pc'[w_1] \in WorkerLabels
    BY DEF TypeOK, WorkerLabels, MainLabels, Threads
  <1>3. TypeOK'
    <2>1. JobCount(batch[Main]) \in Nat /\ batch[Main] \in Batches
      BY JobCountType DEF ThreadsInv
    <2>2. [i \in 1 .. JobCount(batch[Main]) |-> batch[Main]] \in Seq(Batches)
      BY <2>1
    <2>3. queue' \in Seq(Batches)  BY <2>2 DEF TypeOK
    <2> QED  BY <1>1, <1>2, <2>3 DEF TypeOK
  <1>4. ThreadsInv'
    BY DEF ThreadsInv, StagesInv, TypeOK, Threads, Draining, Holding
  <1>5. StagesInv'
    <2> DEFINE jobs == [i \in 1 .. JobCount(batch[Main]) |-> batch[Main]]
    <2>1. /\ JobCount(batch[Main]) \in Nat /\ batch[Main] \in Batches
          /\ stage[batch[Main]] = "batch"
      BY JobCountType DEF ThreadsInv
    <2>2. jobs \in Seq(Batches) /\ Len(jobs) = JobCount(batch[Main])  BY <2>1
    <2>5. queue \in Seq(Batches)  BY DEF TypeOK
    <2>3. \A i \in DOMAIN queue : stage[queue[i]] = "batch"  BY DEF StagesInv
    <2>4. \A i \in 1 .. Len(jobs) : jobs[i] = batch[Main]  BY <2>1, <2>2
    <2> HIDE DEF jobs
    <2>6. \A i \in DOMAIN (queue \o jobs) : stage[(queue \o jobs)[i]] = "batch"
      BY <2>1, <2>2, <2>3, <2>4, <2>5
    <2>7. queue' = queue \o jobs  BY DEF jobs
    <2> QED  BY <2>6, <2>7 DEF StagesInv
  <1>6. RemainingIsOwed'
    BY DEF RemainingIsOwed, Grains
  <1>7. KeepsGrains
    BY DEF KeepsGrains, ThreadsInv, TypeOK, Threads, Holding, Draining, Held
  <1>8. GrainsAreOwned'
    BY <1>3, <1>7, OwnedFrame DEF ThreadsInv, Holding, Draining
  <1>9. CallsFollowCursor'
    BY DEF CallsFollowCursor
  <1>10. JoinedIsDone'
    BY DEF JoinedIsDone, StagesInv
  <1> QED  BY <1>3, <1>4, <1>5, <1>6, <1>8, <1>9, <1>10

LEMMA NotifyAllStep ==
    ASSUME IInv, NotifyAll
    PROVE  IInv'
  <1> USE WorkersAssumption, BoundsAssumption DEF IInv, NotifyAll, WakeWorkers, AfterDispatch, ReturnGroup, Goto
  <1>1. pc' \in [Threads -> WorkerLabels \cup MainLabels]
    BY DEF TypeOK, WorkerLabels, MainLabels, Threads
  <1>2. pc'[Main] \in MainLabels /\ \A w_1 \in Workers : pc'[w_1] \in WorkerLabels
    BY DEF TypeOK, WorkerLabels, MainLabels, Threads
  <1>3. TypeOK'
    BY <1>1, <1>2 DEF TypeOK, ThreadsInv, Threads
  <1>4. ThreadsInv'
    BY DEF ThreadsInv, StagesInv, TypeOK, Threads, Draining, Holding
  <1>5. StagesInv'
    BY DEF StagesInv, ThreadsInv, TypeOK, Threads
  <1>6. RemainingIsOwed'
    BY DEF RemainingIsOwed, Grains
  <1>7. KeepsGrains
    BY DEF KeepsGrains, ThreadsInv, TypeOK, Threads, Holding, Draining, Held
  <1>8. GrainsAreOwned'
    BY <1>3, <1>7, OwnedFrame DEF ThreadsInv, Holding, Draining
  <1>9. CallsFollowCursor'
    BY DEF CallsFollowCursor
  <1>10. JoinedIsDone'
    BY DEF JoinedIsDone, StagesInv
  <1> QED  BY <1>3, <1>4, <1>5, <1>6, <1>8, <1>9, <1>10

LEMMA NotifyOneStep ==
    ASSUME IInv, NotifyOne
    PROVE  IInv'
  <1> USE WorkersAssumption, BoundsAssumption DEF IInv, NotifyOne, AfterDispatch, ReturnGroup, Goto
  <1>1. pc' \in [Threads -> WorkerLabels \cup MainLabels]
    BY DEF TypeOK, WorkerLabels, MainLabels, Threads
  <1>2. pc'[Main] \in MainLabels /\ \A w_1 \in Workers : pc'[w_1] \in WorkerLabels
    BY DEF TypeOK, WorkerLabels, MainLabels, Threads
  <1>3. TypeOK'
    BY <1>1, <1>2 DEF TypeOK, ThreadsInv, Threads
  <1>4. ThreadsInv'
    <2>1. \A t \in Threads : t # Main /\ pc'[t] # pc[t] => pc'[t] = "park" /\ pc[t] = "waiting"
      BY DEF TypeOK, Threads
    <2>2. pc'[Main] \in {"drain", "idle", "notify"}  BY DEF TypeOK, Threads
    <2>3. \A t \in Threads : t # Main => batch'[t] = batch[t]  BY DEF TypeOK, Threads
    <2>4. pc'[Main] \in {"drain", "notify"} => batch'[Main] = batch[Main]
      BY DEF TypeOK, Threads
    <2>5. /\ executed' = executed /\ ran' = ran /\ stage' = stage /\ at' = at
          /\ initialized' = initialized
      OBVIOUS
    <2>6. \A t \in Threads : t # Main /\ pc'[t] = "run" => pc[t] = "run"  BY <2>1
    <2>7. \A w_1 \in Workers : pc[w_1] = "off" => pc'[w_1] = "off"  BY <2>1 DEF Threads
    <2> HIDE DEF NotifyOne
    <2>8. pc[Main] = "notify"  BY DEF NotifyOne
    <2> QED  BY <2>1, <2>2, <2>3, <2>4, <2>5, <2>6, <2>7, <2>8
             DEF ThreadsInv, TypeOK, Threads, Draining, Holding
  <1>5. StagesInv'
    <2>1. batch[Main] \in Batches /\ stage[batch[Main]] = "batch"  BY DEF ThreadsInv
    <2>2. /\ groups' \subseteq groups \cup {batch[Main]}
          /\ UNCHANGED <<stage, cursor, remaining, accounted, count, calls, queue, joined>>
      OBVIOUS
    <2> QED  BY <2>1, <2>2 DEF StagesInv
  <1>6. RemainingIsOwed'
    BY DEF RemainingIsOwed, Grains
  <1>7. KeepsGrains
    <2>1. \A t \in Threads : t # Main /\ pc'[t] # pc[t] => pc'[t] = "park"
      BY DEF TypeOK, Threads
    <2>2. pc'[Main] \in {"drain", "idle", "notify"} /\ ran[Main] = {}
      BY DEF TypeOK, Threads, ThreadsInv, Holding
    <2>3. \A t \in Threads : t # Main => batch'[t] = batch[t]  BY DEF TypeOK, Threads
    <2> QED  BY <2>1, <2>2, <2>3 DEF KeepsGrains, ThreadsInv, TypeOK, Holding, Held, Draining
  <1>8. GrainsAreOwned'
    BY <1>3, <1>7, OwnedFrame DEF ThreadsInv, Holding, Draining
  <1>9. CallsFollowCursor'
    BY DEF CallsFollowCursor
  <1>10. JoinedIsDone'
    BY DEF JoinedIsDone, StagesInv
  <1> QED  BY <1>3, <1>4, <1>5, <1>6, <1>8, <1>9, <1>10

LEMMA WorkerLoopStep ==
    ASSUME IInv, NEW w \in Workers, WorkerLoop(w)
    PROVE  IInv'
  <1> USE WorkersAssumption, BoundsAssumption DEF IInv, WorkerLoop, PollEmpty, PollUnderLock, Park, TakeJob, Goto
  <1>1. /\ UNCHANGED <<at, executed, ran, stopping, initialized, starts, count, grain,
                       stage, joins, cursor, calls, remaining, accounted, notified,
                       groups, joined, spurious>>
        /\ w \in Threads /\ w # Main
        /\ pc[w] \in {"poll", "park"}
    BY DEF Threads
  <1>2. \/ /\ pc' = [pc EXCEPT ![w] = "drain"]
           /\ queue # <<>>
           /\ batch' = [batch EXCEPT ![w] = Head(queue)]
           /\ queue' = Tail(queue)
        \/ /\ \E label \in {"park", "exited", "blocking"} : pc' = [pc EXCEPT ![w] = label]
           /\ UNCHANGED <<batch, queue>>
    OBVIOUS
  <1> HIDE DEF WorkerLoop
  <1>3. CASE UNCHANGED <<batch, queue>>
    <2>1. PICK label \in {"park", "exited", "blocking"} : pc' = [pc EXCEPT ![w] = label]
      BY <1>1, <1>2, <1>3 DEF TypeOK
    <2>2. TypeOK'
      <3>1. /\ pc' \in [Threads -> WorkerLabels \cup MainLabels]
            /\ pc'[Main] \in MainLabels
            /\ \A v \in Workers : pc'[v] \in WorkerLabels
        BY <1>1, <2>1 DEF TypeOK, WorkerLabels, Threads
      <3> QED  BY <1>1, <1>3, <3>1 DEF TypeOK
    <2>3. ThreadsInv'
      BY <1>1, <1>3, <2>1 DEF ThreadsInv, TypeOK, Threads, Draining, Holding
    <2>4. KeepsGrains
      BY <1>1, <1>3, <2>1 DEF KeepsGrains, ThreadsInv, TypeOK, Holding, Held, Draining
    <2>5. GrainsAreOwned'  BY <2>2, <2>4, OwnedFrame DEF ThreadsInv, Holding, Draining
    <2>6. StagesInv'  BY <1>1, <1>3 DEF StagesInv
    <2>7. RemainingIsOwed' /\ CallsFollowCursor' /\ JoinedIsDone'
      BY <1>1 DEF RemainingIsOwed, Grains, CallsFollowCursor, JoinedIsDone
    <2> QED  BY <2>2, <2>3, <2>5, <2>6, <2>7
  <1>4. CASE /\ pc' = [pc EXCEPT ![w] = "drain"]
             /\ queue # <<>>
             /\ batch' = [batch EXCEPT ![w] = Head(queue)]
             /\ queue' = Tail(queue)
    <2>1. /\ Head(queue) \in Batches /\ Tail(queue) \in Seq(Batches)
          /\ stage[Head(queue)] = "batch"
          /\ \A i \in DOMAIN Tail(queue) : stage[Tail(queue)[i]] = "batch"
      <3>1. /\ queue \in Seq(Batches) /\ queue # <<>>
            /\ \A i \in 1 .. Len(queue) : stage[queue[i]] = "batch"
        BY <1>4 DEF TypeOK, StagesInv
      <3>2. Head(queue) = queue[1] /\ 1 \in 1 .. Len(queue)  BY <3>1
      <3>3. /\ Tail(queue) \in Seq(Batches)
            /\ \A i \in DOMAIN Tail(queue) : i + 1 \in 1 .. Len(queue) /\ Tail(queue)[i] = queue[i + 1]
        BY <3>1
      <3> QED  BY <3>1, <3>2, <3>3
    <2>2. TypeOK'
      <3>1. /\ pc' \in [Threads -> WorkerLabels \cup MainLabels]
            /\ pc'[Main] \in MainLabels
            /\ \A v \in Workers : pc'[v] \in WorkerLabels
            /\ batch' \in [Threads -> Batches \cup {NoBatch}]
        BY <1>1, <1>4, <2>1 DEF TypeOK, WorkerLabels, Threads
      <3> QED  BY <1>1, <1>4, <2>1, <3>1 DEF TypeOK
    <2>3. ThreadsInv'
      BY <1>1, <1>4, <2>1 DEF ThreadsInv, TypeOK, Threads, Draining, Holding
    <2>4. KeepsGrains
      <3>1. Held(w)' = {}
        BY <1>1, <1>4 DEF ThreadsInv, TypeOK, Holding, Held
      <3>2. \A u \in Threads \ {w} :
                Held(u)' = Held(u) /\ pc'[u] = pc[u] /\ batch'[u] = batch[u]
        BY <1>1, <1>4 DEF TypeOK, Held
      <3>3. \A u \in Threads : pc[u] \in Holding => cursor[batch[u]] \in Nat
        BY DEF ThreadsInv, TypeOK, Holding, Draining
      <3> QED  BY <3>1, <3>2, <3>3, <1>1 DEF KeepsGrains
    <2>5. GrainsAreOwned'  BY <2>2, <2>4, OwnedFrame DEF ThreadsInv, Holding, Draining
    <2>6. StagesInv'  BY <1>1, <1>4, <2>1 DEF StagesInv
    <2>7. RemainingIsOwed' /\ CallsFollowCursor' /\ JoinedIsDone'
      BY <1>1 DEF RemainingIsOwed, Grains, CallsFollowCursor, JoinedIsDone
    <2> QED  BY <2>2, <2>3, <2>5, <2>6, <2>7
  <1> QED  BY <1>2, <1>3, <1>4

LEMMA BlockStep ==
    ASSUME IInv, NEW t \in Threads, Block(t)
    PROVE  IInv'
  <1> USE WorkersAssumption, BoundsAssumption DEF IInv, Block, Goto
  <1>1. pc' \in [Threads -> WorkerLabels \cup MainLabels]
    BY DEF TypeOK, WorkerLabels, MainLabels, Threads
  <1>2. pc'[Main] \in MainLabels /\ \A w_1 \in Workers : pc'[w_1] \in WorkerLabels
    BY DEF TypeOK, WorkerLabels, MainLabels, Threads
  <1>3. TypeOK'
    BY <1>1, <1>2 DEF TypeOK, ThreadsInv, Threads
  <1>4. ThreadsInv'
    BY DEF ThreadsInv, StagesInv, TypeOK, Threads, Draining, Holding
  <1>5. StagesInv'
    BY DEF StagesInv, ThreadsInv, TypeOK, Threads
  <1>6. RemainingIsOwed'
    BY DEF RemainingIsOwed, Grains
  <1>7. KeepsGrains
    BY DEF KeepsGrains, ThreadsInv, TypeOK, Threads, Holding, Draining, Held
  <1>8. GrainsAreOwned'
    BY <1>3, <1>7, OwnedFrame DEF ThreadsInv, Holding, Draining
  <1>9. CallsFollowCursor'
    BY DEF CallsFollowCursor
  <1>10. JoinedIsDone'
    BY DEF JoinedIsDone, StagesInv
  <1> QED  BY <1>3, <1>4, <1>5, <1>6, <1>8, <1>9, <1>10

LEMMA SpuriousWakeStep ==
    ASSUME IInv, NEW t \in Threads, SpuriousWake(t)
    PROVE  IInv'
  <1> USE WorkersAssumption, BoundsAssumption DEF IInv, SpuriousWake, Goto
  <1>1. pc' \in [Threads -> WorkerLabels \cup MainLabels]
    BY DEF TypeOK, WorkerLabels, MainLabels, Threads
  <1>2. pc'[Main] \in MainLabels /\ \A w_1 \in Workers : pc'[w_1] \in WorkerLabels
    BY DEF TypeOK, WorkerLabels, MainLabels, Threads
  <1>3. TypeOK'
    BY <1>1, <1>2 DEF TypeOK, ThreadsInv, Threads
  <1>4. ThreadsInv'
    BY DEF ThreadsInv, StagesInv, TypeOK, Threads, Draining, Holding
  <1>5. StagesInv'
    BY DEF StagesInv, ThreadsInv, TypeOK, Threads
  <1>6. RemainingIsOwed'
    BY DEF RemainingIsOwed, Grains
  <1>7. KeepsGrains
    BY DEF KeepsGrains, ThreadsInv, TypeOK, Threads, Holding, Draining, Held
  <1>8. GrainsAreOwned'
    BY <1>3, <1>7, OwnedFrame DEF ThreadsInv, Holding, Draining
  <1>9. CallsFollowCursor'
    BY DEF CallsFollowCursor
  <1>10. JoinedIsDone'
    BY DEF JoinedIsDone, StagesInv
  <1> QED  BY <1>3, <1>4, <1>5, <1>6, <1>8, <1>9, <1>10

LEMMA ClaimStep ==
    ASSUME IInv, NEW t \in Threads, Claim(t)
    PROVE  IInv'
  <1> USE WorkersAssumption, BoundsAssumption DEF IInv, Claim, HasItems, Goto
  <1> DEFINE b == batch[t]
  <1> DEFINE c == cursor[b]
  <1> DEFINE g == grain[b]
  <1> DEFINE n == count[b]
  <1>1. /\ b \in Batches /\ stage[b] = "batch" /\ pc[t] = "drain"
        /\ c \in Nat /\ g \in Nat \ {0} /\ n \in Nat \ {0}
        /\ t \in Threads
    BY DEF ThreadsInv, StagesInv, TypeOK, Draining
  <1>2. /\ cursor' = [cursor EXCEPT ![b] = c + 1]
        /\ UNCHANGED <<batch, executed, ran, stopping, initialized, starts, count, grain,
                       stage, joins, remaining, accounted, queue, notified,
                       groups, joined, spurious>>
    OBVIOUS
  <1>3. /\ c < GrainsOf(n, g) <=> c * g < n
        /\ (c + 1) * g = c * g + g
        /\ c * g \in Nat
    <2> HIDE DEF b, c, g, n
    <2>1. c < GrainsOf(n, g) <=> c * g < n  BY <1>1, GrainIndex
    <2>2. (c + 1) * g = c * g + g  BY <1>1, MulNext
    <2>3. c * g \in Nat  BY <1>1, MulMonotone
    <2> QED  BY <2>1, <2>2, <2>3
  <1>4. RemainingIsOwed'
    <2> HIDE DEF Claim, b
    <2>1. \A d \in Batches : /\ cursor[d] \in Nat /\ cursor'[d] \in Nat
                              /\ cursor[d] <= cursor'[d]
                              /\ accounted[d] \subseteq Nat
      BY <1>1, <1>2 DEF TypeOK
    <2>2. \A d \in Batches : stage[d] = "batch" =>
             \A k \in accounted[d] : k < cursor'[d] /\ k < GrainsOf(count[d], grain[d])
      <3> SUFFICES ASSUME NEW d \in Batches, stage[d] = "batch", NEW k \in accounted[d]
                   PROVE  k < cursor'[d] /\ k < GrainsOf(count[d], grain[d])
        OBVIOUS
      <3>1. k < cursor[d] /\ k < GrainsOf(count[d], grain[d])  BY DEF RemainingIsOwed
      <3> QED  BY <3>1, <2>1
    <2> QED  BY <2>2, <1>2 DEF RemainingIsOwed, Grains
  <1>5. JoinedIsDone'  BY <1>2 DEF JoinedIsDone
  <1>6. CASE c * g < n
    <2>1. /\ at' = [at EXCEPT ![t] = c]
          /\ calls' = [calls EXCEPT ![b] =
                [i \in Items |-> IF i \in ItemsOf(c, n, g)
                                   THEN calls[b][i] + 1 ELSE calls[b][i]]]
          /\ pc' = [pc EXCEPT ![t] = "run"]
      BY <1>6
    <2> HIDE DEF Claim, b, c, g, n
    <2>2. TypeOK'
      <3>1. /\ pc' \in [Threads -> WorkerLabels \cup MainLabels]
            /\ pc'[Main] \in MainLabels
            /\ \A v \in Workers : pc'[v] \in WorkerLabels
        BY <1>1, <2>1 DEF TypeOK, WorkerLabels, MainLabels, Threads
      <3>2. calls[b] \in [Items -> Nat]  BY <1>1 DEF TypeOK
      <3>3. [i \in Items |-> IF i \in ItemsOf(c, n, g)
                               THEN calls[b][i] + 1 ELSE calls[b][i]] \in [Items -> Nat]
        BY <3>2
      <3>4. calls' \in [Batches -> [Items -> Nat]]  BY <3>3, <2>1 DEF TypeOK
      <3>5. cursor' \in [Batches -> Nat] /\ at' \in [Threads -> Nat]
        BY <1>1, <1>2, <2>1 DEF TypeOK
      <3> QED  BY <3>1, <3>4, <3>5, <1>2 DEF TypeOK
    <2>3. \A k \in Held(t) : k # c
      BY <1>1 DEF GrainsAreOwned, TypeOK, Held, Holding, b, c
    <2>4. ThreadsInv'
      BY <1>1, <1>2, <2>1, <2>3 DEF ThreadsInv, TypeOK, Threads, Draining, Holding, Held
    <2>5. StagesInv'
      BY <1>1, <1>2, <2>1 DEF StagesInv, TypeOK
    <2>6. Held(t)' = Held(t) \cup {c} /\ \A u \in Threads \ {t} : Held(u)' = Held(u)
      BY <1>1, <1>2, <2>1 DEF Held, TypeOK
    <2>7. GrainsAreOwned'
      <3>1. c \notin accounted[b]
        <4>1. \A k \in accounted[b] : k < c  BY <1>1 DEF RemainingIsOwed, c
        <4> QED  BY <4>1, <1>1
      <3>2. ASSUME NEW u \in Threads, pc'[u] \in Holding, NEW k \in Held(u)'
            PROVE  /\ k < cursor'[batch'[u]]
                   /\ k < GrainsOf(count'[batch'[u]], grain'[batch'[u]])
                   /\ k \notin accounted'[batch'[u]]
        <4>1. CASE u = t /\ k = c
          BY <4>1, <3>1, <1>1, <1>2, <1>3, <1>6 DEF TypeOK, b, n, g
        <4>2. CASE ~(u = t /\ k = c)
          <5>1. k \in Held(u) /\ pc[u] \in Holding /\ batch[u] \in Batches
            BY <4>2, <3>2, <2>6, <2>1, <1>1 DEF TypeOK, Holding, ThreadsInv, Draining
          <5>2. /\ k \in Nat /\ cursor[batch[u]] \in Nat /\ cursor'[batch[u]] \in Nat
                /\ cursor'[batch[u]] >= cursor[batch[u]]
            <6>1. k \in Nat /\ cursor[batch[u]] \in Nat  BY <5>1 DEF TypeOK, Held
            <6>2. CASE batch[u] = b
              BY <6>1, <6>2, <1>1, <1>2 DEF TypeOK, c
            <6>3. CASE batch[u] # b
              BY <6>1, <6>3, <5>1, <1>1, <1>2 DEF TypeOK
            <6> QED  BY <6>1, <6>2, <6>3
          <5>3. k < cursor[batch[u]]  BY <5>1 DEF GrainsAreOwned
          <5>4. k < cursor'[batch[u]]
            BY <5>2, <5>3
          <5> QED  BY <5>1, <5>4, <1>2 DEF GrainsAreOwned
        <4> QED  BY <4>1, <4>2
      <3>3. ASSUME NEW u \in Threads, u # t, batch[u] = b, pc[u] \in Holding
            PROVE  c \notin Held(u)
        BY <3>3, <1>1 DEF GrainsAreOwned, TypeOK, Held, c, b
      <3>4. ASSUME NEW u \in Threads, NEW v \in Threads, u # v, batch'[u] = batch'[v],
                   pc'[u] \in Holding, pc'[v] \in Holding
            PROVE  Held(u)' \cap Held(v)' = {}
        <4>1. /\ pc[u] \in Holding /\ pc[v] \in Holding /\ batch[u] = batch[v]
          BY <3>4, <1>1, <1>2, <2>1 DEF TypeOK, Holding
        <4>2. Held(u) \cap Held(v) = {}  BY <4>1, <3>4 DEF GrainsAreOwned
        <4>3. CASE u = t  BY <4>1, <4>2, <4>3, <3>3, <3>4, <2>6 DEF b
        <4>4. CASE v = t  BY <4>1, <4>2, <4>4, <3>3, <3>4, <2>6 DEF b
        <4>5. CASE u # t /\ v # t  BY <4>2, <4>5, <2>6
        <4> QED  BY <4>3, <4>4, <4>5
      <3> QED  BY <3>2, <3>4 DEF GrainsAreOwned
    <2>8. CallsFollowCursor'
      <3>1. ASSUME NEW i \in Items
            PROVE  calls'[b][i] = IF i < AtMost(cursor'[b] * grain'[b], count'[b]) THEN 1 ELSE 0
        <4>1. calls[b][i] = IF i < AtMost(c * g, n) THEN 1 ELSE 0
          BY <1>1 DEF CallsFollowCursor, c, g, n
        <4>2. /\ cursor'[b] = c + 1 /\ grain'[b] = g /\ count'[b] = n
              /\ calls'[b][i] = IF i \in ItemsOf(c, n, g) THEN calls[b][i] + 1 ELSE calls[b][i]
          BY <1>1, <1>2, <2>1 DEF TypeOK, g, n
        <4>3. i \in ItemsOf(c, n, g) <=> c * g <= i /\ i < AtMost(c * g + g, n)
          BY DEF ItemsOf
        <4>4. i \in Nat  BY DEF Items
        <4> QED  BY <4>1, <4>2, <4>3, <4>4, <1>1, <1>3, <1>6 DEF AtMost
      <3>2. \A d \in Batches \ {b} :
              cursor'[d] = cursor[d] /\ calls'[d] = calls[d]
        BY <1>2, <2>1 DEF TypeOK
      <3> QED  BY <3>1, <3>2, <1>2 DEF CallsFollowCursor
    <2> QED  BY <1>4, <1>5, <2>2, <2>4, <2>5, <2>7, <2>8
  <1>7. CASE ~(c * g < n)
    <2>1. UNCHANGED <<at, calls>> /\ pc' = [pc EXCEPT ![t] = "subtract"]
      BY <1>7
    <2> HIDE DEF Claim, b, c, g, n
    <2>2. TypeOK'
      <3>1. /\ pc' \in [Threads -> WorkerLabels \cup MainLabels]
            /\ pc'[Main] \in MainLabels
            /\ \A v \in Workers : pc'[v] \in WorkerLabels
        BY <1>1, <2>1 DEF TypeOK, WorkerLabels, MainLabels, Threads
      <3>2. cursor' \in [Batches -> Nat]  BY <1>1, <1>2 DEF TypeOK
      <3> QED  BY <3>1, <3>2, <1>2, <2>1 DEF TypeOK
    <2>3. ThreadsInv'
      BY <1>1, <1>2, <2>1 DEF ThreadsInv, TypeOK, Threads, Draining, Holding
    <2>4. StagesInv'  BY <1>1, <1>2, <2>1 DEF StagesInv, TypeOK
    <2>5. KeepsGrains
      BY <1>1, <1>2, <2>1 DEF KeepsGrains, ThreadsInv, TypeOK, Holding, Draining, Held, b, c
    <2>6. GrainsAreOwned'  BY <2>2, <2>5, OwnedFrame DEF ThreadsInv, Holding, Draining
    <2>7. AtMost(c * g, n) = n /\ AtMost((c + 1) * g, n) = n
      BY <1>1, <1>3, <1>7 DEF AtMost
    <2>8. CallsFollowCursor'
      <3>1. cursor'[b] = c + 1 /\ grain'[b] = g /\ count'[b] = n  /\ calls'[b] = calls[b]
        BY <1>1, <1>2, <2>1 DEF TypeOK, g, n
      <3>2. \A i \in Items : calls[b][i] = IF i < n THEN 1 ELSE 0
        BY <1>1, <2>7 DEF CallsFollowCursor, c, g, n
      <3>3. \A d \in Batches \ {b} : cursor'[d] = cursor[d]
        BY <1>2 DEF TypeOK
      <3> QED  BY <3>1, <3>2, <3>3, <2>7, <1>2, <2>1 DEF CallsFollowCursor
    <2> QED  BY <1>4, <1>5, <2>2, <2>3, <2>4, <2>6, <2>8
  <1> QED  BY <1>6, <1>7

LEMMA FinishGrainStep ==
    ASSUME IInv, NEW t \in Threads, FinishGrain(t)
    PROVE  IInv'
  <1> USE WorkersAssumption, BoundsAssumption DEF IInv, FinishGrain, Goto
  <1>1. pc' \in [Threads -> WorkerLabels \cup MainLabels]
    BY DEF TypeOK, WorkerLabels, MainLabels, Threads
  <1>2. pc'[Main] \in MainLabels /\ \A w_1 \in Workers : pc'[w_1] \in WorkerLabels
    BY DEF TypeOK, WorkerLabels, MainLabels, Threads
  <1>3. TypeOK'
    BY <1>1, <1>2 DEF TypeOK, ThreadsInv, Threads
  <1>4. ThreadsInv'
    <2>1. /\ IsFiniteSet(ran[t]) /\ executed[t] = Cardinality(ran[t])
          /\ at[t] \notin ran[t]
          /\ batch[t] \in Batches /\ stage[batch[t]] = "batch"
      BY DEF ThreadsInv, Draining
    <2>2. /\ IsFiniteSet(ran[t] \cup {at[t]})
          /\ Cardinality(ran[t] \cup {at[t]}) = executed[t] + 1
      BY <2>1, FS_AddElement
    <2>3. /\ ran'[t] = ran[t] \cup {at[t]} /\ executed'[t] = executed[t] + 1
          /\ pc'[t] = "drain"
          /\ UNCHANGED <<batch, stage, initialized>>
      BY DEF TypeOK
    <2>4. \A u \in Threads \ {t} :
              /\ ran'[u] = ran[u] /\ executed'[u] = executed[u]
              /\ pc'[u] = pc[u] /\ at'[u] = at[u]
      BY DEF TypeOK
    <2>5. pc[t] = "run"  OBVIOUS
    <2> HIDE DEF FinishGrain
    <2>6. \A u \in Threads :
              /\ pc'[u] \in Draining => batch[u] \in Batches /\ stage[batch[u]] = "batch"
              /\ pc'[u] \notin Holding => ran'[u] = {}
              /\ IsFiniteSet(ran'[u])
              /\ executed'[u] = Cardinality(ran'[u])
              /\ pc'[u] = "run" => at'[u] \notin ran'[u]
      <3> TAKE u \in Threads
      <3>1. CASE u = t
        BY <3>1, <2>1, <2>2, <2>3 DEF Holding
      <3>2. CASE u # t  BY <3>2, <2>4 DEF ThreadsInv
      <3> QED  BY <3>1, <3>2
    <2>7. /\ pc'[Main] \in {"enqueue", "notify", "wait", "lockGroup", "blocking", "waiting"} =>
                pc'[Main] = pc[Main]
          /\ \A w \in Workers : pc[w] = "off" => pc'[w] = "off"
      BY <2>3, <2>4, <2>5 DEF Threads
    <2> QED  BY <2>3, <2>6, <2>7 DEF ThreadsInv
  <1>5. StagesInv'
    BY DEF StagesInv, ThreadsInv, TypeOK, Threads
  <1>6. RemainingIsOwed'
    BY DEF RemainingIsOwed, Grains
  <1>7. KeepsGrains
    BY DEF KeepsGrains, ThreadsInv, TypeOK, Threads, Holding, Draining, Held
  <1>8. GrainsAreOwned'
    BY <1>3, <1>7, OwnedFrame DEF ThreadsInv, Holding, Draining
  <1>9. CallsFollowCursor'
    BY DEF CallsFollowCursor
  <1>10. JoinedIsDone'
    BY DEF JoinedIsDone, StagesInv
  <1> QED  BY <1>3, <1>4, <1>5, <1>6, <1>8, <1>9, <1>10

LEMMA MarkDoneStep ==
    ASSUME IInv, NEW t \in Threads, MarkDone(t)
    PROVE  IInv'
  <1> USE WorkersAssumption, BoundsAssumption DEF IInv, MarkDone, AfterMark, DropJob, Amount, Goto
  <1> DEFINE b == batch[t]
  <1>1. /\ b \in Batches /\ stage[b] = "batch" /\ pc[t] = "subtract" /\ t \in Threads
        /\ IsFiniteSet(ran[t]) /\ executed[t] = Cardinality(ran[t])
        /\ ran[t] \subseteq Nat /\ accounted[b] \subseteq Nat
    BY DEF ThreadsInv, TypeOK, Draining
  <1>2. /\ remaining' = [remaining EXCEPT ![b] = remaining[b] - executed[t]]
        /\ accounted' = [accounted EXCEPT ![b] = accounted[b] \cup ran[t]]
        /\ executed' = [executed EXCEPT ![t] = 0]
        /\ ran' = [ran EXCEPT ![t] = {}]
        /\ UNCHANGED <<at, stopping, initialized, starts, count, grain, stage, joins,
                       cursor, calls, queue, notified, groups, joined, spurious>>
    OBVIOUS
  <1>3. /\ pc' = [pc EXCEPT ![t] = pc'[t]]
        /\ \/ pc'[t] = "notifyGroup" /\ batch' = batch
           \/ t = Main /\ pc'[t] = "wait" /\ batch' = batch
           \/ t # Main /\ pc'[t] = "poll" /\ batch' = [batch EXCEPT ![t] = NoBatch]
    BY DEF TypeOK
  <1> HIDE DEF MarkDone, b
  <1>4. \A k \in ran[t] : /\ k < cursor[b] /\ k < GrainsOf(count[b], grain[b])
                          /\ k \notin accounted[b]
    BY <1>1 DEF GrainsAreOwned, Held, Holding, b
  <1>5. /\ Cardinality(Grains(b) \ (accounted[b] \cup ran[t])) = remaining[b] - executed[t]
        /\ remaining[b] - executed[t] \in Nat
    <2>1. GrainsOf(count[b], grain[b]) \in Nat
      <3>1. count[b] \in Nat \ {0} /\ grain[b] \in Nat \ {0} /\ 0 \in Nat
        BY <1>1 DEF TypeOK, StagesInv
      <3> QED  BY <3>1, GrainIndex
    <2>2. IsFiniteSet(Grains(b))
      <3>1. GrainsOf(count[b], grain[b]) - 1 \in Int /\ 0 \in Int  BY <2>1
      <3> QED  BY <3>1, FS_Interval DEF Grains
    <2>3. IsFiniteSet(Grains(b) \ accounted[b])  BY <2>2, FS_Difference
    <2>4. ran[t] \subseteq Grains(b) \ accounted[b]
      BY <1>1, <1>4, <2>1 DEF Grains
    <2>5. /\ (Grains(b) \ accounted[b]) \cap ran[t] = ran[t]
          /\ (Grains(b) \ accounted[b]) \ ran[t] = Grains(b) \ (accounted[b] \cup ran[t])
      BY <2>4
    <2>6. /\ Cardinality((Grains(b) \ accounted[b]) \ ran[t])
                = Cardinality(Grains(b) \ accounted[b]) - Cardinality(ran[t])
          /\ IsFiniteSet((Grains(b) \ accounted[b]) \ ran[t])
      BY <2>3, <2>5, FS_Difference
    <2>7. remaining[b] = Cardinality(Grains(b) \ accounted[b])
      BY <1>1 DEF RemainingIsOwed
    <2>8. Cardinality((Grains(b) \ accounted[b]) \ ran[t]) \in Nat
      BY <2>6, FS_CardinalityType
    <2> QED  BY <1>1, <2>5, <2>6, <2>7, <2>8
  <1>6. TypeOK'
    <2>1. /\ pc' \in [Threads -> WorkerLabels \cup MainLabels]
          /\ pc'[Main] \in MainLabels
          /\ \A v \in Workers : pc'[v] \in WorkerLabels
      <3>1. /\ t = Main => pc'[t] \in MainLabels
            /\ t # Main => pc'[t] \in WorkerLabels
        BY <1>3 DEF WorkerLabels, MainLabels
      <3> QED  BY <1>1, <1>3, <3>1 DEF TypeOK, Threads
    <2>2. batch' \in [Threads -> Batches \cup {NoBatch}]
      BY <1>1, <1>3 DEF TypeOK
    <2>3. /\ executed' \in [Threads -> Nat] /\ remaining' \in [Batches -> Nat]
      BY <1>1, <1>2, <1>5 DEF TypeOK
    <2>4. /\ ran' \in [Threads -> SUBSET Nat] /\ accounted' \in [Batches -> SUBSET Nat]
      BY <1>1, <1>2 DEF TypeOK
    <2> QED  BY <1>2, <2>1, <2>2, <2>3, <2>4 DEF TypeOK
  <1>7. /\ ran'[t] = {} /\ executed'[t] = 0
        /\ \A u \in Threads \ {t} :
              /\ ran'[u] = ran[u] /\ executed'[u] = executed[u]
              /\ pc'[u] = pc[u] /\ batch'[u] = batch[u]
    BY <1>1, <1>2, <1>3 DEF TypeOK
  <1>8. ThreadsInv'
    <2>1. \A u \in Threads :
              /\ pc'[u] \in Draining => batch'[u] \in Batches /\ stage'[batch'[u]] = "batch"
              /\ pc'[u] \notin Holding => ran'[u] = {}
              /\ IsFiniteSet(ran'[u])
              /\ executed'[u] = Cardinality(ran'[u])
              /\ pc'[u] = "run" => at'[u] \notin ran'[u]
      <3> TAKE u \in Threads
      <3>1. CASE u = t
        BY <3>1, <1>1, <1>2, <1>3, <1>7, FS_EmptySet DEF Draining, b
      <3>2. CASE u # t  BY <3>2, <1>2, <1>7 DEF ThreadsInv
      <3> QED  BY <3>1, <3>2
    <2>2. \A v \in Workers : pc[v] = "off" => pc'[v] = "off"
      BY <1>1, <1>7 DEF Threads
    <2>3. CASE t = Main
      BY <2>1, <2>2, <2>3, <1>1, <1>2, <1>3 DEF ThreadsInv, b
    <2>4. CASE t # Main
      BY <2>1, <2>2, <2>4, <1>2, <1>7 DEF ThreadsInv, Threads
    <2> QED  BY <2>3, <2>4
  <1>9. StagesInv'
    <2>1. \A d \in Batches \ {b} : remaining'[d] = remaining[d] /\ accounted'[d] = accounted[d]
      BY <1>2 DEF TypeOK
    <2> QED  BY <1>1, <1>2, <2>1 DEF StagesInv
  <1>10. RemainingIsOwed'
    <2>1. \A d \in Batches \ {b} : remaining'[d] = remaining[d] /\ accounted'[d] = accounted[d]
      BY <1>2 DEF TypeOK
    <2>2. /\ remaining'[b] = remaining[b] - executed[t]
          /\ accounted'[b] = accounted[b] \cup ran[t]
      BY <1>1, <1>2 DEF TypeOK
    <2> QED  BY <1>1, <1>2, <1>4, <1>5, <2>1, <2>2 DEF RemainingIsOwed, Grains
  <1>11. GrainsAreOwned'
    <2>1. Held(t)' = {}  BY <1>3, <1>7 DEF Held
    <2>2. \A u \in Threads \ {t} : Held(u)' = Held(u)
      BY <1>2, <1>7 DEF Held
    <2>3. ASSUME NEW u \in Threads, pc'[u] \in Holding, NEW k \in Held(u)'
          PROVE  /\ k < cursor'[batch'[u]]
                 /\ k < GrainsOf(count'[batch'[u]], grain'[batch'[u]])
                 /\ k \notin accounted'[batch'[u]]
      <3>1. u # t /\ k \in Held(u) /\ pc[u] \in Holding /\ batch'[u] = batch[u]
        BY <2>1, <2>2, <2>3, <1>7
      <3>2. /\ k < cursor[batch[u]]
            /\ k < GrainsOf(count[batch[u]], grain[batch[u]])
            /\ k \notin accounted[batch[u]]
        BY <3>1 DEF GrainsAreOwned
      <3>3. batch[u] = b => k \notin ran[t]
        BY <3>1, <1>1 DEF GrainsAreOwned, Held, Holding, b
      <3>4. batch[u] \in Batches  BY <3>1 DEF ThreadsInv, Holding, Draining
      <3>5. k \notin accounted'[batch[u]]
        BY <3>2, <3>3, <3>4, <1>2 DEF TypeOK
      <3> QED  BY <3>1, <3>2, <3>5, <1>2
    <2>4. ASSUME NEW u \in Threads, NEW v \in Threads, u # v, batch'[u] = batch'[v],
                 pc'[u] \in Holding, pc'[v] \in Holding
          PROVE  Held(u)' \cap Held(v)' = {}
      <3>1. CASE u = t \/ v = t  BY <3>1, <2>1
      <3>2. CASE u # t /\ v # t
        BY <3>2, <2>2, <2>4, <1>7 DEF GrainsAreOwned
      <3> QED  BY <3>1, <3>2
    <2> QED  BY <2>3, <2>4 DEF GrainsAreOwned
  <1>12. CallsFollowCursor'  BY <1>2 DEF CallsFollowCursor
  <1>13. JoinedIsDone'
    <2>1. \A d \in Batches \ {b} : remaining'[d] = remaining[d]
      BY <1>2 DEF TypeOK
    <2>2. remaining[b] = 0 => remaining'[b] = 0
      BY <1>1, <1>2, <1>5 DEF TypeOK, ThreadsInv
    <2> QED  BY <1>2, <2>1, <2>2 DEF JoinedIsDone
  <1> QED  BY <1>6, <1>8, <1>9, <1>10, <1>11, <1>12, <1>13

LEMMA NotifyGroupStep ==
    ASSUME IInv, NEW t \in Threads, NotifyGroup(t)
    PROVE  IInv'
  <1> USE WorkersAssumption, BoundsAssumption DEF IInv, NotifyGroup, NotifySleepers, AfterMark, DropJob, Goto
  <1>1. pc' \in [Threads -> WorkerLabels \cup MainLabels]
    BY DEF TypeOK, WorkerLabels, MainLabels, Threads
  <1>2. pc'[Main] \in MainLabels /\ \A w_1 \in Workers : pc'[w_1] \in WorkerLabels
    BY DEF TypeOK, WorkerLabels, MainLabels, Threads
  <1>3. TypeOK'
    BY <1>1, <1>2 DEF TypeOK, ThreadsInv, Threads
  <1>4. ThreadsInv'
    BY DEF ThreadsInv, StagesInv, TypeOK, Threads, Draining, Holding
  <1>5. StagesInv'
    BY DEF StagesInv, ThreadsInv, TypeOK, Threads
  <1>6. RemainingIsOwed'
    BY DEF RemainingIsOwed, Grains
  <1>7. KeepsGrains
    BY DEF KeepsGrains, ThreadsInv, TypeOK, Threads, Holding, Draining, Held
  <1>8. GrainsAreOwned'
    BY <1>3, <1>7, OwnedFrame DEF ThreadsInv, Holding, Draining
  <1>9. CallsFollowCursor'
    BY DEF CallsFollowCursor
  <1>10. JoinedIsDone'
    BY DEF JoinedIsDone, StagesInv
  <1> QED  BY <1>3, <1>4, <1>5, <1>6, <1>8, <1>9, <1>10

LEMMA CallWaitStep ==
    ASSUME IInv, NEW b \in Batches, CallWait(b)
    PROVE  IInv'
  <1> USE WorkersAssumption, BoundsAssumption DEF IInv, CallWait, Goto
  <1>1. pc' \in [Threads -> WorkerLabels \cup MainLabels]
    BY DEF TypeOK, WorkerLabels, MainLabels, Threads
  <1>2. pc'[Main] \in MainLabels /\ \A w_1 \in Workers : pc'[w_1] \in WorkerLabels
    BY DEF TypeOK, WorkerLabels, MainLabels, Threads
  <1>3. TypeOK'
    BY <1>1, <1>2 DEF TypeOK, ThreadsInv, Threads
  <1>4. ThreadsInv'
    BY DEF ThreadsInv, StagesInv, TypeOK, Threads, Draining, Holding
  <1>5. StagesInv'
    BY DEF StagesInv, ThreadsInv, TypeOK, Threads
  <1>6. RemainingIsOwed'
    BY DEF RemainingIsOwed, Grains
  <1>7. KeepsGrains
    BY DEF KeepsGrains, ThreadsInv, TypeOK, Threads, Holding, Draining, Held
  <1>8. GrainsAreOwned'
    BY <1>3, <1>7, OwnedFrame DEF ThreadsInv, Holding, Draining
  <1>9. CallsFollowCursor'
    BY DEF CallsFollowCursor
  <1>10. JoinedIsDone'
    BY DEF JoinedIsDone, StagesInv
  <1> QED  BY <1>3, <1>4, <1>5, <1>6, <1>8, <1>9, <1>10

LEMMA LoadRemainingStep ==
    ASSUME IInv, LoadRemaining
    PROVE  IInv'
  <1> USE WorkersAssumption, BoundsAssumption DEF IInv, LoadRemaining, WaitReturns, Goto
  <1>1. pc' \in [Threads -> WorkerLabels \cup MainLabels]
    BY DEF TypeOK, WorkerLabels, MainLabels, Threads
  <1>2. pc'[Main] \in MainLabels /\ \A w_1 \in Workers : pc'[w_1] \in WorkerLabels
    BY DEF TypeOK, WorkerLabels, MainLabels, Threads
  <1>3. TypeOK'
    BY <1>1, <1>2 DEF TypeOK, ThreadsInv, Threads
  <1>4. ThreadsInv'
    BY DEF ThreadsInv, StagesInv, TypeOK, Threads, Draining, Holding
  <1>5. StagesInv'
    BY DEF StagesInv, ThreadsInv, TypeOK, Threads
  <1>6. RemainingIsOwed'
    BY DEF RemainingIsOwed, Grains
  <1>7. KeepsGrains
    BY DEF KeepsGrains, ThreadsInv, TypeOK, Threads, Holding, Draining, Held
  <1>8. GrainsAreOwned'
    BY <1>3, <1>7, OwnedFrame DEF ThreadsInv, Holding, Draining
  <1>9. CallsFollowCursor'
    BY DEF CallsFollowCursor
  <1>10. JoinedIsDone'
    BY DEF JoinedIsDone, StagesInv
  <1> QED  BY <1>3, <1>4, <1>5, <1>6, <1>8, <1>9, <1>10

LEMMA IInvInit == Init => IInv
  <1> SUFFICES ASSUME Init PROVE IInv  OBVIOUS
  <1> USE WorkersAssumption, BoundsAssumption DEF Init
  <1>1. TypeOK
    <2>1. /\ pc \in [Threads -> WorkerLabels \cup MainLabels]
          /\ pc[Main] \in MainLabels
          /\ \A w \in Workers : pc[w] \in WorkerLabels
      BY DEF WorkerLabels, MainLabels, Threads
    <2>2. stopping \in BOOLEAN /\ initialized \in BOOLEAN /\ joins \in BOOLEAN
      OBVIOUS
    <2>3. starts \in 0 .. MaxStarts /\ spurious \in 0 .. MaxSpurious
      OBVIOUS
    <2>4. calls \in [Batches -> [Items -> Nat]]  OBVIOUS
    <2> QED  BY <2>1, <2>2, <2>3, <2>4 DEF TypeOK
  <1>2. ThreadsInv  BY FS_EmptySet DEF ThreadsInv, Threads, Draining, Holding
  <1>3. StagesInv  BY DEF StagesInv
  <1>4. GrainsAreOwned  BY DEF GrainsAreOwned, Threads, Holding
  <1>5. RemainingIsOwed /\ CallsFollowCursor /\ JoinedIsDone
    BY DEF RemainingIsOwed, CallsFollowCursor, JoinedIsDone
  <1> QED  BY <1>1, <1>2, <1>3, <1>4, <1>5 DEF IInv

LEMMA IInvStep == IInv /\ [Next]_vars => IInv'
  <1> SUFFICES ASSUME IInv, [Next]_vars PROVE IInv'  OBVIOUS
  <1>1. CASE MainChooses
    BY <1>1, InitializeStep, SetStoppingStep, DispatchInlineStep, DispatchBatchStep,
       CallWaitStep DEF MainChooses, Dispatch
  <1>2. CASE MainSteps
    BY <1>2, WakeForStopStep, JoinWorkersStep, EnqueueStep, NotifyAllStep,
       NotifyOneStep, LoadRemainingStep DEF MainSteps
  <1>3. CASE \E w \in Workers : WorkerLoop(w)
    BY <1>3, WorkerLoopStep
  <1>4. CASE \E t \in Threads : Drain(t) \/ Block(t) \/ SpuriousWake(t)
    BY <1>4, ClaimStep, FinishGrainStep, MarkDoneStep, NotifyGroupStep, BlockStep,
       SpuriousWakeStep DEF Drain
  <1>5. CASE UNCHANGED vars
    <2> USE <1>5 DEF IInv, vars
    <2>1. TypeOK'  BY DEF TypeOK
    <2>2. ThreadsInv'  BY DEF ThreadsInv
    <2>3. StagesInv'  BY DEF StagesInv
    <2>4. RemainingIsOwed'  BY DEF RemainingIsOwed, Grains
    <2>5. GrainsAreOwned'  BY DEF GrainsAreOwned, Held
    <2>6. CallsFollowCursor' /\ JoinedIsDone'  BY DEF CallsFollowCursor, JoinedIsDone
    <2> QED  BY <2>1, <2>2, <2>3, <2>4, <2>5, <2>6
  <1> QED  BY <1>1, <1>2, <1>3, <1>4, <1>5 DEF Next, Rest

\* The inductive invariant holds in every behaviour of the job system.
THEOREM Invariance == Spec => []IInv
  BY IInvInit, IInvStep, PTL DEF Spec

-----------------------------------------------------------------------------
(* What the callers of the job system rely on.                             *)

\* A group at zero has had every grain claimed.
LEMMA ZeroIsComplete ==
    ASSUME IInv, NEW b \in Batches, stage[b] = "batch", remaining[b] = 0
    PROVE  /\ GrainsOf(count[b], grain[b]) \in Nat
           /\ \A k \in Nat : k < GrainsOf(count[b], grain[b]) => k \in accounted[b]
           /\ cursor[b] * grain[b] >= count[b]
  <1> DEFINE n == count[b]
  <1> DEFINE g == grain[b]
  <1> DEFINE q == GrainsOf(n, g)
  <1>1. n \in Nat \ {0} /\ g \in Nat \ {0} /\ cursor[b] \in Nat /\ accounted[b] \subseteq Nat
    BY BoundsAssumption DEF IInv, TypeOK, StagesInv
  <1> HIDE DEF n, g
  <1>2. q \in Nat  BY <1>1, GrainIndex, 0 \in Nat
  <1>3. 0 .. q - 1 \subseteq accounted[b]
    <2>1. 0 \in Int /\ q - 1 \in Int  BY <1>2
    <2>2. IsFiniteSet((0 .. q - 1) \ accounted[b])
      BY <2>1, FS_Interval, FS_Difference
    <2>3. Cardinality((0 .. q - 1) \ accounted[b]) = 0
      BY DEF IInv, RemainingIsOwed, Grains, n, g
    <2> QED  BY <2>2, <2>3, FS_EmptySet
  <1>4. \A k \in Nat : k < q => k \in accounted[b]  BY <1>2, <1>3
  <1>5. ~(cursor[b] < q)
    <2> SUFFICES ASSUME cursor[b] < q PROVE FALSE  OBVIOUS
    <2>1. cursor[b] \in accounted[b]  BY <1>1, <1>4
    <2>2. cursor[b] < cursor[b]  BY <2>1 DEF IInv, RemainingIsOwed
    <2> QED  BY <2>2, <1>1
  <1>6. ~(cursor[b] * g < n)  BY <1>1, <1>5, GrainIndex
  <1>7. cursor[b] * g \in Nat  BY <1>1, MulMonotone
  <1> QED  BY <1>1, <1>2, <1>4, <1>6, <1>7 DEF n, g

\* Nor is any thread still in fn, and fn has had every item.
LEMMA ZeroIsDone ==
    ASSUME IInv, NEW b \in Batches, stage[b] = "batch", remaining[b] = 0
    PROVE  /\ \A i \in Items : i < count[b] => Called(b, i)
           /\ \A t \in Threads : ~(batch[t] = b /\ pc[t] = "run")
  <1>1. /\ cursor[b] * grain[b] >= count[b]
        /\ \A k \in Nat : k < GrainsOf(count[b], grain[b]) => k \in accounted[b]
    BY ZeroIsComplete
  <1>2. \A i \in Items : i < count[b] => Called(b, i)
    <2>1. count[b] \in Nat /\ cursor[b] * grain[b] \in Nat
      BY BoundsAssumption, MulMonotone DEF IInv, TypeOK
    <2>2. AtMost(cursor[b] * grain[b], count[b]) = count[b]
      BY <1>1, <2>1 DEF AtMost
    <2> QED  BY <2>2 DEF IInv, CallsFollowCursor, Called
  <1>3. ASSUME NEW t \in Threads, batch[t] = b, pc[t] = "run" PROVE FALSE
    <2>1. /\ at[t] \in Nat /\ at[t] < GrainsOf(count[b], grain[b])
          /\ at[t] \notin accounted[b]
      BY <1>3 DEF IInv, TypeOK, GrainsAreOwned, Held, Holding
    <2> QED  BY <1>1, <2>1
  <1> QED  BY <1>2, <1>3

\* fn never gets an item twice, for any number of workers, items and batches.
THEOREM NoItemTwiceHolds == Spec => []NoItemTwice
  <1>1. IInv => NoItemTwice
    <2> SUFFICES ASSUME IInv, NEW b \in Batches, NEW i \in Items PROVE calls[b][i] <= 1
      BY DEF NoItemTwice
    <2>1. stage[b] \in {"unused", "inline", "batch"}  BY DEF IInv, TypeOK
    <2> QED  BY <2>1 DEF IInv, StagesInv, CallsFollowCursor
  <1> QED  BY <1>1, Invariance, PTL

\* When a wait has returned, every item has been run and fn is not running.
THEOREM WaitReturnsAfterWorkHolds == Spec => []WaitReturnsAfterWork
  <1>1. IInv => WaitReturnsAfterWork
    <2> SUFFICES ASSUME IInv, NEW b \in joined
                 PROVE  /\ \A i \in Items : i < count[b] => Called(b, i)
                        /\ \A t \in Threads : ~(batch[t] = b /\ pc[t] = "run")
      BY DEF WaitReturnsAfterWork
    <2>1. b \in Batches /\ stage[b] \in {"inline", "batch"}
      BY DEF IInv, TypeOK, StagesInv
    <2>2. CASE stage[b] = "inline"
      <3>1. \A i \in Items : i < count[b] => Called(b, i)
        BY <2>1, <2>2 DEF IInv, StagesInv, Called
      <3>2. \A t \in Threads : ~(batch[t] = b /\ pc[t] = "run")
        BY <2>2 DEF IInv, ThreadsInv, Draining
      <3> QED  BY <3>1, <3>2
    <2>3. CASE stage[b] = "batch"
      <3>1. remaining[b] = 0  BY <2>3 DEF IInv, JoinedIsDone
      <3> QED  BY <2>1, <2>3, <3>1, ZeroIsDone
    <2> QED  BY <2>1, <2>2, <2>3
  <1> QED  BY <1>1, Invariance, PTL

\* After its wait has returned a batch is never touched, although its Jobs may
\* still be popped.
THEOREM ReturnedBatchIsFrozenHolds == Spec => ReturnedBatchIsFrozen
  <1> DEFINE Frozen(b) == remaining'[b] = remaining[b] /\ calls'[b] = calls[b]
  <1>1. ASSUME IInv, [Next]_vars, NEW b \in joined PROVE Frozen(b)
    <2> USE <1>1
    <2>1. /\ b \in Batches /\ stage[b] # "unused"
          /\ calls \in [Batches -> [Items -> Nat]] /\ remaining \in [Batches -> Nat]
      BY DEF IInv, TypeOK, StagesInv
    <2>2. ASSUME NEW t \in Threads, batch[t] = b, pc[t] \in Draining
          PROVE  /\ ~HasItems(cursor[b] * grain[b], count[b])
                 /\ pc[t] = "subtract" => executed[t] = 0
      <3>1. stage[b] = "batch"  BY <2>2 DEF IInv, ThreadsInv
      <3>2. remaining[b] = 0  BY <3>1 DEF IInv, JoinedIsDone
      <3>3. /\ cursor[b] * grain[b] >= count[b]
            /\ \A k \in Nat : k < GrainsOf(count[b], grain[b]) => k \in accounted[b]
        BY <2>1, <3>1, <3>2, ZeroIsComplete
      <3>4. count[b] \in Nat /\ cursor[b] * grain[b] \in Nat
        BY <2>1, BoundsAssumption, MulMonotone DEF IInv, TypeOK
      <3>5. ASSUME pc[t] = "subtract" PROVE ran[t] = {}
        <4>1. \A k \in ran[t] : /\ k \in Nat /\ k < GrainsOf(count[b], grain[b])
                                /\ k \notin accounted[b]
          BY <3>5, <2>2 DEF IInv, TypeOK, GrainsAreOwned, Held, Holding
        <4> QED  BY <4>1, <3>3
      <3> QED  BY <3>3, <3>4, <3>5, FS_EmptySet DEF HasItems, IInv, ThreadsInv
    <2>3. ASSUME NEW t \in Threads, Claim(t) PROVE Frozen(b)
      <3>1. CASE batch[t] = b
        BY <2>3, <3>1, <2>2 DEF Claim, Draining
      <3>2. CASE batch[t] # b  BY <2>1, <2>3, <3>2 DEF Claim
      <3> QED  BY <3>1, <3>2
    <2>4. ASSUME NEW t \in Threads, MarkDone(t) PROVE Frozen(b)
      <3>1. CASE batch[t] = b
        <4>1. executed[t] = 0  BY <2>4, <3>1, <2>2 DEF MarkDone, Draining
        <4>2. remaining'[b] = remaining[b] - 0
          BY <2>1, <2>4, <3>1, <4>1 DEF MarkDone, Amount
        <4> QED  BY <2>1, <2>4, <4>2 DEF MarkDone
      <3>2. CASE batch[t] # b  BY <2>1, <2>4, <3>2 DEF MarkDone
      <3> QED  BY <3>1, <3>2
    <2>5. ASSUME MainChooses PROVE Frozen(b)
      BY <2>1, <2>5 DEF MainChooses, Initialize, SetStopping, StoreStopping, Dispatch,
                        DispatchInline, DispatchBatch, CallWait
    <2>6. ASSUME MainSteps PROVE Frozen(b)
      BY <2>6 DEF MainSteps, WakeForStop, JoinWorkers, Enqueue, PushJobs, NotifyAll,
                  NotifyOne, LoadRemaining
    <2>7. ASSUME NEW t \in Threads,
                 WorkerLoop(t) \/ FinishGrain(t) \/ NotifyGroup(t) \/ Block(t) \/ SpuriousWake(t)
          PROVE  Frozen(b)
      BY <2>7 DEF WorkerLoop, FinishGrain, NotifyGroup, NotifySleepers, Block, SpuriousWake
    <2>8. CASE UNCHANGED vars  BY <2>8 DEF vars
    <2> QED  BY <2>3, <2>4, <2>5, <2>6, <2>7, <2>8 DEF Next, Drain, Rest, Threads
  <1>2. IInv /\ [Next]_vars =>
            [\A b \in joined : remaining'[b] = remaining[b] /\ calls'[b] = calls[b]]_vars
    BY <1>1
  <1> QED  BY <1>2, Invariance, PTL DEF Spec, ReturnedBatchIsFrozen
-----------------------------------------------------------------------------
(* Shutdown.                                                                *)

\* b, which has items left, is still known to somebody who will look at it.
Referred(b) ==
    \/ \E i \in DOMAIN queue : queue[i] = b
    \/ pc[Main] = "enqueue" /\ batch[Main] = b
    \/ \E t \in Threads : batch[t] = b /\ pc[t] \in {"drain", "run"}

\* An action that cuts no range, claims nothing and keeps the references keeps
\* the last conjunct of ShutdownInv.
LEMMA ReferredFrame ==
    ASSUME ShutdownInv, UNCHANGED <<stage, cursor, grain, count>>,
           \A b \in Batches :
              stage[b] = "batch" /\ cursor[b] * grain[b] < count[b] /\ Referred(b)
                  => Referred(b)'
    PROVE  \A b \in Batches :
              stage'[b] = "batch" /\ cursor'[b] * grain'[b] < count'[b] => Referred(b)'
  BY DEF ShutdownInv, Referred

\* The conjuncts of ShutdownInv about the life cycle.
Lifecycle ==
    /\ ~initialized => queue = <<>>
    /\ initialized => \A w \in Workers : pc[w] # "off"
    /\ initialized /\ stopping => pc[Main] \in {"wakeAll", "join"}
    /\ pc[Main] \in {"wakeAll", "join"} => stopping
    /\ pc[Main] \in {"wakeAll", "join", "enqueue", "notify", "drain", "run"} =>
          initialized
    /\ \A w \in Workers :
          pc[w] = "exited" => queue = <<>> /\ pc[Main] \in {"wakeAll", "join"}

LEMMA ShutdownStep == IInv /\ IInv' /\ ShutdownInv /\ [Next]_vars => ShutdownInv'
  <1> SUFFICES ASSUME IInv, IInv', ShutdownInv, [Next]_vars PROVE ShutdownInv'  OBVIOUS
  <1> USE WorkersAssumption, BoundsAssumption
  <1>a. TypeOK /\ TypeOK' /\ ThreadsInv  BY DEF IInv
  <1>b. Lifecycle  BY DEF ShutdownInv, Lifecycle
  <1>1. ASSUME Initialize PROVE ShutdownInv'
    <2>1. Lifecycle'
      BY <1>1, <1>a, <1>b
         DEF Initialize, Goto, Lifecycle, TypeOK, ThreadsInv, Threads, Draining
    <2>2. \A c \in Batches :
             stage[c] = "batch" /\ cursor[c] * grain[c] < count[c] /\ Referred(c)
                 => Referred(c)'
      BY <1>1, <1>a, <1>b DEF Initialize, Referred, Lifecycle, TypeOK, ThreadsInv, Threads
    <2>3. UNCHANGED <<stage, cursor, grain, count>>
      BY <1>1 DEF Initialize, Goto
    <2> QED  BY <2>1, <2>2, <2>3, ReferredFrame DEF ShutdownInv, Lifecycle, Referred
  <1>2. ASSUME SetStopping PROVE ShutdownInv'
    <2>1. Lifecycle'
      BY <1>2, <1>a, <1>b
         DEF SetStopping, StoreStopping, Goto, Lifecycle, TypeOK, ThreadsInv, Threads, Draining
    <2>2. \A c \in Batches :
             stage[c] = "batch" /\ cursor[c] * grain[c] < count[c] /\ Referred(c)
                 => Referred(c)'
      BY <1>2, <1>a, <1>b DEF SetStopping, StoreStopping, Goto, Referred, Lifecycle, TypeOK, Threads
    <2>3. UNCHANGED <<stage, cursor, grain, count>>
      BY <1>2 DEF SetStopping, StoreStopping, Goto
    <2> QED  BY <2>1, <2>2, <2>3, ReferredFrame DEF ShutdownInv, Lifecycle, Referred
  <1>3. ASSUME WakeForStop PROVE ShutdownInv'
    <2>1. Lifecycle'
      BY <1>3, <1>a, <1>b
         DEF WakeForStop, WakeWorkers, Goto, Lifecycle, TypeOK, ThreadsInv, Threads, Draining
    <2>2. \A c \in Batches :
             stage[c] = "batch" /\ cursor[c] * grain[c] < count[c] /\ Referred(c)
                 => Referred(c)'
      BY <1>3, <1>a, <1>b DEF WakeForStop, WakeWorkers, Goto, Referred, Lifecycle, TypeOK, Threads
    <2>3. UNCHANGED <<stage, cursor, grain, count>>
      BY <1>3 DEF WakeForStop, WakeWorkers, Goto
    <2> QED  BY <2>1, <2>2, <2>3, ReferredFrame DEF ShutdownInv, Lifecycle, Referred
  <1>4. ASSUME JoinWorkers PROVE ShutdownInv'
    <2>1. Lifecycle'
      BY <1>4, <1>a, <1>b
         DEF JoinWorkers, Goto, Lifecycle, TypeOK, ThreadsInv, Threads, Draining
    <2>2. \A c \in Batches :
             stage[c] = "batch" /\ cursor[c] * grain[c] < count[c] /\ Referred(c)
                 => Referred(c)'
      BY <1>4, <1>a, <1>b DEF JoinWorkers, Goto, Referred, Lifecycle, TypeOK, Threads
    <2>3. UNCHANGED <<stage, cursor, grain, count>>
      BY <1>4 DEF JoinWorkers, Goto
    <2> QED  BY <2>1, <2>2, <2>3, ReferredFrame DEF ShutdownInv, Lifecycle, Referred
  <1>5. ASSUME Enqueue PROVE ShutdownInv'
    <2>1. Lifecycle'
      BY <1>5, <1>a, <1>b
         DEF Enqueue, PushJobs, Goto, Lifecycle, TypeOK, ThreadsInv, Threads, Draining
    <2>2. \A c \in Batches :
             stage[c] = "batch" /\ cursor[c] * grain[c] < count[c] /\ Referred(c)
                 => Referred(c)'
      <3> DEFINE jobs == [i \in 1 .. JobCount(batch[Main]) |-> batch[Main]]
      <3>1. /\ JobCount(batch[Main]) \in Nat \ {0} /\ batch[Main] \in Batches
        BY <1>5, JobCountType DEF Enqueue, PushJobs, IInv, ThreadsInv
      <3>2. jobs \in Seq(Batches) /\ Len(jobs) = JobCount(batch[Main]) /\ jobs[1] = batch[Main]
        BY <3>1
      <3>3. queue' = queue \o jobs /\ queue \in Seq(Batches)
        BY <1>5, <1>a DEF Enqueue, PushJobs, TypeOK
      <3> HIDE DEF jobs
      <3>4. \A i \in DOMAIN queue : i \in DOMAIN queue' /\ queue'[i] = queue[i]
        BY <3>2, <3>3
      <3>5. Len(queue) + 1 \in DOMAIN queue' /\ queue'[Len(queue) + 1] = batch[Main]
        BY <3>1, <3>2, <3>3
      <3>6. batch' = batch /\ \A t \in Threads \ {Main} : pc'[t] = pc[t]
        BY <1>5, <1>a DEF Enqueue, PushJobs, Goto, TypeOK
      <3>7. pc[Main] = "enqueue"  BY <1>5 DEF Enqueue, PushJobs
      <3> QED  BY <3>4, <3>5, <3>6, <3>7 DEF Referred, Threads
    <2>3. UNCHANGED <<stage, cursor, grain, count>>
      BY <1>5 DEF Enqueue, PushJobs, Goto
    <2> QED  BY <2>1, <2>2, <2>3, ReferredFrame DEF ShutdownInv, Lifecycle, Referred
  <1>6. ASSUME NotifyAll PROVE ShutdownInv'
    <2>1. Lifecycle'
      BY <1>6, <1>a, <1>b
         DEF NotifyAll, WakeWorkers, AfterDispatch, ReturnGroup, Goto, Lifecycle, TypeOK, ThreadsInv, Threads, Draining
    <2>2. \A c \in Batches :
             stage[c] = "batch" /\ cursor[c] * grain[c] < count[c] /\ Referred(c)
                 => Referred(c)'
      BY <1>6, <1>a, <1>b DEF NotifyAll, WakeWorkers, AfterDispatch, ReturnGroup, Goto, Referred, Lifecycle, TypeOK, Threads
    <2>3. UNCHANGED <<stage, cursor, grain, count>>
      BY <1>6 DEF NotifyAll, WakeWorkers, AfterDispatch, ReturnGroup, Goto
    <2> QED  BY <2>1, <2>2, <2>3, ReferredFrame DEF ShutdownInv, Lifecycle, Referred
  <1>7. ASSUME NotifyOne PROVE ShutdownInv'
    <2>1. Lifecycle'
      <3>1. pc[Main] = "notify" /\ pc'[Main] \in {"drain", "idle", "notify"}
        BY <1>7, <1>a DEF NotifyOne, AfterDispatch, Goto, TypeOK, Threads
      <3>2. \A w \in Workers : pc'[w] = pc[w] \/ (pc'[w] = "park" /\ pc[w] = "waiting")
        <4>1. \/ \E here \in {"drain", "idle", "notify"} : pc' = [pc EXCEPT ![Main] = here]
              \/ \E here \in {"drain", "idle", "notify"}, w \in Workers :
                    /\ pc[w] = "waiting"
                    /\ pc' = [pc EXCEPT ![Main] = here, ![w] = "park"]
          BY <1>7 DEF NotifyOne, AfterDispatch, Goto
        <4> QED  BY <4>1, <1>a DEF TypeOK, Threads
      <3>3. UNCHANGED <<queue, stopping, initialized>>  BY <1>7 DEF NotifyOne
      <3> QED  BY <3>1, <3>2, <3>3, <1>a, <1>b DEF Lifecycle, ThreadsInv
    <2>2. \A c \in Batches :
             stage[c] = "batch" /\ cursor[c] * grain[c] < count[c] /\ Referred(c)
                 => Referred(c)'
      BY <1>7, <1>a, <1>b DEF NotifyOne, AfterDispatch, ReturnGroup, Goto, Referred, Lifecycle, TypeOK, Threads
    <2>3. UNCHANGED <<stage, cursor, grain, count>>
      BY <1>7 DEF NotifyOne, AfterDispatch, ReturnGroup, Goto
    <2> QED  BY <2>1, <2>2, <2>3, ReferredFrame DEF ShutdownInv, Lifecycle, Referred
  <1>8. ASSUME NEW w \in Workers, WorkerLoop(w) PROVE ShutdownInv'
    <2>1. /\ UNCHANGED <<stage, cursor, grain, count, stopping, initialized>>
          /\ w \in Threads /\ w # Main /\ pc[w] \in {"poll", "park"}
          /\ initialized
      BY <1>8, <1>a DEF WorkerLoop, PollEmpty, PollUnderLock, Park, Threads, ThreadsInv
    <2>2. /\ \A u \in Threads \ {w} : pc'[u] = pc[u] /\ batch'[u] = batch[u]
          /\ \/ /\ pc'[w] = "drain" /\ batch'[w] = Head(queue)
                /\ queue # <<>> /\ queue' = Tail(queue)
             \/ /\ pc'[w] \in {"park", "blocking"} \/ (pc'[w] = "exited" /\ stopping /\ queue = <<>>)
                /\ UNCHANGED <<batch, queue>>
      BY <1>8, <1>a, <2>1 DEF WorkerLoop, PollEmpty, PollUnderLock, Park, TakeJob, Goto, TypeOK
    <2>3. Lifecycle'
      BY <2>1, <2>2, <1>a, <1>b DEF Lifecycle, Threads
    <2>4. \A c \in Batches : Referred(c) => Referred(c)'
      <3>1. CASE UNCHANGED <<batch, queue>>
        BY <2>1, <2>2, <3>1 DEF Referred, Threads
      <3>2. CASE /\ pc'[w] = "drain" /\ batch'[w] = Head(queue)
                 /\ queue # <<>> /\ queue' = Tail(queue)
        <4>1. ASSUME NEW i \in DOMAIN queue
              PROVE  \/ queue[i] = batch'[w]
                     \/ \E j \in DOMAIN queue' : queue'[j] = queue[i]
          <5>1. queue \in Seq(Batches) /\ i \in 1 .. Len(queue) /\ Len(queue) > 0
            <6>1. queue \in Seq(Batches)  BY <1>a DEF TypeOK
            <6> QED  BY <3>2, <6>1
          <5>2. CASE i = 1  BY <3>2, <5>1, <5>2
          <5>3. CASE i # 1
            <6>1. i - 1 \in 1 .. Len(Tail(queue)) /\ Tail(queue)[i - 1] = queue[i]
              BY <5>1, <5>3
            <6>2. Tail(queue) \in Seq(Batches)  BY <5>1, <3>2
            <6> QED  BY <6>1, <6>2, <3>2
          <5> QED  BY <5>2, <5>3
        <4> QED  BY <2>1, <2>2, <3>2, <4>1 DEF Referred, Threads
      <3> QED  BY <2>2, <3>1, <3>2
    <2> QED  BY <2>1, <2>3, <2>4, ReferredFrame DEF ShutdownInv, Lifecycle, Referred
  <1>9. ASSUME NEW t \in Threads, Block(t) PROVE ShutdownInv'
    <2>1. Lifecycle'
      BY <1>9, <1>a, <1>b
         DEF Block, Goto, Lifecycle, TypeOK, ThreadsInv, Threads, Draining
    <2>2. \A c \in Batches :
             stage[c] = "batch" /\ cursor[c] * grain[c] < count[c] /\ Referred(c)
                 => Referred(c)'
      BY <1>9, <1>a, <1>b DEF Block, Goto, Referred, Lifecycle, TypeOK, Threads
    <2>3. UNCHANGED <<stage, cursor, grain, count>>
      BY <1>9 DEF Block, Goto
    <2> QED  BY <2>1, <2>2, <2>3, ReferredFrame DEF ShutdownInv, Lifecycle, Referred
  <1>10. ASSUME NEW t \in Threads, SpuriousWake(t) PROVE ShutdownInv'
    <2>1. Lifecycle'
      BY <1>10, <1>a, <1>b
         DEF SpuriousWake, Goto, Lifecycle, TypeOK, ThreadsInv, Threads, Draining
    <2>2. \A c \in Batches :
             stage[c] = "batch" /\ cursor[c] * grain[c] < count[c] /\ Referred(c)
                 => Referred(c)'
      BY <1>10, <1>a, <1>b DEF SpuriousWake, Goto, Referred, Lifecycle, TypeOK, Threads
    <2>3. UNCHANGED <<stage, cursor, grain, count>>
      BY <1>10 DEF SpuriousWake, Goto
    <2> QED  BY <2>1, <2>2, <2>3, ReferredFrame DEF ShutdownInv, Lifecycle, Referred
  <1>11. ASSUME NEW t \in Threads, FinishGrain(t) PROVE ShutdownInv'
    <2>1. Lifecycle'
      BY <1>11, <1>a, <1>b
         DEF FinishGrain, Goto, Lifecycle, TypeOK, ThreadsInv, Threads, Draining
    <2>2. \A c \in Batches :
             stage[c] = "batch" /\ cursor[c] * grain[c] < count[c] /\ Referred(c)
                 => Referred(c)'
      BY <1>11, <1>a, <1>b DEF FinishGrain, Goto, Referred, Lifecycle, TypeOK, Threads
    <2>3. UNCHANGED <<stage, cursor, grain, count>>
      BY <1>11 DEF FinishGrain, Goto
    <2> QED  BY <2>1, <2>2, <2>3, ReferredFrame DEF ShutdownInv, Lifecycle, Referred
  <1>12. ASSUME NEW t \in Threads, MarkDone(t) PROVE ShutdownInv'
    <2>1. Lifecycle'
      BY <1>12, <1>a, <1>b
         DEF MarkDone, AfterMark, DropJob, Amount, Goto, Lifecycle, TypeOK, ThreadsInv, Threads, Draining
    <2>2. \A c \in Batches :
             stage[c] = "batch" /\ cursor[c] * grain[c] < count[c] /\ Referred(c)
                 => Referred(c)'
      BY <1>12, <1>a, <1>b DEF MarkDone, AfterMark, DropJob, Amount, Goto, Referred, Lifecycle, TypeOK, Threads
    <2>3. UNCHANGED <<stage, cursor, grain, count>>
      BY <1>12 DEF MarkDone, AfterMark, DropJob, Amount, Goto
    <2> QED  BY <2>1, <2>2, <2>3, ReferredFrame DEF ShutdownInv, Lifecycle, Referred
  <1>13. ASSUME NEW t \in Threads, NotifyGroup(t) PROVE ShutdownInv'
    <2>1. Lifecycle'
      BY <1>13, <1>a, <1>b
         DEF NotifyGroup, NotifySleepers, AfterMark, DropJob, Goto, Lifecycle, TypeOK, ThreadsInv, Threads, Draining
    <2>2. \A c \in Batches :
             stage[c] = "batch" /\ cursor[c] * grain[c] < count[c] /\ Referred(c)
                 => Referred(c)'
      BY <1>13, <1>a, <1>b DEF NotifyGroup, NotifySleepers, AfterMark, DropJob, Goto, Referred, Lifecycle, TypeOK, Threads
    <2>3. UNCHANGED <<stage, cursor, grain, count>>
      BY <1>13 DEF NotifyGroup, NotifySleepers, AfterMark, DropJob, Goto
    <2> QED  BY <2>1, <2>2, <2>3, ReferredFrame DEF ShutdownInv, Lifecycle, Referred
  <1>14. ASSUME NEW b \in Batches, CallWait(b) PROVE ShutdownInv'
    <2>1. Lifecycle'
      BY <1>14, <1>a, <1>b
         DEF CallWait, Goto, Lifecycle, TypeOK, ThreadsInv, Threads, Draining
    <2>2. \A c \in Batches :
             stage[c] = "batch" /\ cursor[c] * grain[c] < count[c] /\ Referred(c)
                 => Referred(c)'
      BY <1>14, <1>a, <1>b DEF CallWait, Goto, Referred, Lifecycle, TypeOK, Threads
    <2>3. UNCHANGED <<stage, cursor, grain, count>>
      BY <1>14 DEF CallWait, Goto
    <2> QED  BY <2>1, <2>2, <2>3, ReferredFrame DEF ShutdownInv, Lifecycle, Referred
  <1>15. ASSUME LoadRemaining PROVE ShutdownInv'
    <2>1. Lifecycle'
      BY <1>15, <1>a, <1>b
         DEF LoadRemaining, WaitReturns, Goto, Lifecycle, TypeOK, ThreadsInv, Threads, Draining
    <2>2. \A c \in Batches :
             stage[c] = "batch" /\ cursor[c] * grain[c] < count[c] /\ Referred(c)
                 => Referred(c)'
      BY <1>15, <1>a, <1>b DEF LoadRemaining, WaitReturns, Goto, Referred, Lifecycle, TypeOK, Threads
    <2>3. UNCHANGED <<stage, cursor, grain, count>>
      BY <1>15 DEF LoadRemaining, WaitReturns, Goto
    <2> QED  BY <2>1, <2>2, <2>3, ReferredFrame DEF ShutdownInv, Lifecycle, Referred
  <1>16. ASSUME NEW t \in Threads, Claim(t) PROVE ShutdownInv'
    <2>1. Lifecycle'
      <3>1. \/ pc'[Main] = pc[Main]
            \/ pc[Main] = "drain" /\ pc'[Main] \in {"run", "subtract"}
        <4>1. pc[t] = "drain" /\ pc'[t] \in {"run", "subtract"}
          BY <1>16, <1>a DEF Claim, Goto, TypeOK
        <4>2. t # Main => pc'[Main] = pc[Main]
          BY <1>16, <1>a DEF Claim, Goto, TypeOK, Threads
        <4>3. CASE t = Main  BY <4>1, <4>3
        <4>4. CASE t # Main  BY <4>2, <4>4
        <4> QED  BY <4>3, <4>4
      <3>2. \A w \in Workers : pc'[w] \in {"off", "exited"} => pc'[w] = pc[w]
        BY <1>16, <1>a DEF Claim, Goto, TypeOK, Threads
      <3>3. \A w \in Workers : pc[w] = "off" => pc'[w] = "off"
        BY <1>16, <1>a DEF Claim, Goto, TypeOK, Threads
      <3>4. UNCHANGED <<queue, stopping, initialized>>  BY <1>16 DEF Claim
      <3> QED  BY <3>1, <3>2, <3>3, <3>4, <1>b DEF Lifecycle
    <2>2. ASSUME NEW c \in Batches, stage'[c] = "batch", cursor'[c] * grain'[c] < count'[c]
          PROVE  Referred(c)'
      <3>1. UNCHANGED <<stage, grain, count, queue, batch>>  BY <1>16 DEF Claim
      <3>2. /\ cursor[c] \in Nat /\ grain[c] \in Nat \ {0} /\ cursor'[c] \in Nat
            /\ cursor[c] <= cursor'[c]
        <4>1. /\ batch[t] \in Batches
              /\ cursor' = [cursor EXCEPT ![batch[t]] = cursor[batch[t]] + 1]
          BY <1>16, <1>a DEF Claim, ThreadsInv, Draining
        <4>2. /\ cursor[c] \in Nat /\ grain[c] \in Nat \ {0}
              /\ cursor'[c] = IF c = batch[t] THEN cursor[c] + 1 ELSE cursor[c]
          BY <4>1, <1>a DEF TypeOK
        <4> QED  BY <4>2
      <3>3. cursor[c] * grain[c] <= cursor'[c] * grain[c]  BY <3>2, MulMonotone
      <3>4. cursor[c] * grain[c] \in Nat /\ cursor'[c] * grain[c] \in Nat /\ count[c] \in Nat
        <4>1. count[c] \in Nat  BY <1>a DEF TypeOK
        <4>2. cursor[c] * grain[c] \in Nat  BY <3>2, MulMonotone
        <4>3. cursor'[c] * grain[c] \in Nat  BY <3>2, MulMonotone
        <4> QED  BY <4>1, <4>2, <4>3
      <3>5. cursor[c] * grain[c] < count[c]  BY <2>2, <3>1, <3>3, <3>4
      <3>6. Referred(c)  BY <2>2, <3>1, <3>5 DEF ShutdownInv, Referred
      <3>7. batch[t] = c => pc'[t] = "run"
        BY <1>16, <1>a, <3>5 DEF Claim, HasItems, Goto, TypeOK
      <3>8. \A u \in Threads \ {t} : pc'[u] = pc[u]
        BY <1>16, <1>a DEF Claim, Goto, TypeOK
      <3>9. pc[t] = "drain"  BY <1>16 DEF Claim
      <3> QED  BY <1>16, <3>1, <3>6, <3>7, <3>8, <3>9 DEF Referred, Threads
    <2> QED  BY <2>1, <2>2 DEF ShutdownInv, Lifecycle, Referred
  <1>17. ASSUME NEW b \in Batches, NEW n \in Counts, NEW p \in BOOLEAN, DispatchInline(b, n, p) PROVE ShutdownInv'
    <2>1. Lifecycle'  BY <1>17, <1>b DEF DispatchInline, Lifecycle
    <2>2. ASSUME NEW c \in Batches, stage'[c] = "batch"
          PROVE  UNCHANGED <<stage[c], cursor[c], grain[c], count[c]>>
      BY <1>17, <1>a, <2>2 DEF DispatchInline, TypeOK
    <2>3. UNCHANGED <<pc, batch, queue>>  BY <1>17 DEF DispatchInline
    <2> QED  BY <2>1, <2>2, <2>3 DEF ShutdownInv, Lifecycle, Referred
  <1>18. ASSUME NEW b \in Batches, NEW n \in Counts, NEW p \in BOOLEAN, DispatchBatch(b, n, p) PROVE ShutdownInv'
    <2>1. Lifecycle'
      BY <1>18, <1>a, <1>b DEF DispatchBatch, Goto, Lifecycle, TypeOK, Threads
    <2>2. /\ pc'[Main] = "enqueue" /\ batch'[Main] = b /\ pc[Main] = "idle"
          /\ \A u \in Threads \ {Main} : pc'[u] = pc[u] /\ batch'[u] = batch[u]
          /\ queue' = queue
      BY <1>18, <1>a DEF DispatchBatch, Goto, TypeOK, Threads
    <2>3. ASSUME NEW c \in Batches, c # b
          PROVE  UNCHANGED <<stage[c], cursor[c], grain[c], count[c]>>
      BY <1>18, <1>a, <2>3 DEF DispatchBatch, TypeOK
    <2>4. ASSUME NEW c \in Batches, c # b, Referred(c) PROVE Referred(c)'
      BY <2>2, <2>4 DEF Referred, Threads
    <2> QED  BY <2>1, <2>2, <2>3, <2>4 DEF ShutdownInv, Lifecycle, Referred
  <1>19. CASE UNCHANGED vars
    BY <1>19 DEF vars, ShutdownInv
  <1> QED
    BY <1>1, <1>2, <1>3, <1>4, <1>5, <1>6, <1>7, <1>8, <1>9, <1>10, <1>11, <1>12, <1>13, <1>14, <1>15, <1>16, <1>17, <1>18, <1>19
       DEF Next, MainChooses, MainSteps, Dispatch, Drain, Rest

LEMMA ShutdownInit == Init => ShutdownInv
  BY WorkersAssumption DEF Init, ShutdownInv, Threads

\* Shutdown returns with queue_ empty and every dispatched item run exactly once.
THEOREM ShutdownRunsTheQueueHolds == Spec => []ShutdownRunsTheQueue
  <1>1. IInv /\ ShutdownInv => ShutdownRunsTheQueue
    <2> SUFFICES ASSUME IInv, ShutdownInv, ~initialized,
                        NEW b \in Batches, NEW i \in Items,
                        stage[b] # "unused", i < count[b]
                 PROVE  calls[b][i] = 1
      BY DEF ShutdownRunsTheQueue, ShutdownInv
    <2>1. CASE stage[b] = "inline"
      BY <2>1 DEF IInv, StagesInv
    <2>2. CASE stage[b] = "batch"
      <3>1. queue = <<>> /\ \A w \in Workers : pc[w] = "off"
        BY DEF ShutdownInv, IInv, ThreadsInv
      <3>2. pc[Main] \notin {"enqueue", "drain", "run"}  BY DEF ShutdownInv
      <3>3. ~(cursor[b] * grain[b] < count[b])
        BY <2>2, <3>1, <3>2 DEF ShutdownInv, Threads
      <3>4. count[b] \in Nat /\ cursor[b] * grain[b] \in Nat
        BY BoundsAssumption, MulMonotone DEF IInv, TypeOK
      <3>5. AtMost(cursor[b] * grain[b], count[b]) = count[b]
        BY <3>3, <3>4 DEF AtMost
      <3> QED  BY <2>2, <3>5 DEF IInv, CallsFollowCursor
    <2> QED  BY <2>1, <2>2 DEF IInv, TypeOK
  <1> QED  BY <1>1, Invariance, ShutdownInit, ShutdownStep, PTL DEF Spec
-----------------------------------------------------------------------------
(* The refinement of RangeWork.                                             *)

\* The mapped variables of RangeWork, one batch at a time.
Todo(b) == {i \in Items : stage[b] # "unused" /\ i < count[b] /\ ~Called(b, i)}
Finished(b) == {i \in Items : Called(b, i)} \ RunningItems(b)

\* t is in fn, on a grain of b.
Runs(t, b) == pc[t] = "run" /\ batch[t] = b

LEMMA RunningMember ==
    ASSUME NEW b \in Batches, NEW i
    PROVE  i \in RunningItems(b) <=>
              \E t \in Threads : Runs(t, b) /\ i \in ItemsOf(at[t], count[b], grain[b])
  BY DEF RunningItems, Runs

LEMMA RunningMemberNext ==
    ASSUME NEW b \in Batches, NEW i
    PROVE  i \in RunningItems(b)' <=>
              \E t \in Threads : Runs(t, b)' /\ i \in ItemsOf(at'[t], count'[b], grain'[b])
  BY DEF RunningItems, Runs, ItemsOf

LEMMA RunningInItems ==
    ASSUME NEW b \in Batches
    PROVE  RunningItems(b) \subseteq Items
  BY DEF RunningItems, ItemsOf

\* A batch nobody enters or leaves fn for.
LEMMA RunningKept ==
    ASSUME NEW b \in Batches,
           \A t \in Threads : Runs(t, b)' <=> Runs(t, b),
           \A t \in Threads : Runs(t, b) =>
              at'[t] = at[t] /\ count'[b] = count[b] /\ grain'[b] = grain[b]
    PROVE  RunningItems(b)' = RunningItems(b)
  <1>1. \A i : i \in RunningItems(b)' <=> i \in RunningItems(b)
    BY RunningMember, RunningMemberNext
  <1> QED  BY <1>1

\* A step that is none of RangeWork's: no range is cut, no item is given to
\* fn or comes back from it, and no wait returns.
Silent ==
    /\ UNCHANGED <<stage, count, grain, calls, joined>>
    /\ \A t \in Threads :
          /\ pc'[t] = "run" <=> pc[t] = "run"
          /\ pc[t] = "run" => batch'[t] = batch[t] /\ at'[t] = at[t]

LEMMA SilentStutters == Silent => UNCHANGED Work!vars
  <1> SUFFICES ASSUME Silent PROVE UNCHANGED Work!vars  OBVIOUS
  <1>1. \A b \in Batches : RunningItems(b)' = RunningItems(b)
    <2> SUFFICES ASSUME NEW b \in Batches PROVE RunningItems(b)' = RunningItems(b)
      OBVIOUS
    <2>1. \A t \in Threads : Runs(t, b)' <=> Runs(t, b)  BY DEF Silent, Runs
    <2>2. \A t \in Threads : Runs(t, b) =>
              at'[t] = at[t] /\ count'[b] = count[b] /\ grain'[b] = grain[b]
      BY DEF Silent, Runs
    <2> QED  BY <2>1, <2>2, RunningKept
  <1> QED  BY <1>1 DEF Work!vars, Silent, Called, Asked

LEMMA SilentSteps ==
    ASSUME IInv,
           \/ Initialize \/ SetStopping \/ WakeForStop \/ JoinWorkers \/ Enqueue
           \/ NotifyAll \/ NotifyOne
           \/ \E w \in Workers : WorkerLoop(w)
           \/ \E t \in Threads : Block(t) \/ SpuriousWake(t) \/ MarkDone(t) \/ NotifyGroup(t)
           \/ \E b \in Batches : CallWait(b)
           \/ LoadRemaining /\ remaining[batch[Main]] # 0
           \/ UNCHANGED vars
    PROVE  Silent
  <1>0. /\ pc \in [Threads -> WorkerLabels \cup MainLabels]
        /\ batch \in [Threads -> Batches \cup {NoBatch}] /\ at \in [Threads -> Nat]
        /\ ~initialized => \A w \in Workers : pc[w] = "off"
        /\ Workers \subseteq Threads /\ Main \in Threads /\ Main \notin Workers
        /\ \A t \in Threads \ Workers : t = Main
    BY WorkersAssumption DEF IInv, TypeOK, ThreadsInv, Threads
  <1> USE <1>0 DEF Silent, Goto
  <1>1. CASE Initialize  BY <1>1 DEF Initialize
  <1>2. CASE SetStopping  BY <1>2 DEF SetStopping, StoreStopping
  <1>3. CASE WakeForStop  BY <1>3 DEF WakeForStop, WakeWorkers
  <1>4. CASE JoinWorkers  BY <1>4 DEF JoinWorkers
  <1>5. CASE Enqueue  BY <1>5 DEF Enqueue, PushJobs
  <1>6. CASE NotifyAll
    BY <1>6 DEF NotifyAll, WakeWorkers, AfterDispatch, ReturnGroup
  <1>7. CASE NotifyOne
    BY <1>7 DEF NotifyOne, AfterDispatch, ReturnGroup
  <1>8. ASSUME NEW w \in Workers, WorkerLoop(w) PROVE Silent
    BY <1>8 DEF WorkerLoop, PollEmpty, PollUnderLock, Park, TakeJob
  <1>9. ASSUME NEW t \in Threads, Block(t) \/ SpuriousWake(t) PROVE Silent
    BY <1>9 DEF Block, SpuriousWake
  <1>10. ASSUME NEW t \in Threads, MarkDone(t) \/ NotifyGroup(t) PROVE Silent
    BY <1>10 DEF MarkDone, NotifyGroup, NotifySleepers, AfterMark, DropJob
  <1>11. ASSUME NEW b \in Batches, CallWait(b) PROVE Silent
    BY <1>11 DEF CallWait
  <1>12. CASE LoadRemaining /\ remaining[batch[Main]] # 0
    BY <1>12 DEF LoadRemaining
  <1>13. CASE UNCHANGED vars
    BY <1>13 DEF vars
  <1> QED
    BY <1>1, <1>2, <1>3, <1>4, <1>5, <1>6, <1>7, <1>8, <1>9, <1>10, <1>11, <1>12, <1>13

\* Nobody is in fn for a batch that was not shared with the workers.
LEMMA RunningOutside ==
    ASSUME IInv, NEW b \in Batches, stage[b] # "batch"
    PROVE  \A t \in Threads : ~Runs(t, b)
  BY DEF IInv, ThreadsInv, Draining, Runs

LEMMA InlineRefines ==
    ASSUME IInv, NEW b \in Batches, NEW n \in Counts, NEW p \in BOOLEAN,
           DispatchInline(b, n, p)
    PROVE  Work!DoAtOnce(b, {i \in Items : i < n})
  <1>1. /\ stage[b] = "unused" /\ stage' = [stage EXCEPT ![b] = "inline"]
        /\ count' = [count EXCEPT ![b] = n]
        /\ calls' = [calls EXCEPT ![b] = [i \in Items |-> IF i < n THEN 1 ELSE 0]]
        /\ joined' \in {joined, joined \cup {b}}
        /\ UNCHANGED <<pc, batch, at, grain>>
    BY DEF DispatchInline
  <1>2. /\ stage \in [Batches -> {"unused", "inline", "batch"}]
        /\ count \in [Batches -> 0 .. MaxCount] /\ calls \in [Batches -> [Items -> Nat]]
        /\ \A i \in Items : calls[b][i] = 0
    BY <1>1 DEF IInv, TypeOK, StagesInv
  <1>3. \A t \in Threads : ~Runs(t, b) /\ ~Runs(t, b)'
    BY <1>1, RunningOutside DEF Runs
  <1>4. \A x \in Batches : RunningItems(x)' = RunningItems(x)
    <2> SUFFICES ASSUME NEW x \in Batches PROVE RunningItems(x)' = RunningItems(x)
      OBVIOUS
    <2>1. \A t \in Threads : Runs(t, x)' <=> Runs(t, x)  BY <1>1 DEF Runs
    <2>2. x # b => count'[x] = count[x] /\ grain'[x] = grain[x]  BY <1>1, <1>2
    <2> QED  BY <1>1, <1>3, <2>1, <2>2, RunningKept
  <1>5. RunningItems(b) = {} /\ RunningItems(b)' = {}
    BY <1>3, <1>4, RunningMember
  <1>6. \A x \in Batches :
           /\ Todo(x)' = Todo(x)
           /\ Finished(x)' = IF x = b THEN {i \in Items : i < n} ELSE Finished(x)
    <2> SUFFICES ASSUME NEW x \in Batches
                 PROVE  /\ Todo(x)' = Todo(x)
                        /\ Finished(x)' = IF x = b THEN {i \in Items : i < n} ELSE Finished(x)
      OBVIOUS
    <2>1. CASE x = b
      <3>1. \A i \in Items : Called(b, i)' <=> i < n  BY <1>1, <1>2 DEF Called
      <3>2. Todo(b)' = {} /\ Todo(b) = {}
        BY <1>1, <1>2, <3>1 DEF Todo
      <3>3. Finished(b)' = {i \in Items : i < n}  BY <1>5, <3>1 DEF Finished
      <3> QED  BY <2>1, <3>2, <3>3
    <2>2. CASE x # b
      <3>1. calls'[x] = calls[x] /\ stage'[x] = stage[x] /\ count'[x] = count[x]
        BY <1>1, <1>2, <2>2
      <3> QED  BY <2>2, <3>1, <1>4 DEF Todo, Finished, Called
    <2> QED  BY <2>1, <2>2
  <1>7. b \notin Asked /\ Asked' = Asked \cup {b}
    BY <1>1, <1>2 DEF Asked
  <1> QED
    BY <1>1, <1>4, <1>6, <1>7 DEF Work!DoAtOnce, Todo, Finished

LEMMA BatchRefines ==
    ASSUME IInv, NEW b \in Batches, NEW n \in Counts, NEW p \in BOOLEAN,
           DispatchBatch(b, n, p)
    PROVE  Work!Ask(b, {i \in Items : i < n})
  <1>1. /\ stage[b] = "unused" /\ stage' = [stage EXCEPT ![b] = "batch"]
        /\ count' = [count EXCEPT ![b] = n]
        /\ grain' = [grain EXCEPT ![b] = GrainOf(n, p)]
        /\ pc[Main] = "idle" /\ pc' = [pc EXCEPT ![Main] = "enqueue"]
        /\ batch' = [batch EXCEPT ![Main] = b]
        /\ UNCHANGED <<calls, joined, at>>
    BY DEF DispatchBatch, Goto
  <1>2. /\ stage \in [Batches -> {"unused", "inline", "batch"}]
        /\ count \in [Batches -> 0 .. MaxCount] /\ calls \in [Batches -> [Items -> Nat]]
        /\ grain \in [Batches -> Nat \ {0}]
        /\ pc \in [Threads -> WorkerLabels \cup MainLabels]
        /\ batch \in [Threads -> Batches \cup {NoBatch}]
        /\ \A i \in Items : calls[b][i] = 0
    BY <1>1 DEF IInv, TypeOK, StagesInv
  <1>3. \A t \in Threads, x \in Batches : Runs(t, x)' <=> Runs(t, x)
    BY <1>1, <1>2 DEF Runs
  <1>4. \A x \in Batches : RunningItems(x)' = RunningItems(x)
    <2> SUFFICES ASSUME NEW x \in Batches PROVE RunningItems(x)' = RunningItems(x)
      OBVIOUS
    <2>1. x # b => count'[x] = count[x] /\ grain'[x] = grain[x]  BY <1>1, <1>2
    <2>2. \A t \in Threads : Runs(t, x) => x # b  BY <1>1, RunningOutside
    <2> QED  BY <1>1, <1>3, <2>1, <2>2, RunningKept
  <1>5. \A x \in Batches :
           /\ Finished(x)' = Finished(x)
           /\ Todo(x)' = IF x = b THEN {i \in Items : i < n} ELSE Todo(x)
    BY <1>1, <1>2, <1>4 DEF Todo, Finished, Called
  <1>6. b \notin Asked /\ Asked' = Asked \cup {b}
    BY <1>1, <1>2 DEF Asked
  <1> QED
    BY <1>1, <1>4, <1>5, <1>6 DEF Work!Ask, Todo, Finished

\* Giving items to fn, and getting them back from it, seen batch by batch.
LEMMA IsStart ==
    ASSUME NEW b \in Batches, NEW items,
           items \subseteq Todo(b),
           \A x \in Batches :
              /\ Todo(x)' = IF x = b THEN Todo(x) \ items ELSE Todo(x)
              /\ RunningItems(x)' =
                    IF x = b THEN RunningItems(x) \cup items ELSE RunningItems(x)
              /\ Finished(x)' = Finished(x),
           stage' = stage, joined' = joined
    PROVE  Work!Start(b, items)
  <1>1. Asked' = Asked  BY DEF Asked
  <1>2. [x \in Batches |-> RunningItems(x)]' =
           [[x \in Batches |-> RunningItems(x)] EXCEPT
               ![b] = [x \in Batches |-> RunningItems(x)][b] \cup items]
    OBVIOUS
  <1>3. [x \in Batches |-> Todo(x)]' =
           [[x \in Batches |-> Todo(x)] EXCEPT ![b] = [x \in Batches |-> Todo(x)][b] \ items]
    OBVIOUS
  <1>4. UNCHANGED [x \in Batches |-> Finished(x)]
    OBVIOUS
  <1>5. items \subseteq [x \in Batches |-> Todo(x)][b]
    OBVIOUS
  <1> QED  BY <1>1, <1>2, <1>3, <1>4, <1>5 DEF Work!Start, Todo, Finished

LEMMA IsFinish ==
    ASSUME NEW b \in Batches, NEW items,
           items \subseteq RunningItems(b),
           \A x \in Batches :
              /\ RunningItems(x)' =
                    IF x = b THEN RunningItems(x) \ items ELSE RunningItems(x)
              /\ Finished(x)' = IF x = b THEN Finished(x) \cup items ELSE Finished(x)
              /\ Todo(x)' = Todo(x),
           stage' = stage, joined' = joined
    PROVE  Work!Finish(b, items)
  <1>1. Asked' = Asked  BY DEF Asked
  <1> QED  BY <1>1 DEF Work!Finish, Todo, Finished

LEMMA ClaimRefines ==
    ASSUME IInv, NEW t \in Threads, Claim(t),
           HasItems(cursor[batch[t]] * grain[batch[t]], count[batch[t]])
    PROVE  \E b \in Batches, items \in SUBSET Items : Work!Start(b, items)
  <1>0. PICK b \in Batches, c \in Nat, g \in Nat \ {0}, n \in Nat,
           items \in SUBSET Items :
           /\ b = batch[t] /\ c = cursor[b] /\ g = grain[b] /\ n = count[b]
           /\ items = ItemsOf(c, n, g)
    <2>1. batch[t] \in Batches  BY DEF IInv, TypeOK, ThreadsInv, Draining, Claim
    <2>2. /\ cursor[batch[t]] \in Nat /\ grain[batch[t]] \in Nat \ {0}
          /\ count[batch[t]] \in Nat
      BY <2>1, BoundsAssumption DEF IInv, TypeOK
    <2> QED  BY <2>1, <2>2 DEF ItemsOf
  <1>1. /\ b \in Batches /\ stage[b] = "batch" /\ pc[t] = "drain"
        /\ c \in Nat /\ g \in Nat \ {0} /\ n \in Nat /\ c * g < n
        /\ calls \in [Batches -> [Items -> Nat]]
        /\ pc \in [Threads -> WorkerLabels \cup MainLabels] /\ at \in [Threads -> Nat]
    BY <1>0 DEF IInv, TypeOK, ThreadsInv, Draining, Claim, HasItems
  <1>2. /\ at' = [at EXCEPT ![t] = c]
        /\ calls' = [calls EXCEPT ![b] =
              [i \in Items |-> IF i \in items THEN calls[b][i] + 1 ELSE calls[b][i]]]
        /\ pc' = [pc EXCEPT ![t] = "run"]
        /\ UNCHANGED <<batch, stage, count, grain, joined>>
    BY <1>0, <1>1 DEF Claim, Goto
  <1>3. c * g \in Nat /\ \A i \in Items : calls[b][i] = IF i < c * g THEN 1 ELSE 0
    <2>1. c * g \in Nat  BY <1>1, MulMonotone
    <2>2. AtMost(c * g, n) = c * g  BY <1>1, <2>1 DEF AtMost
    <2> QED  BY <1>0, <1>1, <2>1, <2>2 DEF IInv, CallsFollowCursor
  <1>4. items \subseteq Items /\ \A i \in items : c * g <= i /\ i < n /\ ~Called(b, i)
    <2> SUFFICES ASSUME NEW i \in items
                 PROVE  i \in Items /\ c * g <= i /\ i < n /\ ~Called(b, i)
      OBVIOUS
    <2>1. i \in Items /\ c * g <= i /\ i < AtMost(c * g + g, n)  BY <1>0 DEF ItemsOf
    <2>2. i \in Nat  BY <2>1, BoundsAssumption DEF Items
    <2>3. i < n  BY <1>1, <1>3, <2>1, <2>2 DEF AtMost
    <2>4. calls[b][i] = 0  BY <1>1, <1>3, <2>1, <2>2
    <2> QED  BY <2>1, <2>3, <2>4 DEF Called
  <1>5. \A x \in Batches : RunningItems(x)' =
           IF x = b THEN RunningItems(x) \cup items ELSE RunningItems(x)
    <2> SUFFICES ASSUME NEW x \in Batches
                 PROVE  RunningItems(x)' =
                           IF x = b THEN RunningItems(x) \cup items ELSE RunningItems(x)
      OBVIOUS
    <2>1. \A u \in Threads \ {t} : (Runs(u, x)' <=> Runs(u, x)) /\ at'[u] = at[u]
      BY <1>1, <1>2 DEF Runs
    <2>2. ~Runs(t, x) /\ (Runs(t, x)' <=> x = b) /\ at'[t] = c
      BY <1>0, <1>1, <1>2 DEF Runs
    <2>3. \A i : i \in RunningItems(x)' <=>
                    i \in RunningItems(x) \/ (x = b /\ i \in items)
      BY <1>0, <1>2, <2>1, <2>2, RunningMember, RunningMemberNext
    <2> QED  BY <2>3
  <1>6. \A x \in Batches :
           /\ Todo(x)' = IF x = b THEN Todo(x) \ items ELSE Todo(x)
           /\ Finished(x)' = Finished(x)
    <2> SUFFICES ASSUME NEW x \in Batches
                 PROVE  /\ Todo(x)' = IF x = b THEN Todo(x) \ items ELSE Todo(x)
                        /\ Finished(x)' = Finished(x)
      OBVIOUS
    <2>1. CASE x = b
      <3>1. \A i \in Items : Called(b, i)' <=> Called(b, i) \/ i \in items
        BY <1>1, <1>2 DEF Called
      <3> QED  BY <1>2, <1>4, <1>5, <2>1, <3>1 DEF Todo, Finished
    <2>2. CASE x # b
      BY <1>1, <1>2, <1>5, <2>2 DEF Todo, Finished, Called
    <2> QED  BY <2>1, <2>2
  <1>7. items \subseteq Todo(b)
    BY <1>0, <1>1, <1>4 DEF Todo
  <1>8. Work!Start(b, items)
    BY <1>2, <1>5, <1>6, <1>7, IsStart
  <1> QED  BY <1>1, <1>4, <1>8

LEMMA GrainsDisjoint ==
    ASSUME NEW j \in Nat, NEW k \in Nat, j # k, NEW n \in Nat, NEW g \in Nat \ {0}
    PROVE  ItemsOf(j, n, g) \cap ItemsOf(k, n, g) = {}
  <1>1. j * g \in Nat /\ k * g \in Nat  BY MulMonotone
  <1>2. j < k => j * g + g <= k * g  BY MulNext, MulMonotone, j + 1 \in Nat
  <1>3. k < j => k * g + g <= j * g  BY MulNext, MulMonotone, k + 1 \in Nat
  <1> SUFFICES ASSUME NEW i \in ItemsOf(j, n, g), i \in ItemsOf(k, n, g) PROVE FALSE
    OBVIOUS
  <1>4. /\ j * g <= i /\ i < AtMost(j * g + g, n)
        /\ k * g <= i /\ i < AtMost(k * g + g, n)
        /\ i \in Nat
    BY BoundsAssumption DEF ItemsOf, Items
  <1> HIDE DEF ItemsOf
  <1>5. i < j * g + g /\ i < k * g + g  BY <1>1, <1>4 DEF AtMost
  <1> QED  BY <1>1, <1>2, <1>3, <1>4, <1>5

LEMMA FinishRefines ==
    ASSUME IInv, NEW t \in Threads, FinishGrain(t)
    PROVE  \E b \in Batches, items \in SUBSET Items : Work!Finish(b, items)
  <1>0. PICK b \in Batches, k \in Nat, g \in Nat \ {0}, n \in Nat,
           items \in SUBSET Items :
           /\ b = batch[t] /\ k = at[t] /\ g = grain[b] /\ n = count[b]
           /\ items = ItemsOf(k, n, g)
    <2>1. batch[t] \in Batches /\ at[t] \in Nat
      BY DEF IInv, TypeOK, ThreadsInv, Draining, FinishGrain
    <2>2. grain[batch[t]] \in Nat \ {0} /\ count[batch[t]] \in Nat
      BY <2>1, BoundsAssumption DEF IInv, TypeOK
    <2> QED  BY <2>1, <2>2 DEF ItemsOf
  <1>1. /\ b \in Batches /\ stage[b] = "batch" /\ pc[t] = "run"
        /\ k \in Nat /\ g \in Nat \ {0} /\ n \in Nat /\ cursor[b] \in Nat
        /\ pc \in [Threads -> WorkerLabels \cup MainLabels] /\ at \in [Threads -> Nat]
        /\ k < cursor[b]
    BY <1>0 DEF IInv, TypeOK, ThreadsInv, Draining, FinishGrain, GrainsAreOwned, Holding, Held
  <1>2. /\ at' = [at EXCEPT ![t] = 0] /\ pc' = [pc EXCEPT ![t] = "drain"]
        /\ UNCHANGED <<calls, batch, stage, count, grain, joined>>
    BY DEF FinishGrain, Goto
  <1>3. \A u \in Threads \ {t} : Runs(u, b) => at[u] # k
    BY <1>0, <1>1 DEF IInv, GrainsAreOwned, Holding, Held, Runs
  <1>4. /\ items \subseteq Items
        /\ \A i \in items : Called(b, i)
        /\ \A u \in Threads \ {t} : Runs(u, b) => ItemsOf(at[u], n, g) \cap items = {}
    <2>1. (k + 1) * g = k * g + g /\ (k + 1) * g <= cursor[b] * g
          /\ k * g \in Nat /\ cursor[b] * g \in Nat
      BY <1>1, MulNext, MulMonotone, k + 1 \in Nat
    <2>2. ASSUME NEW i \in items PROVE i \in Items /\ Called(b, i)
      <3>1. i \in Items /\ i < AtMost(k * g + g, n)  BY <1>0 DEF ItemsOf
      <3>2. i \in Nat  BY <3>1, BoundsAssumption DEF Items
      <3>3. i < AtMost(cursor[b] * g, n)
        BY <1>1, <2>1, <3>1, <3>2 DEF AtMost
      <3>4. calls[b][i] = 1
        BY <1>0, <1>1, <3>1, <3>3 DEF IInv, CallsFollowCursor
      <3> QED  BY <3>1, <3>4 DEF Called
    <2>3. ASSUME NEW u \in Threads \ {t}, Runs(u, b)
          PROVE  ItemsOf(at[u], n, g) \cap items = {}
      BY <1>0, <1>1, <1>3, <2>3, GrainsDisjoint DEF IInv, TypeOK
    <2> QED  BY <2>2, <2>3
  <1>5. \A x \in Batches : RunningItems(x)' =
           IF x = b THEN RunningItems(x) \ items ELSE RunningItems(x)
    <2> SUFFICES ASSUME NEW x \in Batches
                 PROVE  RunningItems(x)' =
                           IF x = b THEN RunningItems(x) \ items ELSE RunningItems(x)
      OBVIOUS
    <2>1. \A u \in Threads \ {t} : (Runs(u, x)' <=> Runs(u, x)) /\ at'[u] = at[u]
      BY <1>1, <1>2 DEF Runs
    <2>2. ~Runs(t, x)' /\ (Runs(t, x) <=> x = b)
      BY <1>0, <1>1, <1>2 DEF Runs
    <2>3. \A i : i \in RunningItems(x)' <=>
                    i \in RunningItems(x) /\ ~(x = b /\ i \in items)
      BY <1>0, <1>2, <1>4, <2>1, <2>2, RunningMember, RunningMemberNext
    <2> QED  BY <2>3
  <1>6. \A x \in Batches :
           /\ Todo(x)' = Todo(x)
           /\ Finished(x)' = IF x = b THEN Finished(x) \cup items ELSE Finished(x)
    BY <1>2, <1>4, <1>5 DEF Todo, Finished, Called
  <1>7. items \subseteq RunningItems(b)
    BY <1>0, <1>1, RunningMember DEF Runs
  <1>8. Work!Finish(b, items)
    BY <1>2, <1>5, <1>6, <1>7, IsFinish
  <1> QED  BY <1>1, <1>4, <1>8

\* A wait returns when nothing of its batch is left or under way.
LEMMA JoinRefines ==
    ASSUME IInv, LoadRemaining, remaining[batch[Main]] = 0
    PROVE  \E b \in Batches : Work!Join(b)
  <1> DEFINE b == batch[Main]
  <1>1. /\ b \in Batches /\ stage[b] \in {"inline", "batch"} /\ Main \in Threads
        /\ pc[Main] \in {"wait", "lockGroup"}
    BY DEF IInv, TypeOK, ThreadsInv, LoadRemaining, Threads
  <1>2. /\ pc' = [pc EXCEPT ![Main] = "idle"] /\ batch' = [batch EXCEPT ![Main] = NoBatch]
        /\ joined' = joined \cup {b}
        /\ UNCHANGED <<stage, count, grain, calls, at>>
    BY DEF LoadRemaining, WaitReturns, Goto
  <1>3. \A x \in Batches : RunningItems(x)' = RunningItems(x)
    <2> SUFFICES ASSUME NEW x \in Batches PROVE RunningItems(x)' = RunningItems(x)
      OBVIOUS
    <2>1. \A t \in Threads : Runs(t, x)' <=> Runs(t, x)
      BY <1>1, <1>2 DEF Runs, IInv, TypeOK
    <2> QED  BY <1>2, <2>1, RunningKept
  <1> HIDE DEF b
  <1>4. (\A i \in Items : i < count[b] => Called(b, i)) /\ \A t \in Threads : ~Runs(t, b)
    <2>1. CASE stage[b] = "inline"
      BY <1>1, <2>1, RunningOutside DEF IInv, StagesInv, Called
    <2>2. CASE stage[b] = "batch"
      BY <1>1, <2>2, ZeroIsDone DEF Runs, b
    <2> QED  BY <1>1, <2>1, <2>2
  <1>5. Todo(b) = {} /\ RunningItems(b) = {}
    BY <1>1, <1>4, RunningMember DEF Todo
  <1>6. Work!Join(b)
    BY <1>1, <1>2, <1>3, <1>5 DEF Work!Join, Todo, Finished, Asked, Called
  <1> QED  BY <1>1, <1>6

LEMMA InitRefines == Init => Work!Init
  <1> SUFFICES ASSUME Init PROVE Work!Init  OBVIOUS
  <1>1. /\ \A t \in Threads : pc[t] # "run"
        /\ \A b \in Batches : stage[b] = "unused" /\ \A i \in Items : calls[b][i] = 0
        /\ joined = {}
    BY DEF Init
  <1>2. \A b \in Batches : RunningItems(b) = {}
    BY <1>1, RunningMember DEF Runs
  <1>3. \A b \in Batches : Todo(b) = {} /\ Finished(b) = {}
    BY <1>1 DEF Todo, Finished, Called
  <1>4. Asked = {}  BY <1>1 DEF Asked
  <1> QED  BY <1>1, <1>2, <1>3, <1>4 DEF Work!Init, Todo, Finished

LEMMA StepRefines == IInv /\ [Next]_vars => [Work!Next]_(Work!vars)
  <1> SUFFICES ASSUME IInv, [Next]_vars PROVE [Work!Next]_(Work!vars)  OBVIOUS
  <1>1. ASSUME NEW b \in Batches, NEW n \in Counts, NEW p \in BOOLEAN,
               DispatchInline(b, n, p) \/ DispatchBatch(b, n, p)
        PROVE  Work!Next
    <2>1. {i \in Items : i < n} \in SUBSET Items  OBVIOUS
    <2> QED  BY <1>1, <2>1, InlineRefines, BatchRefines DEF Work!Next
  <1>2. ASSUME NEW t \in Threads, Claim(t)
        PROVE  [Work!Next]_(Work!vars)
    <2>1. CASE HasItems(cursor[batch[t]] * grain[batch[t]], count[batch[t]])
      BY <1>2, <2>1, ClaimRefines DEF Work!Next
    <2>2. CASE ~HasItems(cursor[batch[t]] * grain[batch[t]], count[batch[t]])
      <3>1. Silent  BY <1>2, <2>2 DEF Claim, Goto, Silent, IInv, TypeOK
      <3> QED  BY <3>1, SilentStutters
    <2> QED  BY <2>1, <2>2
  <1>3. ASSUME NEW t \in Threads, FinishGrain(t)
        PROVE  Work!Next
    BY <1>3, FinishRefines DEF Work!Next
  <1>4. CASE LoadRemaining /\ remaining[batch[Main]] = 0
    BY <1>4, JoinRefines DEF Work!Next
  <1>5. CASE \/ Initialize \/ SetStopping \/ WakeForStop \/ JoinWorkers \/ Enqueue
             \/ NotifyAll \/ NotifyOne
             \/ \E w \in Workers : WorkerLoop(w)
             \/ \E t \in Threads : Block(t) \/ SpuriousWake(t) \/ MarkDone(t) \/ NotifyGroup(t)
             \/ \E b \in Batches : CallWait(b)
             \/ LoadRemaining /\ remaining[batch[Main]] # 0
             \/ UNCHANGED vars
    BY <1>5, SilentSteps, SilentStutters
  <1> QED
    BY <1>1, <1>2, <1>3, <1>4, <1>5
    DEF Next, MainChooses, Dispatch, MainSteps, Drain, Rest

\* The threads, grains, Jobs and wait groups do no more than the job system
\* promises: every item of a range is started once and finished once, and a
\* range is joined only when none of it is left.  (DispatchRange, DrainBatch,
\* MarkDone, Wait)
THEOREM Refinement == Spec => ImplementsRangeWork
  BY InitRefines, StepRefines, Invariance, PTL DEF Spec, ImplementsRangeWork, Work!Spec
=============================================================================
