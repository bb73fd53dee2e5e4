------------------------- MODULE ModelStreamerProofs -------------------------
(***************************************************************************)
(* Proofs about ModelStreamer, for any number of paths, models, tasks and  *)
(* leases: IInv, and what it gives a ticket, LeasedModelStays and          *)
(* TicketsMoveForward.                                                     *)
(*                                                                         *)
(* The argument starts from the generations. One is given out with each    *)
(* preparation and is carried by one task or has been posted, so of the    *)
(* completions Pump takes in at most one is for a record, which enters the *)
(* queue of commits once (QueueIsExact). A record is its path's only one   *)
(* (RowsAreOwn), so a model is published under the id its record has; and  *)
(* since every lease is counted (LeasesAreCounted), what is recycled or    *)
(* dropped has none.                                                       *)
(*                                                                         *)
(* There is a lemma for each kind of change to a part of the state (the    *)
(* queue, the leases, the rows, the pool's tasks, the posts), one for each *)
(* action that puts them together, and Steps for all of them.              *)
(***************************************************************************)
EXTENDS ModelStreamer, FiniteSetTheorems, WellFoundedInduction, TLAPS

USE DEF repoVars, recordVars, postVars, mainVars, taskVars
-----------------------------------------------------------------------------
(* Sequences.                                                              *)

\* Well-foundedness of < is the library's form of induction that the provers can use.
LEMMA LeastNatural ==
    ASSUME NEW S, S \subseteq Nat, S # {}
    PROVE  \E m \in S : \A n \in S : m <= n
  <1> DEFINE R == OpToRel(<, Nat)
  <1>1. IsWellFoundedOn(R, Nat)
    BY NatLessThanWellFounded
  <1>2. \A x, y \in Nat : x < y => <<x, y>> \in R
    BY DEF OpToRel
  <1> HIDE DEF R
  <1>3. PICK m \in S : \A n \in S : <<n, m>> \notin R
    BY <1>1, WFMin
  <1>4. ASSUME NEW n \in S PROVE m <= n
    <2>1. n \in Nat /\ m \in Nat
      OBVIOUS
    <2>2. ~(n < m)
      BY <1>2, <1>3, <2>1
    <2> QED  BY <2>1, <2>2
  <1> QED  BY <1>4

\* Nobody is in the sequence twice.
Single(q) == \A a, b \in DOMAIN q : q[a] = q[b] => a = b

\* The places of two sequences one behind the other.
LEMMA ConcatFacts ==
    ASSUME NEW T, NEW a \in Seq(T), NEW b \in Seq(T)
    PROVE  /\ a \o b \in Seq(T) /\ Len(a \o b) = Len(a) + Len(b)
           /\ \A k \in 1 .. Len(a) : (a \o b)[k] = a[k]
           /\ \A k \in 1 .. Len(b) : (a \o b)[Len(a) + k] = b[k]
  <1>1. a \o b \in Seq(T) /\ Len(a \o b) = Len(a) + Len(b)
    OBVIOUS
  <1>2. \A k \in 1 .. Len(a) : (a \o b)[k] = a[k]
    OBVIOUS
  <1>3. \A k \in 1 .. Len(b) : (a \o b)[Len(a) + k] = b[k]
    OBVIOUS
  <1> QED  BY <1>1, <1>2, <1>3

\* The places of a part of a sequence.
LEMMA SubSeqFacts ==
    ASSUME NEW T, NEW q \in Seq(T), NEW m \in 1 .. Len(q) + 1, NEW n \in 0 .. Len(q), m <= n + 1
    PROVE  /\ SubSeq(q, m, n) \in Seq(T) /\ Len(SubSeq(q, m, n)) = n - m + 1
           /\ \A k \in 1 .. n - m + 1 : SubSeq(q, m, n)[k] = q[m + k - 1]
OBVIOUS

\* What taking an element out does to the places.
LEMMA RemoveAtFacts ==
    ASSUME NEW T, NEW q \in Seq(T), NEW at \in 1 .. Len(q)
    PROVE  LET u == RemoveAt(q, at) IN
           /\ u \in Seq(T) /\ Len(u) = Len(q) - 1
           /\ \A k \in 1 .. at - 1 : u[k] = q[k]
           /\ \A k \in at .. Len(q) - 1 : u[k] = q[k + 1]
  <1> DEFINE a == SubSeq(q, 1, at - 1)
             b == SubSeq(q, at + 1, Len(q))
             u == a \o b
  <1>1. a \in Seq(T) /\ Len(a) = at - 1
    BY SubSeqFacts
  <1>2. \A k \in 1 .. at - 1 : a[k] = q[k]
    OBVIOUS
  <1>3. b \in Seq(T) /\ Len(b) = Len(q) - at
    BY SubSeqFacts
  <1>4. \A k \in 1 .. Len(q) - at : b[k] = q[at + k]
    <2>1. \A k \in 1 .. Len(q) - (at + 1) + 1 : b[k] = q[at + 1 + k - 1]
      BY SubSeqFacts
    <2> HIDE DEF b
    <2> QED  BY <2>1
  <1> HIDE DEF a, b
  <1>5. /\ u \in Seq(T) /\ Len(u) = Len(a) + Len(b)
        /\ \A k \in 1 .. Len(a) : u[k] = a[k]
        /\ \A k \in 1 .. Len(b) : u[Len(a) + k] = b[k]
    <2>1. \A x, y \in Seq(T) :
             /\ x \o y \in Seq(T) /\ Len(x \o y) = Len(x) + Len(y)
             /\ \A k \in 1 .. Len(x) : (x \o y)[k] = x[k]
             /\ \A k \in 1 .. Len(y) : (x \o y)[Len(x) + k] = y[k]
      BY ConcatFacts
    <2>2. a \in Seq(T) /\ b \in Seq(T)
      BY <1>1, <1>3
    <2> QED  BY <2>1, <2>2, Zenon
  <1> HIDE DEF u
  <1>6. Len(u) = Len(q) - 1
    BY <1>1, <1>3, <1>5
  <1>7. \A k \in 1 .. at - 1 : u[k] = q[k]
    BY <1>1, <1>2, <1>5
  <1>8. ASSUME NEW k \in at .. Len(q) - 1 PROVE u[k] = q[k + 1]
    <2>1. PICK m \in 1 .. Len(q) - at : k = at - 1 + m
      <3>1. k - at + 1 \in 1 .. Len(q) - at /\ k = at - 1 + (k - at + 1)
        OBVIOUS
      <3> QED  BY <3>1
    <2>2. u[k] = b[m]
      BY <1>1, <1>3, <1>5, <2>1
    <2>3. b[m] = q[at + m] /\ at + m = k + 1
      BY <1>4, <2>1
    <2> QED  BY <2>2, <2>3
  <1> QED  BY <1>5, <1>6, <1>7, <1>8 DEF RemoveAt, u, a, b

\* What inserting an element does to the places.
LEMMA InsertAtFacts ==
    ASSUME NEW T, NEW q \in Seq(T), NEW at \in 1 .. Len(q) + 1, NEW e \in T
    PROVE  LET u == InsertAt(q, at, e) IN
           /\ u \in Seq(T) /\ Len(u) = Len(q) + 1
           /\ \A k \in 1 .. at - 1 : u[k] = q[k]
           /\ u[at] = e
           /\ \A k \in at + 1 .. Len(q) + 1 : u[k] = q[k - 1]
  <1> DEFINE a == SubSeq(q, 1, at - 1)
             b == SubSeq(q, at, Len(q))
             c == a \o <<e>>
             u == c \o b
  <1>1. a \in Seq(T) /\ Len(a) = at - 1
    BY SubSeqFacts
  <1>2. \A k \in 1 .. at - 1 : a[k] = q[k]
    OBVIOUS
  <1>3. b \in Seq(T) /\ Len(b) = Len(q) - at + 1
    BY SubSeqFacts
  <1>4. \A k \in 1 .. Len(q) - at + 1 : b[k] = q[at + k - 1]
    BY SubSeqFacts
  <1> HIDE DEF a, b
  <1>5. <<e>> \in Seq(T) /\ Len(<<e>>) = 1 /\ <<e>>[1] = e
    OBVIOUS
  <1>6. /\ c \in Seq(T) /\ Len(c) = at
        /\ \A k \in 1 .. at - 1 : c[k] = a[k]
        /\ c[at] = e
    <2>1. /\ c \in Seq(T) /\ Len(c) = Len(a) + Len(<<e>>)
          /\ \A k \in 1 .. Len(a) : c[k] = a[k]
          /\ \A k \in 1 .. Len(<<e>>) : c[Len(a) + k] = <<e>>[k]
      BY <1>1, <1>5, ConcatFacts
    <2> HIDE DEF c
    <2>2. Len(c) = at /\ c[at] = e
      BY <1>1, <1>5, <2>1
    <2> QED  BY <1>1, <2>1, <2>2
  <1> HIDE DEF c
  <1>7. /\ u \in Seq(T) /\ Len(u) = Len(c) + Len(b)
        /\ \A k \in 1 .. Len(c) : u[k] = c[k]
        /\ \A k \in 1 .. Len(b) : u[Len(c) + k] = b[k]
    <2>1. \A x, y \in Seq(T) :
             /\ x \o y \in Seq(T) /\ Len(x \o y) = Len(x) + Len(y)
             /\ \A k \in 1 .. Len(x) : (x \o y)[k] = x[k]
             /\ \A k \in 1 .. Len(y) : (x \o y)[Len(x) + k] = y[k]
      BY ConcatFacts
    <2>2. c \in Seq(T) /\ b \in Seq(T)
      BY <1>3, <1>6
    <2> QED  BY <2>1, <2>2, Zenon
  <1> HIDE DEF u
  <1>8. Len(u) = Len(q) + 1
    BY <1>3, <1>6, <1>7
  <1>9. (\A k \in 1 .. at - 1 : u[k] = q[k]) /\ u[at] = e
    BY <1>2, <1>6, <1>7
  <1>10. ASSUME NEW k \in at + 1 .. Len(q) + 1 PROVE u[k] = q[k - 1]
    <2>1. PICK m \in 1 .. Len(q) - at + 1 : k = at + m
      <3>1. k - at \in 1 .. Len(q) - at + 1 /\ k = at + (k - at)
        OBVIOUS
      <3> QED  BY <3>1
    <2>2. u[k] = b[m]
      BY <1>3, <1>6, <1>7, <2>1
    <2>3. b[m] = q[at + m - 1] /\ at + m - 1 = k - 1
      BY <1>4, <2>1
    <2> QED  BY <2>2, <2>3
  <1> QED  BY <1>7, <1>8, <1>9, <1>10 DEF InsertAt, u, c, a, b

-----------------------------------------------------------------------------
(* The commit queue.                                                       *)

\* A place for a record of a priority is found in every queue.
LEMMA PlaceFacts ==
    ASSUME TypeOK, NEW q \in Seq(Ids), NEW priority \in Nat
    PROVE  LET at == Place(q, priority) IN
           /\ at \in 1 .. Len(q) + 1
           /\ \A k \in 1 .. at - 1 : records[q[k]].priority >= priority
           /\ at <= Len(q) => records[q[at]].priority < priority
  <1> DEFINE Lower == {k \in 1 .. Len(q) : records[q[k]].priority < priority}
             S == Lower \cup {Len(q) + 1}
  <1>1. \A k \in 1 .. Len(q) : q[k] \in Ids /\ records[q[k]].priority \in Nat
    BY DEF TypeOK, Records
  <1>2. PICK at \in S : \A n \in S : at <= n
    <2>1. S \subseteq Nat /\ S # {}
      OBVIOUS
    <2> QED  BY <2>1, LeastNatural
  <1>3. at \in 1 .. Len(q) + 1
    OBVIOUS
  <1>4. ASSUME NEW k \in 1 .. at - 1 PROVE records[q[k]].priority >= priority
    <2>1. k \notin S /\ k \in 1 .. Len(q)
      BY <1>2, <1>3
    <2> QED  BY <1>1, <2>1
  <1>5. at <= Len(q) => records[q[at]].priority < priority
    BY <1>2
  <1>6. \E x \in 1 .. Len(q) + 1 :
           /\ \A k \in 1 .. x - 1 : records[q[k]].priority >= priority
           /\ x <= Len(q) => records[q[x]].priority < priority
    BY <1>3, <1>4, <1>5
  <1> QED  BY <1>6 DEF Place

\* Inserting a record keeps the queue single and by priority.
LEMMA Inserted ==
    ASSUME TypeOK, NEW q \in Seq(Ids), Single(q), NEW i \in Ids, i \notin ToSet(q),
           NEW priority \in Nat,
           \A a, b \in DOMAIN q : a < b => records[q[a]].priority >= records[q[b]].priority
    PROVE  LET u == Insert(q, i, priority)
               P(j) == IF j = i THEN priority ELSE records[j].priority
           IN /\ u \in Seq(Ids) /\ Single(u)
              /\ ToSet(u) = ToSet(q) \cup {i}
              /\ \A a, b \in DOMAIN u : a < b => P(u[a]) >= P(u[b])
  <1> DEFINE at == Place(q, priority)
             u == InsertAt(q, at, i)
             P(j) == IF j = i THEN priority ELSE records[j].priority
             n == Len(q)
  <1>1. /\ at \in 1 .. n + 1
        /\ \A k \in 1 .. at - 1 : records[q[k]].priority >= priority
        /\ at <= n => records[q[at]].priority < priority
    BY PlaceFacts
  <1> HIDE DEF at
  <1>2. /\ u \in Seq(Ids) /\ Len(u) = n + 1
        /\ \A k \in 1 .. at - 1 : u[k] = q[k]
        /\ u[at] = i
        /\ \A k \in at + 1 .. n + 1 : u[k] = q[k - 1]
    BY <1>1, InsertAtFacts
  <1> HIDE DEF u
  <1>3. n \in Nat /\ DOMAIN q = 1 .. n /\ DOMAIN u = 1 .. n + 1
    BY <1>2
  <1>4. \A k \in 1 .. n : q[k] \in Ids /\ q[k] # i /\ records[q[k]].priority \in Nat
    BY DEF TypeOK, Records, ToSet
  <1> HIDE DEF n
  <1> DEFINE o(k) == IF k < at THEN k ELSE k - 1
  <1>5. ASSUME NEW k \in 1 .. n + 1, k # at
        PROVE  o(k) \in 1 .. n /\ u[k] = q[o(k)] /\ u[k] # i /\ P(u[k]) = records[q[o(k)]].priority
    <2>1. o(k) \in 1 .. n
      BY <1>1, <1>3, <1>5
    <2>2. u[k] = q[o(k)]
      BY <1>1, <1>2, <1>3, <1>5
    <2> QED  BY <1>4, <2>1, <2>2
  <1>6. \A j, k \in 1 .. n + 1 : j # at /\ k # at => (j < k <=> o(j) < o(k)) /\ (o(j) = o(k) => j = k)
    BY <1>1, <1>3
  <1>7. Single(u)
    <2>1. ASSUME NEW j \in 1 .. n + 1, NEW k \in 1 .. n + 1, u[j] = u[k] PROVE j = k
      <3>1. CASE j = at \/ k = at
        BY <1>2, <1>5, <2>1, <3>1
      <3>2. CASE j # at /\ k # at
        <4>1. /\ o(j) \in 1 .. n /\ u[j] = q[o(j)]
              /\ o(k) \in 1 .. n /\ u[k] = q[o(k)]
          BY <1>5, <3>2
        <4>2. o(j) = o(k)
          <5> HIDE DEF o
          <5> QED  BY <1>3, <2>1, <4>1 DEF Single
        <4> QED  BY <1>6, <3>2, <4>2
      <3> QED  BY <3>1, <3>2
    <2> QED  BY <1>3, <2>1 DEF Single
  <1>8. ToSet(u) = ToSet(q) \cup {i}
    <2>1. ASSUME NEW k \in 1 .. n + 1 PROVE u[k] \in ToSet(q) \cup {i}
      <3>1. CASE k = at
        BY <1>2, <3>1
      <3>2. CASE k # at
        <4>1. o(k) \in 1 .. n /\ u[k] = q[o(k)]
          BY <1>5, <3>2
        <4> HIDE DEF o
        <4> QED  BY <1>3, <4>1 DEF ToSet
      <3> QED  BY <3>1, <3>2
    <2>2. ASSUME NEW k \in 1 .. n PROVE \E j \in 1 .. n + 1 : u[j] = q[k]
      <3>1. CASE k < at
        BY <1>1, <1>2, <1>3, <3>1
      <3>2. CASE ~(k < at)
        <4>1. k + 1 \in at + 1 .. n + 1 /\ k + 1 \in 1 .. n + 1 /\ k + 1 - 1 = k
          BY <1>1, <1>3, <3>2
        <4>2. u[k + 1] = q[k]
          BY <1>2, <4>1
        <4> QED  BY <4>1, <4>2
      <3> QED  BY <3>1, <3>2
    <2>3. i \in ToSet(u)
      BY <1>1, <1>2, <1>3 DEF ToSet
    <2> QED  BY <1>3, <2>1, <2>2, <2>3 DEF ToSet
  <1>9. ASSUME NEW j \in 1 .. n + 1, NEW k \in 1 .. n + 1, j < k PROVE P(u[j]) >= P(u[k])
    <2>1. CASE j # at /\ k # at
      <3>1. o(j) < o(k)
        BY <1>6, <1>9, <2>1
      <3>2. /\ o(j) \in 1 .. n /\ P(u[j]) = records[q[o(j)]].priority
            /\ o(k) \in 1 .. n /\ P(u[k]) = records[q[o(k)]].priority
        BY <1>5, <2>1
      <3> HIDE DEF o, P
      <3> QED  BY <1>3, <3>1, <3>2
    <2>2. CASE k = at
      <3>1. j \in 1 .. at - 1 /\ o(j) = j
        BY <1>1, <1>3, <1>9, <2>2
      <3>2. P(u[j]) = records[q[j]].priority
        BY <1>5, <2>2, <3>1
      <3>3. P(u[k]) = priority
        BY <1>2, <2>2
      <3> QED  BY <1>1, <3>1, <3>2, <3>3
    <2>3. CASE j = at
      <3>1. k \in at + 1 .. n + 1 /\ o(k) = k - 1 /\ k - 1 \in 1 .. n /\ at <= n /\ at <= k - 1
        BY <1>1, <1>3, <1>9, <2>3
      <3>2. P(u[k]) = records[q[k - 1]].priority
        BY <1>5, <2>3, <3>1
      <3>3. P(u[j]) = priority
        BY <1>2, <2>3
      <3>4. records[q[at]].priority < priority
        BY <1>1, <3>1
      <3>5. records[q[at]].priority >= records[q[k - 1]].priority
        BY <1>1, <1>3, <1>4, <3>1
      <3>6. records[q[at]].priority \in Nat /\ records[q[k - 1]].priority \in Nat /\ priority \in Nat
        BY <1>1, <1>4, <3>1
      <3> QED  BY <3>2, <3>3, <3>4, <3>5, <3>6
    <2> QED  BY <2>1, <2>2, <2>3
  <1>10. \A a, b \in DOMAIN u : a < b => P(u[a]) >= P(u[b])
    BY <1>3, <1>9
  <1> QED  BY <1>2, <1>7, <1>8, <1>10 DEF Insert, u, at

\* Taking a record out keeps the order of the others.
LEMMA TakenOut ==
    ASSUME NEW q \in Seq(Ids), Single(q), NEW at \in DOMAIN q
    PROVE  LET u == RemoveAt(q, at) IN
           /\ u \in Seq(Ids) /\ Single(u)
           /\ ToSet(u) = ToSet(q) \ {q[at]}
           /\ \A a, b \in DOMAIN u : a < b =>
                 \E c, d \in DOMAIN q : c < d /\ u[a] = q[c] /\ u[b] = q[d]
  <1> DEFINE u == RemoveAt(q, at)
             n == Len(q)
             o(k) == IF k < at THEN k ELSE k + 1
  <1>1. /\ u \in Seq(Ids) /\ Len(u) = n - 1
        /\ \A k \in 1 .. at - 1 : u[k] = q[k]
        /\ \A k \in at .. n - 1 : u[k] = q[k + 1]
    <2>1. at \in 1 .. Len(q)
      OBVIOUS
    <2> HIDE DEF o
    <2> QED  BY <2>1, RemoveAtFacts DEF u, n
  <1> HIDE DEF u
  <1>2. n \in Nat /\ at \in 1 .. n /\ DOMAIN q = 1 .. n /\ DOMAIN u = 1 .. n - 1
    BY <1>1
  <1> HIDE DEF n
  <1>3. ASSUME NEW k \in 1 .. n - 1 PROVE o(k) \in 1 .. n /\ o(k) # at /\ u[k] = q[o(k)]
    BY <1>1, <1>2
  <1>4. \A j, k \in 1 .. n - 1 : (j < k => o(j) < o(k)) /\ (o(j) = o(k) => j = k)
    BY <1>2
  <1>5. ASSUME NEW k \in 1 .. n, k # at PROVE \E j \in 1 .. n - 1 : u[j] = q[k]
    <2>1. CASE k < at
      BY <1>1, <1>2, <2>1
    <2>2. CASE ~(k < at)
      <3>1. k - 1 \in at .. n - 1 /\ k - 1 \in 1 .. n - 1 /\ k - 1 + 1 = k
        BY <1>2, <1>5, <2>2
      <3>2. u[k - 1] = q[k]
        BY <1>1, <3>1
      <3> QED  BY <3>1, <3>2
    <2> QED  BY <2>1, <2>2
  <1> HIDE DEF o
  <1>6. Single(u)
    BY <1>2, <1>3, <1>4 DEF Single
  <1>7. ToSet(u) = ToSet(q) \ {q[at]}
    <2>1. \A k \in 1 .. n : q[k] = q[at] => k = at
      BY <1>2 DEF Single
    <2>2. ASSUME NEW k \in 1 .. n - 1 PROVE u[k] \in ToSet(q) /\ u[k] # q[at]
      BY <1>2, <1>3, <2>1 DEF ToSet
    <2>3. ASSUME NEW k \in 1 .. n, q[k] # q[at] PROVE q[k] \in ToSet(u)
      BY <1>2, <1>5, <2>3 DEF ToSet
    <2>4. \A x : x \in ToSet(u) => x \in ToSet(q) /\ x # q[at]
      BY <1>2, <2>2 DEF ToSet
    <2>5. \A x : x \in ToSet(q) /\ x # q[at] => x \in ToSet(u)
      BY <1>2, <2>3 DEF ToSet
    <2> QED  BY <2>4, <2>5
  <1>8. \A a, b \in DOMAIN u : a < b =>
           \E c, d \in DOMAIN q : c < d /\ u[a] = q[c] /\ u[b] = q[d]
    BY <1>2, <1>3, <1>4
  <1> QED  BY <1>1, <1>6, <1>7, <1>8 DEF u

\* Pump takes the queue's head as Acquire takes a record out of its middle.
LEMMA TailTakesOut ==
    ASSUME NEW q \in Seq(Ids), q # <<>>
    PROVE  1 \in DOMAIN q /\ Head(q) = q[1] /\ Tail(q) = RemoveAt(q, 1)
  <1>1. 1 \in DOMAIN q /\ Head(q) = q[1]
    OBVIOUS
  <1>2. Tail(q) = SubSeq(q, 1, 1 - 1) \o SubSeq(q, 1 + 1, Len(q))
    OBVIOUS
  <1> QED  BY <1>1, <1>2 DEF RemoveAt

\* A queue of records is ordered by their priorities.
InOrder(q) == \A a, b \in DOMAIN q : a < b => records[q[a]].priority >= records[q[b]].priority

\* The queue without one of its records.
LEMMA QueueWithout ==
    ASSUME TypeOK, QueueIsExact, NEW at \in DOMAIN queue
    PROVE  LET q == RemoveAt(queue, at) IN
           /\ queue[at] \in Ids /\ records[queue[at]].queued
           /\ q \in Seq(Ids) /\ Single(q) /\ InOrder(q)
           /\ ToSet(q) = {i \in Ids : records[i].queued} \ {queue[at]}
  <1>1. queue \in Seq(Ids) /\ Single(queue) /\ InOrder(queue)
    BY DEF TypeOK, QueueIsExact, Single, InOrder
  <1>2. queue[at] \in ToSet(queue)
    BY DEF ToSet
  <1> DEFINE q == RemoveAt(queue, at)
  <1>3. /\ q \in Seq(Ids) /\ Single(q)
        /\ ToSet(q) = ToSet(queue) \ {queue[at]}
        /\ \A a, b \in DOMAIN q : a < b =>
              \E c, d \in DOMAIN queue : c < d /\ q[a] = queue[c] /\ q[b] = queue[d]
    BY <1>1, TakenOut
  <1> HIDE DEF q
  <1>4. InOrder(q)
    BY <1>1, <1>3 DEF InOrder
  <1> QED  BY <1>2, <1>3, <1>4 DEF QueueIsExact, q

\* The second part of QueueIsExact, which does not speak of the queue.
QueuedByPhase == \A i \in Ids : records[i].queued <=> records[i].phase \in {"textures", "model"}

\* What leaves the queue alone, and the priorities of what is queued.
LEMMA QueueKept ==
    ASSUME TypeOK, QueueIsExact, queue' = queue, QueuedByPhase',
           \A i \in Ids : records'[i].queued <=> records[i].queued,
           \A i \in Ids : records[i].queued => records'[i].priority = records[i].priority
    PROVE  QueueIsExact'
  <1>1. \A a \in DOMAIN queue : queue[a] \in Ids /\ records[queue[a]].queued
    BY DEF TypeOK, QueueIsExact, ToSet
  <1>2. {i \in Ids : records'[i].queued} = {i \in Ids : records[i].queued}
    OBVIOUS
  <1> QED  BY <1>1, <1>2 DEF QueueIsExact, QueuedByPhase

\* A record leaves the queue.
LEMMA QueueLoses ==
    ASSUME TypeOK, QueueIsExact, QueuedByPhase',
           NEW at \in DOMAIN queue, queue' = RemoveAt(queue, at), ~records'[queue[at]].queued,
           \A j \in Ids \ {queue[at]} : records'[j] = records[j]
    PROVE  QueueIsExact' /\ queue' \in Seq(Ids)
  <1>1. /\ queue[at] \in Ids /\ records[queue[at]].queued
        /\ queue' \in Seq(Ids) /\ Single(queue') /\ InOrder(queue')
        /\ ToSet(queue') = {i \in Ids : records[i].queued} \ {queue[at]}
    BY QueueWithout
  <1>2. {i \in Ids : records'[i].queued} = {i \in Ids : records[i].queued} \ {queue[at]}
    OBVIOUS
  <1>3. \A a \in DOMAIN queue' : queue'[a] \in Ids \ {queue[at]}
    BY <1>1 DEF ToSet
  <1>4. \A a \in DOMAIN queue' : records'[queue'[a]] = records[queue'[a]]
    BY <1>3
  <1> QED  BY <1>1, <1>2, <1>4 DEF QueueIsExact, QueuedByPhase, Single, InOrder

\* A record is queued again, at the priority it has now.
LEMMA QueueMoves ==
    ASSUME TypeOK, QueueIsExact, QueuedByPhase',
           NEW at \in DOMAIN queue, NEW priority \in Nat,
           queue' = Insert(RemoveAt(queue, at), queue[at], priority),
           records'[queue[at]].queued, records'[queue[at]].priority = priority,
           \A j \in Ids \ {queue[at]} :
               /\ records'[j].queued = records[j].queued
               /\ records[j].queued => records'[j].priority = records[j].priority
    PROVE  QueueIsExact' /\ queue' \in Seq(Ids)
  <1> DEFINE i == queue[at]
             q == RemoveAt(queue, at)
             P(j) == IF j = i THEN priority ELSE records[j].priority
  <1>1. /\ i \in Ids /\ records[i].queued
        /\ q \in Seq(Ids) /\ Single(q) /\ InOrder(q)
        /\ ToSet(q) = {j \in Ids : records[j].queued} \ {i}
    BY QueueWithout
  <1> HIDE DEF q, i
  <1>2. i \notin ToSet(q)
    BY <1>1
  <1>3. /\ Insert(q, i, priority) \in Seq(Ids) /\ Single(Insert(q, i, priority))
        /\ ToSet(Insert(q, i, priority)) = ToSet(q) \cup {i}
        /\ \A a, b \in DOMAIN Insert(q, i, priority) :
              a < b => P(Insert(q, i, priority)[a]) >= P(Insert(q, i, priority)[b])
    BY <1>1, <1>2, Inserted DEF InOrder
  <1>4. /\ queue' \in Seq(Ids) /\ Single(queue') /\ ToSet(queue') = ToSet(q) \cup {i}
        /\ \A a, b \in DOMAIN queue' : a < b => P(queue'[a]) >= P(queue'[b])
    BY <1>3 DEF q, i
  <1>5. records'[i].queued /\ records'[i].priority = priority
        /\ \A j \in Ids \ {i} :
              /\ records'[j].queued = records[j].queued
              /\ records[j].queued => records'[j].priority = records[j].priority
    BY DEF i
  <1>6. {j \in Ids : records'[j].queued} = ToSet(q) \cup {i}
    BY <1>1, <1>5
  <1>7. \A a \in DOMAIN queue' : P(queue'[a]) = records'[queue'[a]].priority
    <2>1. \A j \in ToSet(queue') : j \in Ids /\ (j = i \/ records[j].queued)
      BY <1>1, <1>4
    <2>2. \A j \in ToSet(queue') : P(j) = records'[j].priority
      BY <1>5, <2>1
    <2> QED  BY <2>2 DEF ToSet
  <1> HIDE DEF P
  <1>8. \A a, b \in DOMAIN queue' :
           a < b => records'[queue'[a]].priority >= records'[queue'[b]].priority
    BY <1>4, <1>7
  <1> QED  BY <1>4, <1>6, <1>8 DEF QueueIsExact, QueuedByPhase, Single

-----------------------------------------------------------------------------
(* The leases.                                                             *)

\* The first part of LeasedModelStays, which every step keeps by itself.
TicketsFit == \A l \in Held : RecordOf(l).gen = leases[l].gen

\* A record has finitely many leases.
LEMMA HeldByFinite ==
    ASSUME NEW i
    PROVE  /\ IsFiniteSet(LeasesOf(i)) /\ Cardinality(LeasesOf(i)) \in Nat
           /\ Cardinality(LeasesOf(i)) = 0 <=> LeasesOf(i) = {}
  <1>1. IsFiniteSet(LeaseIds)
    BY FS_Interval, StreamerAssumption DEF LeaseIds
  <1>2. LeasesOf(i) \subseteq LeaseIds
    BY DEF LeasesOf, Held
  <1> QED  BY <1>1, <1>2, FS_Subset, FS_CardinalityType, FS_EmptySet

\* What leaves the leases alone, and drops no record that is leased.
LEMMA LeasesKept ==
    ASSUME TypeOK, LeasesAreCounted, LeasesFit, TicketsFit, UNCHANGED <<leases, nextLease>>,
           \A i \in Ids : records'[i].leases = records[i].leases,
           \A i \in Ids : records[i].leases # 0 /\ records[i].phase # "none" =>
               records'[i].phase # "none" /\ records'[i].gen = records[i].gen
    PROVE  LeasesAreCounted' /\ LeasesFit' /\ TicketsFit'
  <1>1. Held' = Held /\ \A i : LeasesOf(i)' = LeasesOf(i)
    BY DEF Held, LeasesOf
  <1>2. LeasesAreCounted'
    BY <1>1 DEF LeasesAreCounted
  <1>3. ASSUME NEW l \in Held
        PROVE  /\ leases[l].record \in Known /\ leases[l].record \in Ids
               /\ records[leases[l].record].leases # 0
    <2>1. leases[l].record \in Known /\ leases[l].record \in Ids
      BY DEF LeasesFit, Known
    <2>2. LeasesOf(leases[l].record) # {}
      BY DEF LeasesOf
    <2> QED  BY <2>1, <2>2, HeldByFinite DEF LeasesAreCounted
  <1>4. LeasesFit'
    BY <1>1, <1>3 DEF LeasesFit, Known
  <1>5. TicketsFit'
    BY <1>1, <1>3 DEF TicketsFit, RecordOf, Known
  <1> QED  BY <1>2, <1>4, <1>5

\* A lease is granted.
LEMMA LeaseGranted ==
    ASSUME TypeOK, LeasesAreCounted, LeasesFit, TicketsFit,
           NEW i \in Ids, NEW r, r.leases = records[i].leases, r.gen \in Nat, r.phase # "none",
           r.gen = records[i].gen \/ records[i].leases = 0,
           nextLease \in LeaseIds, Grant(i, r), r \in Records
    PROVE  /\ LeasesAreCounted' /\ LeasesFit' /\ TicketsFit'
           /\ leases' \in [LeaseIds -> [record : Ids \cup {None}, gen : Nat]]
           /\ nextLease' \in Nat
  <1>1. /\ leases' = [leases EXCEPT ![nextLease] = [record |-> i, gen |-> r.gen]]
        /\ nextLease' = nextLease + 1
        /\ nextLease \notin Held /\ nextLease \in Nat /\ LeaseIds \subseteq Nat
        /\ leases \in [LeaseIds -> [record : Ids \cup {None}, gen : Nat]]
    BY DEF Grant, LeasesFit, TypeOK, LeaseIds
  <1>2. /\ records' \in [Ids -> Records]
        /\ records'[i].phase = r.phase /\ records'[i].gen = r.gen
        /\ records'[i].leases = records[i].leases + 1
        /\ \A j \in Ids \ {i} : records'[j] = records[j]
    <2>1. records \in [Ids -> Records] /\ records' = [records EXCEPT ![i] = [r EXCEPT !.leases = @ + 1]]
      BY DEF Grant, TypeOK
    <2>2. [r EXCEPT !.leases = @ + 1] \in Records /\ r.leases \in Nat
      BY DEF Records
    <2>3. /\ [r EXCEPT !.leases = @ + 1].phase = r.phase /\ [r EXCEPT !.leases = @ + 1].gen = r.gen
          /\ [r EXCEPT !.leases = @ + 1].leases = r.leases + 1
      BY DEF Records
    <2> HIDE DEF Records
    <2> QED  BY <2>1, <2>2, <2>3
  <1>3. i # None
    BY DEF Ids, None
  <1>4. /\ Held' = Held \cup {nextLease}
        /\ leases'[nextLease] = [record |-> i, gen |-> r.gen]
        /\ \A l \in Held : leases'[l] = leases[l] /\ l # nextLease
    BY <1>1, <1>3 DEF Held, NoLease
  <1>5. LeasesOf(i)' = LeasesOf(i) \cup {nextLease} /\ nextLease \notin LeasesOf(i)
    BY <1>1, <1>4 DEF LeasesOf
  <1>6. \A j \in Ids \ {i} : LeasesOf(j)' = LeasesOf(j)
    BY <1>4 DEF LeasesOf
  <1>7. Cardinality(LeasesOf(i)') = Cardinality(LeasesOf(i)) + 1
    BY <1>5, HeldByFinite, FS_AddElement
  <1>8. LeasesAreCounted'
    BY <1>2, <1>6, <1>7 DEF LeasesAreCounted
  <1>9. LeasesFit'
    <2>1. \A l \in LeaseIds : l >= nextLease' => l \notin Held'
      BY <1>1, <1>4 DEF LeasesFit
    <2>2. \A l \in Held' : leases'[l].record \in Known'
      BY <1>2, <1>4 DEF LeasesFit, Known
    <2> QED  BY <2>1, <2>2 DEF LeasesFit
  <1>10. TicketsFit'
    <2>1. ASSUME NEW l \in Held PROVE records'[leases'[l].record].gen = leases'[l].gen
      <3>1. leases[l].record \in Ids /\ records[leases[l].record].gen = leases[l].gen
        BY DEF LeasesFit, Known, TicketsFit, RecordOf
      <3>2. CASE leases[l].record # i
        BY <1>2, <1>4, <3>1, <3>2
      <3>3. CASE leases[l].record = i
        <4>1. l \in LeasesOf(i)
          BY <3>3 DEF LeasesOf
        <4>2. records[i].leases # 0
          BY <4>1, HeldByFinite DEF LeasesAreCounted
        <4> QED  BY <1>2, <1>4, <3>1, <3>3, <4>2
      <3> QED  BY <3>2, <3>3
    <2> QED  BY <1>2, <1>4, <2>1 DEF TicketsFit, RecordOf
  <1>11. leases' \in [LeaseIds -> [record : Ids \cup {None}, gen : Nat]] /\ nextLease' \in Nat
    BY <1>1
  <1> QED  BY <1>8, <1>9, <1>10, <1>11

\* A lease is given back; the record goes only with its last.
LEMMA LeaseReturned ==
    ASSUME TypeOK, LeasesAreCounted, LeasesFit, TicketsFit,
           NEW l \in Held, NEW i, i = leases[l].record,
           leases' = [leases EXCEPT ![l] = NoLease], nextLease' = nextLease,
           records'[i].leases = records[i].leases - 1,
           \A j \in Ids \ {i} : records'[j] = records[j],
           records'[i].leases # 0 => records'[i].phase # "none" /\ records'[i].gen = records[i].gen
    PROVE  /\ LeasesAreCounted' /\ LeasesFit' /\ TicketsFit'
           /\ leases' \in [LeaseIds -> [record : Ids \cup {None}, gen : Nat]]
  <1>1. /\ leases \in [LeaseIds -> [record : Ids \cup {None}, gen : Nat]] /\ l \in LeaseIds
        /\ i \in Known /\ i \in Ids
    BY DEF TypeOK, Held, LeasesFit, Known
  <1>2. Held' = Held \ {l} /\ \A k \in Held \ {l} : leases'[k] = leases[k]
    BY <1>1 DEF Held
  <1>3. LeasesOf(i)' = LeasesOf(i) \ {l} /\ l \in LeasesOf(i)
    BY <1>2 DEF LeasesOf
  <1>4. \A j \in Ids \ {i} : LeasesOf(j)' = LeasesOf(j)
    BY <1>2 DEF LeasesOf
  <1>5. Cardinality(LeasesOf(i)') = Cardinality(LeasesOf(i)) - 1
    BY <1>3, HeldByFinite, FS_RemoveElement
  <1>6. LeasesAreCounted'
    BY <1>1, <1>4, <1>5 DEF LeasesAreCounted
  <1>7. ASSUME NEW k \in Held'
        PROVE  /\ leases'[k] = leases[k] /\ k \in Held /\ leases[k].record \in Ids
               /\ records'[leases[k].record].phase # "none"
               /\ records'[leases[k].record].gen = records[leases[k].record].gen
    <2>1. leases'[k] = leases[k] /\ k \in Held /\ k # l
      BY <1>2
    <2>2. leases[k].record \in Known /\ leases[k].record \in Ids
      BY <2>1 DEF LeasesFit, Known
    <2>3. CASE leases[k].record # i
      BY <2>1, <2>2, <2>3 DEF Known
    <2>4. CASE leases[k].record = i
      <3>1. k \in LeasesOf(i)'
        BY <2>1, <2>4 DEF LeasesOf
      <3>2. IsFiniteSet(LeasesOf(i)')
        BY <1>3, HeldByFinite, FS_RemoveElement
      <3>3. Cardinality(LeasesOf(i)') # 0
        BY <3>1, <3>2, FS_EmptySet
      <3> QED  BY <1>1, <1>6, <2>1, <2>2, <2>4, <3>3 DEF LeasesAreCounted
    <2> QED  BY <2>1, <2>2, <2>3, <2>4
  <1>8. LeasesFit'
    <2>1. \A k \in LeaseIds : k >= nextLease' => k \notin Held'
      BY <1>2 DEF LeasesFit
    <2> QED  BY <1>7, <2>1 DEF LeasesFit, Known
  <1>9. TicketsFit'
    BY <1>7 DEF TicketsFit, RecordOf
  <1>10. leases' \in [LeaseIds -> [record : Ids \cup {None}, gen : Nat]]
    BY <1>1 DEF NoLease
  <1> QED  BY <1>6, <1>8, <1>9, <1>10

-----------------------------------------------------------------------------
(* The repository's rows.                                                  *)

\* What leaves the rows alone and makes no record.
LEMMA RowsKept ==
    ASSUME RowsAreOwn, UNCHANGED <<rows, nextModel>>,
           \A i \in Ids : records'[i].phase # "none" =>
               records[i].phase # "none" /\ records'[i].path = records[i].path
    PROVE  RowsAreOwn'
BY DEF RowsAreOwn, Known

\* Rows are erased of records that go.
LEMMA RowsErased ==
    ASSUME TypeOK, RowsAreOwn, NEW gone, NEW ids,
           rows' = RowsWithout(gone, ids), nextModel' = nextModel,
           \A i \in Ids : records'[i].phase # "none" =>
               /\ records[i].phase # "none" /\ records'[i].path = records[i].path
               /\ i \notin gone /\ i \notin ids
    PROVE  RowsAreOwn' /\ rows' \in [Paths -> Ids \cup {None}]
  <1>1. /\ rows \in [Paths -> Ids \cup {None}] /\ nextModel \in Nat
        /\ \A p \in Paths : rows'[p] = rows[p] \/ rows'[p] = None
        /\ \A p \in Paths : rows[p] \notin gone /\ rows[p] \notin ids => rows'[p] = rows[p]
        /\ rows' \in [Paths -> Ids \cup {None}]
    BY DEF TypeOK, RowsWithout
  <1>2. ASSUME NEW i \in Known' PROVE records'[i].path \in Paths /\ rows'[records'[i].path] = i
    BY <1>1 DEF Known, RowsAreOwn
  <1>3. \A p, q \in Paths : rows'[p] = rows'[q] /\ rows'[p] # None => p = q
    BY <1>1 DEF RowsAreOwn
  <1>4. \A p \in Paths : rows'[p] < nextModel'
    <2>1. ASSUME NEW p \in Paths PROVE rows'[p] < nextModel'
      <3>1. rows[p] < nextModel /\ rows[p] \in Nat /\ nextModel \in Nat /\ None = 0
        BY <1>1 DEF RowsAreOwn, Ids, None
      <3> QED  BY <1>1, <3>1
    <2> QED  BY <2>1
  <1> QED  BY <1>1, <1>2, <1>3, <1>4 DEF RowsAreOwn

\* A path gets its row; no record but that row's can become the path's.
LEMMA RowsReserved ==
    ASSUME TypeOK, RowsAreOwn, NEW p \in Paths, ReserveIdentity(p),
           \A i \in Ids : records'[i].phase # "none" =>
               \/ records[i].phase # "none" /\ records'[i].path = records[i].path
               \/ i = IdFor(p) /\ records'[i].path = p
    PROVE  /\ RowsAreOwn' /\ rows' \in [Paths -> Ids \cup {None}] /\ nextModel' \in Nat
  <1>1. /\ rows \in [Paths -> Ids \cup {None}] /\ nextModel \in Nat /\ Ids \subseteq Nat
        /\ None = 0 /\ None \notin Ids /\ IdFor(p) \in Ids
        /\ rows' = [rows EXCEPT ![p] = IdFor(p)]
        /\ rows[p] # None => IdFor(p) = rows[p] /\ nextModel' = nextModel
        /\ rows[p] = None => IdFor(p) = nextModel /\ nextModel' = nextModel + 1
    BY DEF TypeOK, ReserveIdentity, IdFor, Ids, None
  <1>2. rows' \in [Paths -> Ids \cup {None}] /\ nextModel' \in Nat
    BY <1>1
  <1>3. \A q \in Paths : rows[q] < nextModel /\ rows[q] \in Nat
    <2>1. \A q \in Paths : rows[q] \in Ids \cup {None}
      BY <1>1
    <2>2. Ids \cup {None} \subseteq Nat
      BY DEF Ids, None
    <2>3. \A q \in Paths : rows[q] < nextModel
      BY DEF RowsAreOwn
    <2> QED  BY <2>1, <2>2, <2>3
  <1>4. rows'[p] = IdFor(p) /\ \A q \in Paths \ {p} : rows'[q] = rows[q]
    BY <1>1
  <1>5. ASSUME NEW i \in Known' PROVE records'[i].path \in Paths /\ rows'[records'[i].path] = i
    <2>1. CASE i = IdFor(p) /\ records'[i].path = p
      BY <1>4, <2>1
    <2>2. CASE records[i].phase # "none" /\ records'[i].path = records[i].path
      <3>1. i \in Known /\ i \in Ids
        BY <2>2 DEF Known
      <3>2. records[i].path \in Paths /\ rows[records[i].path] = i
        BY <3>1 DEF RowsAreOwn
      <3>3. CASE records[i].path = p
        BY <1>1, <1>4, <2>2, <3>1, <3>2, <3>3
      <3>4. CASE records[i].path # p
        BY <1>4, <2>2, <3>2, <3>4
      <3> QED  BY <3>3, <3>4
    <2> QED  BY <2>1, <2>2 DEF Known
  <1>6. \A q, s \in Paths : rows'[q] = rows'[s] /\ rows'[q] # None => q = s
    <2>1. ASSUME NEW q \in Paths \ {p} PROVE rows'[q] # rows'[p]
      <3>1. CASE rows[p] # None
        BY <1>1, <1>4, <3>1 DEF RowsAreOwn
      <3>2. CASE rows[p] = None
        BY <1>1, <1>3, <1>4, <3>2
      <3> QED  BY <3>1, <3>2
    <2> QED  BY <1>4, <2>1 DEF RowsAreOwn
  <1>7. \A q \in Paths : rows'[q] < nextModel'
    <2>1. CASE rows[p] # None
      BY <1>1, <1>3, <1>4, <2>1
    <2>2. CASE rows[p] = None
      <3>1. ASSUME NEW q \in Paths PROVE rows'[q] < nextModel'
        BY <1>1, <1>3, <1>4, <2>2
      <3> QED  BY <3>1
    <2> QED  BY <2>1, <2>2
  <1> QED  BY <1>2, <1>5, <1>6, <1>7 DEF RowsAreOwn

-----------------------------------------------------------------------------
(* The tasks.                                                              *)

\* Who waits for a task is preparing.
LEMMA Wanted ==
    ASSUME TypeOK, RecordsFit
    PROVE  \A t : t \in {records[i].task : i \in Known} \ {None}
                  <=> t # None /\ \E i \in Ids : records[i].task = t
BY DEF RecordsFit, Known, Absent

\* Tasks are forgotten with the preparations that waited for them; the others may
\* begin and end.
LEMMA TasksDropped ==
    ASSUME TypeOK, RecordsFit, TasksAreWanted, TasksFit, RecordsFit', NEW D,
           open' = open, kept' = kept \ D, pc \in {"join", "reset"} => pc' \in {"join", "reset"},
           \A i \in Ids : records'[i].task = IF records[i].task \in D THEN None ELSE records[i].task,
           \A i \in Ids : records'[i].task # None => records'[i].gen = records[i].gen,
           \A t \in TaskIds : t \notin D =>
               /\ state[t] # "new" => state'[t] # "new"
               /\ state'[t] = "queued" => state[t] = "queued" /\ job'[t].gen = job[t].gen
    PROVE  TasksAreWanted' /\ TasksFit'
  <1>1. TasksAreWanted'
    <2> SUFFICES ASSUME open PROVE kept' = {records'[i].task : i \in Known'} \ {None}
      BY DEF TasksAreWanted
    <2>1. \A t : t \in kept <=> t # None /\ \E i \in Ids : records[i].task = t
      BY Wanted DEF TasksAreWanted
    <2>2. \A t : t \in {records'[i].task : i \in Known'} \ {None}
                  <=> t # None /\ \E i \in Ids : records'[i].task = t
      BY DEF RecordsFit, Known, Absent
    <2>3. \A t : t \in kept' <=> t # None /\ \E i \in Ids : records'[i].task = t
      BY <2>1
    <2> QED  BY <2>2, <2>3
  <1>2. TasksFit'
    <2> SUFFICES ASSUME NEW i \in Ids, records'[i].task # None
                 PROVE  LET t == records'[i].task IN
                        /\ open' \/ pc' \in {"join", "reset"}
                        /\ state'[t] # "new"
                        /\ state'[t] = "queued" => job'[t].gen = records'[i].gen
                        /\ \A j \in Ids : records'[j].task = t => j = i
      BY DEF TasksFit
    <2>1. /\ records'[i].task = records[i].task /\ records[i].task \notin D
          /\ records[i].task \in TaskIds /\ records'[i].gen = records[i].gen
      BY DEF TypeOK, Records
    <2>2. \A j \in Ids : records'[j].task = records'[i].task => records[j].task = records[i].task
      BY <2>1
    <2> QED  BY <2>1, <2>2 DEF TasksFit
  <1> QED  BY <1>1, <1>2

\* What makes no work and no post.
LEMMA PostsKept ==
    ASSUME TypeOK, PostsAreOnce, nextGen' \in Nat, nextGen' >= nextGen,
           finals' \in {finals, <<>>},
           \A t \in Working' : t \in Working /\ job'[t].gen = job[t].gen
                                             /\ job'[t].record = job[t].record
    PROVE  PostsAreOnce'
  <1>1. nextGen \in Nat
    BY DEF TypeOK
  <1>2. \A t \in Working : job[t].gen \in Nat
    BY DEF TypeOK, Working, In
  <1>3. \A t \in Working' : job'[t].record \in Ids /\ job'[t].gen < nextGen'
    BY <1>1, <1>2 DEF PostsAreOnce
  <1>4. \A s, t \in Working' : job'[s].gen = job'[t].gen => s = t
    BY DEF PostsAreOnce
  <1>5. \A a \in DOMAIN finals' : a \in DOMAIN finals /\ finals'[a] = finals[a]
    <2>1. CASE finals' = finals
      BY <2>1
    <2>2. CASE finals' = <<>>
      <3>1. DOMAIN finals' = {}
        BY <2>2
      <3> QED  BY <3>1
    <2> QED  BY <2>1, <2>2
  <1>6. \A a \in DOMAIN finals : finals[a].post.gen \in Nat
    <2> DEFINE Posts == [post : [record : Ids, gen : Nat], outcome : Outcomes]
    <2>1. finals \in Seq(Posts)
      BY DEF TypeOK
    <2> HIDE DEF Posts
    <2>2. \A a \in DOMAIN finals : finals[a] \in Posts
      BY <2>1
    <2> QED  BY <2>2 DEF Posts
  <1>7. \A a \in DOMAIN finals' :
          /\ finals'[a].post.gen < nextGen'
          /\ \A t \in Working' : job'[t].gen # finals'[a].post.gen
          /\ \A b \in DOMAIN finals' : finals'[a].post.gen = finals'[b].post.gen => a = b
    <2>1. ASSUME NEW a \in DOMAIN finals' PROVE finals'[a].post.gen < nextGen'
      <3>1. finals'[a] = finals[a] /\ finals[a].post.gen < nextGen /\ finals[a].post.gen \in Nat
        BY <1>5, <1>6 DEF PostsAreOnce
      <3> QED  BY <1>1, <3>1
    <2>2. ASSUME NEW a \in DOMAIN finals', NEW t \in Working'
          PROVE  job'[t].gen # finals'[a].post.gen
      BY <1>5 DEF PostsAreOnce
    <2>3. ASSUME NEW a \in DOMAIN finals', NEW b \in DOMAIN finals',
                 finals'[a].post.gen = finals'[b].post.gen
          PROVE  a = b
      BY <1>5, <2>3 DEF PostsAreOnce
    <2> QED  BY <2>1, <2>2, <2>3
  <1> QED  BY <1>3, <1>4, <1>7 DEF PostsAreOnce

\* The task that is scheduled is new, and nobody waits for it yet.
LEMMA TaskScheduled ==
    ASSUME TypeOK, RecordsFit, TasksAreWanted, TasksFit, RecordsFit',
           NEW i \in Ids, NEW t \in TaskIds, NEW old, old = records[i].task,
           open, open' = open, pc' = pc, NextId(t),
           kept' = (kept \ {old}) \cup {t},
           records'[i].task = t, \A j \in Ids \ {i} : records'[j] = records[j],
           state'[t] = "queued", job'[t].gen = records'[i].gen,
           \A s \in TaskIds : s # t /\ s # old => state'[s] = state[s] /\ job'[s] = job[s]
    PROVE  TasksAreWanted' /\ TasksFit'
  <1>1. state[t] = "new" /\ t # None
    BY DEF NextId, TaskIds, None
  <1>2. \A j \in Ids : records[j].task \in TaskIds \cup {None} /\ records[j].task # t
    BY <1>1 DEF TypeOK, Records, TasksFit
  <1>3. \A j \in Ids \ {i} : records[j].task # None => records[j].task # old
    BY DEF TasksFit
  <1>4. TasksAreWanted'
    <2>1. \A s : s \in kept <=> s # None /\ \E j \in Ids : records[j].task = s
      BY Wanted DEF TasksAreWanted
    <2>2. \A s : s \in {records'[j].task : j \in Known'} \ {None}
                  <=> s # None /\ \E j \in Ids : records'[j].task = s
      BY DEF RecordsFit, Known, Absent
    <2>3. \A s : s \in kept' <=> s # None /\ \E j \in Ids : records'[j].task = s
      <3>1. ASSUME NEW s \in kept' PROVE s # None /\ \E j \in Ids : records'[j].task = s
        <4>1. CASE s = t
          BY <1>1, <4>1
        <4>2. CASE s \in kept /\ s # old
          BY <2>1, <4>2
        <4> QED  BY <4>1, <4>2
      <3>2. ASSUME NEW s, s # None, NEW j \in Ids, records'[j].task = s PROVE s \in kept'
        <4>1. CASE j = i
          BY <3>2, <4>1
        <4>2. CASE j # i
          BY <1>3, <2>1, <3>2, <4>2
        <4> QED  BY <4>1, <4>2
      <3> QED  BY <3>1, <3>2
    <2>4. kept' = {records'[j].task : j \in Known'} \ {None}
      BY <2>2, <2>3
    <2> QED  BY <2>4 DEF TasksAreWanted
  <1>5. TasksFit'
    <2> SUFFICES ASSUME NEW j \in Ids, records'[j].task # None
                 PROVE  LET s == records'[j].task IN
                        /\ open' \/ pc' \in {"join", "reset"}
                        /\ state'[s] # "new"
                        /\ state'[s] = "queued" => job'[s].gen = records'[j].gen
                        /\ \A k \in Ids : records'[k].task = s => k = j
      BY DEF TasksFit
    <2>1. CASE j = i
      BY <1>1, <1>2, <2>1
    <2>2. CASE j # i
      <3>1. /\ records'[j] = records[j] /\ records[j].task \in TaskIds
            /\ records[j].task # t /\ records[j].task # old
        BY <1>2, <1>3, <2>2
      <3>2. state'[records[j].task] = state[records[j].task] /\ job'[records[j].task] = job[records[j].task]
        BY <3>1
      <3> QED  BY <2>2, <3>1, <3>2 DEF TasksFit
    <2> QED  BY <2>1, <2>2
  <1> QED  BY <1>4, <1>5

\* The generation that is scheduled is new, or its task is withdrawn for this one.
LEMMA PostsScheduled ==
    ASSUME TypeOK, PostsAreOnce, nextGen' \in Nat, nextGen' >= nextGen, finals' = finals,
           NEW t \in TaskIds, NEW old, open, open' = open, NEW g \in Nat, g < nextGen',
           \/ g = nextGen
           \/ old \in TaskIds /\ state[old] = "queued" /\ job[old].gen = g,
           state'[t] = "queued", job'[t].gen = g, job'[t].record \in Ids,
           \A s \in TaskIds : s # t => /\ state'[s] = state[s] \/ (s = old /\ state'[s] = "withdrawn")
                                       /\ s # old => job'[s] = job[s],
           old \in TaskIds => state'[old] = "withdrawn"
    PROVE  PostsAreOnce'
  <1>1. nextGen \in Nat
    BY DEF TypeOK
  <1>2. ASSUME NEW s \in Working', s # t
        PROVE  /\ s \in Working /\ s # old /\ job'[s] = job[s]
               /\ job[s].gen \in Nat /\ job[s].gen < nextGen /\ job[s].record \in Ids
    <2>1. s \in TaskIds /\ state'[s] \in {"queued", "running"}
      BY DEF Working, In
    <2>2. s # old
      BY <2>1
    <2>3. s \in Working /\ job'[s] = job[s]
      BY <1>2, <2>1, <2>2 DEF Working, In
    <2>4. job[s].gen \in Nat
      BY <2>1 DEF TypeOK
    <2> QED  BY <2>2, <2>3, <2>4 DEF PostsAreOnce
  <1>3. ASSUME NEW s \in Working', s # t PROVE job[s].gen # g
    <2>1. CASE g = nextGen
      BY <1>1, <1>2, <1>3, <2>1
    <2>2. CASE old \in TaskIds /\ state[old] = "queued" /\ job[old].gen = g
      <3>1. old \in Working
        BY <2>2 DEF Working, In
      <3> QED  BY <1>2, <1>3, <2>2, <3>1 DEF PostsAreOnce
    <2> QED  BY <2>1, <2>2
  <1>4. ASSUME NEW a \in DOMAIN finals PROVE finals[a].post.gen # g /\ finals[a].post.gen < nextGen'
    <2> DEFINE Posts == [post : [record : Ids, gen : Nat], outcome : Outcomes]
    <2>1. finals \in Seq(Posts)
      BY DEF TypeOK
    <2> HIDE DEF Posts
    <2>2. finals[a] \in Posts
      BY <2>1
    <2>3. finals[a].post.gen \in Nat /\ finals[a].post.gen < nextGen
      BY <2>2 DEF PostsAreOnce, Posts
    <2>4. CASE g = nextGen
      BY <1>1, <2>3, <2>4
    <2>5. CASE old \in TaskIds /\ state[old] = "queued" /\ job[old].gen = g
      <3>1. old \in Working
        BY <2>5 DEF Working, In
      <3> QED  BY <1>1, <2>3, <2>5, <3>1 DEF PostsAreOnce
    <2> QED  BY <2>4, <2>5
  <1>5. \A s \in Working' : job'[s].record \in Ids /\ job'[s].gen < nextGen'
    BY <1>1, <1>2
  <1>6. \A s, u \in Working' : job'[s].gen = job'[u].gen => s = u
    BY <1>2, <1>3 DEF PostsAreOnce
  <1>7. \A a \in DOMAIN finals' :
          /\ finals'[a].post.gen < nextGen'
          /\ \A s \in Working' : job'[s].gen # finals'[a].post.gen
          /\ \A b \in DOMAIN finals' : finals'[a].post.gen = finals'[b].post.gen => a = b
    BY <1>2, <1>4 DEF PostsAreOnce
  <1> QED  BY <1>5, <1>6, <1>7 DEF PostsAreOnce

\* Whatever the loader does, the record has its lease, and prepares or has failed.
LEMMA ScheduleKeeps ==
    ASSUME IInv, TicketsFit, NEW i \in Ids, NEW r \in Records, NEW old, Schedule(i, r, old),
           nextLease \in LeaseIds, pc = "idle", UNCHANGED <<models, finals, pc>>,
           nextGen' \in Nat, nextGen' >= nextGen, r.gen < nextGen',
           r.leases = records[i].leases, ~r.queued, r.textures = 0,
           old = records[i].task,
           \/ r.gen = nextGen /\ records[i].leases = 0 /\ old = None
           \/ r.gen = records[i].gen /\ old \in TaskIds /\ state[old] = "queued"
    PROVE  /\ RecordsFit' /\ UnleasedIsTimed'
           /\ LeasesAreCounted' /\ LeasesFit' /\ TicketsFit'
           /\ TasksAreWanted' /\ TasksFit' /\ PoolFits' /\ PostsAreOnce'
           /\ records' \in [Ids -> Records] /\ nextLease' \in Nat
           /\ leases' \in [LeaseIds -> [record : Ids \cup {None}, gen : Nat]]
           /\ open' \in BOOLEAN /\ state' \in [TaskIds -> States] /\ kept' \subseteq TaskIds
           /\ job' \in [TaskIds -> [record : Ids \cup {None}, gen : Nat, box : Nat, posted : 0 .. 2]]
           /\ \A j \in Ids \ {i} : records'[j] = records[j]
           /\ records'[i].path = r.path /\ records'[i].priority = r.priority
           /\ records'[i].phase \in {"preparing", "failed"} /\ ~records'[i].queued
  <1> USE DEF IInv
  <1> DEFINE Jobs == [record : Ids \cup {None}, gen : Nat, box : Nat, posted : 0 .. 2]
  <1>1. /\ records \in [Ids -> Records] /\ state \in [TaskIds -> States] /\ kept \subseteq TaskIds
        /\ job \in [TaskIds -> Jobs] /\ box \in Nat /\ nextGen \in Nat /\ open \in BOOLEAN
    BY DEF TypeOK
  <1>2. None \notin TaskIds /\ r.leases + 1 # 0 /\ r.leases + 1 \in Nat /\ r.gen \in Nat
    BY DEF TaskIds, None, Records
  <1>3. CASE loader
    <2>1. PICK t \in TaskIds :
              /\ open /\ NextId(t)
              /\ state' = [s \in TaskIds |->
                              IF s = t THEN "queued"
                              ELSE IF s = old THEN "withdrawn" ELSE state[s]]
              /\ kept' = (kept \ {old}) \cup {t}
              /\ job' = [s \in TaskIds |->
                            IF s = t THEN [record |-> i, gen |-> r.gen, box |-> box,
                                           posted |-> 0]
                            ELSE IF s = old THEN NoJob ELSE job[s]]
              /\ Grant(i, [r EXCEPT !.phase = "preparing", !.task = t])
              /\ open' = open
      BY <1>3 DEF Schedule
    <2> DEFINE n == [r EXCEPT !.phase = "preparing", !.task = t]
    <2>2. /\ n \in Records /\ n.phase = "preparing" /\ n.task = t /\ n.gen = r.gen
          /\ n.leases = r.leases /\ n.path = r.path /\ n.priority = r.priority
          /\ n.queued = r.queued /\ n.textures = 0
      BY DEF Records, Phases
    <2>3. records' = [records EXCEPT ![i] = [n EXCEPT !.leases = @ + 1]]
      BY <2>1 DEF Grant
    <2> HIDE DEF n
    <2>4. /\ [n EXCEPT !.leases = @ + 1] \in Records
          /\ [n EXCEPT !.leases = @ + 1].phase = "preparing" /\ [n EXCEPT !.leases = @ + 1].task = t
          /\ [n EXCEPT !.leases = @ + 1].gen = r.gen
          /\ [n EXCEPT !.leases = @ + 1].leases = r.leases + 1
          /\ [n EXCEPT !.leases = @ + 1].path = r.path
          /\ [n EXCEPT !.leases = @ + 1].priority = r.priority
          /\ [n EXCEPT !.leases = @ + 1].queued = r.queued
          /\ [n EXCEPT !.leases = @ + 1].textures = 0
      BY <2>2 DEF Records
    <2>5. /\ records' \in [Ids -> Records] /\ \A j \in Ids \ {i} : records'[j] = records[j]
          /\ records'[i].phase = "preparing" /\ records'[i].task = t /\ records'[i].gen = r.gen
          /\ records'[i].leases = r.leases + 1 /\ records'[i].path = r.path
          /\ records'[i].priority = r.priority /\ ~records'[i].queued /\ records'[i].textures = 0
      <3> HIDE DEF Records
      <3> QED  BY <1>1, <2>3, <2>4
    <2>6. RecordsFit'
      <3>1. \A j \in Ids : records[j].gen \in Nat
        BY <1>1 DEF Records
      <3> QED  BY <1>1, <1>2, <2>5, <3>1 DEF RecordsFit
    <2>7. UnleasedIsTimed'
      BY <1>2, <2>5 DEF UnleasedIsTimed, Known
    <2>8. /\ LeasesAreCounted' /\ LeasesFit' /\ TicketsFit' /\ nextLease' \in Nat
          /\ leases' \in [LeaseIds -> [record : Ids \cup {None}, gen : Nat]]
      BY <1>2, <2>1, <2>2, LeaseGranted DEF n
    <2>9. /\ state'[t] = "queued" /\ job'[t] = [record |-> i, gen |-> r.gen, box |-> box, posted |-> 0]
          /\ \A s \in TaskIds : s # t /\ s # old => state'[s] = state[s] /\ job'[s] = job[s]
          /\ old \in TaskIds /\ old # t => state'[old] = "withdrawn"
      BY <2>1
    <2>10. TasksAreWanted' /\ TasksFit'
      BY <2>1, <2>5, <2>6, <2>9, TaskScheduled
    <2>11. old \in TaskIds => old # t /\ job[old].gen = r.gen /\ state[old] = "queued"
      <3>1. state[t] = "new"
        BY <2>1 DEF NextId, TaskIds
      <3> QED  BY <1>2, <3>1 DEF TasksFit
    <2>12. PostsAreOnce'
      <3>1. \/ r.gen = nextGen
            \/ old \in TaskIds /\ state[old] = "queued" /\ job[old].gen = r.gen
        BY <2>11
      <3> QED  BY <1>2, <2>1, <2>9, <2>11, <3>1, PostsScheduled
    <2>13. /\ state' \in [TaskIds -> States] /\ kept' \subseteq TaskIds /\ job' \in [TaskIds -> Jobs]
      <3>1. [record |-> i, gen |-> r.gen, box |-> box, posted |-> 0] \in Jobs /\ NoJob \in Jobs
        BY <1>1, <1>2 DEF NoJob
      <3>2. "queued" \in States /\ "withdrawn" \in States
        BY DEF States
      <3> HIDE DEF Jobs
      <3> QED  BY <1>1, <2>1, <3>1, <3>2
    <2>14. PoolFits'
      BY <2>1 DEF PoolFits
    <2> QED  BY <1>1, <2>1, <2>5, <2>6, <2>7, <2>8, <2>10, <2>12, <2>13, <2>14
  <1>4. CASE ~loader
    <2> DEFINE n == Failed([r EXCEPT !.task = None])
    <2>1. /\ state' = [s \in TaskIds |-> IF s = old THEN "withdrawn" ELSE state[s]]
          /\ kept' = kept \ {old}
          /\ job' = [s \in TaskIds |-> IF s = old THEN NoJob ELSE job[s]]
          /\ Grant(i, n) /\ open' = open
      BY <1>4 DEF Schedule
    <2>2. /\ n \in Records /\ n.phase = "failed" /\ n.task = None /\ n.gen = r.gen
          /\ n.leases = r.leases /\ n.path = r.path /\ n.priority = r.priority
          /\ ~n.queued /\ n.textures = 0 /\ n.timer = "set"
      <3>1. MaxTextures \in Nat
        BY StreamerAssumption
      <3> QED  BY <3>1 DEF Failed, Records, Phases
    <2>3. records' = [records EXCEPT ![i] = [n EXCEPT !.leases = @ + 1]]
      BY <2>1 DEF Grant
    <2> HIDE DEF n
    <2>4. /\ [n EXCEPT !.leases = @ + 1] \in Records
          /\ [n EXCEPT !.leases = @ + 1].phase = "failed" /\ [n EXCEPT !.leases = @ + 1].task = None
          /\ [n EXCEPT !.leases = @ + 1].gen = r.gen
          /\ [n EXCEPT !.leases = @ + 1].leases = r.leases + 1
          /\ [n EXCEPT !.leases = @ + 1].path = r.path
          /\ [n EXCEPT !.leases = @ + 1].priority = r.priority
          /\ [n EXCEPT !.leases = @ + 1].queued = n.queued
          /\ [n EXCEPT !.leases = @ + 1].textures = 0
          /\ [n EXCEPT !.leases = @ + 1].timer = "set"
      BY <2>2 DEF Records
    <2>5. /\ records' \in [Ids -> Records] /\ \A j \in Ids \ {i} : records'[j] = records[j]
          /\ records'[i].phase = "failed" /\ records'[i].task = None /\ records'[i].gen = r.gen
          /\ records'[i].leases = r.leases + 1 /\ records'[i].path = r.path
          /\ records'[i].priority = r.priority /\ ~records'[i].queued /\ records'[i].textures = 0
          /\ records'[i].timer = "set"
      <3> HIDE DEF Records
      <3> QED  BY <1>1, <2>2, <2>3, <2>4
    <2>6. RecordsFit'
      <3>1. \A j \in Ids : records[j].gen \in Nat
        BY <1>1 DEF Records
      <3> QED  BY <1>1, <1>2, <2>5, <3>1 DEF RecordsFit
    <2>7. UnleasedIsTimed'
      BY <1>2, <2>5 DEF UnleasedIsTimed, Known
    <2>8. /\ LeasesAreCounted' /\ LeasesFit' /\ TicketsFit' /\ nextLease' \in Nat
          /\ leases' \in [LeaseIds -> [record : Ids \cup {None}, gen : Nat]]
      BY <1>2, <2>1, <2>2, LeaseGranted
    <2>9. \A s \in TaskIds : s # old => state'[s] = state[s] /\ job'[s] = job[s]
      BY <2>1
    <2>10. TasksAreWanted' /\ TasksFit'
      <3>1. \A j \in Ids : records'[j].task = IF records[j].task \in {old} THEN None ELSE records[j].task
        <4>1. \A j \in Ids \ {i} : records[j].task = old => old = None
          BY DEF TasksFit
        <4> QED  BY <2>5, <4>1
      <3>2. \A j \in Ids : records'[j].task # None => records'[j].gen = records[j].gen
        BY <2>5
      <3> QED  BY <2>1, <2>6, <2>9, <3>1, <3>2, TasksDropped
    <2>11. PostsAreOnce'
      <3>1. \A t \in Working' : t \in TaskIds /\ t # old /\ state'[t] = state[t] /\ job'[t] = job[t]
        <4>1. \A t \in Working' : t \in TaskIds /\ state'[t] # "withdrawn"
          BY DEF Working, In
        <4> QED  BY <2>1, <4>1
      <3>2. Working' \subseteq Working
        BY <3>1 DEF Working, In
      <3> QED  BY <3>1, <3>2, PostsKept
    <2>13. PoolFits'
      BY <2>1 DEF PoolFits, In
    <2>12. /\ state' \in [TaskIds -> States] /\ kept' \subseteq TaskIds /\ job' \in [TaskIds -> Jobs]
      <3>1. NoJob \in Jobs /\ "withdrawn" \in States
        BY DEF NoJob, States
      <3> HIDE DEF Jobs
      <3> QED  BY <1>1, <2>1, <3>1
    <2> QED  BY <1>1, <2>1, <2>5, <2>6, <2>7, <2>8, <2>10, <2>11, <2>12, <2>13
  <1> QED  BY <1>3, <1>4

-----------------------------------------------------------------------------
(* Steps that leave the course of the records alone.                       *)

\* The inductive invariant: IInv, and what a lease remembers of its record.
Inv == IInv /\ TicketsFit

\* The types of the mailbox, the tasks and the leases, for the lemmas to be stated with.
Posts == [post : [record : Ids, gen : Nat], outcome : Outcomes]
Jobs == [record : Ids \cup {None}, gen : Nat, box : Nat, posted : 0 .. 2]
Leases == [LeaseIds -> [record : Ids \cup {None}, gen : Nat]]

\* Nobody asks for anything before the start.
LEMMA Begins == Init => Inv
  <1> SUFFICES ASSUME Init PROVE Inv
    OBVIOUS
  <1>1. /\ Held = {} /\ Known = {} /\ Working = {} /\ In("queued") = {}
        /\ \A i \in Ids : records[i] = Absent
    BY DEF Init, Closed, Held, Known, Absent, Working, In
  <1>2. TypeOK
    <2>1. Absent \in Records
      BY StreamerAssumption DEF Absent, Records, Phases, None, Ids
    <2>2. NoLease \in [record : Ids \cup {None}, gen : Nat] /\ NoJob \in Jobs
      BY DEF NoLease, NoJob, Jobs
    <2>3. MaxResets \in Nat /\ MaxLoads \in Nat /\ "new" \in States
      BY StreamerAssumption DEF States
    <2> HIDE DEF Records, States
    <2>4. /\ open \in BOOLEAN /\ state \in [TaskIds -> States] /\ kept \subseteq TaskIds
          /\ rows \in [Paths -> Ids \cup {None}]
          /\ records \in [Ids -> Records]
          /\ leases \in [LeaseIds -> [record : Ids \cup {None}, gen : Nat]]
          /\ job \in [TaskIds -> Jobs]
      BY <2>1, <2>2, <2>3 DEF Init, Closed
    <2>5. /\ queue \in Seq(Ids) /\ finals \in Seq(Posts)
          /\ resets \in 0 .. MaxResets /\ loads \in 0 .. MaxLoads
      BY <2>3 DEF Init
    <2> QED  BY <2>4, <2>5 DEF TypeOK, Init, Jobs, Posts
  <1>3. /\ RecordsFit /\ TasksAreWanted /\ TasksFit /\ PoolFits
        /\ UnleasedIsTimed /\ LeasesFit /\ TicketsFit
    BY <1>1 DEF RecordsFit, TasksAreWanted, TasksFit, PoolFits, UnleasedIsTimed, LeasesFit, TicketsFit,
                Absent, Init, Closed
  <1>4. LeasesAreCounted
    <2>1. \A i : LeasesOf(i) = {}
      BY <1>1 DEF LeasesOf
    <2> QED  BY <1>1, <2>1, FS_EmptySet DEF LeasesAreCounted, Absent
  <1>5. queue = <<>> /\ finals = <<>>
    BY DEF Init
  <1>6. DOMAIN queue = {} /\ DOMAIN finals = {} /\ ToSet(queue) = {}
    BY <1>5 DEF ToSet
  <1>7. QueueIsExact
    BY <1>1, <1>6 DEF QueueIsExact, Absent
  <1>8. RowsAreOwn
    BY <1>1 DEF RowsAreOwn, Init, None
  <1>9. PostsAreOnce
    BY <1>1, <1>6 DEF PostsAreOnce
  <1> QED  BY <1>2, <1>3, <1>4, <1>7, <1>8, <1>9 DEF Inv, IInv

\* What a record is, but for what it tells and how its delay goes on.
Same(i) ==
    /\ records'[i].phase = records[i].phase /\ records'[i].path = records[i].path
    /\ records'[i].gen = records[i].gen /\ records'[i].leases = records[i].leases
    /\ records'[i].priority = records[i].priority /\ records'[i].task = records[i].task
    /\ records'[i].queued = records[i].queued /\ records'[i].textures = records[i].textures
    /\ records'[i].model = records[i].model
    /\ records[i].timer # "off" => records'[i].timer # "off"
    /\ records[i].phase = "none" => records'[i] = records[i]

\* The records' parts of the invariant when a step changes only the timers and the bounds
\* of the records.
LEMMA RecordsTouched ==
    ASSUME Inv, UNCHANGED <<leases, nextLease, queue, nextGen>>, models \subseteq models',
           \A i \in Ids : Same(i)
    PROVE  /\ RecordsFit' /\ LeasesAreCounted' /\ LeasesFit' /\ TicketsFit'
           /\ QueueIsExact' /\ UnleasedIsTimed'
  <1> USE DEF Inv, IInv
  <1>1. RecordsFit'
    BY DEF RecordsFit, Same
  <1>2. LeasesAreCounted' /\ LeasesFit' /\ TicketsFit'
    BY LeasesKept DEF Same
  <1>3. QueueIsExact'
    <2>1. QueuedByPhase'
      BY DEF QueuedByPhase, QueueIsExact, Same
    <2> QED  BY <2>1, QueueKept DEF Same
  <1>4. UnleasedIsTimed'
    BY DEF UnleasedIsTimed, Known, Same
  <1> QED  BY <1>1, <1>2, <1>3, <1>4

\* What only goes on with the tasks.
LEMMA TasksGoOn ==
    ASSUME Inv, RecordsFit', UNCHANGED <<open, kept>>, \A i \in Ids : Same(i),
           pc \in {"join", "reset"} <=> pc' \in {"join", "reset"},
           \A t \in TaskIds :
               /\ state[t] # "new" => state'[t] # "new"
               /\ state'[t] = "queued" => state[t] = "queued" /\ job'[t].gen = job[t].gen
    PROVE  TasksAreWanted' /\ TasksFit' /\ PoolFits'
  <1> DEFINE D == {}
  <1>1. \A i \in Ids : records'[i].task = IF records[i].task \in D THEN None ELSE records[i].task
    BY DEF Same
  <1>2. \A i \in Ids : records'[i].task # None => records'[i].gen = records[i].gen
    BY DEF Same
  <1>3. open' = open /\ kept' = kept \ D
    OBVIOUS
  <1> HIDE DEF D
  <1>4. TypeOK /\ RecordsFit /\ TasksAreWanted /\ TasksFit
    BY DEF Inv, IInv
  <1>5. PoolFits'
    BY DEF PoolFits, In, Inv, IInv
  <1> QED  BY <1>1, <1>2, <1>3, <1>4, <1>5, TasksDropped

\* Nothing at all happens to the records and the tasks' work.
LEMMA AllKept ==
    ASSUME Inv, UNCHANGED <<recordVars, rows, nextModel, job, taskVars>>, models \subseteq models',
           finals' \in {finals, <<>>}, pc \in {"join", "reset"} <=> pc' \in {"join", "reset"}
    PROVE  /\ RecordsFit' /\ LeasesAreCounted' /\ LeasesFit' /\ TicketsFit'
           /\ QueueIsExact' /\ UnleasedIsTimed' /\ RowsAreOwn'
           /\ TasksAreWanted' /\ TasksFit' /\ PoolFits' /\ PostsAreOnce'
  <1>1. \A i \in Ids : Same(i)
    BY DEF Same
  <1>2. /\ RecordsFit' /\ LeasesAreCounted' /\ LeasesFit' /\ TicketsFit'
        /\ QueueIsExact' /\ UnleasedIsTimed'
    BY <1>1, RecordsTouched
  <1>3. TasksAreWanted' /\ TasksFit' /\ PoolFits'
    BY <1>1, <1>2, TasksGoOn
  <1>4. RowsAreOwn'
    BY RowsKept DEF Inv, IInv
  <1>5. PostsAreOnce'
    <2>1. Working' = Working /\ nextGen \in Nat
      BY DEF Working, In, Inv, IInv, TypeOK
    <2> QED  BY <2>1, PostsKept DEF Inv, IInv, PostsAreOnce
  <1> QED  BY <1>2, <1>3, <1>4, <1>5

\* Start opens the pool and a new mailbox: posts for the old one are dropped.
LEMMA Starts ==
    ASSUME Inv, Start
    PROVE  Inv'
  <1>1. TypeOK /\ RecordsFit /\ TasksFit /\ PostsAreOnce
    BY DEF Inv, IInv
  <1>2. \A i \in Ids : Same(i)
    BY DEF Start, Same
  <1>3. /\ RecordsFit' /\ LeasesAreCounted' /\ LeasesFit' /\ TicketsFit'
        /\ QueueIsExact' /\ UnleasedIsTimed'
    BY <1>2, RecordsTouched DEF Start
  <1>4. RowsAreOwn'
    BY RowsKept DEF Start, Inv, IInv
  <1>5. \A i \in Ids : records'[i].task = None
    BY <1>1 DEF Start, Open, TasksFit
  <1>6. TasksAreWanted' /\ TasksFit' /\ PoolFits'
    BY <1>5 DEF TasksAreWanted, TasksFit, PoolFits, Start, Open, Known
  <1>7. PostsAreOnce'
    <2>1. Working' = {} /\ open' = TRUE /\ finals' = <<>>
      BY DEF Working, In, Start, Open, NewMailbox
    <2>2. DOMAIN finals' = {}
      BY <2>1
    <2> QED  BY <2>1, <2>2 DEF PostsAreOnce
  <1>8. TypeOK'
    <2>1. state' \in [TaskIds -> States] /\ box' \in Nat /\ finals' \in Seq(Posts)
      BY <1>1 DEF Start, Open, States, TypeOK, NewMailbox
    <2> QED  BY <1>1, <2>1 DEF TypeOK, Start, Open, NewMailbox, Posts
  <1> QED  BY <1>3, <1>4, <1>6, <1>7, <1>8 DEF Inv, IInv

\* The main thread's calls that only use the models.
LEMMA InstancesChange ==
    ASSUME Inv,
           \/ \E l \in LeaseIds : CreateInstance(l)
           \/ \E i \in Ids : DestroyInstances(i)
    PROVE  Inv'
  <1>1. /\ UNCHANGED <<rows, models, nextModel, recordVars, postVars, mainVars, job, box, taskVars>>
        /\ instances' \subseteq Ids
    <2>1. CASE \E l \in LeaseIds : CreateInstance(l)
      <3>1. PICK l \in LeaseIds : CreateInstance(l)
        BY <2>1
      <3>2. models \subseteq Ids /\ instances \subseteq Ids
        BY DEF Inv, IInv, TypeOK
      <3> QED  BY <3>1, <3>2 DEF CreateInstance
    <2>2. CASE \E i \in Ids : DestroyInstances(i)
      BY <2>2 DEF DestroyInstances, Inv, IInv, TypeOK
    <2> QED  BY <2>1, <2>2
  <1>2. TypeOK'
    BY <1>1 DEF Inv, IInv, TypeOK
  <1> QED  BY <1>1, <1>2, AllKept DEF Inv, IInv

\* A synchronous load reserves the path's id as the streamer does, and removes no model.
LEMMA LoadedAround ==
    ASSUME Inv, NEW p \in Paths, LoadModelInstance(p)
    PROVE  Inv'
  <1>1. /\ UNCHANGED <<recordVars, postVars, loader, pc, progressed, resets, job, box, taskVars>>
        /\ models \subseteq models' /\ models' \subseteq Ids /\ instances' \subseteq Ids
        /\ ReserveIdentity(p) /\ loads' \in 0 .. MaxLoads
    BY StreamerAssumption DEF LoadModelInstance, ReserveIdentity, Inv, IInv, TypeOK
  <1>2. \A i \in Ids : Same(i)
    BY <1>1 DEF Same
  <1>3. /\ RecordsFit' /\ LeasesAreCounted' /\ LeasesFit' /\ TicketsFit'
        /\ QueueIsExact' /\ UnleasedIsTimed'
    BY <1>1, <1>2, RecordsTouched
  <1>4. TasksAreWanted' /\ TasksFit' /\ PoolFits'
    BY <1>1, <1>2, <1>3, TasksGoOn
  <1>5. RowsAreOwn' /\ rows' \in [Paths -> Ids \cup {None}] /\ nextModel' \in Nat
    BY <1>1, RowsReserved DEF Inv, IInv
  <1>6. PostsAreOnce'
    <2>1. Working' = Working /\ nextGen \in Nat
      BY <1>1 DEF Working, In, Inv, IInv, TypeOK
    <2> QED  BY <1>1, <2>1, PostsKept DEF Inv, IInv, PostsAreOnce
  <1>7. TypeOK'
    BY <1>1, <1>5 DEF Inv, IInv, TypeOK
  <1> QED  BY <1>3, <1>4, <1>5, <1>6, <1>7 DEF Inv, IInv

-----------------------------------------------------------------------------
(* What the tasks do.                                                      *)

\* A worker begins a task that is queued.
LEMMA TasksBegin ==
    ASSUME Inv, NEW t \in TaskIds, TaskBegins(t)
    PROVE  Inv'
  <1>1. /\ UNCHANGED <<repoVars, recordVars, postVars, mainVars, job, box, open, kept>>
        /\ state[t] = "queued" /\ state' = [state EXCEPT ![t] = "running"]
        /\ state \in [TaskIds -> States]
    BY DEF TaskBegins, Begin, Move, Inv, IInv, TypeOK
  <1>2. \A i \in Ids : Same(i)
    BY <1>1 DEF Same
  <1>3. /\ RecordsFit' /\ LeasesAreCounted' /\ LeasesFit' /\ TicketsFit'
        /\ QueueIsExact' /\ UnleasedIsTimed'
    BY <1>1, <1>2, RecordsTouched
  <1>4. \A s \in TaskIds : /\ state[s] # "new" => state'[s] # "new"
                           /\ state'[s] = "queued" => state[s] = "queued"
    BY <1>1
  <1>5. TasksAreWanted' /\ TasksFit' /\ PoolFits'
    BY <1>1, <1>2, <1>3, <1>4, TasksGoOn
  <1>6. RowsAreOwn'
    BY <1>1, RowsKept DEF Inv, IInv
  <1>7. PostsAreOnce'
    <2>1. Working' \subseteq Working /\ nextGen \in Nat /\ In("queued")' \subseteq In("queued")
      BY <1>1 DEF Working, In, Inv, IInv, TypeOK
    <2> QED  BY <1>1, <2>1, PostsKept DEF Inv, IInv, PostsAreOnce
  <1>8. TypeOK'
    <2>1. state' \in [TaskIds -> States]
      BY <1>1 DEF States
    <2> QED  BY <1>1, <2>1 DEF Inv, IInv, TypeOK
  <1> QED  BY <1>3, <1>5, <1>6, <1>7, <1>8 DEF Inv, IInv

\* A task that posts on its way.
LEMMA TasksPost ==
    ASSUME Inv, NEW t \in TaskIds, PostHeader(t) \/ PostEarly(t)
    PROVE  Inv'
  <1>1. /\ UNCHANGED <<repoVars, recordVars, mainVars, finals, box, taskVars>>
        /\ \E what \in {1, 2} : Post(t, what)
        /\ headers' \subseteq headers \cup {For(t)} /\ earlies' \subseteq earlies \cup {For(t)}
    BY DEF PostHeader, PostEarly
  <1>2. PICK what \in {1, 2} : state[t] = "running" /\ job' = [job EXCEPT ![t].posted = what]
    BY <1>1 DEF Post
  <1>3. job \in [TaskIds -> Jobs]
    BY DEF Inv, IInv, TypeOK, Jobs
  <1>4. /\ job' \in [TaskIds -> Jobs]
        /\ \A s \in TaskIds : job'[s].gen = job[s].gen /\ job'[s].record = job[s].record
    BY <1>2, <1>3 DEF Jobs
  <1>5. For(t) \in [record : Ids, gen : Nat]
    <2>1. t \in Working
      BY <1>2 DEF Working, In
    <2>2. job[t].record \in Ids
      BY <2>1 DEF Inv, IInv, PostsAreOnce
    <2> QED  BY <1>3, <2>2 DEF For, Jobs
  <1>6. \A i \in Ids : Same(i)
    BY <1>1 DEF Same
  <1>7. /\ RecordsFit' /\ LeasesAreCounted' /\ LeasesFit' /\ TicketsFit'
        /\ QueueIsExact' /\ UnleasedIsTimed'
    BY <1>1, <1>6, RecordsTouched
  <1>8. TasksAreWanted' /\ TasksFit' /\ PoolFits'
    BY <1>1, <1>4, <1>6, <1>7, TasksGoOn
  <1>9. RowsAreOwn'
    BY <1>1, RowsKept DEF Inv, IInv
  <1>10. PostsAreOnce'
    <2>1. /\ Working' = Working /\ nextGen \in Nat /\ In("queued")' = In("queued")
          /\ Working \subseteq TaskIds
      BY <1>1 DEF Working, In, Inv, IInv, TypeOK
    <2> QED  BY <1>1, <1>4, <2>1, PostsKept DEF Inv, IInv, PostsAreOnce
  <1>11. TypeOK'
    BY <1>1, <1>4, <1>5 DEF Inv, IInv, TypeOK, Jobs
  <1> QED  BY <1>7, <1>8, <1>9, <1>10, <1>11 DEF Inv, IInv

\* The last post is of a generation nobody works on any more.
LEMMA TasksEnd ==
    ASSUME Inv, NEW t \in TaskIds, PostFinal(t)
    PROVE  Inv'
  <1>1. /\ UNCHANGED <<repoVars, recordVars, mainVars, headers, earlies, box, open, kept>>
        /\ state[t] = "running" /\ state' = [state EXCEPT ![t] = "ended"]
        /\ job' = [job EXCEPT ![t] = NoJob]
        /\ \E outcome \in Outcomes :
              finals' \in {finals, Append(finals, [post |-> For(t), outcome |-> outcome])}
    BY DEF PostFinal, End, Move
  <1>2. /\ state \in [TaskIds -> States] /\ job \in [TaskIds -> Jobs] /\ finals \in Seq(Posts)
        /\ nextGen \in Nat
    BY DEF Inv, IInv, TypeOK, Jobs, Posts
  <1>3. PICK outcome \in Outcomes :
           finals' \in {finals, Append(finals, [post |-> For(t), outcome |-> outcome])}
    BY <1>1
  <1> DEFINE new == [post |-> For(t), outcome |-> outcome]
  <1>4. /\ \A s \in Working' : s \in Working /\ s # t /\ job'[s] = job[s]
        /\ In("queued")' \subseteq In("queued") /\ t \in Working
    BY <1>1, <1>2 DEF Working, In
  <1>5. new \in Posts /\ new.post.gen = job[t].gen
    <2>1. job[t].record \in Ids /\ job[t].gen \in Nat
      BY <1>2, <1>4 DEF Inv, IInv, PostsAreOnce, Jobs
    <2> QED  BY <2>1 DEF Posts, For
  <1> HIDE DEF new
  <1>6. \A i \in Ids : Same(i)
    BY <1>1 DEF Same
  <1>7. /\ RecordsFit' /\ LeasesAreCounted' /\ LeasesFit' /\ TicketsFit'
        /\ QueueIsExact' /\ UnleasedIsTimed'
    BY <1>1, <1>6, RecordsTouched
  <1>8. \A s \in TaskIds : /\ state[s] # "new" => state'[s] # "new"
                           /\ state'[s] = "queued" => state[s] = "queued" /\ job'[s].gen = job[s].gen
    BY <1>1, <1>2
  <1>9. TasksAreWanted' /\ TasksFit' /\ PoolFits'
    BY <1>1, <1>6, <1>7, <1>8, TasksGoOn
  <1>10. RowsAreOwn'
    BY <1>1, RowsKept DEF Inv, IInv
  <1>11. PostsAreOnce'
    <2>1. CASE finals' = finals
      BY <1>1, <1>2, <1>4, <2>1, PostsKept DEF Inv, IInv
    <2>2. CASE finals' = Append(finals, new)
      <3> DEFINE n == Len(finals) + 1
      <3>1. /\ DOMAIN finals' = 1 .. n /\ DOMAIN finals = 1 .. n - 1 /\ n \in Nat
            /\ finals'[n] = new /\ \A a \in DOMAIN finals : finals'[a] = finals[a]
        BY <1>2, <1>5, <2>2
      <3> HIDE DEF n
      <3>2. \A a \in 1 .. n : a = n \/ (a \in DOMAIN finals /\ finals'[a] = finals[a])
        <4>1. \A a \in 1 .. n : a # n => a \in 1 .. n - 1
          BY <3>1
        <4> QED  BY <3>1, <4>1
      <3>3. \A s \in Working' : job'[s].record \in Ids /\ job'[s].gen < nextGen'
        BY <1>1, <1>4 DEF Inv, IInv, PostsAreOnce
      <3>4. \A s, u \in Working' : job'[s].gen = job'[u].gen => s = u
        BY <1>4 DEF Inv, IInv, PostsAreOnce
      <3>5. ASSUME NEW a \in DOMAIN finals'
            PROVE  /\ finals'[a].post.gen < nextGen'
                   /\ \A s \in Working' : job'[s].gen # finals'[a].post.gen
        BY <1>1, <1>4, <1>5, <3>1, <3>2 DEF Inv, IInv, PostsAreOnce
      <3>6. \A a, b \in DOMAIN finals' : finals'[a].post.gen = finals'[b].post.gen => a = b
        BY <1>4, <1>5, <3>1, <3>2 DEF Inv, IInv, PostsAreOnce
      <3> QED  BY <3>3, <3>4, <3>5, <3>6 DEF PostsAreOnce
    <2> QED  BY <1>3, <2>1, <2>2 DEF new
  <1>12. TypeOK'
    <2>1. NoJob \in Jobs /\ "ended" \in States
      BY DEF NoJob, Jobs, States
    <2>2. job' \in [TaskIds -> Jobs] /\ state' \in [TaskIds -> States]
      BY <1>1, <1>2, <2>1
    <2>3. finals' \in Seq(Posts)
      BY <1>2, <1>3, <1>5 DEF new
    <2> QED  BY <1>1, <2>2, <2>3 DEF Inv, IInv, TypeOK, Jobs, Posts
  <1> QED  BY <1>7, <1>9, <1>10, <1>11, <1>12 DEF Inv, IInv

-----------------------------------------------------------------------------
(* Pump's first looks into the mailbox, and the clock.                     *)

\* What a ticket shows and how long a record stays is all that changes.
LEMMA OnlyTold ==
    ASSUME Inv, \A i \in Ids : Same(i), records' \in [Ids -> Records],
           headers' \in {headers, {}}, earlies' \in {earlies, {}},
           UNCHANGED <<repoVars, leases, queue, nextGen, nextLease, finals, loader, progressed,
                       resets, loads, job, box, taskVars>>,
           pc' \in {"idle", "early", "completions", "commit", "join", "reset"},
           pc \in {"join", "reset"} <=> pc' \in {"join", "reset"}
    PROVE  Inv'
  <1>1. /\ RecordsFit' /\ LeasesAreCounted' /\ LeasesFit' /\ TicketsFit'
        /\ QueueIsExact' /\ UnleasedIsTimed'
    BY RecordsTouched
  <1>2. TasksAreWanted' /\ TasksFit' /\ PoolFits'
    BY <1>1, TasksGoOn
  <1>3. RowsAreOwn'
    BY RowsKept DEF Same, Inv, IInv
  <1>4. PostsAreOnce'
    <2>1. Working' = Working /\ nextGen \in Nat /\ In("queued")' = In("queued")
      BY DEF Working, In, Inv, IInv, TypeOK
    <2> QED  BY <2>1, PostsKept DEF Inv, IInv, PostsAreOnce
  <1>5. TypeOK'
    BY DEF Inv, IInv, TypeOK
  <1> QED  BY <1>1, <1>2, <1>3, <1>4, <1>5 DEF Inv, IInv

\* Bounds are taken in by preparations only, and change nothing else of them.
LEMMA HeadersTaken ==
    ASSUME Inv, DrainHeaders \/ DrainEarly
    PROVE  Inv'
  <1>1. PICK new \in [Ids -> {"none", "header", "model"}] :
           \A i \in Ids : \/ records'[i] = records[i]
                          \/ /\ records'[i] = [records[i] EXCEPT !.info = new[i]]
                             /\ records[i].phase = "preparing"
    <2> DEFINE new == [i \in Ids |-> IF DrainHeaders THEN WithHeader(records[i].info) ELSE "model"]
    <2>1. new \in [Ids -> {"none", "header", "model"}]
      BY DEF WithHeader
    <2>2. ASSUME NEW i \in Ids
          PROVE  \/ records'[i] = records[i]
                 \/ /\ records'[i] = [records[i] EXCEPT !.info = new[i]]
                    /\ records[i].phase = "preparing"
      <3>1. CASE DrainHeaders
        BY <3>1 DEF DrainHeaders, IsFor
      <3>2. CASE DrainEarly /\ ~DrainHeaders
        BY <3>2 DEF DrainEarly, IsFor
      <3> QED  BY <3>1, <3>2
    <2> QED  BY <2>1, <2>2
  <1>2. records \in [Ids -> Records]
    BY DEF Inv, IInv, TypeOK
  <1>3. ASSUME NEW i \in Ids PROVE Same(i) /\ records'[i] \in Records
    <2>1. records[i] \in Records /\ new[i] \in {"none", "header", "model"}
      BY <1>2
    <2> DEFINE r == [records[i] EXCEPT !.info = new[i]]
    <2>2. /\ r \in Records /\ r.phase = records[i].phase /\ r.path = records[i].path
          /\ r.gen = records[i].gen /\ r.leases = records[i].leases
          /\ r.priority = records[i].priority /\ r.task = records[i].task
          /\ r.queued = records[i].queued /\ r.textures = records[i].textures
          /\ r.model = records[i].model /\ r.timer = records[i].timer
      BY <2>1 DEF Records
    <2>3. records'[i] = records[i] \/ (records'[i] = r /\ records[i].phase = "preparing")
      BY <1>1
    <2> HIDE DEF r, Records
    <2>4. CASE records'[i] = records[i]
      BY <2>1, <2>4 DEF Same
    <2>5. CASE records'[i] = r /\ records[i].phase = "preparing"
      BY <2>2, <2>5 DEF Same
    <2> QED  BY <2>3, <2>4, <2>5
  <1>4. records' \in [Ids -> Records]
    <2>1. DOMAIN records' = Ids /\ records' = [i \in Ids |-> records'[i]]
      BY DEF DrainHeaders, DrainEarly
    <2> HIDE DEF Records
    <2> QED  BY <1>3, <2>1
  <1>5. CASE DrainHeaders
    BY <1>3, <1>4, <1>5, OnlyTold DEF DrainHeaders
  <1>6. CASE DrainEarly
    BY <1>3, <1>4, <1>6, OnlyTold DEF DrainEarly
  <1> QED  BY <1>5, <1>6

\* A delay that runs out was running.
LEMMA TimeGoesBy ==
    ASSUME Inv, NEW i \in Ids, TimePasses(i)
    PROVE  Inv'
  <1>1. /\ records[i].timer = "set" /\ records' = [records EXCEPT ![i].timer = "past"]
        /\ UNCHANGED <<repoVars, leases, queue, nextGen, nextLease, postVars, mainVars,
                       job, box, taskVars>>
    BY DEF TimePasses
  <1>2. records \in [Ids -> Records] /\ RecordsFit /\ pc \in {"idle", "early", "completions", "commit", "join", "reset"}
    BY DEF Inv, IInv, TypeOK
  <1> DEFINE r == [records[i] EXCEPT !.timer = "past"]
  <1>3. /\ r \in Records /\ r.phase = records[i].phase /\ r.path = records[i].path
        /\ r.gen = records[i].gen /\ r.leases = records[i].leases
        /\ r.priority = records[i].priority /\ r.task = records[i].task
        /\ r.queued = records[i].queued /\ r.textures = records[i].textures
        /\ r.model = records[i].model /\ r.timer = "past"
    BY <1>2 DEF Records
  <1>4. records' = [records EXCEPT ![i] = r]
    BY <1>1
  <1>5. records[i].phase # "none"
    BY <1>1, <1>2 DEF RecordsFit, Absent
  <1> HIDE DEF r, Records
  <1>6. records' \in [Ids -> Records] /\ records'[i] = r /\ \A j \in Ids \ {i} : records'[j] = records[j]
    BY <1>2, <1>3, <1>4
  <1>7. \A j \in Ids : Same(j)
    <2>1. Same(i)
      BY <1>3, <1>5, <1>6 DEF Same
    <2>2. \A j \in Ids \ {i} : Same(j)
      BY <1>6 DEF Same
    <2> QED  BY <2>1, <2>2
  <1> QED  BY <1>1, <1>2, <1>6, <1>7, OnlyTold

-----------------------------------------------------------------------------
(* The ends.                                                               *)

\* Shutdown closes the pool: what was queued is withdrawn, and its generation never posted.
LEMMA ShutsDown ==
    ASSUME Inv, Shutdown
    PROVE  Inv'
  <1>1. /\ UNCHANGED <<repoVars, recordVars, postVars, loader, progressed, loads, box>>
        /\ pc = "idle" /\ pc' \in {"join", "reset"} /\ resets' = resets + 1 /\ resets < MaxResets
        /\ job' = [t \in TaskIds |-> IF state[t] = "queued" THEN NoJob ELSE job[t]]
        /\ open' = FALSE /\ kept' = kept
        /\ state' = [t \in TaskIds |-> IF state[t] = "queued" THEN "withdrawn" ELSE state[t]]
    <2>1. CASE open
      BY <2>1 DEF Shutdown, Close
    <2>2. CASE ~open
      <3>1. \A t \in TaskIds : state[t] # "queued"
        BY <2>2 DEF Inv, IInv, PoolFits, In
      <3>2. state \in [TaskIds -> States] /\ open \in BOOLEAN
        BY DEF Inv, IInv, TypeOK
      <3>3. state = [t \in TaskIds |-> IF state[t] = "queued" THEN "withdrawn" ELSE state[t]]
        BY <3>1, <3>2
      <3> QED  BY <2>2, <3>2, <3>3 DEF Shutdown
    <2> QED  BY <2>1, <2>2
  <1>2. state \in [TaskIds -> States] /\ job \in [TaskIds -> Jobs]
    BY DEF Inv, IInv, TypeOK, Jobs
  <1>3. \A i \in Ids : Same(i)
    BY <1>1 DEF Same
  <1>4. /\ RecordsFit' /\ LeasesAreCounted' /\ LeasesFit' /\ TicketsFit'
        /\ QueueIsExact' /\ UnleasedIsTimed'
    BY <1>1, <1>3, RecordsTouched
  <1>5. RowsAreOwn'
    BY <1>1, RowsKept DEF Inv, IInv
  <1>6. TasksAreWanted' /\ PoolFits'
    BY <1>1 DEF TasksAreWanted, PoolFits, In
  <1>7. TasksFit'
    <2>1. \A i \in Ids : records[i].task \in TaskIds \cup {None}
      BY DEF Inv, IInv, TypeOK, Records
    <2>2. \A t \in TaskIds : state'[t] # "queued" /\ (state[t] # "new" => state'[t] # "new")
      BY <1>1
    <2> QED  BY <1>1, <2>1, <2>2 DEF TasksFit, Inv, IInv
  <1>8. PostsAreOnce'
    <2>1. \A t \in Working' : t \in Working /\ job'[t] = job[t]
      BY <1>1 DEF Working, In
    <2>2. nextGen \in Nat
      BY DEF Inv, IInv, TypeOK
    <2> QED  BY <1>1, <2>1, <2>2, PostsKept DEF Inv, IInv
  <1>9. TypeOK'
    <2>1. NoJob \in Jobs /\ "withdrawn" \in States
      BY DEF NoJob, Jobs, States
    <2>2. state' \in [TaskIds -> States] /\ job' \in [TaskIds -> Jobs]
      BY <1>1, <1>2, <2>1
    <2>3. resets' \in 0 .. MaxResets
      BY <1>1, StreamerAssumption DEF Inv, IInv, TypeOK
    <2>4. open' \in BOOLEAN /\ pc' \in {"idle", "early", "completions", "commit", "join", "reset"}
      BY <1>1
    <2>5. TypeOK
      BY DEF Inv, IInv
    <2> QED  BY <1>1, <2>2, <2>3, <2>4, <2>5 DEF TypeOK, Jobs
  <1> QED  BY <1>4, <1>5, <1>6, <1>7, <1>8, <1>9 DEF Inv, IInv

\* What forgets every record and every lease.
LEMMA AllForgotten ==
    ASSUME Inv, NothingIsKnown, UNCHANGED nextModel, nextGen' = nextGen,
           \A p \in Paths : rows'[p] \in {rows[p], None},
           open' => kept' = {}, pc' = "idle", ~open' => In("queued")' = {},
           \A t \in Working' : t \in Working /\ job'[t] = job[t]
    PROVE  /\ RecordsFit' /\ LeasesAreCounted' /\ LeasesFit' /\ TicketsFit'
           /\ QueueIsExact' /\ RowsAreOwn' /\ UnleasedIsTimed'
           /\ TasksAreWanted' /\ TasksFit' /\ PoolFits' /\ PostsAreOnce'
  <1>1. /\ Held' = {} /\ Known' = {} /\ \A i \in Ids : records'[i] = Absent
        /\ queue' = <<>> /\ finals' = <<>>
    BY DEF NothingIsKnown, NewMailbox, Held, Known, Absent
  <1>2. /\ Absent.phase = "none" /\ Absent.task = None /\ Absent.leases = 0
        /\ Absent.textures = 0 /\ Absent.queued = FALSE
    BY DEF Absent
  <1>3. RecordsFit' /\ TasksAreWanted' /\ TasksFit' /\ PoolFits'
    <2>1. RecordsFit'
      BY <1>1, <1>2 DEF RecordsFit
    <2>2. TasksFit'
      <3>1. \A i \in Ids : records'[i].task = None
        BY <1>1, <1>2
      <3> QED  BY <3>1 DEF TasksFit
    <2>3. TasksAreWanted' /\ PoolFits'
      BY <1>1 DEF TasksAreWanted, PoolFits
    <2> QED  BY <2>1, <2>2, <2>3
  <1>4. UnleasedIsTimed' /\ LeasesFit' /\ TicketsFit'
    BY <1>1 DEF UnleasedIsTimed, LeasesFit, TicketsFit
  <1>5. LeasesAreCounted'
    <2>1. \A i : LeasesOf(i)' = {}
      BY <1>1 DEF LeasesOf
    <2>2. Cardinality({}) = 0
      BY FS_EmptySet
    <2>3. \A i \in Ids : Cardinality(LeasesOf(i)') = 0 /\ records'[i].leases = 0
      BY <1>1, <1>2, <2>1, <2>2
    <2> QED  BY <2>3 DEF LeasesAreCounted
  <1>6. DOMAIN queue' = {} /\ ToSet(queue') = {}
    BY <1>1 DEF ToSet
  <1>7. QueueIsExact'
    BY <1>1, <1>6, <1>2 DEF QueueIsExact
  <1>8. RowsAreOwn'
    <2>1. \A p \in Paths : rows[p] \in Nat /\ rows[p] < nextModel /\ None \in Nat /\ None <= rows[p]
      BY DEF Inv, IInv, TypeOK, RowsAreOwn, Ids, None
    <2>2. nextModel \in Nat
      BY DEF Inv, IInv, TypeOK
    <2>3. \A p \in Paths : rows'[p] < nextModel'
      <3>1. ASSUME NEW p \in Paths PROVE rows'[p] < nextModel'
        BY <2>1, <2>2
      <3> QED  BY <3>1
    <2>4. \A p, q \in Paths : rows'[p] = rows'[q] /\ rows'[p] # None => p = q
      BY DEF Inv, IInv, RowsAreOwn
    <2> QED  BY <1>1, <2>3, <2>4 DEF RowsAreOwn
  <1>9. PostsAreOnce'
    <2>1. nextGen \in Nat
      BY DEF Inv, IInv, TypeOK
    <2> QED  BY <1>1, <2>1, PostsKept DEF Inv, IInv
  <1> QED  BY <1>3, <1>5, <1>7, <1>8, <1>9, <1>4

\* What is known of nothing is of the right kind.
LEMMA ForgottenFits ==
    ASSUME NothingIsKnown, box \in Nat
    PROVE  /\ records' \in [Ids -> Records] /\ leases' \in Leases /\ queue' \in Seq(Ids)
           /\ box' \in Nat /\ headers' = {} /\ earlies' = {} /\ finals' \in Seq(Posts)
  <1>1. Absent \in Records
    BY StreamerAssumption DEF Absent, Records, Phases, None, Ids
  <1>2. NoLease \in [record : Ids \cup {None}, gen : Nat]
    BY DEF NoLease
  <1> HIDE DEF Records
  <1> QED  BY <1>1, <1>2 DEF NothingIsKnown, NewMailbox, Leases

\* The end of a shutdown leaves no record, no lease and no row of a model that is gone.
LEMMA WorkersJoined ==
    ASSUME Inv, Joined
    PROVE  Inv'
  <1>1. /\ NothingIsKnown /\ UNCHANGED <<nextModel, progressed, resets, loads, job, taskVars>>
        /\ pc' = "idle" /\ loader' = FALSE /\ pc \in {"join", "reset"} /\ nextGen' = nextGen
        /\ nextLease' = nextLease
    BY DEF Joined, NothingIsKnown
  <1>2. /\ models' \subseteq models /\ instances' \subseteq instances
        /\ \A p \in Paths : rows'[p] \in {rows[p], None}
        /\ rows' = [p \in Paths |-> rows'[p]]
    BY DEF Joined, RowsWithout
  <1>3. Working' = Working /\ ~open /\ ~open' /\ In("queued")' = {}
    BY <1>1 DEF Working, In, Inv, IInv, PoolFits
  <1>4. /\ RecordsFit' /\ LeasesAreCounted' /\ LeasesFit' /\ TicketsFit'
        /\ QueueIsExact' /\ RowsAreOwn' /\ UnleasedIsTimed'
        /\ TasksAreWanted' /\ TasksFit' /\ PoolFits' /\ PostsAreOnce'
    BY <1>1, <1>2, <1>3, AllForgotten
  <1>5. TypeOK'
    <2>1. TypeOK
      BY DEF Inv, IInv
    <2>2. rows' \in [Paths -> Ids \cup {None}]
      BY <1>2, <2>1 DEF TypeOK
    <2>3. /\ records' \in [Ids -> Records] /\ leases' \in Leases /\ queue' \in Seq(Ids)
          /\ box' \in Nat /\ headers' = {} /\ earlies' = {} /\ finals' \in Seq(Posts)
      BY <1>1, <2>1, ForgottenFits DEF TypeOK
    <2> QED  BY <1>1, <1>2, <2>1, <2>2, <2>3 DEF TypeOK, Leases, Posts
  <1> QED  BY <1>4, <1>5 DEF Inv, IInv

\* The loss of the device forgets everything but the tasks that run.
LEMMA DeviceLost ==
    ASSUME Inv, DeviceReset
    PROVE  Inv'
  <1> DEFINE theirs == {records[i].task : i \in Known}
  <1>1. /\ NothingIsKnown /\ UNCHANGED <<nextModel, loader, pc, progressed, loads>>
        /\ pc = "idle" /\ resets < MaxResets /\ resets' = resets + 1
        /\ models' = {} /\ instances' = {} /\ rows' = [p \in Paths |-> None]
        /\ nextGen' = nextGen /\ nextLease' = nextLease
    BY DEF DeviceReset, NothingIsKnown
  <1>2. /\ state' = [t \in TaskIds |-> IF t \in theirs /\ state[t] = "queued"
                                          THEN "withdrawn" ELSE state[t]]
        /\ job' = [t \in TaskIds |-> IF t \in theirs /\ state[t] = "queued"
                                        THEN NoJob ELSE job[t]]
        /\ kept' = kept \ theirs /\ open' = open
    BY DEF DeviceReset, CancelAndForget
  <1>3. TypeOK /\ TasksAreWanted /\ PoolFits
    BY DEF Inv, IInv
  <1>4. open' => kept' = {}
    BY <1>2, <1>3 DEF TasksAreWanted
  <1> HIDE DEF theirs
  <1>5. \A t \in Working' : t \in Working /\ job'[t] = job[t]
    BY <1>2 DEF Working, In
  <1>6. ~open' => In("queued")' = {}
    BY <1>2, <1>3 DEF PoolFits, In
  <1>7. /\ RecordsFit' /\ LeasesAreCounted' /\ LeasesFit' /\ TicketsFit'
        /\ QueueIsExact' /\ RowsAreOwn' /\ UnleasedIsTimed'
        /\ TasksAreWanted' /\ TasksFit' /\ PoolFits' /\ PostsAreOnce'
    BY <1>1, <1>4, <1>5, <1>6, AllForgotten
  <1>8. TypeOK'
    <2>1. /\ records' \in [Ids -> Records] /\ leases' \in Leases /\ queue' \in Seq(Ids)
          /\ box' \in Nat /\ headers' = {} /\ earlies' = {} /\ finals' \in Seq(Posts)
      BY <1>1, <1>3, ForgottenFits DEF TypeOK
    <2>2. NoJob \in Jobs /\ "withdrawn" \in States
      BY DEF NoJob, Jobs, States
    <2>3. state' \in [TaskIds -> States] /\ job' \in [TaskIds -> Jobs] /\ kept' \subseteq TaskIds
      BY <1>2, <1>3, <2>2 DEF TypeOK, Jobs
    <2>4. resets' \in 0 .. MaxResets
      BY <1>1, <1>3, StreamerAssumption DEF TypeOK
    <2> QED  BY <1>1, <1>2, <1>3, <2>1, <2>3, <2>4 DEF TypeOK, Leases, Jobs, Posts
  <1> QED  BY <1>7, <1>8 DEF Inv, IInv

-----------------------------------------------------------------------------
(* Records that go.                                                        *)

\* Records that are ready or have failed, and that nobody leases, are removed.
LEMMA RecordsRemoved ==
    ASSUME Inv, NEW gone, NEW ids \in SUBSET Known,
           \A i \in ids : records[i].leases = 0 /\ records[i].phase \in {"ready", "failed"},
           \A i \in Ids : IF i \in ids THEN records'[i] = Absent ELSE Same(i),
           \A i \in Ids \ ids : i \in models => i \in models',
           \A i \in gone : i \in ids,
           rows' = RowsWithout(gone, ids),
           UNCHANGED <<nextModel, leases, nextGen, nextLease, finals, job, taskVars>>,
           pc \notin {"join", "reset"}, pc' \notin {"join", "reset"}
    PROVE  /\ RecordsFit' /\ LeasesAreCounted' /\ LeasesFit' /\ TicketsFit'
           /\ QueuedByPhase' /\ UnleasedIsTimed' /\ RowsAreOwn' /\ rows' \in [Paths -> Ids \cup {None}]
           /\ TasksAreWanted' /\ TasksFit' /\ PoolFits' /\ PostsAreOnce'
           /\ \A i \in Ids : records'[i].queued = records[i].queued
  <1>1. /\ Absent.phase = "none" /\ Absent.task = None /\ Absent.leases = 0
        /\ Absent.textures = 0 /\ Absent.queued = FALSE
    BY DEF Absent
  <1>2. TypeOK /\ RecordsFit /\ QueueIsExact /\ UnleasedIsTimed /\ RowsAreOwn
    BY DEF Inv, IInv
  <1>3. \A i \in Ids : records[i].queued \in BOOLEAN
    BY <1>2 DEF TypeOK, Records
  <1>4. \A i \in ids : /\ i \in Ids /\ records'[i] = Absent /\ records[i].task = None
                       /\ records[i].queued = FALSE /\ records[i].leases = 0
    BY <1>2, <1>3 DEF RecordsFit, QueueIsExact, Known
  <1>5. \A i \in Ids \ ids : Same(i)
    OBVIOUS
  <1>6. RecordsFit'
    <2>1. ASSUME NEW i \in ids
          PROVE  /\ records'[i] = Absent /\ records'[i].phase = "none"
                 /\ records'[i].textures = 0 /\ records'[i].task = None
      BY <1>1, <1>4
    <2>2. ASSUME NEW i \in Ids \ ids
          PROVE  /\ records'[i].phase = "none" => records'[i] = Absent
                 /\ records'[i].phase # "none" => records'[i].gen < nextGen'
                 /\ records'[i].phase = "textures" <=> records'[i].textures > 0
                 /\ records'[i].phase = "preparing" <=> records'[i].task # None
                 /\ records'[i].phase = "ready" => records'[i].model = i /\ i \in models'
                 /\ records'[i].phase = "failed" => records'[i].timer # "off"
      BY <1>2, <1>5 DEF RecordsFit, Same
    <2> QED  BY <2>1, <2>2 DEF RecordsFit
  <1>7. \A i \in Ids : /\ records'[i].leases = records[i].leases
                       /\ records'[i].queued = records[i].queued
                       /\ records'[i].task = records[i].task
    BY <1>1, <1>4, <1>5 DEF Same
  <1>8. LeasesAreCounted' /\ LeasesFit' /\ TicketsFit'
    <2>1. \A i \in Ids : records[i].leases # 0 /\ records[i].phase # "none" =>
               records'[i].phase # "none" /\ records'[i].gen = records[i].gen
      BY <1>4, <1>5 DEF Same
    <2> QED  BY <1>7, <2>1, LeasesKept DEF Inv, IInv
  <1>9. QueuedByPhase'
    BY <1>1, <1>2, <1>4, <1>5 DEF QueuedByPhase, QueueIsExact, Same
  <1>10. UnleasedIsTimed'
    BY <1>1, <1>2, <1>4, <1>5 DEF UnleasedIsTimed, Known, Same
  <1>11. RowsAreOwn' /\ rows' \in [Paths -> Ids \cup {None}]
    <2>1. \A i \in Ids : records'[i].phase # "none" =>
               /\ records[i].phase # "none" /\ records'[i].path = records[i].path
               /\ i \notin gone /\ i \notin ids
      BY <1>1, <1>4, <1>5 DEF Same
    <2> QED  BY <1>2, <2>1, RowsErased
  <1>12. TasksAreWanted' /\ TasksFit'
    <2> DEFINE D == {}
    <2>1. /\ open' = open /\ kept' = kept \ D
          /\ \A i \in Ids : records'[i].task = IF records[i].task \in D THEN None ELSE records[i].task
      BY <1>7
    <2> HIDE DEF D
    <2>2. \A i \in Ids : records'[i].task # None => records'[i].gen = records[i].gen
      BY <1>4, <1>5, <1>7 DEF Same
    <2>3. TasksAreWanted /\ TasksFit
      BY DEF Inv, IInv
    <2> QED  BY <1>2, <1>6, <2>1, <2>2, <2>3, TasksDropped
  <1>13. PoolFits'
    BY DEF Inv, IInv, PoolFits, In
  <1>14. PostsAreOnce'
    <2>1. Working' = Working /\ nextGen \in Nat
      BY <1>2 DEF Working, In, TypeOK
    <2> QED  BY <1>2, <2>1, PostsKept DEF Inv, IInv
  <1> QED  BY <1>6, <1>7, <1>8, <1>9, <1>10, <1>11, <1>12, <1>13, <1>14

\* A new loader drops failures that nobody leases, with their rows.
LEMMA LoaderSet ==
    ASSUME Inv, SetFileLoader
    PROVE  Inv'
  <1> DEFINE obsolete == {i \in Known : records[i].phase = "failed" /\ records[i].leases = 0}
  <1>1. /\ records' = Removed(obsolete) /\ rows' = RowsWithout({}, obsolete)
        /\ pc = "idle" /\ loader' = TRUE
        /\ UNCHANGED <<models, instances, nextModel, leases, queue, nextGen, nextLease,
                       postVars, pc, progressed, resets, loads, job, box, taskVars>>
    BY DEF SetFileLoader
  <1>2. obsolete \subseteq Known /\ obsolete \subseteq Ids
        /\ \A i \in obsolete : records[i].leases = 0 /\ records[i].phase \in {"ready", "failed"}
    BY DEF Known
  <1> HIDE DEF obsolete
  <1>3. \A i \in Ids : records'[i] = IF i \in obsolete THEN Absent ELSE records[i]
    BY <1>1 DEF Removed
  <1>4. \A i \in Ids : IF i \in obsolete THEN records'[i] = Absent ELSE Same(i)
    BY <1>3 DEF Same
  <1>5. /\ RecordsFit' /\ LeasesAreCounted' /\ LeasesFit' /\ TicketsFit'
        /\ QueuedByPhase' /\ UnleasedIsTimed' /\ RowsAreOwn' /\ rows' \in [Paths -> Ids \cup {None}]
        /\ TasksAreWanted' /\ TasksFit' /\ PoolFits' /\ PostsAreOnce'
        /\ \A i \in Ids : records'[i].queued = records[i].queued
    BY <1>1, <1>2, <1>4, RecordsRemoved
  <1>6. QueueIsExact'
    <2>1. \A i \in Ids : records[i].queued => records'[i].priority = records[i].priority
      <3>1. Absent.queued = FALSE
        BY DEF Absent
      <3> QED  BY <1>3, <1>5, <3>1
    <2> QED  BY <1>1, <1>5, <2>1, QueueKept DEF Inv, IInv
  <1>7. TypeOK'
    <2>1. TypeOK /\ Absent \in Records
      BY StreamerAssumption DEF Inv, IInv, Absent, Records, Phases, None, Ids
    <2> HIDE DEF Records
    <2>2. records' \in [Ids -> Records]
      BY <1>1, <2>1 DEF Removed, TypeOK
    <2> QED  BY <1>1, <1>5, <2>1, <2>2 DEF TypeOK
  <1> QED  BY <1>5, <1>6, <1>7 DEF Inv, IInv

\* The end of Pump recycles records that nobody leases, with their models and rows; a
\* commit that was only looked up goes back to its place.
LEMMA PumpEnds ==
    ASSUME Inv, EndPump
    PROVE  Inv'
  <1> DEFINE refused == {i \in Expired : records[i].model \in instances}
             gone == {records[i].model : i \in Expired \ refused}
             removed == Stale \cup (Expired \ refused)
  <1>1. /\ models' = models \ gone /\ rows' = RowsWithout(gone, removed)
        /\ records' = [i \in Ids |->
                          IF i \in removed THEN Absent
                          ELSE IF i \in refused THEN [records[i] EXCEPT !.timer = "set"]
                          ELSE records[i]]
        /\ pc = "commit" /\ pc' = "idle" /\ progressed' = FALSE
        /\ UNCHANGED <<instances, nextModel, leases, nextGen, nextLease, postVars, loader,
                       resets, loads, job, box, taskVars>>
        /\ \/ queue' = queue
           \/ queue # <<>> /\ queue' = Requeue(Head(queue))
    BY DEF EndPump
  <1>2. TypeOK /\ RecordsFit /\ QueueIsExact
    BY DEF Inv, IInv
  <1>3. /\ removed \subseteq Known /\ removed \subseteq Ids
        /\ \A i \in removed : records[i].leases = 0 /\ records[i].phase \in {"ready", "failed"}
        /\ \A i \in gone : i \in removed
        /\ \A i \in refused : records[i].phase = "ready"
    BY <1>2 DEF Expired, Stale, Known, RecordsFit
  <1> HIDE DEF gone, removed, refused
  <1>4. ASSUME NEW i \in Ids
        PROVE  /\ IF i \in removed THEN records'[i] = Absent ELSE Same(i)
               /\ records'[i] \in Records
    <2>1. records[i] \in Records /\ Absent \in Records
      BY <1>2, StreamerAssumption DEF TypeOK, Absent, Records, Phases, None, Ids
    <2> DEFINE r == [records[i] EXCEPT !.timer = "set"]
    <2>2. /\ r \in Records /\ r.phase = records[i].phase /\ r.path = records[i].path
          /\ r.gen = records[i].gen /\ r.leases = records[i].leases
          /\ r.priority = records[i].priority /\ r.task = records[i].task
          /\ r.queued = records[i].queued /\ r.textures = records[i].textures
          /\ r.model = records[i].model /\ r.timer = "set"
      BY <2>1 DEF Records
    <2>3. records'[i] = IF i \in removed THEN Absent ELSE IF i \in refused THEN r ELSE records[i]
      BY <1>1
    <2> HIDE DEF r, Records
    <2>4. CASE i \in removed
      BY <2>1, <2>3, <2>4
    <2>5. CASE i \notin removed /\ i \in refused
      BY <1>3, <2>2, <2>3, <2>5 DEF Same
    <2>6. CASE i \notin removed /\ i \notin refused
      BY <2>1, <2>3, <2>6 DEF Same
    <2> QED  BY <2>4, <2>5, <2>6
  <1>5. \A i \in Ids \ removed : i \in models => i \in models'
    BY <1>1, <1>3
  <1>6. /\ RecordsFit' /\ LeasesAreCounted' /\ LeasesFit' /\ TicketsFit'
        /\ QueuedByPhase' /\ UnleasedIsTimed' /\ RowsAreOwn' /\ rows' \in [Paths -> Ids \cup {None}]
        /\ TasksAreWanted' /\ TasksFit' /\ PoolFits' /\ PostsAreOnce'
        /\ \A i \in Ids : records'[i].queued = records[i].queued
    BY <1>1, <1>3, <1>4, <1>5, RecordsRemoved
  <1>7. \A i \in Ids : records[i].queued => records'[i].priority = records[i].priority
    <2>1. Absent.queued = FALSE
      BY DEF Absent
    <2> QED  BY <1>4, <1>6, <2>1 DEF Same
  <1>8. QueueIsExact' /\ queue' \in Seq(Ids)
    <2>1. CASE queue' = queue
      BY <1>2, <1>6, <1>7, <2>1, QueueKept DEF TypeOK
    <2>2. CASE queue # <<>> /\ queue' = Requeue(Head(queue))
      <3>1. 1 \in DOMAIN queue /\ Head(queue) = queue[1] /\ Tail(queue) = RemoveAt(queue, 1)
        BY <1>2, <2>2, TailTakesOut DEF TypeOK
      <3> DEFINE i == queue[1]
      <3>2. i \in Ids /\ records[i].queued
        BY <1>2, <3>1 DEF TypeOK, QueueIsExact, ToSet
      <3>3. records[i].priority \in Nat
        BY <1>2, <3>2 DEF TypeOK, Records
      <3>4. queue' = Insert(RemoveAt(queue, 1), queue[1], records[i].priority)
        BY <2>2, <3>1 DEF Requeue
      <3>5. records'[i].queued /\ records'[i].priority = records[i].priority
        BY <1>6, <1>7, <3>2
      <3> HIDE DEF i
      <3>6. records'[queue[1]].queued /\ records'[queue[1]].priority = records[i].priority
        BY <3>5 DEF i
      <3>7. \A j \in Ids \ {queue[1]} :
                /\ records'[j].queued = records[j].queued
                /\ records[j].queued => records'[j].priority = records[j].priority
        BY <1>6, <1>7
      <3> QED  BY <1>2, <1>6, <3>1, <3>3, <3>4, <3>6, <3>7, QueueMoves
    <2> QED  BY <1>1, <2>1, <2>2
  <1>9. TypeOK'
    <2>1. records' \in [Ids -> Records]
      <3>1. records' = [i \in Ids |-> records'[i]]
        BY <1>1
      <3> HIDE DEF Records
      <3> QED  BY <1>4, <3>1
    <2>2. models' \subseteq Ids
      BY <1>1, <1>2 DEF TypeOK
    <2> QED  BY <1>1, <1>2, <1>6, <1>8, <2>1, <2>2 DEF TypeOK
  <1> QED  BY <1>6, <1>8, <1>9 DEF Inv, IInv

-----------------------------------------------------------------------------
(* The commits.                                                            *)

\* The first of the queue gets on, becomes ready or fails.
LEMMA Committed ==
    ASSUME Inv, NEW i \in Ids, i \in Known, records[i].phase \in {"textures", "model"},
           NEW r \in Records, records' = [records EXCEPT ![i] = r],
           r.path = records[i].path, r.gen = records[i].gen, r.leases = records[i].leases,
           r.task = None, r.phase \in {"textures", "model", "ready", "failed"},
           r.phase = "textures" <=> r.textures > 0,
           r.queued <=> r.phase \in {"textures", "model"},
           r.phase = "ready" => r.model = i /\ i \in models',
           r.phase = "failed" => r.timer # "off",
           r.phase = "ready" /\ r.leases = 0 => r.timer # "off",
           models \subseteq models',
           UNCHANGED <<leases, nextGen, nextLease, finals, pc, job, taskVars>>
    PROVE  /\ RecordsFit' /\ LeasesAreCounted' /\ LeasesFit' /\ TicketsFit'
           /\ QueuedByPhase' /\ UnleasedIsTimed'
           /\ TasksAreWanted' /\ TasksFit' /\ PoolFits' /\ PostsAreOnce'
           /\ records' \in [Ids -> Records]
           /\ records'[i] = r /\ \A j \in Ids \ {i} : records'[j] = records[j]
  <1>1. TypeOK /\ RecordsFit /\ QueueIsExact /\ UnleasedIsTimed
    BY DEF Inv, IInv
  <1>2. /\ records' \in [Ids -> Records]
        /\ records'[i] = r /\ \A j \in Ids \ {i} : records'[j] = records[j]
    <2>1. records \in [Ids -> Records]
      BY <1>1 DEF TypeOK
    <2> HIDE DEF Records
    <2> QED  BY <2>1
  <1>3. RecordsFit'
    <2>1. r.gen < nextGen'
      BY <1>1 DEF RecordsFit
    <2> QED  BY <1>1, <1>2, <2>1 DEF RecordsFit
  <1>4. LeasesAreCounted' /\ LeasesFit' /\ TicketsFit'
    <2>1. \A j \in Ids : /\ records'[j].leases = records[j].leases
                         /\ records'[j].gen = records[j].gen
                         /\ records[j].phase # "none" => records'[j].phase # "none"
      BY <1>2
    <2> QED  BY <2>1, LeasesKept DEF Inv, IInv
  <1>5. QueuedByPhase' /\ UnleasedIsTimed'
    BY <1>1, <1>2 DEF QueuedByPhase, QueueIsExact, UnleasedIsTimed, Known
  <1>6. TasksAreWanted' /\ TasksFit'
    <2> DEFINE D == {}
    <2>1. records[i].task = None
      BY <1>1 DEF RecordsFit
    <2>2. /\ open' = open /\ kept' = kept \ D
          /\ \A j \in Ids : records'[j].task = IF records[j].task \in D THEN None ELSE records[j].task
          /\ \A j \in Ids : records'[j].gen = records[j].gen
      BY <1>2, <2>1
    <2> HIDE DEF D
    <2>3. TasksAreWanted /\ TasksFit
      BY DEF Inv, IInv
    <2> QED  BY <1>1, <1>3, <2>2, <2>3, TasksDropped
  <1>7. PoolFits'
    BY DEF Inv, IInv, PoolFits, In
  <1>8. PostsAreOnce'
    <2>1. Working' = Working /\ nextGen \in Nat
      BY <1>1 DEF Working, In, TypeOK
    <2> QED  BY <1>1, <2>1, PostsKept DEF Inv, IInv
  <1> QED  BY <1>2, <1>3, <1>4, <1>5, <1>6, <1>7, <1>8

\* What a failure leaves of a record.
LEMMA FailedFits ==
    ASSUME NEW r \in Records, r.task = None
    PROVE  LET f == Failed(r) IN
           /\ f \in Records /\ f.path = r.path /\ f.gen = r.gen /\ f.leases = r.leases
           /\ f.priority = r.priority /\ f.task = None /\ f.phase = "failed" /\ f.textures = 0
           /\ f.queued = FALSE /\ f.timer = "set"
  <1>1. 0 \in 0 .. MaxTextures
    BY StreamerAssumption
  <1> DEFINE f == Failed(r)
  <1>2. f \in Records
    <2> DEFINE T == 0 .. MaxTextures
               M == Ids \cup {None}
               P == Paths \cup {NoPath}
               K == TaskIds \cup {None}
    <2>1. /\ r \in [phase : Phases, path : P, gen : Nat, leases : Nat, priority : Nat, task : K,
                    queued : BOOLEAN, textures : T, timer : {"off", "set", "past"},
                    info : {"none", "header", "model"}, model : M]
          /\ 0 \in T /\ "failed" \in Phases
      BY <1>1 DEF Records, Phases
    <2> HIDE DEF T, M, P, K
    <2>2. f \in [phase : Phases, path : P, gen : Nat, leases : Nat, priority : Nat, task : K,
                 queued : BOOLEAN, textures : T, timer : {"off", "set", "past"},
                 info : {"none", "header", "model"}, model : M]
      BY <2>1 DEF Failed
    <2> QED  BY <2>2 DEF Records, T, M, P, K
  <1>3. /\ f.path = r.path /\ f.gen = r.gen /\ f.leases = r.leases /\ f.priority = r.priority
        /\ f.task = r.task
    BY DEF Failed, Records
  <1>4. f.phase = "failed" /\ f.textures = 0 /\ f.queued = FALSE /\ f.timer = "set"
    BY DEF Failed, Records
  <1> QED  BY <1>2, <1>3, <1>4

\* The head of the queue, and what is known of it.
LEMMA HeadFacts ==
    ASSUME Inv, queue # <<>>
    PROVE  /\ 1 \in DOMAIN queue /\ Head(queue) = queue[1] /\ Tail(queue) = RemoveAt(queue, 1)
           /\ Head(queue) \in Ids /\ Head(queue) \in Known /\ records[Head(queue)] \in Records
           /\ records[Head(queue)].task = None /\ records[Head(queue)].queued = TRUE
  <1>1. TypeOK /\ RecordsFit /\ QueueIsExact
    BY DEF Inv, IInv
  <1>2. 1 \in DOMAIN queue /\ Head(queue) = queue[1] /\ Tail(queue) = RemoveAt(queue, 1)
    BY <1>1, TailTakesOut DEF TypeOK
  <1> DEFINE i == queue[1]
  <1>3. i \in Ids /\ records[i].queued
    BY <1>1, <1>2 DEF TypeOK, QueueIsExact, ToSet
  <1>4. records[i] \in Records /\ records[i].phase \in {"textures", "model"}
    BY <1>1, <1>3 DEF TypeOK, QueueIsExact
  <1>5. records[i].task = None /\ i \in Known
    BY <1>1, <1>3, <1>4 DEF RecordsFit, Known
  <1>6. records[i].queued = TRUE
    BY <1>3, <1>4 DEF Records
  <1> QED  BY <1>2, <1>3, <1>4, <1>5, <1>6

\* A texture committed moves its record behind those of its priority; one that cannot be
\* takes it out of the queue.
LEMMA TextureCommitted ==
    ASSUME Inv, CommitOne, CommitTexture(Head(queue))
    PROVE  Inv'
  <1> DEFINE i == Head(queue)
  <1>1. /\ 1 \in DOMAIN queue /\ i = queue[1] /\ Tail(queue) = RemoveAt(queue, 1)
        /\ i \in Ids /\ i \in Known /\ records[i] \in Records
        /\ records[i].task = None /\ records[i].queued = TRUE
    BY HeadFacts DEF CommitOne
  <1>2. TypeOK /\ RecordsFit /\ QueueIsExact /\ RowsAreOwn
    BY DEF Inv, IInv
  <1>3. /\ UNCHANGED <<repoVars, leases, nextGen, nextLease, postVars, loader, pc, resets, loads,
                       job, box, taskVars>>
        /\ records[i].phase = "textures"
    BY DEF CommitOne, CommitTexture
  <1>4. records[i].textures > 0
    BY <1>1, <1>2, <1>3 DEF RecordsFit
  <1> DEFINE left == records[i].textures - 1
             next == [records[i] EXCEPT !.textures = left, !.phase = CommitPhase(left)]
             worst == Failed(records[i])
  <1>5. \/ records' = [records EXCEPT ![i] = next] /\ queue' = Requeue(i) /\ progressed' = TRUE
        \/ records' = [records EXCEPT ![i] = worst] /\ queue' = Tail(queue) /\ progressed' = progressed
    BY DEF CommitTexture
  <1>6. /\ next \in Records /\ next.path = records[i].path /\ next.gen = records[i].gen
        /\ next.leases = records[i].leases /\ next.task = None /\ next.priority = records[i].priority
        /\ next.phase \in {"textures", "model"} /\ next.queued = TRUE
        /\ next.phase = "textures" <=> next.textures > 0
    <2>1. left \in 0 .. MaxTextures /\ left \in Nat
      BY <1>1, <1>4, StreamerAssumption DEF Records
    <2> HIDE DEF left
    <2>2. CommitPhase(left) \in {"textures", "model"} /\ (CommitPhase(left) = "textures" <=> left > 0)
      BY <2>1 DEF CommitPhase
    <2> QED  BY <1>1, <2>1, <2>2 DEF Records, Phases
  <1>7. /\ worst \in Records /\ worst.path = records[i].path /\ worst.gen = records[i].gen
        /\ worst.leases = records[i].leases /\ worst.task = None
        /\ worst.phase = "failed" /\ worst.textures = 0 /\ worst.queued = FALSE /\ worst.timer = "set"
    BY <1>1, FailedFits
  <1> HIDE DEF next, worst
  <1>8. /\ ~(worst.textures > 0) /\ worst.timer # "off"
        /\ worst.phase \notin {"textures", "model", "ready"}
    BY <1>7
  <1>9. CASE records' = [records EXCEPT ![i] = next] /\ queue' = Requeue(i) /\ progressed' = TRUE
    <2>1. /\ RecordsFit' /\ LeasesAreCounted' /\ LeasesFit' /\ TicketsFit'
          /\ QueuedByPhase' /\ UnleasedIsTimed'
          /\ TasksAreWanted' /\ TasksFit' /\ PoolFits' /\ PostsAreOnce'
          /\ records' \in [Ids -> Records]
          /\ records'[i] = next /\ \A j \in Ids \ {i} : records'[j] = records[j]
      BY <1>1, <1>3, <1>6, <1>9, Committed
    <2>2. QueueIsExact' /\ queue' \in Seq(Ids)
      <3>1. records[i].priority \in Nat
        BY <1>1 DEF Records
      <3>2. queue' = Insert(RemoveAt(queue, 1), queue[1], records[i].priority)
        BY <1>1, <1>9 DEF Requeue
      <3>3. records'[queue[1]].queued /\ records'[queue[1]].priority = records[i].priority
        BY <1>1, <1>6, <2>1
      <3>4. \A j \in Ids \ {queue[1]} : records'[j] = records[j]
        BY <1>1, <2>1
      <3> QED  BY <1>1, <1>2, <2>1, <3>1, <3>2, <3>3, <3>4, QueueMoves
    <2>3. RowsAreOwn'
      BY <1>2, <1>3, <1>6, <1>1, <2>1, RowsKept DEF Known
    <2>4. TypeOK'
      BY <1>2, <1>3, <1>9, <2>1, <2>2 DEF TypeOK
    <2> QED  BY <2>1, <2>2, <2>3, <2>4 DEF Inv, IInv
  <1>10. CASE records' = [records EXCEPT ![i] = worst] /\ queue' = Tail(queue)
                /\ progressed' = progressed
    <2>1. /\ RecordsFit' /\ LeasesAreCounted' /\ LeasesFit' /\ TicketsFit'
          /\ QueuedByPhase' /\ UnleasedIsTimed'
          /\ TasksAreWanted' /\ TasksFit' /\ PoolFits' /\ PostsAreOnce'
          /\ records' \in [Ids -> Records]
          /\ records'[i] = worst /\ \A j \in Ids \ {i} : records'[j] = records[j]
      BY <1>1, <1>3, <1>7, <1>8, <1>10, Committed
    <2>2. QueueIsExact' /\ queue' \in Seq(Ids)
      BY <1>1, <1>2, <1>7, <1>10, <2>1, QueueLoses
    <2>3. RowsAreOwn'
      BY <1>2, <1>3, <1>7, <1>1, <2>1, RowsKept DEF Known
    <2>4. TypeOK'
      BY <1>2, <1>3, <1>10, <2>1, <2>2 DEF TypeOK
    <2> QED  BY <2>1, <2>2, <2>3, <2>4 DEF Inv, IInv
  <1> QED  BY <1>5, <1>9, <1>10

\* The model is published under the id its record has: the row leads to it.
LEMMA ModelCommitted ==
    ASSUME Inv, CommitOne, CommitModel(Head(queue))
    PROVE  Inv'
  <1> DEFINE i == Head(queue)
             p == records[i].path
  <1>1. /\ 1 \in DOMAIN queue /\ i = queue[1] /\ Tail(queue) = RemoveAt(queue, 1)
        /\ i \in Ids /\ i \in Known /\ records[i] \in Records
        /\ records[i].task = None /\ records[i].queued = TRUE
    BY HeadFacts DEF CommitOne
  <1>2. TypeOK /\ RecordsFit /\ QueueIsExact /\ RowsAreOwn
    BY DEF Inv, IInv
  <1>3. p \in Paths /\ IdFor(p) = i
    <2>1. i # None
      BY <1>1 DEF Ids, None
    <2> QED  BY <1>1, <1>2, <2>1 DEF RowsAreOwn, IdFor
  <1> DEFINE best == BecomesReady(records[i], i)
             worst == Failed(records[i])
  <1>4. /\ UNCHANGED <<instances, leases, nextGen, nextLease, postVars, loader, pc, resets, loads,
                       job, box, taskVars>>
        /\ records[i].phase = "model" /\ ReserveIdentity(p)
        /\ queue' = Tail(queue) /\ progressed' = TRUE
        /\ \/ records' = [records EXCEPT ![i] = best] /\ models' = models \cup {i}
           \/ records' = [records EXCEPT ![i] = worst] /\ models' = models
    BY <1>3 DEF CommitOne, CommitModel
  <1>5. /\ best \in Records /\ best.path = p /\ best.gen = records[i].gen
        /\ best.leases = records[i].leases /\ best.task = None
        /\ best.phase = "ready" /\ best.queued = FALSE /\ best.textures = records[i].textures
        /\ best.model = i
        /\ best.leases = 0 => best.timer # "off"
    BY <1>1 DEF BecomesReady, Records, Phases
  <1>6. ~(best.textures > 0)
    BY <1>1, <1>2, <1>4, <1>5 DEF RecordsFit
  <1>7. /\ worst \in Records /\ worst.path = p /\ worst.gen = records[i].gen
        /\ worst.leases = records[i].leases /\ worst.task = None
        /\ worst.phase = "failed" /\ worst.textures = 0 /\ worst.queued = FALSE /\ worst.timer = "set"
    BY <1>1, FailedFits
  <1> HIDE DEF best, worst
  <1>8. PICK r \in Records :
           /\ records' = [records EXCEPT ![i] = r] /\ r \in {best, worst}
           /\ r.phase = "ready" => i \in models'
    BY <1>4, <1>5, <1>7
  <1>9. /\ r.path = p /\ r.gen = records[i].gen /\ r.leases = records[i].leases
        /\ r.task = None /\ r.phase \in {"ready", "failed"} /\ r.queued = FALSE
        /\ ~(r.textures > 0)
        /\ r.phase = "ready" => r.model = i /\ i \in models'
        /\ r.phase = "failed" => r.timer # "off"
        /\ r.phase = "ready" /\ r.leases = 0 => r.timer # "off"
    <2>1. CASE r = best
      BY <1>5, <1>6, <1>8, <2>1
    <2>2. CASE r = worst
      BY <1>7, <2>2
    <2> QED  BY <1>8, <2>1, <2>2
  <1>10. /\ RecordsFit' /\ LeasesAreCounted' /\ LeasesFit' /\ TicketsFit'
         /\ QueuedByPhase' /\ UnleasedIsTimed'
         /\ TasksAreWanted' /\ TasksFit' /\ PoolFits' /\ PostsAreOnce'
         /\ records' \in [Ids -> Records]
         /\ records'[i] = r /\ \A j \in Ids \ {i} : records'[j] = records[j]
    <2>1. models \subseteq models'
      BY <1>4
    <2>2. records[i].phase \in {"textures", "model"}
      BY <1>4
    <2> QED  BY <1>1, <1>4, <1>8, <1>9, <2>1, <2>2, Committed
  <1>11. QueueIsExact' /\ queue' \in Seq(Ids)
    BY <1>1, <1>2, <1>4, <1>9, <1>10, QueueLoses
  <1>12. RowsAreOwn' /\ rows' \in [Paths -> Ids \cup {None}] /\ nextModel' \in Nat
    <2>1. \A j \in Ids : records'[j].phase # "none" =>
              records[j].phase # "none" /\ records'[j].path = records[j].path
      BY <1>1, <1>9, <1>10 DEF Known
    <2> QED  BY <1>2, <1>3, <1>4, <2>1, RowsReserved
  <1>13. TypeOK'
    <2>1. models' \subseteq Ids
      BY <1>1, <1>2, <1>4 DEF TypeOK
    <2> QED  BY <1>2, <1>4, <1>10, <1>11, <1>12, <2>1 DEF TypeOK
  <1> QED  BY <1>10, <1>11, <1>12, <1>13 DEF Inv, IInv

-----------------------------------------------------------------------------
(* Release and Acquire.                                                    *)

\* A lease is counted by its record.
LEMMA LeasedIsCounted ==
    ASSUME Inv, NEW l \in Held
    PROVE  /\ leases[l].record \in Ids /\ leases[l].record \in Known
           /\ records[leases[l].record].leases \in Nat \ {0}
  <1>1. leases[l].record \in Ids /\ leases[l].record \in Known
    BY DEF Inv, IInv, LeasesFit, Known
  <1>2. l \in LeasesOf(leases[l].record)
    BY DEF LeasesOf
  <1>3. records[leases[l].record].leases # 0
    BY <1>1, <1>2, HeldByFinite DEF Inv, IInv, LeasesAreCounted
  <1>4. records[leases[l].record].leases \in Nat
    BY <1>1 DEF Inv, IInv, TypeOK, Records
  <1> QED  BY <1>1, <1>3, <1>4

\* The last lease of a preparation ends it.
LEMMA PreparationDropped ==
    ASSUME Inv, NEW l \in Held, Release(l),
           records[leases[l].record].leases = 1, records[leases[l].record].phase = "preparing"
    PROVE  Inv'
  <1> DEFINE i == leases[l].record
             r == [records[i] EXCEPT !.leases = @ - 1]
             t == records[i].task
  <1>1. TypeOK /\ RecordsFit /\ QueueIsExact /\ UnleasedIsTimed /\ RowsAreOwn /\ PoolFits
    BY DEF Inv, IInv
  <1>2. i \in Ids /\ i \in Known /\ records[i] \in Records
    BY <1>1, LeasedIsCounted DEF TypeOK
  <1>3. r.leases = 0 /\ DroppedOnRelease(r) /\ r.task = t
    BY <1>2 DEF DroppedOnRelease, Records
  <1>4. /\ state' = [s \in TaskIds |-> IF s \in {t} /\ state[s] = "queued"
                                          THEN "withdrawn" ELSE state[s]]
        /\ job' = [s \in TaskIds |-> IF s \in {t} /\ state[s] = "queued" THEN NoJob ELSE job[s]]
        /\ kept' = kept \ {t} /\ open' = open
        /\ records' = Removed({i}) /\ rows' = RowsWithout({}, {i})
        /\ leases' = [leases EXCEPT ![l] = NoLease] /\ pc = "idle"
        /\ UNCHANGED <<models, instances, nextModel, queue, nextGen, nextLease, postVars,
                       mainVars, box>>
    BY <1>3 DEF Release, CancelAndForget
  <1>5. /\ Absent.phase = "none" /\ Absent.task = None /\ Absent.leases = 0
        /\ Absent.textures = 0 /\ Absent.queued = FALSE /\ Absent \in Records
    BY StreamerAssumption DEF Absent, Records, Phases, None, Ids
  <1>6. records[i].queued = FALSE /\ t # None
    BY <1>1, <1>2 DEF QueueIsExact, RecordsFit, Records
  <1> HIDE DEF i, r, t
  <1>7. records'[i] = Absent /\ (\A j \in Ids \ {i} : records'[j] = records[j])
        /\ records' \in [Ids -> Records]
    <2> HIDE DEF Records
    <2>1. records \in [Ids -> Records]
      BY <1>1 DEF TypeOK
    <2> QED  BY <1>2, <1>4, <1>5, <2>1 DEF Removed
  <1>8. RecordsFit'
    <2>1. /\ records'[i] = Absent /\ records'[i].phase = "none"
          /\ records'[i].textures = 0 /\ records'[i].task = None
      BY <1>5, <1>7
    <2>2. ASSUME NEW j \in Ids, j # i
          PROVE  /\ records'[j].phase = "none" => records'[j] = Absent
                 /\ records'[j].phase # "none" => records'[j].gen < nextGen'
                 /\ records'[j].phase = "textures" <=> records'[j].textures > 0
                 /\ records'[j].phase = "preparing" <=> records'[j].task # None
                 /\ records'[j].phase = "ready" => records'[j].model = j /\ j \in models'
                 /\ records'[j].phase = "failed" => records'[j].timer # "off"
      <3>1. records'[j] = records[j] /\ nextGen' = nextGen /\ models' = models
        BY <1>4, <1>7, <2>2
      <3> QED  BY <1>1, <3>1 DEF RecordsFit
    <2> QED  BY <2>1, <2>2 DEF RecordsFit
  <1>9. LeasesAreCounted' /\ LeasesFit' /\ TicketsFit' /\ leases' \in Leases
    <2>1. i = leases[l].record /\ records[i].leases = 1
      BY DEF i
    <2>2. /\ records'[i].leases = records[i].leases - 1
          /\ records'[i].leases # 0 => records'[i].phase # "none" /\ records'[i].gen = records[i].gen
      BY <1>5, <1>7, <2>1
    <2>3. /\ TypeOK /\ LeasesAreCounted /\ LeasesFit /\ TicketsFit
          /\ leases' = [leases EXCEPT ![l] = NoLease] /\ nextLease' = nextLease
          /\ \A j \in Ids \ {i} : records'[j] = records[j]
      BY <1>4, <1>7 DEF Inv, IInv
    <2> QED  BY <2>1, <2>2, <2>3, LeaseReturned DEF Leases
  <1>10. QueueIsExact'
    <2>1. QueuedByPhase'
      BY <1>1, <1>5, <1>7 DEF QueuedByPhase, QueueIsExact
    <2>2. \A j \in Ids : records'[j].queued <=> records[j].queued
      BY <1>5, <1>6, <1>7
    <2>3. \A j \in Ids : records[j].queued => records'[j].priority = records[j].priority
      BY <1>6, <1>7
    <2> QED  BY <1>1, <1>4, <2>1, <2>2, <2>3, QueueKept
  <1>11. UnleasedIsTimed'
    BY <1>1, <1>5, <1>7 DEF UnleasedIsTimed, Known
  <1>12. RowsAreOwn' /\ rows' \in [Paths -> Ids \cup {None}]
    <2> DEFINE gone == {}
               ids == {i}
    <2>1. /\ rows' = RowsWithout(gone, ids) /\ nextModel' = nextModel
          /\ \A j \in Ids : records'[j].phase # "none" =>
                /\ records[j].phase # "none" /\ records'[j].path = records[j].path
                /\ j \notin gone /\ j \notin ids
      BY <1>4, <1>5, <1>7
    <2> HIDE DEF gone, ids
    <2> QED  BY <1>1, <2>1, RowsErased
  <1>13. TasksAreWanted' /\ TasksFit'
    <2> DEFINE D == {t}
    <2>1. TasksAreWanted /\ TasksFit
      BY DEF Inv, IInv
    <2>2. \A j \in Ids : records'[j].task = IF records[j].task \in D THEN None ELSE records[j].task
      BY <1>2, <1>5, <1>6, <1>7, <2>1 DEF TasksFit, t
    <2>3. \A j \in Ids : records'[j].task # None => records'[j].gen = records[j].gen
      BY <1>5, <1>7
    <2>4. /\ open' = open /\ kept' = kept \ D /\ pc' = "idle"
          /\ \A s \in TaskIds : s \notin D => state'[s] = state[s] /\ job'[s] = job[s]
      BY <1>4
    <2> HIDE DEF D
    <2> QED  BY <1>1, <1>4, <1>8, <2>1, <2>2, <2>3, <2>4, TasksDropped
  <1>14. PoolFits'
    BY <1>1, <1>4 DEF PoolFits, In
  <1>15. PostsAreOnce'
    <2>1. \A s \in Working' : s \in Working /\ job'[s] = job[s]
      BY <1>4 DEF Working, In
    <2>2. nextGen \in Nat
      BY <1>1 DEF TypeOK
    <2> QED  BY <1>1, <1>4, <2>1, <2>2, PostsKept DEF Inv, IInv
  <1>16. TypeOK'
    <2>1. NoJob \in Jobs /\ "withdrawn" \in States
      BY DEF NoJob, Jobs, States
    <2>2. state' \in [TaskIds -> States] /\ job' \in [TaskIds -> Jobs] /\ kept' \subseteq TaskIds
      BY <1>1, <1>4, <2>1 DEF TypeOK, Jobs
    <2> QED  BY <1>1, <1>4, <1>7, <1>9, <1>12, <2>2 DEF TypeOK, Leases, Jobs
  <1> QED  BY <1>8, <1>9, <1>10, <1>11, <1>12, <1>13, <1>14, <1>15, <1>16 DEF Inv, IInv

\* A lease given back that does not end a preparation.
LEMMA OtherwiseReleased ==
    ASSUME Inv, NEW l \in Held, Release(l),
           ~(records[leases[l].record].leases = 1 /\ records[leases[l].record].phase = "preparing")
    PROVE  Inv'
  <1> DEFINE i == leases[l].record
             r == [records[i] EXCEPT !.leases = @ - 1]
             n == IF r.leases = 0 /\ r.phase = "ready" THEN [r EXCEPT !.timer = "set"] ELSE r
  <1>1. TypeOK /\ RecordsFit /\ QueueIsExact /\ UnleasedIsTimed /\ RowsAreOwn /\ PoolFits
    BY DEF Inv, IInv
  <1>2. i \in Ids /\ i \in Known /\ records[i] \in Records /\ records[i].leases \in Nat \ {0}
    BY <1>1, LeasedIsCounted DEF TypeOK
  <1>3. /\ r \in Records /\ r.leases = records[i].leases - 1 /\ r.phase = records[i].phase
        /\ r.path = records[i].path /\ r.gen = records[i].gen /\ r.task = records[i].task
        /\ r.priority = records[i].priority /\ r.queued = records[i].queued
        /\ r.textures = records[i].textures /\ r.model = records[i].model
        /\ r.timer = records[i].timer
    BY <1>2 DEF Records
  <1>4. ~(r.leases = 0 /\ DroppedOnRelease(r))
    BY <1>2, <1>3 DEF DroppedOnRelease
  <1>5. /\ records' = [records EXCEPT ![i] = n] /\ leases' = [leases EXCEPT ![l] = NoLease]
        /\ UNCHANGED <<rows, job, taskVars, models, instances, nextModel, queue, nextGen, nextLease,
                       postVars, mainVars, box>>
    BY <1>4 DEF Release
  <1> HIDE DEF r
  <1>6. /\ n \in Records /\ n.leases = records[i].leases - 1 /\ n.phase = records[i].phase
        /\ n.path = records[i].path /\ n.gen = records[i].gen /\ n.task = records[i].task
        /\ n.priority = records[i].priority /\ n.queued = records[i].queued
        /\ n.textures = records[i].textures /\ n.model = records[i].model
        /\ n.timer \in {records[i].timer, "set"}
        /\ n.leases = 0 /\ n.phase = "ready" => n.timer = "set"
    <2>1. CASE ~(r.leases = 0 /\ r.phase = "ready")
      BY <1>3, <2>1
    <2>2. CASE r.leases = 0 /\ r.phase = "ready"
      BY <1>3, <2>2 DEF Records
    <2> QED  BY <2>1, <2>2
  <1> HIDE DEF n
  <1>7. /\ records' \in [Ids -> Records]
        /\ records'[i] = n /\ \A j \in Ids \ {i} : records'[j] = records[j]
    <2>1. records \in [Ids -> Records]
      BY <1>1 DEF TypeOK
    <2> HIDE DEF Records, i
    <2> QED  BY <1>2, <1>5, <1>6, <2>1
  <1>8. RecordsFit'
    <2>1. records[i].phase # "none"
      BY <1>2 DEF Known
    <2> HIDE DEF i
    <2>2. /\ n.phase # "none" /\ n.gen < nextGen
          /\ n.phase = "textures" <=> n.textures > 0
          /\ n.phase = "preparing" <=> n.task # None
          /\ n.phase = "ready" => n.model = i /\ i \in models
          /\ n.phase = "failed" => n.timer # "off"
      BY <1>1, <1>2, <1>6, <2>1 DEF RecordsFit
    <2> QED  BY <1>1, <1>5, <1>7, <2>2 DEF RecordsFit
  <1>9. LeasesAreCounted' /\ LeasesFit' /\ TicketsFit' /\ leases' \in Leases
    <2>1. n.phase # "none"
      BY <1>2, <1>6 DEF Known
    <2>2. LeasesAreCounted /\ LeasesFit /\ TicketsFit
      BY DEF Inv, IInv
    <2>3. i = leases[l].record
      OBVIOUS
    <2> HIDE DEF i
    <2>4. /\ records'[i].leases = records[i].leases - 1
          /\ records'[i].phase # "none" /\ records'[i].gen = records[i].gen
      BY <1>6, <1>7, <2>1
    <2>5. /\ leases' = [leases EXCEPT ![l] = NoLease] /\ nextLease' = nextLease
          /\ \A j \in Ids \ {i} : records'[j] = records[j]
      BY <1>5, <1>7
    <2> QED  BY <1>1, <2>2, <2>3, <2>4, <2>5, LeaseReturned DEF Leases
  <1> HIDE DEF i
  <1>10. QueueIsExact'
    <2>1. QueuedByPhase'
      BY <1>1, <1>2, <1>6, <1>7 DEF QueuedByPhase, QueueIsExact
    <2>2. \A j \in Ids : /\ records'[j].queued = records[j].queued
                         /\ records'[j].priority = records[j].priority
      BY <1>6, <1>7
    <2> QED  BY <1>1, <1>5, <2>1, <2>2, QueueKept
  <1>11. UnleasedIsTimed'
    <2>1. n.leases = 0 => n.phase # "preparing"
      BY <1>2, <1>3, <1>4, <1>6 DEF DroppedOnRelease
    <2>2. n.leases = 0 /\ n.phase \in {"ready", "failed"} => n.timer # "off"
      BY <1>1, <1>2, <1>6 DEF RecordsFit
    <2> QED  BY <1>1, <1>7, <2>1, <2>2 DEF UnleasedIsTimed, Known
  <1>12. RowsAreOwn'
    <2>1. \A j \in Ids : records'[j].phase = records[j].phase /\ records'[j].path = records[j].path
      BY <1>6, <1>7
    <2> QED  BY <1>1, <1>5, <2>1, RowsKept
  <1>13. TasksAreWanted' /\ TasksFit'
    <2> DEFINE D == {}
    <2>1. TasksAreWanted /\ TasksFit
      BY DEF Inv, IInv
    <2>2. /\ open' = open /\ kept' = kept \ D
          /\ \A j \in Ids : records'[j].task = IF records[j].task \in D THEN None ELSE records[j].task
          /\ \A j \in Ids : records'[j].gen = records[j].gen
      BY <1>5, <1>6, <1>7
    <2> HIDE DEF D
    <2> QED  BY <1>1, <1>5, <1>8, <2>1, <2>2, TasksDropped
  <1>14. PoolFits'
    BY <1>1, <1>5 DEF PoolFits, In
  <1>15. PostsAreOnce'
    <2>1. Working' = Working /\ nextGen \in Nat
      BY <1>1, <1>5 DEF Working, In, TypeOK
    <2> QED  BY <1>1, <1>5, <2>1, PostsKept DEF Inv, IInv
  <1>16. TypeOK'
    BY <1>1, <1>5, <1>7, <1>9 DEF TypeOK, Leases
  <1> QED  BY <1>8, <1>9, <1>10, <1>11, <1>12, <1>13, <1>14, <1>15, <1>16 DEF Inv, IInv

\* All but the rows, the queue and the mailbox.
Course ==
    /\ RecordsFit /\ LeasesAreCounted /\ LeasesFit /\ TicketsFit /\ UnleasedIsTimed
    /\ TasksAreWanted /\ TasksFit /\ PoolFits /\ PostsAreOnce
    /\ records \in [Ids -> Records] /\ leases \in Leases /\ nextLease \in Nat
    /\ open \in BOOLEAN /\ state \in [TaskIds -> States] /\ kept \subseteq TaskIds
    /\ job \in [TaskIds -> Jobs]

\* A record gets a lease, and its course is what it was.
LEMMA Granted ==
    ASSUME Inv, NEW i \in Ids, NEW r \in Records, Grant(i, r), nextLease \in LeaseIds,
           r.leases = records[i].leases, r.phase # "none",
           r.gen = records[i].gen \/ (records[i].leases = 0 /\ records[i].task = None),
           nextGen' \in Nat, nextGen' >= nextGen, r.gen < nextGen',
           r.task = records[i].task,
           r.phase = "textures" <=> r.textures > 0,
           r.phase = "preparing" <=> r.task # None,
           r.phase = "ready" => r.model = i /\ i \in models,
           r.phase = "failed" => r.timer # "off",
           UNCHANGED <<models, finals, pc, job, taskVars>>
    PROVE  /\ Course'
           /\ \A j \in Ids \ {i} : records'[j] = records[j]
           /\ records'[i].phase = r.phase /\ records'[i].path = r.path
           /\ records'[i].priority = r.priority /\ records'[i].queued = r.queued
  <1>1. TypeOK /\ RecordsFit /\ UnleasedIsTimed
    BY DEF Inv, IInv
  <1> DEFINE n == [r EXCEPT !.leases = @ + 1]
  <1>2. /\ n \in Records /\ n.phase = r.phase /\ n.path = r.path /\ n.gen = r.gen
        /\ n.leases = r.leases + 1 /\ n.priority = r.priority /\ n.task = r.task
        /\ n.queued = r.queued /\ n.textures = r.textures /\ n.timer = r.timer /\ n.model = r.model
        /\ r.leases + 1 # 0 /\ r.gen \in Nat
    BY DEF Records
  <1>3. /\ records' = [records EXCEPT ![i] = n]
        /\ leases' = [leases EXCEPT ![nextLease] = [record |-> i, gen |-> r.gen]]
        /\ nextLease' = nextLease + 1
    BY DEF Grant
  <1> HIDE DEF n
  <1>4. /\ records' \in [Ids -> Records]
        /\ records'[i] = n /\ \A j \in Ids \ {i} : records'[j] = records[j]
    <2>1. records \in [Ids -> Records]
      BY <1>1 DEF TypeOK
    <2> HIDE DEF Records
    <2> QED  BY <1>2, <1>3, <2>1
  <1>5. RecordsFit'
    <2>1. ASSUME NEW j \in Ids, j # i
          PROVE  /\ records'[j].phase = "none" => records'[j] = Absent
                 /\ records'[j].phase # "none" => records'[j].gen < nextGen'
                 /\ records'[j].phase = "textures" <=> records'[j].textures > 0
                 /\ records'[j].phase = "preparing" <=> records'[j].task # None
                 /\ records'[j].phase = "ready" => records'[j].model = j /\ j \in models'
                 /\ records'[j].phase = "failed" => records'[j].timer # "off"
      <3>1. records'[j] = records[j] /\ models' = models
        BY <1>4, <2>1
      <3>2. records[j].gen \in Nat /\ nextGen \in Nat
        BY <1>1 DEF TypeOK, Records
      <3> QED  BY <1>1, <3>1, <3>2 DEF RecordsFit
    <2>2. /\ records'[i].phase # "none" /\ records'[i].gen < nextGen'
          /\ records'[i].phase = "textures" <=> records'[i].textures > 0
          /\ records'[i].phase = "preparing" <=> records'[i].task # None
          /\ records'[i].phase = "ready" => records'[i].model = i /\ i \in models'
          /\ records'[i].phase = "failed" => records'[i].timer # "off"
      BY <1>2, <1>4
    <2> QED  BY <2>1, <2>2 DEF RecordsFit
  <1>6. UnleasedIsTimed'
    BY <1>1, <1>2, <1>4 DEF UnleasedIsTimed, Known
  <1>7. LeasesAreCounted' /\ LeasesFit' /\ TicketsFit' /\ leases' \in Leases /\ nextLease' \in Nat
    <2>1. LeasesAreCounted /\ LeasesFit /\ TicketsFit
      BY DEF Inv, IInv
    <2> QED  BY <1>1, <1>2, <2>1, LeaseGranted DEF Leases
  <1>8. TasksAreWanted' /\ TasksFit'
    <2> DEFINE D == {}
    <2>1. TasksAreWanted /\ TasksFit
      BY DEF Inv, IInv
    <2>2. /\ open' = open /\ kept' = kept \ D
          /\ \A j \in Ids : records'[j].task = IF records[j].task \in D THEN None ELSE records[j].task
      BY <1>2, <1>4
    <2>3. \A j \in Ids : records'[j].task # None => records'[j].gen = records[j].gen
      BY <1>2, <1>4
    <2> HIDE DEF D
    <2> QED  BY <1>1, <1>5, <2>1, <2>2, <2>3, TasksDropped
  <1>9. PoolFits'
    BY DEF Inv, IInv, PoolFits, In
  <1>10. PostsAreOnce'
    <2>1. Working' = Working
      BY DEF Working, In
    <2> QED  BY <1>1, <2>1, PostsKept DEF Inv, IInv
  <1> QED  BY <1>1, <1>2, <1>4, <1>5, <1>6, <1>7, <1>8, <1>9, <1>10 DEF Course, TypeOK, Jobs

\* A path that has no record gets one.
LEMMA AcquiredNew ==
    ASSUME Inv, NEW p \in Paths, NEW priority \in Priorities, Acquire(p, priority),
           AcquireNew(p, priority)
    PROVE  /\ Course' /\ nextGen' \in Nat /\ QueueIsExact' /\ queue' \in Seq(Ids)
           /\ \A j \in Ids \ {IdFor(p)} : records'[j] = records[j]
           /\ records'[IdFor(p)].path = p
  <1> DEFINE i == IdFor(p)
             r == [Absent EXCEPT !.path = p, !.gen = nextGen, !.priority = priority]
             s == [r EXCEPT !.phase = "ready", !.model = i, !.info = "model"]
  <1>1. TypeOK /\ RecordsFit /\ QueueIsExact /\ IInv /\ TicketsFit
    BY DEF Inv, IInv
  <1>2. /\ i \in Ids /\ records[i] = Absent /\ pc = "idle" /\ nextLease \in LeaseIds
        /\ nextGen' = nextGen + 1 /\ queue' = queue /\ nextGen \in Nat
        /\ UNCHANGED <<models, finals, pc>>
        /\ \/ i \in models /\ Grant(i, s) /\ UNCHANGED <<job, taskVars>>
           \/ Schedule(i, r, None)
    BY <1>1 DEF Acquire, AcquireNew, ReserveIdentity, RecordsFit, TypeOK
  <1>3. /\ Absent.phase = "none" /\ Absent.task = None /\ Absent.leases = 0 /\ Absent.gen = 0
        /\ Absent.textures = 0 /\ Absent.queued = FALSE /\ Absent \in Records
    BY StreamerAssumption DEF Absent, Records, Phases, None, Ids
  <1>4. /\ r \in Records /\ r.path = p /\ r.gen = nextGen /\ r.priority = priority
        /\ r.task = None /\ r.leases = 0 /\ r.queued = FALSE /\ r.textures = 0
    <2>1. priority \in Nat
      BY StreamerAssumption
    <2> HIDE DEF i
    <2> QED  BY <1>2, <1>3, <2>1 DEF Records
  <1> HIDE DEF r
  <1>5. /\ s \in Records /\ s.path = p /\ s.gen = nextGen /\ s.priority = priority
        /\ s.task = None /\ s.leases = 0 /\ s.queued = FALSE /\ s.textures = 0
        /\ s.phase = "ready" /\ s.model = i
    BY <1>2, <1>4 DEF Records, Phases
  <1> HIDE DEF s, i
  <1>6. nextGen' \in Nat /\ nextGen' >= nextGen /\ nextGen < nextGen'
    BY <1>2
  <1>7. /\ Course' /\ (\A j \in Ids \ {i} : records'[j] = records[j])
        /\ records'[i].path = p /\ records'[i].queued = FALSE
        /\ records'[i].phase \in {"ready", "preparing", "failed"}
    <2>1. CASE i \in models /\ Grant(i, s) /\ UNCHANGED <<job, taskVars>>
      <3>1. /\ s.leases = records[i].leases /\ s.phase # "none" /\ records[i].leases = 0
            /\ records[i].task = None /\ s.task = records[i].task /\ s.gen < nextGen'
            /\ s.phase = "textures" <=> s.textures > 0
            /\ s.phase = "preparing" <=> s.task # None
            /\ s.phase = "ready" => s.model = i /\ i \in models
            /\ s.phase = "failed" => s.timer # "off"
        BY <1>2, <1>3, <1>5, <1>6, <2>1
      <3> QED  BY <1>2, <1>5, <1>6, <2>1, <3>1, Granted
    <2>2. CASE Schedule(i, r, None)
      <3> DEFINE old == None
      <3>1. /\ r.leases = records[i].leases /\ ~r.queued /\ r.gen < nextGen' /\ r.gen = nextGen
            /\ records[i].leases = 0 /\ old = records[i].task /\ old = None /\ Schedule(i, r, old)
        BY <1>2, <1>3, <1>4, <1>6, <2>2
      <3> HIDE DEF old
      <3>2. /\ RecordsFit' /\ UnleasedIsTimed'
            /\ LeasesAreCounted' /\ LeasesFit' /\ TicketsFit'
            /\ TasksAreWanted' /\ TasksFit' /\ PoolFits' /\ PostsAreOnce'
            /\ records' \in [Ids -> Records] /\ nextLease' \in Nat
            /\ leases' \in Leases
            /\ open' \in BOOLEAN /\ state' \in [TaskIds -> States] /\ kept' \subseteq TaskIds
            /\ job' \in [TaskIds -> Jobs]
            /\ \A j \in Ids \ {i} : records'[j] = records[j]
            /\ records'[i].path = r.path /\ records'[i].phase \in {"preparing", "failed"}
            /\ ~records'[i].queued
        BY <1>1, <1>2, <1>4, <1>6, <3>1, ScheduleKeeps DEF Leases, Jobs
      <3>3. records'[i].queued = FALSE
        BY <1>2, <3>2 DEF Records
      <3> QED  BY <1>4, <3>2, <3>3 DEF Course
    <2> QED  BY <1>2, <2>1, <2>2
  <1>8. QueueIsExact' /\ queue' \in Seq(Ids)
    <2>1. QueuedByPhase'
      BY <1>1, <1>7 DEF QueuedByPhase, QueueIsExact
    <2>2. \A j \in Ids : /\ records'[j].queued = records[j].queued
                         /\ records[j].queued => records'[j].priority = records[j].priority
      BY <1>2, <1>3, <1>7
    <2> QED  BY <1>1, <1>2, <2>1, <2>2, QueueKept DEF TypeOK
  <1> QED  BY <1>6, <1>7, <1>8 DEF i

\* What asking again changes of a record.
LEMMA RenewedFacts ==
    ASSUME NEW r \in Records, NEW priority \in Nat
    PROVE  LET n == Renewed(r, priority) IN
           /\ n \in Records /\ n.phase = r.phase /\ n.path = r.path /\ n.gen = r.gen
           /\ n.leases = r.leases /\ n.task = r.task /\ n.queued = r.queued
           /\ n.textures = r.textures /\ n.model = r.model
           /\ n.priority = IF priority > r.priority THEN priority ELSE r.priority
           /\ n.timer = IF r.phase = "failed" THEN r.timer ELSE "off"
  <1> DEFINE a == IF priority > r.priority THEN priority ELSE r.priority
             b == IF r.phase = "failed" THEN r.timer ELSE "off"
             n == [r EXCEPT !.priority = a, !.timer = b]
  <1>1. a \in Nat /\ b \in {"off", "set", "past"}
    BY DEF Records
  <1>2. Renewed(r, priority) = n
    BY DEF Renewed, Records
  <1> HIDE DEF a, b
  <1>3. /\ n \in Records /\ n.phase = r.phase /\ n.path = r.path /\ n.gen = r.gen
        /\ n.leases = r.leases /\ n.task = r.task /\ n.queued = r.queued
        /\ n.textures = r.textures /\ n.model = r.model /\ n.priority = a /\ n.timer = b
    BY <1>1 DEF Records
  <1> HIDE DEF n
  <1> QED  BY <1>2, <1>3 DEF a, b

\* The path's record gets the lease: it is prepared again, tried again, or stays as it is.
LEMMA AcquiredKnown ==
    ASSUME Inv, NEW p \in Paths, NEW priority \in Priorities, Acquire(p, priority),
           AcquireKnown(p, priority)
    PROVE  /\ Course' /\ nextGen' \in Nat /\ QueueIsExact' /\ queue' \in Seq(Ids)
           /\ \A j \in Ids \ {IdFor(p)} : records'[j] = records[j]
           /\ records[IdFor(p)].phase # "none"
           /\ records'[IdFor(p)].path = records[IdFor(p)].path
  <1> DEFINE i == IdFor(p)
             r == records[i]
             raised == priority > r.priority
             resubmit == raised /\ r.phase = "preparing" /\ state[r.task] = "queued"
             retry == r.phase = "failed" /\ r.leases = 0 /\ r.timer = "past"
             n == Renewed(r, priority)
             a == [n EXCEPT !.gen = nextGen, !.info = "none"]
  <1>1. TypeOK /\ RecordsFit /\ QueueIsExact /\ IInv /\ TicketsFit
    BY DEF Inv, IInv
  <1>2. /\ i \in Ids /\ pc = "idle" /\ nextLease \in LeaseIds /\ nextGen \in Nat
        /\ UNCHANGED <<models, finals, pc>> /\ r.phase # "none"
        /\ queue' = IF raised /\ r.queued THEN Insert(Without(queue, i), i, priority) ELSE queue
    BY <1>1 DEF Acquire, AcquireKnown, ReserveIdentity, TypeOK
  <1>3. \/ resubmit /\ Schedule(i, n, r.task) /\ nextGen' = nextGen
        \/ retry /\ Schedule(i, a, None) /\ nextGen' = nextGen + 1
        \/ ~resubmit /\ ~retry /\ Grant(i, n) /\ UNCHANGED <<job, taskVars, nextGen>>
    BY DEF AcquireKnown
  <1>4. priority \in Nat
    BY StreamerAssumption
  <1>5. /\ r \in Records /\ r.gen < nextGen /\ r.task \in TaskIds \cup {None}
        /\ r.priority \in Nat /\ r.gen \in Nat /\ r.queued \in BOOLEAN
        /\ r.phase = "textures" <=> r.textures > 0
        /\ r.phase = "preparing" <=> r.task # None
        /\ r.phase = "ready" => r.model = i /\ i \in models
        /\ r.phase = "failed" => r.timer # "off"
        /\ r.queued <=> r.phase \in {"textures", "model"}
        /\ r.textures \in Nat
    <2> HIDE DEF i
    <2>1. r \in Records
      BY <1>1, <1>2 DEF TypeOK
    <2>2. /\ r.task \in TaskIds \cup {None} /\ r.priority \in Nat /\ r.gen \in Nat
          /\ r.queued \in BOOLEAN /\ r.textures \in Nat
      BY <2>1, StreamerAssumption DEF Records
    <2> QED  BY <1>1, <1>2, <2>1, <2>2 DEF RecordsFit, QueueIsExact
  <1>6. /\ n \in Records /\ n.phase = r.phase /\ n.path = r.path /\ n.gen = r.gen
        /\ n.leases = r.leases /\ n.task = r.task /\ n.queued = r.queued
        /\ n.textures = r.textures /\ n.model = r.model
        /\ n.priority = IF priority > r.priority THEN priority ELSE r.priority
        /\ n.timer = IF r.phase = "failed" THEN r.timer ELSE "off"
    <2> HIDE DEF r
    <2> QED  BY <1>4, <1>5, RenewedFacts
  <1> HIDE DEF n
  <1>7. /\ a \in Records /\ a.phase = n.phase /\ a.path = n.path /\ a.gen = nextGen
        /\ a.leases = n.leases /\ a.task = n.task /\ a.queued = n.queued
        /\ a.textures = n.textures
    BY <1>2, <1>6 DEF Records
  <1> HIDE DEF a, i
  <1>8. nextGen' \in Nat /\ nextGen' >= nextGen
    BY <1>2, <1>3
  <1>9. /\ Course' /\ (\A j \in Ids \ {i} : records'[j] = records[j])
        /\ records'[i].path = r.path /\ records'[i].queued = r.queued
        /\ records'[i].phase \in {"textures", "model"} <=> r.queued
        /\ r.queued => records'[i].priority = n.priority
    <2>1. CASE resubmit /\ Schedule(i, n, r.task) /\ nextGen' = nextGen
      <3> DEFINE old == r.task
      <3>1. /\ n.leases = records[i].leases /\ ~n.queued /\ n.gen < nextGen' /\ n.textures = 0
            /\ n.gen = records[i].gen /\ old = records[i].task /\ old \in TaskIds
            /\ state[old] = "queued" /\ Schedule(i, n, old) /\ ~r.queued
        BY <1>5, <1>6, <2>1
      <3> HIDE DEF old
      <3>2. /\ RecordsFit' /\ UnleasedIsTimed'
            /\ LeasesAreCounted' /\ LeasesFit' /\ TicketsFit'
            /\ TasksAreWanted' /\ TasksFit' /\ PoolFits' /\ PostsAreOnce'
            /\ records' \in [Ids -> Records] /\ nextLease' \in Nat
            /\ leases' \in Leases
            /\ open' \in BOOLEAN /\ state' \in [TaskIds -> States] /\ kept' \subseteq TaskIds
            /\ job' \in [TaskIds -> Jobs]
            /\ \A j \in Ids \ {i} : records'[j] = records[j]
            /\ records'[i].path = n.path /\ records'[i].phase \in {"preparing", "failed"}
            /\ ~records'[i].queued
        BY <1>1, <1>2, <1>6, <1>8, <3>1, ScheduleKeeps DEF Leases, Jobs
      <3>3. records'[i].queued = FALSE /\ r.queued = FALSE
        BY <1>2, <1>5, <3>1, <3>2 DEF Records
      <3>4. records'[i].phase \notin {"textures", "model"}
        BY <3>2
      <3> QED  BY <1>6, <3>2, <3>3, <3>4 DEF Course
    <2>2. CASE retry /\ Schedule(i, a, None) /\ nextGen' = nextGen + 1
      <3> DEFINE old == None
      <3>1. /\ a.leases = records[i].leases /\ ~a.queued /\ a.gen < nextGen' /\ a.textures = 0
            /\ a.gen = nextGen /\ old = records[i].task /\ records[i].leases = 0
            /\ Schedule(i, a, old) /\ ~r.queued /\ old = None
        BY <1>2, <1>5, <1>6, <1>7, <2>2
      <3> HIDE DEF old
      <3>2. /\ RecordsFit' /\ UnleasedIsTimed'
            /\ LeasesAreCounted' /\ LeasesFit' /\ TicketsFit'
            /\ TasksAreWanted' /\ TasksFit' /\ PoolFits' /\ PostsAreOnce'
            /\ records' \in [Ids -> Records] /\ nextLease' \in Nat
            /\ leases' \in Leases
            /\ open' \in BOOLEAN /\ state' \in [TaskIds -> States] /\ kept' \subseteq TaskIds
            /\ job' \in [TaskIds -> Jobs]
            /\ \A j \in Ids \ {i} : records'[j] = records[j]
            /\ records'[i].path = a.path /\ records'[i].phase \in {"preparing", "failed"}
            /\ ~records'[i].queued
        BY <1>1, <1>2, <1>7, <1>8, <3>1, ScheduleKeeps DEF Leases, Jobs
      <3>3. records'[i].queued = FALSE /\ r.queued = FALSE
        BY <1>2, <1>5, <3>1, <3>2 DEF Records
      <3>4. records'[i].phase \notin {"textures", "model"}
        BY <3>2
      <3> QED  BY <1>6, <1>7, <3>2, <3>3, <3>4 DEF Course
    <2>3. CASE ~resubmit /\ ~retry /\ Grant(i, n) /\ UNCHANGED <<job, taskVars, nextGen>>
      <3>1. /\ n.leases = records[i].leases /\ n.phase # "none" /\ n.gen = records[i].gen
            /\ n.gen < nextGen' /\ n.task = records[i].task
            /\ n.phase = "textures" <=> n.textures > 0
            /\ n.phase = "preparing" <=> n.task # None
            /\ n.phase = "ready" => n.model = i /\ i \in models
            /\ n.phase = "failed" => n.timer # "off"
        BY <1>2, <1>5, <1>6, <2>3
      <3>2. /\ Course' /\ (\A j \in Ids \ {i} : records'[j] = records[j])
            /\ records'[i].phase = n.phase /\ records'[i].path = n.path
            /\ records'[i].priority = n.priority /\ records'[i].queued = n.queued
        BY <1>2, <1>6, <1>8, <2>3, <3>1, Granted
      <3> QED  BY <1>5, <1>6, <3>2
    <2> QED  BY <1>3, <2>1, <2>2, <2>3
  <1>10. QueueIsExact' /\ queue' \in Seq(Ids)
    <2>1. QueuedByPhase'
      <3>1. \A j \in Ids \ {i} : records'[j].queued <=> records'[j].phase \in {"textures", "model"}
        BY <1>1, <1>9 DEF QueueIsExact
      <3>2. records'[i].queued <=> records'[i].phase \in {"textures", "model"}
        BY <1>9
      <3> QED  BY <3>1, <3>2 DEF QueuedByPhase
    <2>2. CASE ~(raised /\ r.queued)
      <3>1. \A j \in Ids : /\ records'[j].queued = records[j].queued
                           /\ records[j].queued => records'[j].priority = records[j].priority
        BY <1>6, <1>9, <2>2
      <3> QED  BY <1>1, <1>2, <2>1, <2>2, <3>1, QueueKept DEF TypeOK
    <2>3. CASE raised /\ r.queued
      <3> DEFINE at == CHOOSE x \in DOMAIN queue : queue[x] = i
      <3>1. \E x \in DOMAIN queue : queue[x] = i
        BY <1>1, <1>2, <2>3 DEF QueueIsExact, ToSet
      <3>2. at \in DOMAIN queue /\ queue[at] = i /\ queue' = Insert(RemoveAt(queue, at), queue[at], priority)
        BY <1>2, <2>3, <3>1 DEF Without
      <3> HIDE DEF at
      <3>3. /\ records'[queue[at]].queued /\ records'[queue[at]].priority = priority
            /\ \A j \in Ids \ {queue[at]} : records'[j] = records[j]
        BY <1>6, <1>9, <2>3, <3>2
      <3> QED  BY <1>1, <1>4, <2>1, <3>2, <3>3, QueueMoves
    <2> QED  BY <2>2, <2>3
  <1> QED  BY <1>2, <1>8, <1>9, <1>10 DEF i

\* Acquire, of a record that is new or known.
LEMMA Acquired ==
    ASSUME Inv, NEW p \in Paths, NEW priority \in Priorities, Acquire(p, priority)
    PROVE  Inv'
  <1>1. /\ UNCHANGED <<models, instances, postVars, mainVars, box>> /\ ReserveIdentity(p)
        /\ AcquireNew(p, priority) \/ AcquireKnown(p, priority)
    BY DEF Acquire
  <1>2. /\ Course' /\ nextGen' \in Nat /\ QueueIsExact' /\ queue' \in Seq(Ids)
        /\ \A j \in Ids \ {IdFor(p)} : records'[j] = records[j]
        /\ \/ records'[IdFor(p)].path = p
           \/ /\ records[IdFor(p)].phase # "none"
              /\ records'[IdFor(p)].path = records[IdFor(p)].path
    BY <1>1, AcquiredNew, AcquiredKnown
  <1>3. RowsAreOwn' /\ rows' \in [Paths -> Ids \cup {None}] /\ nextModel' \in Nat
    <2>1. \A j \in Ids : records'[j].phase # "none" =>
               \/ records[j].phase # "none" /\ records'[j].path = records[j].path
               \/ j = IdFor(p) /\ records'[j].path = p
      BY <1>2
    <2> QED  BY <1>1, <2>1, RowsReserved DEF Inv, IInv
  <1>4. TypeOK'
    BY <1>1, <1>2, <1>3 DEF Course, TypeOK, Leases, Jobs, Inv, IInv
  <1> QED  BY <1>2, <1>3, <1>4 DEF Course, Inv, IInv

-----------------------------------------------------------------------------
(* What Pump does with the completions.                                    *)

\* A record is answered once: a generation is posted once.
LEMMA AnswersFacts ==
    ASSUME Inv
    PROVE  /\ \A f \in Answers : /\ f \in Posts /\ f.post.record \in Ids
                                 /\ records[f.post.record].phase = "preparing"
           /\ \A a, b \in DOMAIN finals :
                 finals[a] \in Answers /\ finals[b] \in Answers
                 /\ finals[a].post.record = finals[b].post.record => a = b
           /\ \A f, g \in Answers : f.post.record = g.post.record => f = g
           /\ \A f \in Answers : \E a \in DOMAIN finals : f = finals[a]
  <1>1. finals \in Seq(Posts)
    BY DEF Inv, IInv, TypeOK, Posts
  <1>2. \A f \in Answers : \E a \in DOMAIN finals : f = finals[a]
    BY DEF Answers, ToSet
  <1>3. \A f \in Answers : f \in Posts
    <2> HIDE DEF Posts
    <2> QED  BY <1>1, <1>2
  <1>4. \A f \in Answers : /\ f.post.record \in Ids /\ records[f.post.record].phase = "preparing"
                           /\ f.post.gen = records[f.post.record].gen
    BY <1>3 DEF Answers, IsFor, Posts
  <1>5. ASSUME NEW a \in DOMAIN finals, NEW b \in DOMAIN finals,
               finals[a] \in Answers, finals[b] \in Answers,
               finals[a].post.record = finals[b].post.record
        PROVE  a = b
    <2>1. finals[a].post.gen = finals[b].post.gen
      BY <1>4, <1>5
    <2> QED  BY <2>1 DEF Inv, IInv, PostsAreOnce
  <1>6. \A f, g \in Answers : f.post.record = g.post.record => f = g
    BY <1>2, <1>5
  <1> QED  BY <1>2, <1>3, <1>4, <1>5, <1>6

\* The queue after each completion exists: the recursion is along their sequence.
LEMMA AfterExists ==
    ASSUME NEW n \in Nat
    PROVE  \E g : g = [k \in 0 .. n |-> IF k = 0 THEN queue ELSE Enqueue(g[k - 1], finals[k])]
  <1> DEFINE Is(g, m) == g = [k \in 0 .. m |-> IF k = 0 THEN queue
                                               ELSE Enqueue(g[k - 1], finals[k])]
             S == {m \in 0 .. n : ~\E g : Is(g, m)}
  <1> SUFFICES ASSUME S # {} PROVE FALSE
    OBVIOUS
  <1>1. PICK m \in S : \A k \in S : m <= k
    <2>1. S \subseteq Nat
      OBVIOUS
    <2> HIDE DEF S
    <2> QED  BY <2>1, LeastNatural
  <1>2. m \in 0 .. n /\ ~\E g : Is(g, m)
    OBVIOUS
  <1>3. CASE m = 0
    <2> DEFINE g == [k \in 0 .. 0 |-> queue]
    <2>1. Is(g, 0)
      OBVIOUS
    <2> HIDE DEF Is
    <2> QED  BY <1>2, <1>3, <2>1
  <1>4. CASE m # 0
    <2>1. m - 1 \in 0 .. n /\ m - 1 \notin S
      BY <1>1, <1>2, <1>4
    <2>2. PICK g : Is(g, m - 1)
      BY <2>1
    <2> DEFINE h == [k \in 0 .. m |-> IF k = m THEN Enqueue(g[m - 1], finals[m]) ELSE g[k]]
    <2>3. \A k \in 0 .. m - 1 : g[k] = IF k = 0 THEN queue ELSE Enqueue(g[k - 1], finals[k])
      BY <2>2
    <2>4. ASSUME NEW k \in 0 .. m
          PROVE  h[k] = IF k = 0 THEN queue ELSE Enqueue(h[k - 1], finals[k])
      <3>1. CASE k = m
        <4>1. h[k] = Enqueue(g[m - 1], finals[m]) /\ h[m - 1] = g[m - 1] /\ k # 0
          BY <1>2, <1>4, <3>1
        <4> HIDE DEF h
        <4> QED  BY <3>1, <4>1
      <3>2. CASE k # m
        <4>1. k \in 0 .. m - 1 /\ (k # 0 => k - 1 \in 0 .. m - 1 /\ k - 1 # m /\ k - 1 \in 0 .. m)
          BY <1>2, <1>4, <3>2
        <4>2. h[k] = g[k] /\ (k # 0 => h[k - 1] = g[k - 1])
          BY <3>2, <4>1
        <4> HIDE DEF h
        <4> QED  BY <2>3, <4>1, <4>2
      <3> QED  BY <3>1, <3>2
    <2>5. Is(h, m)
      <3>1. h = [k \in 0 .. m |-> h[k]]
        OBVIOUS
      <3> HIDE DEF h
      <3> QED  BY <2>4, <3>1
    <2> HIDE DEF Is
    <2> QED  BY <1>2, <2>5
  <1> QED  BY <1>3, <1>4

\* The records that are queued by the first k completions.
Entered(k) == {finals[a].post.record : a \in {b \in 1 .. k : finals[b] \in Answers
                                                             /\ finals[b].outcome # Broken}}

\* The queue with all the completions taken in: who was in it and who has entered, each once
\* and by priority. (There is no least number of completions after which that fails.)
LEMMA EnqueuedFacts ==
    ASSUME Inv
    PROVE  /\ Enqueued \in Seq(Ids) /\ Single(Enqueued) /\ InOrder(Enqueued)
           /\ ToSet(Enqueued) = {i \in Ids : records[i].queued} \cup Entered(Len(finals))
  <1> DEFINE n == Len(finals)
  <1>1. TypeOK /\ QueueIsExact /\ finals \in Seq(Posts) /\ n \in Nat /\ DOMAIN finals = 1 .. n
    BY DEF Inv, IInv, TypeOK, Posts
  <1>2. PICK g : /\ g = [k \in 0 .. n |-> IF k = 0 THEN queue ELSE Enqueue(g[k - 1], finals[k])]
                 /\ Enqueued = g[n]
    <2> DEFINE Is(g) == g = [k \in 0 .. n |-> IF k = 0 THEN queue ELSE Enqueue(g[k - 1], finals[k])]
               c == CHOOSE g : Is(g)
    <2>1. \E g : Is(g)
      BY <1>1, AfterExists
    <2>2. Is(c)
      <3> HIDE DEF Is
      <3> QED  BY <2>1
    <2>3. Enqueued = c[n]
      BY DEF Enqueued
    <2> QED  BY <2>2, <2>3
  <1> HIDE DEF n
  <1> DEFINE Good(k) == /\ g[k] \in Seq(Ids) /\ Single(g[k]) /\ InOrder(g[k])
                        /\ ToSet(g[k]) = {i \in Ids : records[i].queued} \cup Entered(k)
             S == {k \in 0 .. n : ~Good(k)}
  <1>3. SUFFICES S = {}
    <2>1. n \in 0 .. n
      BY <1>1
    <2>2. S = {} => Good(n)
      BY <2>1
    <2> QED  BY <1>2, <2>2 DEF n
  <1>4. SUFFICES ASSUME S # {} PROVE FALSE
    OBVIOUS
  <1>5. PICK k \in S : \A j \in S : k <= j
    <2>1. S \subseteq Nat
      BY <1>1
    <2> HIDE DEF S
    <2> QED  BY <1>4, <2>1, LeastNatural
  <1>6. k \in 0 .. n /\ ~Good(k)
    OBVIOUS
  <1>7. CASE k = 0
    <2>1. g[0] = queue
      BY <1>1, <1>2
    <2>2. Entered(0) = {}
      BY DEF Entered
    <2>3. Single(queue) /\ InOrder(queue) /\ ToSet(queue) = {i \in Ids : records[i].queued}
      BY <1>1 DEF QueueIsExact, Single, InOrder
    <2>4. queue \in Seq(Ids)
      BY <1>1 DEF TypeOK
    <2> QED  BY <1>6, <1>7, <2>1, <2>2, <2>3, <2>4
  <1>8. CASE k # 0
    <2> DEFINE f == finals[k]
               q == g[k - 1]
    <2>1. k - 1 \in 0 .. n /\ k - 1 \notin S /\ k \in 1 .. n /\ k \in DOMAIN finals
      BY <1>1, <1>5, <1>6, <1>8
    <2>2. Good(k - 1)
      BY <2>1
    <2>3. g[k] = Enqueue(q, f)
      BY <1>1, <1>2, <1>6, <1>8
    <2>4. \A b : b \in 1 .. k <=> b \in 1 .. k - 1 \/ b = k
      BY <2>1
    <2>5. CASE ~(f \in Answers /\ f.outcome # Broken)
      <3>1. g[k] = q
        BY <2>3, <2>5 DEF Enqueue
      <3>2. Entered(k) = Entered(k - 1)
        <4>1. {b \in 1 .. k : finals[b] \in Answers /\ finals[b].outcome # Broken}
              = {b \in 1 .. k - 1 : finals[b] \in Answers /\ finals[b].outcome # Broken}
          BY <2>4, <2>5
        <4> QED  BY <4>1 DEF Entered
      <3> QED  BY <1>6, <2>2, <3>1, <3>2
    <2>6. CASE f \in Answers /\ f.outcome # Broken
      <3> DEFINE i == f.post.record
                 priority == records[i].priority
      <3>1. g[k] = Insert(q, i, priority)
        BY <2>3, <2>6 DEF Enqueue
      <3>2. Entered(k) = Entered(k - 1) \cup {i}
        <4>1. \A x : x \in Entered(k) <=> x \in Entered(k - 1) \/ x = i
          BY <2>1, <2>4, <2>6 DEF Entered
        <4> QED  BY <4>1
      <3>3. i \in Ids /\ records[i].phase = "preparing"
        BY <2>6, AnswersFacts
      <3>4. i \notin ToSet(q)
        <4>1. ~records[i].queued
          BY <1>1, <3>3 DEF QueueIsExact
        <4>2. i \notin Entered(k - 1)
          <5> SUFFICES ASSUME NEW b \in 1 .. k - 1, finals[b] \in Answers, finals[b].post.record = i
                       PROVE  FALSE
            BY DEF Entered
          <5>1. b \in DOMAIN finals /\ b # k
            BY <1>1, <2>1
          <5> QED  BY <2>1, <2>6, <5>1, AnswersFacts
        <4> QED  BY <2>2, <4>1, <4>2
      <3>5. priority \in Nat
        BY <1>1, <3>3 DEF TypeOK, Records
      <3> HIDE DEF i, q
      <3>6. q \in Seq(Ids) /\ Single(q) /\ InOrder(q)
            /\ ToSet(q) = {j \in Ids : records[j].queued} \cup Entered(k - 1)
        BY <2>2 DEF q
      <3> DEFINE u == Insert(q, i, priority)
                 P(j) == IF j = i THEN priority ELSE records[j].priority
      <3>7. /\ u \in Seq(Ids) /\ Single(u) /\ ToSet(u) = ToSet(q) \cup {i}
            /\ \A a, b \in DOMAIN u : a < b => P(u[a]) >= P(u[b])
        BY <1>1, <3>3, <3>4, <3>5, <3>6, Inserted DEF InOrder
      <3> HIDE DEF u
      <3>8. \A j : P(j) = records[j].priority
        OBVIOUS
      <3>9. InOrder(u)
        BY <3>7, <3>8 DEF InOrder
      <3>10. g[k] = u
        BY <3>1 DEF u
      <3> QED  BY <1>6, <3>2, <3>6, <3>7, <3>9, <3>10
    <2> QED  BY <2>5, <2>6
  <1> QED  BY <1>7, <1>8

\* What an answer makes of a preparation.
LEMMA CompletedFacts ==
    ASSUME NEW r \in Records, NEW outcome \in Outcomes
    PROVE  LET c == Completed(r, outcome) IN
           /\ c \in Records /\ c.path = r.path /\ c.gen = r.gen /\ c.leases = r.leases
           /\ c.priority = r.priority /\ c.task = None
           /\ c.phase \in {"textures", "model", "failed"}
           /\ c.phase = "textures" <=> c.textures > 0
           /\ c.phase = "failed" => c.timer = "set"
           /\ c.queued = (outcome # Broken)
           /\ c.phase = "failed" <=> outcome = Broken
  <1> DEFINE c == Completed(r, outcome)
  <1>1. CASE outcome = Broken
    <2> DEFINE t == [r EXCEPT !.task = None]
    <2>1. /\ t \in Records /\ t.task = None /\ t.path = r.path /\ t.gen = r.gen
          /\ t.leases = r.leases /\ t.priority = r.priority
      BY DEF Records
    <2>2. c = Failed(t)
      BY <1>1 DEF Completed
    <2> HIDE DEF t, c
    <2>3. /\ c \in Records /\ c.path = t.path /\ c.gen = t.gen /\ c.leases = t.leases
          /\ c.priority = t.priority /\ c.task = None /\ c.phase = "failed" /\ c.textures = 0
          /\ c.queued = FALSE /\ c.timer = "set"
      BY <2>1, <2>2, FailedFits
    <2>4. /\ c.path = r.path /\ c.gen = r.gen /\ c.leases = r.leases /\ c.priority = r.priority
          /\ c.phase \in {"textures", "model", "failed"} /\ c.phase # "textures" /\ ~(c.textures > 0)
      BY <2>1, <2>3
    <2> QED  BY <1>1, <2>3, <2>4 DEF c
  <1>2. CASE outcome # Broken
    <2>1. outcome \in 0 .. MaxTextures
      BY <1>2, StreamerAssumption DEF Outcomes, Broken
    <2>2. CommitPhase(outcome) \in {"textures", "model"} /\ (CommitPhase(outcome) = "textures" <=> outcome > 0)
      BY <2>1 DEF CommitPhase
    <2> DEFINE d == [r EXCEPT !.task = None, !.info = "model", !.queued = TRUE,
                              !.textures = outcome, !.phase = CommitPhase(outcome)]
    <2>3. c = d
      BY <1>2 DEF Completed
    <2>4. /\ d.path = r.path /\ d.gen = r.gen /\ d.leases = r.leases
          /\ d.priority = r.priority /\ d.task = None
          /\ d.phase = CommitPhase(outcome) /\ d.textures = outcome /\ d.queued = TRUE
      BY DEF Records
    <2>5. d \in Records
      BY <2>1, <2>2 DEF Records, Phases
    <2> HIDE DEF c, d
    <2> QED  BY <1>2, <2>2, <2>3, <2>4, <2>5 DEF c
  <1> QED  BY <1>1, <1>2

\* Pump takes the completions in.
LEMMA CompletionsTaken ==
    ASSUME Inv, DrainCompletions
    PROVE  Inv'
  <1> DEFINE Answered(i) == \E f \in Answers : f.post.record = i
             answer(i) == CHOOSE f \in Answers : f.post.record = i
             D == {records[f.post.record].task : f \in Answers}
  <1>1. TypeOK /\ RecordsFit /\ QueueIsExact /\ UnleasedIsTimed /\ RowsAreOwn /\ TasksFit
    BY DEF Inv, IInv
  <1>2. /\ pc = "completions" /\ pc' = "commit" /\ progressed' = FALSE /\ finals' = <<>>
        /\ records' = [i \in Ids |-> IF Answered(i) THEN Completed(records[i], answer(i).outcome)
                                     ELSE records[i]]
        /\ queue' = Enqueued /\ kept' = kept \ D
        /\ UNCHANGED <<repoVars, leases, nextGen, nextLease, headers, earlies, loader,
                       resets, loads, job, box, open, state>>
    BY DEF DrainCompletions
  <1>3. ASSUME NEW i \in Ids, Answered(i)
        PROVE  /\ answer(i) \in Answers /\ answer(i).post.record = i /\ answer(i).outcome \in Outcomes
               /\ records[i].phase = "preparing"
    <2>1. answer(i) \in Answers /\ answer(i).post.record = i
      BY <1>3
    <2> HIDE DEF answer
    <2>2. answer(i) \in Posts /\ records[i].phase = "preparing"
      BY <2>1, AnswersFacts
    <2> QED  BY <2>1, <2>2 DEF Posts
  <1>4. \A i \in Ids : records[i] \in Records
    BY <1>1 DEF TypeOK
  <1> HIDE DEF answer
  <1>5. ASSUME NEW i \in Ids, Answered(i)
        PROVE  /\ records'[i] \in Records /\ records'[i].path = records[i].path
               /\ records'[i].gen = records[i].gen /\ records'[i].leases = records[i].leases
               /\ records'[i].priority = records[i].priority /\ records'[i].task = None
               /\ records'[i].phase \in {"textures", "model", "failed"}
               /\ records'[i].phase = "textures" <=> records'[i].textures > 0
               /\ records'[i].phase = "failed" => records'[i].timer = "set"
               /\ records'[i].queued = (answer(i).outcome # Broken)
               /\ records'[i].phase = "failed" <=> answer(i).outcome = Broken
    <2>1. records'[i] = Completed(records[i], answer(i).outcome)
      BY <1>2, <1>5
    <2>2. records[i] \in Records /\ answer(i).outcome \in Outcomes
      BY <1>3, <1>4, <1>5
    <2> HIDE DEF Records
    <2> QED  BY <2>1, <2>2, CompletedFacts
  <1>6. \A i \in Ids : ~Answered(i) => records'[i] = records[i]
    BY <1>2
  <1> HIDE DEF Answered
  <1>7. records' \in [Ids -> Records]
    <2> HIDE DEF Records
    <2>1. records' = [i \in Ids |-> records'[i]]
      BY <1>2
    <2> QED  BY <1>4, <1>5, <1>6, <2>1
  <1>8. RecordsFit'
    <2>1. nextGen' = nextGen /\ models' = models
      BY <1>2
    <2>2. ASSUME NEW i \in Ids, Answered(i)
          PROVE  /\ records'[i].phase \notin {"none", "preparing", "ready"} /\ records'[i].task = None
                 /\ records'[i].gen < nextGen'
                 /\ records'[i].phase = "textures" <=> records'[i].textures > 0
                 /\ records'[i].phase = "failed" => records'[i].timer # "off"
      <3>1. records[i].gen < nextGen
        BY <1>1, <1>3, <2>2 DEF RecordsFit
      <3>2. records'[i].phase \in {"textures", "model", "failed"}
        BY <1>5, <2>2
      <3> QED  BY <1>5, <2>1, <2>2, <3>1, <3>2
    <2>3. ASSUME NEW i \in Ids, ~Answered(i)
          PROVE  /\ records'[i].phase = "none" => records'[i] = Absent
                 /\ records'[i].phase # "none" => records'[i].gen < nextGen'
                 /\ records'[i].phase = "textures" <=> records'[i].textures > 0
                 /\ records'[i].phase = "preparing" <=> records'[i].task # None
                 /\ records'[i].phase = "ready" => records'[i].model = i /\ i \in models'
                 /\ records'[i].phase = "failed" => records'[i].timer # "off"
      BY <1>1, <1>6, <2>1, <2>3 DEF RecordsFit
    <2> QED  BY <2>2, <2>3 DEF RecordsFit
  <1>9. \A i \in Ids : /\ records'[i].leases = records[i].leases /\ records'[i].gen = records[i].gen
                       /\ records'[i].path = records[i].path
                       /\ records'[i].priority = records[i].priority
    BY <1>5, <1>6
  <1>10. \A i \in Ids : records'[i].phase # "none" <=> records[i].phase # "none"
    <2>1. \A i \in Ids : Answered(i) => records[i].phase = "preparing" /\ records'[i].phase # "none"
      BY <1>3, <1>5
    <2> QED  BY <1>6, <2>1
  <1>11. LeasesAreCounted' /\ LeasesFit' /\ TicketsFit'
    BY <1>1, <1>2, <1>9, <1>10, LeasesKept DEF Inv, IInv
  <1>12. QueueIsExact' /\ queue' \in Seq(Ids)
    <2>1. /\ queue' \in Seq(Ids) /\ Single(queue') /\ InOrder(queue')
          /\ ToSet(queue') = {i \in Ids : records[i].queued} \cup Entered(Len(finals))
      BY <1>2, EnqueuedFacts
    <2>2. \A i \in Ids : i \in Entered(Len(finals)) <=> Answered(i) /\ answer(i).outcome # Broken
      <3>1. finals \in Seq(Posts) /\ DOMAIN finals = 1 .. Len(finals)
        BY <1>1 DEF TypeOK, Posts
      <3>2. ASSUME NEW i \in Ids, i \in Entered(Len(finals))
            PROVE  Answered(i) /\ answer(i).outcome # Broken
        <4>1. PICK a \in DOMAIN finals : /\ finals[a] \in Answers /\ finals[a].outcome # Broken
                                         /\ finals[a].post.record = i
          BY <3>1, <3>2 DEF Entered
        <4>2. Answered(i)
          BY <4>1 DEF Answered
        <4>3. finals[a] = answer(i)
          BY <1>3, <4>1, <4>2, AnswersFacts
        <4> QED  BY <4>1, <4>2, <4>3
      <3>3. ASSUME NEW i \in Ids, Answered(i), answer(i).outcome # Broken
            PROVE  i \in Entered(Len(finals))
        <4>1. answer(i) \in Answers /\ answer(i).post.record = i
          BY <1>3, <3>3
        <4>2. PICK a \in DOMAIN finals : answer(i) = finals[a]
          BY <4>1, AnswersFacts
        <4> QED  BY <3>1, <3>3, <4>1, <4>2 DEF Entered
      <3> QED  BY <3>2, <3>3
    <2>3. \A i \in Ids : records'[i].queued <=> records[i].queued \/ i \in Entered(Len(finals))
      <3>1. ASSUME NEW i \in Ids, Answered(i)
            PROVE  ~records[i].queued /\ (records'[i].queued <=> i \in Entered(Len(finals)))
        <4>1. ~records[i].queued
          BY <1>1, <1>3, <3>1 DEF QueueIsExact
        <4>2. records'[i].queued <=> answer(i).outcome # Broken
          BY <1>5, <3>1
        <4> QED  BY <2>2, <3>1, <4>1, <4>2
      <3>2. ASSUME NEW i \in Ids, ~Answered(i)
            PROVE  records'[i] = records[i] /\ i \notin Entered(Len(finals))
        BY <1>6, <2>2, <3>2
      <3> QED  BY <3>1, <3>2
    <2>4. ToSet(queue') = {i \in Ids : records'[i].queued}
      <3>1. Entered(Len(finals)) \subseteq Ids
        <4>1. finals \in Seq(Posts) /\ DOMAIN finals = 1 .. Len(finals)
          BY <1>1 DEF TypeOK, Posts
        <4> QED  BY <4>1, AnswersFacts DEF Entered
      <3> QED  BY <2>1, <2>3, <3>1
    <2>5. \A i \in Ids : records'[i].queued <=> records'[i].phase \in {"textures", "model"}
      <3>1. ASSUME NEW i \in Ids, Answered(i)
            PROVE  records'[i].queued <=> records'[i].phase \in {"textures", "model"}
        <4>1. /\ records'[i].queued <=> answer(i).outcome # Broken
              /\ records'[i].phase \in {"textures", "model", "failed"}
              /\ records'[i].phase = "failed" <=> answer(i).outcome = Broken
          BY <1>5, <3>1
        <4> QED  BY <4>1
      <3>2. ASSUME NEW i \in Ids, ~Answered(i)
            PROVE  records'[i].queued <=> records'[i].phase \in {"textures", "model"}
        BY <1>1, <1>6, <3>2 DEF QueueIsExact
      <3> QED  BY <3>1, <3>2
    <2>6. \A a, b \in DOMAIN queue' :
             a < b => records'[queue'[a]].priority >= records'[queue'[b]].priority
      <3>1. \A a \in DOMAIN queue' : queue'[a] \in Ids
        BY <2>1
      <3> QED  BY <1>9, <2>1, <3>1 DEF InOrder
    <2> QED  BY <2>1, <2>4, <2>5, <2>6 DEF QueueIsExact, Single
  <1>13. UnleasedIsTimed'
    <2>1. \A i \in Ids : Answered(i) => records'[i].phase # "preparing"
                                        /\ records'[i].phase # "ready"
                                        /\ (records'[i].phase = "failed" => records'[i].timer # "off")
      <3> SUFFICES ASSUME NEW i \in Ids, Answered(i)
                   PROVE  records'[i].phase \notin {"preparing", "ready"}
                          /\ (records'[i].phase = "failed" => records'[i].timer # "off")
        OBVIOUS
      <3>1. /\ records'[i].phase \in {"textures", "model", "failed"}
            /\ records'[i].phase = "failed" => records'[i].timer = "set"
        BY <1>5
      <3> QED  BY <3>1
    <2> QED  BY <1>1, <1>6, <2>1 DEF UnleasedIsTimed, Known
  <1>14. RowsAreOwn'
    BY <1>1, <1>2, <1>9, <1>10, RowsKept
  <1>15. TasksAreWanted' /\ TasksFit'
    <2>1. ASSUME NEW i \in Ids
          PROVE  records'[i].task = IF records[i].task \in D THEN None ELSE records[i].task
      <3>1. CASE Answered(i)
        <4>1. records[i].task \in D
          BY <1>3, <3>1
        <4>2. records'[i].task = None
          BY <1>5, <3>1
        <4> QED  BY <4>1, <4>2
      <3>2. CASE ~Answered(i)
        <4>1. ASSUME NEW f \in Answers, records[f.post.record].task = records[i].task PROVE FALSE
          <5>1. f.post.record \in Ids /\ records[f.post.record].phase = "preparing"
            BY AnswersFacts
          <5>2. records[f.post.record].task # None /\ Answered(f.post.record)
            BY <1>1, <5>1 DEF RecordsFit, Answered
          <5>3. i = f.post.record
            BY <1>1, <4>1, <5>1, <5>2 DEF TasksFit
          <5> QED  BY <3>2, <5>2, <5>3
        <4> QED  BY <1>6, <3>2, <4>1
      <3> QED  BY <3>1, <3>2
    <2> HIDE DEF D
    <2>2. \A i \in Ids : records'[i].task # None => records'[i].gen = records[i].gen
      BY <1>9
    <2>3. /\ open' = open /\ kept' = kept \ D /\ state' = state /\ job' = job
          /\ pc \notin {"join", "reset"}
      BY <1>2
    <2>4. TasksAreWanted
      BY DEF Inv, IInv
    <2> QED  BY <1>1, <1>8, <2>1, <2>2, <2>3, <2>4, TasksDropped
  <1>16. PoolFits'
    BY <1>2 DEF PoolFits, In, Inv, IInv
  <1>17. PostsAreOnce'
    <2>1. Working' = Working /\ nextGen \in Nat
      BY <1>1, <1>2 DEF Working, In, TypeOK
    <2> QED  BY <1>1, <1>2, <2>1, PostsKept DEF Inv, IInv
  <1>18. TypeOK'
    <2>1. finals' \in Seq(Posts) /\ kept' \subseteq TaskIds
      BY <1>1, <1>2 DEF TypeOK
    <2> HIDE DEF D
    <2> QED  BY <1>1, <1>2, <1>7, <1>12, <2>1 DEF TypeOK, Posts
  <1> QED  BY <1>8, <1>11, <1>12, <1>13, <1>14, <1>15, <1>16, <1>17, <1>18 DEF Inv, IInv
-----------------------------------------------------------------------------
(* The theorems.                                                           *)

\* Every step of the specification keeps the invariant.
LEMMA Steps ==
    ASSUME Inv, [Next]_vars
    PROVE  Inv'
  <1>1. CASE UNCHANGED vars
    <2>1. TypeOK'
      BY <1>1 DEF vars, Inv, IInv, TypeOK
    <2> QED  BY <1>1, <2>1, AllKept DEF vars, Inv, IInv
  <1>2. CASE Start
    BY <1>2, Starts
  <1>3. CASE SetFileLoader
    BY <1>3, LoaderSet
  <1>4. ASSUME NEW p \in Paths, NEW priority \in Priorities, Acquire(p, priority) PROVE Inv'
    BY <1>4, Acquired
  <1>5. ASSUME NEW l \in LeaseIds, Release(l) PROVE Inv'
    <2>1. l \in Held
      BY <1>5 DEF Release
    <2>2. CASE records[leases[l].record].leases = 1 /\ records[leases[l].record].phase = "preparing"
      BY <1>5, <2>1, <2>2, PreparationDropped
    <2>3. CASE ~(records[leases[l].record].leases = 1 /\ records[leases[l].record].phase = "preparing")
      BY <1>5, <2>1, <2>3, OtherwiseReleased
    <2> QED  BY <2>2, <2>3
  <1>6. ASSUME NEW l \in LeaseIds, CreateInstance(l) PROVE Inv'
    BY <1>6, InstancesChange
  <1>7. ASSUME NEW t \in TaskIds, TaskStep(t) PROVE Inv'
    BY <1>7, TasksBegin, TasksPost, TasksEnd DEF TaskStep
  <1>8. CASE PumpStep
    <2>1. CASE DrainHeaders \/ DrainEarly
      BY <2>1, HeadersTaken
    <2>2. CASE DrainCompletions
      BY <2>2, CompletionsTaken
    <2>3. CASE CommitOne
      BY <2>3, TextureCommitted, ModelCommitted DEF CommitOne
    <2>4. CASE EndPump
      BY <2>4, PumpEnds
    <2> QED  BY <1>8, <2>1, <2>2, <2>3, <2>4 DEF PumpStep
  <1>9. ASSUME NEW i \in Ids, TimePasses(i) PROVE Inv'
    BY <1>9, TimeGoesBy
  <1>10. ASSUME NEW i \in Ids, DestroyInstances(i) PROVE Inv'
    BY <1>10, InstancesChange
  <1>11. ASSUME NEW p \in Paths, LoadModelInstance(p) PROVE Inv'
    BY <1>11, LoadedAround
  <1>12. CASE Shutdown
    BY <1>12, ShutsDown
  <1>13. CASE Joined
    BY <1>13, WorkersJoined
  <1>14. CASE DeviceReset
    BY <1>14, DeviceLost
  <1> QED  BY <1>1, <1>2, <1>3, <1>4, <1>5, <1>6, <1>7, <1>8, <1>9, <1>10, <1>11, <1>12,
              <1>13, <1>14 DEF Next

\* The invariant of the streamer and its repository: the queue of commits is exactly what is
\* prepared, each lease is counted, each record is its path's only one, the pool keeps the
\* tasks of the preparations that are waited for, and each generation is posted once.
THEOREM Invariance == Spec => []IInv
  <1>1. Inv /\ [Next]_vars => Inv'
    BY Steps
  <1>2. Inv => IInv
    BY DEF Inv
  <1> QED  BY Begins, <1>1, <1>2, PTL DEF Spec

\* A ticket leads to the request it was given for as long as it is held, and what it
\* says is ready can be used.
THEOREM LeasedModelStaysHolds == Spec => []LeasedModelStays
  <1>1. Inv /\ [Next]_vars => Inv'
    BY Steps
  <1>2. ASSUME Inv PROVE LeasedModelStays
    <2>1. ASSUME NEW l \in Held
          PROVE  /\ RecordOf(l).gen = leases[l].gen
                 /\ RecordOf(l).phase = "ready" => RecordOf(l).model \in models
      <3>1. leases[l].record \in Ids
        BY <1>2, LeasedIsCounted
      <3>2. RecordOf(l).gen = leases[l].gen
        BY <1>2 DEF Inv, TicketsFit
      <3>3. RecordOf(l).phase = "ready" => RecordOf(l).model \in models
        BY <1>2, <3>1 DEF Inv, IInv, RecordsFit, RecordOf
      <3> QED  BY <3>2, <3>3
    <2> QED  BY <2>1 DEF LeasedModelStays
  <1> QED  BY Begins, <1>1, <1>2, PTL DEF Spec

-----------------------------------------------------------------------------
(* What a ticket reports.                                                  *)

\* The ways a record gets on while it is leased.
Onward ==
    {<<"preparing", "textures">>, <<"preparing", "model">>, <<"preparing", "failed">>,
     <<"textures", "textures">>, <<"textures", "model">>, <<"textures", "failed">>,
     <<"model", "ready">>, <<"model", "failed">>}

\* A step changes what record i shows, if at all, in one of these ways.
GoesOn(i) ==
    /\ \/ records'[i].phase = records[i].phase
       \/ <<records[i].phase, records'[i].phase>> \in Onward
    /\ records'[i].info \in {records[i].info, "model", WithHeader(records[i].info)}

\* What TicketsMoveForward says of the record of a ticket.
Forward(i) ==
    /\ Rank[records[i].phase] <= Rank[records'[i].phase]
    /\ records[i].phase = "ready" => records'[i].phase = "ready"
    /\ InfoRank[records[i].info] <= InfoRank[records'[i].info]

\* Each of these ways is forward.
LEMMA OnwardIsForward ==
    ASSUME NEW i, records[i] \in Records, GoesOn(i)
    PROVE  Forward(i)
  <1>1. records[i].phase \in Phases /\ records[i].info \in {"none", "header", "model"}
    BY DEF Records
  <1>2. Rank[records[i].phase] <= Rank[records'[i].phase]
    <2>1. CASE records'[i].phase = records[i].phase
      <3>1. Rank[records[i].phase] \in Nat
        BY <1>1 DEF Rank, Phases
      <3> QED  BY <2>1, <3>1
    <2>2. CASE <<records[i].phase, records'[i].phase>> \in Onward
      BY <2>2 DEF Onward, Rank
    <2> QED  BY <2>1, <2>2 DEF GoesOn
  <1>3. records[i].phase = "ready" => records'[i].phase = "ready"
    BY DEF GoesOn, Onward
  <1>4. InfoRank[records[i].info] <= InfoRank[records'[i].info]
    BY <1>1 DEF GoesOn, WithHeader, InfoRank
  <1> QED  BY <1>2, <1>3, <1>4 DEF Forward

\* A lease that is granted changes nothing of what the record shows.
LEMMA GrantShows ==
    ASSUME TypeOK, NEW i \in Ids, NEW r \in Records, Grant(i, r)
    PROVE  /\ records'[i].phase = r.phase /\ records'[i].info = r.info
           /\ \A j \in Ids \ {i} : records'[j] = records[j]
  <1> DEFINE n == [r EXCEPT !.leases = @ + 1]
  <1>1. n.phase = r.phase /\ n.info = r.info
    BY DEF Records
  <1>2. records' = [records EXCEPT ![i] = n] /\ records \in [Ids -> Records]
    BY DEF Grant, TypeOK
  <1> HIDE DEF n, Records
  <1> QED  BY <1>1, <1>2

\* Who asks again changes nothing of what a ticket shows, but that a preparation that
\* is begun anew can fail.
LEMMA AcquireGoesOn ==
    ASSUME Inv, NEW p \in Paths, NEW priority \in Priorities, Acquire(p, priority),
           NEW j \in Ids, records[j].phase # "none", records[j].leases # 0
    PROVE  GoesOn(j)
  <1> DEFINE i == IdFor(p)
             r == records[i]
             n == Renewed(r, priority)
  <1>1. TypeOK /\ i \in Ids /\ (AcquireNew(p, priority) \/ AcquireKnown(p, priority))
    BY DEF Acquire, ReserveIdentity, Inv, IInv
  <1>2. CASE j # i
    <2>1. records'[j] = records[j]
      <3>1. j \in Ids \ {IdFor(p)}
        BY <1>2
      <3> HIDE DEF i
      <3> QED  BY <1>1, <3>1, AcquiredNew, AcquiredKnown DEF Acquire
    <2> QED  BY <2>1 DEF GoesOn
  <1>3. CASE j = i
    <2>1. AcquireKnown(p, priority)
      BY <1>1, <1>3 DEF Acquire, AcquireNew
    <2>2. r \in Records /\ priority \in Nat
      BY <1>3, StreamerAssumption DEF Inv, IInv, TypeOK
    <2>3. n \in Records /\ n.phase = r.phase /\ n.info = r.info
      <3>1. n \in Records /\ n.phase = r.phase
        <4> HIDE DEF r
        <4> QED  BY <2>2, RenewedFacts
      <3>2. n.info = r.info
        BY <2>2 DEF Renewed, Records
      <3> QED  BY <3>1, <3>2
    <2>4. \/ r.phase = "preparing" /\ Schedule(i, n, r.task)
          \/ Grant(i, n)
      BY <1>3, <2>1 DEF AcquireKnown
    <2> HIDE DEF n
    <2>5. CASE Grant(i, n)
      <3>1. records'[i].phase = n.phase /\ records'[i].info = n.info
        BY <1>3, <2>3, <2>5, GrantShows DEF Inv, IInv
      <3> QED  BY <1>3, <2>3, <3>1 DEF GoesOn
    <2>6. CASE r.phase = "preparing" /\ Schedule(i, n, r.task)
      <3>1. PICK m \in Records : /\ Grant(i, m) /\ m.phase \in {"preparing", "failed"}
                                 /\ m.info = n.info
        <4>1. CASE loader
          <5>1. PICK t \in TaskIds : Grant(i, [n EXCEPT !.phase = "preparing", !.task = t])
            BY <2>6, <4>1 DEF Schedule
          <5> DEFINE m == [n EXCEPT !.phase = "preparing", !.task = t]
          <5>2. m \in Records /\ m.phase = "preparing" /\ m.info = n.info
            BY <2>3 DEF Records, Phases
          <5> HIDE DEF m
          <5>3. Grant(i, m)
            BY <5>1 DEF m
          <5> QED  BY <5>2, <5>3
        <4>2. CASE ~loader
          <5> DEFINE s == [n EXCEPT !.task = None]
                     m == Failed(s)
          <5>1. s \in Records /\ s.task = None /\ s.info = n.info
            BY <2>3 DEF Records
          <5>2. Grant(i, m)
            BY <2>6, <4>2 DEF Schedule
          <5> HIDE DEF s
          <5>3. m \in Records /\ m.phase = "failed"
            BY <5>1, FailedFits
          <5>4. m.info = s.info
            BY <5>1 DEF Failed, Records
          <5> HIDE DEF m
          <5> QED  BY <5>1, <5>2, <5>3, <5>4
        <4> QED  BY <4>1, <4>2
      <3>2. records'[i].phase = m.phase /\ records'[i].info = m.info
        BY <1>3, <3>1, GrantShows DEF Inv, IInv
      <3> QED  BY <1>3, <2>3, <2>6, <3>1, <3>2 DEF GoesOn, Onward
    <2> QED  BY <2>4, <2>5, <2>6
  <1> QED  BY <1>2, <1>3

\* The phase and the bounds a record shows are those it showed.
Unmoved(i) == records'[i].phase = records[i].phase /\ records'[i].info = records[i].info

\* Pump takes a record that is leased only further.
LEMMA PumpGoesOn ==
    ASSUME Inv, PumpStep, NEW i \in Ids, records'[i].phase # "none"
    PROVE  GoesOn(i)
  <1>1. records \in [Ids -> Records] /\ finals \in Seq(Posts)
    BY DEF Inv, IInv, TypeOK, Posts
  <1>2. records[i] \in Records
    BY <1>1
  <1>3. CASE DrainHeaders
    <2>1. \/ records'[i] = [records[i] EXCEPT !.info = WithHeader(@)]
          \/ records'[i] = records[i]
      BY <1>3 DEF DrainHeaders
    <2> QED  BY <1>2, <2>1 DEF GoesOn, Records
  <1>4. CASE DrainEarly
    <2>1. \/ records'[i] = [records[i] EXCEPT !.info = "model"]
          \/ records'[i] = records[i]
      BY <1>4 DEF DrainEarly
    <2> QED  BY <1>2, <2>1 DEF GoesOn, Records
  <1>5. CASE DrainCompletions
    <2>1. CASE \E f \in Answers : f.post.record = i
      <3> DEFINE f == CHOOSE f \in Answers : f.post.record = i
                 c == Completed(records[i], f.outcome)
      <3>1. records'[i] = c
        BY <1>5, <2>1 DEF DrainCompletions
      <3>2. f \in Answers /\ f.post.record = i
        BY <2>1
      <3> HIDE DEF f
      <3>3. f \in Posts /\ records[i].phase = "preparing"
        BY <3>2, AnswersFacts
      <3>4. f.outcome \in Outcomes
        BY <3>3 DEF Posts
      <3>5. c.phase \in {"textures", "model", "failed"}
        <4> HIDE DEF Records
        <4> QED  BY <1>2, <3>4, CompletedFacts
      <3>6. c.info \in {records[i].info, "model"}
        BY <1>2 DEF Completed, Failed, Records
      <3> HIDE DEF c
      <3> QED  BY <3>1, <3>3, <3>5, <3>6 DEF GoesOn, Onward
    <2>2. CASE ~ \E f \in Answers : f.post.record = i
      <3>1. records'[i] = records[i]
        BY <1>5, <2>2 DEF DrainCompletions
      <3> QED  BY <3>1 DEF GoesOn
    <2> QED  BY <2>1, <2>2
  <1>6. CASE CommitOne
    <2> DEFINE h == Head(queue)
    <2>1. h \in Ids /\ queue # <<>>
      BY <1>6, HeadFacts DEF CommitOne
    <2>2. \E r : /\ records' = [records EXCEPT ![h] = r] /\ r.info = records[h].info
                 /\ <<records[h].phase, r.phase>> \in Onward
      <3>1. records[h] \in Records
        BY <1>1, <2>1
      <3>2. CASE CommitTexture(h)
        <4> DEFINE left == records[h].textures - 1
                   next == [records[h] EXCEPT !.textures = left, !.phase = CommitPhase(left)]
                   worst == Failed(records[h])
        <4>1. /\ records[h].phase = "textures"
              /\ \/ records' = [records EXCEPT ![h] = next]
                 \/ records' = [records EXCEPT ![h] = worst]
          BY <3>2 DEF CommitTexture
        <4>2. next.info = records[h].info /\ next.phase \in {"textures", "model"}
          BY <3>1 DEF Records, CommitPhase
        <4>3. worst.info = records[h].info /\ worst.phase = "failed"
          BY <3>1 DEF Records, Failed
        <4> HIDE DEF next, worst, h
        <4> QED  BY <4>1, <4>2, <4>3 DEF Onward
      <3>3. CASE CommitModel(h)
        <4> DEFINE m == IdFor(records[h].path)
                   best == BecomesReady(records[h], m)
                   worst == Failed(records[h])
        <4>1. /\ records[h].phase = "model"
              /\ \/ records' = [records EXCEPT ![h] = best]
                 \/ records' = [records EXCEPT ![h] = worst]
          BY <3>3 DEF CommitModel
        <4> HIDE DEF m
        <4>2. best.info = records[h].info /\ best.phase = "ready"
          BY <3>1 DEF Records, BecomesReady
        <4>3. worst.info = records[h].info /\ worst.phase = "failed"
          BY <3>1 DEF Records, Failed
        <4> HIDE DEF best, worst, h
        <4> QED  BY <4>1, <4>2, <4>3 DEF Onward
      <3> QED  BY <1>6, <3>2, <3>3 DEF CommitOne
    <2>3. PICK r : /\ records' = [records EXCEPT ![h] = r] /\ r.info = records[h].info
                   /\ <<records[h].phase, r.phase>> \in Onward
      BY <2>2
    <2> HIDE DEF h, Onward
    <2>4. CASE i = h
      <3>1. records'[i] = r
        BY <1>1, <2>1, <2>3, <2>4
      <3> QED  BY <2>3, <2>4, <3>1 DEF GoesOn
    <2>5. CASE i # h
      <3>1. records'[i] = records[i]
        BY <1>1, <2>3, <2>5
      <3> QED  BY <3>1 DEF GoesOn
    <2> QED  BY <2>4, <2>5
  <1>7. CASE EndPump
    <2>1. \/ records'[i] = Absent
          \/ records'[i] = [records[i] EXCEPT !.timer = "set"]
          \/ records'[i] = records[i]
      BY <1>7 DEF EndPump
    <2>2. records'[i] # Absent
      BY DEF Absent
    <2>3. Unmoved(i)
      BY <1>2, <2>1, <2>2 DEF Unmoved, Records
    <2> QED  BY <2>3 DEF GoesOn, Unmoved
  <1> QED  BY <1>3, <1>4, <1>5, <1>6, <1>7 DEF PumpStep

\* Whatever happens, a record goes on while a lease of it is held.
LEMMA HeldGoesOn ==
    ASSUME Inv, Inv', Next, NEW l \in Held, leases'[l] = leases[l]
    PROVE  GoesOn(leases[l].record)
  <1> DEFINE i == leases[l].record
  <1>1. i \in Ids /\ records[i].phase # "none" /\ records[i].leases # 0
    BY LeasedIsCounted DEF Known
  <1>2. l \in LeaseIds /\ leases[l] # NoLease
    BY DEF Held
  <1>3. records'[i].phase # "none"
    <2>1. LeasesFit'
      BY DEF Inv, IInv
    <2>2. leases'[l].record \in Known'
      BY <1>2, <2>1 DEF LeasesFit, Held
    <2> QED  BY <2>2 DEF Known
  <1>4. records \in [Ids -> Records] /\ records[i] \in Records
    BY <1>1 DEF Inv, IInv, TypeOK
  <1>5. records'[i] # Absent
    BY <1>3 DEF Absent
  <1> HIDE DEF i
  <1>6. ASSUME records' = records PROVE GoesOn(i)
    BY <1>6 DEF GoesOn
  <1>7. ASSUME SetFileLoader PROVE GoesOn(i)
    <2>1. records'[i] = records[i]
      BY <1>1, <1>5, <1>7 DEF SetFileLoader, Removed
    <2> QED  BY <2>1 DEF GoesOn
  <1>8. ASSUME NEW p \in Paths, NEW priority \in Priorities, Acquire(p, priority)
        PROVE  GoesOn(i)
    BY <1>1, <1>8, AcquireGoesOn
  <1>9. ASSUME NEW k \in LeaseIds, Release(k) PROVE GoesOn(i)
    <2> DEFINE j == leases[k].record
               r == [records[j] EXCEPT !.leases = @ - 1]
               n == IF r.leases = 0 /\ r.phase = "ready" THEN [r EXCEPT !.timer = "set"] ELSE r
    <2>1. \/ records' = Removed({j})
          \/ records' = [records EXCEPT ![j] = n]
      BY <1>9 DEF Release
    <2>2. CASE i # j
      <3> HIDE DEF j, n
      <3>1. records'[i] = records[i]
        BY <1>1, <1>4, <2>1, <2>2 DEF Removed
      <3> QED  BY <3>1 DEF GoesOn
    <2>3. CASE i = j
      <3>1. n.phase = records[i].phase /\ n.info = records[i].info
        BY <1>4, <2>3 DEF Records
      <3> HIDE DEF j, n
      <3>2. records'[i] = n
        BY <1>1, <1>4, <1>5, <2>1, <2>3 DEF Removed
      <3> QED  BY <3>1, <3>2 DEF GoesOn
    <2> QED  BY <2>2, <2>3
  <1>10. ASSUME PumpStep PROVE GoesOn(i)
    BY <1>1, <1>3, <1>10, PumpGoesOn
  <1>11. ASSUME NEW j \in Ids, TimePasses(j) PROVE GoesOn(i)
    <2>1. \/ records'[i] = records[i]
          \/ records'[i] = [records[i] EXCEPT !.timer = "past"]
      BY <1>1, <1>4, <1>11 DEF TimePasses
    <2>2. Unmoved(i)
      BY <1>4, <2>1 DEF Unmoved, Records
    <2> QED  BY <2>2 DEF GoesOn, Unmoved
  <1>12. ASSUME Joined \/ DeviceReset PROVE GoesOn(i)
    <2>1. records'[i] = Absent
      BY <1>1, <1>12 DEF Joined, DeviceReset, NothingIsKnown
    <2> QED  BY <1>5, <2>1
  <1>13. ASSUME \/ Start \/ Shutdown \/ \E k \in LeaseIds : CreateInstance(k)
                \/ \E t \in TaskIds : TaskStep(t)
                \/ \E j \in Ids : DestroyInstances(j)
                \/ \E p \in Paths : LoadModelInstance(p)
         PROVE  GoesOn(i)
    <2>1. records' = records
      BY <1>13 DEF Start, Shutdown, CreateInstance, TaskStep, TaskBegins, PostHeader,
                   PostEarly, PostFinal, DestroyInstances, LoadModelInstance, recordVars
    <2> QED  BY <1>6, <2>1
  <1>14. GoesOn(i)
    BY <1>7, <1>8, <1>9, <1>10, <1>11, <1>12, <1>13 DEF Next
  <1> QED  BY <1>14 DEF i

\* What a ticket reports only moves forward, whoever else asks for the model or gives it
\* up, in whatever order the posts of its task are taken in and whatever fails.
THEOREM TicketsMoveForwardHolds == Spec => TicketsMoveForward
  <1> DEFINE Forwards ==
        \A l \in Held : leases'[l] = leases[l] =>
            /\ Rank[RecordOf(l).phase] <= Rank[records'[leases[l].record].phase]
            /\ RecordOf(l).phase = "ready" => records'[leases[l].record].phase = "ready"
            /\ InfoRank[RecordOf(l).info] <= InfoRank[records'[leases[l].record].info]
  <1>1. Inv /\ [Next]_vars => Inv'
    BY Steps
  <1>2. Inv /\ Inv' /\ [Next]_vars => [Forwards]_vars
    <2> SUFFICES ASSUME Inv, Inv', Next, NEW l \in Held, leases'[l] = leases[l]
                 PROVE  Forward(leases[l].record)
      BY DEF Forward, RecordOf
    <2>1. GoesOn(leases[l].record)
      BY HeldGoesOn
    <2>2. records[leases[l].record] \in Records
      BY LeasedIsCounted DEF Inv, IInv, TypeOK
    <2> QED  BY <2>1, <2>2, OnwardIsForward
  <1> QED  BY Begins, <1>1, <1>2, PTL DEF Spec, TicketsMoveForward

=============================================================================
