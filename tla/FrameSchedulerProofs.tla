------------------------ MODULE FrameSchedulerProofs ------------------------
(***************************************************************************)
(* Proofs about FrameScheduler, for any threads, phases and priorities and *)
(* however many callbacks, runs and frames: no registration is lost and no *)
(* removal forgotten, a phase runs its callbacks in order, what Main has   *)
(* removed is not called again, the vectors a run walks stay as they are,  *)
(* and a frame that comes to its end has called everyone it owed.          *)
(*                                                                         *)
(* Inductive is IInv and NothingLost together: a sorted phase has its      *)
(* handles in strict order because each handle has one entry, and a handle *)
(* has one entry because the one being registered is new.  What is owed    *)
(* lies ahead of the frame, so nothing is left to owe behind the last      *)
(* entry of the last phase.                                                *)
(***************************************************************************)
EXTENDS FrameScheduler, FiniteSetTheorems, WellFoundedInduction, TLAPS

USE DEF entryVars, registerVars, callVars

\* Well-foundedness of < is the library's form of induction that the provers can use.
LEMMA LeastNatural ==
    ASSUME NEW S, S \subseteq Nat, S # {}
    PROVE  \E m \in S : \A n \in S : m <= n
  <1> DEFINE R == OpToRel(<, Nat)
  <1>1. IsWellFoundedOn(R, Nat)
    BY NatLessThanWellFounded
  <1>2. \A x, y \in Nat : x < y => <<x, y>> \in R
    BY DEF OpToRel
  <1> HIDE DEF R
  <1>3. PICK m \in S : \A n \in S : <<n, m>> \notin R
    BY <1>1, WFMin
  <1>4. ASSUME NEW n \in S PROVE m <= n
    <2>1. n \in Nat /\ m \in Nat
      OBVIOUS
    <2>2. ~(n < m)
      BY <1>2, <1>3, <2>1
    <2> QED  BY <2>1, <2>2
  <1> QED  BY <1>4

\* How many of H there are up to a position, one position after the other.
LEMMA CountSteps ==
    ASSUME NEW T, NEW s \in Seq(T), NEW H
    PROVE  /\ \A i \in 0 .. Len(s) : Count(s, H, i) \in Nat
           /\ Count(s, H, 0) = 0
           /\ \A i \in 1 .. Len(s) : s[i] \in H => Count(s, H, i) = Count(s, H, i - 1) + 1
           /\ \A i \in 1 .. Len(s) : s[i] \notin H => Count(s, H, i) = Count(s, H, i - 1)
           /\ \A i, j \in 0 .. Len(s) : i <= j => Count(s, H, i) <= Count(s, H, j)
  <1> DEFINE P(i) == {j \in 1 .. i : s[j] \in H}
  <1>0. \A i : Count(s, H, i) = Cardinality(P(i))
    BY DEF Count
  <1>1. ASSUME NEW i \in 0 .. Len(s) PROVE IsFiniteSet(P(i)) /\ Cardinality(P(i)) \in Nat
    <2>1. IsFiniteSet(1 .. i)
      BY FS_Interval
    <2> QED  BY <2>1, FS_Subset, FS_CardinalityType
  <1>2. P(0) = {}
    OBVIOUS
  <1>3. ASSUME NEW i \in 1 .. Len(s), s[i] \in H
        PROVE  P(i) = P(i - 1) \cup {i} /\ i \notin P(i - 1)
    BY <1>3
  <1>4. ASSUME NEW i \in 1 .. Len(s), s[i] \notin H PROVE P(i) = P(i - 1)
    BY <1>4
  <1>5. ASSUME NEW i \in 0 .. Len(s), NEW j \in 0 .. Len(s), i <= j PROVE P(i) \subseteq P(j)
    BY <1>5
  <1> HIDE DEF P
  <1>6. Cardinality(P(0)) = 0
    BY <1>2, FS_EmptySet
  <1>7. ASSUME NEW i \in 1 .. Len(s), s[i] \in H
        PROVE  Cardinality(P(i)) = Cardinality(P(i - 1)) + 1
    <2>1. i - 1 \in 0 .. Len(s)
      OBVIOUS
    <2> QED  BY <2>1, <1>1, <1>3, <1>7, FS_AddElement
  <1>8. ASSUME NEW i \in 0 .. Len(s), NEW j \in 0 .. Len(s), i <= j
        PROVE  Cardinality(P(i)) <= Cardinality(P(j))
    BY <1>1, <1>5, <1>8, FS_Subset
  <1> QED  BY <1>0, <1>1, <1>4, <1>6, <1>7, <1>8

\* The n-th of H has a position.
LEMMA Position ==
    ASSUME NEW T, NEW s \in Seq(T), NEW H, NEW n \in 1 .. Count(s, H, Len(s))
    PROVE  \E i \in DOMAIN s : s[i] \in H /\ Count(s, H, i) = n
  <1> DEFINE S == {i \in 0 .. Len(s) : n <= Count(s, H, i)}
  <1>1. Len(s) \in 0 .. Len(s) /\ Len(s) \in Nat
    OBVIOUS
  <1>2. Count(s, H, Len(s)) \in Nat
    BY <1>1, CountSteps
  <1>3. n \in Nat /\ n > 0 /\ n <= Count(s, H, Len(s))
    BY <1>2
  <1>4. S \subseteq Nat /\ S # {}
    BY <1>1, <1>3
  <1>5. PICK i \in S : \A k \in S : i <= k
    BY <1>4, LeastNatural
  <1>6. i \in 1 .. Len(s)
    BY <1>1, <1>3, CountSteps
  <1>7. i - 1 \in 0 .. Len(s) /\ i - 1 \notin S
    BY <1>1, <1>5, <1>6
  <1>8. Count(s, H, i - 1) \in Nat /\ Count(s, H, i) \in Nat
    BY <1>6, <1>7, CountSteps
  <1>9. Count(s, H, i - 1) < n /\ n <= Count(s, H, i)
    BY <1>3, <1>7, <1>8
  <1>10. /\ s[i] \in H => Count(s, H, i) = Count(s, H, i - 1) + 1
         /\ s[i] \notin H => Count(s, H, i) = Count(s, H, i - 1)
    BY <1>6, CountSteps
  <1>11. s[i] \in H
    BY <1>3, <1>8, <1>9, <1>10
  <1>12. Count(s, H, i) = n
    BY <1>3, <1>8, <1>9, <1>10, <1>11
  <1> QED  BY <1>6, <1>11, <1>12

\* Only keeps the handles of H, each from a place of its own, in the order they had.
LEMMA OnlyFacts ==
    ASSUME NEW T, NEW s \in Seq(T), NEW H
    PROVE  /\ Only(s, H) \in Seq(T)
           /\ ToSet(Only(s, H)) = ToSet(s) \cap H
           /\ \E at \in [DOMAIN Only(s, H) -> DOMAIN s] :
                 /\ \A m, n \in DOMAIN Only(s, H) : m < n => at[m] < at[n]
                 /\ \A n \in DOMAIN Only(s, H) : Only(s, H)[n] = s[at[n]]
  <1> DEFINE N == Count(s, H, Len(s))
             Is(n, i) == s[i] \in H /\ Count(s, H, i) = n
             at == [n \in 1 .. N |-> CHOOSE i \in DOMAIN s : Is(n, i)]
  <1>1. Len(s) \in Nat /\ DOMAIN s = 1 .. Len(s) /\ N \in Nat
    <2>1. Len(s) \in Nat /\ DOMAIN s = 1 .. Len(s) /\ Len(s) \in 0 .. Len(s)
      OBVIOUS
    <2> QED  BY <2>1, CountSteps
  <1>2. ASSUME NEW n \in 1 .. N PROVE at[n] \in DOMAIN s /\ Is(n, at[n])
    <2>1. \E i \in DOMAIN s : Is(n, i)
      BY Position
    <2> HIDE DEF Is
    <2> QED  BY <2>1
  <1>3. Only(s, H) = [n \in 1 .. N |-> s[at[n]]]
    BY DEF Only
  <1>4. at \in [1 .. N -> DOMAIN s]
    BY <1>2
  <1> HIDE DEF at, N
  <1>5. DOMAIN Only(s, H) = 1 .. N /\ \A n \in 1 .. N : Only(s, H)[n] = s[at[n]]
    BY <1>3
  <1>6. Only(s, H) \in Seq(T)
    <2>1. \A n \in 1 .. N : s[at[n]] \in T
      BY <1>2
    <2> QED  BY <1>1, <1>3, <2>1
  <1>7. ASSUME NEW m \in 1 .. N, NEW n \in 1 .. N, m < n PROVE at[m] < at[n]
    <2>1. Count(s, H, at[m]) = m /\ Count(s, H, at[n]) = n
      BY <1>2
    <2>2. at[m] \in 0 .. Len(s) /\ at[n] \in 0 .. Len(s)
      BY <1>1, <1>2
    <2>3. at[n] <= at[m] => Count(s, H, at[n]) <= Count(s, H, at[m])
      BY <2>2, CountSteps
    <2>4. m \in Nat /\ n \in Nat
      BY <1>1
    <2> QED  BY <1>1, <2>1, <2>2, <2>3, <2>4, <1>7
  <1>8. ASSUME NEW i \in DOMAIN s, s[i] \in H PROVE \E n \in 1 .. N : at[n] = i
    <2> DEFINE n == Count(s, H, i)
    <2>1. n \in 1 .. N
      <3>1. i \in 1 .. Len(s) /\ i - 1 \in 0 .. Len(s) /\ i \in 0 .. Len(s)
        BY <1>1
      <3>2. n = Count(s, H, i - 1) + 1
        BY <3>1, <1>8, CountSteps
      <3>3. Count(s, H, i - 1) \in Nat
        BY <3>1, CountSteps
      <3>4. Count(s, H, i) <= Count(s, H, Len(s))
        <4>1. Len(s) \in 0 .. Len(s) /\ i <= Len(s)
          BY <1>1, <3>1
        <4> QED  BY <3>1, <4>1, CountSteps
      <3> QED  BY <3>2, <3>3, <3>4, <1>1 DEF N
    <2>2. at[n] \in DOMAIN s /\ Is(n, at[n])
      BY <2>1, <1>2
    <2>3. at[n] = i
      <3>1. ASSUME NEW j \in 1 .. Len(s), NEW k \in 1 .. Len(s), j < k, s[k] \in H
            PROVE  Count(s, H, j) # Count(s, H, k)
        <4>1. k - 1 \in 0 .. Len(s) /\ j \in 0 .. Len(s) /\ j <= k - 1
          BY <1>1, <3>1
        <4>2. Count(s, H, j) <= Count(s, H, k - 1)
          BY <4>1, CountSteps
        <4>3. Count(s, H, k) = Count(s, H, k - 1) + 1
          BY <3>1, CountSteps
        <4>4. Count(s, H, j) \in Nat /\ Count(s, H, k - 1) \in Nat
          BY <4>1, CountSteps
        <4> QED  BY <4>2, <4>3, <4>4
      <3> QED  BY <1>1, <1>8, <2>2, <3>1
    <2> QED  BY <2>1, <2>3
  <1>9. ToSet(Only(s, H)) = ToSet(s) \cap H
    <2>1. ASSUME NEW x \in ToSet(Only(s, H)) PROVE x \in ToSet(s) \cap H
      BY <1>2, <1>5 DEF ToSet
    <2>2. ASSUME NEW x \in ToSet(s) \cap H PROVE x \in ToSet(Only(s, H))
      <3>1. PICK i \in DOMAIN s : x = s[i]
        BY DEF ToSet
      <3>2. PICK n \in 1 .. N : at[n] = i
        BY <1>8, <3>1
      <3> QED  BY <1>5, <3>1, <3>2 DEF ToSet
    <2> QED  BY <2>1, <2>2
  <1> QED  BY <1>4, <1>5, <1>6, <1>7, <1>9
-----------------------------------------------------------------------------
(* What erasing, sorting and adding entries does to a phase.               *)

Distinct(s) == \A i, j \in DOMAIN s : s[i] = s[j] => i = j

\* Erasing from a phase, or picking a phase's additions, leaves no handle twice and
\* what was sorted sorted: what ApplyPendingLocked does to a phase.
LEMMA OnlyKeepsOrder ==
    ASSUME NEW s \in Seq(Handles), NEW H, Distinct(s)
    PROVE  /\ Distinct(Only(s, H))
           /\ SortedBy(s) => SortedBy(Only(s, H))
  <1> DEFINE r == Only(s, H)
  <1>1. r \in Seq(Handles) /\ DOMAIN r = 1 .. Len(r) /\ Len(r) \in Nat
    BY OnlyFacts
  <1>2. PICK at \in [DOMAIN r -> DOMAIN s] :
           /\ \A m, n \in DOMAIN r : m < n => at[m] < at[n]
           /\ \A n \in DOMAIN r : r[n] = s[at[n]]
    BY OnlyFacts
  <1> HIDE DEF r
  <1>3. \A n \in DOMAIN r : n \in Nat /\ at[n] \in DOMAIN s /\ at[n] \in Nat
    BY <1>1
  <1>4. Distinct(r)
    <2>1. ASSUME NEW m \in DOMAIN r, NEW n \in DOMAIN r, r[m] = r[n] PROVE m = n
      <3>1. at[m] = at[n]
        BY <1>2, <1>3, <2>1 DEF Distinct
      <3>2. ~(m < n) /\ ~(n < m)
        BY <1>2, <1>3, <3>1
      <3> QED  BY <1>3, <3>2
    <2> QED  BY <2>1 DEF Distinct
  <1>5. ASSUME SortedBy(s) PROVE SortedBy(r)
    <2>1. ASSUME NEW m \in DOMAIN r, NEW n \in DOMAIN r, m < n PROVE Before(r[m], r[n])
      <3>1. at[m] < at[n]
        BY <1>2, <2>1
      <3> QED  BY <1>2, <1>3, <1>5, <3>1 DEF SortedBy
    <2> QED  BY <2>1 DEF SortedBy
  <1> QED  BY <1>4, <1>5 DEF r

\* SortPhase permutes a phase.
LEMMA SortingFacts ==
    ASSUME NEW s \in Seq(Handles), NEW r \in Sortings(s), Distinct(s)
    PROVE  r \in Seq(Handles) /\ ToSet(r) = ToSet(s) /\ Distinct(r) /\ SortedBy(r)
  <1>1. r \in [DOMAIN s -> ToSet(s)] /\ ToSet(r) = ToSet(s) /\ SortedBy(r)
    BY DEF Sortings
  <1>2. ToSet(s) \subseteq Handles /\ Len(s) \in Nat /\ DOMAIN s = 1 .. Len(s)
    BY DEF ToSet
  <1>3. r \in Seq(Handles)
    BY <1>1, <1>2
  <1>4. IsFiniteSet(DOMAIN s) /\ Cardinality(DOMAIN s) = Len(s)
    BY <1>2, FS_Interval
  <1>5. s \in Bijection(DOMAIN s, ToSet(s))
    BY DEF Distinct, ToSet, Bijection, Injection, Surjection, IsInjective
  <1>6. IsFiniteSet(ToSet(s)) /\ Cardinality(DOMAIN s) = Cardinality(ToSet(s))
    BY <1>4, <1>5, FS_Surjection, FS_SameCardinalityBij, FS_Bijection DEF ExistsBijection, Bijection
  <1>7. r \in Surjection(DOMAIN s, ToSet(s))
    BY <1>1 DEF ToSet, Surjection
  <1>8. Distinct(r)
    BY <1>4, <1>6, <1>7, FS_SurjSameCardinalityImpliesInj DEF Distinct, Injection, IsInjective
  <1> QED  BY <1>1, <1>3, <1>8

\* The push_back of Register.
LEMMA AppendFacts ==
    ASSUME NEW T, NEW s \in Seq(T), NEW h \in T
    PROVE  /\ Append(s, h) \in Seq(T)
           /\ ToSet(Append(s, h)) = ToSet(s) \cup {h}
           /\ h \notin ToSet(s) /\ Distinct(s) => Distinct(Append(s, h))
  <1>1. Append(s, h) \in Seq(T) /\ DOMAIN Append(s, h) = DOMAIN s \cup {Len(s) + 1}
    OBVIOUS
  <1>2. /\ \A i \in DOMAIN s : Append(s, h)[i] = s[i]
        /\ Append(s, h)[Len(s) + 1] = h
    OBVIOUS
  <1>3. ToSet(Append(s, h)) = ToSet(s) \cup {h}
    BY <1>1, <1>2 DEF ToSet
  <1>4. h \notin ToSet(s) /\ Distinct(s) => Distinct(Append(s, h))
    BY <1>1, <1>2 DEF ToSet, Distinct
  <1> QED  BY <1>1, <1>3, <1>4

\* The additions come behind what is left of a phase.
LEMMA ConcatFacts ==
    ASSUME NEW T, NEW r \in Seq(T), NEW s \in Seq(T)
    PROVE  /\ r \o s \in Seq(T)
           /\ ToSet(r \o s) = ToSet(r) \cup ToSet(s)
           /\ Distinct(r) /\ Distinct(s) /\ ToSet(r) \cap ToSet(s) = {} => Distinct(r \o s)
           /\ ToSet(s) = {} => r \o s = r
  <1> DEFINE c == r \o s
  <1>1. /\ c \in Seq(T) /\ Len(c) = Len(r) + Len(s)
        /\ Len(r) \in Nat /\ Len(s) \in Nat
        /\ \A i \in 1 .. Len(r) : c[i] = r[i]
        /\ \A i \in 1 .. Len(s) : c[Len(r) + i] = s[i]
    OBVIOUS
  <1>2. DOMAIN r = 1 .. Len(r) /\ DOMAIN s = 1 .. Len(s) /\ DOMAIN c = 1 .. Len(c)
    OBVIOUS
  <1> HIDE DEF c
  <1>3. ASSUME NEW i \in DOMAIN c
        PROVE  i \in 1 .. Len(r) \/ \E j \in 1 .. Len(s) : i = Len(r) + j
    <2>1. i \in Nat /\ 1 <= i /\ i <= Len(r) + Len(s)
      BY <1>1, <1>2
    <2>2. i \notin 1 .. Len(r) => i - Len(r) \in 1 .. Len(s) /\ i = Len(r) + (i - Len(r))
      BY <1>1, <2>1
    <2> QED  BY <2>2
  <1>4. ToSet(c) = ToSet(r) \cup ToSet(s)
    <2>1. \A i \in 1 .. Len(r) : i \in 1 .. Len(c)
      BY <1>1
    <2>2. \A i \in 1 .. Len(s) : Len(r) + i \in 1 .. Len(c)
      BY <1>1
    <2>3. ASSUME NEW x \in ToSet(c) PROVE x \in ToSet(r) \cup ToSet(s)
      <3>1. PICK i \in DOMAIN c : x = c[i]
        BY DEF ToSet
      <3>2. CASE i \in 1 .. Len(r)
        BY <1>1, <1>2, <3>1, <3>2 DEF ToSet
      <3>3. CASE \E j \in 1 .. Len(s) : i = Len(r) + j
        BY <1>1, <1>2, <3>1, <3>3 DEF ToSet
      <3> QED  BY <1>3, <3>2, <3>3
    <2>4. ASSUME NEW x \in ToSet(r) PROVE x \in ToSet(c)
      BY <1>1, <1>2, <2>1 DEF ToSet
    <2>5. ASSUME NEW x \in ToSet(s) PROVE x \in ToSet(c)
      BY <1>1, <1>2, <2>2 DEF ToSet
    <2> QED  BY <2>3, <2>4, <2>5
  <1>5. ASSUME Distinct(r), Distinct(s), ToSet(r) \cap ToSet(s) = {} PROVE Distinct(c)
    <2>1. \A i \in 1 .. Len(r), j \in 1 .. Len(s) : r[i] # s[j]
      BY <1>2, <1>5 DEF ToSet
    <2>2. ASSUME NEW i \in DOMAIN c, NEW j \in DOMAIN c, c[i] = c[j] PROVE i = j
      <3>1. CASE i \in 1 .. Len(r) /\ j \in 1 .. Len(r)
        BY <1>1, <1>2, <1>5, <2>2, <3>1 DEF Distinct
      <3>2. ASSUME NEW k \in 1 .. Len(s), NEW l \in 1 .. Len(s),
                   i = Len(r) + k, j = Len(r) + l
            PROVE  i = j
        <4>1. s[k] = s[l]
          BY <1>1, <2>2, <3>2
        <4> QED  BY <1>2, <1>5, <3>2, <4>1 DEF Distinct
      <3>3. ASSUME NEW m \in 1 .. Len(r), NEW l \in 1 .. Len(s)
            PROVE  c[m] # c[Len(r) + l]
        BY <1>1, <2>1
      <3> QED  BY <1>3, <2>2, <3>1, <3>2, <3>3
    <2> QED  BY <2>2 DEF Distinct
  <1>6. ASSUME ToSet(s) = {} PROVE c = r
    <2>1. 1 \notin DOMAIN s
      BY <1>6 DEF ToSet
    <2>2. Len(s) = 0
      BY <1>1, <1>2, <2>1
    <2> QED  BY <2>2 DEF c
  <1> QED  BY <1>1, <1>4, <1>5, <1>6 DEF c

\* OneEntryEach, said of one phase at a time.
Placed(e, adds, phases) ==
    /\ \A p \in Phases : /\ Distinct(e[p])
                         /\ \A h \in ToSet(e[p]) : phases[h] = p
                         /\ ToSet(adds) \cap ToSet(e[p]) = {}
    /\ Distinct(adds)

\* Placed is OneEntryEach in the form the steps are reasoned with.
LEMMA PlacedIff ==
    ASSUME NEW e, NEW adds, NEW phases
    PROVE  Placed(e, adds, phases) <=>
              /\ \A p, q \in Phases : \A i \in DOMAIN e[p], j \in DOMAIN e[q] :
                    e[p][i] = e[q][j] => p = q /\ i = j
              /\ \A i, j \in DOMAIN adds : adds[i] = adds[j] => i = j
              /\ ToSet(adds) \cap UNION {ToSet(e[p]) : p \in Phases} = {}
              /\ \A p \in Phases : \A h \in ToSet(e[p]) : phases[h] = p
  <1>1. ASSUME Placed(e, adds, phases),
               NEW p \in Phases, NEW q \in Phases, NEW i \in DOMAIN e[p], NEW j \in DOMAIN e[q],
               e[p][i] = e[q][j]
        PROVE  p = q /\ i = j
    <2>1. phases[e[p][i]] = p /\ phases[e[q][j]] = q
      BY <1>1 DEF Placed, ToSet
    <2> QED  BY <1>1, <2>1 DEF Placed, Distinct
  <1>2. ToSet(adds) \cap UNION {ToSet(e[p]) : p \in Phases} = {} <=>
           \A p \in Phases : ToSet(adds) \cap ToSet(e[p]) = {}
    OBVIOUS
  <1> QED  BY <1>1, <1>2 DEF Placed, Distinct
-----------------------------------------------------------------------------
(* The steps of a run that leave the entries alone.                        *)

Inductive == IInv /\ NothingLost

\* Where the innermost run stands.
LEMMA Standing ==
    ASSUME Inductive, depth > 0
    PROVE  /\ depth \in Levels /\ depth \in Nat /\ Here = run[depth]
           /\ Here \in Runs
           /\ Here.kind \in {"frame", "phase"}
           /\ Here.kind = "frame" => depth = 1
           /\ StandsWell(Here)
           /\ Len(entries[Here.phase]) \in Nat
           /\ ~PastTheEnd => Current \in AllEntries /\ Current \in Handles
  <1> USE DEF Inductive, IInv
  <1>1. depth \in 0 .. MaxDepth
    BY DEF TypeOK
  <1>2. depth \in Levels /\ depth \in Nat /\ depth \in 1 .. depth
    BY <1>1, SchedulerAssumption DEF Levels
  <1>3. Here \in Runs
    BY <1>2 DEF TypeOK, Here
  <1>4. /\ depth > 1 => Here.kind = "phase"
        /\ Here.kind # "none"
        /\ StandsWell(Here)
    BY <1>2 DEF RunsAreNested, Here
  <1>5. entries[Here.phase] \in Seq(Handles) /\ Here.phase \in Phases /\ Here.index \in Nat \ {0}
    BY <1>3 DEF TypeOK, Runs
  <1>6. ASSUME ~PastTheEnd PROVE Current \in AllEntries /\ Current \in Handles
    <2>1. Here.index \in DOMAIN entries[Here.phase]
      BY <1>3, <1>5, <1>6 DEF PastTheEnd
    <2> QED  BY <1>3, <1>5, <2>1 DEF Current, AllEntries, ToSet
  <1> QED  BY <1>2, <1>3, <1>4, <1>5, <1>6 DEF Here, Runs

\* A step within a run that moves only the innermost run, and how far.
LEMMA MoveKeeps ==
    ASSUME Inductive, depth > 0, NEW level \in Runs, Move(level),
           level.kind = Here.kind,
           StandsWell(level),
           UNCHANGED <<entryVars, registerVars, frame_count, depth, kept, mainRemoved>>
    PROVE  /\ RunsAreNested' /\ NothingLost' /\ SortedOrDirty' /\ RunsInOrder'
           /\ Here' = level /\ run' \in [Levels -> Runs]
           /\ AllEntries' = AllEntries
  <1> USE DEF Inductive, IInv
  <1>1. depth \in Levels /\ depth \in Nat /\ Here = run[depth]
    BY Standing
  <1>2. /\ run \in [Levels -> Runs]
        /\ run' = [run EXCEPT ![depth] = level]
    BY DEF TypeOK, Move
  <1>3. /\ run' \in [Levels -> Runs]
        /\ run'[depth] = level
        /\ \A l \in Levels : l # depth => run'[l] = run[l]
    BY <1>1, <1>2
  <1>4. RunsAreNested'
    <2>1. ASSUME NEW l \in 1 .. depth
          PROVE  /\ run'[l].kind # "none"
                 /\ l > 1 => run'[l].kind = "phase"
                 /\ l < depth => run'[l].at = "inside"
                 /\ StandsWell(run'[l])
      <3>1. l \in Levels /\ l \in Nat /\ l <= depth
        BY <1>1, SchedulerAssumption DEF Levels
      <3>2. CASE l = depth
        BY <1>1, <1>3, <3>2, Standing
      <3>3. CASE l # depth
        BY <1>3, <3>1, <3>3 DEF RunsAreNested
      <3> QED  BY <3>2, <3>3
    <2> QED  BY <2>1 DEF RunsAreNested, StandsWell
  <1>5. AllEntries' = AllEntries
    BY DEF AllEntries
  <1>6. NothingLost'
    BY <1>5 DEF NothingLost, OneEntryEach, NothingPendingAtRest
  <1>7. SortedOrDirty' /\ RunsInOrder'
    BY DEF SortedOrDirty, SortedBy, Before, RunsInOrder
  <1>8. Here' = level
    BY <1>3 DEF Here
  <1> QED  BY <1>3, <1>4, <1>5, <1>6, <1>7, <1>8

\* A run that goes on does not pass what its frame must still call.
LEMMA OwedStaysAhead ==
    ASSUME Inductive, depth > 0, NEW level \in Runs, Move(level), level.kind = Here.kind,
           UNCHANGED <<entries, depth, kept>>, owed' \subseteq owed,
           Here.kind = "frame" =>
              \A p \in Phases : \A i \in DOMAIN entries[p] :
                  entries[p][i] \in owed' /\ IsAhead(p, i, Here) => IsAhead(p, i, level)
    PROVE  OwedIsAhead'
  <1> USE DEF Inductive, IInv
  <1>1. depth \in Levels /\ depth \in Nat /\ Here = run[depth] /\ 1 \in Levels
    BY Standing, SchedulerAssumption DEF Levels
  <1>2. run \in [Levels -> Runs] /\ run' = [run EXCEPT ![depth] = level]
    BY DEF TypeOK, Move
  <1>3. CASE depth = 1
    <2>1. run'[1] = level /\ run[1] = Here
      BY <1>1, <1>2, <1>3
    <2> QED  BY <2>1 DEF OwedIsAhead
  <1>4. CASE depth # 1
    <2>1. run'[1] = run[1]
      BY <1>1, <1>2, <1>4
    <2> QED  BY <2>1 DEF OwedIsAhead
  <1> QED  BY <1>3, <1>4

\* A step of a run keeps the invariant when it moves on to where it may stand, passes
\* nothing it owes, and calls what may be called.
LEMMA WalkKeeps ==
    ASSUME Inductive, depth > 0, NEW level \in Runs, Move(level), level.kind = Here.kind,
           StandsWell(level),
           UNCHANGED <<entryVars, registerVars, frame_count, depth, kept, mainRemoved>>,
           owed' \subseteq owed,
           Here.kind = "frame" =>
              \A p \in Phases : \A i \in DOMAIN entries[p] :
                  entries[p][i] \in owed' /\ IsAhead(p, i, Here) => IsAhead(p, i, level),
           called' \subseteq Handles,
           late' \in [Handles -> Nat],
           \A h \in Handles : late'[h] # late[h] => h \in AllEntries,
           NoCallAfterRemoval', ChosenMayBeCalled'
    PROVE  Inductive'
  <1> USE DEF Inductive, IInv
  <1>1. /\ RunsAreNested' /\ NothingLost' /\ SortedOrDirty' /\ RunsInOrder'
        /\ AllEntries' = AllEntries
        /\ run' \in [Levels -> Runs]
    BY MoveKeeps
  <1>2. TypeOK'
    BY <1>1 DEF TypeOK
  <1>3. Used' = Used
    BY <1>1 DEF Used
  <1>4. HandlesAreNew'
    BY <1>3 DEF HandlesAreNew
  <1>5. OwedIsAhead'
    BY OwedStaysAhead
  <1> QED  BY <1>1, <1>2, <1>4, <1>5

\* The ranges of what describes the innermost run.
LEMMA HereFacts ==
    ASSUME Inductive, depth > 0
    PROVE  /\ Here \in Runs
           /\ Here.kind \in {"frame", "phase"}
           /\ Here.phase \in Phases /\ Here.phase \in Nat
           /\ Here.index \in Nat /\ Here.index > 0
           /\ entries[Here.phase] \in Seq(Handles) /\ Len(entries[Here.phase]) \in Nat
           /\ \A p \in Phases : p \in Nat
           /\ \A p \in Phases : \A i \in DOMAIN entries[p] : i \in Nat
  <1>1. /\ Here \in Runs
        /\ Here.kind \in {"frame", "phase"}
        /\ entries \in [Phases -> Seq(Handles)]
    BY Standing DEF Inductive, IInv, TypeOK
  <1>2. Here.phase \in Phases /\ Here.index \in Nat /\ Here.index > 0
    BY <1>1 DEF Runs
  <1>3. \A p \in Phases : p \in Nat
    BY SchedulerAssumption DEF Phases
  <1>4. \A p \in Phases : \A i \in DOMAIN entries[p] : i \in Nat
    BY <1>1
  <1>5. entries[Here.phase] \in Seq(Handles) /\ Len(entries[Here.phase]) \in Nat
    BY <1>1, <1>2
  <1> QED  BY <1>1, <1>2, <1>3, <1>4, <1>5

\* The next entry of the same run.
LEMMA StepOverFacts ==
    ASSUME NEW r \in Runs
    PROVE  /\ StepOver(r) \in Runs /\ StepOver(r).kind = r.kind /\ StepOver(r).at = "scan"
           /\ StepOver(r).phase = r.phase /\ StepOver(r).index = r.index + 1
  <1> DEFINE q == StepOver(r)
  <1>1. r.index + 1 \in Nat \ {0}
    BY DEF Runs
  <1>2. /\ q.kind = r.kind /\ q.phase = r.phase /\ q.index = r.index + 1 /\ q.at = "scan"
    BY DEF StepOver, Runs
  <1>3. q \in Runs
    BY <1>1 DEF StepOver, Runs
  <1> QED  BY <1>2, <1>3

\* The frame owes nothing that a deferred removal has taken out.
LEMMA SkipRemovedKeeps ==
    ASSUME Inductive, SkipRemoved
    PROVE  Inductive'
  <1> DEFINE level == StepOver(Here)
  <1> USE DEF Inductive, IInv, SkipRemoved
  <1>1. depth > 0 /\ Here.at = "scan" /\ ~PastTheEnd /\ Current \in pending_removes
    BY DEF Scanning
  <1>2. /\ level \in Runs /\ level.kind = Here.kind /\ level.at = "scan"
        /\ level.phase = Here.phase /\ level.index = Here.index + 1
    BY <1>1, HereFacts, StepOverFacts
  <1>3. Move(level)
    OBVIOUS
  <1> HIDE DEF level
  <1>4. StandsWell(level)
    BY <1>1, <1>2, HereFacts DEF StandsWell, PastTheEnd
  <1>5. Here' = level
    BY <1>1, <1>2, <1>3, <1>4, MoveKeeps
  <1>6. Current \notin owed
    BY <1>1, Standing DEF OwedIsAhead, NothingLost, OneEntryEach
  <1>7. ASSUME NEW p \in Phases, NEW i \in DOMAIN entries[p], entries[p][i] \in owed,
               IsAhead(p, i, Here)
        PROVE  IsAhead(p, i, level)
    <2>1. p = Here.phase => i # Here.index
      BY <1>6, <1>7 DEF Current
    <2> QED  BY <1>1, <1>2, <1>7, <2>1, HereFacts DEF IsAhead
  <1>8. ChosenMayBeCalled' /\ NoCallAfterRemoval'
    BY <1>2, <1>5 DEF ChosenMayBeCalled, NoCallAfterRemoval
  <1>9. called' \subseteq Handles /\ late' \in [Handles -> Nat] /\ late' = late
    BY DEF TypeOK
  <1> QED  BY <1>1, <1>2, <1>3, <1>4, <1>7, <1>8, <1>9, WalkKeeps

\* What was not pending removal is kept, so it has not been called since a removal.
LEMMA ChooseKeeps ==
    ASSUME Inductive, Choose
    PROVE  Inductive'
  <1> DEFINE level == [Here EXCEPT !.at = "call"]
  <1> USE DEF Inductive, IInv, Choose, ChooseAny
  <1>1. depth > 0 /\ Here.at = "scan" /\ ~PastTheEnd /\ Current \notin pending_removes
    BY DEF Scanning
  <1>2. /\ level \in Runs /\ level.kind = Here.kind /\ level.at = "call"
        /\ level.phase = Here.phase /\ level.index = Here.index
    BY <1>1, HereFacts DEF Runs
  <1>3. Move(level)
    OBVIOUS
  <1> HIDE DEF level
  <1>4. StandsWell(level)
    BY <1>1, <1>2, HereFacts DEF StandsWell, PastTheEnd
  <1>5. Here' = level
    BY <1>1, <1>2, <1>3, <1>4, MoveKeeps
  <1>6. Current \in kept
    BY <1>1, Standing DEF NothingLost
  <1>7. Current' = Current
    BY <1>2, <1>5 DEF Current
  <1>8. ChosenMayBeCalled' /\ NoCallAfterRemoval'
    BY <1>6, <1>7 DEF ChosenMayBeCalled, NoCallAfterRemoval
  <1>9. called' \subseteq Handles /\ late' \in [Handles -> Nat] /\ late' = late
    BY DEF TypeOK
  <1>10. \A p \in Phases : \A i \in DOMAIN entries[p] :
            IsAhead(p, i, Here) => IsAhead(p, i, level)
    BY <1>1, <1>2 DEF IsAhead
  <1> QED  BY <1>1, <1>2, <1>3, <1>4, <1>8, <1>9, <1>10, WalkKeeps

\* The call pays what the frame owes; a callback removed since it was chosen was removed
\* by another thread, and this is its one late call.
LEMMA CallCallbackKeeps ==
    ASSUME Inductive, CallCallback
    PROVE  Inductive'
  <1> DEFINE level == [Here EXCEPT !.at = "inside"]
  <1> USE DEF Inductive, IInv, CallCallback
  <1>1. depth > 0 /\ Here.at = "call"
    OBVIOUS
  <1>2. /\ level \in Runs /\ level.kind = Here.kind /\ level.at = "inside"
        /\ level.phase = Here.phase /\ level.index = Here.index
    BY <1>1, HereFacts DEF Runs
  <1>3. Move(level)
    OBVIOUS
  <1> HIDE DEF level
  <1>4. StandsWell(level) /\ ~PastTheEnd
    BY <1>1, <1>2, HereFacts, Standing DEF StandsWell, PastTheEnd
  <1>5. Here' = level
    BY <1>1, <1>2, <1>3, <1>4, MoveKeeps
  <1>6. Current \in AllEntries /\ Current \in Handles
    BY <1>1, <1>4, Standing
  <1>7. late[Current] = 0 /\ Current \notin mainRemoved
    BY <1>1 DEF ChosenMayBeCalled
  <1>8. called' \subseteq Handles /\ late' \in [Handles -> Nat]
    BY <1>6 DEF TypeOK
  <1>9. \A h \in Handles :
           \/ late'[h] = late[h]
           \/ h = Current /\ Current \notin kept /\ late'[h] = 1
    <2>1. late \in [Handles -> Nat]
      BY DEF TypeOK
    <2>2. CASE Current \in kept
      <3>1. late' = late
        BY <2>2
      <3> QED  BY <3>1
    <2>3. CASE Current \notin kept
      <3>1. late' = [late EXCEPT ![Current] = 1]
        BY <1>7, <2>3
      <3> QED  BY <1>6, <2>1, <2>3, <3>1
    <2> QED  BY <2>2, <2>3
  <1>10. ChosenMayBeCalled'
    <2>1. kept \subseteq Handles
      BY DEF TypeOK
    <2> QED  BY <1>2, <1>5, <1>9, <2>1 DEF ChosenMayBeCalled
  <1>11. NoCallAfterRemoval'
    <2>1. ASSUME NEW h \in Handles PROVE late'[h] <= IF h \in mainRemoved THEN 0 ELSE 1
      BY <1>7, <1>9 DEF NoCallAfterRemoval
    <2> QED  BY <2>1 DEF NoCallAfterRemoval
  <1>12. ASSUME NEW p \in Phases, NEW i \in DOMAIN entries[p], entries[p][i] \in owed',
                IsAhead(p, i, Here), Here.kind = "frame"
         PROVE  IsAhead(p, i, level)
    <2>1. p = Here.phase => i # Here.index
      BY <1>12 DEF Current
    <2> QED  BY <1>2, <1>12, <2>1 DEF IsAhead
  <1>13. owed' \subseteq owed
    OBVIOUS
  <1> QED  BY <1>1, <1>2, <1>3, <1>4, <1>6, <1>8, <1>9, <1>10, <1>11, <1>12, <1>13, WalkKeeps

\* Whatever the callback did, the run goes on behind the entry it came from.
LEMMA CallbackReturnsKeeps ==
    ASSUME Inductive, CallbackReturns
    PROVE  Inductive'
  <1> DEFINE level == StepOver(Here)
  <1> USE DEF Inductive, IInv, CallbackReturns
  <1>1. depth > 0 /\ Here.at = "inside"
    BY DEF MayCall, Here
  <1>2. /\ level \in Runs /\ level.kind = Here.kind /\ level.at = "scan"
        /\ level.phase = Here.phase /\ level.index = Here.index + 1
    BY <1>1, HereFacts, StepOverFacts
  <1>3. Move(level)
    OBVIOUS
  <1> HIDE DEF level
  <1>4. StandsWell(level)
    BY <1>1, <1>2, HereFacts, Standing DEF StandsWell
  <1>5. Here' = level
    BY <1>1, <1>2, <1>3, <1>4, MoveKeeps
  <1>6. ASSUME NEW p \in Phases, NEW i \in DOMAIN entries[p], IsAhead(p, i, Here)
        PROVE  IsAhead(p, i, level)
    BY <1>1, <1>2, <1>6, HereFacts DEF IsAhead
  <1>7. ChosenMayBeCalled' /\ NoCallAfterRemoval'
    BY <1>2, <1>5 DEF ChosenMayBeCalled, NoCallAfterRemoval
  <1>8. called' \subseteq Handles /\ late' \in [Handles -> Nat] /\ late' = late
    BY DEF TypeOK
  <1> QED  BY <1>1, <1>2, <1>3, <1>4, <1>6, <1>7, <1>8, WalkKeeps

\* Nothing of the phase left behind is owed.
LEMMA NextPhaseKeeps ==
    ASSUME Inductive, NextPhase
    PROVE  Inductive'
  <1> DEFINE level == [Here EXCEPT !.phase = @ + 1, !.index = First]
  <1> USE DEF Inductive, IInv, NextPhase, First
  <1>1. depth > 0 /\ Here.at = "scan" /\ PastTheEnd /\ Here.phase < PhaseCount
    BY DEF Scanning
  <1>2. Here.phase + 1 \in Phases /\ Here.phase \in Nat
    BY <1>1, HereFacts, SchedulerAssumption DEF Phases
  <1>3. /\ level \in Runs /\ level.kind = Here.kind /\ level.at = "scan"
        /\ level.phase = Here.phase + 1 /\ level.index = 1
    <2>1. Here \in Runs
      BY <1>1, HereFacts
    <2>2. /\ level.kind = Here.kind /\ level.at = Here.at
          /\ level.phase = Here.phase + 1 /\ level.index = 1
      BY <2>1 DEF Runs
    <2>3. ASSUME NEW r \in Runs, r.phase + 1 \in Phases
          PROVE  [r EXCEPT !.phase = r.phase + 1, !.index = 1] \in Runs
      <3>1. 1 \in Nat \ {0}
        OBVIOUS
      <3> QED  BY <2>3, <3>1 DEF Runs
    <2>4. level \in Runs
      BY <1>2, <2>1, <2>3
    <2> QED  BY <1>1, <2>2, <2>4
  <1>4. Move(level)
    OBVIOUS
  <1> HIDE DEF level
  <1>5. StandsWell(level)
    <2>1. Len(entries[level.phase]) \in Nat
      BY <1>2, <1>3 DEF TypeOK
    <2> QED  BY <1>3, <2>1 DEF StandsWell
  <1>6. Here' = level
    BY <1>1, <1>3, <1>4, <1>5, MoveKeeps
  <1>7. ASSUME NEW p \in Phases, NEW i \in DOMAIN entries[p], IsAhead(p, i, Here)
        PROVE  IsAhead(p, i, level)
    <2>1. i \in 1 .. Len(entries[p]) /\ Len(entries[p]) \in Nat
      BY DEF TypeOK
    <2>2. p # Here.phase
      BY <1>1, <1>7, <2>1, HereFacts DEF IsAhead, PastTheEnd
    <2>3. p > Here.phase /\ p \in Nat /\ i \in Nat /\ i >= 1
      BY <1>1, <1>7, <2>1, <2>2, HereFacts DEF IsAhead
    <2> QED  BY <1>2, <1>3, <2>3 DEF IsAhead
  <1>8. ChosenMayBeCalled' /\ NoCallAfterRemoval'
    BY <1>3, <1>6 DEF ChosenMayBeCalled, NoCallAfterRemoval
  <1>9. called' \subseteq Handles /\ late' \in [Handles -> Nat] /\ late' = late
    BY DEF TypeOK
  <1> QED  BY <1>1, <1>3, <1>4, <1>5, <1>7, <1>8, <1>9, WalkKeeps
-----------------------------------------------------------------------------
(* Registrations and removals.                                             *)

\* Being an entry of some phase.
LEMMA AllIff ==
    ASSUME NEW e
    PROVE  \A h : h \in UNION {ToSet(e[p]) : p \in Phases} <=> \E p \in Phases : h \in ToSet(e[p])
  OBVIOUS

\* All entries, phase by phase.
LEMMA AllAre ==
    ASSUME NEW e, NEW S, \A p \in Phases : ToSet(e[p]) \subseteq S,
           \A h \in S : \E p \in Phases : h \in ToSet(e[p])
    PROVE  UNION {ToSet(e[p]) : p \in Phases} = S
  OBVIOUS

\* Where handles are, and that they are handles.
LEMMA KnownFacts ==
    ASSUME Inductive
    PROVE  /\ Placed(entries, pending_adds, phaseOf)
           /\ entries \in [Phases -> Seq(Handles)] /\ pending_adds \in Seq(Handles)
           /\ \A p \in Phases : ToSet(entries[p]) \subseteq AllEntries
           /\ AllEntries \subseteq Handles /\ ToSet(pending_adds) \subseteq Handles
           /\ Used \subseteq Handles
           /\ Invalid \notin Handles
  <1> USE DEF Inductive, IInv
  <1>1. entries \in [Phases -> Seq(Handles)] /\ pending_adds \in Seq(Handles)
    BY DEF TypeOK
  <1>2. Placed(entries, pending_adds, phaseOf)
    BY PlacedIff DEF NothingLost, OneEntryEach, AllEntries
  <1>3. \A p \in Phases : ToSet(entries[p]) \subseteq AllEntries
    BY AllIff DEF AllEntries
  <1>4. \A s \in Seq(Handles) : ToSet(s) \subseteq Handles
    BY DEF ToSet
  <1>5. AllEntries \subseteq Handles /\ ToSet(pending_adds) \subseteq Handles
    BY <1>1, <1>4, AllIff DEF AllEntries
  <1>6. Used \subseteq Handles
    BY <1>5 DEF Used, TypeOK
  <1>7. Invalid \notin Handles
    BY DEF Invalid, Handles
  <1> QED  BY <1>1, <1>2, <1>3, <1>5, <1>6, <1>7

\* The new handle is used nowhere, so its phase and priority change nothing.
LEMMA TakeHandleKeeps ==
    ASSUME Inductive, NEW t \in Threads, NEW q \in Phases, NEW n \in Priorities,
           TakeHandle(t, q, n)
    PROVE  Inductive'
  <1> USE DEF Inductive, IInv, TakeHandle
  <1>1. next_handle \in Handles /\ next_handle \in Nat /\ next_handle \notin Used
    BY DEF HandlesAreNew, Handles
  <1>2. /\ phaseOf' = [phaseOf EXCEPT ![next_handle] = q]
        /\ priority' = [priority EXCEPT ![next_handle] = n]
        /\ taken' = [taken EXCEPT ![t] = next_handle]
        /\ next_handle' = next_handle + 1
    OBVIOUS
  <1>3. TypeOK'
    BY <1>1, <1>2, SchedulerAssumption DEF TypeOK, Handles
  <1>4. \A h \in Used : phaseOf'[h] = phaseOf[h] /\ priority'[h] = priority[h]
    BY <1>1, <1>2, KnownFacts DEF TypeOK
  <1>5. AllEntries' = AllEntries /\ Used' = Used
    BY DEF AllEntries, Used
  <1>6. \A p \in Phases : \A i \in DOMAIN entries[p] :
            entries[p][i] \in Used /\ entries[p][i] \in ToSet(entries[p])
    BY KnownFacts DEF ToSet, Used
  <1>7. NothingLost'
    <2>1. \A p \in Phases : \A h \in ToSet(entries[p]) : phaseOf'[h] = phaseOf[h]
      BY <1>4, KnownFacts DEF Used
    <2> QED  BY <1>5, <2>1 DEF NothingLost, OneEntryEach, NothingPendingAtRest
  <1>8. SortedOrDirty'
    BY <1>4, <1>6 DEF SortedOrDirty, SortedBy, Before
  <1>9. RunsInOrder'
    BY <1>4, <1>6 DEF RunsInOrder
  <1>10. HandlesAreNew'
    <2>1. \A u \in Threads : u # t => taken'[u] = taken[u]
      BY <1>2 DEF TypeOK
    <2>2. taken'[t] = next_handle
      BY <1>2 DEF TypeOK
    <2>3. \A h \in Used : h < next_handle /\ h \in Nat
      BY KnownFacts DEF HandlesAreNew, Handles
    <2>4. \A u \in Threads : taken[u] < next_handle /\ taken[u] \in Nat
      BY DEF HandlesAreNew, TypeOK, Handles, Invalid
    <2>5. \A h \in Used' : h < next_handle'
      BY <1>1, <1>2, <1>5, <2>3
    <2>6. \A u \in Threads : taken'[u] \notin Used' /\ taken'[u] < next_handle'
      BY <1>1, <1>2, <1>5, <2>1, <2>2, <2>4 DEF HandlesAreNew
    <2>7. \A u, v \in Threads : taken'[u] = taken'[v] => u = v \/ taken'[u] = Invalid
      BY <1>1, <2>1, <2>2, <2>4 DEF HandlesAreNew
    <2> QED  BY <2>5, <2>6, <2>7 DEF HandlesAreNew
  <1>11. RunsAreNested' /\ ChosenMayBeCalled' /\ OwedIsAhead' /\ NoCallAfterRemoval'
    BY DEF RunsAreNested, StandsWell, ChosenMayBeCalled, Here, Current, OwedIsAhead, IsAhead,
           NoCallAfterRemoval
  <1> QED  BY <1>3, <1>7, <1>8, <1>9, <1>10, <1>11

\* What AddCallback does to the lists of handles.
LEMMA AddedFacts ==
    ASSUME Inductive, NEW h \in Handles, h \notin Used, AddOrDefer(h),
           UNCHANGED <<phaseOf, pending_removes, depth>>
    PROVE  /\ Placed(entries, pending_adds, phaseOf)'
           /\ entries' \in [Phases -> Seq(Handles)] /\ pending_adds' \in Seq(Handles)
           /\ dirty' \in [Phases -> BOOLEAN]
           /\ \/ AllEntries' = AllEntries \cup {h} /\ ToSet(pending_adds') = ToSet(pending_adds)
              \/ AllEntries' = AllEntries /\ ToSet(pending_adds') = ToSet(pending_adds) \cup {h}
           /\ depth = 0 => pending_adds' = pending_adds
           /\ depth # 0 => UNCHANGED <<entries, dirty>>
           /\ \A p \in Phases : ~dirty'[p] => entries'[p] = entries[p] /\ ~dirty[p]
  <1> USE DEF Inductive, IInv
  <1> DEFINE q == phaseOf[h]
  <1>1. q \in Phases /\ dirty \in [Phases -> BOOLEAN]
    BY DEF TypeOK
  <1>2. /\ \A p \in Phases : h \notin ToSet(entries[p])
        /\ h \notin ToSet(pending_adds)
    BY KnownFacts DEF Used
  <1>3. CASE depth = 0
    <2>1. /\ entries' = [entries EXCEPT ![q] = Append(entries[q], h)]
          /\ dirty' = [dirty EXCEPT ![q] = TRUE]
          /\ pending_adds' = pending_adds
      BY <1>3 DEF AddOrDefer, AddEntry
    <2>2. /\ Append(entries[q], h) \in Seq(Handles)
          /\ ToSet(Append(entries[q], h)) = ToSet(entries[q]) \cup {h}
          /\ Distinct(Append(entries[q], h))
      BY <1>1, <1>2, KnownFacts, AppendFacts DEF Placed
    <2> HIDE DEF q
    <2>3. /\ entries' \in [Phases -> Seq(Handles)]
          /\ entries'[q] = Append(entries[q], h)
          /\ \A p \in Phases : p # q => entries'[p] = entries[p]
      BY <1>1, <2>1, <2>2, KnownFacts
    <2>4. Placed(entries', pending_adds', phaseOf')
      BY <1>1, <1>2, <2>1, <2>2, <2>3, KnownFacts DEF Placed, q
    <2>5. AllEntries' = AllEntries \cup {h}
      BY <1>1, <2>2, <2>3, AllIff DEF AllEntries
    <2> QED  BY <1>1, <1>3, <2>1, <2>3, <2>4, <2>5, KnownFacts DEF Placed
  <1>4. CASE depth # 0
    <2>1. pending_adds' = Append(pending_adds, h) /\ UNCHANGED <<entries, dirty>>
      BY <1>4 DEF AddOrDefer
    <2>2. /\ Append(pending_adds, h) \in Seq(Handles)
          /\ ToSet(Append(pending_adds, h)) = ToSet(pending_adds) \cup {h}
          /\ Distinct(Append(pending_adds, h))
      BY <1>2, KnownFacts, AppendFacts DEF Placed
    <2>3. Placed(entries', pending_adds', phaseOf')
      BY <1>2, <2>1, <2>2, KnownFacts DEF Placed
    <2>4. AllEntries' = AllEntries
      BY <2>1 DEF AllEntries
    <2> QED  BY <1>1, <1>4, <2>1, <2>2, <2>3, <2>4, KnownFacts DEF Placed
  <1> QED  BY <1>3, <1>4

\* Registration, at once or deferred.
LEMMA AddCallbackKeeps ==
    ASSUME Inductive, NEW t \in Threads, AddCallback(t)
    PROVE  Inductive'
  <1> DEFINE h == taken[t]
  <1> USE DEF Inductive, IInv, AddCallback
  <1>1. h \in Handles /\ h \notin Used /\ h < next_handle
    BY DEF TypeOK, HandlesAreNew
  <1>2. /\ AddOrDefer(h)
        /\ taken' = [taken EXCEPT ![t] = Invalid]
        /\ kept' = kept \cup {h}
    OBVIOUS
  <1> HIDE DEF h
  <1>3. /\ Placed(entries, pending_adds, phaseOf)'
        /\ entries' \in [Phases -> Seq(Handles)] /\ pending_adds' \in Seq(Handles)
        /\ dirty' \in [Phases -> BOOLEAN]
        /\ \/ AllEntries' = AllEntries \cup {h} /\ ToSet(pending_adds') = ToSet(pending_adds)
           \/ AllEntries' = AllEntries /\ ToSet(pending_adds') = ToSet(pending_adds) \cup {h}
        /\ depth = 0 => pending_adds' = pending_adds
        /\ depth # 0 => UNCHANGED <<entries, dirty>>
        /\ \A p \in Phases : ~dirty'[p] => entries'[p] = entries[p] /\ ~dirty[p]
    BY <1>1, <1>2, AddedFacts
  <1>4. depth \in Nat
    BY DEF TypeOK
  <1>5. TypeOK'
    BY <1>1, <1>2, <1>3 DEF TypeOK
  <1>6. NothingLost'
    <2>1. OneEntryEach'
      BY <1>3, PlacedIff DEF OneEntryEach, AllEntries
    <2>2. kept' = (AllEntries' \ pending_removes') \cup ToSet(pending_adds')
      BY <1>1, <1>2, <1>3 DEF NothingLost, Used
    <2>3. NothingPendingAtRest'
      BY <1>3 DEF NothingLost, NothingPendingAtRest
    <2> QED  BY <2>1, <2>2, <2>3 DEF NothingLost
  <1>7. SortedOrDirty' /\ RunsInOrder'
    <2>1. depth > 0 => UNCHANGED <<entries, dirty>>
      BY <1>3, <1>4
    <2>2. SortedOrDirty'
      <3>1. ASSUME NEW p \in Phases, ~dirty'[p] PROVE SortedBy(entries[p])'
        <4>1. entries'[p] = entries[p] /\ SortedBy(entries[p])
          BY <1>3, <3>1 DEF SortedOrDirty
        <4> QED  BY <4>1 DEF SortedBy, Before
      <3>2. ASSUME NEW p \in Phases, depth' > 0 PROVE ~dirty'[p]
        BY <2>1, <3>2 DEF SortedOrDirty
      <3> QED  BY <3>1, <3>2 DEF SortedOrDirty
    <2>3. RunsInOrder'
      BY <2>1 DEF RunsInOrder
    <2> QED  BY <2>2, <2>3
  <1>8. Used' = Used \cup {h}
    BY <1>2, <1>3 DEF Used
  <1>9. HandlesAreNew'
    <2>1. taken \in [Threads -> Handles \cup {Invalid}] /\ taken'[t] = Invalid
      BY <1>2 DEF TypeOK
    <2>2. \A u \in Threads : u # t => taken'[u] = taken[u] /\ taken[u] # h
      BY <1>1, <1>2, <2>1, KnownFacts DEF HandlesAreNew, h
    <2>3. Invalid # h /\ Invalid \notin Used /\ Invalid < next_handle
      BY <1>1, KnownFacts DEF TypeOK, Invalid
    <2>4. \A u \in Threads : taken'[u] \notin Used' /\ taken'[u] < next_handle'
      BY <1>8, <2>1, <2>2, <2>3 DEF HandlesAreNew
    <2>5. \A u, v \in Threads : taken'[u] = taken'[v] => u = v \/ taken'[u] = Invalid
      BY <2>1, <2>2 DEF HandlesAreNew
    <2>6. \A g \in Used' : g < next_handle'
      BY <1>1, <1>8 DEF HandlesAreNew
    <2> QED  BY <2>4, <2>5, <2>6 DEF HandlesAreNew
  <1>10. RunsAreNested'
    BY <1>3, <1>4 DEF RunsAreNested, StandsWell
  <1>11. ChosenMayBeCalled'
    <2>1. late[h] = 0 /\ h \notin mainRemoved
      BY <1>1 DEF Used
    <2> QED  BY <1>2, <1>3, <1>4, <2>1 DEF ChosenMayBeCalled, Here, Current
  <1>12. OwedIsAhead'
    BY <1>2, <1>3, <1>4 DEF OwedIsAhead, IsAhead
  <1>13. NoCallAfterRemoval'
    BY DEF NoCallAfterRemoval
  <1> QED  BY <1>5, <1>6, <1>7, <1>9, <1>10, <1>11, <1>12, <1>13

\* Removal of some handles from a list.
LEMMA WithoutFacts ==
    ASSUME NEW s \in Seq(Handles), NEW H
    PROVE  /\ Without(s, H) \in Seq(Handles)
           /\ ToSet(Without(s, H)) = ToSet(s) \ H
           /\ Distinct(s) => Distinct(Without(s, H))
           /\ Distinct(s) /\ SortedBy(s) => SortedBy(Without(s, H))
  <1>1. ToSet(s) \subseteq Handles
    BY DEF ToSet
  <1> QED  BY <1>1, OnlyFacts, OnlyKeepsOrder DEF Without

\* A removal, of one handle or of all that there are, keeps what does not depend on the
\* lists of handles: calls against removals, and what a frame owes.
LEMMA ForgetKeeps ==
    ASSUME Inductive, NEW t \in Threads, NEW H, MayCall(t), Forget(t, H),
           depth > 0 => UNCHANGED entries,
           UNCHANGED <<registerVars, depth, run, callVars>>,
           AllEntries' \cup ToSet(pending_adds') \cup pending_removes'
              \subseteq AllEntries \cup ToSet(pending_adds) \cup pending_removes \cup H,
           \A h \in H \ Used : h < next_handle /\ \A u \in Threads : taken[u] # h
    PROVE  /\ HandlesAreNew' /\ RunsAreNested' /\ ChosenMayBeCalled' /\ OwedIsAhead'
           /\ NoCallAfterRemoval'
           /\ kept' \subseteq Handles /\ owed' \subseteq Handles /\ mainRemoved' \subseteq Handles
  <1> USE DEF Inductive, IInv, Forget
  <1>1. /\ kept' = kept \ H /\ owed' = owed \ H
        /\ mainRemoved' \subseteq mainRemoved \cup kept
        /\ t # Main => mainRemoved' = mainRemoved
        /\ mainRemoved' \cap kept' = mainRemoved \cap kept'
    OBVIOUS
  <1>2. depth \in Nat /\ kept \subseteq Handles /\ owed \subseteq Handles
        /\ mainRemoved \subseteq Handles
    BY DEF TypeOK
  <1>3. Used' \subseteq Used \cup H
    BY <1>1 DEF Used
  <1>4. HandlesAreNew'
    BY <1>3 DEF HandlesAreNew
  <1>5. RunsAreNested'
    BY <1>2 DEF RunsAreNested, StandsWell
  <1>6. ChosenMayBeCalled'
    <2>1. depth > 0 /\ run[depth].at = "call" => t # Main
      BY DEF MayCall
    <2> QED  BY <1>1, <2>1 DEF ChosenMayBeCalled, Here, Current
  <1>7. OwedIsAhead'
    BY <1>1 DEF OwedIsAhead, IsAhead
  <1>8. NoCallAfterRemoval'
    <2>1. \A h \in kept : late[h] = 0
      BY DEF ChosenMayBeCalled
    <2>2. ASSUME NEW h \in Handles PROVE late[h] <= IF h \in mainRemoved' THEN 0 ELSE 1
      <3>1. late[h] \in Nat /\ late[h] <= IF h \in mainRemoved THEN 0 ELSE 1
        BY DEF NoCallAfterRemoval, TypeOK
      <3>2. h \in mainRemoved' => h \in mainRemoved \/ late[h] = 0
        BY <1>1, <2>1
      <3> QED  BY <3>1, <3>2
    <2> QED  BY <2>2 DEF NoCallAfterRemoval
  <1> QED  BY <1>1, <1>2, <1>4, <1>5, <1>6, <1>7, <1>8

\* Removal of one handle: at once, from the deferred additions, or deferred.
LEMMA UnregisterKeeps ==
    ASSUME Inductive, NEW t \in Threads, NEW h \in Handles, Unregister(t, h)
    PROVE  Inductive'
  <1> USE DEF Inductive, IInv, Unregister
  <1>1. depth \in Nat /\ MayCall(t) /\ Forget(t, {h}) /\ kept' = kept \ {h}
    BY DEF TypeOK, Forget
  <1>2. /\ Placed(entries, pending_adds, phaseOf)'
        /\ entries' \in [Phases -> Seq(Handles)] /\ pending_adds' \in Seq(Handles)
        /\ pending_removes' \subseteq pending_removes \cup {h}
        /\ AllEntries' \subseteq AllEntries /\ ToSet(pending_adds') \subseteq ToSet(pending_adds)
        /\ kept' = (AllEntries' \ pending_removes') \cup ToSet(pending_adds')
        /\ NothingPendingAtRest' /\ SortedOrDirty'
        /\ depth > 0 => UNCHANGED entries
    <2>1. CASE depth = 0
      <3>1. /\ entries' = [p \in Phases |-> Without(entries[p], {h})]
            /\ pending_adds' = pending_adds /\ pending_removes' = pending_removes
            /\ pending_adds = <<>> /\ pending_removes = {}
        BY <2>1 DEF NothingLost, NothingPendingAtRest
      <3>2. ASSUME NEW p \in Phases
            PROVE  /\ entries'[p] \in Seq(Handles)
                   /\ ToSet(entries'[p]) = ToSet(entries[p]) \ {h}
                   /\ Distinct(entries'[p])
                   /\ SortedBy(entries[p]) => SortedBy(entries'[p])
        BY <3>1, KnownFacts, WithoutFacts DEF Placed
      <3>3. entries' \in [Phases -> Seq(Handles)]
        BY <3>1, <3>2
      <3>4. Placed(entries', pending_adds', phaseOf')
        BY <3>1, <3>2, KnownFacts DEF Placed
      <3>5. AllEntries' = AllEntries \ {h}
        <4>1. ASSUME NEW p \in Phases PROVE ToSet(entries'[p]) \subseteq AllEntries \ {h}
          BY <3>2, KnownFacts
        <4>2. ASSUME NEW g \in AllEntries \ {h} PROVE \E p \in Phases : g \in ToSet(entries'[p])
          <5>1. PICK p \in Phases : g \in ToSet(entries[p])
            BY AllIff DEF AllEntries
          <5> QED  BY <3>2, <5>1
        <4> HIDE DEF AllEntries
        <4>3. UNION {ToSet(entries'[p]) : p \in Phases} = AllEntries \ {h}
          BY <4>1, <4>2, AllAre
        <4> QED  BY <4>3 DEF AllEntries
      <3>6. kept' = (AllEntries' \ pending_removes') \cup ToSet(pending_adds')
        BY <1>1, <3>1, <3>5 DEF NothingLost, ToSet
      <3>7. NothingPendingAtRest'
        BY <3>1 DEF NothingPendingAtRest
      <3>8. SortedOrDirty'
        BY <2>1, <3>2 DEF SortedOrDirty, SortedBy, Before
      <3>9. /\ AllEntries' \subseteq AllEntries /\ ToSet(pending_adds') \subseteq ToSet(pending_adds)
            /\ pending_adds' \in Seq(Handles) /\ pending_removes' \subseteq pending_removes \cup {h}
        BY <3>1, <3>5, KnownFacts
      <3>10. ~(depth > 0)
        BY <2>1
      <3> QED  BY <3>3, <3>4, <3>6, <3>7, <3>8, <3>9, <3>10
    <2>2. CASE depth # 0 /\ h \in ToSet(pending_adds)
      <3>1. /\ pending_adds' = Without(pending_adds, {h})
            /\ UNCHANGED <<entries, pending_removes>>
        BY <2>2 DEF DeferRemoval
      <3>2. /\ pending_adds' \in Seq(Handles) /\ Distinct(pending_adds')
            /\ ToSet(pending_adds') = ToSet(pending_adds) \ {h}
        BY <3>1, KnownFacts, WithoutFacts DEF Placed
      <3>3. Placed(entries', pending_adds', phaseOf')
        BY <3>1, <3>2, KnownFacts DEF Placed
      <3>4. AllEntries' = AllEntries /\ h \notin AllEntries
        BY <2>2, <3>1 DEF AllEntries, NothingLost, OneEntryEach
      <3>5. kept' = (AllEntries' \ pending_removes') \cup ToSet(pending_adds')
        BY <1>1, <3>1, <3>2, <3>4 DEF NothingLost
      <3>6. NothingPendingAtRest' /\ SortedOrDirty'
        BY <2>2, <3>1 DEF NothingPendingAtRest, SortedOrDirty, SortedBy, Before
      <3> QED  BY <3>1, <3>2, <3>3, <3>4, <3>5, <3>6, KnownFacts DEF Placed
    <2>3. CASE depth # 0 /\ h \notin ToSet(pending_adds)
      <3>1. /\ pending_removes' = pending_removes \cup {h}
            /\ UNCHANGED <<entries, pending_adds>>
        BY <2>3 DEF DeferRemoval
      <3>2. AllEntries' = AllEntries
        BY <3>1 DEF AllEntries
      <3>3. kept' = (AllEntries' \ pending_removes') \cup ToSet(pending_adds')
        BY <1>1, <2>3, <3>1, <3>2 DEF NothingLost
      <3>4. NothingPendingAtRest' /\ SortedOrDirty'
        BY <2>3, <3>1 DEF NothingPendingAtRest, SortedOrDirty, SortedBy, Before
      <3> QED  BY <3>1, <3>2, <3>3, <3>4, KnownFacts DEF Placed
    <2> QED  BY <2>1, <2>2, <2>3
  <1>3. /\ HandlesAreNew' /\ RunsAreNested' /\ ChosenMayBeCalled' /\ OwedIsAhead'
        /\ NoCallAfterRemoval'
        /\ kept' \subseteq Handles /\ owed' \subseteq Handles /\ mainRemoved' \subseteq Handles
    BY <1>1, <1>2, ForgetKeeps
  <1>4. TypeOK'
    BY <1>2, <1>3 DEF TypeOK
  <1>5. NothingLost'
    BY <1>2, PlacedIff DEF NothingLost, OneEntryEach, AllEntries
  <1>6. RunsInOrder'
    BY <1>2 DEF RunsInOrder
  <1> QED  BY <1>2, <1>3, <1>4, <1>5, <1>6

\* Removal of all handles, at once or deferred.
LEMMA ClearKeeps ==
    ASSUME Inductive, Clear
    PROVE  Inductive'
  <1> USE DEF Inductive, IInv, Clear
  <1>1. /\ depth \in Nat /\ MayCall(Main) /\ Forget(Main, kept) /\ kept' = {}
        /\ Main \in Threads /\ pending_adds' = <<>> /\ ToSet(pending_adds') = {}
    BY DEF TypeOK, Forget, Threads, ToSet
  <1>2. /\ Placed(entries, pending_adds, phaseOf)'
        /\ entries' \in [Phases -> Seq(Handles)]
        /\ dirty' \in [Phases -> BOOLEAN] /\ frame_count' \in 0 .. MaxFrames
        /\ pending_removes' \subseteq pending_removes \cup AllEntries
        /\ AllEntries' \subseteq AllEntries /\ AllEntries' \subseteq pending_removes'
        /\ NothingPendingAtRest' /\ SortedOrDirty'
        /\ depth > 0 => UNCHANGED entries
    <2>1. CASE depth = 0
      <3>1. /\ entries' = [p \in Phases |-> <<>>] /\ dirty' = [p \in Phases |-> FALSE]
            /\ pending_removes' = {} /\ frame_count' = 0
        BY <2>1 DEF ClearNow
      <3>2. \A p \in Phases : entries'[p] = <<>> /\ ToSet(entries'[p]) = {}
        BY <3>1 DEF ToSet
      <3>3. AllEntries' = {}
        BY <3>2, AllIff DEF AllEntries
      <3>4. Placed(entries', pending_adds', phaseOf')
        BY <1>1, <3>2 DEF Placed, Distinct
      <3>5. SortedOrDirty'
        BY <2>1, <3>1, <3>2 DEF SortedOrDirty, SortedBy
      <3>6. NothingPendingAtRest' /\ frame_count' \in 0 .. MaxFrames
        BY <1>1, <3>1, SchedulerAssumption DEF NothingPendingAtRest
      <3> QED  BY <2>1, <3>1, <3>2, <3>3, <3>4, <3>5, <3>6 DEF Placed
    <2>2. CASE depth # 0
      <3>1. /\ pending_removes' = pending_removes \cup AllEntries
            /\ UNCHANGED <<entries, dirty, frame_count>>
        BY <2>2 DEF ClearLater
      <3>2. AllEntries' = AllEntries
        BY <3>1 DEF AllEntries
      <3>3. Placed(entries', pending_adds', phaseOf')
        BY <1>1, <3>1, KnownFacts DEF Placed, Distinct
      <3>4. NothingPendingAtRest' /\ SortedOrDirty'
        BY <2>2, <3>1 DEF NothingPendingAtRest, SortedOrDirty, SortedBy, Before
      <3> QED  BY <3>1, <3>2, <3>3, <3>4, KnownFacts DEF TypeOK, Placed
    <2> QED  BY <2>1, <2>2
  <1>3. \A h \in kept \ Used : h < next_handle /\ \A u \in Threads : taken[u] # h
    BY DEF Used
  <1>4. /\ HandlesAreNew' /\ RunsAreNested' /\ ChosenMayBeCalled' /\ OwedIsAhead'
        /\ NoCallAfterRemoval'
        /\ kept' \subseteq Handles /\ owed' \subseteq Handles /\ mainRemoved' \subseteq Handles
    BY <1>1, <1>2, <1>3, ForgetKeeps
  <1>5. TypeOK'
    <2>1. pending_removes' \subseteq Handles /\ pending_adds' \in Seq(Handles)
      BY <1>1, <1>2, KnownFacts DEF TypeOK
    <2> QED  BY <1>2, <1>4, <2>1 DEF TypeOK
  <1>6. NothingLost'
    <2>1. OneEntryEach'
      BY <1>2, PlacedIff DEF OneEntryEach, AllEntries
    <2> QED  BY <1>1, <1>2, <2>1 DEF NothingLost
  <1>7. RunsInOrder'
    BY <1>2 DEF RunsInOrder
  <1> QED  BY <1>2, <1>4, <1>5, <1>6, <1>7
-----------------------------------------------------------------------------
(* The beginning and the end of a run.                                     *)

\* Sorting, at the beginning of the outermost run.
LEMMA SortDirtyFacts ==
    ASSUME Inductive, SortDirty
    PROVE  /\ Placed(entries', pending_adds, phaseOf)
           /\ entries' \in [Phases -> Seq(Handles)]
           /\ dirty' = [p \in Phases |-> FALSE]
           /\ AllEntries' = AllEntries
           /\ \A p \in Phases : SortedBy(entries'[p])
  <1> USE DEF Inductive, IInv
  <1>1. ASSUME NEW p \in Phases
        PROVE  /\ entries'[p] \in Seq(Handles) /\ ToSet(entries'[p]) = ToSet(entries[p])
               /\ Distinct(entries'[p]) /\ SortedBy(entries'[p])
    <2>1. entries[p] \in Seq(Handles) /\ Distinct(entries[p])
      BY KnownFacts DEF Placed
    <2>2. CASE dirty[p]
      <3>1. entries'[p] \in Sortings(entries[p])
        BY <2>2 DEF SortDirty
      <3> QED  BY <2>1, <3>1, SortingFacts
    <2>3. CASE ~dirty[p]
      <3>1. entries'[p] = entries[p]
        BY <2>3 DEF SortDirty
      <3> QED  BY <2>1, <2>3, <3>1 DEF SortedOrDirty
    <2> QED  BY <2>2, <2>3
  <1>2. entries' \in [Phases -> Seq(Handles)]
    <2>1. PICK S : entries' \in [Phases -> S]
      BY DEF SortDirty
    <2> QED  BY <1>1, <2>1
  <1>3. Placed(entries', pending_adds, phaseOf)
    BY <1>1, KnownFacts DEF Placed
  <1>4. AllEntries' = AllEntries
    <2>1. ASSUME NEW p \in Phases PROVE ToSet(entries'[p]) \subseteq AllEntries
      BY <1>1, KnownFacts
    <2>2. ASSUME NEW g \in AllEntries PROVE \E p \in Phases : g \in ToSet(entries'[p])
      BY <1>1, AllIff DEF AllEntries
    <2> HIDE DEF AllEntries
    <2>3. UNION {ToSet(entries'[p]) : p \in Phases} = AllEntries
      BY <2>1, <2>2, AllAre
    <2> QED  BY <2>3 DEF AllEntries
  <1> QED  BY <1>1, <1>2, <1>3, <1>4 DEF SortDirty

\* RunFrame and RunPhase, at any depth.
LEMMA BeginRunKeeps ==
    ASSUME Inductive, NEW kind \in {"frame", "phase"}, NEW p \in Phases,
           BeginRun(kind, p), MayCall(Main),
           kind = "frame" => depth = 0 /\ p = 1 /\ owed' = AllEntries,
           kind = "phase" => owed' = owed
    PROVE  Inductive'
  <1> DEFINE level == [kind |-> kind, phase |-> p, index |-> 1, at |-> "scan"]
  <1> USE DEF Inductive, IInv
  <1>1. /\ depth \in Nat /\ depth + 1 \in Levels /\ 1 \in Levels
        /\ run \in [Levels -> Runs]
    BY SchedulerAssumption DEF TypeOK, Levels, BeginRun
  <1>2. level \in Runs
    BY DEF Runs
  <1>3. /\ level.kind = kind /\ level.phase = p /\ level.index = 1 /\ level.at = "scan"
    OBVIOUS
  <1>4. run' = [run EXCEPT ![depth + 1] = level] /\ depth' = depth + 1
    BY DEF BeginRun, First
  <1> HIDE DEF level
  <1>5. /\ run' \in [Levels -> Runs] /\ run'[depth + 1] = level /\ Here' = level
        /\ \A l \in Levels : l # depth + 1 => run'[l] = run[l]
    BY <1>1, <1>2, <1>4 DEF Here
  <1>6. UNCHANGED <<pending_adds, pending_removes, registerVars, frame_count, kept,
                    mainRemoved, callVars>>
    BY DEF BeginRun
  <1>7. /\ Placed(entries', pending_adds', phaseOf')
        /\ entries' \in [Phases -> Seq(Handles)] /\ dirty' \in [Phases -> BOOLEAN]
        /\ AllEntries' = AllEntries
        /\ \A q \in Phases : SortedBy(entries'[q]) /\ ~dirty'[q]
        /\ depth > 0 => entries' = entries
    <2>1. CASE depth = 0
      <3>1. SortDirty
        BY <2>1 DEF BeginRun
      <3>2. ~(depth > 0)
        BY <2>1
      <3> QED  BY <1>6, <3>1, <3>2, SortDirtyFacts
    <2>2. CASE depth > 0
      <3>1. UNCHANGED <<entries, dirty>>
        BY <2>2 DEF BeginRun
      <3>2. AllEntries' = AllEntries
        BY <3>1 DEF AllEntries
      <3>3. \A q \in Phases : SortedBy(entries[q]) /\ ~dirty[q]
        BY <2>2 DEF SortedOrDirty
      <3>4. dirty \in [Phases -> BOOLEAN]
        BY DEF TypeOK
      <3> QED  BY <1>6, <3>1, <3>2, <3>3, <3>4, KnownFacts
    <2> QED  BY <1>1, <2>1, <2>2
  <1>8. AllEntries \subseteq Handles /\ (kind = "frame" => AllEntries \subseteq kept)
    <2>1. kind = "frame" => pending_removes = {}
      BY DEF NothingLost, NothingPendingAtRest
    <2>2. AllEntries \ pending_removes \subseteq kept
      BY DEF NothingLost
    <2> QED  BY <2>1, <2>2, KnownFacts
  <1>9. owed' \subseteq Handles /\ owed' \subseteq kept
    BY <1>8 DEF TypeOK, OwedIsAhead
  <1>10. TypeOK'
    <2>1. depth' \in 0 .. MaxDepth
      BY <1>1, <1>4 DEF Levels
    <2> QED  BY <1>5, <1>6, <1>7, <1>9, <2>1 DEF TypeOK
  <1>11. NothingLost'
    <2>1. OneEntryEach'
      BY <1>7, PlacedIff DEF OneEntryEach, AllEntries
    <2>2. NothingPendingAtRest'
      BY <1>1, <1>4 DEF NothingPendingAtRest
    <2>3. kept' = (AllEntries' \ pending_removes') \cup ToSet(pending_adds')
      BY <1>6, <1>7 DEF NothingLost
    <2> QED  BY <2>1, <2>2, <2>3 DEF NothingLost
  <1>12. SortedOrDirty'
    BY <1>6, <1>7 DEF SortedOrDirty, SortedBy, Before
  <1>13. RunsInOrder'
    <2>1. ASSUME NEW q \in Phases, NEW i \in DOMAIN entries'[q], NEW j \in DOMAIN entries'[q], i < j
          PROVE  LET g == entries'[q][i]
                     h == entries'[q][j]
                 IN \/ priority[g] < priority[h]
                    \/ priority[g] = priority[h] /\ g < h
      <3>1. Before(entries'[q][i], entries'[q][j])
        BY <1>7, <2>1 DEF SortedBy
      <3>2. entries'[q][i] \in Nat /\ entries'[q][j] \in Nat /\ i \in Nat /\ j \in Nat
        <4>1. entries'[q] \in Seq(Handles)
          BY <1>7
        <4>2. entries'[q][i] \in Handles /\ entries'[q][j] \in Handles /\ i \in Nat /\ j \in Nat
          BY <4>1
        <4> QED  BY <4>2 DEF Handles
      <3>3. entries'[q][i] # entries'[q][j]
        BY <1>7, <2>1, <3>2 DEF Placed, Distinct
      <3> QED  BY <3>1, <3>2, <3>3 DEF Before
    <2> QED  BY <1>6, <2>1 DEF RunsInOrder
  <1>14. HandlesAreNew'
    <2>1. Used' = Used
      BY <1>6, <1>7 DEF Used
    <2> QED  BY <1>6, <2>1 DEF HandlesAreNew
  <1>15. RunsAreNested'
    <2>1. ASSUME NEW l \in 1 .. depth'
          PROVE  /\ run'[l].kind # "none"
                 /\ l > 1 => run'[l].kind = "phase"
                 /\ l < depth' => run'[l].at = "inside"
                 /\ StandsWell(run[l])'
      <3>1. l \in Levels /\ l \in Nat /\ l > 0 /\ l <= depth + 1
        BY <1>1, <1>4, SchedulerAssumption DEF Levels
      <3>2. CASE l = depth + 1
        <4>1. Len(entries'[p]) \in Nat
          BY <1>7
        <4>2. 1 \in 1 .. Len(entries'[p]) \/ 1 = Len(entries'[p]) + 1
          BY <4>1
        <4>3. StandsWell(run[l])'
          BY <1>3, <1>5, <3>2, <4>2 DEF StandsWell
        <4>4. l > 1 => kind = "phase"
          BY <1>1, <3>2
        <4> QED  BY <1>1, <1>3, <1>4, <1>5, <3>2, <4>3, <4>4
      <3>3. CASE l # depth + 1
        <4>1. l \in 1 .. depth /\ run'[l] = run[l] /\ depth > 0
          BY <1>1, <1>5, <3>1, <3>3
        <4>2. run[l].at = "inside"
          BY <1>1, <3>1, <4>1 DEF RunsAreNested, MayCall
        <4>3. /\ run[l].kind # "none"
              /\ l > 1 => run[l].kind = "phase"
              /\ StandsWell(run[l])
          BY <4>1 DEF RunsAreNested
        <4> QED  BY <1>7, <4>1, <4>2, <4>3 DEF StandsWell
      <3> QED  BY <3>2, <3>3
    <2> QED  BY <2>1 DEF RunsAreNested
  <1>16. ChosenMayBeCalled'
    <2>1. Here'.at # "call"
      BY <1>3, <1>5
    <2> QED  BY <1>6, <2>1 DEF ChosenMayBeCalled
  <1>17. OwedIsAhead'
    <2>1. ASSUME run'[1].kind = "frame", NEW h \in owed'
          PROVE  \E q \in Phases : \E i \in DOMAIN entries'[q] :
                     entries'[q][i] = h /\ IsAhead(q, i, run'[1])
      <3>1. CASE depth = 0
        <4>1. run'[1] = level /\ kind = "frame" /\ p = 1 /\ h \in AllEntries
          BY <1>1, <1>3, <1>5, <2>1, <3>1
        <4>2. PICK q \in Phases : h \in ToSet(entries'[q])
          BY <1>7, <4>1, AllIff DEF AllEntries
        <4>3. PICK i \in DOMAIN entries'[q] : entries'[q][i] = h
          BY <4>2 DEF ToSet
        <4>4. i \in Nat /\ i > 0 /\ q \in Nat /\ q > 0
          BY <1>7, SchedulerAssumption DEF Phases
        <4>5. IsAhead(q, i, level)
          BY <1>3, <4>1, <4>4 DEF IsAhead
        <4> QED  BY <4>1, <4>3, <4>5
      <3>2. CASE depth > 0
        <4>1. run'[1] = run[1] /\ kind = "phase" /\ h \in owed /\ entries' = entries
          BY <1>1, <1>5, <1>7, <2>1, <3>2
        <4> QED  BY <2>1, <3>2, <4>1 DEF OwedIsAhead
      <3> QED  BY <1>1, <3>1, <3>2
    <2> QED  BY <1>6, <1>9, <2>1 DEF OwedIsAhead, IsAhead
  <1>18. NoCallAfterRemoval'
    BY <1>6 DEF NoCallAfterRemoval
  <1> QED  BY <1>10, <1>11, <1>12, <1>13, <1>14, <1>15, <1>16, <1>17, <1>18

\* ApplyPendingLocked leaves exactly the callbacks that are kept.
LEMMA ApplyFacts ==
    ASSUME Inductive, ApplyPending
    PROVE  /\ Placed(entries', pending_adds', phaseOf)
           /\ entries' \in [Phases -> Seq(Handles)] /\ dirty' \in [Phases -> BOOLEAN]
           /\ pending_adds' = <<>> /\ pending_removes' = {}
           /\ AllEntries' = kept
           /\ \A p \in Phases : ~dirty'[p] => SortedBy(entries'[p])
  <1> USE DEF Inductive, IInv
  <1> DEFINE Adds(p) == Only(pending_adds, {h \in Handles : phaseOf[h] = p})
  <1>1. /\ entries' = [p \in Phases |-> Survivors(p) \o Adds(p)]
        /\ dirty' = [p \in Phases |->
                        dirty[p] \/ \E h \in ToSet(pending_adds) : phaseOf[h] = p]
        /\ pending_adds' = <<>> /\ pending_removes' = {}
    BY DEF ApplyPending, EntriesAfter
  <1>2. ASSUME NEW p \in Phases
        PROVE  /\ Survivors(p) \in Seq(Handles) /\ Distinct(Survivors(p))
               /\ ToSet(Survivors(p)) = ToSet(entries[p]) \ pending_removes
               /\ SortedBy(entries[p]) => SortedBy(Survivors(p))
    BY KnownFacts, WithoutFacts DEF Placed, Survivors
  <1>3. ASSUME NEW p \in Phases
        PROVE  /\ Adds(p) \in Seq(Handles) /\ Distinct(Adds(p))
               /\ ToSet(Adds(p)) = {h \in ToSet(pending_adds) : phaseOf[h] = p}
    <2>1. ToSet(Adds(p)) = ToSet(pending_adds) \cap {h \in Handles : phaseOf[h] = p}
      BY KnownFacts, OnlyFacts
    <2>2. Adds(p) \in Seq(Handles) /\ Distinct(Adds(p))
      BY KnownFacts, OnlyFacts, OnlyKeepsOrder DEF Placed
    <2> HIDE DEF Adds
    <2> QED  BY <2>1, <2>2, KnownFacts
  <1> HIDE DEF Adds
  <1>4. ASSUME NEW p \in Phases
        PROVE  /\ entries'[p] \in Seq(Handles) /\ Distinct(entries'[p])
               /\ ToSet(entries'[p]) = (ToSet(entries[p]) \ pending_removes)
                                          \cup {h \in ToSet(pending_adds) : phaseOf[h] = p}
               /\ ToSet(Adds(p)) = {} => entries'[p] = Survivors(p)
    <2>1. entries'[p] = Survivors(p) \o Adds(p)
      BY <1>1
    <2>2. ToSet(Survivors(p)) \cap ToSet(Adds(p)) = {}
      BY <1>2, <1>3, KnownFacts DEF Placed
    <2> QED  BY <1>2, <1>3, <2>1, <2>2, ConcatFacts
  <1>5. entries' \in [Phases -> Seq(Handles)]
    BY <1>1, <1>4
  <1>6. Placed(entries', pending_adds', phaseOf)
    <2>1. ToSet(pending_adds') = {} /\ Distinct(pending_adds')
      BY <1>1 DEF ToSet, Distinct
    <2>2. ASSUME NEW p \in Phases, NEW h \in ToSet(entries'[p]) PROVE phaseOf[h] = p
      BY <1>4, KnownFacts DEF Placed
    <2> QED  BY <1>4, <2>1, <2>2 DEF Placed
  <1>7. AllEntries' = kept
    <2>1. kept = (AllEntries \ pending_removes) \cup ToSet(pending_adds)
      BY DEF NothingLost
    <2>2. ASSUME NEW p \in Phases PROVE ToSet(entries'[p]) \subseteq kept
      BY <1>4, <2>1, KnownFacts
    <2>3. ASSUME NEW h \in kept PROVE \E p \in Phases : h \in ToSet(entries'[p])
      <3>1. CASE h \in ToSet(pending_adds)
        <4>1. phaseOf[h] \in Phases
          BY <3>1, KnownFacts DEF TypeOK
        <4> QED  BY <1>4, <3>1, <4>1
      <3>2. CASE h \notin ToSet(pending_adds)
        <4>1. PICK p \in Phases : h \in ToSet(entries[p])
          BY <2>1, <3>2, AllIff DEF AllEntries
        <4> QED  BY <1>4, <2>1, <3>2, <4>1
      <3> QED  BY <3>1, <3>2
    <2>4. UNION {ToSet(entries'[p]) : p \in Phases} = kept
      BY <2>2, <2>3, AllAre
    <2> QED  BY <2>4 DEF AllEntries
  <1>8. ASSUME NEW p \in Phases, ~dirty'[p] PROVE SortedBy(entries'[p])
    <2>1. ~dirty[p] /\ ToSet(Adds(p)) = {}
      BY <1>1, <1>3, <1>8
    <2>2. entries'[p] = Survivors(p) /\ SortedBy(Survivors(p))
      BY <1>2, <1>4, <2>1 DEF SortedOrDirty
    <2> QED  BY <2>2
  <1>9. dirty' \in [Phases -> BOOLEAN]
    BY <1>1 DEF TypeOK
  <1> QED  BY <1>1, <1>5, <1>6, <1>7, <1>8, <1>9

\* The end of a run, however it comes about: the enclosing one goes on as it was, and the
\* outermost applies what was deferred.
LEMMA EndRunKeeps ==
    ASSUME Inductive, depth > 0, EndRun,
           UNCHANGED <<registerVars, kept, mainRemoved, callVars>>,
           frame_count' \in 0 .. MaxFrames, owed' \subseteq owed
    PROVE  Inductive'
  <1> USE DEF Inductive, IInv
  <1>1. depth \in Levels /\ depth \in Nat /\ depth - 1 \in Nat /\ run \in [Levels -> Runs]
    BY Standing DEF TypeOK
  <1>2. depth' = depth - 1 /\ run' = [run EXCEPT ![depth] = NoRun]
    BY DEF EndRun
  <1>3. NoRun \in Runs
    BY SchedulerAssumption DEF NoRun, Runs, Phases
  <1>4. /\ run' \in [Levels -> Runs]
        /\ \A l \in Levels : l # depth => run'[l] = run[l]
    BY <1>1, <1>2, <1>3
  <1>5. /\ Placed(entries', pending_adds', phaseOf')
        /\ entries' \in [Phases -> Seq(Handles)] /\ dirty' \in [Phases -> BOOLEAN]
        /\ pending_adds' \in Seq(Handles) /\ pending_removes' \subseteq Handles
        /\ kept = (AllEntries' \ pending_removes') \cup ToSet(pending_adds')
        /\ AllEntries' \cup ToSet(pending_adds') \cup pending_removes' \subseteq Used
        /\ \A p \in Phases : ~dirty'[p] => SortedBy(entries'[p])
        /\ depth = 1 => pending_adds' = <<>> /\ pending_removes' = {}
        /\ depth # 1 => UNCHANGED <<entries, dirty>>
    <2>1. CASE depth = 1
      <3>1. ApplyPending
        BY <2>1 DEF EndRun
      <3>2. /\ Placed(entries', pending_adds', phaseOf)
            /\ entries' \in [Phases -> Seq(Handles)] /\ dirty' \in [Phases -> BOOLEAN]
            /\ pending_adds' = <<>> /\ pending_removes' = {} /\ ToSet(pending_adds') = {}
            /\ AllEntries' = kept
            /\ \A p \in Phases : ~dirty'[p] => SortedBy(entries'[p])
        BY <3>1, ApplyFacts DEF ToSet
      <3> QED  BY <2>1, <3>2 DEF Used
    <2>2. CASE depth # 1
      <3>1. UNCHANGED entryVars
        BY <2>2 DEF EndRun
      <3>2. AllEntries' = AllEntries
        BY <3>1 DEF AllEntries
      <3>3. \A p \in Phases : ~dirty'[p] => SortedBy(entries'[p])
        BY <3>1 DEF SortedOrDirty
      <3> QED  BY <2>2, <3>1, <3>2, <3>3, KnownFacts DEF Used, NothingLost, TypeOK
    <2> QED  BY <2>1, <2>2
  <1>6. TypeOK'
    <2>1. depth' \in 0 .. MaxDepth
      BY <1>1, <1>2, SchedulerAssumption DEF Levels
    <2>2. owed' \subseteq Handles
      BY DEF TypeOK
    <2> QED  BY <1>4, <1>5, <2>1, <2>2 DEF TypeOK
  <1>7. NothingLost'
    <2>1. OneEntryEach'
      BY <1>5, PlacedIff DEF OneEntryEach, AllEntries
    <2>2. NothingPendingAtRest'
      BY <1>1, <1>2, <1>5 DEF NothingPendingAtRest
    <2> QED  BY <1>5, <2>1, <2>2 DEF NothingLost
  <1>8. SortedOrDirty'
    <2>1. ASSUME NEW p \in Phases, ~dirty'[p] PROVE SortedBy(entries[p])'
      BY <1>5, <2>1 DEF SortedBy, Before
    <2>2. ASSUME NEW p \in Phases, depth' > 0 PROVE ~dirty'[p]
      <3>1. UNCHANGED <<entries, dirty>>
        BY <1>1, <1>2, <1>5, <2>2
      <3> QED  BY <3>1 DEF SortedOrDirty
    <2> QED  BY <2>1, <2>2 DEF SortedOrDirty
  <1>9. depth' > 0 => entries' = entries /\ run'[1] = run[1] /\ Here' = run[depth - 1]
    BY <1>1, <1>2, <1>4, <1>5, SchedulerAssumption DEF Here, Levels
  <1>10. RunsInOrder'
    BY <1>9 DEF RunsInOrder
  <1>11. HandlesAreNew'
    <2>1. Used' \subseteq Used
      BY <1>5 DEF Used
    <2> QED  BY <2>1 DEF HandlesAreNew
  <1>12. RunsAreNested'
    <2>1. ASSUME NEW l \in 1 .. depth'
          PROVE  /\ run'[l].kind # "none"
                 /\ l > 1 => run'[l].kind = "phase"
                 /\ l < depth' => run'[l].at = "inside"
                 /\ StandsWell(run[l])'
      <3>1. l \in 1 .. depth /\ l \in Levels /\ l < depth /\ depth' > 0
        BY <1>1, <1>2, SchedulerAssumption DEF Levels
      <3>2. run'[l] = run[l] /\ entries' = entries
        BY <1>4, <1>9, <3>1
      <3>3. /\ run[l].kind # "none"
            /\ l > 1 => run[l].kind = "phase"
            /\ run[l].at = "inside"
            /\ StandsWell(run[l])
        BY <3>1 DEF RunsAreNested
      <3> QED  BY <3>2, <3>3 DEF StandsWell
    <2> QED  BY <2>1 DEF RunsAreNested
  <1>13. ChosenMayBeCalled'
    <2>1. depth' > 0 => Here'.at = "inside"
      BY <1>1, <1>2, <1>9 DEF RunsAreNested
    <2> QED  BY <2>1 DEF ChosenMayBeCalled
  <1>14. OwedIsAhead'
    <2>1. owed' \subseteq kept'
      BY DEF OwedIsAhead
    <2>2. ASSUME depth' > 0, run'[1].kind = "frame", NEW h \in owed'
          PROVE  \E q \in Phases : \E i \in DOMAIN entries'[q] :
                     entries'[q][i] = h /\ IsAhead(q, i, run'[1])
      <3>1. entries' = entries /\ run'[1] = run[1] /\ depth > 0 /\ h \in owed
        BY <1>1, <1>2, <1>9, <2>2
      <3> QED  BY <2>2, <3>1 DEF OwedIsAhead
    <2> QED  BY <2>1, <2>2 DEF OwedIsAhead, IsAhead
  <1>15. NoCallAfterRemoval'
    BY DEF NoCallAfterRemoval
  <1> QED  BY <1>6, <1>7, <1>8, <1>10, <1>11, <1>12, <1>13, <1>14, <1>15

\* A frame or a phase begins.
LEMMA RunKeeps ==
    ASSUME Inductive, RunFrame \/ \E p \in Phases : RunPhase(p)
    PROVE  Inductive'
  <1>1. 1 \in Phases
    BY SchedulerAssumption DEF Phases
  <1>2. CASE RunFrame
    BY <1>1, <1>2, BeginRunKeeps DEF RunFrame
  <1>3. ASSUME NEW p \in Phases, RunPhase(p) PROVE Inductive'
    BY <1>3, BeginRunKeeps DEF RunPhase
  <1> QED  BY <1>2, <1>3

\* A frame or a phase ends, or is left by an exception.
LEMMA EndKeeps ==
    ASSUME Inductive, FrameEnds \/ PhaseEnds \/ CallbackThrows
    PROVE  Inductive'
  <1>1. frame_count \in 0 .. MaxFrames
    BY DEF Inductive, IInv, TypeOK
  <1>2. CASE FrameEnds
    <2>1. frame_count' \in 0 .. MaxFrames
      BY <1>1, <1>2, SchedulerAssumption DEF FrameEnds
    <2> QED  BY <1>2, <2>1, EndRunKeeps DEF FrameEnds, Scanning
  <1>3. CASE PhaseEnds
    BY <1>1, <1>3, EndRunKeeps DEF PhaseEnds, Scanning
  <1>4. CASE CallbackThrows
    BY <1>1, <1>4, EndRunKeeps DEF CallbackThrows
  <1> QED  BY <1>2, <1>3, <1>4
-----------------------------------------------------------------------------
(* The invariant.                                                          *)

\* Nothing changes.
LEMMA StutterKeeps ==
    ASSUME Inductive, UNCHANGED vars
    PROVE  Inductive'
  <1> USE DEF Inductive, IInv, vars
  <1>1. AllEntries' = AllEntries
    BY DEF AllEntries
  <1>2. TypeOK'
    BY DEF TypeOK
  <1>3. NothingLost'
    BY <1>1 DEF NothingLost, OneEntryEach, NothingPendingAtRest
  <1>4. RunsInOrder' /\ SortedOrDirty'
    BY DEF RunsInOrder, SortedOrDirty, SortedBy, Before
  <1>5. HandlesAreNew'
    BY <1>1 DEF HandlesAreNew, Used
  <1>6. RunsAreNested' /\ OwedIsAhead'
    BY DEF RunsAreNested, StandsWell, OwedIsAhead, IsAhead
  <1>7. ChosenMayBeCalled' /\ NoCallAfterRemoval'
    BY DEF ChosenMayBeCalled, NoCallAfterRemoval, Here, Current
  <1> QED  BY <1>2, <1>3, <1>4, <1>5, <1>6, <1>7

\* A scheduler without callbacks.
LEMMA InitHolds == Init => Inductive
  <1> SUFFICES ASSUME Init PROVE Inductive
    OBVIOUS
  <1> USE DEF Init, Inductive, IInv
  <1>1. /\ 1 \in Phases /\ 0 \in 0 .. MaxDepth /\ 0 \in 0 .. MaxFrames /\ 1 \in 1 .. MaxHandles + 1
        /\ NoRun \in Runs
    BY SchedulerAssumption DEF Phases, NoRun, Runs
  <1>2. TypeOK
    BY <1>1 DEF TypeOK
  <1>3. \A p \in Phases : entries[p] = <<>> /\ ToSet(entries[p]) = {}
    BY DEF ToSet
  <1>4. AllEntries = {} /\ ToSet(pending_adds) = {}
    BY <1>3, AllIff DEF AllEntries, ToSet
  <1>5. NothingLost
    BY <1>3, <1>4 DEF NothingLost, OneEntryEach, NothingPendingAtRest
  <1>6. RunsInOrder /\ SortedOrDirty
    BY <1>3 DEF RunsInOrder, SortedOrDirty, SortedBy
  <1>7. HandlesAreNew
    BY <1>4 DEF HandlesAreNew, Used, Invalid
  <1>8. RunsAreNested /\ OwedIsAhead /\ ChosenMayBeCalled /\ NoCallAfterRemoval
    BY DEF RunsAreNested, OwedIsAhead, ChosenMayBeCalled, NoCallAfterRemoval
  <1> QED  BY <1>2, <1>5, <1>6, <1>7, <1>8

\* One case per action.
LEMMA StepKeeps == Inductive /\ [Next]_vars => Inductive'
  <1> SUFFICES ASSUME Inductive, [Next]_vars PROVE Inductive'
    OBVIOUS
  <1>1. ASSUME NEW t \in Threads, NEW p \in Phases, NEW n \in Priorities, TakeHandle(t, p, n)
        PROVE  Inductive'
    BY <1>1, TakeHandleKeeps
  <1>2. ASSUME NEW t \in Threads, AddCallback(t) PROVE Inductive'
    BY <1>2, AddCallbackKeeps
  <1>3. ASSUME NEW t \in Threads, NEW h \in Handles, Unregister(t, h) PROVE Inductive'
    BY <1>3, UnregisterKeeps
  <1>4. CASE Clear
    BY <1>4, ClearKeeps
  <1>5. CASE RunFrame \/ \E p \in Phases : RunPhase(p)
    BY <1>5, RunKeeps
  <1>6. CASE SkipRemoved \/ Choose \/ CallCallback \/ CallbackReturns \/ NextPhase
    BY <1>6, SkipRemovedKeeps, ChooseKeeps, CallCallbackKeeps, CallbackReturnsKeeps,
       NextPhaseKeeps
  <1>7. CASE FrameEnds \/ PhaseEnds \/ CallbackThrows
    BY <1>7, EndKeeps
  <1>8. CASE UNCHANGED vars
    BY <1>8, StutterKeeps
  <1> QED  BY <1>1, <1>2, <1>3, <1>4, <1>5, <1>6, <1>7, <1>8 DEF Next, Walk

\* The inductive invariant holds in every state of every behaviour.
THEOREM InductiveHolds == Spec => []Inductive
  <1>1. Init => Inductive
    BY InitHolds
  <1>2. Inductive /\ [Next]_vars => Inductive'
    BY StepKeeps
  <1> QED  BY <1>1, <1>2, PTL DEF Spec

\* Types; the callbacks of a phase run by priority and handle (SortPhase, RunPhaseEntries);
\* what Main removed is not called again (Unregister, IsPendingRemoval); and what these
\* rest on.
THEOREM Invariance == Spec => []IInv
  <1>1. Inductive => IInv
    BY DEF Inductive
  <1> QED  BY <1>1, InductiveHolds, PTL

\* Register, Unregister, Clear and ApplyPendingLocked lose no registration and forget no
\* removal, whichever threads make them and whatever runs.
THEOREM NothingLostHolds == Spec => []NothingLost
  <1>1. Inductive => NothingLost
    BY DEF Inductive
  <1> QED  BY <1>1, InductiveHolds, PTL

\* A frame that comes to its end without an exception has called every callback it owed.
THEOREM FrameCallsEveryoneHolds == Spec => []FrameCallsEveryone
  <1>1. Inductive => FrameCallsEveryone
    <2> SUFFICES ASSUME Inductive, Scanning, PastTheEnd, Here.kind = "frame",
                        Here.phase = PhaseCount, NEW h \in owed
                 PROVE  FALSE
      BY DEF FrameCallsEveryone
    <2>1. depth > 0 /\ depth = 1 /\ Here = run[1]
      BY Standing DEF Scanning, Here
    <2>2. PICK p \in Phases : \E i \in DOMAIN entries[p] : IsAhead(p, i, Here)
      BY <2>1 DEF Inductive, IInv, OwedIsAhead
    <2>3. PICK i \in DOMAIN entries[p] : IsAhead(p, i, Here)
      BY <2>2
    <2>4. p \in Nat /\ p <= PhaseCount
      BY SchedulerAssumption DEF Phases
    <2>5. p = Here.phase /\ i >= Here.index
      BY <2>1, <2>3, <2>4, HereFacts, SchedulerAssumption DEF IsAhead
    <2>6. i \in Nat /\ i <= Len(entries[Here.phase])
      BY <2>1, <2>5, HereFacts
    <2> QED  BY <2>1, <2>5, <2>6, HereFacts DEF PastTheEnd
  <1> QED  BY <1>1, InductiveHolds, PTL

Frozen == depth > 0 /\ depth' > 0 => UNCHANGED entries

\* While a run goes on no thread changes the vectors that RunPhaseEntries walks without
\* the mutex.
THEOREM EntriesFrozenHolds == Spec => EntriesFrozen
  <1>1. Inductive /\ [Next]_vars => [Frozen]_vars
    <2> SUFFICES ASSUME Inductive, Next, depth > 0, depth' > 0 PROVE entries' = entries
      BY DEF Frozen
    <2>1. depth \in Nat /\ depth # 0
      BY DEF Inductive, IInv, TypeOK
    <2>2. CASE \E t \in Threads : \E p \in Phases, n \in Priorities : TakeHandle(t, p, n)
      BY <2>2 DEF TakeHandle
    <2>3. CASE \E t \in Threads : AddCallback(t)
      BY <2>1, <2>3 DEF AddCallback, AddOrDefer
    <2>4. CASE \E t \in Threads : \E h \in Handles : Unregister(t, h)
      BY <2>1, <2>4 DEF Unregister
    <2>5. CASE Clear
      BY <2>1, <2>5 DEF Clear, ClearLater
    <2>6. CASE RunFrame \/ \E p \in Phases : RunPhase(p)
      BY <2>1, <2>6 DEF RunFrame, RunPhase, BeginRun
    <2>7. CASE SkipRemoved \/ Choose \/ CallCallback \/ CallbackReturns \/ NextPhase
      BY <2>7 DEF SkipRemoved, Choose, ChooseAny, CallCallback, CallbackReturns, NextPhase
    <2>8. CASE FrameEnds \/ PhaseEnds \/ CallbackThrows
      BY <2>1, <2>8 DEF FrameEnds, PhaseEnds, CallbackThrows, EndRun
    <2> QED  BY <2>2, <2>3, <2>4, <2>5, <2>6, <2>7, <2>8 DEF Next, Walk
  <1> QED  BY <1>1, InductiveHolds, PTL DEF Spec, EntriesFrozen, Frozen
=============================================================================
