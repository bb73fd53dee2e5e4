------------------------ MODULE PacketPipelineProofs ------------------------
(***************************************************************************)
(* Proofs about PacketPipeline, for any number of packets, operations and  *)
(* connections and any capacity of the queue: the session's receive state  *)
(* has one reader at a time, the receive thread never outlives its queue,  *)
(* a connected client at rest is in the phase its screen needs, and what   *)
(* the server sent unasked reaches the world once and in turn.             *)
(*                                                                         *)
(* None of them is inductive.  What keeps the readers apart differs from   *)
(* pair to pair: operation_mutex_ for the poll and an operation, the phase *)
(* for the poll and the world's thread, the screen (and the joins that end *)
(* it) for an operation and the world's thread.  IInv says what each of    *)
(* the three tells about the others.  That nothing is lost between them    *)
(* needs what IInv leaves out: which of the places a packet can be in      *)
(* (handled, queue, hold, deferred, wire) are empty on which screen, so    *)
(* that a packet moving from one to another keeps its turn.  Stream adds   *)
(* that; its lemmas treat the places as one line, in which a step moves a  *)
(* packet, takes one out and accounts for it, adds one at the end, or lets *)
(* Warden's packets pass.                                                  *)
(***************************************************************************)
EXTENDS PacketPipeline, TLAPS

Types ==
    /\ op \in {"none", "list", "enter"}
    /\ opPc \in {"none", "lock", "send", "receive", "finish", "done"}
    /\ target \in {"login", "select"}

\* The mutex tells who is inside the session at the character screens.
LockTellsReader ==
    /\ lock = "op" <=> opPc \in {"send", "receive", "finish"}
    /\ lock = "main" <=> main = "poll"

\* The screen tells which threads there can be.
ScreenTellsThreads ==
    /\ op = "none" <=> opPc = "none"
    /\ op = "list" => mode = "select"
    /\ op = "enter" => mode = "entering"
    /\ recv \in {"loop", "read", "push"} => InWorld
    /\ main = "poll" => ~InWorld
    /\ main \in {"check", "joinRecv"} => InWorld

\* The phase follows the screen and, in an entry, the thread that makes it.
PhaseFollows ==
    connected =>
        /\ phase # "none" /\ mode # "login"
        /\ InWorld => phase = "world"
        /\ mode = "select" => phase = "select"
        /\ op = "enter" =>
              /\ opPc = "lock" => phase = "select"
              /\ opPc \in {"send", "receive"} => phase = "entering"
              /\ opPc = "finish" => phase = "entering" \/ (phase = "select" /\ ~opOk)
              /\ opPc = "done" => phase = IF opOk THEN "world" ELSE "select"

IInv == Types /\ LockTellsReader /\ ScreenTellsThreads /\ PhaseFollows
-----------------------------------------------------------------------------
LEMMA InitEstablishes == Init => IInv
BY DEF Init, IInv, Types, LockTellsReader, ScreenTellsThreads, PhaseFollows, InWorld

\* The server touches nothing but the wire.
LEMMA ServerPreserves ==
    ASSUME IInv, (\E kind \in Unasked : ServerSends(kind)) \/ ServerAnswers \/ ServerCloses
    PROVE  IInv'
BY DEF IInv, Types, LockTellsReader, ScreenTellsThreads, PhaseFollows, InWorld,
       ServerSends, ServerAnswers, ServerCloses, linkVars, opVars, recvVars

\* NetworkRecvThread moves only itself, and the connection only down.
LEMMA RecvPreserves ==
    ASSUME IInv, RecvStep
    PROVE  IInv'
BY DEF IInv, Types, LockTellsReader, ScreenTellsThreads, PhaseFollows, InWorld,
       RecvStep, RecvLoops, RecvReceives, RecvFails, RecvPushes, RecvUnchanged, Drop,
       linkVars, opVars
\* An operation is alone in the session from its lock to its end.
LEMMA OperationPreserves ==
    ASSUME IInv, OpStep
    PROVE  IInv'
<1> USE DEF IInv, Types, LockTellsReader, ScreenTellsThreads, PhaseFollows, InWorld
<1>1. CASE OpLocks
  BY <1>1 DEF OpLocks, OpUnchanged, CanPerformCharacterOperation, recvVars
<1>2. CASE OpSends
  BY <1>2 DEF OpSends, OpUnchanged, Drop, recvVars, linkVars
<1>3. CASE OpReceives
  BY <1>3 DEF OpReceives, OpUnchanged, recvVars, linkVars
<1>4. CASE OpGivesUp
  BY <1>4 DEF OpGivesUp, OpUnchanged, Drop, recvVars, linkVars
<1>5. CASE OpFinishes
  BY <1>5 DEF OpFinishes, OpUnchanged, RestoreCharacterSelect, recvVars
<1>6. QED
  BY <1>1, <1>2, <1>3, <1>4, <1>5 DEF OpStep

\* The poll enters only with the mutex and in the phase of the character screen.
LEMMA PollPreserves ==
    ASSUME IInv, \/ HeartbeatFails \/ PollStarts \/ PollRefused
                 \/ PollTakesDeferred \/ PollReads \/ PollFindsNothing
    PROVE  IInv'
<1> USE DEF IInv, Types, LockTellsReader, ScreenTellsThreads, PhaseFollows, InWorld
<1>1. CASE HeartbeatFails
  BY <1>1 DEF HeartbeatFails, Drop, opVars, recvVars
<1>2. CASE PollStarts
  BY <1>2
     DEF PollStarts, TryLock, CanPerformCharacterOperation, MainUnchanged,
         linkVars, opVars, recvVars
<1>3. CASE PollRefused
  BY <1>3 DEF PollRefused, MainUnchanged, linkVars, opVars, recvVars
<1>4. CASE main = "poll" /\ PollTakesDeferred
  BY <1>4 DEF PollTakesDeferred, PollEnds, MainUnchanged, opVars, recvVars, linkVars
<1>5. CASE main = "poll" /\ PollReads
  BY <1>5 DEF PollReads, PollEnds, MainUnchanged, opVars, recvVars, linkVars
<1>6. CASE main = "poll" /\ PollFindsNothing
  BY <1>6
     DEF PollFindsNothing, PollEnds, MainUnchanged, opVars, recvVars, Drop, linkVars
<1>7. QED
  BY <1>1, <1>2, <1>3, <1>4, <1>5, <1>6
     DEF PollTakesDeferred, PollReads, PollFindsNothing, PollEnds

\* The flow starts an operation only when it holds none and lets go of finished ones only.
LEMMA FlowPreserves ==
    ASSUME IInv, \/ \E o \in {"list", "enter"} : FlowStarts(o)
                 \/ FlowHasNothing \/ FlowHarvests \/ FlowCancels \/ OperationJoined
                 \/ FlowDisconnects \/ Reconnect \/ HandOver \/ HandOverFails
    PROVE  IInv'
<1> USE DEF IInv, Types, LockTellsReader, ScreenTellsThreads, PhaseFollows, InWorld
<1>1. CASE \E o \in {"list", "enter"} : FlowStarts(o)
  BY <1>1 DEF FlowStarts, Flow, MainUnchanged, opVars, recvVars, linkVars
<1>2. CASE FlowHasNothing
  BY <1>2 DEF FlowHasNothing, Flow, MainUnchanged, opVars, recvVars, linkVars
<1>3. CASE FlowHarvests
  BY <1>3
     DEF FlowHarvests, ForgetOperation, Flow, MainUnchanged, opVars, recvVars,
         linkVars
<1>4. CASE FlowCancels
  BY <1>4 DEF FlowCancels, Drop, Flow, MainUnchanged, opVars, recvVars, linkVars
<1>5. CASE OperationJoined
  BY <1>5
     DEF OperationJoined, ForgetOperation, Disconnect, Drop, MainUnchanged, recvVars,
         linkVars
<1>6. CASE FlowDisconnects
  BY <1>6
     DEF FlowDisconnects, Disconnect, Drop, Flow, MainUnchanged, opVars, recvVars,
         linkVars
<1>7. CASE Reconnect
  BY <1>7 DEF Reconnect, opVars, recvVars
<1>8. CASE HandOver
  BY <1>8 DEF HandOver, ForgetOperation, linkVars
<1>9. CASE HandOverFails
  BY <1>9
     DEF HandOverFails, ForgetOperation, Disconnect, Drop, Flow, MainUnchanged,
         opVars, recvVars, linkVars
<1>10. QED
  BY <1>1, <1>2, <1>3, <1>4, <1>5, <1>6, <1>7, <1>8, <1>9

\* The world is left when its thread has been joined, in the phase of the next screen.
LEMMA WorldPreserves ==
    ASSUME IInv, \/ LoadPumpsWarden \/ LoadEnds \/ HandlePacket \/ TickEnds
                 \/ LoadingScreenEnds \/ LogoutComplete \/ WorldTransportDisconnect
                 \/ StayInWorld \/ ReturnFromWorldToGlue
    PROVE  IInv'
<1> USE DEF IInv, Types, LockTellsReader, ScreenTellsThreads, PhaseFollows, InWorld
<1>1. CASE LoadPumpsWarden
  BY <1>1 DEF LoadPumpsWarden, WorldUnchanged, opVars, recvVars, linkVars
<1>2. CASE LoadEnds
  BY <1>2 DEF LoadEnds, WorldUnchanged, opVars, recvVars, linkVars
<1>3. CASE HandlePacket
  BY <1>3 DEF HandlePacket, WorldUnchanged, opVars, recvVars, linkVars
<1>4. CASE TickEnds
  BY <1>4 DEF TickEnds, WorldUnchanged, opVars, recvVars, linkVars
<1>5. CASE LoadingScreenEnds
  BY <1>5 DEF LoadingScreenEnds, WorldUnchanged, opVars, recvVars, linkVars
<1>6. CASE LogoutComplete
  BY <1>6 DEF LogoutComplete, Leave, RequestStop, opVars, linkVars
<1>7. CASE WorldTransportDisconnect
  BY <1>7 DEF WorldTransportDisconnect, Leave, RequestStop, opVars, linkVars
<1>8. CASE StayInWorld
  BY <1>8 DEF StayInWorld, WorldUnchanged, opVars, recvVars, linkVars
<1>9. CASE ReturnFromWorldToGlue
  BY <1>9 DEF ReturnFromWorldToGlue, Joined, Disconnect, Drop, opVars, recvVars
<1>10. QED
  BY <1>1, <1>2, <1>3, <1>4, <1>5, <1>6, <1>7, <1>8, <1>9

\* IInv holds in every reachable state.
THEOREM Invariance == Spec => []IInv
<1>1. IInv /\ [Next]_vars => IInv'
  <2> SUFFICES ASSUME IInv, [Next]_vars
               PROVE  IInv'
    OBVIOUS
  <2>1. CASE Next
    BY <2>1, ServerPreserves, OperationPreserves, PollPreserves, FlowPreserves,
       WorldPreserves, RecvPreserves DEF Next, MainStep
  <2>2. CASE UNCHANGED vars
    BY <2>2 DEF IInv, Types, LockTellsReader, ScreenTellsThreads, PhaseFollows, InWorld,
                vars, linkVars, opVars, recvVars
  <2>3. QED
    BY <2>1, <2>2
<1>2. QED
  BY InitEstablishes, <1>1, PTL DEF Spec
-----------------------------------------------------------------------------
\* At most one thread is inside RecvPacket: an operation and the poll cannot both hold
\* the mutex, and the world's thread lives on screens where neither can begin.  And it
\* never pushes into a queue that is gone.
THEOREM ReceiveIsSafeHolds == Spec => []ReceiveIsSafe
<1>1. IInv => OneReader
  BY DEF IInv, Types, LockTellsReader, ScreenTellsThreads, InWorld, OneReader
<1>2. IInv => ThreadHasQueue
  BY DEF IInv, ScreenTellsThreads, ThreadHasQueue
<1>3. QED
  BY <1>1, <1>2, Invariance, PTL DEF ReceiveIsSafe

\* Whatever becomes of entries and worlds, a client that is still connected comes to rest
\* in the phase in which its screen's requests are accepted.
THEOREM PhaseMatchesScreenHolds == Spec => []PhaseMatchesScreen
<1>1. IInv => PhaseMatchesScreen
  BY DEF IInv, PhaseFollows, PhaseMatchesScreen
<1>2. QED
  BY <1>1, Invariance, PTL
-----------------------------------------------------------------------------
(* Sequences of packets: what taking some out, or letting Warden's go first,  *)
(* leaves of their order.                                                     *)

\* u is s without some of its packets, those of a kind (Warden's, the others) in the
\* order they have in s.
Embeds(u, s) ==
    \E f \in [DOMAIN u -> DOMAIN s] :
        /\ \A i \in DOMAIN u : u[i] = s[f[i]]
        /\ \A i, j \in DOMAIN u : f[i] = f[j] => i = j
        /\ \A i, j \in DOMAIN u :
               i < j /\ (IsWarden(u[i]) <=> IsWarden(u[j])) => f[i] < f[j]

LEMMA EmbeddedInTurn ==
    ASSUME NEW u \in Seq(Packets), NEW s \in Seq(Packets), Embeds(u, s), Once(s), InTurn(s)
    PROVE  Once(u) /\ InTurn(u)
BY DEF Embeds, Once, InTurn, IsWarden

LEMMA ConcatFacts ==
    ASSUME NEW T, NEW a \in Seq(T), NEW b \in Seq(T)
    PROVE  /\ a \o b \in Seq(T)
           /\ Len(a) \in Nat /\ Len(b) \in Nat /\ Len(a \o b) = Len(a) + Len(b)
           /\ DOMAIN a = 1 .. Len(a) /\ DOMAIN b = 1 .. Len(b)
           /\ DOMAIN (a \o b) = 1 .. Len(a) + Len(b)
           /\ \A i \in 1 .. Len(a) : (a \o b)[i] = a[i]
           /\ \A i \in 1 .. Len(b) : (a \o b)[Len(a) + i] = b[i]
           /\ \A i \in 1 .. Len(a) + Len(b) :
                  i <= Len(a) \/ \E j \in 1 .. Len(b) : i = Len(a) + j
  <1>1. /\ a \o b \in Seq(T)
        /\ Len(a) \in Nat /\ Len(b) \in Nat /\ Len(a \o b) = Len(a) + Len(b)
        /\ DOMAIN a = 1 .. Len(a) /\ DOMAIN b = 1 .. Len(b)
        /\ DOMAIN (a \o b) = 1 .. Len(a) + Len(b)
    OBVIOUS
  <1>2. \A i \in 1 .. Len(a) : (a \o b)[i] = a[i]
    OBVIOUS
  <1>3. \A i \in 1 .. Len(b) : (a \o b)[Len(a) + i] = b[i]
    OBVIOUS
  <1>4. ASSUME NEW i \in 1 .. Len(a) + Len(b), ~(i <= Len(a))
        PROVE  \E j \in 1 .. Len(b) : i = Len(a) + j
    <2>1. i - Len(a) \in 1 .. Len(b) /\ i = Len(a) + (i - Len(a))
      BY <1>1, <1>4
    <2> QED  BY <2>1
  <1> QED  BY <1>1, <1>2, <1>3, <1>4

LEMMA Assoc ==
    ASSUME NEW T, NEW a \in Seq(T), NEW b \in Seq(T), NEW c \in Seq(T)
    PROVE  /\ a \o b \in Seq(T) /\ a \o (b \o c) \in Seq(T)
           /\ a \o b \o c = a \o (b \o c)
           /\ a \o <<>> = a /\ <<>> \o a = a
OBVIOUS

LEMMA Halves ==
    ASSUME NEW T, NEW s \in Seq(T), NEW k \in 1 .. Len(s)
    PROVE  /\ SubSeq(s, 1, k) \in Seq(T) /\ SubSeq(s, k + 1, Len(s)) \in Seq(T)
           /\ s = SubSeq(s, 1, k) \o SubSeq(s, k + 1, Len(s))
           /\ Len(SubSeq(s, k + 1, Len(s))) = Len(s) - k
           /\ SubSeq(s, 1, k - 1) \in Seq(T)
           /\ SubSeq(s, 1, k) = Append(SubSeq(s, 1, k - 1), s[k])
  <1>1. SubSeq(s, 1, k) \in Seq(T) /\ SubSeq(s, k + 1, Len(s)) \in Seq(T)
    OBVIOUS
  <1>2. s = SubSeq(s, 1, k) \o SubSeq(s, k + 1, Len(s))
    OBVIOUS
  <1>3. Len(SubSeq(s, k + 1, Len(s))) = Len(s) - k
    OBVIOUS
  <1>4. SubSeq(s, 1, k - 1) \in Seq(T)
    OBVIOUS
  <1>5. SubSeq(s, 1, k) = Append(SubSeq(s, 1, k - 1), s[k])
    OBVIOUS
  <1> QED  BY <1>1, <1>2, <1>3, <1>4, <1>5

\* A sequence around its k-th element.
LEMMA SplitAt ==
    ASSUME NEW T, NEW s \in Seq(T), NEW k \in DOMAIN s
    PROVE  /\ SubSeq(s, 1, k - 1) \in Seq(T) /\ SubSeq(s, k + 1, Len(s)) \in Seq(T)
           /\ s[k] \in T /\ <<s[k]>> \in Seq(T)
           /\ s = SubSeq(s, 1, k - 1) \o <<s[k]>> \o SubSeq(s, k + 1, Len(s))
  <1>1. k \in 1 .. Len(s) /\ Len(s) \in Nat /\ s[k] \in T /\ <<s[k]>> \in Seq(T)
    OBVIOUS
  <1>2. /\ SubSeq(s, 1, k) \in Seq(T) /\ SubSeq(s, k + 1, Len(s)) \in Seq(T)
        /\ s = SubSeq(s, 1, k) \o SubSeq(s, k + 1, Len(s))
    BY <1>1, Halves
  <1>3. SubSeq(s, 1, k - 1) \in Seq(T) /\ SubSeq(s, 1, k) = Append(SubSeq(s, 1, k - 1), s[k])
    BY <1>1, Halves
  <1>4. Append(SubSeq(s, 1, k - 1), s[k]) = SubSeq(s, 1, k - 1) \o <<s[k]>>
    <2> DEFINE a == SubSeq(s, 1, k - 1)
               x == s[k]
    <2>1. a \in Seq(T) /\ x \in T
      BY <1>1, <1>3
    <2> HIDE DEF a, x
    <2>2. Append(a, x) = a \o <<x>>
      BY <2>1
    <2> QED  BY <2>2 DEF a, x
  <1> QED  BY <1>1, <1>2, <1>3, <1>4

LEMMA NumbersOfConcat ==
    ASSUME NEW T, NEW a \in Seq(T), NEW b \in Seq(T)
    PROVE  Numbers(a \o b) = Numbers(a) \cup Numbers(b)
  <1>1. \A x : x \in ToSet(a \o b) <=> x \in ToSet(a) \/ x \in ToSet(b)
    <2>1. ASSUME NEW x \in ToSet(a \o b) PROVE x \in ToSet(a) \/ x \in ToSet(b)
      BY ConcatFacts DEF ToSet
    <2>2. ASSUME NEW x \in ToSet(a) PROVE x \in ToSet(a \o b)
      BY ConcatFacts DEF ToSet
    <2>3. ASSUME NEW x \in ToSet(b) PROVE x \in ToSet(a \o b)
      <3>1. PICK i \in 1 .. Len(b) : x = b[i]
        BY ConcatFacts DEF ToSet
      <3>2. Len(a) + i \in DOMAIN (a \o b) /\ (a \o b)[Len(a) + i] = x
        BY <3>1, ConcatFacts
      <3> QED  BY <3>2 DEF ToSet
    <2> QED  BY <2>1, <2>2, <2>3
  <1> QED  BY <1>1 DEF Numbers

\* A change in the middle of the line is one of the line.
LEMMA Before ==
    ASSUME NEW u \in Seq(Packets), NEW s \in Seq(Packets), NEW r \in Seq(Packets),
           Embeds(u, s)
    PROVE  Embeds(u \o r, s \o r)
  <1> DEFINE Du == 1 .. Len(u)
             Ds == 1 .. Len(s)
             Dr == 1 .. Len(r)
  <1>1. DOMAIN u = Du /\ DOMAIN s = Ds
    OBVIOUS
  <1>2. PICK f \in [Du -> Ds] :
          /\ \A i \in Du : u[i] = s[f[i]]
          /\ \A i, j \in Du : f[i] = f[j] => i = j
          /\ \A i, j \in Du : i < j /\ (IsWarden(u[i]) <=> IsWarden(u[j])) => f[i] < f[j]
    <2> HIDE DEF Du, Ds
    <2> QED  BY <1>1 DEF Embeds
  <1> DEFINE t == u \o r
             w == s \o r
             g == [i \in DOMAIN t |-> IF i <= Len(u) THEN f[i] ELSE i - Len(u) + Len(s)]
  <1>3. /\ Len(u) \in Nat /\ Len(s) \in Nat /\ Len(r) \in Nat
        /\ DOMAIN t = 1 .. Len(u) + Len(r) /\ DOMAIN w = 1 .. Len(s) + Len(r)
    OBVIOUS
  <1>4. /\ \A i \in Du : t[i] = u[i]
        /\ \A i \in Ds : w[i] = s[i]
        /\ \A i \in Dr : t[Len(u) + i] = r[i] /\ w[Len(s) + i] = r[i]
    BY ConcatFacts
  <1>5. \A i \in DOMAIN t : i \in Du \/ \E k \in Dr : i = Len(u) + k
    BY <1>3, ConcatFacts
  <1> HIDE DEF t, w
  <1>6. /\ Du \subseteq DOMAIN t /\ Ds \subseteq DOMAIN w
        /\ \A k \in Dr : Len(u) + k \in DOMAIN t /\ Len(s) + k \in DOMAIN w
    <2>1. Du \subseteq DOMAIN t /\ Ds \subseteq DOMAIN w
      BY <1>3
    <2>2. ASSUME NEW k \in Dr PROVE Len(u) + k \in DOMAIN t /\ Len(s) + k \in DOMAIN w
      BY <1>3
    <2> QED  BY <2>1, <2>2
  <1>7. \A i \in Du : g[i] = f[i] /\ g[i] \in Ds
    <2>1. ASSUME NEW i \in Du PROVE g[i] = f[i] /\ g[i] \in Ds
      <3>1. i \in DOMAIN t
        BY <1>6
      <3>2. i <= Len(u)
        BY <1>3
      <3>3. g[i] = f[i]
        BY <3>1, <3>2
      <3>4. f[i] \in Ds
        BY <1>2
      <3> QED  BY <3>3, <3>4
    <2> QED  BY <2>1
  <1>8. \A k \in Dr : g[Len(u) + k] = Len(s) + k
    <2>1. ASSUME NEW k \in Dr PROVE g[Len(u) + k] = Len(s) + k
      <3>1. ~(Len(u) + k <= Len(u)) /\ Len(u) + k - Len(u) + Len(s) = Len(s) + k
        <4>1. k \in Nat /\ k > 0
          BY <1>3
        <4> QED  BY <1>3, <4>1
      <3>2. Len(u) + k \in DOMAIN t
        BY <1>6
      <3> QED  BY <3>1, <3>2
    <2> QED  BY <2>1
  <1> HIDE DEF g
  <1>9. \A i \in DOMAIN t : g[i] \in DOMAIN w /\ t[i] = w[g[i]]
    <2>1. ASSUME NEW i \in Du PROVE g[i] \in DOMAIN w /\ t[i] = w[g[i]]
      <3>1. g[i] = f[i] /\ f[i] \in Ds /\ u[i] = s[f[i]] /\ t[i] = u[i]
        BY <1>2, <1>4, <1>7
      <3> HIDE DEF Du, Ds, Dr
      <3>2. w[f[i]] = s[f[i]] /\ f[i] \in DOMAIN w
        BY <1>4, <1>6, <3>1
      <3> QED  BY <3>1, <3>2
    <2>2. ASSUME NEW k \in Dr
          PROVE  g[Len(u) + k] \in DOMAIN w /\ t[Len(u) + k] = w[g[Len(u) + k]]
      BY <1>4, <1>6, <1>8
    <2> HIDE DEF Du, Dr
    <2> QED  BY <1>5, <2>1, <2>2
  <1>10. ASSUME NEW i \in DOMAIN t, NEW j \in DOMAIN t
         PROVE  /\ g[i] = g[j] => i = j
                /\ i < j /\ (IsWarden(t[i]) <=> IsWarden(t[j])) => g[i] < g[j]
    <2>1. CASE i \in Du /\ j \in Du
      BY <1>2, <1>4, <1>7, <2>1
    <2>2. CASE i \in Du /\ \E k \in Dr : j = Len(u) + k
      <3>1. g[i] \in 1 .. Len(s) /\ \E k \in Dr : j = Len(u) + k /\ g[j] = Len(s) + k
        BY <1>7, <1>8, <2>2
      <3> QED  BY <1>3, <2>2, <3>1
    <2>3. CASE j \in Du /\ \E k \in Dr : i = Len(u) + k
      <3>1. g[j] \in 1 .. Len(s) /\ \E k \in Dr : i = Len(u) + k /\ g[i] = Len(s) + k
        BY <1>7, <1>8, <2>3
      <3> QED  BY <1>3, <2>3, <3>1
    <2>4. CASE (\E k \in Dr : i = Len(u) + k) /\ \E k \in Dr : j = Len(u) + k
      <3>1. PICK k \in Dr : i = Len(u) + k
        BY <2>4
      <3>2. PICK l \in Dr : j = Len(u) + l
        BY <2>4
      <3>3. g[i] = Len(s) + k /\ g[j] = Len(s) + l
        BY <1>8, <3>1, <3>2
      <3>4. k \in Int /\ l \in Int
        OBVIOUS
      <3> HIDE DEF Du, Ds, Dr
      <3>5. /\ Len(s) + k = Len(s) + l => k = l
            /\ Len(u) + k < Len(u) + l => Len(s) + k < Len(s) + l
        BY <1>3, <3>4
      <3> QED  BY <3>1, <3>2, <3>3, <3>5
    <2> HIDE DEF Du, Dr
    <2> QED  BY <1>5, <2>1, <2>2, <2>3, <2>4
  <1>11. g \in [DOMAIN t -> DOMAIN w]
    <2>1. \A i \in DOMAIN t : g[i] \in DOMAIN w
      BY <1>9
    <2> QED  BY <2>1 DEF g
  <1>12. Embeds(t, w)
    BY <1>9, <1>10, <1>11 DEF Embeds
  <1> QED  BY <1>12 DEF t, w

LEMMA Behind ==
    ASSUME NEW u \in Seq(Packets), NEW s \in Seq(Packets), NEW h \in Seq(Packets),
           Embeds(u, s)
    PROVE  Embeds(h \o u, h \o s)
  <1> DEFINE Du == 1 .. Len(u)
             Ds == 1 .. Len(s)
             Dh == 1 .. Len(h)
  <1>1. DOMAIN u = Du /\ DOMAIN s = Ds
    OBVIOUS
  <1>2. PICK f \in [Du -> Ds] :
          /\ \A i \in Du : u[i] = s[f[i]]
          /\ \A i, j \in Du : f[i] = f[j] => i = j
          /\ \A i, j \in Du : i < j /\ (IsWarden(u[i]) <=> IsWarden(u[j])) => f[i] < f[j]
    <2> HIDE DEF Du, Ds
    <2> QED  BY <1>1 DEF Embeds
  <1> DEFINE t == h \o u
             w == h \o s
             g == [i \in DOMAIN t |-> IF i <= Len(h) THEN i ELSE Len(h) + f[i - Len(h)]]
  <1>3. /\ Len(u) \in Nat /\ Len(s) \in Nat /\ Len(h) \in Nat
        /\ DOMAIN t = 1 .. Len(h) + Len(u) /\ DOMAIN w = 1 .. Len(h) + Len(s)
    OBVIOUS
  <1>4. /\ \A i \in Dh : t[i] = h[i] /\ w[i] = h[i]
        /\ \A i \in Du : t[Len(h) + i] = u[i]
        /\ \A i \in Ds : w[Len(h) + i] = s[i]
    BY ConcatFacts
  <1>5. \A i \in DOMAIN t : i \in Dh \/ \E k \in Du : i = Len(h) + k
    BY <1>3, ConcatFacts
  <1> HIDE DEF t, w
  <1>6. /\ Dh \subseteq DOMAIN t /\ Dh \subseteq DOMAIN w
        /\ \A k \in Du : Len(h) + k \in DOMAIN t
        /\ \A k \in Ds : Len(h) + k \in DOMAIN w
    <2>1. Dh \subseteq DOMAIN t /\ Dh \subseteq DOMAIN w
      BY <1>3
    <2>2. ASSUME NEW k \in Du PROVE Len(h) + k \in DOMAIN t
      BY <1>3
    <2>3. ASSUME NEW k \in Ds PROVE Len(h) + k \in DOMAIN w
      BY <1>3
    <2> QED  BY <2>1, <2>2, <2>3
  <1>7. \A i \in Dh : g[i] = i
    BY <1>3, <1>6
  <1>8. \A k \in Du : g[Len(h) + k] = Len(h) + f[k]
    <2>1. ASSUME NEW k \in Du PROVE g[Len(h) + k] = Len(h) + f[k]
      <3>1. ~(Len(h) + k <= Len(h)) /\ Len(h) + k - Len(h) = k
        BY <1>3
      <3>2. Len(h) + k \in DOMAIN t
        BY <1>6
      <3> QED  BY <3>1, <3>2
    <2> QED  BY <2>1
  <1> HIDE DEF g
  <1>9. \A i \in DOMAIN t : g[i] \in DOMAIN w /\ t[i] = w[g[i]]
    <2>1. ASSUME NEW i \in Dh PROVE g[i] \in DOMAIN w /\ t[i] = w[g[i]]
      BY <1>4, <1>6, <1>7
    <2>2. ASSUME NEW k \in Du
          PROVE  g[Len(h) + k] \in DOMAIN w /\ t[Len(h) + k] = w[g[Len(h) + k]]
      <3> HIDE DEF Du, Ds, Dh
      <3>1. f[k] \in Ds /\ u[k] = s[f[k]]
        BY <1>2
      <3> QED  BY <1>4, <1>6, <1>8, <3>1
    <2> HIDE DEF Du, Dh
    <2> QED  BY <1>5, <2>1, <2>2
  <1>10. ASSUME NEW i \in DOMAIN t, NEW j \in DOMAIN t
         PROVE  /\ g[i] = g[j] => i = j
                /\ i < j /\ (IsWarden(t[i]) <=> IsWarden(t[j])) => g[i] < g[j]
    <2>1. CASE i \in Dh /\ j \in Dh
      BY <1>7, <2>1
    <2>2. CASE i \in Dh /\ \E k \in Du : j = Len(h) + k
      <3>1. PICK k \in Du : j = Len(h) + k
        BY <2>2
      <3>2. g[i] = i /\ g[j] = Len(h) + f[k] /\ f[k] \in Ds
        BY <1>2, <1>7, <1>8, <2>2, <3>1
      <3> QED  BY <1>3, <2>2, <3>1, <3>2
    <2>3. CASE j \in Dh /\ \E k \in Du : i = Len(h) + k
      <3>1. PICK k \in Du : i = Len(h) + k
        BY <2>3
      <3>2. g[j] = j /\ g[i] = Len(h) + f[k] /\ f[k] \in Ds
        BY <1>2, <1>7, <1>8, <2>3, <3>1
      <3> QED  BY <1>3, <2>3, <3>1, <3>2
    <2>4. CASE (\E k \in Du : i = Len(h) + k) /\ \E k \in Du : j = Len(h) + k
      <3>1. PICK k \in Du : i = Len(h) + k
        BY <2>4
      <3>2. PICK l \in Du : j = Len(h) + l
        BY <2>4
      <3>3. g[i] = Len(h) + f[k] /\ g[j] = Len(h) + f[l] /\ t[i] = u[k] /\ t[j] = u[l]
        BY <1>4, <1>8, <3>1, <3>2
      <3>4. f[k] \in Int /\ f[l] \in Int /\ k \in Int /\ l \in Int
        BY <1>2
      <3>5. /\ Len(h) + f[k] = Len(h) + f[l] => f[k] = f[l]
            /\ Len(h) + k < Len(h) + l => k < l
            /\ f[k] < f[l] => Len(h) + f[k] < Len(h) + f[l]
        BY <1>3, <3>4
      <3> HIDE DEF Du, Ds, Dh
      <3>6. /\ f[k] = f[l] => k = l
            /\ k < l /\ (IsWarden(u[k]) <=> IsWarden(u[l])) => f[k] < f[l]
        BY <1>2
      <3> QED  BY <3>1, <3>2, <3>3, <3>5, <3>6
    <2> HIDE DEF Du, Dh
    <2> QED  BY <1>5, <2>1, <2>2, <2>3, <2>4
  <1>11. g \in [DOMAIN t -> DOMAIN w]
    <2>1. \A i \in DOMAIN t : g[i] \in DOMAIN w
      BY <1>9
    <2> QED  BY <2>1 DEF g
  <1>12. Embeds(t, w)
    BY <1>9, <1>10, <1>11 DEF Embeds
  <1> QED  BY <1>12 DEF t, w

\* Taking packets out of the line leaves the others in turn, and theirs are the numbers
\* that are gone.
LEMMA TakenOut ==
    ASSUME NEW a \in Seq(Packets), NEW b \in Seq(Packets), NEW c \in Seq(Packets),
           Once(a \o b \o c), InTurn(a \o b \o c)
    PROVE  /\ Once(a \o c) /\ InTurn(a \o c)
           /\ Numbers(a \o c) = Numbers(a \o b \o c) \ Numbers(b)
  <1>1. /\ a \o b \in Seq(Packets) /\ a \o b \o c \in Seq(Packets)
        /\ a \o c \in Seq(Packets) /\ <<>> \in Seq(Packets) /\ a \o <<>> = a
    OBVIOUS
  <1>2. Embeds(<<>>, b)
    <2>1. DOMAIN <<>> = {} /\ <<>> \in [{} -> DOMAIN b]
      OBVIOUS
    <2> QED  BY <2>1 DEF Embeds
  <1>3. Embeds(a, a \o b)
    BY <1>1, <1>2, Behind
  <1>4. Embeds(a \o c, a \o b \o c)
    BY <1>1, <1>3, Before
  <1>5. Once(a \o c) /\ InTurn(a \o c)
    BY <1>1, <1>4, EmbeddedInTurn
  <1>6. /\ Numbers(a \o b \o c) = Numbers(a) \cup Numbers(b) \cup Numbers(c)
        /\ Numbers(a \o c) = Numbers(a) \cup Numbers(c)
    <2>1. Numbers(a \o b \o c) = Numbers(a \o b) \cup Numbers(c)
      <3> DEFINE ab == a \o b
      <3>1. ab \in Seq(Packets)
        BY <1>1
      <3> HIDE DEF ab
      <3>2. Numbers(ab \o c) = Numbers(ab) \cup Numbers(c)
        BY <3>1, NumbersOfConcat
      <3> QED  BY <3>2 DEF ab
    <2>2. /\ Numbers(a \o b) = Numbers(a) \cup Numbers(b)
          /\ Numbers(a \o c) = Numbers(a) \cup Numbers(c)
      BY NumbersOfConcat
    <2> QED  BY <2>1, <2>2
  <1>7. ASSUME NEW i \in DOMAIN b, NEW x, x \in ToSet(a) \/ x \in ToSet(c), x.n = b[i].n
        PROVE  b[i].n = 0
    <2> DEFINE s == a \o b \o c
    <2>1. /\ Len(a) \in Nat /\ Len(b) \in Nat /\ Len(c) \in Nat
          /\ DOMAIN a = 1 .. Len(a) /\ DOMAIN b = 1 .. Len(b) /\ DOMAIN c = 1 .. Len(c)
          /\ DOMAIN s = 1 .. Len(a) + Len(b) + Len(c)
          /\ \A j \in 1 .. Len(a) : s[j] = a[j]
          /\ \A j \in 1 .. Len(b) : s[Len(a) + j] = b[j]
          /\ \A j \in 1 .. Len(c) : s[Len(a) + Len(b) + j] = c[j]
      OBVIOUS
    <2> HIDE DEF s
    <2>2. Len(a) + i \in DOMAIN s /\ s[Len(a) + i] = b[i]
      BY <2>1
    <2>3. \E j \in DOMAIN s : j # Len(a) + i /\ s[j] = x
      <3>1. CASE x \in ToSet(a)
        <4>1. PICK j \in 1 .. Len(a) : a[j] = x
          BY <2>1, <3>1 DEF ToSet
        <4>2. j \in DOMAIN s /\ j # Len(a) + i /\ s[j] = x
          BY <2>1, <4>1
        <4> QED  BY <4>2
      <3>2. CASE x \in ToSet(c)
        <4>1. PICK j \in 1 .. Len(c) : c[j] = x
          BY <2>1, <3>2 DEF ToSet
        <4>2. /\ Len(a) + Len(b) + j \in DOMAIN s /\ Len(a) + Len(b) + j # Len(a) + i
              /\ s[Len(a) + Len(b) + j] = x
          BY <2>1, <4>1
        <4> QED  BY <4>2
      <3> QED  BY <1>7, <3>1, <3>2
    <2> QED  BY <1>7, <2>2, <2>3 DEF Once, s
  <1>8. ASSUME NEW m \in Numbers(b) PROVE m \notin Numbers(a) /\ m \notin Numbers(c)
    <2>1. m # 0 /\ \E i \in DOMAIN b : b[i].n = m
      BY DEF Numbers, ToSet
    <2>2. \A x : x \in ToSet(a) \/ x \in ToSet(c) => x.n # m
      BY <1>7, <2>1
    <2> QED  BY <2>2 DEF Numbers
  <1> QED  BY <1>5, <1>6, <1>8

\* PopByOpcode: the two parts of the queue are all of it.
LEMMA PlacesFacts ==
    ASSUME NEW T, NEW q \in Seq(T), NEW I \in SUBSET DOMAIN q, NEW at \in InOrder(q, I)
    PROVE  /\ At(q, at) \in Seq(T) /\ Len(At(q, at)) \in 0 .. Len(q)
           /\ DOMAIN at = 1 .. Len(At(q, at)) /\ DOMAIN At(q, at) = 1 .. Len(At(q, at))
           /\ \A k \in 1 .. Len(At(q, at)) : at[k] \in I /\ At(q, at)[k] = q[at[k]]
           /\ \A j, k \in 1 .. Len(At(q, at)) : j < k => at[j] < at[k]
           /\ \A i \in I : \E k \in 1 .. Len(At(q, at)) : at[k] = i
  <1>1. PICK n \in 0 .. Len(q) : at \in [1 .. n -> I]
    BY DEF InOrder
  <1>2. /\ \A j, k \in DOMAIN at : j < k => at[j] < at[k]
        /\ ToSet(at) = I
    BY DEF InOrder
  <1>3. n \in Nat /\ DOMAIN at = 1 .. n /\ Len(q) \in Nat
    BY <1>1
  <1>4. \A i \in I : \E k \in 1 .. n : at[k] = i
    BY <1>2, <1>3 DEF ToSet
  <1>5. \A k \in 1 .. n : at[k] \in I /\ q[at[k]] \in T
    <2>1. \A i \in DOMAIN q : q[i] \in T
      OBVIOUS
    <2> QED  BY <1>1, <2>1
  <1>6. /\ At(q, at) = [k \in 1 .. n |-> q[at[k]]]
        /\ At(q, at) \in Seq(T) /\ Len(At(q, at)) = n
    BY <1>3, <1>5 DEF At
  <1>7. DOMAIN At(q, at) = 1 .. n /\ \A k \in 1 .. n : At(q, at)[k] = q[at[k]]
    BY <1>6
  <1> QED  BY <1>1, <1>2, <1>3, <1>4, <1>5, <1>6, <1>7

LEMMA Parted ==
    ASSUME NEW q \in Seq(Packets),
           NEW taken \in InOrder(q, WardenPlaces(q)),
           NEW left \in InOrder(q, DOMAIN q \ WardenPlaces(q))
    PROVE  /\ Embeds(At(q, taken) \o At(q, left), q)
           /\ Numbers(At(q, taken) \o At(q, left)) = Numbers(q)
  <1> DEFINE W == WardenPlaces(q)
             O == DOMAIN q \ W
             a == At(q, taken)
             b == At(q, left)
             t == a \o b
             f == [i \in DOMAIN t |-> IF i <= Len(a) THEN taken[i] ELSE left[i - Len(a)]]
  <1>w. /\ W \in SUBSET DOMAIN q /\ O \in SUBSET DOMAIN q /\ DOMAIN q \subseteq Int
        /\ \A i \in DOMAIN q : i \in W <=> IsWarden(q[i])
        /\ Len(q) \in Nat
        /\ taken \in InOrder(q, W) /\ left \in InOrder(q, O)
    BY DEF WardenPlaces
  <1> HIDE DEF W, O
  <1>1. /\ a \in Seq(Packets) /\ Len(a) \in Nat
        /\ DOMAIN taken = 1 .. Len(a) /\ DOMAIN a = 1 .. Len(a)
        /\ \A k \in 1 .. Len(a) : taken[k] \in W /\ a[k] = q[taken[k]]
        /\ \A j, k \in 1 .. Len(a) : j < k => taken[j] < taken[k]
        /\ \A i \in W : \E k \in 1 .. Len(a) : taken[k] = i
    BY <1>w, PlacesFacts
  <1>2. /\ b \in Seq(Packets) /\ Len(b) \in Nat
        /\ DOMAIN left = 1 .. Len(b) /\ DOMAIN b = 1 .. Len(b)
        /\ \A k \in 1 .. Len(b) : left[k] \in O /\ b[k] = q[left[k]]
        /\ \A j, k \in 1 .. Len(b) : j < k => left[j] < left[k]
        /\ \A i \in O : \E k \in 1 .. Len(b) : left[k] = i
    BY <1>w, PlacesFacts
  <1>o. \A i \in DOMAIN q : i \in O <=> ~IsWarden(q[i])
    BY <1>w DEF O
  <1> HIDE DEF a, b
  <1>3. /\ DOMAIN t = 1 .. Len(a) + Len(b)
        /\ \A i \in 1 .. Len(a) : i \in DOMAIN t /\ t[i] = a[i]
        /\ \A i \in 1 .. Len(b) : Len(a) + i \in DOMAIN t /\ t[Len(a) + i] = b[i]
        /\ \A i \in DOMAIN t : i \in 1 .. Len(a) \/ \E j \in 1 .. Len(b) : i = Len(a) + j
    <2>1. DOMAIN t = 1 .. Len(a) + Len(b)
      BY <1>1, <1>2
    <2>2. \A i \in 1 .. Len(a) : i \in DOMAIN t /\ t[i] = a[i]
      BY <1>1, <1>2
    <2>3. \A i \in 1 .. Len(b) : Len(a) + i \in DOMAIN t /\ t[Len(a) + i] = b[i]
      BY <1>1, <1>2
    <2>4. \A i \in DOMAIN t : i \in 1 .. Len(a) \/ \E j \in 1 .. Len(b) : i = Len(a) + j
      BY <1>1, <1>2, <2>1, ConcatFacts
    <2> QED  BY <2>1, <2>2, <2>3, <2>4
  <1> HIDE DEF t
  <1>4. \A i \in 1 .. Len(a) : f[i] = taken[i]
    BY <1>3
  <1>5. \A j \in 1 .. Len(b) : f[Len(a) + j] = left[j]
    <2>1. ASSUME NEW j \in 1 .. Len(b) PROVE f[Len(a) + j] = left[j]
      <3>1. ~(Len(a) + j <= Len(a)) /\ Len(a) + j - Len(a) = j
        BY <1>1, <1>2
      <3> QED  BY <1>3, <3>1
    <2> QED  BY <2>1
  <1> HIDE DEF f
  <1>a. \A i \in 1 .. Len(a) : /\ f[i] \in W /\ f[i] \in DOMAIN q /\ f[i] \in Int
                              /\ t[i] = q[f[i]] /\ IsWarden(t[i])
    <2>1. ASSUME NEW i \in 1 .. Len(a)
          PROVE  /\ f[i] \in W /\ f[i] \in DOMAIN q /\ f[i] \in Int
                 /\ t[i] = q[f[i]] /\ IsWarden(t[i])
      <3>1. f[i] = taken[i] /\ taken[i] \in W /\ a[i] = q[taken[i]] /\ t[i] = a[i]
        BY <1>1, <1>3, <1>4
      <3> QED  BY <1>w, <3>1
    <2> QED  BY <2>1
  <1>b. \A k \in 1 .. Len(b) :
           LET i == Len(a) + k IN
           /\ f[i] \in O /\ f[i] \in DOMAIN q /\ f[i] \in Int
           /\ t[i] = q[f[i]] /\ ~IsWarden(t[i])
    <2>1. ASSUME NEW k \in 1 .. Len(b)
          PROVE  LET i == Len(a) + k IN
                 /\ f[i] \in O /\ f[i] \in DOMAIN q /\ f[i] \in Int
                 /\ t[i] = q[f[i]] /\ ~IsWarden(t[i])
      <3>1. /\ f[Len(a) + k] = left[k] /\ left[k] \in O
            /\ b[k] = q[left[k]] /\ t[Len(a) + k] = b[k]
        BY <1>2, <1>3, <1>5
      <3> QED  BY <1>w, <1>o, <3>1
    <2> QED  BY <2>1
  <1>6. \A i \in DOMAIN t : f[i] \in DOMAIN q /\ t[i] = q[f[i]] /\ f[i] \in Int
    BY <1>3, <1>a, <1>b
  <1>7. ASSUME NEW i \in DOMAIN t, NEW j \in DOMAIN t
        PROVE  /\ f[i] = f[j] => i = j
               /\ i < j /\ (IsWarden(t[i]) <=> IsWarden(t[j])) => f[i] < f[j]
    <2> HIDE DEF IsWarden
    <2>1. CASE i \in 1 .. Len(a) /\ j \in 1 .. Len(a)
      <3>1. f[i] = taken[i] /\ f[j] = taken[j] /\ i \in Int /\ j \in Int
        BY <1>4, <2>1
      <3>2. (i < j => f[i] < f[j]) /\ (j < i => f[j] < f[i])
        BY <1>1, <2>1, <3>1
      <3>3. f[i] \in Int /\ f[j] \in Int
        BY <1>6
      <3> QED  BY <3>1, <3>2, <3>3
    <2>2. CASE i \in 1 .. Len(a) /\ \E k \in 1 .. Len(b) : j = Len(a) + k
      <3>1. f[i] \in W /\ IsWarden(t[i]) /\ f[j] \in O /\ ~IsWarden(t[j])
        BY <1>a, <1>b, <2>2
      <3> QED  BY <3>1 DEF O
    <2>3. CASE j \in 1 .. Len(a) /\ \E k \in 1 .. Len(b) : i = Len(a) + k
      <3>1. f[j] \in W /\ IsWarden(t[j]) /\ f[i] \in O /\ ~IsWarden(t[i])
        BY <1>a, <1>b, <2>3
      <3> QED  BY <3>1 DEF O
    <2>4. CASE /\ \E k \in 1 .. Len(b) : i = Len(a) + k
               /\ \E k \in 1 .. Len(b) : j = Len(a) + k
      <3>1. PICK k \in 1 .. Len(b) : i = Len(a) + k
        BY <2>4
      <3>2. PICK l \in 1 .. Len(b) : j = Len(a) + l
        BY <2>4
      <3>3. f[i] = left[k] /\ f[j] = left[l] /\ k \in Int /\ l \in Int
        BY <1>5, <3>1, <3>2
      <3>4. (k < l => left[k] < left[l]) /\ (l < k => left[l] < left[k])
        BY <1>2
      <3>5. left[k] \in Int /\ left[l] \in Int
        BY <1>6, <3>3
      <3>6. left[k] = left[l] => k = l
        BY <3>3, <3>4, <3>5
      <3>7. Len(a) + k < Len(a) + l => k < l
        BY <1>1, <3>3
      <3> QED  BY <3>1, <3>2, <3>3, <3>4, <3>6, <3>7
    <2> QED  BY <1>3, <2>1, <2>2, <2>3, <2>4
  <1>8. Embeds(t, q)
    <2>1. f \in [DOMAIN t -> DOMAIN q]
      BY <1>6 DEF f
    <2> QED  BY <1>6, <1>7, <2>1 DEF Embeds
  <1>9. \A x : x \in ToSet(t) <=> x \in ToSet(q)
    <2>1. \A x : x \in ToSet(t) => x \in ToSet(q)
      BY <1>6 DEF ToSet
    <2>2. ASSUME NEW i \in DOMAIN q PROVE q[i] \in ToSet(t)
      <3>1. CASE i \in W
        <4>1. PICK k \in 1 .. Len(a) : taken[k] = i
          BY <1>1, <3>1
        <4>2. k \in DOMAIN t /\ f[k] = i
          BY <1>3, <1>4, <4>1
        <4> QED  BY <1>6, <4>2 DEF ToSet
      <3>2. CASE i \in O
        <4>1. PICK k \in 1 .. Len(b) : left[k] = i
          BY <1>2, <3>2
        <4>2. Len(a) + k \in DOMAIN t /\ f[Len(a) + k] = i
          BY <1>3, <1>5, <4>1
        <4> QED  BY <1>6, <4>2 DEF ToSet
      <3> QED  BY <3>1, <3>2 DEF O
    <2> QED  BY <2>1, <2>2 DEF ToSet
  <1> QED  BY <1>8, <1>9 DEF t, a, b, Numbers

-----------------------------------------------------------------------------
(* Where packets are, and what is known of them.                           *)

\* What the server can have sent so far: a number, or 0 on an answer.
Sent == {p \in Packets : p.n <= sent /\ (p.n = 0 <=> p.kind \in Answers)}

Fits ==
    /\ handled \in Seq(Sent) /\ queue \in Seq(Sent) /\ hold \in Seq(Sent)
    /\ deferred \in Seq(Sent) /\ wire \in Seq(Sent)
    /\ Len(queue) <= Capacity
    /\ sent \in 0 .. MaxSent
    /\ past \subseteq 1 .. sent /\ lost \subseteq 1 .. sent

\* The world's packets and the session's deferred ones are never there together, and
\* the thread holds one only between its read and its push.
Apart ==
    /\ InWorld => deferred = <<>>
    /\ ~InWorld => handled = <<>> /\ queue = <<>>
    /\ recv # "push" => hold = <<>>
    /\ recv = "push" => Len(hold) = 1

\* What TypeOK says of the rest.
Flags ==
    /\ connected \in BOOLEAN /\ closed \in BOOLEAN /\ playing \in BOOLEAN
    /\ opOk \in BOOLEAN /\ logout \in BOOLEAN /\ stop \in BOOLEAN /\ gone \in BOOLEAN

Labels ==
    /\ phase \in {"none", "select", "entering", "world"}
    /\ lock \in {"free", "op", "main"}
    /\ asked \in Seq({"list", "enter"})
    /\ mode \in {"login", "select", "entering", "loading", "world"}
    /\ main \in {"pump", "poll", "flow", "joinOp", "load", "tick", "check", "joinRecv"}
    /\ recv \in {"off", "loop", "read", "push", "ended"}
    /\ starts \in 0 .. MaxStarts /\ connects \in 0 .. MaxConnects

Stream == Flags /\ Labels /\ Fits /\ Apart /\ WorldSeesAll

LEMMA Bounds == MaxSent \in Nat /\ MaxStarts \in Nat /\ MaxConnects \in Nat /\ Capacity \in Nat
BY BoundAssumption

LEMMA SentFacts ==
    ASSUME sent \in 0 .. MaxSent
    PROVE  /\ Sent \subseteq Packets
           /\ \A p \in Sent : p.n \in 0 .. sent /\ (p.n = 0 <=> p.kind \in Answers)
           /\ \A s \in Seq(Sent) : s \in Seq(Packets) /\ Numbers(s) \subseteq 1 .. sent
  <1>1. \A p \in Sent : p \in Packets /\ p.n \in 0 .. sent /\ (p.n = 0 <=> p.kind \in Answers)
    BY Bounds DEF Sent, Packets
  <1>2. ASSUME NEW s \in Seq(Sent) PROVE s \in Seq(Packets) /\ Numbers(s) \subseteq 1 .. sent
    <2>1. s \in Seq(Packets)
      <3> HIDE DEF Sent, Packets
      <3>1. \A i \in 1 .. Len(s) : s[i] \in Packets
        BY <1>1
      <3> QED  BY <3>1
    <2>2. ASSUME NEW m \in Numbers(s) PROVE m \in 1 .. sent
      <3>1. PICK i \in DOMAIN s : s[i].n = m /\ m # 0
        BY DEF Numbers, ToSet
      <3>2. s[i].n \in 0 .. sent
        BY <1>1
      <3> QED  BY <3>1, <3>2
    <2> QED  BY <2>1, <2>2
  <1> QED  BY <1>1, <1>2

LEMMA LineGrows ==
    ASSUME NEW T, handled \in Seq(T), queue \in Seq(T), hold \in Seq(T),
           deferred \in Seq(T), wire \in Seq(T), NEW p \in T,
           wire' = Append(wire, p), UNCHANGED <<handled, queue, hold, deferred>>
    PROVE  Line' = Append(Line, p)
  <1> DEFINE front == handled \o queue \o hold \o deferred
  <1>1. front \in Seq(T)
    OBVIOUS
  <1>2. Line = front \o wire /\ Line' = front \o Append(wire, p)
    BY DEF Line
  <1> HIDE DEF front
  <1>3. front \o Append(wire, p) = Append(front \o wire, p)
    BY <1>1
  <1> QED  BY <1>2, <1>3

\* The line as a whole, and its parts.
LEMMA LineFacts ==
    ASSUME Fits
    PROVE  /\ Line \in Seq(Sent) /\ Line \in Seq(Packets)
           /\ handled \in Seq(Packets) /\ queue \in Seq(Packets) /\ hold \in Seq(Packets)
           /\ deferred \in Seq(Packets) /\ wire \in Seq(Packets)
  <1>1. Line \in Seq(Sent)
    BY DEF Fits, Line
  <1> QED  BY <1>1, SentFacts DEF Fits

\* Steps that move packets along the line, if any.
LEMMA Moved ==
    ASSUME WorldSeesAll, Line' = Line, UNCHANGED <<sent, past, lost>>, connected' => connected
    PROVE  WorldSeesAll'
BY DEF WorldSeesAll

\* Steps that take some out: they are accounted for.
LEMMA Accounted ==
    ASSUME Fits, WorldSeesAll, NEW a \in Seq(Packets), NEW b \in Seq(Packets), NEW c \in Seq(Packets),
           Line = a \o b \o c, Line' = a \o c, sent' = sent, connected' => connected,
           past' \cup lost' = past \cup lost \cup Numbers(b)
    PROVE  WorldSeesAll'
  <1>1. CASE connected'
    <2>1. /\ Numbers(Line) = (1 .. sent) \ (past \cup lost)
          /\ Once(Line) /\ InTurn(Line)
      BY <1>1 DEF WorldSeesAll
    <2>2. /\ Once(a \o c) /\ InTurn(a \o c)
          /\ Numbers(a \o c) = Numbers(Line) \ Numbers(b)
      BY <2>1, TakenOut
    <2>3. (Numbers(Line))' = Numbers(a \o c) /\ Once(Line)' /\ InTurn(Line)'
      BY <2>2 DEF Numbers, Once, InTurn
    <2>4. (Numbers(Line))' = (1 .. sent') \ (past' \cup lost')
      BY <2>1, <2>2, <2>3
    <2> QED  BY <2>3, <2>4 DEF WorldSeesAll
  <1>2. CASE ~connected'
    BY <1>2 DEF WorldSeesAll
  <1> QED  BY <1>1, <1>2

\* Steps that add one at the end: an answer, or the next number.
LEMMA Added ==
    ASSUME Fits, WorldSeesAll, NEW p \in Packets,
           \/ p.n = 0 /\ sent' = sent
           \/ p.n = sent + 1 /\ sent' = sent + 1,
           Line' = Append(Line, p), UNCHANGED <<connected, past, lost>>
    PROVE  WorldSeesAll'
  <1>1. CASE connected
    <2> DEFINE s == Line
               u == Append(Line, p)
    <2>1. /\ Numbers(s) = (1 .. sent) \ (past \cup lost)
          /\ Once(s) /\ InTurn(s)
      BY <1>1 DEF WorldSeesAll
    <2>2. s \in Seq(Packets) /\ s \in Seq(Sent) /\ sent \in 0 .. MaxSent
      BY LineFacts DEF Fits
    <2> HIDE DEF s
    <2>3. /\ Len(s) \in Nat /\ DOMAIN s = 1 .. Len(s) /\ DOMAIN u = 1 .. Len(s) + 1
          /\ \A i \in 1 .. Len(s) : u[i] = s[i]
          /\ u[Len(s) + 1] = p
      BY <2>2 DEF s
    <2> HIDE DEF u
    <2>4. \A i \in 1 .. Len(s) : s[i].n \in 0 .. sent
      BY <2>2, SentFacts
    <2>5. p.n \in Nat /\ (p.n = 0 \/ p.n = sent + 1) /\ sent \in Nat
      BY <2>2, Bounds
    <2>6. \A i \in DOMAIN u : i \in 1 .. Len(s) \/ i = Len(s) + 1
      BY <2>3
    <2>7. Once(u)
      BY <2>1, <2>3, <2>4, <2>5, <2>6 DEF Once
    <2>8. InTurn(u)
      BY <2>1, <2>3, <2>4, <2>5, <2>6 DEF InTurn
    <2>9. Numbers(u) = Numbers(s) \cup ({p.n} \ {0})
      <3>1. \A x : x \in ToSet(u) <=> x \in ToSet(s) \/ x = p
        BY <2>3, <2>6 DEF ToSet
      <3> QED  BY <3>1 DEF Numbers
    <2>10. (Numbers(Line))' = Numbers(u) /\ Once(Line)' /\ InTurn(Line)'
      BY <2>7, <2>8 DEF Numbers, Once, InTurn, u
    <2>11. past \subseteq 1 .. sent /\ lost \subseteq 1 .. sent
      BY DEF Fits
    <2>12. Numbers(u) = (1 .. sent') \ (past' \cup lost')
      <3>1. CASE p.n = 0 /\ sent' = sent
        BY <2>1, <2>9, <3>1
      <3>2. CASE p.n = sent + 1 /\ sent' = sent + 1
        <4>1. 1 .. sent' = (1 .. sent) \cup {sent + 1} /\ sent + 1 \notin 1 .. sent
          BY <2>5, <3>2
        <4>2. sent + 1 # 0
          BY <2>5
        <4> QED  BY <2>1, <2>9, <2>11, <3>2, <4>1, <4>2
      <3> QED  BY <3>1, <3>2
    <2> QED  BY <2>10, <2>12 DEF WorldSeesAll
  <1>2. CASE ~connected
    BY <1>2 DEF WorldSeesAll
  <1> QED  BY <1>1, <1>2

\* Steps that leave the packets where they are.
LEMMA Still ==
    ASSUME Fits, WorldSeesAll, connected' => connected,
           UNCHANGED <<handled, queue, hold, deferred, wire, sent, past, lost>>
    PROVE  Fits' /\ WorldSeesAll'
  <1>1. Sent' = Sent
    BY DEF Sent
  <1>2. Line' = Line
    BY DEF Line
  <1> QED  BY <1>1, <1>2, Moved DEF Fits

\* Disconnect: what the session had is gone, and nothing is said of it.
LEMMA Disconnected ==
    ASSUME Fits, ~connected', UNCHANGED <<hold, sent>>, deferred' = <<>>, wire' = <<>>,
           handled' \in {handled, <<>>}, queue' \in {queue, <<>>},
           past' \cup lost' \subseteq past \cup lost \cup Numbers(handled \o queue)
    PROVE  Fits' /\ WorldSeesAll'
  <1>1. Sent' = Sent /\ <<>> \in Seq(Sent) /\ Len(<<>>) = 0
    BY DEF Sent
  <1>2. Numbers(handled \o queue) \subseteq 1 .. sent
    <2>1. handled \o queue \in Seq(Sent)
      BY DEF Fits
    <2> QED  BY <2>1, SentFacts DEF Fits
  <1>3. past' \subseteq 1 .. sent /\ lost' \subseteq 1 .. sent
    BY <1>2 DEF Fits
  <1>4. handled' \in Seq(Sent) /\ queue' \in Seq(Sent) /\ Len(queue') <= Capacity
    <2>1. handled' \in Seq(Sent)
      BY <1>1 DEF Fits
    <2>2. CASE queue' = queue
      BY <2>1, <2>2 DEF Fits
    <2>3. CASE queue' = <<>>
      BY <1>1, <2>1, <2>3, Bounds
    <2> QED  BY <2>2, <2>3
  <1>5. Fits'
    BY <1>1, <1>3, <1>4 DEF Fits
  <1> QED  BY <1>5 DEF WorldSeesAll

\* PacketQueue::Push: what does not fit goes at the front.
LEMMA PushFacts ==
    ASSUME Fits, NEW s \in Seq(Sent), Push(s)
    PROVE  \E over \in Seq(Sent) :
              /\ queue' \in Seq(Sent) /\ Len(queue') <= Capacity
              /\ queue \o s = over \o queue'
              /\ lost' = lost \cup Numbers(over)
  <1> DEFINE all == queue \o s
             cut == Len(all) - Capacity
  <1>1. all \in Seq(Sent) /\ Len(all) \in Nat /\ Capacity \in Nat
    BY Bounds DEF Fits
  <1>2. /\ queue' = IF Len(all) > Capacity THEN Bounded(all) ELSE all
        /\ lost' = lost \cup Numbers(Overflow(all))
        /\ queue \o s = all
    BY DEF Push
  <1> HIDE DEF all
  <1>3. CASE Len(all) > Capacity
    <2>1. cut \in 1 .. Len(all)
      BY <1>1, <1>3
    <2> HIDE DEF cut
    <2>2. /\ SubSeq(all, 1, cut) \in Seq(Sent) /\ SubSeq(all, cut + 1, Len(all)) \in Seq(Sent)
          /\ all = SubSeq(all, 1, cut) \o SubSeq(all, cut + 1, Len(all))
          /\ Len(SubSeq(all, cut + 1, Len(all))) = Len(all) - cut
      BY <1>1, <2>1
    <2>3. Len(all) - cut = Capacity
      BY <1>1 DEF cut
    <2>4. queue' = SubSeq(all, cut + 1, Len(all)) /\ Overflow(all) = SubSeq(all, 1, cut)
      BY <1>2, <1>3 DEF Bounded, Overflow, cut
    <2>5. queue' \in Seq(Sent) /\ Len(queue') <= Capacity
      BY <1>1, <2>2, <2>3, <2>4
    <2>6. all = SubSeq(all, 1, cut) \o queue' /\ lost' = lost \cup Numbers(SubSeq(all, 1, cut))
      BY <1>2, <2>2, <2>4
    <2> QED  BY <1>2, <2>2, <2>5, <2>6
  <1>4. CASE ~(Len(all) > Capacity)
    <2>1. queue' = all /\ Overflow(all) = <<>> /\ Len(all) <= Capacity
      BY <1>1, <1>2, <1>4 DEF Overflow
    <2>2. <<>> \in Seq(Sent) /\ <<>> \o all = all
      BY <1>1
    <2> QED  BY <1>1, <1>2, <2>1, <2>2
  <1> QED  BY <1>3, <1>4
-----------------------------------------------------------------------------
(* The steps, and what the packets are after them.                         *)

LEMMA ServerKeeps ==
    ASSUME IInv, Stream, (\E kind \in Unasked : ServerSends(kind)) \/ ServerAnswers \/ ServerCloses
    PROVE  Stream'
  <1> USE DEF Stream, linkVars, streamVars, serverVars, opVars, recvVars, worldVars
  <1>1. ASSUME NEW kind \in Unasked, ServerSends(kind) PROVE Stream'
    <2> DEFINE p == Packet(kind, sent + 1)
    <2> USE <1>1 DEF ServerSends
    <2>1. sent' = sent + 1 /\ sent' \in 0 .. MaxSent /\ sent \in 0 .. MaxSent /\ p \in Packets
      BY Bounds DEF Fits, Packet, Packets
    <2>2. p \in Sent' /\ Sent \subseteq Sent'
      BY <2>1 DEF Sent, Packet, Packets, Unasked, Answers
    <2>3. \A s : s \in Seq(Sent) => s \in Seq(Sent')
      <3> HIDE DEF Sent
      <3> QED  BY <2>2
    <2>4. Append(wire, p) \in Seq(Sent')
      <3> HIDE DEF Sent, p
      <3> QED  BY <2>2, <2>3 DEF Fits
    <2>5. Fits'
      BY <2>1, <2>3, <2>4 DEF Fits
    <2>6. Line' = Append(Line, p)
      <3> HIDE DEF p
      <3>1. wire' = Append(wire, p)
        BY DEF p
      <3> QED  BY <2>1, <3>1, LineFacts, LineGrows
    <2>7. WorldSeesAll'
      BY <2>1, <2>6, Added DEF Packet
    <2>8. Labels'
      BY DEF Labels
    <2>f. Flags'
      BY DEF Flags
    <2>9. Apart'
      BY DEF Apart, InWorld
    <2> QED  BY <2>5, <2>7, <2>8, <2>9, <2>f
  <1>2. CASE ServerAnswers
    <2> USE <1>2 DEF ServerAnswers
    <2>1. PICK kind \in Answers : wire' = Append(wire, Packet(kind, 0))
      BY DEF Answers
    <2> DEFINE p == Packet(kind, 0)
    <2>2. p \in Packets /\ p \in Sent /\ p.n = 0
      BY Bounds DEF Fits, Packet, Packets, Sent, Answers
    <2>3. Sent' = Sent
      BY DEF Sent
    <2> HIDE DEF p
    <2>4. Append(wire, p) \in Seq(Sent) /\ wire' = Append(wire, p)
      BY <2>1, <2>2 DEF Fits, p
    <2>5. Fits'
      BY <2>3, <2>4 DEF Fits
    <2>6. Line' = Append(Line, p)
      BY <2>2, <2>4, LineFacts, LineGrows
    <2>7. WorldSeesAll'
      BY <2>2, <2>6, Added
    <2>8. Labels'
      <3>1. asked' \in Seq({"list", "enter"})
        BY DEF Labels
      <3> QED  BY <3>1 DEF Labels
    <2>f. Flags'
      BY DEF Flags
    <2>9. Apart'
      BY DEF Apart, InWorld
    <2> QED  BY <2>5, <2>7, <2>8, <2>9, <2>f
  <1>3. CASE ServerCloses
    <2> USE <1>3 DEF ServerCloses
    <2>1. Fits' /\ WorldSeesAll'
      BY Still
    <2>2. Flags'
      BY DEF Flags
    <2>3. Labels'
      BY DEF Labels
    <2>4. Apart'
      BY DEF Apart, InWorld
    <2> QED  BY <2>1, <2>2, <2>3, <2>4
  <1> QED  BY <1>1, <1>2, <1>3

\* A packet taken from the front of one sequence, and put at the end of the one before.
LEMMA Passed ==
    ASSUME NEW T, NEW a \in Seq(T), NEW b \in Seq(T), b # <<>>
    PROVE  /\ Head(b) \in T /\ <<Head(b)>> \in Seq(T)
           /\ Append(a, Head(b)) \in Seq(T) /\ Tail(b) \in Seq(T)
           /\ Append(a, Head(b)) \o Tail(b) = a \o b
           /\ a \o b = a \o <<Head(b)>> \o Tail(b)
           /\ Len(Tail(b)) = Len(b) - 1
OBVIOUS

LEMMA NumberOf ==
    ASSUME NEW x
    PROVE  Numbers(<<x>>) = {x.n} \ {0}
  <1>1. ToSet(<<x>>) = {x}
    BY DEF ToSet
  <1> QED  BY <1>1 DEF Numbers

\* At the character screens the line is the session's own.
LEMMA GlueLine ==
    ASSUME Fits, handled = <<>>, queue = <<>>, hold = <<>>
    PROVE  Line = deferred \o wire
BY DEF Line, Fits

LEMMA GlueLineNext ==
    ASSUME handled' = <<>>, queue' = <<>>, hold' = <<>>,
           NEW T, deferred' \in Seq(T), wire' \in Seq(T)
    PROVE  Line' = deferred' \o wire'
BY DEF Line

LEMMA NotInWorld ==
    ASSUME ScreenTellsThreads, Apart, ~InWorld
    PROVE  handled = <<>> /\ queue = <<>> /\ hold = <<>>
BY DEF ScreenTellsThreads, Apart

\* The next packet of a session read at the character screens: deferred, or consumed.
LEMMA Deferred ==
    ASSUME Fits, Apart, WorldSeesAll, ScreenTellsThreads, ~InWorld, wire # <<>>,
           wire' = Tail(wire), deferred' = Append(deferred, Head(wire)),
           UNCHANGED <<handled, queue, hold, connected, sent, past, lost>>
    PROVE  Fits' /\ WorldSeesAll'
  <1>1. handled = <<>> /\ queue = <<>> /\ hold = <<>>
    BY NotInWorld
  <1>2. Sent' = Sent
    BY DEF Sent
  <1>3. deferred' \in Seq(Sent) /\ wire' \in Seq(Sent) /\ deferred' \o wire' = deferred \o wire
    <2> HIDE DEF Sent
    <2> QED  BY Passed DEF Fits
  <1>4. Fits'
    BY <1>2, <1>3 DEF Fits
  <1>5. Line' = Line
    BY <1>1, <1>3, GlueLine, GlueLineNext
  <1> QED  BY <1>4, <1>5, Moved

LEMMA Consumed ==
    ASSUME Fits, Apart, WorldSeesAll, ScreenTellsThreads, ~InWorld, wire # <<>>,
           wire' = Tail(wire), past' = past \cup ({Head(wire).n} \ {0}),
           UNCHANGED <<handled, queue, hold, deferred, connected, sent, lost>>
    PROVE  Fits' /\ WorldSeesAll'
  <1>1. handled = <<>> /\ queue = <<>> /\ hold = <<>>
    BY NotInWorld
  <1>2. Sent' = Sent
    BY DEF Sent
  <1> DEFINE p == Head(wire)
  <1>3. /\ p \in Sent /\ <<p>> \in Seq(Sent) /\ wire' \in Seq(Sent) /\ deferred \in Seq(Sent)
        /\ deferred \o wire = deferred \o <<p>> \o wire'
    <2>1. wire \in Seq(Sent) /\ wire # <<>> /\ deferred \in Seq(Sent)
      BY DEF Fits
    <2> HIDE DEF Sent
    <2> QED  BY <2>1, Passed
  <1>4. p.n \in 0 .. sent
    BY <1>3, SentFacts DEF Fits
  <1>5. Fits'
    <2>1. {p.n} \ {0} \subseteq 1 .. sent
      BY <1>4
    <2>2. past' \subseteq 1 .. sent
      BY <2>1 DEF Fits
    <2> QED  BY <1>2, <1>3, <2>2 DEF Fits
  <1>6. Line = deferred \o <<p>> \o wire' /\ Line' = deferred \o wire'
    BY <1>1, <1>3, GlueLine, GlueLineNext
  <1>7. Numbers(<<p>>) = {p.n} \ {0}
    BY NumberOf
  <1>8. past' \cup lost' = past \cup lost \cup Numbers(<<p>>)
    BY <1>7
  <1>9. deferred \in Seq(Packets) /\ <<p>> \in Seq(Packets) /\ wire' \in Seq(Packets)
    BY <1>3, SentFacts DEF Fits
  <1> QED  BY <1>5, <1>6, <1>8, <1>9, Accounted

LEMMA OperationKeeps ==
    ASSUME IInv, Stream, OpStep
    PROVE  Stream'
  <1> USE DEF Stream, linkVars, streamVars, serverVars, opVars, recvVars, worldVars, OpUnchanged
  <1>1. CASE OpLocks
    <2> USE <1>1 DEF OpLocks
    <2>1. Fits' /\ WorldSeesAll'
      BY Still
    <2>2. Flags'
      BY DEF Flags
    <2>3. Labels'
      BY DEF Labels
    <2>4. Apart'
      BY DEF Apart, InWorld
    <2> QED  BY <2>1, <2>2, <2>3, <2>4
  <1>2. CASE OpSends
    <2> USE <1>2 DEF OpSends, Drop
    <2>1. Fits' /\ WorldSeesAll'
      BY Still
    <2>2. op \in {"list", "enter"}
      BY DEF IInv, ScreenTellsThreads, Types
    <2>3. asked' \in Seq({"list", "enter"})
      BY <2>2 DEF Labels
    <2>4. Labels'
      BY <2>3 DEF Labels
    <2>f. Flags'
      BY DEF Flags
    <2>5. Apart'
      BY DEF Apart, InWorld
    <2> QED  BY <2>1, <2>4, <2>5, <2>f
  <1>3. CASE OpReceives
    <2> USE <1>3 DEF OpReceives
    <2>1. ~InWorld /\ op \in {"list", "enter"}
      BY DEF IInv, ScreenTellsThreads, Types, InWorld
    <2>u. /\ wire # <<>> /\ wire' = Tail(wire) /\ ScreenTellsThreads
          /\ UNCHANGED <<handled, queue, hold, connected, sent, past, lost>>
      BY DEF IInv
    <2>2. ASSUME Expected(Head(wire)) PROVE Fits' /\ WorldSeesAll'
      <3>1. Head(wire) \in Sent
        BY Passed DEF Fits
      <3>2. Head(wire).n = 0
        BY <2>1, <2>2, <3>1 DEF Sent, Expected, Answers
      <3>3. past' = past \cup ({Head(wire).n} \ {0})
        BY <3>2
      <3> QED  BY <2>1, <2>2, <2>u, <3>3, Consumed
    <2>3. ASSUME ~Expected(Head(wire)) PROVE Fits' /\ WorldSeesAll'
      BY <2>1, <2>3, <2>u, Deferred
    <2>4. Fits' /\ WorldSeesAll'
      BY <2>2, <2>3
    <2>5. Labels'
      BY DEF Labels
    <2>f. Flags'
      BY DEF Flags
    <2>6. Apart'
      BY <2>1 DEF Apart, InWorld
    <2> QED  BY <2>4, <2>5, <2>6, <2>f
  <1>4. CASE OpGivesUp
    <2> USE <1>4 DEF OpGivesUp, Drop
    <2>1. Fits' /\ WorldSeesAll'
      BY Still
    <2>2. Flags'
      BY DEF Flags
    <2>3. Labels'
      BY DEF Labels
    <2>4. Apart'
      BY DEF Apart, InWorld
    <2> QED  BY <2>1, <2>2, <2>3, <2>4
  <1>5. CASE OpFinishes
    <2> USE <1>5 DEF OpFinishes, RestoreCharacterSelect
    <2>1. Fits' /\ WorldSeesAll'
      BY Still
    <2>2. Flags'
      BY DEF Flags
    <2>3. Labels'
      BY DEF Labels
    <2>4. Apart'
      BY DEF Apart, InWorld
    <2> QED  BY <2>1, <2>2, <2>3, <2>4
  <1> QED  BY <1>1, <1>2, <1>3, <1>4, <1>5 DEF OpStep

LEMMA PollKeeps ==
    ASSUME IInv, Stream, \/ HeartbeatFails \/ PollStarts \/ PollRefused
                         \/ PollTakesDeferred \/ PollReads \/ PollFindsNothing
    PROVE  Stream'
  <1> USE DEF Stream, linkVars, streamVars, serverVars, opVars, recvVars, worldVars,
              MainUnchanged, PollEnds, Drop
  <1>1. CASE HeartbeatFails
    <2> USE <1>1 DEF HeartbeatFails
    <2>1. Fits' /\ WorldSeesAll'
      BY Still
    <2>2. Flags'
      BY DEF Flags
    <2>3. Labels'
      BY DEF Labels
    <2>4. Apart'
      BY DEF Apart, InWorld
    <2> QED  BY <2>1, <2>2, <2>3, <2>4
  <1>2. CASE PollStarts
    <2> USE <1>2 DEF PollStarts
    <2>1. Fits' /\ WorldSeesAll'
      BY Still
    <2>2. Flags'
      BY DEF Flags
    <2>3. Labels'
      BY DEF Labels
    <2>4. Apart'
      BY DEF Apart, InWorld
    <2> QED  BY <2>1, <2>2, <2>3, <2>4
  <1>3. CASE PollRefused
    <2> USE <1>3 DEF PollRefused
    <2>1. Fits' /\ WorldSeesAll'
      BY Still
    <2>2. Flags'
      BY DEF Flags
    <2>3. Labels'
      BY DEF Labels
    <2>4. Apart'
      BY DEF Apart, InWorld
    <2> QED  BY <2>1, <2>2, <2>3, <2>4
  <1>4. CASE PollTakesDeferred
    <2> USE <1>4
    <2>1. PICK k \in DOMAIN deferred :
            /\ IsSplit(deferred[k])
            /\ deferred' = RemoveAt(deferred, k)
            /\ past' = past \cup {deferred[k].n}
      BY DEF PollTakesDeferred
    <2>2. /\ main = "poll" /\ main' = "pump" /\ lock' = "free"
          /\ UNCHANGED <<connected, phase, wire, closed, asked, playing, sent, op, opPc, opOk,
                         recv, stop, gone, hold, queue, logout, handled, lost, mode, target,
                         starts, connects>>
      BY DEF PollTakesDeferred
    <2>3. ~InWorld /\ ScreenTellsThreads
      BY <2>2 DEF IInv, ScreenTellsThreads
    <2>4. handled = <<>> /\ queue = <<>> /\ hold = <<>>
      BY <2>3, NotInWorld
    <2> DEFINE p == deferred[k]
               a == SubSeq(deferred, 1, k - 1)
               d == SubSeq(deferred, k + 1, Len(deferred))
    <2>5. deferred \in Seq(Sent) /\ wire \in Seq(Sent) /\ sent \in 0 .. MaxSent
      BY DEF Fits
    <2>6. p \in Sent /\ p.n # 0 /\ p.n \in 1 .. sent
      <3>1. p \in Sent
        BY <2>5
      <3> QED  BY <2>1, <2>5, <3>1, SentFacts DEF IsSplit, Answers
    <2>7. /\ a \in Seq(Sent) /\ d \in Seq(Sent) /\ <<p>> \in Seq(Sent) /\ d \o wire \in Seq(Sent)
          /\ deferred = a \o <<p>> \o d
          /\ deferred \o wire = a \o <<p>> \o (d \o wire)
          /\ (a \o d) \o wire = a \o (d \o wire)
          /\ a \o d \in Seq(Sent)
      <3> HIDE DEF Sent
      <3>1. /\ a \in Seq(Sent) /\ d \in Seq(Sent) /\ <<p>> \in Seq(Sent)
            /\ deferred = a \o <<p>> \o d
        BY <2>5, SplitAt
      <3> HIDE DEF a, d, p
      <3>2. /\ \A x, y \in Seq(Sent) : x \o y \in Seq(Sent)
            /\ \A x \in Seq(Sent) : x \o d \o wire = x \o (d \o wire)
        BY <2>5, <3>1, Assoc
      <3>3. a \o <<p>> \in Seq(Sent) /\ d \o wire \in Seq(Sent) /\ a \o d \in Seq(Sent)
        BY <2>5, <3>1, <3>2, Zenon
      <3> DEFINE ap == a \o <<p>>
      <3>4. ap \in Seq(Sent)
        BY <3>3
      <3> HIDE DEF ap
      <3>5. ap \o d \o wire = ap \o (d \o wire) /\ a \o d \o wire = a \o (d \o wire)
        BY <3>1, <3>2, <3>4, Zenon
      <3> QED  BY <3>1, <3>3, <3>5, Zenon DEF ap
    <2>8. deferred' = a \o d
      BY <2>1 DEF RemoveAt
    <2>9. Sent' = Sent
      BY <2>2 DEF Sent
    <2> HIDE DEF a, d
    <2>10. Line = a \o <<p>> \o (d \o wire) /\ Line' = a \o (d \o wire)
      BY <2>2, <2>4, <2>5, <2>7, <2>8, GlueLine, GlueLineNext
    <2>11. Numbers(<<p>>) = {p.n}
      BY <2>6, NumberOf
    <2>12. WorldSeesAll'
      <3>1. a \in Seq(Packets) /\ <<p>> \in Seq(Packets) /\ d \o wire \in Seq(Packets)
        BY <2>5, <2>7, SentFacts
      <3>2. past' \cup lost' = past \cup lost \cup Numbers(<<p>>)
        BY <2>1, <2>2, <2>11
      <3> QED  BY <2>2, <2>10, <3>1, <3>2, Accounted
    <2>13. Fits'
      <3>1. past' \subseteq 1 .. sent
        BY <2>1, <2>6 DEF Fits
      <3>2. deferred' \in Seq(Sent)
        BY <2>7, <2>8
      <3> QED  BY <2>2, <2>9, <3>1, <3>2 DEF Fits
    <2>14. Flags'
      BY <2>2 DEF Flags
    <2>15. Labels'
      BY <2>2 DEF Labels
    <2>16. Apart'
      BY <2>2, <2>3 DEF Apart, InWorld
    <2> QED  BY <2>12, <2>13, <2>14, <2>15, <2>16
  <1>5. CASE PollReads
    <2> USE <1>5 DEF PollReads
    <2>1. ~InWorld /\ ScreenTellsThreads
      BY DEF IInv, ScreenTellsThreads
    <2>2. /\ wire # <<>> /\ wire' = Tail(wire)
          /\ UNCHANGED <<handled, queue, hold, connected, sent, lost>>
      OBVIOUS
    <2>3. ASSUME IsSplit(Head(wire)) PROVE Fits' /\ WorldSeesAll'
      <3>1. Head(wire) \in Sent
        BY Passed DEF Fits
      <3>2. Head(wire).n # 0
        BY <2>3, <3>1, SentFacts DEF Fits, IsSplit, Answers
      <3>3. past' = past \cup ({Head(wire).n} \ {0}) /\ deferred' = deferred
        BY <2>3, <3>2
      <3> QED  BY <2>1, <2>2, <3>3, Consumed
    <2>4. ASSUME ~IsSplit(Head(wire)) PROVE Fits' /\ WorldSeesAll'
      <3>1. past' = past /\ deferred' = Append(deferred, Head(wire))
        BY <2>4
      <3> QED  BY <2>1, <2>2, <3>1, Deferred
    <2>5. Flags'
      BY DEF Flags
    <2>6. Labels'
      BY DEF Labels
    <2>7. Apart'
      BY <2>1 DEF Apart, InWorld
    <2> QED  BY <2>3, <2>4, <2>5, <2>6, <2>7
  <1>6. CASE PollFindsNothing
    <2> USE <1>6 DEF PollFindsNothing
    <2>1. Fits' /\ WorldSeesAll'
      BY Still
    <2>2. Flags'
      BY DEF Flags
    <2>3. Labels'
      BY DEF Labels
    <2>4. Apart'
      BY DEF Apart, InWorld
    <2> QED  BY <2>1, <2>2, <2>3, <2>4
  <1> QED  BY <1>1, <1>2, <1>3, <1>4, <1>5, <1>6

\* In the world the line is handled, queue, the thread's packet and the wire.
LEMMA PushedLine ==
    ASSUME Fits, deferred = <<>>, deferred' = <<>>, hold' = <<>>, handled' = handled, wire' = wire,
           NEW over \in Seq(Sent), queue' \in Seq(Sent), queue \o hold = over \o queue'
    PROVE  /\ Line = handled \o over \o (queue' \o wire)
           /\ Line' = handled \o (queue' \o wire)
  <1>1. /\ handled \in Seq(Sent) /\ queue \in Seq(Sent) /\ hold \in Seq(Sent) /\ wire \in Seq(Sent)
    BY DEF Fits
  <1>2. /\ Line = handled \o queue \o hold \o <<>> \o wire
        /\ Line' = handled \o queue' \o <<>> \o <<>> \o wire
    BY DEF Line
  <1> DEFINE q == queue'
             new == handled \o q
             old == handled \o over
             all == over \o q
  <1> HIDE DEF q
  <1>3. q \in Seq(Sent) /\ queue \o hold = all
    BY DEF q
  <1>4. /\ \A x, y \in Seq(Sent) : x \o y \in Seq(Sent)
        /\ \A x \in Seq(Sent) : x \o <<>> = x
    OBVIOUS
  <1>5. \A x, y, z \in Seq(Sent) : x \o y \o z = x \o (y \o z)
    OBVIOUS
  <1>6. new \in Seq(Sent) /\ old \in Seq(Sent)
    BY <1>1, <1>3, <1>4, Zenon
  <1>7. handled \o queue \o hold = handled \o all
    <2>1. handled \o queue \o hold = handled \o (queue \o hold)
      BY <1>1, <1>5, Zenon
    <2> HIDE DEF all
    <2> QED  BY <1>3, <2>1, Zenon
  <1>8. handled \o all = old \o q
    <2>1. \A y, z \in Seq(Sent) : handled \o y \o z = handled \o (y \o z)
      BY <1>1, <1>5, Zenon
    <2>2. over \in Seq(Sent) /\ q \in Seq(Sent)
      BY <1>3
    <2> QED  BY <2>1, <2>2, Zenon
  <1>9. new \o wire = handled \o (q \o wire)
    <2>1. \A y, z \in Seq(Sent) : handled \o y \o z = handled \o (y \o z)
      BY <1>1, <1>5, Zenon
    <2> QED  BY <1>1, <1>3, <2>1, Zenon
  <1> HIDE DEF new, old, all
  <1>10. old \o q \in Seq(Sent)
    BY <1>3, <1>4, <1>6, Zenon
  <1>11. (old \o q) \o <<>> = old \o q /\ new \o <<>> = new
    <2> DEFINE oq == old \o q
    <2> HIDE DEF oq
    <2>1. oq \in Seq(Sent)
      BY <1>10 DEF oq
    <2>2. oq \o <<>> = oq /\ new \o <<>> = new
      BY <1>4, <1>6, <2>1, Zenon
    <2> QED  BY <2>2 DEF oq
  <1>12. old \o q \o wire = old \o (q \o wire)
    <2>1. \A y, z \in Seq(Sent) : old \o y \o z = old \o (y \o z)
      BY <1>5, <1>6, Zenon
    <2> QED  BY <1>1, <1>3, <2>1, Zenon
  <1>13. Line = (old \o q) \o <<>> \o wire
    BY <1>2, <1>7, <1>8, Zenon
  <1>14. Line' = new \o <<>> \o <<>> \o wire
    BY <1>2, Zenon DEF new, q
  <1>15. Line = old \o (q \o wire)
    BY <1>11, <1>12, <1>13, Zenon
  <1>16. Line' = handled \o (q \o wire)
    BY <1>9, <1>11, <1>14, Zenon
  <1> QED  BY <1>15, <1>16, Zenon DEF old, q

LEMMA RecvKeeps ==
    ASSUME IInv, Stream, RecvStep
    PROVE  Stream'
  <1> USE DEF Stream, linkVars, streamVars, serverVars, opVars, recvVars, worldVars,
              RecvUnchanged, Drop
  <1>1. CASE RecvLoops
    <2> USE <1>1 DEF RecvLoops
    <2>1. Fits' /\ WorldSeesAll'
      BY Still
    <2>2. Flags'
      BY DEF Flags
    <2>3. Labels'
      BY DEF Labels
    <2>4. Apart'
      BY DEF Apart, InWorld
    <2> QED  BY <2>1, <2>2, <2>3, <2>4
  <1>2. CASE RecvReceives
    <2> USE <1>2 DEF RecvReceives
    <2>1. deferred = <<>> /\ hold = <<>> /\ InWorld
      BY DEF IInv, ScreenTellsThreads, Apart
    <2>2. /\ hold' = <<Head(wire)>> /\ wire' = Tail(wire) /\ wire # <<>>
          /\ handled \in Seq(Sent) /\ queue \in Seq(Sent) /\ wire \in Seq(Sent)
      BY DEF Fits
    <2>3. Sent' = Sent
      BY DEF Sent
    <2>4. hold' \in Seq(Sent) /\ wire' \in Seq(Sent) /\ Len(hold') = 1
      <3> HIDE DEF Sent
      <3> QED  BY <2>2, Passed
    <2>5. Fits'
      BY <2>3, <2>4 DEF Fits
    <2>6. Line' = Line
      <3> DEFINE front == handled \o queue
      <3>1. front \in Seq(Sent)
        BY <2>2
      <3>2. Line = front \o <<>> \o <<>> \o wire /\ Line' = front \o hold' \o <<>> \o wire'
        BY <2>1 DEF Line
      <3> HIDE DEF front, Sent
      <3>3. front \o wire = front \o <<Head(wire)>> \o Tail(wire)
        BY <2>2, <3>1, Passed
      <3>4. front \o <<>> \o <<>> = front /\ front \o hold' \o <<>> = front \o hold'
        BY <2>4, <3>1
      <3> QED  BY <2>2, <3>2, <3>3, <3>4
    <2>7. WorldSeesAll'
      BY <2>6, Moved
    <2>8. Flags'
      BY DEF Flags
    <2>9. Labels'
      BY DEF Labels
    <2>10. Apart'
      BY <2>1, <2>4 DEF Apart, InWorld
    <2> QED  BY <2>5, <2>7, <2>8, <2>9, <2>10
  <1>3. CASE RecvFails
    <2> USE <1>3 DEF RecvFails
    <2>1. Fits' /\ WorldSeesAll'
      BY Still
    <2>2. Flags'
      BY DEF Flags
    <2>3. Labels'
      BY DEF Labels
    <2>4. Apart'
      BY DEF Apart, InWorld
    <2> QED  BY <2>1, <2>2, <2>3, <2>4
  <1>4. CASE RecvPushes
    <2> USE <1>4 DEF RecvPushes
    <2>1. deferred = <<>> /\ InWorld
      BY DEF IInv, ScreenTellsThreads, Apart
    <2>2. Push(hold) /\ hold \in Seq(Sent) /\ wire \in Seq(Sent) /\ handled \in Seq(Sent)
      BY DEF Fits
    <2>3. PICK over \in Seq(Sent) :
            /\ queue' \in Seq(Sent) /\ Len(queue') <= Capacity
            /\ queue \o hold = over \o queue'
            /\ lost' = lost \cup Numbers(over)
      BY <2>2, PushFacts
    <2>4. Sent' = Sent /\ <<>> \in Seq(Sent) /\ Numbers(over) \subseteq 1 .. sent
      BY SentFacts DEF Sent, Fits
    <2>5. Fits'
      BY <2>3, <2>4 DEF Fits
    <2>6. /\ Line = handled \o over \o (queue' \o wire)
          /\ Line' = handled \o (queue' \o wire)
      <3>1. deferred' = <<>> /\ hold' = <<>> /\ handled' = handled /\ wire' = wire
        BY <2>1
      <3> HIDE DEF RecvPushes, RecvUnchanged
      <3> QED  BY <2>1, <2>3, <3>1, PushedLine
    <2>7. /\ handled \in Seq(Packets) /\ over \in Seq(Packets)
          /\ queue' \o wire \in Seq(Packets)
      <3>1. queue' \o wire \in Seq(Sent)
        BY <2>2, <2>3
      <3> QED  BY <2>2, <3>1, SentFacts DEF Fits
    <2>8. WorldSeesAll'
      BY <2>3, <2>6, <2>7, Accounted
    <2>9. Flags'
      BY DEF Flags
    <2>10. Labels'
      BY DEF Labels
    <2>11. Apart'
      BY <2>1 DEF Apart, InWorld
    <2> QED  BY <2>5, <2>8, <2>9, <2>10, <2>11
  <1> QED  BY <1>1, <1>2, <1>3, <1>4 DEF RecvStep

\* The hand-over: the line was the session's, and is the queue's and the wire.
LEMMA HandedLine ==
    ASSUME Fits, handled = <<>>, queue = <<>>, hold = <<>>,
           handled' = <<>>, deferred' = <<>>, hold' = <<>>, wire' = wire,
           NEW over \in Seq(Sent), queue' \in Seq(Sent), queue \o deferred = over \o queue'
    PROVE  /\ Line = <<>> \o over \o (queue' \o wire)
           /\ Line' = <<>> \o (queue' \o wire)
           /\ queue' \o wire \in Seq(Sent)
  <1> DEFINE q == queue'
  <1>1. deferred \in Seq(Sent) /\ wire \in Seq(Sent) /\ q \in Seq(Sent) /\ over \in Seq(Sent)
    BY DEF Fits
  <1>2. Line = deferred \o wire
    BY GlueLine
  <1>3. <<>> \o deferred = over \o q
    OBVIOUS
  <1>4. Line' = <<>> \o q \o <<>> \o <<>> \o wire
    BY DEF Line
  <1> HIDE DEF q
  <1>a. \A a \in Seq(Sent) : <<>> \o a = a /\ a \o <<>> = a
    OBVIOUS
  <1>b. \A a, b \in Seq(Sent) : a \o b \in Seq(Sent)
    OBVIOUS
  <1>c. \A a, b, c \in Seq(Sent) : a \o b \o c = a \o (b \o c)
    OBVIOUS
  <1>6. deferred = over \o q
    BY <1>1, <1>3, <1>a, Zenon
  <1>7. Line = over \o (q \o wire) /\ q \o wire \in Seq(Sent)
    BY <1>1, <1>2, <1>b, <1>c, <1>6, Zenon
  <1>8. <<>> \o over = over /\ <<>> \o (q \o wire) = q \o wire
    BY <1>1, <1>a, <1>7, Zenon
  <1>9. Line' = q \o wire
    BY <1>1, <1>4, <1>a, Zenon
  <1> QED  BY <1>7, <1>8, <1>9 DEF q

LEMMA FlowKeeps ==
    ASSUME IInv, Stream, \/ \E o \in {"list", "enter"} : FlowStarts(o)
                         \/ FlowHasNothing \/ FlowHarvests \/ FlowCancels \/ OperationJoined
                         \/ FlowDisconnects \/ Reconnect \/ HandOver \/ HandOverFails
    PROVE  Stream'
  <1> USE DEF Stream, linkVars, streamVars, serverVars, opVars, recvVars, worldVars,
              MainUnchanged, Drop, Flow, ForgetOperation, Disconnect, ResetReceiveState
  <1>1. CASE \E o \in {"list", "enter"} : FlowStarts(o)
    <2> USE <1>1 DEF FlowStarts
    <2>1. Fits' /\ WorldSeesAll'
      BY Still
    <2>2. Flags'
      BY DEF Flags
    <2>3. Labels'
      <3>1. mode' \in {"select", "entering"} /\ starts' \in 0 .. MaxStarts
        BY Bounds DEF Labels
      <3> QED  BY <3>1 DEF Labels
    <2>4. Apart'
      BY DEF Apart, InWorld
    <2> QED  BY <2>1, <2>2, <2>3, <2>4
  <1>2. CASE FlowHasNothing
    <2> USE <1>2 DEF FlowHasNothing
    <2>1. Fits' /\ WorldSeesAll'
      BY Still
    <2>2. Flags'
      BY DEF Flags
    <2>3. Labels'
      BY DEF Labels
    <2>4. Apart'
      BY DEF Apart, InWorld
    <2> QED  BY <2>1, <2>2, <2>3, <2>4
  <1>3. CASE FlowHarvests
    <2> USE <1>3 DEF FlowHarvests
    <2>1. Fits' /\ WorldSeesAll'
      BY Still
    <2>2. Flags'
      BY DEF Flags
    <2>3. Labels'
      BY DEF Labels
    <2>4. ~InWorld
      BY DEF IInv, ScreenTellsThreads, Types, InWorld
    <2>5. Apart'
      BY <2>4 DEF Apart, InWorld
    <2> QED  BY <2>1, <2>2, <2>3, <2>5
  <1>4. CASE FlowCancels
    <2> USE <1>4 DEF FlowCancels
    <2>1. Fits' /\ WorldSeesAll'
      BY Still
    <2>2. Flags'
      BY DEF Flags
    <2>3. Labels'
      BY DEF Labels
    <2>4. Apart'
      BY DEF Apart, InWorld
    <2> QED  BY <2>1, <2>2, <2>3, <2>4
  <1>5. CASE OperationJoined
    <2> USE <1>5 DEF OperationJoined
    <2>1. Fits' /\ WorldSeesAll'
      <3>1. CASE op = "enter"
        BY <3>1, Disconnected
      <3>2. CASE op # "enter"
        BY <3>2, Still
      <3> QED  BY <3>1, <3>2
    <2>2. Flags'
      BY DEF Flags
    <2>3. Labels'
      BY DEF Labels
    <2>4. ~InWorld
      BY DEF IInv, ScreenTellsThreads, Types, InWorld
    <2>5. Apart'
      BY <2>4 DEF Apart, InWorld
    <2> QED  BY <2>1, <2>2, <2>3, <2>5
  <1>6. CASE FlowDisconnects
    <2> USE <1>6 DEF FlowDisconnects
    <2>1. Fits' /\ WorldSeesAll'
      BY Disconnected
    <2>2. Flags'
      BY DEF Flags
    <2>3. Labels'
      BY DEF Labels
    <2>4. Apart'
      BY DEF Apart, InWorld
    <2> QED  BY <2>1, <2>2, <2>3, <2>4
  <1>7. CASE HandOverFails
    <2> USE <1>7 DEF HandOverFails
    <2>1. Fits' /\ WorldSeesAll'
      BY Disconnected
    <2>2. Flags'
      BY DEF Flags
    <2>3. Labels'
      BY DEF Labels
    <2>4. ~InWorld
      BY DEF IInv, ScreenTellsThreads, InWorld
    <2>5. Apart'
      BY <2>4 DEF Apart, InWorld
    <2> QED  BY <2>1, <2>2, <2>3, <2>5
  <1>8. CASE Reconnect
    <2> USE <1>8 DEF Reconnect
    <2>1. ~InWorld /\ ScreenTellsThreads
      BY DEF IInv, InWorld
    <2>2. handled = <<>> /\ queue = <<>> /\ hold = <<>>
      BY <2>1, NotInWorld
    <2>3. /\ handled' = <<>> /\ queue' = <<>> /\ hold' = <<>> /\ deferred' = <<>> /\ wire' = <<>>
          /\ sent' = 0 /\ past' = {} /\ lost' = {}
      BY <2>2
    <2>4. Fits'
      <3>1. <<>> \in Seq(Sent') /\ Len(<<>>) = 0
        OBVIOUS
      <3> QED  BY <2>3, <3>1, Bounds DEF Fits
    <2>5. Line' = <<>>
      BY <2>3 DEF Line
    <2>6. WorldSeesAll'
      <3>1. DOMAIN <<>> = {} /\ ToSet(<<>>) = {} /\ 1 .. 0 = {}
        BY DEF ToSet
      <3> QED  BY <2>3, <2>5, <3>1 DEF WorldSeesAll, Numbers, Once, InTurn
    <2>7. Flags'
      BY DEF Flags
    <2>8. Labels'
      <3>1. asked' \in Seq({"list", "enter"})
        OBVIOUS
      <3>2. connects' \in 0 .. MaxConnects
        BY Bounds DEF Labels
      <3> QED  BY <3>1, <3>2 DEF Labels
    <2>9. Apart'
      BY <2>1, <2>3 DEF Apart, InWorld, ScreenTellsThreads
    <2> QED  BY <2>4, <2>6, <2>7, <2>8, <2>9
  <1>9. CASE HandOver
    <2> USE <1>9 DEF HandOver
    <2>1. ~InWorld /\ ScreenTellsThreads
      BY DEF IInv, ScreenTellsThreads, InWorld
    <2>2. handled = <<>> /\ queue = <<>> /\ hold = <<>>
      BY <2>1, NotInWorld
    <2>3. /\ Push(deferred) /\ deferred' = <<>> /\ handled' = <<>> /\ hold' = <<>>
          /\ UNCHANGED <<connected, wire, sent, past>>
      BY <2>2 DEF DrainDeferredPackets
    <2>4. deferred \in Seq(Sent) /\ wire \in Seq(Sent) /\ sent \in 0 .. MaxSent
      BY DEF Fits
    <2>5. PICK over \in Seq(Sent) :
            /\ queue' \in Seq(Sent) /\ Len(queue') <= Capacity
            /\ queue \o deferred = over \o queue'
            /\ lost' = lost \cup Numbers(over)
      BY <2>3, <2>4, PushFacts
    <2>6. Sent' = Sent /\ Numbers(over) \subseteq 1 .. sent
      BY <2>3, <2>4, SentFacts DEF Sent
    <2>7. Fits'
      <3>1. <<>> \in Seq(Sent)
        OBVIOUS
      <3> QED  BY <2>3, <2>5, <2>6, <3>1 DEF Fits
    <2>8. /\ Line = <<>> \o over \o (queue' \o wire) /\ Line' = <<>> \o (queue' \o wire)
          /\ queue' \o wire \in Seq(Sent)
      <3> HIDE <1>9 DEF HandOver
      <3> QED  BY <2>2, <2>3, <2>4, <2>5, HandedLine
    <2>9. WorldSeesAll'
      <3>1. /\ over \in Seq(Packets) /\ queue' \o wire \in Seq(Packets) /\ <<>> \in Seq(Packets)
        BY <2>4, <2>8, SentFacts
      <3>2. past' \cup lost' = past \cup lost \cup Numbers(over)
        BY <2>3, <2>5
      <3>3. sent' = sent /\ connected' = connected /\ Fits /\ WorldSeesAll
        BY <2>3
      <3> HIDE DEF HandOver, Stream
      <3> QED  BY <2>8, <3>1, <3>2, <3>3, Accounted
    <2>10. Flags'
      BY DEF Flags
    <2>11. Labels'
      BY DEF Labels
    <2>12. Apart'
      BY <2>3 DEF Apart, InWorld
    <2> QED  BY <2>7, <2>9, <2>10, <2>11, <2>12
  <1> QED  BY <1>1, <1>2, <1>3, <1>4, <1>5, <1>6, <1>7, <1>8, <1>9

\* The loading frame handles Warden's packets first: their order and the others' stay.
LEMMA Reordered ==
    ASSUME Fits, WorldSeesAll, NEW h \in Seq(Packets), NEW q \in Seq(Packets),
           NEW u \in Seq(Packets), NEW r \in Seq(Packets),
           Embeds(u, q), Numbers(u) = Numbers(q), Line = h \o q \o r, Line' = h \o u \o r,
           UNCHANGED <<connected, sent, past, lost>>
    PROVE  WorldSeesAll'
  <1>1. CASE connected
    <2>1. /\ Numbers(Line) = (1 .. sent) \ (past \cup lost)
          /\ Once(Line) /\ InTurn(Line)
      BY <1>1 DEF WorldSeesAll
    <2>2. /\ h \o q \in Seq(Packets) /\ h \o u \in Seq(Packets)
          /\ h \o q \o r \in Seq(Packets) /\ h \o u \o r \in Seq(Packets)
      OBVIOUS
    <2>3. Embeds(h \o u, h \o q)
      BY Behind
    <2>4. Embeds(h \o u \o r, h \o q \o r)
      BY <2>2, <2>3, Before
    <2>5. Once(h \o u \o r) /\ InTurn(h \o u \o r)
      BY <2>1, <2>2, <2>4, EmbeddedInTurn
    <2>6. Numbers(h \o u) = Numbers(h \o q)
      <3>1. \A a \in Seq(Packets) : Numbers(h \o a) = Numbers(h) \cup Numbers(a)
        BY NumbersOfConcat
      <3> QED  BY <3>1, Zenon
    <2>7. Numbers(h \o u \o r) = Numbers(h \o q \o r)
      <3>1. \A a \in Seq(Packets) : Numbers(a \o r) = Numbers(a) \cup Numbers(r)
        BY NumbersOfConcat
      <3> QED  BY <2>2, <2>6, <3>1, Zenon
    <2>8. (Numbers(Line))' = Numbers(h \o u \o r) /\ Once(Line)' /\ InTurn(Line)'
      BY <2>5 DEF Numbers, Once, InTurn
    <2> QED  BY <2>1, <2>7, <2>8 DEF WorldSeesAll
  <1>2. CASE ~connected
    BY <1>2 DEF WorldSeesAll
  <1> QED  BY <1>1, <1>2

LEMMA PumpedLine ==
    ASSUME Fits, NEW a \in Seq(Sent), NEW b \in Seq(Sent),
           handled' = handled \o a, queue' = b, UNCHANGED <<hold, deferred, wire>>
    PROVE  /\ Line = handled \o queue \o (hold \o deferred \o wire)
           /\ Line' = handled \o (a \o b) \o (hold \o deferred \o wire)
           /\ a \o b \in Seq(Sent) /\ hold \o deferred \o wire \in Seq(Sent)
  <1>1. /\ handled \in Seq(Sent) /\ queue \in Seq(Sent) /\ hold \in Seq(Sent)
        /\ deferred \in Seq(Sent) /\ wire \in Seq(Sent)
    BY DEF Fits
  <1>2. /\ Line = handled \o queue \o hold \o deferred \o wire
        /\ Line' = handled \o a \o b \o hold \o deferred \o wire
    BY DEF Line
  <1>3. \A x, y \in Seq(Sent) : x \o y \in Seq(Sent)
    OBVIOUS
  <1>4. \A x, y, z \in Seq(Sent) : x \o y \o z = x \o (y \o z)
    OBVIOUS
  <1>5. /\ a \o b \in Seq(Sent) /\ hold \o deferred \in Seq(Sent)
        /\ handled \o queue \in Seq(Sent)
    BY <1>1, <1>3, Zenon
  <1>6. /\ hold \o deferred \o wire \in Seq(Sent) /\ handled \o (a \o b) \in Seq(Sent)
        /\ handled \o a \o b = handled \o (a \o b)
    <2>1. hold \o deferred \o wire \in Seq(Sent)
      BY <1>1, <1>3, <1>5, Zenon
    <2>2. handled \o (a \o b) \in Seq(Sent)
      <3> DEFINE ab == a \o b
      <3>1. ab \in Seq(Sent)
        BY <1>5
      <3> HIDE DEF ab
      <3>2. handled \o ab \in Seq(Sent)
        BY <1>1, <1>3, <3>1, Zenon
      <3> QED  BY <3>2 DEF ab
    <2>3. handled \o a \o b = handled \o (a \o b)
      <3>1. \A y, z \in Seq(Sent) : handled \o y \o z = handled \o (y \o z)
        BY <1>1, <1>4, Zenon
      <3>2. a \in Seq(Sent) /\ b \in Seq(Sent)
        OBVIOUS
      <3> QED  BY <3>1, <3>2, Zenon
    <2> QED  BY <2>1, <2>2, <2>3
  <1>7. \A x \in Seq(Sent) : x \o hold \o deferred \o wire = x \o (hold \o deferred \o wire)
    <2>1. ASSUME NEW x \in Seq(Sent)
          PROVE  x \o hold \o deferred \o wire = x \o (hold \o deferred \o wire)
      <3>1. x \o hold \o deferred = x \o (hold \o deferred)
        BY <1>1, <1>4, Zenon
      <3>2. x \o (hold \o deferred) \o wire = x \o (hold \o deferred \o wire)
        <4> DEFINE hd == hold \o deferred
        <4>1. hd \in Seq(Sent) /\ wire \in Seq(Sent)
          BY <1>1, <1>5
        <4> HIDE DEF hd
        <4>2. x \o hd \o wire = x \o (hd \o wire)
          BY <1>4, <4>1, Zenon
        <4> QED  BY <4>2 DEF hd
      <3> QED  BY <3>1, <3>2, Zenon
    <2> QED  BY <2>1
  <1>8. handled \o queue \o hold \o deferred \o wire = handled \o queue \o (hold \o deferred \o wire)
    BY <1>5, <1>7, Zenon
  <1>9. handled \o (a \o b) \o hold \o deferred \o wire = handled \o (a \o b) \o (hold \o deferred \o wire)
    BY <1>6, <1>7, Zenon
  <1> QED  BY <1>2, <1>5, <1>6, <1>8, <1>9, Zenon

LEMMA WorldKeeps ==
    ASSUME IInv, Stream, \/ LoadPumpsWarden \/ LoadEnds \/ HandlePacket \/ TickEnds
                         \/ LoadingScreenEnds \/ LogoutComplete \/ WorldTransportDisconnect
                         \/ StayInWorld \/ ReturnFromWorldToGlue
    PROVE  Stream'
  <1> USE DEF Stream, linkVars, streamVars, serverVars, opVars, recvVars, worldVars,
              WorldUnchanged, Drop, Disconnect, ResetReceiveState, Leave, RequestStop
  <1>1. CASE LoadPumpsWarden
    <2> USE <1>1
    <2> DEFINE W == WardenPlaces(queue)
               O == DOMAIN queue \ W
    <2>1. PICK taken \in InOrder(queue, W), left \in InOrder(queue, O) :
            /\ W # {}
            /\ handled' = handled \o At(queue, taken)
            /\ queue' = At(queue, left)
      BY DEF LoadPumpsWarden
    <2>2. /\ main = "load" /\ UNCHANGED <<logout, mode, main>>
          /\ UNCHANGED <<connected, phase, wire, deferred, closed, asked, playing, sent, op, opPc,
                         opOk, recv, stop, gone, hold, past, lost, lock, target, starts, connects>>
      BY DEF LoadPumpsWarden
    <2>3. queue \in Seq(Sent) /\ handled \in Seq(Sent) /\ sent \in 0 .. MaxSent
          /\ Len(queue) \in Nat /\ Len(queue) <= Capacity /\ Capacity \in Nat
      BY Bounds DEF Fits
    <2>4. W \in SUBSET DOMAIN queue /\ O \in SUBSET DOMAIN queue
      BY DEF WardenPlaces
    <2> DEFINE a == At(queue, taken)
               b == At(queue, left)
    <2>5. InWorld
      <3>1. queue # <<>>
        BY <2>1, <2>4
      <3> QED  BY <3>1 DEF Apart
    <2>6. Embeds(a \o b, queue) /\ Numbers(a \o b) = Numbers(queue)
      BY <2>3, SentFacts, Parted
    <2> HIDE DEF W, O
    <2>7. a \in Seq(Sent) /\ b \in Seq(Sent) /\ Len(b) \in 0 .. Len(queue)
      BY <2>3, <2>4, PlacesFacts
    <2> HIDE DEF a, b
    <2>8. handled' = handled \o a /\ queue' = b
      BY <2>1 DEF a, b
    <2>9. Sent' = Sent
      BY <2>2 DEF Sent
    <2>10. Fits'
      <3>1. handled' \in Seq(Sent) /\ queue' \in Seq(Sent)
        BY <2>3, <2>7, <2>8
      <3>2. Len(queue') <= Capacity
        BY <2>3, <2>7, <2>8
      <3> QED  BY <2>2, <2>9, <3>1, <3>2 DEF Fits
    <2>11. /\ Line = handled \o queue \o (hold \o deferred \o wire)
           /\ Line' = handled \o (a \o b) \o (hold \o deferred \o wire)
           /\ a \o b \in Seq(Sent) /\ hold \o deferred \o wire \in Seq(Sent)
      BY <2>2, <2>7, <2>8, PumpedLine
    <2>12. WorldSeesAll'
      <3>1. /\ handled \in Seq(Packets) /\ queue \in Seq(Packets)
            /\ a \o b \in Seq(Packets) /\ hold \o deferred \o wire \in Seq(Packets)
        BY <2>3, <2>11, SentFacts
      <3>2. UNCHANGED <<connected, sent, past, lost>> /\ Fits /\ WorldSeesAll
        BY <2>2
      <3> HIDE <1>1 DEF Stream
      <3> QED  BY <2>6, <2>11, <3>1, <3>2, Reordered
    <2>13. Flags'
      BY <2>2 DEF Flags
    <2>14. Labels'
      BY <2>2 DEF Labels
    <2>15. Apart'
      BY <2>2, <2>5 DEF Apart, InWorld
    <2> QED  BY <2>10, <2>12, <2>13, <2>14, <2>15
  <1>2. CASE LoadEnds
    <2> USE <1>2 DEF LoadEnds
    <2>1. Fits' /\ WorldSeesAll'
      BY Still
    <2>2. Flags'
      BY DEF Flags
    <2>3. Labels'
      BY DEF Labels
    <2>4. Apart'
      BY DEF Apart, InWorld
    <2> QED  BY <2>1, <2>2, <2>3, <2>4
  <1>3. CASE HandlePacket
    <2> USE <1>3 DEF HandlePacket
    <2>1. /\ queue \in Seq(Sent) /\ handled \in Seq(Sent) /\ queue # <<>>
          /\ Len(queue) \in Nat /\ Len(queue) <= Capacity /\ Capacity \in Nat
      BY Bounds DEF Fits
    <2>2. /\ handled' \in Seq(Sent) /\ queue' \in Seq(Sent) /\ Len(queue') = Len(queue) - 1
          /\ handled' \o queue' = handled \o queue
      BY <2>1, Passed
    <2>3. Sent' = Sent
      BY DEF Sent
    <2>4. Fits'
      BY <2>1, <2>2, <2>3 DEF Fits
    <2>5. Line' = Line
      BY <2>2 DEF Line
    <2>6. WorldSeesAll'
      BY <2>5, Moved
    <2>7. Flags'
      BY DEF Flags
    <2>8. Labels'
      BY DEF Labels
    <2>9. Apart'
      BY DEF Apart, InWorld
    <2> QED  BY <2>4, <2>6, <2>7, <2>8, <2>9
  <1>4. CASE TickEnds
    <2> USE <1>4 DEF TickEnds
    <2>1. Fits' /\ WorldSeesAll'
      BY Still
    <2>2. Flags'
      BY DEF Flags
    <2>3. Labels'
      BY DEF Labels
    <2>4. Apart'
      BY DEF Apart, InWorld
    <2> QED  BY <2>1, <2>2, <2>3, <2>4
  <1>5. CASE LoadingScreenEnds
    <2> USE <1>5 DEF LoadingScreenEnds
    <2>1. Fits' /\ WorldSeesAll'
      BY Still
    <2>2. Flags'
      BY DEF Flags
    <2>3. Labels'
      BY DEF Labels
    <2>4. Apart'
      BY DEF Apart, InWorld
    <2> QED  BY <2>1, <2>2, <2>3, <2>4
  <1>6. CASE LogoutComplete
    <2> USE <1>6 DEF LogoutComplete
    <2>1. Fits' /\ WorldSeesAll'
      BY Still
    <2>2. Flags'
      BY DEF Flags
    <2>3. Labels'
      BY DEF Labels
    <2>4. Apart'
      BY DEF Apart, InWorld
    <2> QED  BY <2>1, <2>2, <2>3, <2>4
  <1>7. CASE WorldTransportDisconnect
    <2> USE <1>7 DEF WorldTransportDisconnect
    <2>1. Fits' /\ WorldSeesAll'
      BY Still
    <2>2. Flags'
      BY DEF Flags
    <2>3. Labels'
      BY DEF Labels
    <2>4. Apart'
      BY DEF Apart, InWorld
    <2> QED  BY <2>1, <2>2, <2>3, <2>4
  <1>8. CASE StayInWorld
    <2> USE <1>8 DEF StayInWorld
    <2>1. Fits' /\ WorldSeesAll'
      BY Still
    <2>2. Flags'
      BY DEF Flags
    <2>3. Labels'
      BY DEF Labels
    <2>4. Apart'
      BY DEF Apart, InWorld
    <2> QED  BY <2>1, <2>2, <2>3, <2>4
  <1>9. CASE ReturnFromWorldToGlue
    <2> USE <1>9 DEF ReturnFromWorldToGlue
    <2>1. /\ InWorld /\ recv = "ended" /\ target \in {"login", "select"}
          /\ deferred = <<>> /\ hold = <<>>
      BY DEF IInv, ScreenTellsThreads, Types, Joined, Apart
    <2>2. /\ queue' = <<>> /\ handled' = <<>> /\ hold' = <<>> /\ lost' = {} /\ sent' = sent
          /\ past' = past \cup Numbers(handled \o queue) \cup lost
      BY <2>1
    <2>3. ASSUME connected' = FALSE, wire' = <<>>, deferred' = <<>>
          PROVE  Fits' /\ WorldSeesAll'
      BY <2>1, <2>2, <2>3, Disconnected
    <2>4. ASSUME UNCHANGED <<connected, wire, deferred>>
          PROVE  Fits' /\ WorldSeesAll'
      <3>1. /\ handled \in Seq(Sent) /\ queue \in Seq(Sent) /\ wire \in Seq(Sent)
            /\ sent \in 0 .. MaxSent /\ past \subseteq 1 .. sent /\ lost \subseteq 1 .. sent
        BY DEF Fits
      <3> DEFINE b == handled \o queue
      <3>2. b \in Seq(Sent)
        BY <3>1
      <3>3. Line = b \o <<>> \o <<>> \o wire /\ Line' = <<>> \o <<>> \o <<>> \o <<>> \o wire
        BY <2>1, <2>2, <2>4 DEF Line
      <3>4. past' = past \cup Numbers(b) \cup lost
        BY <2>2
      <3> HIDE DEF b, ReturnFromWorldToGlue
      <3>5. Numbers(b) \subseteq 1 .. sent /\ b \in Seq(Packets) /\ wire \in Seq(Packets)
        BY <3>1, <3>2, SentFacts
      <3>6. Sent' = Sent /\ <<>> \in Seq(Sent) /\ Len(<<>>) = 0 /\ <<>> \in Seq(Packets)
        BY <2>2 DEF Sent
      <3>7. Fits'
        <4>1. past' \subseteq 1 .. sent
          BY <3>1, <3>4, <3>5
        <4> QED  BY <2>1, <2>2, <2>4, <3>1, <3>6, <4>1, Bounds DEF Fits
      <3>8. b \o <<>> = b /\ <<>> \o b = b /\ <<>> \o wire = wire
        BY <3>1, <3>2
      <3>9. Line = <<>> \o b \o wire /\ Line' = <<>> \o wire
        BY <3>3, <3>8
      <3>10. past' \cup lost' = past \cup lost \cup Numbers(b)
        BY <2>2, <3>4
      <3>11. sent' = sent /\ connected' = connected /\ Fits /\ WorldSeesAll
        BY <2>2, <2>4
      <3>12. WorldSeesAll'
        <4> HIDE DEF Stream
        <4> QED  BY <3>5, <3>6, <3>9, <3>10, <3>11, Accounted
      <3> QED  BY <3>7, <3>12
    <2>5. Flags'
      BY DEF Flags
    <2>6. Labels'
      BY <2>1 DEF Labels
    <2>7. Apart'
      BY <2>1, <2>2 DEF Apart, InWorld
    <2> QED  BY <2>3, <2>4, <2>5, <2>6, <2>7
  <1> QED  BY <1>1, <1>2, <1>3, <1>4, <1>5, <1>6, <1>7, <1>8, <1>9
-----------------------------------------------------------------------------
LEMMA InitStream == Init => Stream
  <1> SUFFICES ASSUME Init PROVE Stream
    OBVIOUS
  <1>1. Labels
    BY Bounds DEF Init, Labels
  <1>2. Flags
    BY DEF Init, Flags
  <1>3. Fits
    <2>1. <<>> \in Seq(Sent) /\ Len(<<>>) = 0
      OBVIOUS
    <2> QED  BY <2>1, Bounds DEF Init, Fits
  <1>4. Apart
    BY DEF Init, Apart, InWorld
  <1>5. WorldSeesAll
    BY DEF Init, WorldSeesAll
  <1> QED  BY <1>1, <1>2, <1>3, <1>4, <1>5 DEF Stream

\* Stream holds in every reachable state.
THEOREM StreamInvariance == Spec => []Stream
  <1>1. IInv /\ Stream /\ [Next]_vars => Stream'
    <2> SUFFICES ASSUME IInv, Stream, [Next]_vars PROVE Stream'
      OBVIOUS
    <2>1. CASE Next
      BY <2>1, ServerKeeps, OperationKeeps, PollKeeps, FlowKeeps, WorldKeeps, RecvKeeps
         DEF Next, MainStep
    <2>2. CASE UNCHANGED vars
      <3> USE <2>2 DEF Stream, vars, linkVars, streamVars, serverVars, opVars, recvVars, worldVars
      <3>1. Fits' /\ WorldSeesAll'
        BY Still
      <3>2. Flags'
        BY DEF Flags
      <3>3. Labels'
        BY DEF Labels
      <3>4. Apart'
        BY DEF Apart, InWorld
      <3> QED  BY <3>1, <3>2, <3>3, <3>4
    <2> QED  BY <2>1, <2>2
  <1> QED  BY InitStream, Invariance, <1>1, PTL DEF Spec

\* While the connection is up, what the server sent unasked in it is in the world or on
\* its way there, once and in turn, whoever read it: only the full queue loses any.
THEOREM WorldSeesAllHolds == Spec => []WorldSeesAll
  <1>1. Stream => WorldSeesAll
    BY DEF Stream
  <1> QED  BY <1>1, StreamInvariance, PTL

\* Every variable keeps its type, and the queue its bound.
THEOREM TypeOKHolds == Spec => []TypeOK
  <1>1. IInv /\ Stream => TypeOK
    <2> SUFFICES ASSUME IInv, Stream PROVE TypeOK
      OBVIOUS
    <2>1. Flags /\ Labels /\ Fits /\ Apart /\ Types
      BY DEF Stream, IInv
    <2>2. {connected, closed, playing, opOk, logout, stop, gone} \subseteq BOOLEAN
      BY <2>1 DEF Flags
    <2>3. {wire, deferred, queue, hold, handled} \subseteq Seq(Packets)
      BY <2>1, LineFacts
    <2>4. Len(hold) <= 1
      <3>1. CASE recv = "push"
        <4>1. Len(hold) = 1
          BY <2>1, <3>1 DEF Apart
        <4> QED  BY <4>1
      <3>2. CASE recv # "push"
        <4>1. hold = <<>>
          BY <2>1, <3>2 DEF Apart
        <4>2. Len(hold) = 0
          BY <4>1
        <4> QED  BY <4>2
      <3> QED  BY <3>1, <3>2
    <2>5. past \cup lost \subseteq 1 .. MaxSent /\ sent \in 0 .. MaxSent
      <3>1. sent \in 0 .. MaxSent /\ past \subseteq 1 .. sent /\ lost \subseteq 1 .. sent
        BY <2>1 DEF Fits
      <3>2. 1 .. sent \subseteq 1 .. MaxSent
        BY <3>1, Bounds
      <3> QED  BY <3>1, <3>2
    <2> QED  BY <2>1, <2>2, <2>3, <2>4, <2>5 DEF TypeOK, Labels, Fits, Types
  <1> QED  BY <1>1, Invariance, StreamInvariance, PTL
=============================================================================
