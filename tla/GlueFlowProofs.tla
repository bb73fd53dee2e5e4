---------------------------- MODULE GlueFlowProofs ----------------------------
(***************************************************************************)
(* Proofs about GlueFlow, for any set of character operations and however  *)
(* many calls the scripts make between two pumps: no phase is without its  *)
(* future, the main thread waits for its phase's operation only after it   *)
(* told it to stop, and what was cancelled is never taken up.              *)
(*                                                                         *)
(* The last is an action property.  It needs CancelledIsTold: between the  *)
(* cancel and the result the flag, which every start lowers, stays up for  *)
(* as long as the phase is the cancelled operation's.                      *)
(***************************************************************************)
EXTENDS GlueFlow, TLAPS

LEMMA OpsFacts ==
  /\ {"auth", "realm", "connect", "list"} \subseteq Ops
  /\ Character \subseteq Ops /\ Patient \subseteq Ops
  /\ "idle" \notin Ops
  /\ Character \cap {"auth", "realm", "connect", "idle"} = {}
BY CharacterAssumption DEF Ops, Patient

LEMMA PumpLength == Len(Pump) = 19
BY DEF Pump

\* The pump goes on from the place it has reached.
LEMMA PumpMoves ==
  ASSUME TypeOK, NEW what, NEW x, Reaches(what, x), GoesOn(what, x)
  PROVE  at' \in 0..Len(Pump)
<1>1. PICK i \in (at + 1)..Len(Pump) : Pump[i] = <<what, x>>
  BY DEF Reaches
<1>2. at \in 0..Len(Pump)
  BY DEF TypeOK
<1>3. i \in 1..Len(Pump)
  BY <1>2, PumpLength
<1>4. at' \in 1..Len(Pump)
  BY <1>1, <1>3, Zenon DEF GoesOn
<1>5. QED
  BY <1>4, PumpLength
-----------------------------------------------------------------------------
LEMMA InitEstablishes == Init => IInv
<1> SUFFICES ASSUME Init PROVE IInv
  OBVIOUS
<1>1. TypeOK
  <2>1. \A o \in Ops \ Patient : future[o] # "waits"
    BY DEF Init
  <2>2. at \in 0..Len(Pump)
    <3>1. 0 \in 0..19
      OBVIOUS
    <3>2. QED
      BY <3>1, PumpLength, Zenon DEF Init
  <2>3. QED
    BY <2>1, <2>2 DEF Init, TypeOK
<1>2. PhaseHasFuture /\ JoinsAreCancelled /\ CancelledIsTold
  BY DEF Init, PhaseHasFuture, JoinsAreCancelled, CancelledIsTold
<1>3. QED
  BY <1>1, <1>2 DEF IInv

\* Scripts run between two pumps: no future goes, and CGlueMgr's state may become
\* anything, as no part of the invariant speaks of it.
LEMMA ScriptsPreserve ==
  ASSUME IInv, Scripts
  PROVE  IInv'
<1> USE OpsFacts DEF IInv, TypeOK, PhaseHasFuture, JoinsAreCancelled, CancelledIsTold,
                     Alive, ScriptRuns, Cancels
<1>1. CASE DefaultServerLogin
  BY <1>1 DEF DefaultServerLogin
<1>2. ASSUME NEW o \in Character \cup {"realm"}, Request(o)
      PROVE  IInv'
  BY <1>2 DEF Request
<1>3. CASE ConnectToRealm
  BY <1>3 DEF ConnectToRealm, Request
<1>4. ASSUME NEW c \in Cancels, Cancel(c)
      PROVE  IInv'
  BY <1>4 DEF Cancel
<1>5. CASE AnswerChallenge
  BY <1>5 DEF AnswerChallenge, flow, Patient
<1>6. QED
  BY <1>1, <1>2, <1>3, <1>4, <1>5 DEF Scripts

\* An operation moves only its own future, and lets it be.
LEMMA OperationsPreserve ==
  ASSUME IInv, QueueEnds \/ \E o \in Ops : Operation(o) \/ OperationWaits(o)
  PROVE  IInv'
<1> USE OpsFacts DEF IInv, TypeOK, PhaseHasFuture, JoinsAreCancelled, CancelledIsTold,
                     Alive, Becomes, flow
<1>1. CASE QueueEnds
  BY <1>1 DEF QueueEnds
<1>2. ASSUME NEW o \in Ops, OperationEnds(o)
      PROVE  IInv'
  BY <1>2 DEF OperationEnds
<1>3. ASSUME NEW o \in Ops, OperationSeesFlag(o)
      PROVE  IInv'
  BY <1>3 DEF OperationSeesFlag
<1>4. ASSUME NEW o \in Ops, OperationWaits(o)
      PROVE  IInv'
  BY <1>4 DEF OperationWaits
<1>5. QED
  BY <1>1, <1>2, <1>3, <1>4 DEF Operation

\* The four ways to cancel: the flag goes up with the phase's operation, or its future is
\* not among those that are destroyed.
LEMMA CancelsPreserve ==
  ASSUME IInv, TakeCancel \/ CancelGlueFlowNetworkOperations
  PROVE  IInv'
<1> USE OpsFacts DEF IInv, TypeOK, PhaseHasFuture, JoinsAreCancelled, CancelledIsTold,
                     Alive, Destroys, CancelsPhase
<1>1. CASE CancelGlueFlowNetworkOperations
  BY <1>1 DEF CancelGlueFlowNetworkOperations
<1>2. CASE TakeCancel
  <2>1. PICK c \in Cancels :
          /\ Reaches("take", c) /\ GoesOn("take", c)
          /\ wants' \subseteq wants
          /\ AbortLoginNetOperation \/ RequestLoginNetDisconnect \/ CancelByState
             \/ NothingChanges
          /\ UNCHANGED <<future, loggedOn>>
    BY <1>2 DEF TakeCancel, Cancels
  <2>2. at' \in 0..Len(Pump)
    BY <2>1, PumpMoves
  <2>3. after = "go on"
    BY <2>1 DEF Reaches
  <2>4. CASE AbortLoginNetOperation
    BY <2>1, <2>2, <2>3, <2>4 DEF AbortLoginNetOperation
  <2>5. CASE CancelConnecting
    BY <2>1, <2>2, <2>3, <2>5 DEF CancelConnecting
  <2>6. CASE CancelRealmConnection
    BY <2>1, <2>2, <2>3, <2>6 DEF CancelRealmConnection
  <2>7. CASE RequestLoginNetDisconnect
    BY <2>1, <2>2, <2>3, <2>7 DEF RequestLoginNetDisconnect
  <2>8. CASE /\ glue' \in {glue, "idle"}
             /\ UNCHANGED <<phase, flag, connected, joining, after, cancelled>>
    <3>1. TypeOK'
      BY <2>1, <2>2, <2>8
    <3>2. QED
      BY <2>1, <2>8, <3>1
  <2>9. CASE CancelByState
    BY <2>4, <2>5, <2>6, <2>8, <2>9 DEF CancelByState
  <2>10. QED
    BY <2>1, <2>4, <2>7, <2>8, <2>9 DEF NothingChanges
<1>3. QED
  BY <1>1, <1>2

\* The main thread goes on when what it destroyed has ended: the phase that lost its
\* future is over with it, and a start has its own future at last.
LEMMA DestroyedPreserve ==
  ASSUME IInv, \/ LoginNetAborted \/ ConnectingCancelled \/ RealmCancelled
               \/ AllCancelled \/ Started
  PROVE  IInv'
<1> USE OpsFacts DEF IInv, PhaseHasFuture, JoinsAreCancelled, CancelledIsTold,
                     Alive, Destroyed, SetFlowPhase, Drop
<1>1. CASE LoginNetAborted \/ ConnectingCancelled \/ RealmCancelled \/ AllCancelled
  <2>1. /\ joining' = {} /\ after' = "go on" /\ phase' = "idle"
        /\ cancelled' = cancelled \ joining
        /\ future' = Drop(joining)
        /\ glue' \in Ops \cup {"idle"}
        /\ flag' \in BOOLEAN /\ loggedOn' \in BOOLEAN /\ connected' \in BOOLEAN
        /\ UNCHANGED <<wants, at>>
    BY <1>1
       DEF TypeOK, LoginNetAborted, ConnectingCancelled, RealmCancelled, AllCancelled
  <2>2. TypeOK'
    BY <2>1 DEF TypeOK
  <2>3. "idle" \notin cancelled'
    BY <2>2 DEF TypeOK
  <2>4. QED
    BY <2>1, <2>2, <2>3
<1>2. CASE Started
  <2>1. phase \in Ops /\ phase \notin cancelled \ joining
    BY <1>2 DEF Started, TypeOK
  <2>2. /\ joining' = {} /\ after' = "go on"
        /\ cancelled' = cancelled \ joining
        /\ future' = [Drop(joining) EXCEPT ![phase] = "runs"]
        /\ UNCHANGED <<phase, glue, flag, loggedOn, connected, wants, at>>
    BY <1>2 DEF Started, flow
  <2>3. TypeOK'
    BY <2>1, <2>2 DEF TypeOK
  <2>4. QED
    BY <2>1, <2>2, <2>3
<1>3. QED
  BY <1>1, <1>2

\* What every start has in common: if it goes ahead no phase was running, and a cancelled
\* operation of its kind is among the futures that go first.
LEMMA StartsPreserve ==
  ASSUME IInv, NEW o \in Ops, NEW old \in SUBSET Ops,
         Starts(o, old), o \in cancelled => o \in old,
         future' = future, wants' \subseteq wants, at' \in 0..Len(Pump),
         loggedOn' \in BOOLEAN, connected' \in BOOLEAN
  PROVE  IInv'
<1> USE OpsFacts DEF Starts, Destroys, SetFlowPhase, IInv
<1>1. TypeOK'
  BY DEF TypeOK, Alive
<1>2. PhaseHasFuture' /\ JoinsAreCancelled'
  BY DEF PhaseHasFuture, JoinsAreCancelled
<1>3. CancelledIsTold'
  BY DEF CancelledIsTold, TypeOK, Alive
<1>4. QED
  BY <1>1, <1>2, <1>3

\* A start that is refused changes nothing but what the scripts want.
LEMMA RefusedPreserves ==
  ASSUME IInv, UNCHANGED <<phase, flag, joining, cancelled, future>>,
         glue' \in Ops \cup {"idle"}, wants' \subseteq wants, at' \in 0..Len(Pump),
         after' = after \/ {after, after'} = {"go on", "mutex"},
         loggedOn' \in BOOLEAN, connected' \in BOOLEAN
  PROVE  IInv'
<1>1. TypeOK'
  BY DEF IInv, TypeOK, Alive
<1>2. PhaseHasFuture' /\ CancelledIsTold'
  BY DEF IInv, PhaseHasFuture, CancelledIsTold, Alive
<1>3. JoinsAreCancelled'
  BY DEF IInv, JoinsAreCancelled, TypeOK
<1>4. QED
  BY <1>1, <1>2, <1>3 DEF IInv

LEMMA StartingPreserves ==
  ASSUME IInv, \/ StartLogin \/ CanRequestRealmList \/ BeginRealmListFetch
               \/ StartConnect \/ StartCharacter
  PROVE  IInv'
<1> USE OpsFacts
<1>1. TypeOK /\ at \in 0..Len(Pump) /\ 0 \in 0..Len(Pump)
  <2>1. 0 \in 0..19
    OBVIOUS
  <2>2. QED
    BY <2>1, PumpLength, Zenon DEF IInv, TypeOK
<1>2. CASE StartLogin
  <2>1. at' \in 0..Len(Pump)
    BY <1>1, <1>2, PumpMoves DEF StartLogin
  <2>2. CASE Starts("auth", {"auth", "realm"})
    BY <1>1, <1>2, <2>1, <2>2, StartsPreserve DEF StartLogin, TypeOK
  <2>3. CASE Refused
    BY <1>1, <1>2, <2>1, <2>3, RefusedPreserves DEF StartLogin, Refused, TypeOK
  <2>4. QED
    BY <1>2, <2>2, <2>3 DEF StartLogin
<1>3. CASE CanRequestRealmList
  <2>1. at' \in 0..Len(Pump)
    BY <1>1, <1>3, PumpMoves DEF CanRequestRealmList
  <2>2. QED
    BY <1>1, <1>3, <2>1, RefusedPreserves DEF CanRequestRealmList, Reaches, TypeOK, flow
<1>4. CASE BeginRealmListFetch
  <2>1. CASE Starts("realm", {"realm"})
    BY <1>1, <1>4, <2>1, StartsPreserve DEF BeginRealmListFetch, Returns, TypeOK
  <2>2. CASE after' = "go on" /\ UNCHANGED <<phase, glue, flag, joining, cancelled>>
    BY <1>1, <1>4, <2>2, RefusedPreserves DEF BeginRealmListFetch, Returns, TypeOK
  <2>3. QED
    BY <1>4, <2>1, <2>2 DEF BeginRealmListFetch
<1>5. CASE StartConnect
  <2>1. CASE Starts("connect", {}) /\ ~Alive("connect") /\ GoesOn("take", "connect")
    <3>1. at' \in 0..Len(Pump)
      BY <1>1, <1>5, <2>1, PumpMoves DEF StartConnect
    <3>2. "connect" \notin cancelled
      BY <1>1, <2>1 DEF TypeOK
    <3>3. QED
      BY <1>1, <1>5, <2>1, <3>1, <3>2, StartsPreserve DEF StartConnect, TypeOK
  <2>2. CASE Refused /\ Returns
    BY <1>1, <1>5, <2>2, RefusedPreserves DEF StartConnect, Refused, Returns, TypeOK
  <2>3. QED
    BY <1>5, <2>1, <2>2 DEF StartConnect
<1>6. CASE StartCharacter
  <2>1. PICK o \in Character :
          /\ Reaches("take", o)
          /\ wants' = wants \ {o}
          /\ \/ Starts(o, {o}) /\ GoesOn("take", o)
             \/ Refused /\ (GoesOn("take", o) \/ Returns)
          /\ UNCHANGED <<future, loggedOn, connected>>
    BY <1>6 DEF StartCharacter
  <2>2. at' \in 0..Len(Pump)
    BY <1>1, <2>1, PumpMoves DEF Returns
  <2>3. CASE Starts(o, {o})
    BY <1>1, <2>1, <2>2, <2>3, StartsPreserve DEF TypeOK
  <2>4. CASE Refused
    BY <1>1, <2>1, <2>2, <2>4, RefusedPreserves DEF Refused, TypeOK
  <2>5. QED
    BY <2>1, <2>3, <2>4
<1>7. QED
  BY <1>2, <1>3, <1>4, <1>5, <1>6

\* A result that is taken ends its phase; the future and the note of its cancel go with it.
LEMMA TakingPreserves ==
  ASSUME IInv, NEW o \in Ops,
         future' = Drop({o}), cancelled' = cancelled \ {o}, after = "go on",
         phase' = "idle" \/ (phase' = phase /\ phase # o),
         phase' # "idle" => flag' = flag,
         joining' = joining, after' = after,
         glue' \in Ops \cup {"idle"}, flag' \in BOOLEAN,
         wants' \subseteq Ops \cup Cancels, at' \in 0..Len(Pump),
         loggedOn' \in BOOLEAN, connected' \in BOOLEAN
  PROVE  IInv'
<1>1. TypeOK'
  BY OpsFacts DEF IInv, TypeOK, Alive, Drop
<1>2. "idle" \notin cancelled'
  BY <1>1, OpsFacts DEF TypeOK
<1>3. PhaseHasFuture'
  BY DEF IInv, PhaseHasFuture, Alive, Drop, TypeOK
<1>4. JoinsAreCancelled'
  BY DEF JoinsAreCancelled
<1>5. CancelledIsTold'
  <2>1. SUFFICES ASSUME NEW p \in cancelled', phase' = p
                 PROVE  flag'
    BY DEF CancelledIsTold
  <2>2. p \in cancelled /\ phase = p /\ flag' = flag
    BY <1>2, <2>1
  <2>3. QED
    BY <2>2 DEF IInv, CancelledIsTold
<1>6. QED
  BY <1>1, <1>3, <1>4, <1>5 DEF IInv

LEMMA ResultsPreserve ==
  ASSUME IInv, \/ FinishAuth \/ FinishRealm \/ FinishConnect \/ FinishList
               \/ FinishCharacter \/ DrainStaleConnect \/ PumpEnds
  PROVE  IInv'
<1> USE OpsFacts
<1>1. TypeOK /\ 0 \in 0..Len(Pump)
  <2>1. 0 \in 0..19
    OBVIOUS
  <2>2. QED
    BY <2>1, PumpLength, Zenon DEF IInv
<1>2. CASE FinishAuth
  <2>1. /\ future' = Drop({"auth"}) /\ cancelled' = cancelled \ {"auth"}
        /\ after = "go on" /\ after' = after /\ joining' = joining
        /\ phase' = "idle" /\ glue' = "idle" /\ at' = 0
        /\ loggedOn' \in BOOLEAN /\ connected' \in {connected, FALSE}
        /\ flag' \in {flag, FALSE} /\ wants' \subseteq wants \cup {"connect"}
    BY <1>2 DEF FinishAuth, Takes, Reaches, Returns, Ends, SetFlowPhase
  <2>2. QED
    BY <1>1, <2>1, TakingPreserves DEF TypeOK
<1>3. CASE FinishRealm
  <2>1. /\ future' = Drop({"realm"}) /\ cancelled' = cancelled \ {"realm"}
        /\ after = "go on" /\ after' = after /\ joining' = joining
        /\ phase' = "idle" /\ glue' = "idle"
        /\ loggedOn' \in BOOLEAN
        /\ flag' \in {flag, FALSE} /\ UNCHANGED <<wants, connected>>
    BY <1>1, <1>3 DEF FinishRealm, Takes, Reaches, Ends, SetFlowPhase, TypeOK
  <2>2. at' \in 0..Len(Pump)
    BY <1>1, <1>3, PumpMoves DEF FinishRealm, Takes, Returns
  <2>3. QED
    BY <1>1, <2>1, <2>2, TakingPreserves DEF TypeOK
<1>4. CASE FinishConnect
  <2>1. /\ future' = Drop({"connect"}) /\ cancelled' = cancelled \ {"connect"}
        /\ after = "go on" /\ after' = after /\ joining' = joining
        /\ phase' = "idle" /\ glue' = "idle" /\ at' = 0
        /\ connected' \in BOOLEAN
        /\ flag' \in {flag, FALSE} /\ UNCHANGED <<wants, loggedOn>>
    BY <1>1, <1>4 DEF FinishConnect, Takes, Reaches, Returns, Ends, SetFlowPhase, TypeOK
  <2>2. QED
    BY <1>1, <2>1, TakingPreserves DEF TypeOK
<1>5. CASE FinishList
  <2>1. /\ future' = Drop({"list"}) /\ cancelled' = cancelled \ {"list"}
        /\ after = "go on" /\ after' = after /\ joining' = joining
        /\ phase' = "idle" /\ glue' = "idle"
        /\ flag' = FALSE /\ UNCHANGED <<wants, loggedOn, connected>>
    BY <1>5 DEF FinishList, Takes, Reaches, Ends, SetFlowPhase
  <2>2. at' \in 0..Len(Pump)
    BY <1>1, <1>5, PumpMoves DEF FinishList, Takes, Returns
  <2>3. QED
    BY <1>1, <2>1, <2>2, TakingPreserves DEF TypeOK
<1>6. CASE FinishCharacter
  <2>1. PICK o \in Character \ {"list"} :
          /\ Takes(o) /\ GoesOn("end", o)
          /\ \/ Ends("idle") /\ UNCHANGED <<flag, wants>>
             \/ /\ flag' = FALSE
                /\ SetFlowPhase("list")
                /\ Destroys({"list"}, "start")
                /\ wants' = wants \ {"list"}
          /\ UNCHANGED <<loggedOn, connected>>
    BY <1>6 DEF FinishCharacter
  <2>2. /\ future' = Drop({o}) /\ cancelled' = cancelled \ {o}
        /\ after = "go on" /\ Reaches("end", o)
    BY <2>1 DEF Takes, Reaches
  <2>3. at' \in 0..Len(Pump)
    BY <1>1, <2>1, <2>2, PumpMoves
  <2>4. CASE Ends("idle") /\ UNCHANGED <<flag, wants>>
    BY <1>1, <2>1, <2>2, <2>3, <2>4, TakingPreserves DEF TypeOK, Ends, SetFlowPhase
  <2>5. CASE SetFlowPhase("list") /\ Destroys({"list"}, "start")
    <3>0. flag' = FALSE /\ wants' \subseteq wants
      BY <2>1, <2>5 DEF Ends, SetFlowPhase, Destroys
    <3>1. TypeOK'
      <4>1. joining' \subseteq Ops /\ after' = "start" /\ phase' = "list" /\ glue' = "list"
        BY <2>5 DEF Destroys, SetFlowPhase
      <4>2. /\ future' \in [Ops -> {"none", "runs", "waits", "done"}]
            /\ \A p \in Ops \ Patient : future'[p] # "waits"
        BY <1>1, <2>2 DEF TypeOK, Drop
      <4>3. cancelled' \subseteq {p \in Patient : Alive(p)'}
        BY <1>1, <2>2 DEF TypeOK, Alive, Drop
      <4>4. QED
        BY <1>1, <2>1, <2>3, <3>0, <4>1, <4>2, <4>3 DEF TypeOK
    <3>2. "list" \notin cancelled
      BY <1>1 DEF TypeOK, Patient
    <3>3. QED
      BY <2>2, <2>5, <3>1, <3>2
         DEF IInv, PhaseHasFuture, JoinsAreCancelled, CancelledIsTold, Destroys, SetFlowPhase
  <2>6. QED
    BY <2>1, <2>4, <2>5
<1>7. CASE DrainStaleConnect
  <2>1. at' \in 0..Len(Pump)
    BY <1>1, <1>7, PumpMoves DEF DrainStaleConnect
  <2>2. phase # "connect" /\ after = "go on"
    <3>1. PICK i \in (at + 1)..Len(Pump) : Pump[i] = <<"drain", "connect">> /\ Due(i)
      BY <1>7, Zenon DEF DrainStaleConnect, Reaches
    <3>2. Pump[i][1] = "drain" /\ Pump[i][2] = "connect"
      BY <3>1
    <3>3. phase # "connect"
      BY <3>1, <3>2 DEF Due
    <3>4. QED
      BY <1>7, <3>3 DEF DrainStaleConnect, Reaches
  <2>3. QED
    BY <1>1, <1>7, <2>1, <2>2, TakingPreserves DEF DrainStaleConnect, TypeOK, flow
<1>8. CASE PumpEnds
  BY <1>1, <1>8, RefusedPreserves DEF PumpEnds, Returns, TypeOK, flow
<1>9. QED
  BY <1>2, <1>3, <1>4, <1>5, <1>6, <1>7, <1>8
-----------------------------------------------------------------------------
LEMMA StepPreserves == IInv /\ [Next]_vars => IInv'
<1>1. ASSUME IInv, UNCHANGED vars
      PROVE  IInv'
  BY <1>1
     DEF vars, flow, IInv, TypeOK, PhaseHasFuture, JoinsAreCancelled, CancelledIsTold, Alive
<1>2. QED
  BY <1>1, ScriptsPreserve, OperationsPreserve, CancelsPreserve, DestroyedPreserve,
     StartingPreserves, ResultsPreserve
     DEF Next, Inputs, MainThread

(***************************************************************************)
(* However the scripts' calls and the operations' ends fall between the    *)
(* pumps, the flow is never in a phase without the future that ends it,    *)
(* the main thread never blocks on its phase's operation before it told it *)
(* to stop, and a cancelled operation that still has the phase finds the   *)
(* flag up.  (PumpGlueFlow, CancelByState, AbortLoginNetOperation)         *)
(***************************************************************************)
THEOREM Invariance == Spec => []IInv
<1> USE InitEstablishes, StepPreserves
<1>1. QED
  BY PTL DEF Spec
-----------------------------------------------------------------------------
\* Only a result that is taken up logs on or connects, and only with the flag down.
LEMMA OnlyUncancelledCounts ==
  ASSUME IInv, [Next]_vars
  PROVE  NotTakenUp
<1> USE DEF NotTakenUp
<1>3. loggedOn \in BOOLEAN /\ connected \in BOOLEAN
  BY DEF IInv, TypeOK
<1>1. ASSUME FinishAuth, "auth" \in cancelled
      PROVE  loggedOn' = FALSE
  <2>1. PICK i \in (at + 1)..Len(Pump) : Pump[i] = <<"end", "auth">> /\ Due(i)
    BY <1>1, Zenon DEF FinishAuth, Takes, Reaches
  <2>2. Pump[i][1] = "end" /\ Pump[i][2] = "auth"
    BY <2>1
  <2>3. phase = "auth" /\ after = "go on"
    BY <1>1, <2>1, <2>2 DEF Due, FinishAuth, Takes, Reaches
  <2>4. flag
    BY <1>1, <2>3 DEF IInv, CancelledIsTold
  <2>5. QED
    BY <1>1, <2>4 DEF FinishAuth, Discards
<1>2. ASSUME FinishConnect, "connect" \in cancelled
      PROVE  connected' = connected
  <2>1. PICK i \in (at + 1)..Len(Pump) : Pump[i] = <<"end", "connect">> /\ Due(i)
    BY <1>2, Zenon DEF FinishConnect, Takes, Reaches
  <2>2. Pump[i][1] = "end" /\ Pump[i][2] = "connect"
    BY <2>1
  <2>3. phase = "connect" /\ after = "go on"
    BY <1>2, <2>1, <2>2 DEF Due, FinishConnect, Takes, Reaches
  <2>4. flag
    BY <1>2, <2>3 DEF IInv, CancelledIsTold
  <2>5. QED
    BY <1>2, <2>4 DEF FinishConnect, Discards
<1>4. CASE Scripts
  BY <1>4 DEF Scripts, DefaultServerLogin, Request, ConnectToRealm, Cancel, AnswerChallenge,
              ScriptRuns, flow
<1>5. CASE TakeCancel
  <2>1. loggedOn' = loggedOn
    BY <1>5 DEF TakeCancel
  <2>2. \/ AbortLoginNetOperation \/ RequestLoginNetDisconnect \/ CancelByState
        \/ NothingChanges
    BY <1>5 DEF TakeCancel, Cancels
  <2>3. connected' \in {connected, FALSE}
    BY <1>3, <2>2 DEF AbortLoginNetOperation, RequestLoginNetDisconnect, CancelByState,
                NothingChanges, CancelConnecting, CancelRealmConnection
  <2>4. QED
    BY <2>1, <2>3
<1>6. CASE \/ LoginNetAborted \/ ConnectingCancelled \/ RealmCancelled \/ AllCancelled
           \/ Started
  BY <1>6 DEF LoginNetAborted, ConnectingCancelled, RealmCancelled, AllCancelled, Started, flow
<1>7. CASE \/ StartLogin \/ CanRequestRealmList \/ BeginRealmListFetch \/ StartConnect
           \/ StartCharacter
  BY <1>7, Zenon DEF StartLogin, CanRequestRealmList, BeginRealmListFetch, StartConnect,
              StartCharacter, flow
<1>8. CASE FinishAuth
  BY <1>3, <1>1, <1>8 DEF FinishAuth
<1>9. CASE FinishConnect
  BY <1>2, <1>9 DEF FinishConnect
<1>10. CASE \/ FinishRealm \/ FinishList \/ FinishCharacter \/ DrainStaleConnect \/ PumpEnds
  BY <1>3, <1>10 DEF FinishRealm, FinishList, FinishCharacter, DrainStaleConnect, PumpEnds, flow
<1>11. CASE QueueEnds \/ \E o \in Ops : Operation(o) \/ OperationWaits(o)
  BY <1>11 DEF QueueEnds, Operation, OperationEnds, OperationSeesFlag, OperationWaits,
               Becomes, flow
<1>12. CASE CancelGlueFlowNetworkOperations
  BY <1>12 DEF CancelGlueFlowNetworkOperations
<1>13. CASE UNCHANGED vars
  BY <1>13 DEF vars, flow
<1>14. QED
  BY <1>4, <1>5, <1>6, <1>7, <1>8, <1>9, <1>10, <1>11, <1>12, <1>13
     DEF Next, Inputs, MainThread

(***************************************************************************)
(* A logon or a realm connection that was cancelled is never taken up:     *)
(* whatever is started, cancelled or finished between the cancel and its   *)
(* result, the result does not log on or connect.  (CancelByState,         *)
(* PumpGlueFlow, cancel_requested)                                         *)
(***************************************************************************)
THEOREM CancelledIsNotTakenUp == Spec => CancelledStaysCancelled
<1>1. IInv /\ [Next]_vars => [NotTakenUp]_vars
  BY OnlyUncancelledCounts
<1>2. QED
  BY <1>1, Invariance, PTL DEF Spec, CancelledStaysCancelled
=============================================================================
