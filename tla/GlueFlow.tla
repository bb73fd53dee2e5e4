------------------------------ MODULE GlueFlow ------------------------------
(***************************************************************************)
(* The glue flow: the client's main thread takes the calls of the login,   *)
(* realm and character screens' scripts, runs one network operation at a   *)
(* time on a thread of its own (std::async) and shows its result.          *)
(*                                                                         *)
(* Three pieces of state have to agree and are written by different hands: *)
(*   - phase, the operation the flow thinks it is running (GlueFlowState); *)
(*   - glue, the state of CGlueMgr, which the scripts' calls set at once   *)
(*     and by which a cancel decides what there is to cancel;              *)
(*   - the futures: destroying one whose operation still runs BLOCKS the   *)
(*     main thread until it ends.                                          *)
(* One flag, cancel_requested, is read by every operation and is lowered   *)
(* whenever any of them starts.                                            *)
(*                                                                         *)
(* Operations are what the flow sees of them: running with a deadline,     *)
(* waiting without one (a logon for the player's PIN, matrix or token, a   *)
(* realm connection in the realm's queue), or done.  "create" stands for   *)
(* the creation of a character, "rename" for the rename, the declension    *)
(* and the paid changes, whose code is the same.  Entering the world is    *)
(* PacketPipeline's; the login patch and the timed disconnect are left     *)
(* out.  What scripts call in the events that a pump fires counts as       *)
(* called before the next pump, except for the realm that is picked after  *)
(* a logon.                                                                *)
(***************************************************************************)
EXTENDS Naturals, Sequences, FiniteSets

CONSTANTS
  Character,  \* the character operations there are
  MaxCalls    \* bound on the calls of each kind, a start or a cancel, that
              \* the flow has not looked at yet

ASSUME CharacterAssumption ==
  /\ Character \subseteq {"list", "create", "delete", "rename"}
  /\ "list" \in Character
ASSUME CallsAssumption == MaxCalls \in Nat

Ops       == {"auth", "realm", "connect"} \cup Character

(***************************************************************************)
(* The operations that may wait without a deadline, for the player or for  *)
(* the realm's queue: they look at cancel_requested while they do.  (A     *)
(* cancel that raises it also breaks their I/O off, CancelPendingIo, which *)
(* only makes them end sooner.)                                            *)
(***************************************************************************)
Patient == {"auth", "connect"}

(***************************************************************************)
(* What the scripts can leave for the pump: the start of an operation, or  *)
(* one of four ways to cancel.                                             *)
(***************************************************************************)
Cancels == {"StatusDialogClick", "CancelLogin", "CancelRealmListQuery",
            "RealmListDialogCancelled"}

(***************************************************************************)
(* The order in which one call of PumpGlueFlow looks at things: what the   *)
(* scripts asked for, and whether the phase's operation is done.           *)
(***************************************************************************)
Pump == << <<"drain", "connect">>,
           <<"take", "CancelRealmListQuery">>,
           <<"take", "RealmListDialogCancelled">>,
           <<"take", "CancelLogin">>, <<"take", "StatusDialogClick">>,
           <<"take", "auth">>,   <<"take", "list">>,
           <<"end", "auth">>,    <<"end", "realm">>,
           <<"take", "realm">>,  <<"take", "connect">>,
           <<"end", "connect">>, <<"end", "list">>,
           <<"take", "create">>, <<"end", "create">>,
           <<"take", "delete">>, <<"end", "delete">>,
           <<"take", "rename">>, <<"end", "rename">> >>

VARIABLES
  phase,      \* GlueFlowState::phase
  glue,       \* CGlueMgr's current_state
  flag,       \* GlueFlowState::cancel_requested
  future,     \* operation |-> its future: "none", "runs", "waits", "done"
  wants,      \* the wants_* flags the scripts have raised
  loggedOn,   \* auth_protocol can ask for a realm list again
  connected,  \* GlueGameState::connected
  at,         \* how far the current pump has got; 0 between two pumps
  joining,    \* the operations whose futures the main thread is destroying
  after,      \* what it does when it need not wait any more
  cancelled   \* (history) logon or connection cancelled, its future still there

flow  == <<phase, glue, flag, loggedOn, connected>>
vars  == <<flow, future, wants, at, joining, after, cancelled>>

Alive(o)   == future[o] # "none"
Running(o) == future[o] \in {"runs", "waits"}

TypeOK ==
  /\ phase \in Ops \cup {"idle"}
  /\ glue \in Ops \cup {"idle"}
  /\ flag \in BOOLEAN /\ loggedOn \in BOOLEAN
  /\ connected \in BOOLEAN
  /\ future \in [Ops -> {"none", "runs", "waits", "done"}]
  /\ \A o \in Ops \ Patient : future[o] # "waits"
  /\ wants \subseteq Ops \cup Cancels
  /\ at \in 0..Len(Pump)
  /\ joining \subseteq Ops
  /\ after \in {"go on", "login", "connecting", "realm", "all", "start", "mutex"}
  /\ after \in {"go on", "mutex"} => joining = {}
  /\ cancelled \subseteq {o \in Patient : Alive(o)}

(***************************************************************************)
(* The login screen, some time after an earlier logon (the realm list is   *)
(* known, so a script may pick a realm).                                   *)
(***************************************************************************)
Init ==
  /\ phase = "idle" /\ glue = "idle"
  /\ flag = FALSE /\ loggedOn = FALSE /\ connected = FALSE
  /\ future = [o \in Ops |-> "none"]
  /\ wants = {}
  /\ at = 0 /\ joining = {} /\ after = "go on"
  /\ cancelled = {}

-----------------------------------------------------------------------------
(* The scripts' calls.  They run on the main thread, between two pumps,    *)
(* and set CGlueMgr's state by themselves.                                 *)

Kind(w) == IF w \in Cancels THEN Cancels ELSE Ops

ScriptRuns(w) ==
  /\ after = "go on" /\ at = 0
  /\ w \in wants \/ Cardinality(wants \cap Kind(w)) < MaxCalls
  /\ wants' = wants \cup {w}
  /\ UNCHANGED <<phase, flag, future, loggedOn, at, joining, after, cancelled>>

DefaultServerLogin ==
  /\ glue = "idle"
  /\ glue' = "auth"
  /\ ScriptRuns("auth")
  /\ UNCHANGED connected

Request(o) ==
  /\ glue' = o
  /\ ScriptRuns(o)
  /\ UNCHANGED connected

(***************************************************************************)
(* Picking a realm while one is connected only takes note that it is to be *)
(* left: the disconnect it waits for is one that the world reports, not    *)
(* the glue, so it takes a second pick.                                    *)
(***************************************************************************)
ConnectToRealm ==
  \/ ~connected /\ Request("connect")
  \/ /\ connected
     /\ after = "go on" /\ at = 0
     /\ connected' = FALSE
     /\ UNCHANGED <<phase, glue, flag, loggedOn, future, wants, at, joining,
                    after, cancelled>>

Cancel(c) ==
  /\ ScriptRuns(c)
  /\ UNCHANGED <<glue, connected>>

(***************************************************************************)
(* The player answers the logon's challenge, through a script.             *)
(***************************************************************************)
AnswerChallenge ==
  /\ after = "go on" /\ at = 0
  /\ future["auth"] = "waits"
  /\ future' = [future EXCEPT !["auth"] = "runs"]
  /\ UNCHANGED <<flow, wants, at, joining, after, cancelled>>

Scripts ==
  \/ DefaultServerLogin
  \/ \E o \in Character \cup {"realm"} : Request(o)
  \/ ConnectToRealm
  \/ \E c \in Cancels : Cancel(c)
  \/ AnswerChallenge

-----------------------------------------------------------------------------
(* Where the pump stands.                                                  *)

Due(i) ==
  LET what == Pump[i][1]
      x    == Pump[i][2]
  IN \/ what = "take"  /\ x \in wants
     \/ what = "end"   /\ phase = x /\ future[x] = "done"
     \/ what = "drain" /\ phase # x /\ future[x] = "done"

(***************************************************************************)
(* The pump comes to the next thing it has something to do for, and goes   *)
(* on after it or, with an early return, ends.                             *)
(***************************************************************************)
Reaches(what, x) ==
  /\ after = "go on"
  /\ \E i \in (at + 1)..Len(Pump) :
        /\ Pump[i] = <<what, x>>
        /\ Due(i)
        /\ \A j \in (at + 1)..(i - 1) : ~Due(j)
GoesOn(what, x) == at' = CHOOSE i \in 1..Len(Pump) : Pump[i] = <<what, x>>
Returns == at' = 0

PumpEnds ==
  /\ after = "go on" /\ at > 0
  /\ \A i \in (at + 1)..Len(Pump) : ~Due(i)
  /\ Returns
  /\ UNCHANGED <<flow, future, wants, joining, after, cancelled>>

(***************************************************************************)
(* SetFlowPhase: CGlueMgr's state follows the phase.                       *)
(***************************************************************************)
SetFlowPhase(p) == phase' = p /\ glue' = p

Drop(os) == [o \in Ops |-> IF o \in os THEN "none" ELSE future[o]]

(***************************************************************************)
(* Destroying futures blocks the main thread until their operations have   *)
(* ended; what it does after that is what.                                 *)
(***************************************************************************)
Destroys(os, what) ==
  /\ joining' = {o \in os : Alive(o)}
  /\ after' = what
Destroyed(what) ==
  /\ after = what
  /\ \A o \in joining : future[o] = "done"
  /\ joining' = {} /\ after' = "go on"
  /\ cancelled' = cancelled \ joining
  /\ UNCHANGED <<wants, at>>

-----------------------------------------------------------------------------
(* Cancelling.                                                             *)

CancelsPhase ==
  cancelled' = cancelled \cup {o \in Patient : phase = o /\ Alive(o)}

(***************************************************************************)
(* ResetLoginNetFutures: for a logon and for a realm list query.           *)
(***************************************************************************)
AbortLoginNetOperation ==
  /\ flag' = TRUE
  /\ Destroys({"auth", "realm"}, "login")
  /\ CancelsPhase
  /\ UNCHANGED <<phase, glue, connected>>
LoginNetAborted ==
  /\ Destroyed("login")
  /\ future' = Drop(joining)
  /\ loggedOn' = FALSE
  /\ SetFlowPhase("idle")
  /\ UNCHANGED <<flag, connected>>

(***************************************************************************)
(* A realm connection or a character list.  CGlueMgr's state says that it  *)
(* is one of these; the flag goes up only if the phase says so too, and    *)
(* both futures are destroyed whatever it says.                            *)
(***************************************************************************)
\* slip: the flag goes up for a realm connection only
ConnectOnlyCancelled ==
  /\ flag' = (flag \/ phase = "connect")
  /\ connected' = (connected /\ phase # "connect")
  /\ Destroys({"connect", "list"}, "connecting")
  /\ CancelsPhase
  /\ UNCHANGED <<phase, glue>>
CancelConnecting ==
  /\ flag' = (flag \/ phase \in {"connect", "list"})
  /\ connected' = (connected /\ phase # "connect")
  /\ Destroys({"connect", "list"}, "connecting")
  /\ CancelsPhase
  /\ UNCHANGED <<phase, glue>>
ConnectingCancelled ==
  /\ Destroyed("connecting")
  /\ future' = Drop(joining)
  /\ flag' = (flag /\ phase # "list")
  /\ SetFlowPhase("idle")
  /\ UNCHANGED <<loggedOn, connected>>

(***************************************************************************)
(* The creation or the deletion of a character: the realm is left.         *)
(***************************************************************************)
CancelRealmConnection ==
  /\ flag' = TRUE
  /\ Destroys({"connect"} \cup Character, "realm")
  /\ CancelsPhase
  /\ UNCHANGED <<phase, glue, connected>>
RealmCancelled ==
  /\ Destroyed("realm")
  /\ future' = Drop(joining)
  /\ connected' = FALSE
  /\ SetFlowPhase("idle")
  /\ UNCHANGED <<flag, loggedOn>>

(***************************************************************************)
(* The rename's cancel puts CGlueMgr's state back and lets the rename run. *)
(***************************************************************************)
CancelByState ==
  \/ /\ glue = "idle"
     /\ UNCHANGED <<phase, glue, flag, connected, joining, after, cancelled>>
  \/ glue \in {"auth", "realm"} /\ AbortLoginNetOperation
  \/ glue \in {"connect", "list"} /\ CancelConnecting
  \/ glue \in {"create", "delete"} /\ CancelRealmConnection
  \/ /\ glue = "rename"
     /\ glue' = "idle"
     /\ UNCHANGED <<phase, flag, connected, joining, after, cancelled>>

(***************************************************************************)
(* RequestLoginNetDisconnect: the flag goes up for a logon or a realm list *)
(* query; whoever sees its result throws it away.                          *)
(***************************************************************************)
RequestLoginNetDisconnect ==
  /\ flag' = (flag \/ phase \in {"auth", "realm"})
  /\ IF phase \in {"auth", "realm"} THEN CancelsPhase ELSE UNCHANGED cancelled
  /\ UNCHANGED <<phase, glue, connected, joining, after>>

NothingChanges == UNCHANGED <<phase, glue, flag, connected, joining, after, cancelled>>

TakeCancel ==
  \E c \in Cancels :
    /\ Reaches("take", c) /\ GoesOn("take", c)
    /\ wants' = wants \ ({c} \cup (IF \/ c = "StatusDialogClick"
                                      \/ c = "CancelLogin" /\ phase = "auth"
                                   THEN {"auth"} ELSE {}))
    /\ CASE c = "CancelRealmListQuery" ->
              IF phase = "realm" THEN AbortLoginNetOperation ELSE NothingChanges
         [] c = "RealmListDialogCancelled" -> RequestLoginNetDisconnect
         [] c = "CancelLogin" ->
              IF phase = "auth" THEN CancelByState ELSE NothingChanges
         [] c = "StatusDialogClick" -> CancelByState
    /\ UNCHANGED <<future, loggedOn>>

(***************************************************************************)
(* Escape on the realm screen ends whatever runs.  CGlueMgr's state is     *)
(* left as it was.                                                         *)
(***************************************************************************)
CancelGlueFlowNetworkOperations ==
  /\ after = "go on" /\ at = 0
  /\ flag' = TRUE
  /\ Destroys(Ops, "all")
  /\ CancelsPhase
  /\ UNCHANGED <<phase, glue, connected, loggedOn, future, wants, at>>
AllCancelled ==
  /\ Destroyed("all")
  /\ future' = Drop(joining)
  /\ loggedOn' = FALSE /\ connected' = FALSE
  /\ phase' = "idle"
  /\ UNCHANGED <<glue, flag>>

-----------------------------------------------------------------------------
(* Starting.                                                               *)

(***************************************************************************)
(* An operation starts: the flag is lowered, the phase is its own, and a   *)
(* future of its kind that is still there is destroyed first.              *)
(***************************************************************************)
Starts(o, old) ==
  /\ flag' = FALSE
  /\ SetFlowPhase(o)
  /\ Destroys(old, "start")
  /\ UNCHANGED cancelled
Started ==
  /\ Destroyed("start")
  /\ future' = [Drop(joining) EXCEPT ![phase] = "runs"]
  /\ UNCHANGED flow

Refused == UNCHANGED <<phase, glue, flag, joining, after, cancelled>>

StartLogin ==
  /\ Reaches("take", "auth") /\ GoesOn("take", "auth")
  /\ wants' = wants \ {"auth"}
  /\ IF phase = "idle"
     THEN Starts("auth", {"auth", "realm"}) /\ loggedOn' = FALSE
     ELSE Refused /\ UNCHANGED loggedOn
  /\ UNCHANGED <<future, connected>>

(***************************************************************************)
(* Whether the realm list can be asked for is read under the mutex that a  *)
(* running logon or realm list query holds: the main thread waits for it   *)
(* to end before it looks at the phase.                                    *)
(***************************************************************************)
CanRequestRealmList ==
  /\ Reaches("take", "realm") /\ GoesOn("take", "realm")
  /\ wants' = wants \ {"realm"}
  /\ after' = "mutex"
  /\ UNCHANGED <<flow, future, joining, cancelled>>

BeginRealmListFetch ==
  /\ after = "mutex" /\ ~Running("auth") /\ ~Running("realm")
  /\ IF loggedOn /\ phase = "idle"
     THEN Starts("realm", {"realm"})
     ELSE after' = "go on" /\ UNCHANGED <<phase, glue, flag, joining, cancelled>>
  /\ Returns
  /\ UNCHANGED <<future, wants, loggedOn, connected>>

StartConnect ==
  /\ Reaches("take", "connect")
  /\ wants' = wants \ {"connect"}
  /\ IF phase = "idle" /\ ~Alive("connect")
     THEN Starts("connect", {}) /\ GoesOn("take", "connect")
     ELSE Refused /\ Returns
  /\ UNCHANGED <<future, loggedOn, connected>>

(***************************************************************************)
(* A character list that cannot start is forgotten and the pump goes on;   *)
(* any other character operation that cannot start ends the pump.          *)
(***************************************************************************)
StartCharacter ==
  \E o \in Character :
    /\ Reaches("take", o)
    /\ wants' = wants \ {o}
    /\ IF phase = "idle"
       THEN Starts(o, {o}) /\ GoesOn("take", o)
       ELSE Refused /\ IF o = "list" THEN GoesOn("take", o) ELSE Returns
    /\ UNCHANGED <<future, loggedOn, connected>>

-----------------------------------------------------------------------------
(* Results.                                                                *)

Takes(o) ==
  /\ Reaches("end", o)
  /\ future' = Drop({o})
  /\ cancelled' = cancelled \ {o}
Ends(p) == SetFlowPhase(p) /\ UNCHANGED <<joining, after>>

(***************************************************************************)
(* A result found with the flag up is thrown away, and the flag lowered.   *)
(***************************************************************************)
\* slip: a success that came before the cancel counts
TakesSuccess(o) == flag /\ o # "auth"
Discards(o) == flag

(***************************************************************************)
(* A logon.  The screen that follows it may pick the realm of last time    *)
(* and ask to connect to it.                                               *)
(***************************************************************************)
FinishAuth ==
  /\ Takes("auth") /\ Returns /\ Ends("idle")
  /\ \/ /\ Discards("auth")
        /\ flag' = FALSE /\ loggedOn' = FALSE
        /\ UNCHANGED <<wants, connected>>
     \/ /\ ~Discards("auth")
        /\ loggedOn' = FALSE
        /\ UNCHANGED <<flag, wants, connected>>
     \/ /\ ~Discards("auth")
        /\ loggedOn' = TRUE /\ connected' = FALSE
        /\ \E picks \in SUBSET {"connect"} : wants' = (wants \ {"realm"}) \cup picks
        /\ UNCHANGED flag

FinishRealm ==
  /\ Takes("realm") /\ Ends("idle")
  /\ \/ /\ Discards("realm")
        /\ flag' = FALSE /\ loggedOn' = FALSE
        /\ Returns
     \/ /\ ~Discards("realm")
        /\ \E ok \in BOOLEAN : loggedOn' = (loggedOn /\ ok)
        /\ GoesOn("end", "realm")
        /\ UNCHANGED flag
  /\ UNCHANGED <<wants, connected>>

FinishConnect ==
  /\ Takes("connect") /\ Returns /\ Ends("idle")
  /\ \/ /\ Discards("connect")
        /\ flag' = FALSE
        /\ UNCHANGED connected
     \/ /\ ~Discards("connect")
        /\ connected' \in BOOLEAN
        /\ UNCHANGED flag
  /\ UNCHANGED <<wants, loggedOn>>

FinishList ==
  /\ Takes("list") /\ Ends("idle")
  /\ flag' = FALSE
  /\ IF Discards("list") THEN Returns ELSE Returns \/ GoesOn("end", "list")
  /\ UNCHANGED <<wants, loggedOn, connected>>

(***************************************************************************)
(* A character was created, renamed or deleted, or not.  After a deletion, *)
(* and when nobody knows whether there was one, the list is fetched again  *)
(* at once.                                                                *)
(***************************************************************************)
FinishCharacter ==
  \E o \in Character \ {"list"} :
    /\ Takes(o) /\ GoesOn("end", o)
    /\ \/ Ends("idle") /\ UNCHANGED <<flag, wants>>
       \/ /\ o = "delete"
          /\ flag' = FALSE
          /\ SetFlowPhase("list")
          /\ Destroys({"list"}, "start")
          /\ wants' = wants \ {"list"}
    /\ UNCHANGED <<loggedOn, connected>>

(***************************************************************************)
(* A realm connection that outlived its phase is dropped when it is done.  *)
(***************************************************************************)
DrainStaleConnect ==
  /\ Reaches("drain", "connect") /\ GoesOn("drain", "connect")
  /\ future' = Drop({"connect"})
  /\ cancelled' = cancelled \ {"connect"}
  /\ UNCHANGED <<flow, wants, joining, after>>

MainThread ==
  \/ DrainStaleConnect \/ TakeCancel
  \/ LoginNetAborted \/ ConnectingCancelled \/ RealmCancelled \/ AllCancelled
  \/ StartLogin \/ CanRequestRealmList \/ BeginRealmListFetch \/ StartConnect \/ StartCharacter \/ Started
  \/ FinishAuth \/ FinishRealm \/ FinishConnect \/ FinishList \/ FinishCharacter
  \/ PumpEnds

-----------------------------------------------------------------------------
(* The operations.                                                         *)

Becomes(o, s) ==
  /\ future' = [future EXCEPT ![o] = s]
  /\ UNCHANGED <<flow, wants, at, joining, after, cancelled>>

(***************************************************************************)
(* Every step of an operation has a deadline.  A realm connection in the   *)
(* queue holds the session's operation mutex, for which the character      *)
(* operations wait without one.                                            *)
(***************************************************************************)
OperationEnds(o) ==
  /\ future[o] = "runs"
  /\ o \in Character => future["connect"] # "waits"
  /\ Becomes(o, "done")

OperationWaits(o) ==
  /\ future[o] = "runs" /\ o \in Patient
  /\ Becomes(o, "waits")

(***************************************************************************)
(* The realm's queue lets the player in or sends him away.                 *)
(***************************************************************************)
QueueEnds ==
  /\ future["connect"] = "waits"
  /\ Becomes("connect", "done")

\* slip: only the logon's waits look at the flag
QueueIgnoresFlag(o) ==
  /\ future[o] = "waits" /\ flag /\ o = "auth"
  /\ Becomes(o, "done")
OperationSeesFlag(o) ==
  /\ future[o] = "waits" /\ flag
  /\ Becomes(o, "done")

Operation(o) == OperationEnds(o) \/ OperationSeesFlag(o)

Inputs == Scripts \/ CancelGlueFlowNetworkOperations

Next ==
  \/ Inputs
  \/ MainThread
  \/ QueueEnds
  \/ \E o \in Ops : Operation(o) \/ OperationWaits(o)

Spec == Init /\ [][Next]_vars
FairSpec ==
  /\ Spec
  /\ WF_vars(MainThread)
  /\ \A o \in Ops : WF_vars(Operation(o))

-----------------------------------------------------------------------------
(* Properties.                                                             *)

(***************************************************************************)
(* An operation that may never end: it waits for the player, for the       *)
(* realm's queue or behind a connection that does, and nobody has raised   *)
(* the flag.                                                               *)
(***************************************************************************)
Held(o) ==
  /\ ~flag
  /\ \/ future[o] = "waits"
     \/ o \in Character /\ future[o] = "runs" /\ future["connect"] = "waits"

(***************************************************************************)
(* Whatever the scripts call and in whatever order, the flow never gets    *)
(* stuck in a phase: a phase other than kIdle has a future, which the pump *)
(* of that phase will find done.  (PumpGlueFlow, CancelByState)            *)
(***************************************************************************)
PhaseHasFuture ==
  /\ after \in {"go on", "mutex"} /\ phase # "idle" => Alive(phase)
  /\ after = "start" => phase # "idle"

(***************************************************************************)
(* To cancel an operation the main thread destroys its future and waits.   *)
(* It does so to the phase's operation only once that one was told to      *)
(* stop, so no frame waits out a deadline, a queue or the player.          *)
(* (CancelByState, AbortLoginNetOperation, CancelRealmConnection)  What is *)
(* left are operations that outlived their phase, cancelled while          *)
(* CGlueMgr's state said something else ran, and the realm list's mutex.   *)
(***************************************************************************)
JoinsAreCancelled ==
  after # "go on" /\ ~flag =>
    \A o \in joining : phase # o \/ after = "start"

(***************************************************************************)
(* A cancelled operation that is still the phase's own finds the flag up,  *)
(* or is being destroyed to make room for the next of its kind; in the     *)
(* other waits of the main thread the phase is about to end.               *)
(***************************************************************************)
CancelledIsTold ==
  \A o \in cancelled : phase = o =>
    /\ after \in {"go on", "mutex"} => flag
    /\ after = "start" => o \in joining

IInv == TypeOK /\ PhaseHasFuture /\ JoinsAreCancelled /\ CancelledIsTold

(***************************************************************************)
(* A logon or a realm connection that was cancelled is never taken up, not *)
(* even when its success was already there, and although the flag that     *)
(* says so is shared with whatever is started next.                        *)
(***************************************************************************)
NotTakenUp ==
  /\ "auth" \in cancelled => loggedOn' \in {loggedOn, FALSE}
  /\ "connect" \in cancelled => connected' \in {connected, FALSE}
CancelledStaysCancelled == [][NotTakenUp]_vars

(***************************************************************************)
(* When the scripts leave it alone the flow comes to rest: a phase ends    *)
(* with its operation, a cancelled operation ends soon, and a main thread  *)
(* that waits goes on, unless an operation waits for the player or a queue *)
(* and nobody cancels it.                                                  *)
(***************************************************************************)
AtRest == phase = "idle" /\ after = "go on" /\ wants = {}
FlowComesToRest ==
  <>[][~Inputs]_vars => []<>(AtRest \/ \E o \in Ops : Held(o))
=============================================================================
