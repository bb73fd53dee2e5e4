--------------------------- MODULE FrameScheduler ---------------------------
(***************************************************************************)
(* FrameScheduler (runtime/scheduling/frame_scheduler) runs the callbacks  *)
(* of a frame, phase by phase and by priority.  Main runs frames; Main and *)
(* the other threads register and unregister callbacks, which a callback   *)
(* may do too, as it may run a phase, clear the scheduler or throw.  While *)
(* anything runs, every such change is deferred, so that RunPhaseEntries   *)
(* can walk the entries without the mutex.                                 *)
(*                                                                         *)
(* A critical section under mutex_ is one step.  Register takes its handle *)
(* before the mutex, so it takes two; so do IsPendingRemoval and the call  *)
(* of the callback it lets through.  Callbacks are handles: phaseOf and    *)
(* priority hold what their Entry says of them.                            *)
(***************************************************************************)
EXTENDS Naturals, Sequences, FiniteSets, SequencesExt

CONSTANTS
    Main,        \* the thread that runs frames
    Others,      \* the other threads that register and unregister
    PhaseCount,  \* kPhaseCount
    Priorities,  \* the priorities in use
    MaxHandles,  \* bound: calls of Register
    MaxDepth,    \* bound: nesting of RunFrame and RunPhase
    MaxFrames,   \* bound: frame_count_ stops counting there
    MayThrow     \* may callbacks throw, and may the scheduler be cleared?

ASSUME SchedulerAssumption ==
    /\ Main \notin Others
    /\ PhaseCount \in Nat \ {0}
    /\ Priorities \subseteq Nat
    /\ MaxHandles \in Nat
    /\ MaxDepth \in Nat \ {0}
    /\ MaxFrames \in Nat
    /\ MayThrow \in BOOLEAN

Threads == Others \cup {Main}
Phases == 1 .. PhaseCount
Handles == 1 .. MaxHandles
Invalid == 0
Levels == 1 .. MaxDepth

VARIABLES
    entries,         \* [Phases -> the phase's entries, a sequence of handles]
    dirty,           \* [Phases -> must the entries be sorted?]
    pending_adds,    \* the handles of the deferred registrations
    pending_removes, \* the handles of the deferred removals
    next_handle,     \* next_handle_
    frame_count,     \* frame_count_
    depth,           \* running_depth_
    run,             \* [Levels -> where the run of that depth stands]
    taken,           \* [Threads -> the handle of a Register under way]
    phaseOf,         \* [Handles -> phase of the entry]
    priority,        \* [Handles -> priority of the entry]
    kept,            \* history: handles registered and not removed since
    owed,            \* history: handles the frame under way must still call
    called,          \* history: handles called at least once
    mainRemoved,     \* history: handles Main was the first to remove
    late             \* history: [Handles -> calls begun after the removal]

entryVars == <<entries, dirty, pending_adds, pending_removes>>
registerVars == <<next_handle, taken, phaseOf, priority>>
callVars == <<called, late>>
vars == <<entryVars, registerVars, frame_count, depth, run, kept, owed,
          mainRemoved, callVars>>

NoRun == [kind |-> "none", phase |-> 1, index |-> 1, at |-> "scan"]

Init ==
    /\ entries = [p \in Phases |-> <<>>]
    /\ dirty = [p \in Phases |-> FALSE]
    /\ pending_adds = <<>>
    /\ pending_removes = {}
    /\ next_handle = 1
    /\ frame_count = 0
    /\ depth = 0
    /\ run = [l \in Levels |-> NoRun]
    /\ taken = [t \in Threads |-> Invalid]
    /\ phaseOf = [h \in Handles |-> 1]
    /\ priority = [h \in Handles |-> 0]
    /\ kept = {}
    /\ owed = {}
    /\ called = {}
    /\ mainRemoved = {}
    /\ late = [h \in Handles |-> 0]

\* The code a thread runs may call the scheduler: Main between its frames and
\* inside a callback, another thread at any time.
MayCall(t) ==
    /\ taken[t] = Invalid
    /\ t = Main /\ depth > 0 => run[depth].at = "inside"
-----------------------------------------------------------------------------
(* Register.                                                               *)

TakeHandle(t, p, n) ==
    /\ MayCall(t)
    /\ next_handle \in Handles
    /\ taken' = [taken EXCEPT ![t] = next_handle]
    /\ phaseOf' = [phaseOf EXCEPT ![next_handle] = p]
    /\ priority' = [priority EXCEPT ![next_handle] = n]
    /\ next_handle' = next_handle + 1
    /\ UNCHANGED <<entryVars, frame_count, depth, run, kept, owed, mainRemoved,
                   callVars>>

AddEntry(h) ==
    /\ entries' = [entries EXCEPT ![phaseOf[h]] = Append(@, h)]
    /\ dirty' = [dirty EXCEPT ![phaseOf[h]] = TRUE]

AddAtOnce(h) == AddEntry(h) /\ UNCHANGED pending_adds  \* slip: never deferred

\* While anything runs, the addition waits.
AddOrDefer(h) ==
    IF depth = 0
      THEN AddEntry(h) /\ UNCHANGED pending_adds
      ELSE /\ pending_adds' = Append(pending_adds, h)
           /\ UNCHANGED <<entries, dirty>>

AddCallback(t) ==
    /\ taken[t] # Invalid
    /\ AddOrDefer(taken[t])
    /\ taken' = [taken EXCEPT ![t] = Invalid]
    /\ kept' = kept \cup {taken[t]}
    /\ UNCHANGED <<pending_removes, next_handle, phaseOf, priority, frame_count,
                   depth, run, owed, mainRemoved, callVars>>
-----------------------------------------------------------------------------
(* Unregister and Clear.                                                   *)

\* The handles of s that are in H, in order.  (SelectSeq, in a form that can be
\* reasoned about: the n-th is the one with n of them up to it.)
Count(s, H, i) == Cardinality({j \in 1 .. i : s[j] \in H})
Only(s, H) ==
    [n \in 1 .. Count(s, H, Len(s)) |->
        s[CHOOSE i \in DOMAIN s : s[i] \in H /\ Count(s, H, i) = n]]

Without(s, H) == Only(s, Handles \ H)

\* slip: a deferred registration is not looked for
DeferAnyRemoval(h) ==
    /\ pending_removes' = pending_removes \cup {h}
    /\ UNCHANGED pending_adds

DeferRemoval(h) ==
    IF h \in ToSet(pending_adds)
      THEN /\ pending_adds' = Without(pending_adds, {h})
           /\ UNCHANGED pending_removes
      ELSE /\ pending_removes' = pending_removes \cup {h}
           /\ UNCHANGED pending_adds

Forget(t, H) ==
    /\ kept' = kept \ H
    /\ owed' = owed \ H
    /\ mainRemoved' = mainRemoved \cup (IF t = Main THEN kept \cap H ELSE {})

\* Only Register tells a handle, so one still being registered is not known.
Unregister(t, h) ==
    /\ MayCall(t)
    /\ h < next_handle /\ \A u \in Threads : taken[u] # h
    /\ IF depth = 0
         THEN /\ entries' = [p \in Phases |-> Without(entries[p], {h})]
              /\ UNCHANGED <<pending_adds, pending_removes>>
         ELSE DeferRemoval(h) /\ UNCHANGED entries
    /\ Forget(t, {h})
    /\ UNCHANGED <<dirty, registerVars, frame_count, depth, run, callVars>>

AllEntries == UNION {ToSet(entries[p]) : p \in Phases}

ClearNow ==
    /\ entries' = [p \in Phases |-> <<>>]
    /\ dirty' = [p \in Phases |-> FALSE]
    /\ pending_removes' = {}
    /\ frame_count' = 0

ClearLater ==
    /\ pending_removes' = pending_removes \cup AllEntries
    /\ UNCHANGED <<entries, dirty, frame_count>>

Clear ==
    /\ MayThrow
    /\ MayCall(Main)
    /\ IF depth = 0 THEN ClearNow ELSE ClearLater
    /\ pending_adds' = <<>>
    /\ Forget(Main, kept)
    /\ UNCHANGED <<registerVars, depth, run, callVars>>
-----------------------------------------------------------------------------
(* Running.                                                                *)

\* slip: equal priorities are left in the order of their registration
ByPriority(g, h) == priority[g] <= priority[h]
Before(g, h) == priority[g] < priority[h] \/ (priority[g] = priority[h] /\ g <= h)

SortedBy(s) == \A i, j \in DOMAIN s : i < j => Before(s[i], s[j])

\* SortPhase: the ways to order s, one when the handles of s are distinct.
Sortings(s) ==
    {r \in [DOMAIN s -> ToSet(s)] : ToSet(r) = ToSet(s) /\ SortedBy(r)}

\* BeginRun finds nothing pending when nothing runs: EndRun applied it all.
SortDirty ==
    /\ entries' \in
          [Phases -> UNION {Sortings(entries[p]) \cup {entries[p]} : p \in Phases}]
    /\ \A p \in Phases :
          entries'[p] \in IF dirty[p] THEN Sortings(entries[p]) ELSE {entries[p]}
    /\ dirty' = [p \in Phases |-> FALSE]

BeforeFirst == 0  \* slip: the walk begins before the first entry
First == 1

BeginRun(kind, p) ==
    /\ depth < MaxDepth
    /\ IF depth = 0 THEN SortDirty ELSE UNCHANGED <<entries, dirty>>
    /\ depth' = depth + 1
    /\ run' = [run EXCEPT ![depth + 1] =
                  [kind |-> kind, phase |-> p, index |-> First, at |-> "scan"]]
    /\ UNCHANGED <<pending_adds, pending_removes, registerVars, frame_count,
                   kept, mainRemoved, callVars>>

RunFrame ==
    /\ depth = 0
    /\ MayCall(Main)
    /\ BeginRun("frame", 1)
    /\ owed' = AllEntries

RunPhase(p) ==
    /\ MayCall(Main)
    /\ BeginRun("phase", p)
    /\ UNCHANGED owed

Survivors(p) == Without(entries[p], pending_removes)  \* slip: additions lost
\* The entries when the last run ends: the removals are applied, then the additions.
EntriesAfter(p) ==
    Survivors(p) \o Only(pending_adds, {h \in Handles : phaseOf[h] = p})

\* slip: what was applied is still pending
ApplyAndKeep ==
    /\ entries' = [p \in Phases |-> EntriesAfter(p)]
    /\ dirty' = [p \in Phases |->
                    dirty[p] \/ \E h \in ToSet(pending_adds) : phaseOf[h] = p]
    /\ UNCHANGED <<pending_adds, pending_removes>>

ApplyPending ==
    /\ entries' = [p \in Phases |-> EntriesAfter(p)]
    /\ dirty' = [p \in Phases |->
                    dirty[p] \/ \E h \in ToSet(pending_adds) : phaseOf[h] = p]
    /\ pending_adds' = <<>>
    /\ pending_removes' = {}

EndRun ==
    /\ depth' = depth - 1
    /\ run' = [run EXCEPT ![depth] = NoRun]
    /\ IF depth = 1
         THEN ApplyPending
         ELSE UNCHANGED entryVars

Here == run[depth]
Move(level) == run' = [run EXCEPT ![depth] = level]
PastTheEnd == Here.index > Len(entries[Here.phase])
Current == entries[Here.phase][Here.index]

\* slip: the entry that follows is stepped over too
StepTwice(level) == [level EXCEPT !.at = "scan", !.index = @ + 2]
StepOver(level) == [level EXCEPT !.at = "scan", !.index = @ + 1]

Scanning == depth > 0 /\ Here.at = "scan"

SkipRemoved ==
    /\ Scanning /\ ~PastTheEnd
    /\ Current \in pending_removes
    /\ Move(StepOver(Here))
    /\ UNCHANGED <<entryVars, registerVars, frame_count, depth, kept, owed,
                   mainRemoved, callVars>>

\* slip: a removal takes effect only when the run is over
ChooseAny ==
    /\ Scanning /\ ~PastTheEnd
    /\ Move([Here EXCEPT !.at = "call"])
    /\ UNCHANGED <<entryVars, registerVars, frame_count, depth, kept, owed,
                   mainRemoved, callVars>>

Choose == ChooseAny /\ Current \notin pending_removes

CallCallback ==
    /\ depth > 0 /\ Here.at = "call"
    /\ Move([Here EXCEPT !.at = "inside"])
    /\ owed' = IF Here.kind = "frame" THEN owed \ {Current} ELSE owed
    /\ called' = called \cup {Current}
    /\ late' = IF Current \in kept THEN late ELSE [late EXCEPT ![Current] = @ + 1]
    /\ UNCHANGED <<entryVars, registerVars, frame_count, depth, kept, mainRemoved>>

CallbackReturns ==
    /\ depth > 0 /\ MayCall(Main)
    /\ Move(StepOver(Here))
    /\ UNCHANGED <<entryVars, registerVars, frame_count, depth, kept, owed,
                   mainRemoved, callVars>>

NextPhase ==
    /\ Scanning /\ PastTheEnd
    /\ Here.kind = "frame" /\ Here.phase < PhaseCount
    /\ Move([Here EXCEPT !.phase = @ + 1, !.index = First])
    /\ UNCHANGED <<entryVars, registerVars, frame_count, depth, kept, owed,
                   mainRemoved, callVars>>

FrameEnds ==
    /\ Scanning /\ PastTheEnd
    /\ Here.kind = "frame" /\ Here.phase = PhaseCount
    /\ frame_count' = IF frame_count < MaxFrames THEN frame_count + 1 ELSE frame_count
    /\ EndRun
    /\ UNCHANGED <<registerVars, kept, owed, mainRemoved, callVars>>

PhaseEnds ==
    /\ Scanning /\ PastTheEnd
    /\ Here.kind = "phase"
    /\ EndRun
    /\ UNCHANGED <<registerVars, frame_count, kept, owed, mainRemoved, callVars>>

\* An exception leaves the callback and the run it is in; RunScope ends the run.
\* An enclosing callback may catch it, or throw in its turn.
CallbackThrows ==
    /\ MayThrow
    /\ depth > 0 /\ MayCall(Main)
    /\ EndRun
    /\ owed' = IF depth = 1 THEN {} ELSE owed
    /\ UNCHANGED <<registerVars, frame_count, kept, mainRemoved, callVars>>
-----------------------------------------------------------------------------
Walk ==
    SkipRemoved \/ Choose \/ CallCallback \/ NextPhase \/ FrameEnds \/ PhaseEnds

Next ==
    \/ \E t \in Threads :
          \/ \E p \in Phases, n \in Priorities : TakeHandle(t, p, n)
          \/ AddCallback(t)
          \/ \E h \in Handles : Unregister(t, h)
    \/ Clear
    \/ RunFrame \/ \E p \in Phases : RunPhase(p)
    \/ Walk \/ CallbackReturns \/ CallbackThrows

Spec == Init /\ [][Next]_vars

\* The client's main loop runs frames for ever, whatever else it runs between
\* them, a Register under way ends, and a callback returns, whatever it runs itself.
FairSpec ==
    /\ Spec
    /\ SF_vars(RunFrame)
    /\ WF_vars(Walk)
    /\ \A l \in Levels : SF_vars(depth = l /\ CallbackReturns)
    /\ \A t \in Threads : WF_vars(AddCallback(t))
-----------------------------------------------------------------------------
Runs == [kind : {"none", "frame", "phase"}, phase : Phases, index : Nat \ {0},
         at : {"scan", "call", "inside"}]

TypeOK ==
    /\ entries \in [Phases -> Seq(Handles)]
    /\ dirty \in [Phases -> BOOLEAN]
    /\ pending_adds \in Seq(Handles)
    /\ pending_removes \subseteq Handles
    /\ next_handle \in 1 .. MaxHandles + 1
    /\ frame_count \in 0 .. MaxFrames
    /\ depth \in 0 .. MaxDepth
    /\ run \in [Levels -> Runs]
    /\ taken \in [Threads -> Handles \cup {Invalid}]
    /\ phaseOf \in [Handles -> Phases]
    /\ priority \in [Handles -> Priorities \cup {0}]
    /\ kept \subseteq Handles
    /\ owed \subseteq Handles
    /\ called \subseteq Handles
    /\ mainRemoved \subseteq Handles
    /\ late \in [Handles -> Nat]

\* When nothing runs nothing is deferred, so that BeginRun may sort what it finds and
\* an immediate Unregister sees every callback.
NothingPendingAtRest == depth = 0 => pending_adds = <<>> /\ pending_removes = {}

\* A handle has one entry, in its own phase, deferred or not: a removal that
\* erases the first match erases all.
OneEntryEach ==
    /\ \A p, q \in Phases : \A i \in DOMAIN entries[p], j \in DOMAIN entries[q] :
          entries[p][i] = entries[q][j] => p = q /\ i = j
    /\ \A i, j \in DOMAIN pending_adds : pending_adds[i] = pending_adds[j] => i = j
    /\ ToSet(pending_adds) \cap AllEntries = {}
    /\ \A p \in Phases : \A h \in ToSet(entries[p]) : phaseOf[h] = p

\* No registration is lost and no removal forgotten, whoever made it and whatever
\* was running: the callbacks registered and not removed are those of the entries, less
\* the deferred removals, and those of the deferred additions; each has one place, and
\* none of them is deferred for ever.
NothingLost ==
    /\ kept = (AllEntries \ pending_removes) \cup ToSet(pending_adds)
    /\ OneEntryEach
    /\ NothingPendingAtRest

\* "The entries being iterated are never mutated": while a run is under way and
\* does not end, no thread changes the vectors RunPhaseEntries walks unlocked.
EntriesFrozen == [][depth > 0 /\ depth' > 0 => UNCHANGED entries]_vars

\* A phase runs its callbacks by priority and, among equals, by handle, although
\* handles are given out before the mutex is taken and may arrive in any order.
RunsInOrder ==
    depth > 0 =>
        \A p \in Phases : \A i, j \in DOMAIN entries[p] :
            i < j =>
                LET g == entries[p][i]
                    h == entries[p][j]
                IN \/ priority[g] < priority[h]
                   \/ priority[g] = priority[h] /\ g < h

\* A callback that Main has unregistered, from another callback or between frames,
\* never begins again.  A removal by another thread may come between
\* IsPendingRemoval and the call, and let through the one call chosen by then.
NoCallAfterRemoval ==
    \A h \in Handles : late[h] <= IF h \in mainRemoved THEN 0 ELSE 1

\* A phase that is not marked for sorting is sorted, and while anything runs all are.
SortedOrDirty ==
    \A p \in Phases : /\ ~dirty[p] => SortedBy(entries[p])
                      /\ depth > 0 => ~dirty[p]

\* A handle on its way from the counter to the mutex is one nobody has used.
Used == AllEntries \cup ToSet(pending_adds) \cup pending_removes \cup kept
           \cup mainRemoved \cup {h \in Handles : late[h] # 0}
HandlesAreNew ==
    /\ \A h \in Used : h < next_handle
    /\ \A t \in Threads : taken[t] \notin Used /\ taken[t] < next_handle
    /\ \A t, u \in Threads : taken[t] = taken[u] => t = u \/ taken[t] = Invalid

\* Every run but the innermost is inside a callback, a frame is never nested, and a run
\* stands at an entry or just behind the last.
StandsWell(level) ==
    LET n == Len(entries[level.phase])
    IN \/ level.index \in 1 .. n
       \/ level.at = "scan" /\ level.index = n + 1
RunsAreNested ==
    \A l \in 1 .. depth :
        /\ run[l].kind # "none"
        /\ l > 1 => run[l].kind = "phase"
        /\ l < depth => run[l].at = "inside"
        /\ StandsWell(run[l])

\* A callback that was chosen is called for the first time since its removal, if it has
\* been removed by now, and not by Main.
ChosenMayBeCalled ==
    /\ depth > 0 /\ Here.at = "call" => late[Current] = 0 /\ Current \notin mainRemoved
    /\ \A h \in kept : late[h] = 0 /\ h \notin mainRemoved

\* What a frame must still call lies ahead of it.
IsAhead(p, i, level) ==
    \/ p > level.phase
    \/ p = level.phase /\ i > level.index
    \/ p = level.phase /\ i = level.index /\ level.at # "inside"
OwedIsAhead ==
    /\ owed \subseteq kept
    /\ depth > 0 /\ run[1].kind = "frame" =>
          \A h \in owed : \E p \in Phases : \E i \in DOMAIN entries[p] :
              entries[p][i] = h /\ IsAhead(p, i, run[1])

\* Types, the order of calls, calls against removals, and what they rest on.
IInv ==
    /\ TypeOK
    /\ RunsInOrder
    /\ NoCallAfterRemoval
    /\ SortedOrDirty
    /\ HandlesAreNew
    /\ RunsAreNested
    /\ ChosenMayBeCalled
    /\ OwedIsAhead

\* A frame that ends without an exception has called every callback that was
\* registered when it began and was not removed before its turn.
FrameCallsEveryone ==
    Scanning /\ PastTheEnd /\ Here.kind = "frame" /\ Here.phase = PhaseCount
        => owed = {}

\* As frames are run for ever, a callback that stays registered is called.
KeptIsCalled ==
    \A h \in Handles : h \in kept ~> h \in called \/ h \notin kept
=============================================================================
