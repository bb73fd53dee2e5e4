------------------------------ MODULE RangeWork ------------------------------
(***************************************************************************)
(* What FrameJobSystem promises its caller, without threads, grains, jobs  *)
(* or wait groups: the items a dispatch asks for are started once, finish  *)
(* once, in any order and in pieces of any size, and the dispatch can be   *)
(* joined when none of them is outstanding.                                *)
(***************************************************************************)
EXTENDS Naturals

CONSTANTS Batches, Items

VARIABLES
    todo,     \* [Batches -> items nobody has started]
    running,  \* [Batches -> items inside fn]
    done,     \* [Batches -> items fn has returned from]
    asked,    \* the batches dispatched so far
    joined    \* the batches the caller has joined

vars == <<todo, running, done, asked, joined>>

Init ==
    /\ todo = [b \in Batches |-> {}]
    /\ running = [b \in Batches |-> {}]
    /\ done = [b \in Batches |-> {}]
    /\ asked = {}
    /\ joined = {}

Ask(b, items) ==
    /\ b \notin asked
    /\ asked' = asked \cup {b}
    /\ todo' = [todo EXCEPT ![b] = items]
    /\ UNCHANGED <<running, done, joined>>

\* With nobody to share the work with, the dispatch itself does all of it.
DoAtOnce(b, items) ==
    /\ b \notin asked
    /\ asked' = asked \cup {b}
    /\ done' = [done EXCEPT ![b] = items]
    /\ joined' \in {joined, joined \cup {b}}
    /\ UNCHANGED <<todo, running>>

Start(b, items) ==
    /\ items \subseteq todo[b]
    /\ todo' = [todo EXCEPT ![b] = @ \ items]
    /\ running' = [running EXCEPT ![b] = @ \cup items]
    /\ UNCHANGED <<done, asked, joined>>

Finish(b, items) ==
    /\ items \subseteq running[b]
    /\ running' = [running EXCEPT ![b] = @ \ items]
    /\ done' = [done EXCEPT ![b] = @ \cup items]
    /\ UNCHANGED <<todo, asked, joined>>

Join(b) ==
    /\ b \in asked
    /\ todo[b] = {} /\ running[b] = {}
    /\ joined' = joined \cup {b}
    /\ UNCHANGED <<todo, running, done, asked>>

Next ==
    \E b \in Batches :
        \/ Join(b)
        \/ \E items \in SUBSET Items :
              Ask(b, items) \/ DoAtOnce(b, items) \/ Start(b, items) \/ Finish(b, items)

Spec == Init /\ [][Next]_vars
=============================================================================
