----------------------------- MODULE TargetStore -----------------------------
(***************************************************************************)
(* What the Bundle controller promises of the targets of one Bundle, with   *)
(* no controller in sight: a store that holds, for every target, either     *)
(* nothing or one whole bundle.  Whoever publishes does so for one target   *)
(* at a time, from sources as they are or once were, and never hands out    *)
(* an older version of a source than any target already holds.              *)
(***************************************************************************)
EXTENDS Naturals

CONSTANTS
    Resources,      \* the targets
    Sources,        \* what a Bundle may be built from
    Footprints      \* the sets of sources that make a whole bundle

VARIABLES
    current,        \* version of each source
    held            \* version of each source in each target, 0 for none

vars == <<current, held>>

Nothing == [s \in Sources |-> 0]
Footprint(v) == {s \in Sources : v[s] > 0}

Init ==
    /\ current = [s \in Sources |-> 1]
    /\ held = [r \in Resources |-> Nothing]

Advance(s) ==
    /\ current' = [current EXCEPT ![s] = @ + 1]
    /\ UNCHANGED held

\* r receives v.
Publish(r, v) ==
    /\ v # held[r]
    /\ Footprint(v) \in Footprints
    /\ \A s \in Footprint(v) :
         /\ v[s] <= current[s]
         /\ \A q \in Resources : v[s] >= held[q][s]
    /\ held' = [held EXCEPT ![r] = v]
    /\ UNCHANGED current

Withdraw(r) ==
    /\ held[r] # Nothing
    /\ held' = [held EXCEPT ![r] = Nothing]
    /\ UNCHANGED current

Next ==
    \/ \E s \in Sources : Advance(s)
    \/ \E r \in Resources : Publish(r, held'[r]) \/ Withdraw(r)

Spec == Init /\ [][Next]_vars
=============================================================================
