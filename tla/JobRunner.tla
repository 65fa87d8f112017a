------------------------------- MODULE JobRunner -------------------------------
(***************************************************************************)
(* What the customer bot's update loop promises, with no channels and no   *)
(* goroutines: an update that arrives is taken at most once, by one of     *)
(* Size runners, in the order of arrival where inOrder says so; what was   *)
(* taken is finished; and after the loop has returned nothing runs and     *)
(* nothing starts.  It does not promise that all that arrived is taken.    *)
(***************************************************************************)
EXTENDS Naturals, FiniteSets

CONSTANTS
    Jobs,       \* the updates, as numbers in the order of arrival
    Size        \* how many may run at once

VARIABLES
    inOrder,    \* whether this runner keeps the order of arrival
    waiting, running, handled,
    phase       \* "open", "closing" once cancelled, "returned"

vars == <<inOrder, waiting, running, handled, phase>>

Init ==
    /\ inOrder \in BOOLEAN
    /\ waiting = {} /\ running = {} /\ handled = {}
    /\ phase = "open"

Arrive(u) ==
    /\ u \notin waiting \cup running \cup handled
    /\ waiting' = waiting \cup {u}
    /\ UNCHANGED <<inOrder, running, handled, phase>>

Start(u) ==
    /\ u \in waiting
    /\ phase # "returned"
    /\ Cardinality(running) < Size
    /\ inOrder => \A x \in waiting : u <= x
    /\ waiting' = waiting \ {u}
    /\ running' = running \cup {u}
    /\ UNCHANGED <<inOrder, handled, phase>>

Finish(u) ==
    /\ u \in running
    /\ running' = running \ {u}
    /\ handled' = handled \cup {u}
    /\ UNCHANGED <<inOrder, waiting, phase>>

Cancel ==
    /\ phase = "open"
    /\ phase' = "closing"
    /\ UNCHANGED <<inOrder, waiting, running, handled>>

Return ==
    /\ phase = "closing"
    /\ running = {}
    /\ phase' = "returned"
    /\ UNCHANGED <<inOrder, waiting, running, handled>>

Next ==
    \/ \E u \in Jobs : Arrive(u) \/ Start(u) \/ Finish(u)
    \/ Cancel
    \/ Return

Spec == Init /\ [][Next]_vars
=============================================================================
