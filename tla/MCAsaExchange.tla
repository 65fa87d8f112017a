---------------------------- MODULE MCAsaExchange ----------------------------
(***************************************************************************)
(* AsaExchange for TLC: initial tables of users who are part of the way    *)
(* through, for the runs about what happens near the end of registration.  *)
(***************************************************************************)
EXTENDS AsaExchange, TLC

CONSTANTS u1, u2, w1, w2, boss, guest

\* A user who has answered every question and is asked for the photo.
AtIdentityDoc == [status |-> "pending", state |-> "awaiting_identity_doc",
                  filled |-> Fields, doc |-> 0]

InitFrom(row) ==
    /\ proc = "up"
    /\ db = [u \in Users |-> row]
    /\ posts = <<>>
    /\ CustomerInit
    /\ ModeratorInit
    /\ restarts = 0

\* The process starts over a table it left behind.
LateSpec == InitFrom(AtIdentityDoc) /\ [][Next]_vars
LateFairSpec == LateSpec /\ Fairness

\* Over such a table, or an empty one, with at most three handlers' worth of
\* workers and reviews (bound).
Scope == Cardinality(tasks) + clicks <= 3
RacesSpec == /\ InitFrom(AtIdentityDoc) \/ InitFrom(NoRow)
             /\ [][Next /\ Scope']_vars

Symmetry == Permutations(Workers) \cup Permutations(Users)
=============================================================================
