---------------------------- MODULE MCRepositories ----------------------------
(***************************************************************************)
(* Repositories for TLC: the symmetry of its model values.                 *)
(***************************************************************************)
EXTENDS Repositories, TLC

CONSTANTS c1, c2, ann, bob

Symmetry == Permutations(Keys) \cup Permutations(Clients) \cup Permutations(Accounts)
=============================================================================
