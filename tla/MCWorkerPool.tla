----------------------------- MODULE MCWorkerPool -----------------------------
(***************************************************************************)
(* WorkerPool for TLC: two workers, channels small enough to fill.         *)
(***************************************************************************)
EXTENDS WorkerPool

CONSTANTS w1, w2
=============================================================================
