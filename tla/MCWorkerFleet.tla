--------------------------- MODULE MCWorkerFleet ---------------------------
(***************************************************************************)
(* WorkerFleet for TLC: every session runs the one agent version h1.       *)
(***************************************************************************)
EXTENDS WorkerFleet, TLC

CONSTANT h1

SameHash == [s \in Session |-> h1]
WorkerSymmetry == Permutations(Worker)
=============================================================================
