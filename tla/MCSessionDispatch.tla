------------------------- MODULE MCSessionDispatch -------------------------
(***************************************************************************)
(* SessionDispatch for TLC with interchangeable dispatching requests: the  *)
(* specification names no particular one, so permuting them is sound for   *)
(* its safety properties.                                                  *)
(***************************************************************************)
EXTENDS SessionDispatch, TLC

DispSymmetry == Permutations(Disp)
=============================================================================
