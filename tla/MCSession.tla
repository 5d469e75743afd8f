----------------------------- MODULE MCSession -----------------------------
(* Sessions on one terminal; the switches and model values are set in the   *)
(* .cfg files.                                                              *)
EXTENDS Session, TLC

Symmetry == Permutations(Sessions)
=============================================================================
