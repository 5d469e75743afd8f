----------------------------- MODULE MCConnPool -----------------------------
(* The connection pool on one or two terminals, a few Connection objects    *)
(* and callers, all of them model values set in the .cfg files.             *)
EXTENDS ConnPool, TLC

Symmetry == Permutations(Conns) \cup Permutations(Callers)
=============================================================================
