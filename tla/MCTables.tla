------------------------------- MODULE MCTables -------------------------------
(* The two processes run the same jobs; nothing tells them apart.          *)
EXTENDS Tables

MCSymmetry == Permutations(Procs)
=============================================================================
