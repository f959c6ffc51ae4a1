---------------------------- MODULE MCAllocation ----------------------------
(* Model checking Allocation: limits that three candidates reach.          *)
EXTENDS Allocation, TLC

TwoKellySizes == {3, 8}
TwoFactors == {40, 100}
SectorSymmetry == Permutations(Sectors)
=============================================================================
