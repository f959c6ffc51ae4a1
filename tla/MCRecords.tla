------------------------------ MODULE MCRecords -------------------------------
EXTENDS Records, TLC

MCPlans == {Plan("long", 101, 100, 102), Plan("short", 101, 102, 99)}
MCSymmetry == Permutations(Checkers) \union Permutations(Updaters) \union Permutations(Writers)
=============================================================================
