-------------------------- MODULE MCPhilippinesViews --------------------------
EXTENDS PhilippinesViews, TLC
CONSTANTS c1, c2
MCCalls == {c1, c2}
MCSymmetry == Permutations(MCCalls)
=============================================================================
