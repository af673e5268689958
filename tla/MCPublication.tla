---------------------------- MODULE MCPublication ----------------------------
EXTENDS Publication, TLC

CallSymmetry == Permutations(Calls)
=============================================================================
