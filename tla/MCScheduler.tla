----------------------------- MODULE MCScheduler -----------------------------
EXTENDS Scheduler, TLC

CallSymmetry == Permutations(Runners) \cup Permutations(Callers)
=============================================================================
