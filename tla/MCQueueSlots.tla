---------------------------- MODULE MCQueueSlots ----------------------------
EXTENDS QueueSlots, TLC

Symmetry == Permutations(Jobs) \cup Permutations(Ops \ (Cancels \cup Retries))
=============================================================================
