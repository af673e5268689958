-------------------------- MODULE MCConnections --------------------------
EXTENDS ConnectHandlers, TLC

Symmetric == Permutations(Ops)
==========================================================================
