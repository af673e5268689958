---------------------------- MODULE MCCredentials ----------------------------
EXTENDS Credentials, TLC
Symmetric == Permutations(Ops)
=============================================================================
