----------------------------- MODULE MCStaging -----------------------------
EXTENDS Staging, TLC

CONSTANTS c1, c2, c3

\* A call with two local sources, one with one, and one whose target takes all as it is.
ItemsOfCalls == (c1 :> 2) @@ (c2 :> 1) @@ (c3 :> 0)
=============================================================================
