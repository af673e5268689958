------------------------ MODULE ConnectionAttempt ------------------------
(* What a ConnectionStore promises of one attempt to connect accounts       *)
(* (server/connections.ts): the one-use code is claimed atomically and is   *)
(* never exchanged again, the accounts found are stored once, the attempt   *)
(* is consumed together with all the grants selected, and a grant that was  *)
(* revoked stays revoked.                                                   *)
EXTENDS Naturals

CONSTANT Accounts

VARIABLES phase, accounts, grants, revoked,
          exchanges  \* how often the code was presented to the provider

vars == <<phase, accounts, grants, revoked, exchanges>>

Init == /\ phase = "absent" /\ exchanges = 0
        /\ accounts = {} /\ grants = {} /\ revoked = {}

Begin == /\ phase = "absent" /\ phase' = "unclaimed"
         /\ UNCHANGED <<accounts, grants, revoked, exchanges>>

Claim == /\ phase = "unclaimed" /\ phase' = "claimed"
         /\ UNCHANGED <<accounts, grants, revoked, exchanges>>

Exchange == /\ phase = "claimed" /\ exchanges = 0 /\ exchanges' = 1
            /\ UNCHANGED <<phase, accounts, grants, revoked>>

Discover == /\ phase = "claimed" /\ exchanges = 1 /\ phase' = "discovered"
            /\ accounts' \in (SUBSET Accounts) \ {{}}
            /\ UNCHANGED <<grants, revoked, exchanges>>

Complete == /\ phase = "discovered" /\ phase' = "completed"
            /\ grants' \in (SUBSET accounts) \ {{}} /\ accounts' = {}
            /\ UNCHANGED <<revoked, exchanges>>

Revoke == \E g \in grants \ revoked :
            /\ phase = "completed" /\ revoked' = revoked \cup {g}
            /\ UNCHANGED <<phase, accounts, grants, exchanges>>

Next == Begin \/ Claim \/ Exchange \/ Discover \/ Complete \/ Revoke

Spec == Init /\ [][Next]_vars
==========================================================================
