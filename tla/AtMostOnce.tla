------------------------------ MODULE AtMostOnce ------------------------------
(***************************************************************************)
(* What publishing promises of every target, said without claims, stores   *)
(* or calls: an attempt is sent at most once, and only while no other      *)
(* attempt of the same target is a post or may still become one.           *)
(***************************************************************************)
CONSTANTS Targets, Attempts

VARIABLE sent   \* sent[t][a]: the life of attempt a of target t

MayAppear(s) == s \in {"travelling", "held", "public"}

Init == sent = [t \in Targets |-> [a \in Attempts |-> "none"]]

Send(t, a) ==
    /\ sent[t][a] = "none"
    /\ \A b \in Attempts : ~MayAppear(sent[t][b])
    /\ sent' = [sent EXCEPT ![t][a] = "travelling"]

Arrive(t, a) ==
    /\ sent[t][a] = "travelling"
    /\ \E s \in {"held", "public", "dead"} : sent' = [sent EXCEPT ![t][a] = s]

Settle(t, a) ==
    /\ sent[t][a] = "held"
    /\ \E s \in {"public", "dead"} : sent' = [sent EXCEPT ![t][a] = s]

Next == \E t \in Targets, a \in Attempts : Send(t, a) \/ Arrive(t, a) \/ Settle(t, a)

Spec == Init /\ [][Next]_sent
=============================================================================
