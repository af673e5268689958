----------------------------- MODULE KeyedTargets -----------------------------
(***************************************************************************)
(* What a target published under an idempotency key promises its caller,   *)
(* said without calls, stores or attempts: the claim is taken before       *)
(* anything is sent, is taken again only after a failure, a copy is sent   *)
(* only while no other can appear, and what the claim settles on is so.    *)
(* It promises nothing of a claim that is open: its call may have died, or *)
(* not know what became of the copy.                                       *)
(***************************************************************************)
CONSTANT Keys       \* a target of an idempotency key each

VARIABLES
    known,      \* what the claim of the key says
    going,      \* keys claimed by a call that has yet to send them
    copy        \* the copy at the provider that was sent last

Knowledge == {"none", "open", "failed", "final", "published"}
Copies == {"absent", "live", "public", "dead"}

MayAppear(k) == copy[k] \in {"live", "public"}

Init ==
    /\ known = [k \in Keys |-> "none"]
    /\ going = {}
    /\ copy = [k \in Keys |-> "absent"]

KnownSame(k) == known'[k] = known[k]
GoingSame(k) == k \in going' <=> k \in going
CopySame(k)  == copy'[k] = copy[k]

(* A call claims the key, to send it at once or later, or not at all.      *)
Claim(k) ==
    /\ known[k] \in {"none", "failed"} /\ ~MayAppear(k) /\ k \notin going
    /\ known'[k] = "open"
    /\ CopySame(k) \/ (copy'[k] = "live" /\ GoingSame(k))

Send(k) ==
    /\ known[k] = "open" /\ k \in going /\ ~MayAppear(k)
    /\ k \notin going' /\ copy'[k] = "live" /\ KnownSame(k)

(* The call that was to send it stops, or dies. *)
GiveUp(k) == k \in going /\ k \notin going' /\ KnownSame(k) /\ CopySame(k)

(* What a claim may settle on. *)
IsTrue(k, verdict) ==
    \/ verdict \in {"failed", "final"} /\ ~MayAppear(k)
    \/ verdict = "published" /\ copy[k] = "public"

(* The claim learns what became of the key, or a recovery claims a key that *)
(* nobody sent, as failed.                                                 *)
Settle(k) ==
    /\ known[k] = "open" \/ (known[k] = "none" /\ known'[k] = "failed")
    /\ k \notin going /\ known'[k] \in Knowledge /\ IsTrue(k, known'[k])
    /\ GoingSame(k) /\ CopySame(k)

(* The provider publishes or drops the copy, by itself or asked to. *)
ProviderMoves(k) ==
    /\ copy[k] = "live" /\ copy'[k] \in {"public", "dead"}
    /\ KnownSame(k) /\ GoingSame(k)

Rests(k) == KnownSame(k) /\ GoingSame(k) /\ CopySame(k)

(* A request may have many targets: a step may be one of several keys. *)
Next ==
    \A k \in Keys :
        Claim(k) \/ Send(k) \/ GiveUp(k) \/ Settle(k) \/ ProviderMoves(k) \/ Rests(k)

Spec == Init /\ [][Next]_<<known, going, copy>>
===============================================================================
