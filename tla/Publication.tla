----------------------------- MODULE Publication -----------------------------
(***************************************************************************)
(* One logical publication, i.e. one idempotency key, under concurrent     *)
(* calls of posts.publish, posts.reconcile and posts.retryFailed that share *)
(* nothing but the IdempotencyStore (core/client.ts, server/recovery.ts,   *)
(* server/schedule-store.ts).                                              *)
(*                                                                         *)
(* Every element of Calls is one call, possibly of another process.  A call *)
(* may crash (or reject because the store failed) between any two steps.   *)
(* A submission, once handed to the adapter, travels by itself: it may     *)
(* reach the provider after the call that sent it timed out or died.       *)
(*                                                                         *)
(* An attempt identifies a submission: Original for the one made by        *)
(* posts.publish, a fresh retryAttemptId for every one made by retryFailed. *)
(***************************************************************************)
EXTENDS Naturals

CONSTANTS
    Targets,        \* prepared targets of the request
    Calls,          \* API calls made with the request's key
    Fingerprints,   \* payload fingerprints those calls may carry
    RetryIds,       \* the uuids that retries draw (bounds the retries)
    Original,       \* the attempt of posts.publish
    None            \* undefined

ASSUME PublicationAssumption ==
    /\ Original \notin RetryIds
    /\ None \notin RetryIds \cup Fingerprints \cup {Original}

VARIABLES
    claim,      \* fingerprint stored with the key's claim, or None
    saved,      \* saved[t]: the claim's outcome of target t, or None
    provider,   \* provider[t][a]: what became of attempt a at the provider
    spent,      \* retry ids already drawn
    call,       \* call[c]: how far call c is
    pc,         \* pc[c][t]: how far call c is with target t
    attempt,    \* attempt[c][t]: the attempt call c sends for target t
    expected,   \* expected[c][t]: the outcome call c believes is saved
    outcome     \* outcome[c][t]: the outcome call c is about to save

work == <<pc, attempt, expected, outcome>>
vars == <<claim, saved, provider, spent, call, work>>

Attempts == RetryIds \cup {Original}

States == {"not-submitted", "accepted", "published", "failed", "cancelled", "unknown"}

(* "accepted" stands for scheduled, accepted and processing, which this    *)
(* code treats alike.  "retry" refines failed (its retryDisposition, where *)
(* "due" is an after-delay that is over or an after-reconnect) and          *)
(* cancelled ("before-submission" or not).                                 *)
Retries == {"none", "never", "due", "reconcile-first", "before-submission"}

Outcomes == [state : States, retry : Retries,
             attempt : RetryIds \cup {None}, delivery : Attempts \cup {None}]

ASSUME NoneAssumption == None \notin Outcomes

Outcome(s, r, a, d) == [state |-> s, retry |-> r, attempt |-> a, delivery |-> d]

NotSubmitted(a)    == Outcome("not-submitted", "none", a, None)
CancelledBefore(a) == Outcome("cancelled", "before-submission", a, None)
Fence(a)           == Outcome("unknown", "none", a, None)

-----------------------------------------------------------------------------
(* Classification of outcomes.                                             *)

isSettledOutcome(o) ==
    \/ o.state = "failed" /\ (o.retry # "reconcile-first" \/ o.delivery = None)
    \/ o.state \in {"published", "cancelled", "not-submitted"}

(* Mutants of retryBlocker: an ambiguous failure, or an unknown outcome, may be retried. *)
MayRetry_Ambiguous(o) ==
    /\ o # None
    /\ \/ o.state = "not-submitted"
       \/ o.state = "cancelled" /\ o.retry = "before-submission"
       \/ o.state = "failed" /\ o.retry \in {"due", "reconcile-first"}

MayRetry_Unknown(o) ==
    /\ o # None
    /\ \/ o.state \in {"not-submitted", "unknown"}
       \/ o.state = "cancelled" /\ o.retry = "before-submission"
       \/ o.state = "failed" /\ o.retry = "due"

(* retryBlocker(o) is undefined: this outcome may be retried now. *)
MayRetry(o) ==
    /\ o # None
    /\ \/ o.state = "not-submitted"
       \/ o.state = "cancelled" /\ o.retry = "before-submission"
       \/ o.state = "failed" /\ o.retry = "due"

MayPoll(o) == o # None /\ ~isSettledOutcome(o) /\ o.delivery # None

(* What the provider knows of an attempt: "travelling" has left the adapter, *)
(* "held" is accepted and not yet public, "public" is a post, "dead" can     *)
(* never become one.                                                        *)
ProviderStates == {"none", "travelling", "held", "public", "dead"}

Alive(t, a) == provider[t][a] \in {"travelling", "held", "public"}

(* The outcomes an adapter, or its getDelivery, may report of an attempt   *)
(* whose provider state is p.  Adapters are outside this model; they are   *)
(* assumed to report what is so, or that they do not know.                 *)
Reports(p, tag, d) ==
    {Outcome("unknown", "none", tag, d), Outcome("failed", "reconcile-first", tag, d)}
    \cup (IF p = "held" THEN {Outcome("accepted", "none", tag, d)} ELSE {})
    \cup (IF p = "public" THEN {Outcome("published", "none", tag, d)} ELSE {})
    \cup (IF p = "dead" THEN {Outcome("failed", "never", tag, d),
                              Outcome("failed", "due", tag, d),
                              Outcome("cancelled", "never", tag, d)} ELSE {})

(* Mutant: an original outcome carries an attempt id too. *)
Tag_Always(a) == a

Tag(a) == IF a = Original THEN None ELSE a

-----------------------------------------------------------------------------
CallStates == {"idle", "sending", "fencing-reconcile", "fencing-retry",
               "reconciling", "retrying", "refused", "returned", "crashed"}
WorkStates == {"idle", "fence", "fenced", "poll", "polled", "retry", "send", "await", "save", "done"}

MaybeOutcome == Outcomes \cup {None}
MaybeAttempt == Attempts \cup {None}

AllTargets(v) == [t \in Targets |-> v]
PerTarget(S) == [Calls -> [Targets -> S]]

TypeOK ==
    /\ claim \in Fingerprints \cup {None}
    /\ saved \in [Targets -> MaybeOutcome]
    /\ provider \in [Targets -> [Attempts -> ProviderStates]]
    /\ spent \subseteq RetryIds
    /\ call \in [Calls -> CallStates]
    /\ pc \in PerTarget(WorkStates)
    /\ attempt \in PerTarget(MaybeAttempt)
    /\ expected \in PerTarget(MaybeOutcome)
    /\ outcome \in PerTarget(MaybeOutcome)

Init ==
    /\ claim = None
    /\ saved = AllTargets(None)
    /\ provider = [t \in Targets |-> [a \in Attempts |-> "none"]]
    /\ spent = {}
    /\ call = [c \in Calls |-> "idle"]
    /\ pc = [c \in Calls |-> AllTargets("idle")]
    /\ attempt = [c \in Calls |-> AllTargets(None)]
    /\ expected = [c \in Calls |-> AllTargets(None)]
    /\ outcome = [c \in Calls |-> AllTargets(None)]

-----------------------------------------------------------------------------
(* posts.publish                                                           *)

(* Mutant: a replayed publish sends the targets that have no outcome yet. *)
Publish_Resends(c, f) ==
    /\ call[c] = "idle"
    /\ claim \in {None, f}
    /\ claim' = f
    /\ call' = [call EXCEPT ![c] = "sending"]
    /\ pc' = [pc EXCEPT ![c] = [t \in Targets |-> IF saved[t] = None THEN "send" ELSE "done"]]
    /\ attempt' = [attempt EXCEPT ![c] = AllTargets(Original)]
    /\ UNCHANGED <<saved, provider, spent, expected, outcome>>

(* publish authorizes, plans and claims.  Only the call that created the   *)
(* claim goes on to send; any other returns what is saved, or an unknown   *)
(* outcome for a target without one, or fails with idempotency_conflict.   *)
Publish(c, f) ==
    /\ call[c] = "idle"
    /\ \/ /\ claim = None
          /\ claim' = f
          /\ call' = [call EXCEPT ![c] = "sending"]
          /\ pc' = [pc EXCEPT ![c] = AllTargets("send")]
          /\ attempt' = [attempt EXCEPT ![c] = AllTargets(Original)]
       \/ /\ claim # None
          /\ call' = [call EXCEPT ![c] = IF claim = f THEN "returned" ELSE "refused"]
          /\ UNCHANGED <<claim, pc, attempt>>
    /\ UNCHANGED <<saved, provider, spent, expected, outcome>>

Dispatching(c) == call[c] \in {"sending", "retrying"}

(* Mutant: an abort counts as "before submission" although the adapter was entered. *)
StopBeforeAdapter_Entered(c, t) ==
    /\ Dispatching(c) /\ pc[c][t] \in {"send", "await"}
    /\ \E o \in {NotSubmitted(Tag(attempt[c][t])), CancelledBefore(Tag(attempt[c][t]))} :
          outcome' = [outcome EXCEPT ![c][t] = o]
    /\ pc' = [pc EXCEPT ![c][t] = "save"]
    /\ UNCHANGED <<claim, saved, provider, spent, call, attempt, expected>>

(* dispatchTarget stops before the adapter is entered: cancelled while      *)
(* queued, the backend's queue full, or staging stopped it.                 *)
StopBeforeAdapter(c, t) ==
    /\ Dispatching(c) /\ pc[c][t] = "send"
    /\ \E o \in {NotSubmitted(Tag(attempt[c][t])), CancelledBefore(Tag(attempt[c][t]))} :
          outcome' = [outcome EXCEPT ![c][t] = o]
    /\ pc' = [pc EXCEPT ![c][t] = "save"]
    /\ UNCHANGED <<claim, saved, provider, spent, call, attempt, expected>>

(* dispatchTarget enters posts.publishTarget. *)
EnterAdapter(c, t) ==
    /\ Dispatching(c) /\ pc[c][t] = "send"
    /\ provider' = [provider EXCEPT ![t][attempt[c][t]] = "travelling"]
    /\ pc' = [pc EXCEPT ![c][t] = "await"]
    /\ UNCHANGED <<claim, saved, spent, call, attempt, expected, outcome>>

(* publishTarget returns or throws; dispatchTarget maps that to an outcome. *)
AdapterAnswers(c, t) ==
    LET a == attempt[c][t] IN
    /\ Dispatching(c) /\ pc[c][t] = "await"
    /\ \E d \in {a, None} : \E o \in Reports(provider[t][a], Tag(a), d) :
          outcome' = [outcome EXCEPT ![c][t] = o]
    /\ pc' = [pc EXCEPT ![c][t] = "save"]
    /\ UNCHANGED <<claim, saved, provider, spent, call, attempt, expected>>

(* publish saves the outcome unconditionally; a failed save only warns. *)
SaveOutcome(c, t) ==
    /\ call[c] = "sending" /\ pc[c][t] = "save"
    /\ saved' \in {saved, [saved EXCEPT ![t] = outcome[c][t]]}
    /\ pc' = [pc EXCEPT ![c][t] = "done"]
    /\ UNCHANGED <<claim, provider, spent, call, attempt, expected, outcome>>

-----------------------------------------------------------------------------
(* Recovery                                                                *)

(* What reconcile or retryFailed, having read the claim's outcomes, will   *)
(* do with a target.                                                       *)
PlannedStep(op, o) ==
    IF op = "retry" /\ MayRetry(o) THEN "retry"
    ELSE IF op = "reconcile" /\ MayPoll(o) THEN "poll" ELSE "done"

PlannedSteps(op) == [t \in Targets |-> PlannedStep(op, saved[t])]

ReadOutcomes(c, op) ==
    /\ call' = [call EXCEPT ![c] = IF op = "retry" THEN "retrying" ELSE "reconciling"]
    /\ pc' = [pc EXCEPT ![c] = PlannedSteps(op)]
    /\ expected' = [expected EXCEPT ![c] = saved]

Fencing(op) == IF op = "retry" THEN "fencing-retry" ELSE "fencing-reconcile"

(* openRecoveryClaim: a key never claimed is claimed, to be fenced below;  *)
(* an existing claim is read with its outcomes.                            *)
OpenRecoveryClaim(c, f, op) ==
    /\ call[c] = "idle"
    /\ \/ /\ claim = None
          /\ claim' = f
          /\ call' = [call EXCEPT ![c] = Fencing(op)]
          /\ pc' = [pc EXCEPT ![c] = AllTargets("fence")]
          /\ UNCHANGED expected
       \/ /\ claim = f
          /\ ReadOutcomes(c, op)
          /\ UNCHANGED claim
       \/ /\ claim \notin {None, f}
          /\ call' = [call EXCEPT ![c] = "refused"]
          /\ UNCHANGED <<claim, pc, expected>>
    /\ UNCHANGED <<saved, provider, spent, attempt, outcome>>

(* Fences one target of the new claim, so that a late original execution   *)
(* finds the claim taken (the code walks the targets in order).            *)
FenceTarget(c, t) ==
    /\ call[c] \in {"fencing-reconcile", "fencing-retry"} /\ pc[c][t] = "fence"
    /\ saved' = IF saved[t] = None THEN [saved EXCEPT ![t] = NotSubmitted(None)] ELSE saved
    /\ pc' = [pc EXCEPT ![c][t] = "fenced"]
    /\ UNCHANGED <<claim, provider, spent, call, attempt, expected, outcome>>

Reload(c, op) ==
    /\ call[c] = Fencing(op)
    /\ \A t \in Targets : pc[c][t] = "fenced"
    /\ ReadOutcomes(c, op)
    /\ UNCHANGED <<claim, saved, provider, spent, attempt, outcome>>

(* reconcile asks the provider about one target.  The poll may fail, or    *)
(* answer for another delivery; then nothing is written.  A polled outcome *)
(* keeps the delivery reference it was asked for and no retryAttemptId.    *)
Poll(c, t) ==
    LET d == expected[c][t].delivery IN
    /\ call[c] = "reconciling" /\ pc[c][t] = "poll"
    /\ \/ /\ pc' = [pc EXCEPT ![c][t] = "done"]
          /\ UNCHANGED outcome
       \/ /\ pc' = [pc EXCEPT ![c][t] = "polled"]
          /\ \E o \in Reports(provider[t][d], None, d) : outcome' = [outcome EXCEPT ![c][t] = o]
    /\ UNCHANGED <<claim, saved, provider, spent, call, attempt, expected>>

(* compareAndSetOutcome: writes only over the expected outcome. *)
CompareAndSet(t, old, new) ==
    saved' = IF saved[t] = old THEN [saved EXCEPT ![t] = new] ELSE saved

(* Mutant: a polled outcome is saved without comparing. *)
SavePolled_Blind(c, t) ==
    /\ call[c] = "reconciling" /\ pc[c][t] = "polled"
    /\ saved' = [saved EXCEPT ![t] = outcome[c][t]]
    /\ pc' = [pc EXCEPT ![c][t] = "done"]
    /\ UNCHANGED <<claim, provider, spent, call, attempt, expected, outcome>>

SavePolled(c, t) ==
    /\ call[c] = "reconciling" /\ pc[c][t] = "polled"
    /\ CompareAndSet(t, expected[c][t], outcome[c][t])
    /\ pc' = [pc EXCEPT ![c][t] = "done"]
    /\ UNCHANGED <<claim, provider, spent, call, attempt, expected, outcome>>

(* Mutant: a retry sends although its fence lost the compare-and-set. *)
FenceRetry_Unfenced(c, t) ==
    /\ call[c] = "retrying" /\ pc[c][t] = "retry"
    /\ \E a \in RetryIds \ spent :
          /\ spent' = spent \cup {a}
          /\ CompareAndSet(t, expected[c][t], Fence(a))
          /\ pc' = [pc EXCEPT ![c][t] = "send"]
          /\ attempt' = [attempt EXCEPT ![c][t] = a]
          /\ expected' = [expected EXCEPT ![c][t] = Fence(a)]
    /\ UNCHANGED <<claim, provider, call, outcome>>

(* retryFailed replaces the failure by an unknown outcome that carries a   *)
(* fresh attempt id, and sends only if that write won; the result is       *)
(* reported as concurrent-retry otherwise.                                 *)
FenceRetry(c, t) ==
    /\ call[c] = "retrying" /\ pc[c][t] = "retry"
    /\ \E a \in RetryIds \ spent :
          /\ spent' = spent \cup {a}
          /\ CompareAndSet(t, expected[c][t], Fence(a))
          /\ pc' = [pc EXCEPT ![c][t] = IF saved[t] = expected[c][t] THEN "send" ELSE "done"]
          /\ attempt' = [attempt EXCEPT ![c][t] = a]
          /\ expected' = [expected EXCEPT ![c][t] = Fence(a)]
    /\ UNCHANGED <<claim, provider, call, outcome>>

(* The target is not in targetIndexes, or its after-delay is not over. *)
SkipRetry(c, t) ==
    /\ call[c] = "retrying" /\ pc[c][t] = "retry"
    /\ pc' = [pc EXCEPT ![c][t] = "done"]
    /\ UNCHANGED <<claim, saved, provider, spent, call, attempt, expected, outcome>>

(* The retry's outcome replaces its own fence. *)
SaveRetried(c, t) ==
    /\ call[c] = "retrying" /\ pc[c][t] = "save"
    /\ CompareAndSet(t, expected[c][t], outcome[c][t])
    /\ pc' = [pc EXCEPT ![c][t] = "done"]
    /\ UNCHANGED <<claim, provider, spent, call, attempt, expected, outcome>>

-----------------------------------------------------------------------------
(* Environment                                                             *)

Return(c) ==
    /\ call[c] \in {"sending", "reconciling", "retrying"}
    /\ \A t \in Targets : pc[c][t] = "done"
    /\ call' = [call EXCEPT ![c] = "returned"]
    /\ UNCHANGED <<claim, saved, provider, spent, work>>

(* The process dies, or a store call throws and the API call rejects. *)
Crash(c) ==
    /\ call[c] \notin {"idle", "refused", "returned", "crashed"}
    /\ call' = [call EXCEPT ![c] = "crashed"]
    /\ UNCHANGED <<claim, saved, provider, spent, work>>

(* The provider receives a submission, or publishes or drops one it holds. *)
ProviderMoves(t, a) ==
    /\ \/ /\ provider[t][a] = "travelling"
          /\ \E p \in {"held", "public", "dead"} : provider' = [provider EXCEPT ![t][a] = p]
       \/ /\ provider[t][a] = "held"
          /\ \E p \in {"public", "dead"} : provider' = [provider EXCEPT ![t][a] = p]
    /\ UNCHANGED <<claim, saved, spent, call, work>>

CallStep(c) ==
    \/ \E f \in Fingerprints : Publish(c, f)
    \/ \E f \in Fingerprints, op \in {"reconcile", "retry"} : OpenRecoveryClaim(c, f, op)
    \/ \E op \in {"reconcile", "retry"} : Reload(c, op)
    \/ Return(c)
    \/ Crash(c)

TargetStep(c, t) ==
    \/ StopBeforeAdapter(c, t)
    \/ EnterAdapter(c, t)
    \/ AdapterAnswers(c, t)
    \/ SaveOutcome(c, t)
    \/ FenceTarget(c, t)
    \/ Poll(c, t)
    \/ SavePolled(c, t)
    \/ FenceRetry(c, t)
    \/ SkipRetry(c, t)
    \/ SaveRetried(c, t)

Next ==
    \/ \E c \in Calls : CallStep(c)
    \/ \E c \in Calls, t \in Targets : TargetStep(c, t)
    \/ \E t \in Targets, a \in Attempts : ProviderMoves(t, a)

Spec == Init /\ [][Next]_vars

-----------------------------------------------------------------------------
(* At most one submission per target can be, or still become, a post: the  *)
(* promise behind "retry only what is known not to have been sent"         *)
(* (publish, retryBlocker, the retry fence and openRecoveryClaim together). *)
AtMostOneAlive ==
    \A t \in Targets : \A a, b \in Attempts : Alive(t, a) /\ Alive(t, b) => a = b

(* While the store says that a target may be retried, nothing that was     *)
(* sent for it can appear, whichever call read, polled or saved last.      *)
RetryableMeansDead ==
    \A t \in Targets : MayRetry(saved[t]) => \A a \in Attempts : ~Alive(t, a)

(* retryFailed ignores whether its last compare-and-set won.  It always    *)
(* wins: nobody replaces the fence of a running retry, so the outcome of a *)
(* retry that was sent is never dropped.                                   *)
RetryOutcomeNeverDropped ==
    \A c \in Calls, t \in Targets :
        call[c] = "retrying" /\ pc[c][t] \in {"send", "await", "save"}
            => saved[t] = Fence(attempt[c][t])

(* A settled outcome is final, except that a retry reopens a retryable one *)
(* with its fence: no late save, stale poll or second retry overwrites a    *)
(* published post or a failure another call has acted on.                  *)
SettledOnlyReopenedByRetry ==
    [][\A t \in Targets :
          saved[t] # None /\ isSettledOutcome(saved[t]) /\ saved'[t] # saved[t]
              => MayRetry(saved[t]) /\ \E a \in spent' \ spent : saved'[t] = Fence(a)]_vars

(* Once anything is recorded for a target, by the original or by recovery, *)
(* the original execution no longer sends it.                              *)
OriginalNeverSendsLate ==
    [][\A t \in Targets :
          saved[t] # None /\ provider[t][Original] = "none" => provider'[t][Original] = "none"]_vars

-----------------------------------------------------------------------------
(* The abstract promise: a provider-side oracle decides when to send.      *)
Promise == INSTANCE AtMostOnce WITH sent <- provider

(* The store protocol implements the oracle of AtMostOnce, although no     *)
(* call can see the provider's state.                                      *)
ImplementsAtMostOnce == Promise!Spec

(* A failure for good, or a cancellation. *)
IsFinal(o) == o.state = "cancelled" \/ (o.state = "failed" /\ o.retry = "never")

(* What the claim says of a target: an "open" one is claimed and not known. *)
Verdict(o) ==
    IF o = None THEN IF claim = None THEN "none" ELSE "open"
    ELSE IF MayRetry(o) THEN "failed"
    ELSE IF o.state = "published" THEN "published"
    ELSE IF IsFinal(o) THEN "final" ELSE "open"

MaySend(t) == \E c \in Calls : Dispatching(c) /\ pc[c][t] = "send"

Copy(t) ==
    LET has(p) == \E a \in Attempts : provider[t][a] \in p IN
    IF has({"public"}) THEN "public"
    ELSE IF has({"travelling", "held"}) THEN "live"
    ELSE IF has({"dead"}) THEN "dead" ELSE "absent"

(* The promise the scheduler builds on, of every target of the key.        *)
Keyed == INSTANCE KeyedTargets WITH
    Keys <- Targets,
    known <- [t \in Targets |-> Verdict(saved[t])],
    going <- {t \in Targets : MaySend(t)},
    copy <- [t \in Targets |-> Copy(t)]

(* Whatever is interleaved, a target is claimed before it is sent, sent     *)
(* only while nothing of it can appear, and the verdict on it is so when    *)
(* it is saved (publish, openRecoveryClaim, reconcile, retryFailed).       *)
ImplementsKeyedTargets == Keyed!Spec
=============================================================================
