-------------------------- MODULE Publication_proofs --------------------------
(***************************************************************************)
(* Proofs about Publication, for any sets of targets, calls, fingerprints   *)
(* and retry ids.  The argument: at any time at most one call holds a      *)
(* target "in hand" (may still send it, or owns the verdict of what it      *)
(* sent), and what the store says then tells which attempt that is; every   *)
(* attempt that may still appear is the one the saved outcome is about.     *)
(***************************************************************************)
EXTENDS Publication, TLAPS

(* The attempt an outcome speaks of: its retryAttemptId; a polled outcome  *)
(* lost it but keeps the delivery; neither means the original.             *)
Owner(o) == IF o.attempt # None THEN o.attempt
            ELSE IF o.delivery # None THEN o.delivery ELSE Original

Consistent(o) == o.delivery # None => o.delivery = Owner(o)

InHand(c, t) ==
    /\ call[c] \in {"sending", "retrying"}
    /\ pc[c][t] \in {"send", "await", "save"}

(* Nothing happened before the claim exists. *)
UnclaimedInv ==
    claim = None =>
        /\ \A c \in Calls : call[c] \notin {"sending", "fencing-reconcile", "fencing-retry", "reconciling", "retrying"}
        /\ \A t \in Targets : saved[t] = None
        /\ \A t \in Targets, a \in Attempts : provider[t][a] = "none"

(* While a recovery fences the claim it created, no original exists. *)
FencingInv ==
    \A c \in Calls : call[c] \in {"fencing-reconcile", "fencing-retry"} =>
        /\ \A d \in Calls : call[d] # "sending"
        /\ \A t \in Targets : provider[t][Original] = "none"

FreshInv ==
    \A t \in Targets, a \in RetryIds \ spent : provider[t][a] = "none"

SavedInv ==
    \A t \in Targets : saved[t] # None => Consistent(saved[t])

HandInv ==
    \A c \in Calls, t \in Targets : InHand(c, t) =>
        /\ call[c] = "sending" => attempt[c][t] = Original /\ saved[t] = None
        /\ call[c] = "retrying" => /\ attempt[c][t] \in spent
                                      /\ saved[t] = Fence(attempt[c][t])
                                      /\ expected[c][t] = saved[t]
        /\ pc[c][t] = "send" => provider[t][attempt[c][t]] = "none"
        /\ pc[c][t] = "save" =>
              /\ outcome[c][t] # None
              /\ Owner(outcome[c][t]) = attempt[c][t]
              /\ Consistent(outcome[c][t])
              /\ MayRetry(outcome[c][t]) \/ IsFinal(outcome[c][t]) => ~Alive(t, attempt[c][t])
              /\ outcome[c][t].state = "published" => provider[t][attempt[c][t]] = "public"

UniqueInv ==
    \A c, d \in Calls, t \in Targets : InHand(c, t) /\ InHand(d, t) => c = d

RetryInv ==
    \A c \in Calls, t \in Targets :
        call[c] = "retrying" /\ pc[c][t] = "retry" => MayRetry(expected[c][t])

PollInv ==
    \A c \in Calls, t \in Targets :
        call[c] = "reconciling" /\ pc[c][t] \in {"poll", "polled"} =>
            /\ MayPoll(expected[c][t])
            /\ Consistent(expected[c][t])
            /\ pc[c][t] = "polled" =>
                  /\ outcome[c][t] # None
                  /\ outcome[c][t].attempt = None
                  /\ outcome[c][t].delivery = expected[c][t].delivery
                  /\ MayRetry(outcome[c][t]) \/ IsFinal(outcome[c][t])
                        => provider[t][expected[c][t].delivery] = "dead"
                  /\ outcome[c][t].state = "published"
                        => provider[t][expected[c][t].delivery] = "public"

(* Every attempt that may still appear is the one the store speaks of. *)
CoverInv ==
    \A t \in Targets, a \in Attempts : Alive(t, a) =>
        \/ saved[t] = None /\ a = Original
        \/ saved[t] # None /\ Owner(saved[t]) = a /\ ~MayRetry(saved[t])

RestInv ==
    /\ UnclaimedInv /\ FencingInv /\ FreshInv /\ SavedInv
    /\ HandInv /\ UniqueInv /\ RetryInv /\ PollInv /\ CoverInv

IInv == TypeOK /\ RestInv

-----------------------------------------------------------------------------
(* Every outcome the model builds is one.                                  *)
LEMMA OutcomesAreTyped ==
    /\ \A a \in RetryIds \cup {None} : NotSubmitted(a) \in Outcomes
    /\ \A a \in RetryIds \cup {None} : CancelledBefore(a) \in Outcomes
    /\ \A a \in RetryIds : Fence(a) \in Outcomes
    /\ \A p \in ProviderStates, g \in RetryIds \cup {None}, d \in Attempts \cup {None} :
          Reports(p, g, d) \subseteq Outcomes
    /\ \A a \in Attempts : Tag(a) \in RetryIds \cup {None}
BY DEF NotSubmitted, CancelledBefore, Fence, Reports, Outcome, Outcomes, States, Retries, Tag,
       Attempts

LEMMA StateNames ==
    /\ \A s \in {"idle", "fence", "fenced", "poll", "polled", "retry", "send", "await", "save", "done"} :
          s \in WorkStates
    /\ \A s \in {"idle", "sending", "fencing-reconcile", "fencing-retry", "reconciling",
                 "retrying", "refused", "returned", "crashed"} : s \in CallStates
    /\ \A s \in {"none", "travelling", "held", "public", "dead"} : s \in ProviderStates
    /\ None \in MaybeOutcome /\ \A o \in Outcomes : o \in MaybeOutcome
    /\ None \in MaybeAttempt /\ \A a \in Attempts : a \in MaybeAttempt
    /\ Original \in Attempts /\ \A a \in RetryIds : a \in Attempts
BY DEF WorkStates, CallStates, ProviderStates, MaybeOutcome, MaybeAttempt, Attempts

LEMMA InitIInv == Init => IInv
<1> SUFFICES ASSUME Init PROVE IInv
  OBVIOUS
<1> USE StateNames DEF Init, AllTargets
<1>1. TypeOK
  <2>1. provider \in [Targets -> [Attempts -> ProviderStates]]
    OBVIOUS
  <2>2. saved \in [Targets -> MaybeOutcome]
    OBVIOUS
  <2>3. pc \in PerTarget(WorkStates)
    BY DEF PerTarget
  <2>4. attempt \in PerTarget(MaybeAttempt) /\ expected \in PerTarget(MaybeOutcome)
        /\ outcome \in PerTarget(MaybeOutcome)
    BY DEF PerTarget
  <2> QED
    BY <2>1, <2>2, <2>3, <2>4 DEF TypeOK
<1>2. UnclaimedInv /\ FencingInv /\ FreshInv /\ SavedInv
  BY DEF UnclaimedInv, FencingInv, FreshInv, SavedInv
<1>3. HandInv /\ UniqueInv /\ RetryInv /\ PollInv
  BY DEF HandInv, UniqueInv, RetryInv, PollInv, InHand
<1>4. CoverInv
  BY DEF CoverInv, Alive
<1> QED
  BY <1>1, <1>2, <1>3, <1>4 DEF IInv, RestInv

(* Updating one cell of a two-level function, as every action does. *)
LEMMA CellTyped ==
    ASSUME NEW S, NEW f \in PerTarget(S), NEW c \in Calls, NEW t \in Targets, NEW v \in S
    PROVE  /\ [f EXCEPT ![c][t] = v] \in PerTarget(S)
           /\ f[c][t] \in S
           /\ \A d \in Calls, u \in Targets :
                 [f EXCEPT ![c][t] = v][d][u] = IF d = c /\ u = t THEN v ELSE f[d][u]
BY DEF PerTarget

LEMMA RowTyped ==
    ASSUME NEW S, NEW f \in PerTarget(S), NEW c \in Calls, NEW r \in [Targets -> S]
    PROVE  /\ [f EXCEPT ![c] = r] \in PerTarget(S)
           /\ \A d \in Calls, u \in Targets :
                 [f EXCEPT ![c] = r][d][u] = IF d = c THEN r[u] ELSE f[d][u]
BY DEF PerTarget

LEMMA ProviderTyped ==
    ASSUME TypeOK, NEW t \in Targets, NEW a \in Attempts, NEW p \in ProviderStates
    PROVE  /\ [provider EXCEPT ![t][a] = p] \in [Targets -> [Attempts -> ProviderStates]]
           /\ \A u \in Targets, b \in Attempts :
                 [provider EXCEPT ![t][a] = p][u][b] = IF u = t /\ b = a THEN p ELSE provider[u][b]
BY DEF TypeOK

(* The per-target variables are tables. *)
LEMMA Tables ==
    ASSUME TypeOK
    PROVE  /\ pc \in [Calls -> [Targets -> WorkStates]]
           /\ attempt \in [Calls -> [Targets -> MaybeAttempt]]
           /\ expected \in [Calls -> [Targets -> MaybeOutcome]]
           /\ outcome \in [Calls -> [Targets -> MaybeOutcome]]
BY DEF TypeOK, PerTarget

(* A retry's fence speaks of its own attempt and nobody acts on it. *)
LEMMA FenceFacts ==
    ASSUME NEW a \in RetryIds
    PROVE  /\ Fence(a) # None /\ Owner(Fence(a)) = a /\ Consistent(Fence(a))
           /\ ~MayRetry(Fence(a)) /\ ~MayPoll(Fence(a)) /\ ~isSettledOutcome(Fence(a))
<1>1. Fence(a) \in Outcomes
  BY OutcomesAreTyped
<1> QED
  BY <1>1, NoneAssumption, PublicationAssumption
  DEF Fence, Outcome, Owner, Consistent, MayRetry, MayPoll, isSettledOutcome

LEMMA FenceInjective == \A a, b \in RetryIds : Fence(a) = Fence(b) => a = b
BY DEF Fence, Outcome

(* The target of a call that may still send it: what the store says of it. *)
LEMMA HandFacts ==
    ASSUME IInv, NEW c \in Calls, NEW t \in Targets, InHand(c, t)
    PROVE  /\ claim # None
           /\ \/ call[c] = "sending" /\ attempt[c][t] = Original /\ saved[t] = None
              \/ /\ call[c] = "retrying" /\ attempt[c][t] \in RetryIds
                 /\ attempt[c][t] \in spent /\ attempt[c][t] # Original
                 /\ saved[t] = Fence(attempt[c][t]) /\ expected[c][t] = saved[t]
                 /\ saved[t] # None /\ Owner(saved[t]) = attempt[c][t] /\ Consistent(saved[t])
                 /\ ~MayRetry(saved[t]) /\ ~MayPoll(saved[t])
<1>1. claim # None
  BY DEF IInv, RestInv, UnclaimedInv, InHand
<1>2. CASE call[c] = "sending"
  BY <1>1, <1>2 DEF IInv, RestInv, HandInv, InHand
<1>3. CASE call[c] = "retrying"
  <2>1. /\ attempt[c][t] \in spent /\ saved[t] = Fence(attempt[c][t]) /\ expected[c][t] = saved[t]
    BY <1>3 DEF IInv, RestInv, HandInv, InHand
  <2>2. attempt[c][t] \in RetryIds
    BY <2>1 DEF IInv, TypeOK
  <2> QED
    BY <1>1, <1>3, <2>1, <2>2, FenceFacts, PublicationAssumption
<1> QED
  BY <1>2, <1>3 DEF InHand

(* What a call has in hand, and what it polls, is an attempt. *)
LEMMA InHandAttempt ==
    ASSUME TypeOK, HandInv, NEW c \in Calls, NEW t \in Targets, InHand(c, t)
    PROVE  attempt[c][t] \in Attempts
BY DEF TypeOK, HandInv, InHand, Attempts

LEMMA PolledDelivery ==
    ASSUME TypeOK, PollInv, NEW c \in Calls, NEW t \in Targets,
           call[c] = "reconciling", pc[c][t] \in {"poll", "polled"}
    PROVE  expected[c][t].delivery \in Attempts
<1>1. expected[c][t] \in MaybeOutcome
  BY DEF TypeOK, PerTarget
<1>2. expected[c][t] # None /\ expected[c][t].delivery # None
  BY DEF PollInv, MayPoll
<1> QED
  BY <1>1, <1>2 DEF MaybeOutcome, Outcomes

LEMMA PlannedStepFacts ==
    \A op \in {"reconcile", "retry"}, o \in MaybeOutcome :
        /\ PlannedStep(op, o) \in {"retry", "poll", "done"}
        /\ PlannedStep(op, o) = "retry" => op = "retry" /\ MayRetry(o)
        /\ PlannedStep(op, o) = "poll" => op = "reconcile" /\ MayPoll(o) /\ o # None
BY DEF PlannedStep, MayPoll

(* What a poll may report: only a dead attempt looks retryable. *)
LEMMA PollReports ==
    ASSUME NEW p \in ProviderStates, NEW d \in Attempts, NEW o \in Reports(p, None, d)
    PROVE  /\ o # None /\ o.attempt = None /\ o.delivery = d
           /\ MayRetry(o) \/ IsFinal(o) => p = "dead"
           /\ o.state = "published" => p = "public"
<1>1. o \in Outcomes
  BY OutcomesAreTyped, StateNames DEF MaybeAttempt
<1> QED
  BY <1>1, NoneAssumption DEF Reports, Outcome, MayRetry, IsFinal

(* A call about to save a poll's answer. *)
LEMMA PolledFacts ==
    ASSUME IInv, NEW c \in Calls, NEW t \in Targets, call[c] = "reconciling", pc[c][t] = "polled"
    PROVE  LET d == expected[c][t].delivery IN
           /\ expected[c][t] # None /\ ~MayRetry(expected[c][t]) /\ ~isSettledOutcome(expected[c][t])
           /\ MayPoll(expected[c][t])
           /\ d \in Attempts /\ Owner(expected[c][t]) = d
           /\ outcome[c][t] # None /\ Owner(outcome[c][t]) = d /\ Consistent(outcome[c][t])
           /\ MayRetry(outcome[c][t]) \/ IsFinal(outcome[c][t]) => provider[t][d] = "dead"
           /\ outcome[c][t].state = "published" => provider[t][d] = "public"
<1>1. /\ MayPoll(expected[c][t]) /\ Consistent(expected[c][t])
      /\ outcome[c][t] # None /\ outcome[c][t].attempt = None
      /\ outcome[c][t].delivery = expected[c][t].delivery
      /\ MayRetry(outcome[c][t]) \/ IsFinal(outcome[c][t])
            => provider[t][expected[c][t].delivery] = "dead"
      /\ outcome[c][t].state = "published"
            => provider[t][expected[c][t].delivery] = "public"
  BY DEF IInv, RestInv, PollInv
<1>2. expected[c][t].delivery \in Attempts /\ expected[c][t].delivery # None
  BY <1>1, PolledDelivery DEF IInv, RestInv, MayPoll
<1>3. expected[c][t] \in Outcomes
  BY <1>1, Tables DEF IInv, MayPoll, MaybeOutcome
<1>4. ~MayRetry(expected[c][t])
  BY <1>1, <1>3 DEF MayPoll, MayRetry, isSettledOutcome
<1> QED
  BY <1>1, <1>2, <1>4 DEF MayPoll, Consistent, Owner

(* TypeOK is kept by every step. *)
LEMMA TypeStep == IInv /\ [Next]_vars => TypeOK'
<1> SUFFICES ASSUME TypeOK, HandInv, PollInv, [Next]_vars PROVE TypeOK'
  BY DEF IInv, RestInv
<1> USE StateNames DEF TypeOK
<1>0. CASE UNCHANGED vars
  BY <1>0 DEF vars, work
<1>1. ASSUME NEW c \in Calls, NEW f \in Fingerprints, Publish(c, f) PROVE TypeOK'
  <2>1. AllTargets("send") \in [Targets -> WorkStates]
    BY DEF AllTargets
  <2>2. AllTargets(Original) \in [Targets -> MaybeAttempt]
    BY DEF AllTargets
  <2>3. pc' \in PerTarget(WorkStates)
    BY <1>1, <2>1, RowTyped DEF Publish
  <2>4. attempt' \in PerTarget(MaybeAttempt)
    BY <1>1, <2>2, RowTyped DEF Publish
  <2>5. call' \in [Calls -> CallStates] /\ claim' \in Fingerprints \cup {None}
    BY <1>1 DEF Publish
  <2> QED
    BY <1>1, <2>3, <2>4, <2>5 DEF Publish
<1>2. ASSUME NEW c \in Calls, NEW t \in Targets, StopBeforeAdapter(c, t) PROVE TypeOK'
  <2>1. pc' \in PerTarget(WorkStates)
    BY <1>2, CellTyped DEF StopBeforeAdapter
  <2>2. outcome' \in PerTarget(MaybeOutcome)
    <3>1. attempt[c][t] \in Attempts
      BY <1>2, InHandAttempt DEF StopBeforeAdapter, Dispatching, InHand
    <3>2. /\ NotSubmitted(Tag(attempt[c][t])) \in Outcomes
          /\ CancelledBefore(Tag(attempt[c][t])) \in Outcomes
      BY <3>1, OutcomesAreTyped
    <3>3. PICK o \in {NotSubmitted(Tag(attempt[c][t])), CancelledBefore(Tag(attempt[c][t]))} :
             outcome' = [outcome EXCEPT ![c][t] = o]
      BY <1>2 DEF StopBeforeAdapter
    <3>4. o \in MaybeOutcome
      BY <3>2
    <3> QED
      BY <3>3, <3>4, CellTyped
  <2> QED
    BY <1>2, <2>1, <2>2 DEF StopBeforeAdapter
<1>3. ASSUME NEW c \in Calls, NEW t \in Targets, EnterAdapter(c, t) PROVE TypeOK'
  BY <1>3, InHandAttempt, CellTyped, ProviderTyped DEF EnterAdapter, Dispatching, InHand
<1>4. ASSUME NEW c \in Calls, NEW t \in Targets, AdapterAnswers(c, t) PROVE TypeOK'
  <2>1. pc' \in PerTarget(WorkStates)
    BY <1>4, CellTyped DEF AdapterAnswers
  <2>2. outcome' \in PerTarget(MaybeOutcome)
    <3>1. attempt[c][t] \in Attempts
      BY <1>4, InHandAttempt DEF AdapterAnswers, Dispatching, InHand
    <3>2. provider[t][attempt[c][t]] \in ProviderStates
      BY <3>1
    <3>3. \A d \in {attempt[c][t], None} :
             Reports(provider[t][attempt[c][t]], Tag(attempt[c][t]), d) \subseteq Outcomes
      BY <3>1, <3>2, OutcomesAreTyped
    <3>4. PICK d \in {attempt[c][t], None} :
             \E o \in Reports(provider[t][attempt[c][t]], Tag(attempt[c][t]), d) :
                outcome' = [outcome EXCEPT ![c][t] = o]
      BY <1>4 DEF AdapterAnswers
    <3>5. PICK o \in Reports(provider[t][attempt[c][t]], Tag(attempt[c][t]), d) :
             outcome' = [outcome EXCEPT ![c][t] = o]
      BY <3>4
    <3>6. o \in MaybeOutcome
      BY <3>3
    <3> QED
      BY <3>5, <3>6, CellTyped
  <2> QED
    BY <1>4, <2>1, <2>2 DEF AdapterAnswers
<1>5. ASSUME NEW c \in Calls, NEW t \in Targets, SaveOutcome(c, t) PROVE TypeOK'
  <2>1. pc' \in PerTarget(WorkStates)
    BY <1>5, CellTyped DEF SaveOutcome
  <2>2. saved' \in [Targets -> MaybeOutcome]
    <3>1. outcome[c][t] \in MaybeOutcome
      BY CellTyped
    <3> QED
      BY <1>5, <3>1 DEF SaveOutcome
  <2> QED
    BY <1>5, <2>1, <2>2 DEF SaveOutcome
<1>6. ASSUME NEW c \in Calls, NEW f \in Fingerprints, NEW op \in {"reconcile", "retry"}, OpenRecoveryClaim(c, f, op) PROVE TypeOK'
  <2>1. pc' \in PerTarget(WorkStates)
    <3>1. \A r \in [Targets -> WorkStates] : [pc EXCEPT ![c] = r] \in PerTarget(WorkStates)
      BY RowTyped
    <3>2. AllTargets("fence") \in [Targets -> WorkStates]
      BY DEF AllTargets
    <3>3. PlannedSteps(op) \in [Targets -> WorkStates]
      BY DEF PlannedSteps, PlannedStep
    <3> QED
      BY <1>6, <3>1, <3>2, <3>3 DEF OpenRecoveryClaim, ReadOutcomes
  <2>2. expected' \in PerTarget(MaybeOutcome)
    BY <1>6, RowTyped DEF OpenRecoveryClaim, ReadOutcomes
  <2>3. call' \in [Calls -> CallStates] /\ claim' \in Fingerprints \cup {None}
    BY <1>6 DEF OpenRecoveryClaim, ReadOutcomes, Fencing
  <2> QED
    BY <1>6, <2>1, <2>2, <2>3 DEF OpenRecoveryClaim
<1>7. ASSUME NEW c \in Calls, NEW op \in {"reconcile", "retry"}, Reload(c, op) PROVE TypeOK'
  <2>1. PlannedSteps(op) \in [Targets -> WorkStates]
    BY DEF PlannedSteps, PlannedStep
  <2>2. pc' \in PerTarget(WorkStates)
    BY <1>7, <2>1, RowTyped DEF Reload, ReadOutcomes
  <2>3. expected' \in PerTarget(MaybeOutcome)
    BY <1>7, RowTyped DEF Reload, ReadOutcomes
  <2>4. call' \in [Calls -> CallStates]
    BY <1>7 DEF Reload, ReadOutcomes
  <2> QED
    BY <1>7, <2>2, <2>3, <2>4 DEF Reload
<1>8. ASSUME NEW c \in Calls, NEW t \in Targets, FenceTarget(c, t) PROVE TypeOK'
  <2>1. NotSubmitted(None) \in MaybeOutcome
    BY OutcomesAreTyped
  <2>2. saved' \in [Targets -> MaybeOutcome]
    BY <1>8, <2>1 DEF FenceTarget
  <2>3. pc' \in PerTarget(WorkStates)
    BY <1>8, CellTyped DEF FenceTarget
  <2> QED
    BY <1>8, <2>2, <2>3 DEF FenceTarget
<1>9. ASSUME NEW c \in Calls, NEW t \in Targets, Poll(c, t) PROVE TypeOK'
  <2>1. expected[c][t].delivery \in Attempts
    BY <1>9, PolledDelivery DEF Poll
  <2>2. Reports(provider[t][expected[c][t].delivery], None, expected[c][t].delivery) \subseteq Outcomes
    BY <2>1, OutcomesAreTyped
  <2>3. outcome' \in PerTarget(MaybeOutcome)
    <3>1. CASE outcome' = outcome
      BY <3>1
    <3>2. ASSUME NEW o \in Reports(provider[t][expected[c][t].delivery], None, expected[c][t].delivery),
                 outcome' = [outcome EXCEPT ![c][t] = o]
          PROVE  outcome' \in PerTarget(MaybeOutcome)
      BY <2>2, <3>2, CellTyped
    <3> QED
      BY <1>9, <3>1, <3>2 DEF Poll
  <2>4. pc' \in PerTarget(WorkStates)
    <3>1. PICK s \in {"done", "polled"} : pc' = [pc EXCEPT ![c][t] = s]
      BY <1>9 DEF Poll
    <3>2. s \in WorkStates
      OBVIOUS
    <3> QED
      BY <3>1, <3>2, CellTyped
  <2> QED
    BY <1>9, <2>3, <2>4 DEF Poll
<1>10. ASSUME NEW c \in Calls, NEW t \in Targets, SavePolled(c, t) PROVE TypeOK'
  <2>1. pc' \in PerTarget(WorkStates)
    BY <1>10, CellTyped DEF SavePolled
  <2>2. saved' \in [Targets -> MaybeOutcome]
    <3>1. outcome[c][t] \in MaybeOutcome
      BY CellTyped
    <3> QED
      BY <1>10, <3>1 DEF SavePolled, CompareAndSet
  <2> QED
    BY <1>10, <2>1, <2>2 DEF SavePolled
<1>11. ASSUME NEW c \in Calls, NEW t \in Targets, FenceRetry(c, t) PROVE TypeOK'
  <2>1. PICK a \in RetryIds \ spent :
          /\ spent' = spent \cup {a}
          /\ CompareAndSet(t, expected[c][t], Fence(a))
          /\ pc' = [pc EXCEPT ![c][t] = IF saved[t] = expected[c][t] THEN "send" ELSE "done"]
          /\ attempt' = [attempt EXCEPT ![c][t] = a]
          /\ expected' = [expected EXCEPT ![c][t] = Fence(a)]
    BY <1>11 DEF FenceRetry
  <2>2. Fence(a) \in Outcomes
    BY OutcomesAreTyped
  <2>3. saved' \in [Targets -> MaybeOutcome]
    BY <2>1, <2>2 DEF CompareAndSet
  <2>4. pc' \in PerTarget(WorkStates)
    BY <2>1, CellTyped
  <2>5. attempt' \in PerTarget(MaybeAttempt)
    BY <2>1, CellTyped DEF Attempts
  <2>6. expected' \in PerTarget(MaybeOutcome)
    BY <2>1, <2>2, CellTyped
  <2> QED
    BY <1>11, <2>1, <2>3, <2>4, <2>5, <2>6 DEF FenceRetry
<1>12. ASSUME NEW c \in Calls, NEW t \in Targets, SkipRetry(c, t) PROVE TypeOK'
  BY <1>12, CellTyped DEF SkipRetry
<1>13. ASSUME NEW c \in Calls, NEW t \in Targets, SaveRetried(c, t) PROVE TypeOK'
  <2>1. pc' \in PerTarget(WorkStates)
    BY <1>13, CellTyped DEF SaveRetried
  <2>2. saved' \in [Targets -> MaybeOutcome]
    <3>1. outcome[c][t] \in MaybeOutcome
      BY CellTyped
    <3> QED
      BY <1>13, <3>1 DEF SaveRetried, CompareAndSet
  <2> QED
    BY <1>13, <2>1, <2>2 DEF SaveRetried
<1>14. ASSUME NEW c \in Calls, Return(c) PROVE TypeOK'
  BY <1>14 DEF Return, work
<1>15. ASSUME NEW c \in Calls, Crash(c) PROVE TypeOK'
  BY <1>15 DEF Crash, work
<1>16. ASSUME NEW t \in Targets, NEW a \in Attempts, ProviderMoves(t, a) PROVE TypeOK'
  <2>1. provider' \in [Targets -> [Attempts -> ProviderStates]]
    <3>1. PICK p \in {"held", "public", "dead"} : provider' = [provider EXCEPT ![t][a] = p]
      BY <1>16 DEF ProviderMoves
    <3> QED
      BY <3>1, ProviderTyped
  <2> QED
    BY <1>16, <2>1 DEF ProviderMoves, work
<1> QED
  BY <1>0, <1>1, <1>2, <1>3, <1>4, <1>5, <1>6, <1>7, <1>8, <1>9, <1>10, <1>11, <1>12, <1>13,
     <1>14, <1>15, <1>16 DEF Next, CallStep, TargetStep
-----------------------------------------------------------------------------
(* The rest of the invariant, one lemma per action.                     *)
LEMMA PublishStep ==
    ASSUME IInv, NEW c \in Calls, NEW f \in Fingerprints, Publish(c, f)
    PROVE  RestInv'
<1> USE DEF IInv, RestInv
<1>1. /\ call[c] = "idle" /\ f # None
      /\ saved' = saved /\ provider' = provider /\ spent' = spent /\ expected' = expected /\ outcome' = outcome
  BY PublicationAssumption DEF Publish
<1>2. \A d \in Calls : d # c => call'[d] = call[d] /\ pc'[d] = pc[d] /\ attempt'[d] = attempt[d]
  BY Tables DEF Publish, TypeOK
<1>3. \/ /\ claim = None /\ claim' = f /\ call'[c] = "sending"
         /\ \A u \in Targets : pc'[c][u] = "send" /\ attempt'[c][u] = Original
      \/ claim # None /\ claim' = claim /\ call'[c] \in {"returned", "refused"}
  BY Tables DEF Publish, AllTargets, TypeOK
<1>4. UnclaimedInv' /\ FencingInv' /\ FreshInv' /\ SavedInv'
  BY <1>1, <1>2, <1>3
  DEF UnclaimedInv, FencingInv, FreshInv, SavedInv, InHand, Alive, Attempts
<1>5. HandInv'
  BY <1>1, <1>2, <1>3, StateNames DEF HandInv, UnclaimedInv, InHand, Alive
<1>6. UniqueInv'
  BY <1>1, <1>2, <1>3 DEF UniqueInv, UnclaimedInv, InHand
<1>7. RetryInv' /\ PollInv'
  BY <1>1, <1>2, <1>3
  DEF RetryInv, PollInv, InHand, Alive, Attempts
<1>8. CoverInv'
  BY <1>1, <1>2, <1>3
  DEF CoverInv, InHand, Alive, Attempts
<1> QED
  BY <1>4, <1>5, <1>6, <1>7, <1>8

LEMMA StopBeforeAdapterStep ==
    ASSUME IInv, NEW c \in Calls, NEW t \in Targets, StopBeforeAdapter(c, t)
    PROVE  RestInv'
<1> USE DEF IInv, RestInv
<1>1. /\ call[c] \in {"sending", "retrying"} /\ pc[c][t] = "send"
      /\ claim' = claim /\ saved' = saved /\ provider' = provider /\ spent' = spent
      /\ call' = call /\ attempt' = attempt /\ expected' = expected
  BY DEF StopBeforeAdapter, Dispatching
<1>2. \A d \in Calls, u \in Targets :
          pc'[d][u] = IF d = c /\ u = t THEN "save" ELSE pc[d][u]
  BY Tables DEF StopBeforeAdapter
<1>3. attempt[c][t] \in Attempts
  BY <1>1, InHandAttempt DEF InHand
<1>4. PICK o \in {NotSubmitted(Tag(attempt[c][t])), CancelledBefore(Tag(attempt[c][t]))} :
          outcome' = [outcome EXCEPT ![c][t] = o]
  BY DEF StopBeforeAdapter
<1>5. o \in Outcomes /\ o \in MaybeOutcome
  BY <1>3, <1>4, OutcomesAreTyped, StateNames
<1>6. \A d \in Calls, u \in Targets :
          outcome'[d][u] = IF d = c /\ u = t THEN o ELSE outcome[d][u]
  BY <1>4, Tables
<1>7. o # None /\ Owner(o) = attempt[c][t] /\ Consistent(o) /\ o.state # "published"
  BY <1>3, <1>4, <1>5, NoneAssumption, PublicationAssumption
    DEF Owner, Consistent, NotSubmitted, CancelledBefore, Outcome, Tag, Attempts
<1>8. UnclaimedInv' /\ FencingInv' /\ FreshInv' /\ SavedInv'
  BY <1>1, <1>2, <1>3, <1>4, <1>5, <1>6, <1>7
  DEF UnclaimedInv, FencingInv, FreshInv, SavedInv, InHand, Alive, Attempts
<1>9. HandInv'
  BY <1>1, <1>2, <1>3, <1>4, <1>5, <1>6, <1>7
  DEF HandInv, UniqueInv, InHand, Alive, Attempts
<1>10. UniqueInv'
  BY <1>1, <1>2, <1>3, <1>4, <1>5, <1>6, <1>7
  DEF UniqueInv, InHand, Alive, Attempts
<1>11. RetryInv' /\ PollInv'
  BY <1>1, <1>2, <1>3, <1>4, <1>5, <1>6, <1>7
  DEF RetryInv, PollInv, InHand, Alive, Attempts
<1>12. CoverInv'
  BY <1>1, <1>2, <1>3, <1>4, <1>5, <1>6, <1>7
  DEF CoverInv, InHand, Alive, Attempts
<1> QED
  BY <1>8, <1>9, <1>10, <1>11, <1>12

LEMMA EnterAdapterStep ==
    ASSUME IInv, NEW c \in Calls, NEW t \in Targets, EnterAdapter(c, t)
    PROVE  RestInv'
<1> USE DEF IInv, RestInv
<1>1. /\ call[c] \in {"sending", "retrying"} /\ pc[c][t] = "send"
      /\ claim' = claim /\ saved' = saved /\ spent' = spent /\ call' = call
      /\ attempt' = attempt /\ expected' = expected /\ outcome' = outcome
  BY DEF EnterAdapter, Dispatching
<1>2. \A d \in Calls, u \in Targets :
          pc'[d][u] = IF d = c /\ u = t THEN "await" ELSE pc[d][u]
  BY Tables DEF EnterAdapter
<1>3. attempt[c][t] \in Attempts
  BY <1>1, InHandAttempt DEF InHand
<1>4. \A u \in Targets, b \in Attempts :
          provider'[u][b] = IF u = t /\ b = attempt[c][t] THEN "travelling" ELSE provider[u][b]
  BY <1>3, ProviderTyped, StateNames DEF EnterAdapter
<1>5. /\ claim # None /\ provider[t][attempt[c][t]] = "none"
      /\ \/ call[c] = "sending" /\ attempt[c][t] = Original /\ saved[t] = None
         \/ /\ attempt[c][t] \in spent /\ attempt[c][t] # Original /\ saved[t] # None
            /\ Owner(saved[t]) = attempt[c][t] /\ ~MayRetry(saved[t])
  BY <1>1, HandFacts DEF InHand, HandInv
<1>6. UnclaimedInv' /\ FencingInv' /\ FreshInv' /\ SavedInv'
  BY <1>1, <1>2, <1>3, <1>4, <1>5, PublicationAssumption, StateNames DEF UnclaimedInv,
     FencingInv, FreshInv, SavedInv
<1>7. HandInv'
  BY <1>1, <1>2, <1>3, <1>4, <1>5, InHandAttempt
  DEF HandInv, UniqueInv, InHand, Alive
<1>8. UniqueInv'
  BY <1>1, <1>2, <1>3, <1>4, <1>5
  DEF UniqueInv, InHand, Alive, Attempts
<1>9. RetryInv' /\ PollInv'
  BY <1>1, <1>2, <1>3, <1>4, <1>5, PolledDelivery
  DEF RetryInv, PollInv
<1>10. CoverInv'
  BY <1>1, <1>2, <1>3, <1>4, <1>5
  DEF CoverInv, InHand, Alive, Attempts
<1> QED
  BY <1>6, <1>7, <1>8, <1>9, <1>10

LEMMA AdapterAnswersStep ==
    ASSUME IInv, NEW c \in Calls, NEW t \in Targets, AdapterAnswers(c, t)
    PROVE  RestInv'
<1> USE DEF IInv, RestInv
<1>1. /\ call[c] \in {"sending", "retrying"} /\ pc[c][t] = "await"
      /\ claim' = claim /\ saved' = saved /\ provider' = provider /\ spent' = spent
      /\ call' = call /\ attempt' = attempt /\ expected' = expected
  BY DEF AdapterAnswers, Dispatching
<1>2. \A d \in Calls, u \in Targets :
          pc'[d][u] = IF d = c /\ u = t THEN "save" ELSE pc[d][u]
  BY Tables DEF AdapterAnswers
<1>3. attempt[c][t] \in Attempts /\ provider[t][attempt[c][t]] \in ProviderStates
  BY <1>1, InHandAttempt DEF InHand, TypeOK
<1>4. PICK d \in {attempt[c][t], None} :
          \E o \in Reports(provider[t][attempt[c][t]], Tag(attempt[c][t]), d) :
             outcome' = [outcome EXCEPT ![c][t] = o]
  BY DEF AdapterAnswers
<1>5. PICK o \in Reports(provider[t][attempt[c][t]], Tag(attempt[c][t]), d) :
          outcome' = [outcome EXCEPT ![c][t] = o]
  BY <1>4
<1>6. o \in Outcomes /\ o \in MaybeOutcome
  BY <1>3, OutcomesAreTyped, StateNames
<1>7. \A e \in Calls, u \in Targets :
          outcome'[e][u] = IF e = c /\ u = t THEN o ELSE outcome[e][u]
  BY <1>5, Tables
<1>8. /\ o # None /\ Owner(o) = attempt[c][t] /\ Consistent(o)
      /\ MayRetry(o) \/ IsFinal(o) => ~Alive(t, attempt[c][t])
      /\ o.state = "published" => provider[t][attempt[c][t]] = "public"
  BY <1>3, <1>6, NoneAssumption, PublicationAssumption
    DEF Reports, Owner, Consistent, Outcome, Tag, Attempts, MayRetry, IsFinal, Alive
<1>9. UnclaimedInv' /\ FencingInv' /\ FreshInv' /\ SavedInv'
  BY <1>1, <1>2, <1>3, <1>4, <1>5, <1>6, <1>7, <1>8
  DEF UnclaimedInv, FencingInv, FreshInv, SavedInv, InHand, Alive, Attempts
<1>10. HandInv'
  BY <1>1, <1>2, <1>3, <1>4, <1>5, <1>6, <1>7, <1>8
  DEF HandInv, UniqueInv, InHand, Alive, Attempts
<1>11. UniqueInv'
  BY <1>1, <1>2, <1>3, <1>4, <1>5, <1>6, <1>7, <1>8
  DEF UniqueInv, InHand, Alive, Attempts
<1>12. RetryInv' /\ PollInv'
  BY <1>1, <1>2, <1>3, <1>4, <1>5, <1>6, <1>7, <1>8
  DEF RetryInv, PollInv, InHand, Alive, Attempts
<1>13. CoverInv'
  BY <1>1, <1>2, <1>3, <1>4, <1>5, <1>6, <1>7, <1>8
  DEF CoverInv, InHand, Alive, Attempts
<1> QED
  BY <1>9, <1>10, <1>11, <1>12, <1>13

LEMMA SaveOutcomeStep ==
    ASSUME IInv, NEW c \in Calls, NEW t \in Targets, SaveOutcome(c, t)
    PROVE  RestInv'
<1> USE DEF IInv, RestInv
<1>1. /\ call[c] = "sending" /\ pc[c][t] = "save"
      /\ claim' = claim /\ provider' = provider /\ spent' = spent /\ call' = call
      /\ attempt' = attempt /\ expected' = expected /\ outcome' = outcome
  BY DEF SaveOutcome
<1>2. \A d \in Calls, u \in Targets :
          pc'[d][u] = IF d = c /\ u = t THEN "done" ELSE pc[d][u]
  BY Tables DEF SaveOutcome
<1>3. PICK v \in {saved[t], outcome[c][t]} :
          \A u \in Targets : saved'[u] = IF u = t THEN v ELSE saved[u]
  BY DEF SaveOutcome, TypeOK
<1>4. /\ claim # None /\ attempt[c][t] = Original /\ saved[t] = None /\ outcome[c][t] # None
      /\ Owner(outcome[c][t]) = Original /\ Consistent(outcome[c][t])
      /\ MayRetry(outcome[c][t]) \/ IsFinal(outcome[c][t]) => ~Alive(t, Original)
      /\ outcome[c][t].state = "published" => provider[t][Original] = "public"
  BY <1>1, HandFacts DEF HandInv, InHand
<1>5. v = None \/ /\ v # None /\ Owner(v) = Original /\ Consistent(v)
                   /\ MayRetry(v) => ~Alive(t, Original)
  BY <1>3, <1>4
<1>6. UnclaimedInv' /\ FencingInv' /\ FreshInv' /\ SavedInv'
  BY <1>1, <1>3, <1>4, <1>5 DEF UnclaimedInv, FencingInv, FreshInv, SavedInv
<1>7. HandInv'
  BY <1>1, <1>2, <1>3, <1>4, <1>5
  DEF HandInv, UniqueInv, InHand, Alive, Attempts
<1>8. UniqueInv'
  BY <1>1, <1>2, <1>3, <1>4, <1>5
  DEF UniqueInv, InHand, Alive, Attempts
<1>9. RetryInv' /\ PollInv'
  BY <1>1, <1>2, <1>3, <1>4, <1>5
  DEF RetryInv, PollInv, InHand, Alive, Attempts
<1>10. CoverInv'
  BY <1>1, <1>3, <1>4, <1>5, StateNames DEF CoverInv, Alive
<1> QED
  BY <1>6, <1>7, <1>8, <1>9, <1>10

LEMMA OpenRecoveryClaimStep ==
    ASSUME IInv, NEW c \in Calls, NEW f \in Fingerprints, NEW op \in {"reconcile", "retry"}, OpenRecoveryClaim(c, f, op)
    PROVE  RestInv'
<1> USE DEF IInv, RestInv
<1>1. /\ call[c] = "idle"
      /\ saved' = saved /\ provider' = provider /\ spent' = spent /\ attempt' = attempt /\ outcome' = outcome
  BY DEF OpenRecoveryClaim
<1>2. \A d \in Calls : d # c => call'[d] = call[d] /\ pc'[d] = pc[d] /\ expected'[d] = expected[d]
  BY Tables DEF OpenRecoveryClaim, ReadOutcomes, TypeOK
<1>3. \/ /\ claim = None /\ claim' = f /\ call'[c] \in {"fencing-reconcile", "fencing-retry"}
      \/ /\ claim = f /\ claim' = claim /\ expected'[c] = saved
         /\ call'[c] = IF op = "retry" THEN "retrying" ELSE "reconciling"
         /\ \A u \in Targets : pc'[c][u] = PlannedStep(op, saved[u])
      \/ claim # None /\ claim' = claim /\ call'[c] = "refused"
  BY Tables DEF OpenRecoveryClaim, ReadOutcomes, Fencing, PlannedSteps, TypeOK
<1>4. /\ call'[c] # "sending"
      /\ call'[c] = "retrying" => \A u \in Targets : pc'[c][u] \notin {"send", "await", "save"}
  BY <1>3, PlannedStepFacts DEF TypeOK
<1>5. f # None
  BY PublicationAssumption
<1>6. UnclaimedInv' /\ FencingInv' /\ FreshInv' /\ SavedInv'
  BY <1>1, <1>2, <1>3, <1>4, <1>5, StateNames DEF UnclaimedInv, FencingInv, FreshInv, SavedInv
<1>7. HandInv'
  BY <1>1, <1>2, <1>3, <1>4, <1>5 DEF HandInv, InHand, Alive
<1>8. UniqueInv'
  BY <1>1, <1>2, <1>3, <1>4, <1>5 DEF UniqueInv, InHand
<1>9. RetryInv' /\ PollInv'
  BY <1>1, <1>2, <1>3, <1>4, <1>5, PlannedStepFacts DEF RetryInv, PollInv, SavedInv, TypeOK
<1>10. CoverInv'
  BY <1>1, <1>2, <1>3, <1>4, <1>5
  DEF CoverInv, InHand, Alive, Attempts
<1> QED
  BY <1>6, <1>7, <1>8, <1>9, <1>10

LEMMA ReloadStep ==
    ASSUME IInv, NEW c \in Calls, NEW op \in {"reconcile", "retry"}, Reload(c, op)
    PROVE  RestInv'
<1> USE DEF IInv, RestInv
<1>1. /\ call[c] \in {"fencing-reconcile", "fencing-retry"}
      /\ claim' = claim /\ saved' = saved /\ provider' = provider /\ spent' = spent /\ attempt' = attempt /\ outcome' = outcome
  BY DEF Reload, Fencing
<1>2. \A d \in Calls : d # c => call'[d] = call[d] /\ pc'[d] = pc[d] /\ expected'[d] = expected[d]
  BY Tables DEF Reload, ReadOutcomes, TypeOK
<1>3. /\ expected'[c] = saved
      /\ call'[c] = IF op = "retry" THEN "retrying" ELSE "reconciling"
      /\ \A u \in Targets : pc'[c][u] = PlannedStep(op, saved[u])
  BY Tables DEF Reload, ReadOutcomes, PlannedSteps, TypeOK
<1>4. /\ call'[c] # "sending"
      /\ call'[c] = "retrying" => \A u \in Targets : pc'[c][u] \notin {"send", "await", "save"}
  BY <1>3, PlannedStepFacts DEF TypeOK
<1>5. UnclaimedInv' /\ FencingInv' /\ FreshInv' /\ SavedInv'
  BY <1>1, <1>2, <1>3, <1>4, StateNames DEF UnclaimedInv, FencingInv, FreshInv, SavedInv
<1>6. HandInv'
  BY <1>1, <1>2, <1>3, <1>4 DEF HandInv, InHand, Alive
<1>7. UniqueInv'
  BY <1>1, <1>2, <1>3, <1>4 DEF UniqueInv, InHand
<1>8. RetryInv' /\ PollInv'
  BY <1>1, <1>2, <1>3, <1>4, PlannedStepFacts DEF RetryInv, PollInv, SavedInv, TypeOK
<1>9. CoverInv'
  BY <1>1, <1>2, <1>3, <1>4
  DEF CoverInv, InHand, Alive, Attempts
<1> QED
  BY <1>5, <1>6, <1>7, <1>8, <1>9

LEMMA FenceTargetStep ==
    ASSUME IInv, NEW c \in Calls, NEW t \in Targets, FenceTarget(c, t)
    PROVE  RestInv'
<1> USE DEF IInv, RestInv
<1>1. /\ call[c] \in {"fencing-reconcile", "fencing-retry"} /\ pc[c][t] = "fence"
      /\ claim' = claim /\ provider' = provider /\ spent' = spent /\ call' = call
      /\ attempt' = attempt /\ expected' = expected /\ outcome' = outcome
  BY DEF FenceTarget
<1>2. \A d \in Calls, u \in Targets :
          pc'[d][u] = IF d = c /\ u = t THEN "fenced" ELSE pc[d][u]
  BY Tables DEF FenceTarget
<1>3. \A u \in Targets : saved'[u] = IF u = t /\ saved[t] = None THEN NotSubmitted(None) ELSE saved[u]
  BY DEF FenceTarget, TypeOK
<1>4. /\ NotSubmitted(None) # None /\ Consistent(NotSubmitted(None))
      /\ MayRetry(NotSubmitted(None))
  BY OutcomesAreTyped, NoneAssumption DEF Consistent, NotSubmitted, Outcome, MayRetry
<1>5. UnclaimedInv' /\ FencingInv' /\ FreshInv' /\ SavedInv'
  BY <1>1, <1>2, <1>3, <1>4
  DEF UnclaimedInv, FencingInv, FreshInv, SavedInv, InHand, Alive, Attempts
<1>6. HandInv'
  BY <1>1, <1>2, <1>3, <1>4, HandFacts DEF HandInv, FencingInv, InHand, Alive
<1>7. UniqueInv'
  BY <1>1, <1>2, <1>3, <1>4
  DEF UniqueInv, InHand, Alive, Attempts
<1>8. RetryInv' /\ PollInv'
  BY <1>1, <1>2, <1>3, <1>4
  DEF RetryInv, PollInv, InHand, Alive, Attempts
<1>9. CoverInv'
  BY <1>1, <1>2, <1>3, <1>4 DEF CoverInv, FencingInv, Alive
<1> QED
  BY <1>5, <1>6, <1>7, <1>8, <1>9

LEMMA PollStep ==
    ASSUME IInv, NEW c \in Calls, NEW t \in Targets, Poll(c, t)
    PROVE  RestInv'
<1> USE DEF IInv, RestInv
<1>1. /\ call[c] = "reconciling" /\ pc[c][t] = "poll"
      /\ claim' = claim /\ saved' = saved /\ provider' = provider /\ spent' = spent
      /\ call' = call /\ attempt' = attempt /\ expected' = expected
  BY DEF Poll
<1>2. expected[c][t].delivery \in Attempts
  BY <1>1, PolledDelivery
<1>3. \/ pc' = [pc EXCEPT ![c][t] = "done"] /\ outcome' = outcome
      \/ /\ pc' = [pc EXCEPT ![c][t] = "polled"]
         /\ \E o \in Reports(provider[t][expected[c][t].delivery], None, expected[c][t].delivery) :
               outcome' = [outcome EXCEPT ![c][t] = o]
  BY DEF Poll
<1>4. /\ \A d \in Calls, u \in Targets : ~(d = c /\ u = t) => pc'[d][u] = pc[d][u]
      /\ pc'[c][t] \in {"done", "polled"}
  BY <1>3, Tables
<1>5. \A d \in Calls, u \in Targets : ~(d = c /\ u = t) => outcome'[d][u] = outcome[d][u]
  BY <1>3, Tables
<1>6. pc'[c][t] = "polled" =>
          outcome'[c][t] \in Reports(provider[t][expected[c][t].delivery], None, expected[c][t].delivery)
  BY <1>3, Tables
<1>7. provider[t][expected[c][t].delivery] \in ProviderStates
  BY <1>2 DEF TypeOK
<1>8. pc'[c][t] = "polled" =>
          /\ outcome'[c][t] # None /\ outcome'[c][t].attempt = None
          /\ outcome'[c][t].delivery = expected[c][t].delivery
          /\ MayRetry(outcome'[c][t]) \/ IsFinal(outcome'[c][t])
                => provider[t][expected[c][t].delivery] = "dead"
          /\ outcome'[c][t].state = "published" => provider[t][expected[c][t].delivery] = "public"
  BY <1>2, <1>6, <1>7, PollReports
<1>9. MayPoll(expected[c][t]) /\ Consistent(expected[c][t])
  BY <1>1 DEF PollInv
<1>10. UnclaimedInv' /\ FencingInv' /\ FreshInv' /\ SavedInv'
  BY <1>1, <1>2, <1>3, <1>4, <1>5, <1>6, <1>7, <1>8, <1>9
  DEF UnclaimedInv, FencingInv, FreshInv, SavedInv, InHand, Alive, Attempts
<1>11. HandInv'
  BY <1>1, <1>2, <1>3, <1>4, <1>5, <1>6, <1>7, <1>8, <1>9
  DEF HandInv, UniqueInv, InHand, Alive, Attempts
<1>12. UniqueInv'
  BY <1>1, <1>2, <1>3, <1>4, <1>5, <1>6, <1>7, <1>8, <1>9
  DEF UniqueInv, InHand, Alive, Attempts
<1>13. RetryInv' /\ PollInv'
  BY <1>1, <1>2, <1>3, <1>4, <1>5, <1>6, <1>7, <1>8, <1>9
  DEF RetryInv, PollInv, InHand, Alive, Attempts
<1>14. CoverInv'
  BY <1>1, <1>2, <1>3, <1>4, <1>5, <1>6, <1>7, <1>8, <1>9
  DEF CoverInv, InHand, Alive, Attempts
<1> QED
  BY <1>10, <1>11, <1>12, <1>13, <1>14

LEMMA SavePolledStep ==
    ASSUME IInv, NEW c \in Calls, NEW t \in Targets, SavePolled(c, t)
    PROVE  RestInv'
<1> USE DEF IInv, RestInv
<1>1. /\ call[c] = "reconciling" /\ pc[c][t] = "polled"
      /\ claim' = claim /\ provider' = provider /\ spent' = spent /\ call' = call
      /\ attempt' = attempt /\ expected' = expected /\ outcome' = outcome
  BY DEF SavePolled
<1>2. \A d \in Calls, u \in Targets :
          pc'[d][u] = IF d = c /\ u = t THEN "done" ELSE pc[d][u]
  BY Tables DEF SavePolled
<1>3. \A u \in Targets :
          saved'[u] = IF u = t /\ saved[t] = expected[c][t] THEN outcome[c][t] ELSE saved[u]
  BY DEF SavePolled, CompareAndSet, TypeOK
<1>4. claim # None
  BY <1>1 DEF UnclaimedInv
<1>5. LET d == expected[c][t].delivery IN
      /\ expected[c][t] # None /\ ~MayRetry(expected[c][t]) /\ MayPoll(expected[c][t])
      /\ d \in Attempts /\ Owner(expected[c][t]) = d
      /\ outcome[c][t] # None /\ Owner(outcome[c][t]) = d /\ Consistent(outcome[c][t])
      /\ MayRetry(outcome[c][t]) \/ IsFinal(outcome[c][t]) => provider[t][d] = "dead"
      /\ outcome[c][t].state = "published" => provider[t][d] = "public"
  BY <1>1, PolledFacts
<1>6. saved[t] = expected[c][t] => \A d \in Calls : ~InHand(d, t)
  BY <1>5, HandFacts
<1>7. UnclaimedInv' /\ FencingInv' /\ FreshInv' /\ SavedInv'
  BY <1>1, <1>2, <1>3, <1>4, <1>5, <1>6 DEF UnclaimedInv, FencingInv, FreshInv, SavedInv
<1>8. HandInv'
  BY <1>1, <1>2, <1>3, <1>4, <1>5, <1>6 DEF HandInv, InHand, Alive
<1>9. UniqueInv'
  BY <1>1, <1>2, <1>3, <1>4, <1>5, <1>6
  DEF UniqueInv, InHand, Alive, Attempts
<1>10. RetryInv' /\ PollInv'
  BY <1>1, <1>2, <1>3, <1>4, <1>5, <1>6
  DEF RetryInv, PollInv, InHand, Alive, Attempts
<1>11. CoverInv'
  BY <1>1, <1>2, <1>3, <1>4, <1>5, <1>6 DEF CoverInv, Alive
<1> QED
  BY <1>7, <1>8, <1>9, <1>10, <1>11

LEMMA FenceRetryStep ==
    ASSUME IInv, NEW c \in Calls, NEW t \in Targets, FenceRetry(c, t)
    PROVE  RestInv'
<1> USE DEF IInv, RestInv
<1>1. /\ call[c] = "retrying" /\ pc[c][t] = "retry"
      /\ claim' = claim /\ provider' = provider /\ call' = call /\ outcome' = outcome
  BY DEF FenceRetry
<1>2. PICK a \in RetryIds \ spent :
          /\ spent' = spent \cup {a}
          /\ CompareAndSet(t, expected[c][t], Fence(a))
          /\ pc' = [pc EXCEPT ![c][t] = IF saved[t] = expected[c][t] THEN "send" ELSE "done"]
          /\ attempt' = [attempt EXCEPT ![c][t] = a]
          /\ expected' = [expected EXCEPT ![c][t] = Fence(a)]
  BY DEF FenceRetry
<1>3. /\ claim # None /\ MayRetry(expected[c][t]) /\ expected[c][t] # None
  BY <1>1 DEF UnclaimedInv, RetryInv, MayRetry
<1>4. \A d \in Calls, u \in Targets :
          attempt'[d][u] = IF d = c /\ u = t THEN a ELSE attempt[d][u]
  BY <1>2, Tables
<1>5. \A d \in Calls, u \in Targets :
          expected'[d][u] = IF d = c /\ u = t THEN Fence(a) ELSE expected[d][u]
  BY <1>2, Tables
<1>6. \A d \in Calls, u \in Targets :
          pc'[d][u] = IF d = c /\ u = t THEN (IF saved[t] = expected[c][t] THEN "send" ELSE "done") ELSE pc[d][u]
  BY <1>2, Tables
<1>7. \A u \in Targets :
          saved'[u] = IF u = t /\ saved[t] = expected[c][t] THEN Fence(a) ELSE saved[u]
  BY <1>2 DEF CompareAndSet, TypeOK
<1>8. saved[t] = expected[c][t] => \A d \in Calls : ~InHand(d, t)
  BY <1>3, HandFacts DEF MayRetry
<1>9. /\ Fence(a) # None /\ Owner(Fence(a)) = a /\ Consistent(Fence(a)) /\ ~MayRetry(Fence(a))
      /\ a \in Attempts /\ a # Original
  BY FenceFacts, PublicationAssumption DEF Attempts
<1>10. UnclaimedInv' /\ FencingInv' /\ FreshInv' /\ SavedInv'
  BY <1>1, <1>2, <1>3, <1>4, <1>5, <1>6, <1>7, <1>8, <1>9
  DEF UnclaimedInv, FencingInv, FreshInv, SavedInv, InHand, Alive, Attempts
<1>11. HandInv'
  BY <1>1, <1>2, <1>3, <1>4, <1>5, <1>6, <1>7, <1>8, <1>9 DEF HandInv, FreshInv, InHand, Alive
<1>12. UniqueInv'
  BY <1>1, <1>2, <1>3, <1>4, <1>5, <1>6, <1>7, <1>8, <1>9 DEF UniqueInv, InHand
<1>13. RetryInv' /\ PollInv'
  BY <1>1, <1>2, <1>3, <1>4, <1>5, <1>6, <1>7, <1>8, <1>9
  DEF RetryInv, PollInv, InHand, Alive, Attempts
<1>14. CoverInv'
  BY <1>1, <1>2, <1>3, <1>4, <1>5, <1>6, <1>7, <1>8, <1>9 DEF CoverInv, Alive
<1> QED
  BY <1>10, <1>11, <1>12, <1>13, <1>14

LEMMA SkipRetryStep ==
    ASSUME IInv, NEW c \in Calls, NEW t \in Targets, SkipRetry(c, t)
    PROVE  RestInv'
<1> USE DEF IInv, RestInv
<1>1. /\ call[c] = "retrying" /\ pc[c][t] = "retry"
      /\ claim' = claim /\ saved' = saved /\ provider' = provider /\ spent' = spent
      /\ call' = call /\ attempt' = attempt /\ expected' = expected /\ outcome' = outcome
  BY DEF SkipRetry
<1>2. \A d \in Calls, u \in Targets :
          pc'[d][u] = IF d = c /\ u = t THEN "done" ELSE pc[d][u]
  BY Tables DEF SkipRetry
<1>3. UnclaimedInv' /\ FencingInv' /\ FreshInv' /\ SavedInv'
  BY <1>1, <1>2
  DEF UnclaimedInv, FencingInv, FreshInv, SavedInv, InHand, Alive, Attempts
<1>4. HandInv'
  BY <1>1, <1>2
  DEF HandInv, UniqueInv, InHand, Alive, Attempts
<1>5. UniqueInv'
  BY <1>1, <1>2
  DEF UniqueInv, InHand, Alive, Attempts
<1>6. RetryInv' /\ PollInv'
  BY <1>1, <1>2
  DEF RetryInv, PollInv, InHand, Alive, Attempts
<1>7. CoverInv'
  BY <1>1, <1>2
  DEF CoverInv, InHand, Alive, Attempts
<1> QED
  BY <1>3, <1>4, <1>5, <1>6, <1>7

LEMMA SaveRetriedStep ==
    ASSUME IInv, NEW c \in Calls, NEW t \in Targets, SaveRetried(c, t)
    PROVE  RestInv'
<1> USE DEF IInv, RestInv
<1>1. /\ call[c] = "retrying" /\ pc[c][t] = "save"
      /\ claim' = claim /\ provider' = provider /\ spent' = spent /\ call' = call
      /\ attempt' = attempt /\ expected' = expected /\ outcome' = outcome
  BY DEF SaveRetried
<1>2. \A d \in Calls, u \in Targets :
          pc'[d][u] = IF d = c /\ u = t THEN "done" ELSE pc[d][u]
  BY Tables DEF SaveRetried
<1>3. \A u \in Targets :
          saved'[u] = IF u = t /\ saved[t] = expected[c][t] THEN outcome[c][t] ELSE saved[u]
  BY DEF SaveRetried, CompareAndSet, TypeOK
<1>4. /\ claim # None /\ attempt[c][t] \in RetryIds /\ attempt[c][t] \in Attempts
      /\ saved[t] # None /\ saved[t] = expected[c][t] /\ Owner(saved[t]) = attempt[c][t]
  BY <1>1, HandFacts DEF InHand, Attempts
<1>5. /\ outcome[c][t] # None /\ Owner(outcome[c][t]) = attempt[c][t] /\ Consistent(outcome[c][t])
      /\ MayRetry(outcome[c][t]) \/ IsFinal(outcome[c][t]) => ~Alive(t, attempt[c][t])
      /\ outcome[c][t].state = "published" => provider[t][attempt[c][t]] = "public"
  BY <1>1 DEF HandInv, InHand
<1>6. UnclaimedInv' /\ FencingInv' /\ FreshInv' /\ SavedInv'
  BY <1>1, <1>2, <1>3, <1>4, <1>5
  DEF UnclaimedInv, FencingInv, FreshInv, SavedInv, InHand, Alive, Attempts
<1>7. HandInv'
  BY <1>1, <1>2, <1>3, <1>4, <1>5
  DEF HandInv, UniqueInv, InHand, Alive, Attempts
<1>8. UniqueInv'
  BY <1>1, <1>2, <1>3, <1>4, <1>5
  DEF UniqueInv, InHand, Alive, Attempts
<1>9. RetryInv' /\ PollInv'
  BY <1>1, <1>2, <1>3, <1>4, <1>5
  DEF RetryInv, PollInv, InHand, Alive, Attempts
<1>10. CoverInv'
  BY <1>1, <1>2, <1>3, <1>4, <1>5
  DEF CoverInv, InHand, Alive, Attempts
<1> QED
  BY <1>6, <1>7, <1>8, <1>9, <1>10

LEMMA ReturnStep ==
    ASSUME IInv, NEW c \in Calls, Return(c)
    PROVE  RestInv'
<1> USE DEF IInv, RestInv
<1>1. \A d \in Calls : call'[d] = IF d = c THEN "returned" ELSE call[d]
  BY DEF Return, TypeOK
<1>2. /\ claim' = claim /\ saved' = saved /\ provider' = provider /\ spent' = spent
      /\ pc' = pc /\ attempt' = attempt /\ expected' = expected /\ outcome' = outcome
      /\ call[c] \in {"sending", "reconciling", "retrying"}
  BY DEF Return, work
<1>3. UnclaimedInv' /\ FencingInv' /\ FreshInv' /\ SavedInv'
  BY <1>1, <1>2
  DEF UnclaimedInv, FencingInv, FreshInv, SavedInv, InHand, Alive, Attempts
<1>4. HandInv'
  BY <1>1, <1>2
  DEF HandInv, UniqueInv, InHand, Alive, Attempts
<1>5. UniqueInv'
  BY <1>1, <1>2
  DEF UniqueInv, InHand, Alive, Attempts
<1>6. RetryInv' /\ PollInv'
  BY <1>1, <1>2
  DEF RetryInv, PollInv, InHand, Alive, Attempts
<1>7. CoverInv'
  BY <1>1, <1>2
  DEF CoverInv, InHand, Alive, Attempts
<1> QED
  BY <1>3, <1>4, <1>5, <1>6, <1>7

LEMMA CrashStep ==
    ASSUME IInv, NEW c \in Calls, Crash(c)
    PROVE  RestInv'
<1> USE DEF IInv, RestInv
<1>1. \A d \in Calls : call'[d] = IF d = c THEN "crashed" ELSE call[d]
  BY DEF Crash, TypeOK
<1>2. /\ claim' = claim /\ saved' = saved /\ provider' = provider /\ spent' = spent
      /\ pc' = pc /\ attempt' = attempt /\ expected' = expected /\ outcome' = outcome
  BY DEF Crash, work
<1>3. UnclaimedInv' /\ FencingInv' /\ FreshInv' /\ SavedInv'
  BY <1>1, <1>2
  DEF UnclaimedInv, FencingInv, FreshInv, SavedInv, InHand, Alive, Attempts
<1>4. HandInv'
  BY <1>1, <1>2
  DEF HandInv, UniqueInv, InHand, Alive, Attempts
<1>5. UniqueInv'
  BY <1>1, <1>2
  DEF UniqueInv, InHand, Alive, Attempts
<1>6. RetryInv' /\ PollInv'
  BY <1>1, <1>2
  DEF RetryInv, PollInv, InHand, Alive, Attempts
<1>7. CoverInv'
  BY <1>1, <1>2
  DEF CoverInv, InHand, Alive, Attempts
<1> QED
  BY <1>3, <1>4, <1>5, <1>6, <1>7

LEMMA ProviderMovesStep ==
    ASSUME IInv, NEW t \in Targets, NEW a \in Attempts, ProviderMoves(t, a)
    PROVE  RestInv'
<1> USE DEF IInv, RestInv
<1>1. /\ claim' = claim /\ saved' = saved /\ spent' = spent /\ call' = call
      /\ pc' = pc /\ attempt' = attempt /\ expected' = expected /\ outcome' = outcome
  BY DEF ProviderMoves, work
<1>2. PICK p \in {"held", "public", "dead"} : provider' = [provider EXCEPT ![t][a] = p]
  BY DEF ProviderMoves
<1>3. provider[t][a] \in {"travelling", "held"}
  BY DEF ProviderMoves
<1>4. \A u \in Targets, b \in Attempts :
          provider'[u][b] = IF u = t /\ b = a THEN p ELSE provider[u][b]
  BY <1>2, ProviderTyped, StateNames
<1>5. UnclaimedInv' /\ FencingInv' /\ FreshInv' /\ SavedInv'
  BY <1>1, <1>2, <1>3, <1>4
  DEF UnclaimedInv, FencingInv, FreshInv, SavedInv, InHand, Alive, Attempts
<1>6. HandInv'
  BY <1>1, <1>2, <1>3, <1>4
  DEF HandInv, UniqueInv, InHand, Alive, Attempts
<1>7. UniqueInv'
  BY <1>1, <1>2, <1>3, <1>4
  DEF UniqueInv, InHand, Alive, Attempts
<1>8. RetryInv' /\ PollInv'
  BY <1>1, <1>2, <1>3, <1>4
  DEF RetryInv, PollInv, InHand, Alive, Attempts
<1>9. CoverInv'
  BY <1>1, <1>2, <1>3, <1>4
  DEF CoverInv, InHand, Alive, Attempts
<1> QED
  BY <1>5, <1>6, <1>7, <1>8, <1>9


LEMMA InvariantStep == IInv /\ [Next]_vars => IInv'
<1> SUFFICES ASSUME IInv, [Next]_vars PROVE RestInv'
  BY TypeStep DEF IInv
<1>1. CASE UNCHANGED vars
  BY <1>1 DEF vars, work, IInv, RestInv, UnclaimedInv, FencingInv, FreshInv, SavedInv, HandInv,
     UniqueInv, RetryInv, PollInv, CoverInv, InHand, Alive
<1>2. ASSUME NEW c \in Calls, CallStep(c) PROVE RestInv'
  BY <1>2, PublishStep, OpenRecoveryClaimStep, ReloadStep, ReturnStep, CrashStep DEF CallStep
<1>3. ASSUME NEW c \in Calls, NEW t \in Targets, TargetStep(c, t) PROVE RestInv'
  BY <1>3, StopBeforeAdapterStep, EnterAdapterStep, AdapterAnswersStep, SaveOutcomeStep,
     FenceTargetStep, PollStep, SavePolledStep, FenceRetryStep, SkipRetryStep, SaveRetriedStep
  DEF TargetStep
<1>4. ASSUME NEW t \in Targets, NEW a \in Attempts, ProviderMoves(t, a) PROVE RestInv'
  BY <1>4, ProviderMovesStep
<1> QED
  BY <1>1, <1>2, <1>3, <1>4 DEF Next

LEMMA Invariance == Spec => []IInv
BY InitIInv, InvariantStep, PTL DEF Spec

-----------------------------------------------------------------------------
(* The values of all variables stay in their types, whatever interleaving  *)
(* of publish, reconcile and retryFailed calls runs.                       *)
THEOREM TypeCorrect == Spec => []TypeOK
<1>1. IInv => TypeOK
  BY DEF IInv
<1> QED
  BY <1>1, Invariance, PTL

(* For any number of calls, retries and targets, no target ever has two    *)
(* submissions that are, or may become, a post.                            *)
THEOREM NeverTwoPosts == Spec => []AtMostOneAlive
<1>1. IInv => AtMostOneAlive
  BY DEF IInv, RestInv, CoverInv, AtMostOneAlive
<1> QED
  BY <1>1, Invariance, PTL

(* Whatever the store calls retryable is dead at the provider.             *)
THEOREM RetryableIsDead == Spec => []RetryableMeansDead
<1>1. IInv => RetryableMeansDead
  BY DEF IInv, RestInv, CoverInv, RetryableMeansDead, MayRetry
<1> QED
  BY <1>1, Invariance, PTL

(* The compare-and-set whose result retryFailed ignores always wins.       *)
THEOREM RetryOutcomeKept == Spec => []RetryOutcomeNeverDropped
<1>1. IInv => RetryOutcomeNeverDropped
  BY DEF IInv, RestInv, HandInv, InHand, RetryOutcomeNeverDropped
<1> QED
  BY <1>1, Invariance, PTL

-----------------------------------------------------------------------------
(* A step of the protocol is a step of the promise: sending is allowed by  *)
(* the oracle, because the one attempt that may appear is the one the      *)
(* store speaks of, and a call only sends what is not that attempt yet.    *)
LEMMA PromiseStep == IInv /\ [Next]_vars => [Promise!Next]_provider
<1> SUFFICES ASSUME IInv, [Next]_vars PROVE [Promise!Next]_provider
  OBVIOUS
<1>1. CASE UNCHANGED vars
  BY <1>1 DEF vars
<1>2. ASSUME NEW c \in Calls, CallStep(c) PROVE UNCHANGED provider
  BY <1>2 DEF CallStep, Publish, OpenRecoveryClaim, Reload, Return, Crash
<1>3. ASSUME NEW c \in Calls, NEW t \in Targets, EnterAdapter(c, t) PROVE Promise!Next
  <2>1. InHand(c, t) /\ pc[c][t] = "send"
    BY <1>3 DEF EnterAdapter, Dispatching, InHand
  <2>2. attempt[c][t] \in Attempts
    BY <2>1, InHandAttempt DEF IInv, RestInv
  <2>3. provider[t][attempt[c][t]] = "none"
    BY <2>1 DEF IInv, RestInv, HandInv
  <2>4. \A b \in Attempts : ~Alive(t, b)
    BY <2>1, <2>3, HandFacts DEF IInv, RestInv, CoverInv, Alive
  <2>5. Promise!Send(t, attempt[c][t])
    BY <1>3, <2>3, <2>4 DEF Promise!Send, Promise!MayAppear, Alive, EnterAdapter
  <2> QED
    BY <2>2, <2>5 DEF Promise!Next
<1>4. ASSUME NEW c \in Calls, NEW t \in Targets, TargetStep(c, t), ~EnterAdapter(c, t)
      PROVE  UNCHANGED provider
  BY <1>4 DEF TargetStep, StopBeforeAdapter, AdapterAnswers, SaveOutcome, FenceTarget, Poll,
     SavePolled, FenceRetry, SkipRetry, SaveRetried
<1>5. ASSUME NEW t \in Targets, NEW a \in Attempts, ProviderMoves(t, a) PROVE Promise!Next
  BY <1>5 DEF ProviderMoves, Promise!Next, Promise!Arrive, Promise!Settle
<1> QED
  BY <1>1, <1>2, <1>3, <1>4, <1>5 DEF Next

(* The store protocol implements the abstract promise AtMostOnce.          *)
THEOREM Implements == Spec => ImplementsAtMostOnce
<1>1. Init => Promise!Init
  BY DEF Init, Promise!Init
<1> QED
  BY <1>1, PromiseStep, Invariance, PTL DEF Spec, ImplementsAtMostOnce, Promise!Spec

-----------------------------------------------------------------------------
(* A settled outcome is only ever replaced by the fence of a new retry.    *)
THEOREM SettledIsFinal == Spec => SettledOnlyReopenedByRetry
<1> DEFINE Step == \A t \in Targets :
                      saved[t] # None /\ isSettledOutcome(saved[t]) /\ saved'[t] # saved[t]
                          => MayRetry(saved[t]) /\ \E a \in spent' \ spent : saved'[t] = Fence(a)
<1>1. IInv /\ [Next]_vars => [Step]_vars
  <2> SUFFICES ASSUME IInv, Next, NEW u \in Targets,
                      saved[u] # None, isSettledOutcome(saved[u]), saved'[u] # saved[u]
               PROVE  MayRetry(saved[u]) /\ \E a \in spent' \ spent : saved'[u] = Fence(a)
    OBVIOUS
  <2>1. saved \in [Targets -> MaybeOutcome]
    BY DEF IInv, TypeOK
  <2>2. PICK c \in Calls, t \in Targets :
           \/ SaveOutcome(c, t) \/ FenceTarget(c, t) \/ SavePolled(c, t)
           \/ FenceRetry(c, t) \/ SaveRetried(c, t)
    <3>1. ASSUME NEW c \in Calls, CallStep(c) PROVE saved' = saved
      BY <3>1 DEF CallStep, Publish, OpenRecoveryClaim, Reload, Return, Crash
    <3>2. ASSUME NEW t \in Targets, NEW a \in Attempts, ProviderMoves(t, a) PROVE saved' = saved
      BY <3>2 DEF ProviderMoves
    <3>3. ASSUME NEW c \in Calls, NEW t \in Targets, TargetStep(c, t), saved' # saved
          PROVE  \/ SaveOutcome(c, t) \/ FenceTarget(c, t) \/ SavePolled(c, t)
                 \/ FenceRetry(c, t) \/ SaveRetried(c, t)
      BY <3>3 DEF TargetStep, StopBeforeAdapter, EnterAdapter, AdapterAnswers, Poll, SkipRetry
    <3> QED
      BY <3>1, <3>2, <3>3 DEF Next
  <2>3. CASE SaveOutcome(c, t)
    <3>1. saved[t] = None
      BY <2>3, HandFacts DEF SaveOutcome, InHand
    <3> QED
      BY <2>1, <2>3, <3>1 DEF SaveOutcome
  <2>4. CASE FenceTarget(c, t)
    BY <2>1, <2>4 DEF FenceTarget
  <2>5. CASE SavePolled(c, t)
    <3>1. ~isSettledOutcome(expected[c][t])
      BY <2>5, PolledFacts DEF SavePolled
    <3> QED
      BY <2>1, <2>5, <3>1 DEF SavePolled, CompareAndSet
  <2>6. CASE FenceRetry(c, t)
    <3>1. MayRetry(expected[c][t])
      BY <2>6 DEF FenceRetry, IInv, RestInv, RetryInv
    <3>2. PICK a \in RetryIds \ spent : spent' = spent \cup {a} /\ CompareAndSet(t, expected[c][t], Fence(a))
      BY <2>6 DEF FenceRetry
    <3>3. u = t /\ saved[t] = expected[c][t] /\ saved'[u] = Fence(a)
      BY <2>1, <3>2 DEF CompareAndSet
    <3> QED
      BY <3>1, <3>2, <3>3
  <2>7. CASE SaveRetried(c, t)
    <3>1. saved[t] = Fence(attempt[c][t]) /\ attempt[c][t] \in RetryIds
      BY <2>7, HandFacts DEF SaveRetried, InHand
    <3>2. ~isSettledOutcome(saved[t])
      BY <3>1, FenceFacts
    <3> QED
      BY <2>1, <2>7, <3>2 DEF SaveRetried, CompareAndSet
  <2> QED
    BY <2>2, <2>3, <2>4, <2>5, <2>6, <2>7
<1> QED
  BY <1>1, Invariance, PTL DEF Spec, SettledOnlyReopenedByRetry

(* After anything is recorded for a target its original is never sent.     *)
THEOREM OriginalNotLate == Spec => OriginalNeverSendsLate
<1> DEFINE Step == \A t \in Targets :
                      saved[t] # None /\ provider[t][Original] = "none"
                          => provider'[t][Original] = "none"
<1>1. IInv /\ [Next]_vars => [Step]_vars
  <2> SUFFICES ASSUME IInv, Next, NEW u \in Targets,
                      saved[u] # None, provider[u][Original] = "none"
               PROVE  provider'[u][Original] = "none"
    OBVIOUS
  <2>1. CASE UNCHANGED provider
    BY <2>1
  <2>2. ASSUME NEW c \in Calls, NEW t \in Targets, EnterAdapter(c, t)
        PROVE  provider'[u][Original] = "none"
    <3>1. u = t => attempt[c][t] # Original
      BY <2>2, HandFacts DEF EnterAdapter, Dispatching, InHand
    <3>2. provider \in [Targets -> [Attempts -> ProviderStates]]
      BY DEF IInv, TypeOK
    <3> QED
      BY <2>2, <3>1, <3>2, StateNames DEF EnterAdapter
  <2>3. ASSUME NEW t \in Targets, NEW a \in Attempts, ProviderMoves(t, a)
        PROVE  provider'[u][Original] = "none"
    <3>1. provider \in [Targets -> [Attempts -> ProviderStates]]
      BY DEF IInv, TypeOK
    <3> QED
      BY <2>3, <3>1, StateNames DEF ProviderMoves
  <2>4. ASSUME NEW c \in Calls, CallStep(c) PROVE UNCHANGED provider
    BY <2>4 DEF CallStep, Publish, OpenRecoveryClaim, Reload, Return, Crash
  <2>5. ASSUME NEW c \in Calls, NEW t \in Targets, TargetStep(c, t), ~EnterAdapter(c, t)
        PROVE  UNCHANGED provider
    BY <2>5 DEF TargetStep, StopBeforeAdapter, AdapterAnswers, SaveOutcome, FenceTarget, Poll,
       SavePolled, FenceRetry, SkipRetry, SaveRetried
  <2> QED
    BY <2>1, <2>2, <2>3, <2>4, <2>5 DEF Next
<1> QED
  BY <1>1, Invariance, PTL DEF Spec, OriginalNeverSendsLate

-----------------------------------------------------------------------------
(* The protocol implements the promise that the scheduler builds on: what  *)
(* the claim of a target says, whether a call has yet to send it, and the  *)
(* copy that may appear.                                                   *)

LEMMA CopyView ==
    ASSUME NEW t \in Targets
    PROVE  /\ Copy(t) \in {"absent", "live", "public", "dead"}
           /\ Copy(t) \in {"live", "public"} <=> \E a \in Attempts : Alive(t, a)
           /\ Copy(t) = "public" <=> \E a \in Attempts : provider[t][a] = "public"
BY DEF Copy, Alive

LEMMA CopyKept ==
    ASSUME NEW t \in Targets, \A a \in Attempts : provider'[t][a] = provider[t][a]
    PROVE  Copy(t)' = Copy(t)
BY DEF Copy

LEMMA KeyRests ==
    ASSUME NEW k \in Targets, Verdict(saved[k])' = Verdict(saved[k]),
           MaySend(k)' <=> MaySend(k), Copy(k)' = Copy(k)
    PROVE  Keyed!Rests(k)
BY DEF Keyed!Rests, Keyed!KnownSame, Keyed!GoingSame, Keyed!CopySame

LEMMA KeyClaims ==
    ASSUME NEW k \in Targets, Verdict(saved[k]) \in {"none", "failed"},
           Copy(k) \notin {"live", "public"}, ~MaySend(k),
           Verdict(saved[k])' = "open", Copy(k)' = Copy(k)
    PROVE  Keyed!Claim(k)
BY DEF Keyed!Claim, Keyed!MayAppear, Keyed!CopySame, MaySend

LEMMA KeySends ==
    ASSUME NEW k \in Targets, Verdict(saved[k]) = "open", MaySend(k), Copy(k) \notin {"live", "public"},
           ~MaySend(k)', Copy(k)' = "live", Verdict(saved[k])' = Verdict(saved[k])
    PROVE  Keyed!Send(k)
BY DEF Keyed!Send, Keyed!MayAppear, Keyed!KnownSame

LEMMA KeyGivesUp ==
    ASSUME NEW k \in Targets, MaySend(k), ~MaySend(k)', Copy(k)' = Copy(k),
           Verdict(saved[k])' = Verdict(saved[k])
    PROVE  Keyed!GiveUp(k)
BY DEF Keyed!GiveUp, Keyed!KnownSame, Keyed!CopySame

LEMMA KeySettles ==
    ASSUME NEW k \in Targets, Verdict(saved[k]) = "open", ~MaySend(k), ~MaySend(k)',
           Copy(k)' = Copy(k),
           \/ Verdict(saved[k])' \in {"failed", "final"} /\ Copy(k) \notin {"live", "public"}
           \/ Verdict(saved[k])' = "published" /\ Copy(k) = "public"
    PROVE  Keyed!Settle(k)
BY DEF Keyed!Settle, Keyed!IsTrue, Keyed!MayAppear, Keyed!Knowledge, Keyed!GoingSame, Keyed!CopySame

LEMMA KeyCopyMoves ==
    ASSUME NEW k \in Targets, Copy(k) = "live", Copy(k)' \in {"public", "dead"},
           MaySend(k)' <=> MaySend(k), Verdict(saved[k])' = Verdict(saved[k])
    PROVE  Keyed!ProviderMoves(k)
BY DEF Keyed!ProviderMoves, Keyed!KnownSame, Keyed!GoingSame

(* A step of one call with one target disturbs no other call or target.    *)
LEMMA TargetFrame ==
    ASSUME IInv, NEW c \in Calls, NEW t \in Targets, TargetStep(c, t)
    PROVE  /\ claim' = claim /\ call' = call
           /\ \A d \in Calls, u \in Targets : d # c \/ u # t => pc'[d][u] = pc[d][u]
           /\ \A u \in Targets : u # t => saved'[u] = saved[u]
           /\ \A u \in Targets, a \in Attempts : u # t => provider'[u][a] = provider[u][a]
<1>1. claim' = claim /\ call' = call
  BY DEF TargetStep, StopBeforeAdapter, EnterAdapter, AdapterAnswers, SaveOutcome, FenceTarget, Poll,
     SavePolled, FenceRetry, SkipRetry, SaveRetried
<1>2. \E w \in WorkStates : pc' = [pc EXCEPT ![c][t] = w]
  BY StateNames DEF TargetStep, StopBeforeAdapter, EnterAdapter, AdapterAnswers, SaveOutcome,
     FenceTarget, Poll, SavePolled, FenceRetry, SkipRetry, SaveRetried
<1>3. \A d \in Calls, u \in Targets : d # c \/ u # t => pc'[d][u] = pc[d][u]
  BY <1>2, CellTyped DEF IInv, TypeOK
<1>4. \A u \in Targets : u # t => saved'[u] = saved[u]
  BY DEF IInv, TypeOK, TargetStep, StopBeforeAdapter, EnterAdapter, AdapterAnswers, SaveOutcome,
     FenceTarget, Poll, SavePolled, FenceRetry, SkipRetry, SaveRetried, CompareAndSet
<1>5. \A u \in Targets, a \in Attempts : u # t => provider'[u][a] = provider[u][a]
  BY DEF IInv, TypeOK, TargetStep, StopBeforeAdapter, EnterAdapter, AdapterAnswers, SaveOutcome,
     FenceTarget, Poll, SavePolled, FenceRetry, SkipRetry, SaveRetried
<1> QED
  BY <1>1, <1>3, <1>4, <1>5

LEMMA OtherTargetsRest ==
    ASSUME IInv, NEW c \in Calls, NEW t \in Targets, TargetStep(c, t),
           NEW u \in Targets, u # t
    PROVE  Keyed!Rests(u)
<1>1. Verdict(saved[u])' = Verdict(saved[u])
  BY TargetFrame DEF Verdict
<1>2. MaySend(u)' <=> MaySend(u)
  BY TargetFrame DEF MaySend, Dispatching
<1>3. Copy(u)' = Copy(u)
  BY TargetFrame, CopyKept
<1> QED
  BY <1>1, <1>2, <1>3, KeyRests

(* Only the call that has a target in hand may send it. *)
LEMMA OneSender ==
    ASSUME IInv, NEW c \in Calls, NEW t \in Targets, TargetStep(c, t)
    PROVE  /\ InHand(c, t) => /\ MaySend(t) <=> (pc[c][t] = "send")
                              /\ MaySend(t)' <=> (pc'[c][t] = "send")
           /\ pc[c][t] # "send" /\ pc'[c][t] # "send" => (MaySend(t)' <=> MaySend(t))
           /\ ~InHand(c, t) /\ ~MaySend(t) => (MaySend(t)' <=> (Dispatching(c) /\ pc'[c][t] = "send"))
<1>1. InHand(c, t) => \A d \in Calls : InHand(d, t) => d = c
  BY DEF IInv, RestInv, UniqueInv
<1> QED
  BY <1>1, TargetFrame DEF MaySend, Dispatching, InHand

(* What is in hand is claimed, and the only attempt that may appear is the *)
(* one in hand.                                                            *)
LEMMA InHandIsOpen ==
    ASSUME IInv, NEW c \in Calls, NEW t \in Targets, InHand(c, t)
    PROVE  /\ Verdict(saved[t]) = "open"
           /\ \A a \in Attempts : Alive(t, a) => a = attempt[c][t]
<1>1. \A a \in Attempts : Alive(t, a) => a = attempt[c][t]
  BY HandFacts DEF IInv, RestInv, CoverInv
<1>2. CASE saved[t] = None
  BY <1>1, <1>2, HandFacts DEF Verdict
<1>3. CASE saved[t] # None
  <2>1. saved[t] = Fence(attempt[c][t]) /\ ~MayRetry(saved[t])
    BY <1>3, HandFacts
  <2>2. saved[t].state = "unknown"
    BY <2>1 DEF Fence, Outcome
  <2> QED
    BY <1>1, <1>3, <2>1, <2>2 DEF Verdict, IsFinal
<1> QED
  BY <1>2, <1>3

(* A verdict that a call saves over an open one is true of the target.     *)
LEMMA VerdictSettles ==
    ASSUME IInv, NEW k \in Targets, NEW o, o # None, Verdict(saved[k]) = "open",
           ~MaySend(k), ~MaySend(k)', Copy(k)' = Copy(k), saved'[k] = o,
           MayRetry(o) \/ IsFinal(o) => \A a \in Attempts : ~Alive(k, a),
           o.state = "published" => \E a \in Attempts : provider[k][a] = "public"
    PROVE  Keyed!Settle(k) \/ Keyed!Rests(k)
<1>1. Verdict(saved[k])' = IF MayRetry(o) THEN "failed"
                           ELSE IF o.state = "published" THEN "published"
                           ELSE IF IsFinal(o) THEN "final" ELSE "open"
  BY DEF Verdict
<1>2. CASE Verdict(saved[k])' = "open"
  BY <1>2, KeyRests
<1>3. CASE Verdict(saved[k])' \in {"failed", "final"}
  <2>1. MayRetry(o) \/ IsFinal(o)
    BY <1>1, <1>3
  <2>2. Copy(k) \notin {"live", "public"}
    BY <2>1, CopyView
  <2> QED
    BY <1>3, <2>2, KeySettles
<1>4. CASE Verdict(saved[k])' = "published"
  <2>1. Copy(k) = "public"
    BY <1>1, <1>4, CopyView
  <2> QED
    BY <1>4, <2>1, KeySettles
<1> QED
  BY <1>1, <1>2, <1>3, <1>4

LEMMA CallKeyed ==
    ASSUME IInv, NEW c \in Calls, CallStep(c), NEW k \in Targets
    PROVE  Keyed!Claim(k) \/ Keyed!GiveUp(k) \/ Keyed!Rests(k)
<1>0. Copy(k)' = Copy(k) /\ saved' = saved
  <2>1. provider' = provider /\ saved' = saved
    BY DEF CallStep, Publish, OpenRecoveryClaim, Reload, Return, Crash, work
  <2> QED
    BY <2>1, CopyKept
<1>1. call \in [Calls -> CallStates] /\ pc \in [Calls -> [Targets -> WorkStates]]
  BY Tables DEF IInv, TypeOK
<1>2. ASSUME claim = None, claim' \in Fingerprints PROVE Keyed!Claim(k)
  <2>1. saved[k] = None /\ ~MaySend(k) /\ \A a \in Attempts : ~Alive(k, a)
    BY <1>2, StateNames DEF IInv, RestInv, UnclaimedInv, MaySend, Dispatching, Alive
  <2>2. Verdict(saved[k]) = "none" /\ Verdict(saved[k])' = "open"
    BY <1>0, <1>2, <2>1, PublicationAssumption DEF Verdict
  <2> QED
    BY <1>0, <2>1, <2>2, CopyView, KeyClaims
<1>3. ASSUME claim' = claim, MaySend(k)' <=> MaySend(k) PROVE Keyed!Rests(k)
  BY <1>0, <1>3, KeyRests DEF Verdict
<1>4. ASSUME NEW f \in Fingerprints, Publish(c, f) PROVE Keyed!Claim(k) \/ Keyed!Rests(k)
  <2>1. CASE claim = None
    BY <1>2, <1>4, <2>1 DEF Publish
  <2>2. CASE claim # None
    <3>1. /\ \A d \in Calls : d # c => call'[d] = call[d]
          /\ call[c] = "idle" /\ call'[c] \in {"returned", "refused"}
          /\ pc' = pc /\ claim' = claim
      BY <1>1, <1>4, <2>2 DEF Publish
    <3> QED
      BY <1>3, <3>1 DEF MaySend, Dispatching
  <2> QED
    BY <2>1, <2>2
<1>5. ASSUME NEW op \in {"reconcile", "retry"}, call[c] \notin {"sending", "retrying"},
             claim' = claim, ReadOutcomes(c, op)
      PROVE  Keyed!Rests(k)
  <2>1. /\ \A d \in Calls : d # c => call'[d] = call[d] /\ pc'[d] = pc[d]
        /\ pc'[c][k] = PlannedStep(op, saved[k])
    BY <1>1, <1>5 DEF ReadOutcomes, PlannedSteps
  <2>2. pc'[c][k] # "send"
    BY <2>1 DEF PlannedStep
  <2> QED
    BY <1>3, <1>5, <2>1, <2>2 DEF MaySend, Dispatching
<1>6. ASSUME NEW f \in Fingerprints, NEW op \in {"reconcile", "retry"}, OpenRecoveryClaim(c, f, op)
      PROVE  Keyed!Claim(k) \/ Keyed!Rests(k)
  <2>1. CASE claim = None /\ claim' = f
    BY <1>2, <2>1
  <2>2. CASE ReadOutcomes(c, op) /\ claim' = claim
    BY <1>5, <1>6, <2>2 DEF OpenRecoveryClaim
  <2>3. CASE call' = [call EXCEPT ![c] = "refused"] /\ UNCHANGED <<claim, pc>>
    BY <1>1, <1>3, <1>6, <2>3 DEF OpenRecoveryClaim, MaySend, Dispatching
  <2> QED
    BY <1>6, <2>1, <2>2, <2>3 DEF OpenRecoveryClaim
<1>7. ASSUME NEW op \in {"reconcile", "retry"}, Reload(c, op) PROVE Keyed!Rests(k)
  BY <1>5, <1>7 DEF Reload, Fencing
<1>8. CASE Return(c)
  <2>1. pc[c][k] = "done" /\ pc' = pc /\ claim' = claim
        /\ \A d \in Calls : d # c => call'[d] = call[d]
    BY <1>1, <1>8 DEF Return, work
  <2> QED
    BY <1>3, <2>1 DEF MaySend, Dispatching
<1>9. CASE Crash(c)
  <2>1. /\ pc' = pc /\ claim' = claim /\ call'[c] = "crashed"
        /\ \A d \in Calls : d # c => call'[d] = call[d]
    BY <1>1, <1>9 DEF Crash, work
  <2>2. MaySend(k)' => MaySend(k)
    BY <2>1 DEF MaySend, Dispatching
  <2>3. CASE MaySend(k) /\ ~MaySend(k)'
    BY <1>0, <2>1, <2>3, KeyGivesUp DEF Verdict
  <2> QED
    BY <1>3, <2>1, <2>2, <2>3
<1> QED
  BY <1>4, <1>6, <1>7, <1>8, <1>9 DEF CallStep

(* dispatchTarget, from its turn to the saved outcome.                     *)
LEMMA DispatchKeyed ==
    ASSUME IInv, NEW c \in Calls, NEW t \in Targets,
           \/ StopBeforeAdapter(c, t) \/ EnterAdapter(c, t) \/ AdapterAnswers(c, t)
           \/ SaveOutcome(c, t) \/ SaveRetried(c, t)
    PROVE  Keyed!Send(t) \/ Keyed!GiveUp(t) \/ Keyed!Settle(t) \/ Keyed!Rests(t)
<1>1. TargetStep(c, t)
  BY DEF TargetStep
<1>2. InHand(c, t)
  BY DEF StopBeforeAdapter, EnterAdapter, AdapterAnswers, SaveOutcome, SaveRetried, InHand, Dispatching
<1>3. /\ MaySend(t) <=> (pc[c][t] = "send")
      /\ MaySend(t)' <=> (pc'[c][t] = "send")
  BY <1>1, <1>2, OneSender
<1>4. claim' = claim
  BY <1>1, TargetFrame
<1>5. Verdict(saved[t]) = "open" /\ \A a \in Attempts : Alive(t, a) => a = attempt[c][t]
  BY <1>2, InHandIsOpen
<1>6. attempt[c][t] \in Attempts
  BY <1>2, InHandAttempt DEF IInv, RestInv
<1>7. pc \in [Calls -> [Targets -> WorkStates]] /\ saved \in [Targets -> MaybeOutcome]
  BY Tables DEF IInv, TypeOK
<1>8. saved' = saved => Verdict(saved[t])' = Verdict(saved[t])
  BY <1>4 DEF Verdict
<1>9. provider' = provider => Copy(t)' = Copy(t)
  BY CopyKept
<1>10. CASE StopBeforeAdapter(c, t)
  <2>1. pc'[c][t] = "save"
    BY <1>7, <1>10 DEF StopBeforeAdapter
  <2> QED
    BY <1>3, <1>8, <1>9, <1>10, <2>1, KeyGivesUp DEF StopBeforeAdapter
<1>11. CASE EnterAdapter(c, t)
  <2>1. pc'[c][t] = "await"
    BY <1>7, <1>11 DEF EnterAdapter
  <2>2. \A a \in Attempts : ~Alive(t, a)
    <3>1. provider[t][attempt[c][t]] = "none"
      BY <1>2, <1>11 DEF EnterAdapter, IInv, RestInv, HandInv
    <3> QED
      BY <1>5, <3>1 DEF Alive
  <2>3. /\ provider'[t][attempt[c][t]] = "travelling"
        /\ \A a \in Attempts : a # attempt[c][t] => provider'[t][a] = provider[t][a]
    BY <1>6, <1>11, StateNames, ProviderTyped DEF EnterAdapter, IInv
  <2>4. Copy(t)' = "live"
    BY <1>6, <2>2, <2>3 DEF Copy, Alive
  <2> QED
    BY <1>3, <1>5, <1>8, <1>11, <2>1, <2>2, <2>4, CopyView, KeySends DEF EnterAdapter
<1>12. CASE AdapterAnswers(c, t)
  <2>1. pc'[c][t] = "save"
    BY <1>7, <1>12 DEF AdapterAnswers
  <2> QED
    BY <1>3, <1>8, <1>9, <1>12, <2>1, KeyRests DEF AdapterAnswers
<1>13. CASE SaveOutcome(c, t) \/ SaveRetried(c, t)
  <2>1. pc[c][t] = "save" /\ pc'[c][t] = "done"
    BY <1>7, <1>13 DEF SaveOutcome, SaveRetried
  <2>2. Copy(t)' = Copy(t) /\ ~MaySend(t) /\ ~MaySend(t)'
    BY <1>3, <1>9, <1>13, <2>1 DEF SaveOutcome, SaveRetried
  <2>3. CASE saved' = saved
    BY <1>8, <2>2, <2>3, KeyRests
  <2>4. CASE saved'[t] = outcome[c][t]
    <3>1. /\ outcome[c][t] # None
          /\ MayRetry(outcome[c][t]) \/ IsFinal(outcome[c][t]) => ~Alive(t, attempt[c][t])
          /\ outcome[c][t].state = "published" => provider[t][attempt[c][t]] = "public"
      BY <1>2, <2>1 DEF IInv, RestInv, HandInv
    <3>2. MayRetry(outcome[c][t]) \/ IsFinal(outcome[c][t]) => \A a \in Attempts : ~Alive(t, a)
      BY <1>5, <3>1
    <3> QED
      BY <1>5, <1>6, <2>2, <2>4, <3>1, <3>2, VerdictSettles
  <2> QED
    BY <1>7, <1>13, <2>3, <2>4 DEF SaveOutcome, SaveRetried, CompareAndSet
<1> QED
  BY <1>10, <1>11, <1>12, <1>13

(* What recovery does with a target that nobody has in hand.               *)
LEMMA RecoveryKeyed ==
    ASSUME IInv, NEW c \in Calls, NEW t \in Targets,
           \/ FenceTarget(c, t) \/ Poll(c, t) \/ SavePolled(c, t)
           \/ FenceRetry(c, t) \/ SkipRetry(c, t)
    PROVE  Keyed!Claim(t) \/ Keyed!Settle(t) \/ Keyed!Rests(t)
<1>1. TargetStep(c, t)
  BY DEF TargetStep
<1>2. claim' = claim /\ Copy(t)' = Copy(t)
  <2>1. provider' = provider
    BY DEF FenceTarget, Poll, SavePolled, FenceRetry, SkipRetry
  <2> QED
    BY <1>1, <2>1, TargetFrame, CopyKept
<1>3. /\ pc \in [Calls -> [Targets -> WorkStates]] /\ saved \in [Targets -> MaybeOutcome]
      /\ expected \in [Calls -> [Targets -> MaybeOutcome]]
      /\ claim \in Fingerprints \cup {None}
  BY Tables DEF IInv, TypeOK
<1>4. saved' = saved => Verdict(saved[t])' = Verdict(saved[t])
  BY <1>2 DEF Verdict
<1>5. pc[c][t] # "send" /\ pc'[c][t] # "send" => (MaySend(t)' <=> MaySend(t))
  BY <1>1, OneSender
<1>6. CASE FenceTarget(c, t)
  <2>1. /\ call[c] \in {"fencing-reconcile", "fencing-retry"}
        /\ pc[c][t] = "fence" /\ pc'[c][t] = "fenced"
    BY <1>3, <1>6 DEF FenceTarget
  <2>2. CASE saved[t] # None
    BY <1>2, <1>4, <1>5, <1>6, <2>1, <2>2, KeyRests DEF FenceTarget
  <2>3. CASE saved[t] = None
    <3>1. \A a \in Attempts : ~Alive(t, a)
      BY <2>1, <2>3 DEF IInv, RestInv, FencingInv, CoverInv, Alive
    <3>2. \A d \in Calls : ~InHand(d, t)
      <4> SUFFICES ASSUME NEW d \in Calls, InHand(d, t) PROVE FALSE
        OBVIOUS
      <4>1. call[d] = "sending"
        BY <2>3, HandFacts
      <4> QED
        BY <2>1, <4>1 DEF IInv, RestInv, FencingInv
    <3>3. ~MaySend(t) /\ ~MaySend(t)'
      BY <1>5, <2>1, <3>2 DEF MaySend, Dispatching, InHand
    <3>4. Verdict(saved[t]) = "open"
      BY <2>1, <2>3 DEF Verdict, IInv, RestInv, UnclaimedInv
    <3>5. saved'[t] = NotSubmitted(None) /\ NotSubmitted(None) # None
      BY <1>3, <1>6, <2>3, OutcomesAreTyped, NoneAssumption DEF FenceTarget
    <3>6. NotSubmitted(None).state # "published"
      BY DEF NotSubmitted, Outcome
    <3> QED
      BY <1>2, <3>1, <3>3, <3>4, <3>5, <3>6, VerdictSettles
  <2> QED
    BY <2>2, <2>3
<1>7. CASE Poll(c, t)
  <2>1. pc[c][t] # "send" /\ pc'[c][t] # "send"
    BY <1>3, <1>7 DEF Poll
  <2> QED
    BY <1>2, <1>4, <1>5, <1>7, <2>1, KeyRests DEF Poll
<1>8. CASE SkipRetry(c, t)
  <2>1. pc[c][t] # "send" /\ pc'[c][t] # "send"
    BY <1>3, <1>8 DEF SkipRetry
  <2> QED
    BY <1>2, <1>4, <1>5, <1>8, <2>1, KeyRests DEF SkipRetry
<1>9. CASE SavePolled(c, t)
  <2>1. call[c] = "reconciling" /\ pc[c][t] = "polled" /\ pc'[c][t] = "done"
    BY <1>3, <1>9 DEF SavePolled
  <2>2. CASE saved[t] # expected[c][t]
    BY <1>2, <1>4, <1>5, <1>9, <2>1, <2>2, KeyRests DEF SavePolled, CompareAndSet
  <2>3. CASE saved[t] = expected[c][t]
    <3> DEFINE d == expected[c][t].delivery
    <3>1. /\ expected[c][t] # None /\ ~MayRetry(expected[c][t]) /\ ~isSettledOutcome(expected[c][t])
          /\ MayPoll(expected[c][t]) /\ d \in Attempts /\ Owner(expected[c][t]) = d
          /\ outcome[c][t] # None
          /\ MayRetry(outcome[c][t]) \/ IsFinal(outcome[c][t]) => provider[t][d] = "dead"
          /\ outcome[c][t].state = "published" => provider[t][d] = "public"
      BY <2>1, PolledFacts
    <3>2. saved[t] \in Outcomes
      BY <1>3, <2>3, <3>1 DEF MaybeOutcome
    <3>3. Verdict(saved[t]) = "open"
      BY <2>3, <3>1, <3>2 DEF Verdict, isSettledOutcome, IsFinal
    <3>4. \A a \in Attempts : Alive(t, a) => a = d
      BY <2>3, <3>1 DEF IInv, RestInv, CoverInv
    <3>5. ~MaySend(t)
      BY <2>3, <3>1, HandFacts DEF MaySend, Dispatching, InHand
    <3>6. MayRetry(outcome[c][t]) \/ IsFinal(outcome[c][t]) => \A a \in Attempts : ~Alive(t, a)
      BY <3>1, <3>4 DEF Alive
    <3>7. saved'[t] = outcome[c][t]
      BY <1>3, <1>9, <2>3 DEF SavePolled, CompareAndSet
    <3> HIDE DEF d
    <3> QED
      BY <1>2, <1>5, <2>1, <3>1, <3>3, <3>5, <3>6, <3>7, VerdictSettles
  <2> QED
    BY <2>2, <2>3
<1>10. CASE FenceRetry(c, t)
  <2>1. PICK a \in RetryIds \ spent :
           /\ CompareAndSet(t, expected[c][t], Fence(a))
           /\ pc' = [pc EXCEPT ![c][t] = IF saved[t] = expected[c][t] THEN "send" ELSE "done"]
    BY <1>10 DEF FenceRetry
  <2>2. call[c] = "retrying" /\ pc[c][t] = "retry"
    BY <1>10 DEF FenceRetry
  <2>3. CASE saved[t] # expected[c][t]
    <3>1. pc'[c][t] = "done"
      BY <1>3, <2>1, <2>3
    <3> QED
      BY <1>2, <1>4, <1>5, <2>1, <2>2, <2>3, <3>1, KeyRests DEF CompareAndSet
  <2>4. CASE saved[t] = expected[c][t]
    <3>1. MayRetry(saved[t]) /\ saved[t] # None
      BY <2>2, <2>4 DEF IInv, RestInv, RetryInv, MayRetry
    <3>2. \A b \in Attempts : ~Alive(t, b)
      BY <3>1 DEF IInv, RestInv, CoverInv
    <3>3. ~MaySend(t)
      BY <3>1, HandFacts DEF MaySend, Dispatching, InHand
    <3>4. Verdict(saved[t]) = "failed"
      BY <3>1 DEF Verdict
    <3>5. saved'[t] = Fence(a)
      BY <1>3, <2>1, <2>4 DEF CompareAndSet
    <3>6. Verdict(Fence(a))' = "open"
      BY <1>2, FenceFacts DEF Verdict, Fence, Outcome, IsFinal
    <3>7. Verdict(saved[t])' = "open"
      BY <3>5, <3>6 DEF Verdict
    <3> QED
      BY <1>2, <3>2, <3>3, <3>4, <3>7, CopyView, KeyClaims
  <2> QED
    BY <2>3, <2>4
<1> QED
  BY <1>6, <1>7, <1>8, <1>9, <1>10

LEMMA ProviderKeyed ==
    ASSUME IInv, NEW t \in Targets, NEW a \in Attempts, ProviderMoves(t, a), NEW k \in Targets
    PROVE  Keyed!ProviderMoves(k) \/ Keyed!Rests(k)
<1>1. Verdict(saved[k])' = Verdict(saved[k]) /\ (MaySend(k)' <=> MaySend(k))
  BY DEF ProviderMoves, Verdict, MaySend, Dispatching, work
<1>2. PICK p \in {"held", "public", "dead"} : provider' = [provider EXCEPT ![t][a] = p]
  BY DEF ProviderMoves
<1>3. \A u \in Targets, b \in Attempts :
          provider'[u][b] = IF u = t /\ b = a THEN p ELSE provider[u][b]
  BY <1>2, ProviderTyped, StateNames DEF IInv
<1>4. CASE k # t
  BY <1>1, <1>3, <1>4, CopyKept, KeyRests
<1>5. CASE k = t
  <2>1. provider[t][a] \in {"travelling", "held"} /\ Alive(t, a)
    BY DEF ProviderMoves, Alive
  <2>2. \A b \in Attempts : Alive(t, b) => b = a
    BY <2>1 DEF IInv, RestInv, CoverInv
  <2>3. Copy(t) = "live"
    BY <2>1, <2>2 DEF Copy, Alive
  <2>4. CASE p = "held"
    <3>1. Copy(t)' = "live"
      BY <1>3, <2>1, <2>2, <2>4 DEF Copy, Alive
    <3> QED
      BY <1>1, <1>5, <2>3, <3>1, KeyRests
  <2>5. CASE p = "public"
    <3>1. Copy(t)' = "public"
      BY <1>3, <2>5 DEF Copy
    <3> QED
      BY <1>1, <1>5, <2>3, <3>1, KeyCopyMoves
  <2>6. CASE p = "dead"
    <3>1. Copy(t)' = "dead"
      BY <1>3, <2>2, <2>6 DEF Copy, Alive
    <3> QED
      BY <1>1, <1>5, <2>3, <3>1, KeyCopyMoves
  <2> QED
    BY <2>4, <2>5, <2>6
<1> QED
  BY <1>4, <1>5

LEMMA KeyedStep ==
    IInv /\ [Next]_vars
        => [Keyed!Next]_<<[t \in Targets |-> Verdict(saved[t])], {t \in Targets : MaySend(t)},
                          [t \in Targets |-> Copy(t)]>>
<1> SUFFICES ASSUME IInv, [Next]_vars
             PROVE  \/ Keyed!Next
                    \/ UNCHANGED <<[t \in Targets |-> Verdict(saved[t])],
                                   {t \in Targets : MaySend(t)}, [t \in Targets |-> Copy(t)]>>
  OBVIOUS
<1>1. CASE UNCHANGED vars
  BY <1>1 DEF vars, work, Verdict, MaySend, Dispatching, Copy
<1>2. ASSUME NEW c \in Calls, CallStep(c) PROVE Keyed!Next
  BY <1>2, CallKeyed DEF Keyed!Next
<1>3. ASSUME NEW c \in Calls, NEW t \in Targets, TargetStep(c, t) PROVE Keyed!Next
  BY <1>3, OtherTargetsRest, DispatchKeyed, RecoveryKeyed DEF Keyed!Next, TargetStep
<1>4. ASSUME NEW t \in Targets, NEW a \in Attempts, ProviderMoves(t, a) PROVE Keyed!Next
  BY <1>4, ProviderKeyed DEF Keyed!Next
<1> QED
  BY <1>1, <1>2, <1>3, <1>4 DEF Next

(* The claim of a target is taken before it is sent, nothing is sent while *)
(* a copy of it can appear, and what is saved of it is so: for any calls.  *)
THEOREM KeepsTheKey == Spec => ImplementsKeyedTargets
<1>1. Init => Keyed!Init
  BY DEF Init, Keyed!Init, AllTargets, Verdict, MaySend, Dispatching, Copy
<1> QED
  BY <1>1, KeyedStep, Invariance, PTL DEF Spec, ImplementsKeyedTargets, Keyed!Spec
=============================================================================
