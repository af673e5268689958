------------------------------ MODULE Scheduler ------------------------------
(***************************************************************************)
(* One scheduled job (server/scheduler.ts) under any number of processes   *)
(* that call runDue, reconcile and retryFailed (Runners) and cancel and    *)
(* reschedule (Callers) against one ScheduleStore.                         *)
(*                                                                         *)
(* Every change of the job is a compare-and-set.  A mutation that re-reads *)
(* and re-applies on conflict (#mutate) is one step of the model, and so   *)
(* is a compare-and-set together with the guards evaluated on the record   *)
(* whose revision it expects.  Every await on the client, on a provider or *)
(* between two store calls is a place where other processes take steps.    *)
(*                                                                         *)
(* A step has one destination.  posts.publish, posts.reconcile and         *)
(* posts.retryFailed of a step's key are what module KeyedTargets says of  *)
(* them and Publication implements: a key is sent by the call that creates *)
(* its claim, a retry sends only a target whose last attempt is dead,      *)
(* nothing else sends, and what is saved of the target is so.              *)
(***************************************************************************)
EXTENDS Naturals

CONSTANTS
    Lanes,              \* lane ids
    NativeLanes,        \* lanes whose routes schedule on the provider
    Length,             \* steps per lane
    StopOnFailure,      \* FALSE only for a sequence with stopOnFailure: false
    Runners, Callers,   \* calls that may be in progress at the same time
    Kinds,              \* the Runners' operations
    MaxPolls,           \* maxPolls
    MaxRevision,        \* bound: reschedules that start
    MaxRetries,         \* bound: submissions made by posts.retryFailed
    RetryOutlivesLease, \* may a runner still be retrying when its lease expires
    NoOne, Gone         \* no lease; a lease whose holder has died

Procs == Runners \cup Callers
Steps == Lanes \X (1 .. Length)
Revisions == 0 .. MaxRevision

RunnerKinds == {"runDue", "reconcile", "poll", "retryFailed"}
CallerKinds == {"cancel", "reschedule"}

ASSUME SchedulerAssumption ==
    /\ NativeLanes \subseteq Lanes /\ (NativeLanes # {} => Length = 1)
    /\ Length \in Nat \ {0} /\ MaxPolls \in Nat \ {0}
    /\ MaxRevision \in Nat /\ MaxRetries \in Nat
    /\ {StopOnFailure, RetryOutlivesLease} \subseteq BOOLEAN
    /\ Kinds \subseteq RunnerKinds
    /\ Runners \cap Callers = {}
    /\ NoOne # Gone /\ {NoOne, Gone} \cap (Procs \cup Steps) = {}

VARIABLES
    \* the stored job
    status, blocked, nextRun, revision, mode, step, result, polls, owner, live,
    \* time, the provider's copies and the idempotency claims, by step and revision
    due, post, claim, retries,
    \* the calls in progress
    pc, kind, phase, todo, touched, on, rev, got, unsure, saw

job    == <<status, blocked, nextRun, revision, mode, step, result, polls>>
lease  == <<owner, live>>
world  == <<due, post, claim, retries>>
locals == <<pc, kind, phase, todo, touched, on, rev, got, unsure, saw>>
vars   == <<job, lease, world, locals>>

(* What a claim's outcome, or a saved outcome, tells the scheduler.        *)
(*   sent      claimed or fenced, no outcome saved yet; reads as unknown   *)
(*   unknown   also accepted, processing and failed with reconcile-first   *)
(*   failed    retryable, or not-submitted                                 *)
(*   final     failed for good, or cancelled                               *)
(*   refused   not-submitted, with the error that stops later items        *)
Outcomes == {"refused", "failed", "final", "scheduled", "unknown", "published"}
Claims   == {"none", "sent"} \cup (Outcomes \ {"refused"})
Copies   == {"absent", "live", "public", "dead"}

Unresolved(o) == o \in {"scheduled", "unknown"}
Retryable(c)  == c \in {"none", "failed"}

Statuses    == {"scheduled", "running", "blocked", "completed", "cancelled", "cancel-unresolved"}
Stopped     == {"cancelled", "cancel-unresolved"}
Labels      == {"idle", "next", "preflight", "recover", "send", "flight", "resend", "reflight",
                "record", "polled", "release", "check", "withdraw", "move"}
Phases      == {"none", "salvage", "retry", "advance", "poll"}

TypeOK ==
    /\ status \in Statuses
    /\ blocked \in {"none", "error", "interrupted"}
    /\ nextRun \in {"none", "soon", "runAt"}
    /\ revision \in Revisions
    /\ mode \in [Lanes -> {"native", "runtime"}]
    /\ step \in [Steps -> {"pending", "dispatching", "dispatched", "cancelled"}]
    /\ result \in [Steps -> Outcomes \cup {"none"}]
    /\ \A s \in Steps : step[s] = "dispatched" <=> result[s] # "none"
    /\ polls \in [Steps -> 0 .. MaxPolls]
    /\ owner \in Procs \cup {NoOne, Gone} /\ live \in BOOLEAN
    /\ due \in BOOLEAN /\ retries \in 0 .. MaxRetries
    /\ post \in [Steps -> [Revisions -> Copies]]
    /\ claim \in [Steps -> [Revisions -> Claims]]
    /\ pc \in [Procs -> Labels]
    /\ kind \in [Procs -> RunnerKinds \cup CallerKinds \cup {"none"}]
    /\ phase \in [Procs -> Phases]
    /\ todo \in [Procs -> SUBSET Steps] /\ touched \in [Procs -> SUBSET Steps]
    /\ on \in [Procs -> Steps \cup {NoOne}]
    /\ rev \in [Procs -> Revisions]
    /\ got \in [Procs -> Outcomes \cup {"none"}]
    /\ unsure \in [Procs -> BOOLEAN] /\ saw \in [Procs -> BOOLEAN]

(* The job that schedule() has just stored: a native lane is due at once,  *)
(* to be handed to the provider early.                                     *)
Init ==
    /\ status = "scheduled" /\ blocked = "none" /\ revision = 0
    /\ nextRun = IF NativeLanes # {} THEN "soon" ELSE "runAt"
    /\ mode = [l \in Lanes |-> IF l \in NativeLanes THEN "native" ELSE "runtime"]
    /\ step = [s \in Steps |-> "pending"]
    /\ result = [s \in Steps |-> "none"]
    /\ polls = [s \in Steps |-> 0]
    /\ owner = NoOne /\ live = FALSE
    /\ due = FALSE /\ retries = MaxRetries
    /\ post = [s \in Steps |-> [r \in Revisions |-> "absent"]]
    /\ claim = [s \in Steps |-> [r \in Revisions |-> "none"]]
    /\ pc = [p \in Procs |-> "idle"] /\ kind = [p \in Procs |-> "none"]
    /\ phase = [p \in Procs |-> "none"]
    /\ todo = [p \in Procs |-> {}] /\ touched = [p \in Procs |-> {}]
    /\ on = [p \in Procs |-> NoOne] /\ rev = [p \in Procs |-> 0]
    /\ got = [p \in Procs |-> "none"]
    /\ unsure = [p \in Procs |-> FALSE] /\ saw = [p \in Procs |-> FALSE]

-----------------------------------------------------------------------------
(* laneProgress, as predicates of the step a lane has come to.             *)

Native(s) == mode[s[1]] = "native"

Reached(s) ==
    /\ step[s] # "dispatched"
    /\ \A i \in 1 .. s[2] - 1 : step[<<s[1], i>>] = "dispatched"

(* Mutant: only a refused item stops the next one. *)
Unhindered_Sent(s) ==
    \A t \in Steps : t = <<s[1], s[2] - 1>> => result[t] # "refused"

(* The previous item lets this one go: published, or merely not refused    *)
(* where a failure does not stop the sequence.                             *)
Unhindered(s) ==
    \A t \in Steps : t = <<s[1], s[2] - 1>> =>
        result[t] = "published" \/ (~StopOnFailure /\ result[t] # "refused")

MustRecover(s)       == Reached(s) /\ step[s] = "dispatching"
MustConvert(s, now)  == Reached(s) /\ step[s] = "pending" /\ Native(s) /\ now
MustWait(s, now)     == Reached(s) /\ step[s] = "pending" /\ ~Native(s) /\ ~now
MustDispatch(s, now) == /\ Reached(s) /\ step[s] = "pending"
                        /\ IF Native(s) THEN ~now ELSE now /\ Unhindered(s)

hasUnresolved(s) == step[s] = "dispatched" /\ Unresolved(result[s])

hasDispatchedRuntime ==
    \E s \in Steps : ~Native(s) /\ step[s] \in {"dispatching", "dispatched"}

-----------------------------------------------------------------------------
(* Locals                                                                  *)

Goto(p, label) == pc' = [pc EXCEPT ![p] = label]

Finish(p) ==
    /\ Goto(p, "idle") /\ kind' = [kind EXCEPT ![p] = "none"]
    /\ phase' = [phase EXCEPT ![p] = "none"]
    /\ todo' = [todo EXCEPT ![p] = {}] /\ touched' = [touched EXCEPT ![p] = {}]
    /\ on' = [on EXCEPT ![p] = NoOne] /\ rev' = [rev EXCEPT ![p] = 0]
    /\ got' = [got EXCEPT ![p] = "none"]
    /\ unsure' = [unsure EXCEPT ![p] = FALSE] /\ saw' = [saw EXCEPT ![p] = FALSE]

(* Back to the loop of the phase. *)
Back(p) == Goto(p, "next") /\ on' = [on EXCEPT ![p] = NoOne]

(* The phase is over: #poll reads the job and plans what it will ask for.  *)
ToPoll(p) ==
    LET forced == kind[p] # "runDue"
        asks == {s \in Steps \ touched[p] :
                    /\ hasUnresolved(s)
                    /\ forced \/ (polls[s] < MaxPolls /\ ~(Native(s) /\ ~saw[p]))}
    IN /\ Goto(p, "next") /\ phase' = [phase EXCEPT ![p] = "poll"]
       /\ todo' = [todo EXCEPT ![p] = IF owner = p THEN asks ELSE {}]
       /\ rev' = [rev EXCEPT ![p] = revision] /\ on' = [on EXCEPT ![p] = NoOne]

(* Mutant: any worker writes, whoever holds the lease. *)
Leased_Always(p) == TRUE

(* #leased: a runner writes only while the stored lease is still its own.  *)
(* Nobody checks that the lease is still live.                             *)
Leased(p) == owner = p

-----------------------------------------------------------------------------
(* #process: claim, phases, release                                        *)

(* A job is due for runDue by its nextRunAt. *)
Listed == nextRun = "soon" \/ (nextRun = "runAt" /\ due)

(* Mutant: retryFailed clears the block of an interrupted reschedule too. *)
Retries_Interrupted(k) == k = "retryFailed"

(* An explicit retry clears a block, but not that of a reschedule which    *)
(* withdrew the provider's copies.                                         *)
Retries(k) == k = "retryFailed" /\ blocked # "interrupted"

(* What the first phase will visit, from the record that was read. *)
Agenda(k) ==
    IF status = "cancel-unresolved" THEN {s \in Steps : step[s] = "dispatching"}
    ELSE IF Retries(k)
         THEN {s \in Steps : /\ step[s] = "dispatched" /\ result[s] # "published"
                             /\ ~Unresolved(result[s])}
         ELSE {}

FirstPhase(k) ==
    IF status = "cancel-unresolved" THEN "salvage"
    ELSE IF Retries(k) THEN "retry" ELSE "advance"

(* Leases the job by compare-and-set on the revision that was read. *)
Claim(p, k) ==
    /\ pc[p] = "idle" /\ (k = "runDue" => Listed)
    /\ ~(owner # NoOne /\ live) /\ status # "cancelled"
    /\ owner' = p /\ live' = TRUE
    /\ blocked' = IF Retries(k) THEN "none" ELSE blocked
    /\ kind' = [kind EXCEPT ![p] = IF k = "retryFailed" THEN "reconcile" ELSE k]
    /\ phase' = [phase EXCEPT ![p] = FirstPhase(k)]
    /\ todo' = [todo EXCEPT ![p] = Agenda(k)] /\ rev' = [rev EXCEPT ![p] = revision]
    /\ saw' = [saw EXCEPT ![p] = due] /\ Goto(p, "next")
    /\ UNCHANGED <<status, nextRun, revision, mode, step, result, polls, world>>
    /\ UNCHANGED <<touched, on, got, unsure>>

(* The agenda is empty: a salvage goes on to poll, a retry to advance, and *)
(* a poll to another round.  The code stops after three rounds, or after   *)
(* one that changed nothing; the model after any.                          *)
NextPhase(p) ==
    /\ pc[p] = "next" /\ todo[p] = {}
    /\ \/ phase[p] = "salvage" /\ ToPoll(p)
       \/ /\ phase[p] = "retry" \/ (phase[p] = "poll" /\ status # "cancel-unresolved")
          /\ phase' = [phase EXCEPT ![p] = "advance"]
          /\ UNCHANGED <<pc, todo, rev, on>>
    /\ UNCHANGED <<job, lease, world, kind, touched, got, unsure, saw>>

ToRelease(p) ==
    /\ Goto(p, "release")
    /\ phase' = [phase EXCEPT ![p] = "none"]
    /\ todo' = [todo EXCEPT ![p] = {}] /\ touched' = [touched EXCEPT ![p] = {}]
    /\ on' = [on EXCEPT ![p] = NoOne] /\ rev' = [rev EXCEPT ![p] = 0]
    /\ got' = [got EXCEPT ![p] = "none"]
    /\ UNCHANGED <<job, lease, world, kind, unsure, saw>>

EndRounds(p) == pc[p] = "next" /\ phase[p] = "poll" /\ todo[p] = {} /\ ToRelease(p)

(* A call that throws, or a mutation that loses its compare-and-set ten    *)
(* times: #process goes to its finally block.                              *)
Throw(p) == p \in Runners /\ pc[p] \notin {"idle", "release"} /\ ToRelease(p)

(* Mutant: a blocked job whose outcomes are all settled is completed. *)
StatusOnRelease_Blocked(pending, next) ==
    IF ~pending THEN "completed" ELSE IF next = "none" THEN "blocked"
    ELSE IF hasDispatchedRuntime THEN "running" ELSE "scheduled"

(* Mutant: a job that will not be looked at again is not called blocked. *)
StatusOnRelease_Unblocked(pending, next) ==
    IF ~pending /\ blocked = "none" THEN "completed"
    ELSE IF hasDispatchedRuntime THEN "running" ELSE "scheduled"

StatusOnRelease(pending, next) ==
    IF ~pending /\ blocked = "none" THEN "completed" ELSE IF next = "none" THEN "blocked"
    ELSE IF hasDispatchedRuntime THEN "running" ELSE "scheduled"

PollsAgain(s) == hasUnresolved(s) /\ polls[s] < MaxPolls

(* Mutant: an interrupted dispatch is not due again. *)
DueSoon_NoRecovery(s, now) ==
    \/ MustDispatch(s, now) \/ MustConvert(s, now)
    \/ PollsAgain(s) /\ ~Native(s)

DueSoon(s, now) ==
    \/ MustRecover(s) \/ MustDispatch(s, now) \/ MustConvert(s, now)
    \/ PollsAgain(s) /\ ~Native(s)

NextOnRelease(now) ==
    IF blocked # "none" THEN "none"
    ELSE IF \E s \in Steps : DueSoon(s, now) THEN "soon"
    ELSE IF \E s \in Steps : MustWait(s, now) \/ PollsAgain(s) THEN "runAt"
    ELSE "none"

(* Computes status and next due time, and drops the lease. *)
Release(p) ==
    LET next == NextOnRelease(saw[p])
        pending == \E s \in Steps : step[s] # "dispatched" \/ hasUnresolved(s)
    IN /\ pc[p] = "release"
       /\ IF Leased(p)
          THEN /\ owner' = NoOne /\ live' = FALSE
               /\ nextRun' = IF status \in Stopped THEN "none" ELSE next
               /\ status' = IF status \in Stopped THEN status ELSE StatusOnRelease(pending, next)
          ELSE UNCHANGED <<owner, live, nextRun, status>>
       /\ Finish(p)
       /\ UNCHANGED <<blocked, revision, mode, step, result, polls, world>>

-----------------------------------------------------------------------------
(* The client's calls for a step s, on its key in the revision p has read. *)

TheClaim(p, s)    == claim[s][rev[p]]
ThePost(p, s)     == post[s][rev[p]]
SetClaim(p, s, c) == claim' = [claim EXCEPT ![s][rev[p]] = c]
SetPost(p, s, x)  == post' = [post EXCEPT ![s][rev[p]] = x]

Read(c) == IF c = "sent" THEN "unknown" ELSE c

(* What an answer may say of a copy; a native route reports a held copy as *)
(* scheduled.                                                              *)
Reports(p, s) ==
    {"unknown"}
    \cup (IF ThePost(p, s) = "live" /\ Native(s) THEN {"scheduled"} ELSE {})
    \cup (IF ThePost(p, s) = "public" THEN {"published"} ELSE {})
    \cup (IF ThePost(p, s) = "dead" THEN {"failed", "final"} ELSE {})

Got(p, o) == got' = [got EXCEPT ![p] = o]

(* A retry that sent nothing and changed no outcome keeps the refusal that *)
(* stopped later items (retriedStep).  got[p] is the outcome it started from. *)
GotUnsent(p, o) ==
    \/ Got(p, o)
    \/ phase[p] = "retry" /\ got[p] = "refused" /\ o = "failed" /\ Got(p, "refused")

(* posts.reconcile: fences a key never claimed, polls an outcome that has a *)
(* delivery, and otherwise reads what is saved.                            *)
Reconcile(p, s) ==
    \/ /\ TheClaim(p, s) = "none"
       /\ SetClaim(p, s, "failed") /\ GotUnsent(p, "failed")
    \/ /\ Unresolved(TheClaim(p, s))
       /\ \E o \in Reports(p, s) : SetClaim(p, s, o) /\ Got(p, o)
    \/ /\ TheClaim(p, s) # "none"
       /\ GotUnsent(p, Read(TheClaim(p, s))) /\ UNCHANGED claim

(* Mutant: a key that is already claimed is sent again. *)
Publish_Resends(p) ==
    /\ pc[p] = "send"
    /\ SetClaim(p, on[p], "sent") /\ SetPost(p, on[p], "live") /\ Goto(p, "flight")
    /\ touched' = [touched EXCEPT ![p] = @ \cup {on[p]}]
    /\ UNCHANGED <<job, lease, due, retries, kind, phase, todo, on, rev, got, unsure, saw>>

(* posts.publish, after the dispatch fence: the call that creates the claim *)
(* sends, or stops before the adapter; a claimed key is replayed; or the   *)
(* call is refused before anything happens.                                *)
Publish(p) ==
    /\ pc[p] = "send"
    /\ \/ /\ TheClaim(p, on[p]) = "none"
          /\ SetClaim(p, on[p], "sent") /\ SetPost(p, on[p], "live")
          /\ Goto(p, "flight") /\ UNCHANGED <<got, touched>>
       \/ /\ touched' = [touched EXCEPT ![p] = @ \cup {on[p]}]
          /\ Goto(p, "record") /\ UNCHANGED post
          /\ \/ /\ TheClaim(p, on[p]) = "none"
                /\ SetClaim(p, on[p], "failed") /\ Got(p, "failed")
             \/ /\ TheClaim(p, on[p]) # "none" /\ Got(p, Read(TheClaim(p, on[p]))) /\ UNCHANGED claim
             \/ Got(p, "refused") /\ UNCHANGED claim
    /\ UNCHANGED <<job, lease, due, retries, kind, phase, todo, on, rev, unsure, saw>>

(* The adapter answers; saving the outcome with the claim may fail. *)
PublishAnswers(p) ==
    /\ pc[p] = "flight"
    /\ \E o \in Reports(p, on[p]) : Got(p, o) /\ \E c \in {o, "sent"} : SetClaim(p, on[p], c)
    /\ touched' = [touched EXCEPT ![p] = @ \cup {on[p]}]
    /\ Goto(p, "record")
    /\ UNCHANGED <<job, lease, due, post, retries, kind, phase, todo, on, rev, unsure, saw>>

(* posts.retryFailed: sends a target whose last attempt is known dead, or  *)
(* reports what is saved; a SocialError leads to reading the claim back.   *)
RetryFailed(p) ==
    /\ pc[p] = "resend"
    /\ \/ /\ Retryable(TheClaim(p, on[p])) /\ retries > 0
          /\ SetClaim(p, on[p], "sent") /\ SetPost(p, on[p], "live") /\ retries' = retries - 1
          /\ Goto(p, "reflight") /\ UNCHANGED got
       \/ /\ Retryable(TheClaim(p, on[p]))
          /\ SetClaim(p, on[p], "failed") /\ Got(p, "failed")
          /\ Goto(p, "record") /\ UNCHANGED <<post, retries>>
       \/ /\ TheClaim(p, on[p]) # "none" /\ GotUnsent(p, Read(TheClaim(p, on[p])))
          /\ Goto(p, "record") /\ UNCHANGED <<claim, post, retries>>
       \/ Goto(p, "recover") /\ UNCHANGED <<claim, post, retries, got>>
    /\ UNCHANGED <<job, lease, due, kind, phase, todo, touched, on, rev, unsure, saw>>

RetryAnswers(p) ==
    /\ pc[p] = "reflight"
    /\ \E o \in Reports(p, on[p]) :
          \/ SetClaim(p, on[p], o) /\ Got(p, o) /\ Goto(p, "record")
          \/ Goto(p, "recover") /\ UNCHANGED <<claim, got>>
    /\ UNCHANGED <<job, lease, due, post, retries, kind, phase, todo, touched, on, rev, unsure, saw>>

-----------------------------------------------------------------------------
(* #advance                                                                *)

MayAdvance(p) == Leased(p) /\ status \notin Stopped /\ blocked = "none" /\ kind[p] # "poll"

Advance(p) ==
    /\ pc[p] = "next" /\ phase[p] = "advance"
    /\ IF /\ MayAdvance(p)
          /\ \E s \in Steps : MustRecover(s) \/ MustConvert(s, saw[p]) \/ MustDispatch(s, saw[p])
       THEN /\ \E s \in Steps :
                  /\ on' = [on EXCEPT ![p] = s]
                  /\ \/ MustRecover(s) /\ Goto(p, "recover")
                     \/ MustConvert(s, saw[p]) /\ Goto(p, "preflight")
                     \/ MustDispatch(s, saw[p]) /\ Goto(p, "preflight")
            /\ rev' = [rev EXCEPT ![p] = revision]
            /\ UNCHANGED <<phase, todo>>
       ELSE ToPoll(p)
    /\ UNCHANGED <<job, lease, world, kind, touched, got, unsure, saw>>

(* The preflight of a step to dispatch, or of a native lane whose time has *)
(* passed, fails: the job is blocked.  The status is not looked at again.  *)
PreflightFails(p) ==
    /\ pc[p] = "preflight"
    /\ blocked' = IF Leased(p) THEN "error" ELSE blocked
    /\ ToPoll(p)
    /\ UNCHANGED <<status, nextRun, revision, mode, step, result, polls>>
    /\ UNCHANGED <<lease, world, kind, touched, got, unsure, saw>>

Converting(p) == Native(on[p]) /\ saw[p]

(* A native lane that missed its time becomes a runtime lane. *)
Convert(p) ==
    /\ pc[p] = "preflight" /\ Converting(p)
    /\ mode' = IF Leased(p) THEN [mode EXCEPT ![on[p][1]] = "runtime"] ELSE mode
    /\ Back(p)
    /\ UNCHANGED <<status, blocked, nextRun, revision, step, result, polls>>
    /\ UNCHANGED <<lease, world, kind, phase, todo, touched, rev, got, unsure, saw>>

(* Mutant: the fence does not look at the job's or the step's state. *)
MayMark_Unfenced(p, s, from) == Leased(p)

(* The dispatch fence. *)
MayMark(p, s, from) == Leased(p) /\ status \notin Stopped /\ step[s] = from

MarkDispatching(p) ==
    /\ pc[p] = "preflight" /\ ~Converting(p)
    /\ IF MayMark(p, on[p], "pending")
       THEN /\ step' = [step EXCEPT ![on[p]] = "dispatching"]
            /\ rev' = [rev EXCEPT ![p] = revision]
            /\ Goto(p, "send") /\ UNCHANGED <<phase, todo, on>>
       ELSE ToPoll(p) /\ UNCHANGED step
    /\ UNCHANGED <<status, blocked, nextRun, revision, mode, result, polls>>
    /\ UNCHANGED <<lease, world, kind, touched, got, unsure, saw>>

-----------------------------------------------------------------------------
(* #recover, #retrySteps, #poll                                            *)

(* #recover reads the claim of a step left dispatching and never resends.  *)
Recover(p) ==
    /\ pc[p] = "recover"
    /\ Reconcile(p, on[p]) /\ Goto(p, "record")
    /\ UNCHANGED <<job, lease, due, post, retries, kind, phase, todo, touched, on, rev, unsure, saw>>

RecoverFails(p) ==
    /\ pc[p] = "recover"
    /\ blocked' = IF Leased(p) THEN "error" ELSE blocked
    /\ Back(p) /\ Got(p, "none")
    /\ UNCHANGED <<status, nextRun, revision, mode, step, result, polls>>
    /\ UNCHANGED <<lease, world, kind, phase, todo, touched, rev, unsure, saw>>

(* A step in flight becomes dispatched with the outcome of its call. *)
Record(p) ==
    /\ pc[p] = "record"
    /\ IF Leased(p) /\ step[on[p]] = "dispatching"
       THEN /\ step' = [step EXCEPT ![on[p]] = "dispatched"]
            /\ result' = [result EXCEPT ![on[p]] = got[p]]
            /\ polls' = [polls EXCEPT ![on[p]] = 0]
       ELSE UNCHANGED <<step, result, polls>>
    /\ Got(p, "none") /\ Back(p)
    /\ UNCHANGED <<status, blocked, nextRun, revision, mode>>
    /\ UNCHANGED <<lease, world, kind, phase, todo, touched, rev, unsure, saw>>

(* #retrySteps marks one failed step in flight again; a lost lease or a    *)
(* cancellation ends the retry.                                            *)
Retry(p) ==
    /\ pc[p] = "next" /\ phase[p] = "retry"
    /\ \E s \in todo[p] :
          \/ /\ MayMark(p, s, "dispatched")
             /\ step' = [step EXCEPT ![s] = "dispatching"]
             /\ result' = [result EXCEPT ![s] = "none"]
             /\ Got(p, result[s]) /\ on' = [on EXCEPT ![p] = s]
             /\ todo' = [todo EXCEPT ![p] = @ \ {s}] /\ Goto(p, "resend")
          \/ /\ ~MayMark(p, s, "dispatched")
             /\ todo' = [todo EXCEPT ![p] =
                    IF ~Leased(p) \/ status \in Stopped THEN {} ELSE @ \ {s}]
             /\ UNCHANGED <<step, result, got, on, pc>>
    /\ UNCHANGED <<status, blocked, nextRun, revision, mode, polls>>
    /\ UNCHANGED <<lease, world, kind, phase, touched, rev, unsure, saw>>

(* A runner that finds a stopped job salvages what an earlier lease holder *)
(* left dispatching: #recover, of the steps that were read.                *)
Salvage(p) ==
    /\ pc[p] = "next" /\ phase[p] = "salvage"
    /\ \E s \in todo[p] :
          /\ todo' = [todo EXCEPT ![p] = @ \ {s}]
          /\ \/ /\ Reconcile(p, s) /\ on' = [on EXCEPT ![p] = s] /\ Goto(p, "record")
                /\ UNCHANGED blocked
             \/ /\ blocked' = IF Leased(p) THEN "error" ELSE blocked
                /\ UNCHANGED <<claim, got, on, pc>>
    /\ UNCHANGED <<status, nextRun, revision, mode, step, result, polls>>
    /\ UNCHANGED <<lease, due, post, retries, kind, phase, touched, rev, unsure, saw>>

(* #poll asks for one unresolved step; an error counts as a poll. *)
Poll(p) ==
    /\ pc[p] = "next" /\ phase[p] = "poll"
    /\ \E s \in todo[p] :
          /\ on' = [on EXCEPT ![p] = s] /\ todo' = [todo EXCEPT ![p] = @ \ {s}]
          /\ touched' = [touched EXCEPT ![p] = @ \cup {s}]
          /\ Reconcile(p, s) \/ UNCHANGED <<claim, got>>
    /\ Goto(p, "polled")
    /\ UNCHANGED <<job, lease, due, post, retries, kind, phase, rev, unsure, saw>>

(* A provider cancellation saved on the job outlives the claim's outcome.  *)
Polled(s, o) == IF o # "none" /\ Unresolved(result[s]) THEN o ELSE result[s]

RecordPoll(p) ==
    /\ pc[p] = "polled"
    /\ IF Leased(p) /\ step[on[p]] = "dispatched"
       THEN /\ result' = [result EXCEPT ![on[p]] = Polled(on[p], got[p])]
            /\ polls' = [polls EXCEPT ![on[p]] = IF @ < MaxPolls THEN @ + 1 ELSE @]
       ELSE UNCHANGED <<result, polls>>
    /\ Got(p, "none") /\ Back(p)
    /\ UNCHANGED <<status, blocked, nextRun, revision, mode, step>>
    /\ UNCHANGED <<lease, world, kind, phase, todo, touched, rev, unsure, saw>>

-----------------------------------------------------------------------------
(* cancel and reschedule.  For a Caller, todo holds the scheduled copies it *)
(* will ask the provider to cancel, touched those that were confirmed, and *)
(* unsure that some copy is unresolved.                                     *)

Scheduled == {s \in Steps : step[s] = "dispatched" /\ result[s] = "scheduled"}

Withdrawing(p) ==
    /\ todo' = [todo EXCEPT ![p] = Scheduled]
    /\ unsure' = [unsure EXCEPT ![p] =
           \E s \in Steps : step[s] = "dispatching" \/ (hasUnresolved(s) /\ s \notin Scheduled)]
    /\ touched' = [touched EXCEPT ![p] = {}]
    /\ rev' = [rev EXCEPT ![p] = revision]

FenceStep(s) == IF step[s] = "pending" THEN "cancelled" ELSE step[s]

(* cancel's first mutation stops every step that has not been sent. *)
CancelFence(p) ==
    /\ status \notin {"completed", "cancelled"}
    /\ status' = "cancel-unresolved" /\ nextRun' = "none"
    /\ step' = [s \in Steps |-> FenceStep(s)]
    /\ kind' = [kind EXCEPT ![p] = "cancel"] /\ Goto(p, "withdraw")
    /\ Withdrawing(p)
    /\ UNCHANGED <<blocked, revision, mode, result, polls, lease, world, phase, on, got, saw>>

Cancel(p) == pc[p] = "idle" /\ CancelFence(p)

(* One posts.cancelScheduled: confirmed, or failed whatever became of the copy. *)
WithdrawCopy(p) ==
    /\ pc[p] = "withdraw"
    /\ \E s \in todo[p] :
          /\ todo' = [todo EXCEPT ![p] = @ \ {s}]
          /\ \/ /\ post[s][rev[p]] \in {"live", "dead"}
                /\ post' = [post EXCEPT ![s][rev[p]] = "dead"]
                /\ touched' = [touched EXCEPT ![p] = @ \cup {s}] /\ UNCHANGED unsure
             \/ /\ post' \in {post, [post EXCEPT ![s][rev[p]] = IF @ = "live" THEN "dead" ELSE @]}
                /\ unsure' = [unsure EXCEPT ![p] = TRUE] /\ UNCHANGED touched
    /\ UNCHANGED <<job, lease, due, claim, retries, pc, kind, phase, on, rev, got, saw>>

(* A confirmed withdrawal is saved only onto the outcome it cancelled. *)
Confirms(p, s) == s \in touched[p] /\ rev[p] = revision /\ s \in Scheduled

SaveConfirmed(p) == result' = [s \in Steps |-> IF Confirms(p, s) THEN "final" ELSE result[s]]

(* Mutant: an unresolved copy does not keep the job from being cancelled. *)
FinalStatus_Ignores(p) == "cancelled"

FinalStatus(p) == IF unsure[p] THEN "cancel-unresolved" ELSE "cancelled"

(* The final mutation of cancel; it does not look at the status. *)
CancelFinal(p) ==
    /\ pc[p] = "withdraw" /\ kind[p] = "cancel" /\ todo[p] = {}
    /\ SaveConfirmed(p)
    /\ status' = FinalStatus(p)
    /\ Finish(p)
    /\ UNCHANGED <<blocked, nextRun, revision, mode, step, polls, lease, world>>

(* Mutant: a lease, live or not, and an uncertain native state are ignored. *)
MayReschedule_Uncertain ==
    /\ status \notin {"completed"} \cup Stopped
    /\ ~hasDispatchedRuntime
    /\ ~\E s \in Steps : Native(s) /\ step[s] = "dispatching"
    /\ ~(owner # NoOne /\ live)

MayReschedule ==
    /\ status \notin {"completed"} \cup Stopped
    /\ ~hasDispatchedRuntime
    /\ ~\E s \in Steps : Native(s) /\ step[s] = "dispatching"
    /\ ~(owner # NoOne /\ live)
    /\ ~\E s \in Steps : /\ Native(s) /\ step[s] = "dispatched"
                         /\ result[s] \in {"published", "unknown"}

(* reschedule's guards and its fence lease, by compare-and-set on the      *)
(* revision they were read from.                                           *)
Reschedule(p) ==
    /\ pc[p] = "idle" /\ MayReschedule /\ revision < MaxRevision
    /\ owner' = p /\ live' = TRUE
    /\ kind' = [kind EXCEPT ![p] = "reschedule"] /\ Goto(p, "check")
    /\ Withdrawing(p)
    /\ UNCHANGED <<job, world, phase, on, got, saw>>

Unfence(p) ==
    /\ owner' = IF owner = p THEN NoOne ELSE owner
    /\ live' = IF owner = p THEN FALSE ELSE live

(* The preflight of the moved job fails, no queue slot is free, or the     *)
(* lease that must be renewed before withdrawing anything is lost.         *)
RescheduleFails(p) ==
    /\ pc[p] = "check"
    /\ Unfence(p) /\ Finish(p)
    /\ UNCHANGED <<job, world>>

(* Mutant: the renewal does not look at the owner or at the expiry. *)
MayRenew_Lost(p) == TRUE

MayRenew(p) == owner = p /\ live

(* A job with provider copies is blocked and its lease renewed before the  *)
(* first copy is withdrawn; any other is simply moved.                     *)
Renew(p) ==
    /\ pc[p] = "check"
    /\ IF \E s \in Steps : Native(s) /\ step[s] = "dispatched"
       THEN /\ MayRenew(p)
            /\ owner' = p /\ live' = TRUE /\ blocked' = "interrupted"
            /\ Goto(p, "withdraw")
       ELSE Goto(p, "move") /\ UNCHANGED <<lease, blocked>>
    /\ UNCHANGED <<status, nextRun, revision, mode, step, result, polls, world>>
    /\ UNCHANGED <<kind, phase, todo, touched, on, rev, got, unsure, saw>>

(* The withdrawals are saved, whoever holds the lease by now.  Unresolved  *)
(* ones end the reschedule: it gives its lease up, and cancels.            *)
RescheduleSaves(p) ==
    /\ pc[p] = "withdraw" /\ kind[p] = "reschedule" /\ todo[p] = {}
    /\ SaveConfirmed(p)
    /\ Goto(p, IF unsure[p] THEN "release" ELSE "move")
    /\ UNCHANGED <<status, blocked, nextRun, revision, mode, step, polls, lease, world>>
    /\ UNCHANGED <<kind, phase, todo, touched, on, rev, got, unsure, saw>>

RescheduleUnfences(p) ==
    /\ pc[p] = "release" /\ kind[p] = "reschedule"
    /\ Unfence(p) /\ kind' = [kind EXCEPT ![p] = "cancel"]
    /\ UNCHANGED <<job, world, pc, phase, todo, touched, on, rev, got, unsure, saw>>

RescheduleCancels(p) ==
    /\ pc[p] = "release" /\ kind[p] = "cancel"
    /\ IF status \in {"completed", "cancelled"}
       THEN Finish(p) /\ UNCHANGED <<job, lease, world>> ELSE CancelFence(p)

(* The call ends and leaves its lease, if it has it, to expire.            *)
Abandon(p) == owner' = IF owner = p THEN Gone ELSE owner

(* Mutant: the move does not look at the lease. *)
MayMove_Lost(p) == status \notin Stopped

MayMove(p) == owner = p /\ status \notin Stopped

(* The last mutation of reschedule: every step is pending again under new  *)
(* keys, and the job is due at its new, future, time.                      *)
Move(p) ==
    /\ pc[p] = "move"
    /\ IF MayMove(p)
       THEN /\ status' = "scheduled" /\ blocked' = "none" /\ owner' = NoOne /\ live' = FALSE
            /\ revision' = revision + 1
            /\ mode' = [l \in Lanes |-> IF l \in NativeLanes THEN "native" ELSE mode[l]]
            /\ step' = [s \in Steps |-> "pending"] /\ result' = [s \in Steps |-> "none"]
            /\ polls' = [s \in Steps |-> 0]
            /\ nextRun' = IF NativeLanes # {} THEN "soon" ELSE "runAt"
            /\ due' = FALSE
       ELSE Abandon(p) /\ UNCHANGED <<job, live, due>>
    /\ Finish(p)
    /\ UNCHANGED <<post, claim, retries>>

-----------------------------------------------------------------------------
(* Environment                                                             *)

(* The process dies (or a caller's store call fails); its lease stays.     *)
Crash(p) ==
    /\ pc[p] # "idle"
    /\ Abandon(p)
    /\ Finish(p)
    /\ UNCHANGED <<job, live, world>>

LeaseExpires ==
    /\ owner # NoOne /\ live /\ live' = FALSE
    /\ RetryOutlivesLease \/ ~\E p \in Runners : owner = p /\ phase[p] = "retry"
    /\ UNCHANGED <<job, owner, world, locals>>

TimePasses ==
    /\ ~due /\ due' = TRUE
    /\ UNCHANGED <<job, lease, post, claim, retries, locals>>

(* The provider publishes or drops a copy it has. *)
ProviderMoves(s, r) ==
    /\ post[s][r] = "live"
    /\ \E x \in {"public", "dead"} : post' = [post EXCEPT ![s][r] = x]
    /\ UNCHANGED <<job, lease, due, claim, retries, locals>>

RunnerStep(p) ==
    \/ NextPhase(p) \/ EndRounds(p) \/ Release(p)
    \/ Publish(p) \/ PublishAnswers(p) \/ RetryFailed(p) \/ RetryAnswers(p)
    \/ Advance(p) \/ PreflightFails(p) \/ Convert(p) \/ MarkDispatching(p)
    \/ Salvage(p) \/ Recover(p) \/ RecoverFails(p) \/ Record(p)
    \/ Retry(p) \/ Poll(p) \/ RecordPoll(p)

CallerStep(p) ==
    \/ Cancel(p) \/ WithdrawCopy(p) \/ CancelFinal(p)
    \/ Reschedule(p) \/ RescheduleFails(p) \/ Renew(p) \/ RescheduleSaves(p)
    \/ RescheduleUnfences(p) \/ RescheduleCancels(p) \/ Move(p)

Next ==
    \/ \E p \in Runners : RunnerStep(p) \/ Throw(p)
    \/ \E p \in Runners, k \in Kinds : Claim(p, k)
    \/ \E p \in Callers : CallerStep(p)
    \/ \E p \in Procs : Crash(p)
    \/ LeaseExpires \/ TimePasses
    \/ \E s \in Steps, r \in Revisions : ProviderMoves(s, r)

Spec == Init /\ [][Next]_vars

(* Every call to a client or a store settles, time goes by, and runDue is   *)
(* called again and again.  #process makes three rounds at most.            *)
Fairness ==
    /\ \A p \in Runners : WF_vars(RunnerStep(p)) /\ SF_vars(EndRounds(p))
    /\ WF_vars(LeaseExpires) /\ WF_vars(TimePasses)
    /\ SF_vars(\E p \in Runners : Claim(p, "runDue"))

LiveSpec == Spec /\ Fairness

-----------------------------------------------------------------------------
(* Properties                                                              *)

MayAppear(s, r) == post[s][r] \in {"live", "public"}

(* A step has at most one copy that is a post or may still become one,     *)
(* however often it is retried, recovered or moved: a reschedule never     *)
(* leaves two scheduled copies (reschedule, #cancelProviderWork).          *)
OneCopy == \A s \in Steps : \A r, q \in Revisions : MayAppear(s, r) /\ MayAppear(s, q) => r = q

(* A job is cancelled only when nothing can still publish, whatever a      *)
(* runner was doing when the cancellation came (cancel, #retrySteps).       *)
CancelledIsQuiet ==
    status = "cancelled" =>
        /\ \A s \in Steps : step[s] # "dispatching"
        /\ \A s \in Steps, r \in Revisions : post[s][r] # "live"

(* An outcome that the job reports as not published, and as settled, is so: *)
(* the step's present key has no copy that may appear (#recover, #poll and  *)
(* retriedStep against late sends and saves).                              *)
SettledIsTrue ==
    \A s \in Steps : step[s] = "dispatched" /\ result[s] # "published" /\ ~Unresolved(result[s])
        => ~MayAppear(s, revision)

(* No step is sent before the previous one is known to be published        *)
(* (laneProgress), across crashes and retries of either.                   *)
InOrder ==
    StopOnFailure =>
        \A s \in Steps, r \in Revisions :
            s[2] > 1 /\ MayAppear(s, r) => post[<<s[1], s[2] - 1>>][r] = "public"

(* A completed job has nothing that may still appear, unless it is being   *)
(* retried, and it is not a job whose copies an interrupted reschedule     *)
(* withdrew (#release).                                                    *)
CompletedIsOver ==
    status = "completed" /\ owner = NoOne =>
        /\ blocked = "none"
        /\ \A s \in Steps : step[s] = "dispatched" /\ ~Unresolved(result[s])
        /\ \A s \in Steps, r \in Revisions : post[s][r] # "live"

(* A job that was stopped stays stopped, and none of its steps is put in    *)
(* flight again: the fence of cancel holds against every runner that read   *)
(* the job before it, against retries and against a reschedule (cancel).    *)
FenceHolds ==
    [][(status \in Stopped) =>
           /\ status' \in Stopped
           /\ \A s \in Steps : step'[s] = "dispatching" => step[s] = "dispatching"]_vars

(* The result of a step in flight is recorded by the holder of the lease,   *)
(* from a call made for this step in this revision of the job: an expired   *)
(* worker never overwrites its replacement's progress (#leased).            *)
ProgressIsFenced ==
    [][\A s \in Steps : step[s] = "dispatching" /\ step'[s] # "dispatching" =>
          \E p \in Runners : owner = p /\ pc[p] = "record" /\ on[p] = s /\ rev[p] = revision]_vars

(* From some time on no runner dies, throws or outlives its lease. *)
Healthy ==
    <>[][~(owner \in Runners /\ LeaseExpires) /\ (\A p \in Runners : ~Throw(p) /\ ~Crash(p))]_vars

(* runDue brings every job to a state that needs nobody, or an operator:    *)
(* whatever crashed or expired before, no job is left waiting for a time at *)
(* which nobody will look at it (#release, listDue).                        *)
NeverStalls ==
    Healthy => (status \in {"scheduled", "running"} ~> status \notin {"scheduled", "running"})

(* A step that a crashed or expired runner left dispatching is recovered by *)
(* the next runner: runDue comes to it, without anyone asking.  It does not *)
(* after a crash in a retry of a job that was completed or blocked.         *)
InterruptedIsRecovered ==
    Healthy => \A s \in Steps :
        step[s] = "dispatching" ~> step[s] # "dispatching" \/ status \in Stopped \/ blocked # "none"

-----------------------------------------------------------------------------
(* The keys: every step has one in every revision.                         *)

Verdict(c) == IF c \in {"sent", "unknown", "scheduled"} THEN "open" ELSE c

KeysOfSteps == Steps \X Revisions

Keyed == INSTANCE KeyedTargets WITH
    Keys <- KeysOfSteps,
    known <- [k \in KeysOfSteps |-> Verdict(claim[k[1]][k[2]])],
    going <- {},
    copy <- [k \in KeysOfSteps |-> post[k[1]][k[2]]]

(* What the model takes posts.publish, posts.reconcile, posts.retryFailed   *)
(* and posts.cancelScheduled to do with a key is what Publication proves of *)
(* it, however many runners, alive or late, call them for the same step.   *)
KeysAreKept == Keyed!Spec
=============================================================================
