-------------------------- MODULE Scheduler_proofs --------------------------
(***************************************************************************)
(* Proofs about Scheduler, for any number of lanes, steps, runners and     *)
(* callers and any bounds.                                                 *)
(*                                                                         *)
(* Where no lease expires under a retry (LeaseCoversRetry, IInv): a key is *)
(* sent only while its step is in flight, by the one call that marked it;  *)
(* whoever holds the lease writes from what it has read of the present     *)
(* revision; and a caller that cancels or moves knows of every copy that   *)
(* it has not withdrawn.                                                   *)
(*                                                                         *)
(* Whatever expires (HoldInv, OrderInv, SpokenInv): the holder of the lease *)
(* knows the present revision, only it puts steps in flight and settles    *)
(* them; a lane whose steps depend on each other is never moved once one   *)
(* was sent; and a key in flight is spoken for by the call that sent it.   *)
(***************************************************************************)
EXTENDS Scheduler, TLAPS

(* A retry does not outlive its lease: run scheduler_late_retry.           *)
LeaseCoversRetry == ~RetryOutlivesLease

(* Where a call of the client for a step's key is made or recorded.        *)
AtKey == {"recover", "send", "flight", "resend", "reflight", "record"}
Flying == {"flight", "reflight"}

Fixed(o) == o \in {"refused", "failed", "final"}

(* A claim and a copy, as long as the claim tells of the copy.             *)
KeyInv(s, r) ==
    /\ claim[s][r] = "none" => post[s][r] = "absent"
    /\ claim[s][r] \in {"failed", "final"} => ~MayAppear(s, r)
    /\ claim[s][r] = "published" => post[s][r] = "public"
    /\ r # revision => ~MayAppear(s, r)
    /\ r > revision => claim[s][r] = "none"

(* A recorded step and its present key.                                    *)
StepInv(s) ==
    /\ step[s] \in {"pending", "cancelled"} => claim[s][revision] = "none"
    /\ step[s] = "cancelled" => status \in Stopped
    /\ step[s] = "dispatched" /\ Fixed(result[s]) => ~MayAppear(s, revision)
    /\ step[s] = "dispatched" /\ result[s] = "published" => post[s][revision] = "public"

(* What a runner keeps at its label.                                       *)
LabelInv(p) ==
    /\ pc[p] \in AtKey \cup {"preflight", "polled"} => on[p] \in Steps
    /\ pc[p] \notin {"recover", "resend", "reflight", "record", "polled"} => got[p] = "none"
    /\ pc[p] = "record" => got[p] # "none"
    /\ pc[p] \in {"resend", "reflight"} => phase[p] = "retry"
    /\ pc[p] \in {"preflight", "send", "flight"} => phase[p] = "advance"
    /\ pc[p] \in {"idle", "release"} => phase[p] = "none"
    /\ phase[p] \in {"none", "advance"} => todo[p] = {}
    /\ pc[p] \notin {"check", "withdraw", "move"}
    /\ rev[p] <= revision

(* What the lease tells its holder.                                        *)
LeaseInv(p) ==
    /\ owner = p => pc[p] # "idle" /\ (pc[p] # "release" => rev[p] = revision)
    /\ owner = p /\ pc[p] \in {"preflight", "recover"} => blocked # "interrupted"
    /\ phase[p] = "retry" => owner = p /\ live /\ blocked # "interrupted"
    /\ phase[p] = "salvage" => status \in Stopped

(* The step a runner works on, and its claim.                              *)
WorkInv(p) ==
    /\ rev[p] = revision =>
          /\ pc[p] \in AtKey => step[on[p]] \notin {"pending", "cancelled"}
          /\ \A s \in todo[p] : step[s] \notin {"pending", "cancelled"}
    /\ pc[p] \in {"resend", "reflight"} => step[on[p]] = "dispatching"
    /\ pc[p] \in Flying => claim[on[p]][rev[p]] = "sent"
    /\ pc[p] = "send" /\ claim[on[p]][rev[p]] = "none" =>
          rev[p] = revision /\ step[on[p]] = "dispatching"

(* What it is about to record is true.                                     *)
TruthInv(p) ==
    /\ pc[p] = "send" /\ owner = p => ~MayAppear(on[p], rev[p])
    /\ pc[p] = "record" /\ owner = p /\ step[on[p]] = "dispatching" /\ Fixed(got[p])
          => ~MayAppear(on[p], rev[p])
    /\ pc[p] = "polled" /\ owner = p /\ step[on[p]] = "dispatched" /\ Fixed(got[p])
          => ~MayAppear(on[p], rev[p])
    /\ pc[p] \in {"record", "polled"} /\ got[p] = "published" => post[on[p]][rev[p]] = "public"

RunnerInv(p) == LabelInv(p) /\ LeaseInv(p) /\ WorkInv(p) /\ TruthInv(p)

(* Two runners at one key.                                                 *)
AloneInv(p, q) ==
    p # q /\ on[p] = on[q] /\ rev[p] = rev[q] =>
        /\ ~(pc[p] \in Flying /\ pc[q] \in Flying)
        /\ ~(pc[p] = "send" /\ pc[q] = "send")
        /\ ~(pc[p] = "record" /\ pc[q] = "send" /\ claim[on[p]][rev[p]] = "none")

(* A step that a move leaves without a copy, once its withdrawals are made. *)
Quieted(p, s) ==
    \/ step[s] = "pending"
    \/ step[s] = "dispatched" /\ (s \in todo[p] \cup touched[p] \/ Fixed(result[s]))

(* A caller with the lease of a move.                                      *)
MoverInv(p) ==
    /\ owner = p =>
          /\ \A s \in Steps : step[s] # "dispatching"
          /\ revision < MaxRevision /\ status # "completed" /\ rev[p] = revision
          /\ kind[p] = "reschedule" /\ pc[p] # "idle"
    /\ owner = p /\ pc[p] = "check" =>
          /\ touched[p] = {} /\ \A s \in todo[p] : step[s] = "dispatched"
          /\ status \notin Stopped =>
                \A s \in Steps : Quieted(p, s) /\ (step[s] = "dispatched" => Native(s))
    /\ owner = p /\ pc[p] = "withdraw" /\ status \notin Stopped =>
                \A s \in Steps : Quieted(p, s) \/ unsure[p]
    /\ owner = p /\ pc[p] = "move" /\ status \notin Stopped =>
                \A s \in Steps : ~MayAppear(s, revision)

(* A caller that withdraws copies.                                         *)
WithdrawInv(p) ==
    /\ pc[p] = "withdraw" /\ rev[p] = revision =>
          /\ status \in Stopped \/ blocked = "interrupted"
          /\ \A s \in todo[p] \cup touched[p] : step[s] = "dispatched"
          /\ \A s \in touched[p] : ~MayAppear(s, revision)
    /\ pc[p] = "withdraw" /\ kind[p] = "cancel" => rev[p] = revision /\ status \in Stopped
    /\ pc[p] = "withdraw" /\ kind[p] = "cancel" /\ ~unsure[p] =>
          \A s \in Steps : step[s] # "dispatching" /\ (s \in todo[p] \/ post[s][revision] # "live")
    /\ pc[p] = "withdraw" => kind[p] \in {"cancel", "reschedule"}

CallerInv(p) ==
    /\ pc[p] \in {"idle", "check", "withdraw", "release", "move"} /\ phase[p] = "none"
    /\ rev[p] <= revision
    /\ MoverInv(p) /\ WithdrawInv(p)

KeysInv == \A s \in Steps, r \in Revisions : KeyInv(s, r)
StepsInv == \A s \in Steps : StepInv(s)
RunnersInv == \A p \in Runners : RunnerInv(p)
AlonesInv == \A p, q \in Runners : AloneInv(p, q)
CallersInv == \A p \in Callers : CallerInv(p)

IInv ==
    /\ TypeOK /\ KeysInv /\ StepsInv /\ RunnersInv /\ AlonesInv /\ CallersInv
    /\ CancelledIsQuiet /\ CompletedIsOver

-----------------------------------------------------------------------------
(* The types, in parts.                                                    *)

JobTyped ==
    /\ status \in Statuses
    /\ blocked \in {"none", "error", "interrupted"}
    /\ nextRun \in {"none", "soon", "runAt"}
    /\ revision \in Revisions
    /\ mode \in [Lanes -> {"native", "runtime"}]
    /\ step \in [Steps -> {"pending", "dispatching", "dispatched", "cancelled"}]
    /\ result \in [Steps -> Outcomes \cup {"none"}]
    /\ \A s \in Steps : step[s] = "dispatched" <=> result[s] # "none"
    /\ polls \in [Steps -> 0 .. MaxPolls]

LeaseTyped == owner \in Procs \cup {NoOne, Gone} /\ live \in BOOLEAN

WorldTyped ==
    /\ due \in BOOLEAN /\ retries \in 0 .. MaxRetries
    /\ post \in [Steps -> [Revisions -> Copies]]
    /\ claim \in [Steps -> [Revisions -> Claims]]

LocalsTyped ==
    /\ pc \in [Procs -> Labels]
    /\ kind \in [Procs -> RunnerKinds \cup CallerKinds \cup {"none"}]
    /\ phase \in [Procs -> Phases]
    /\ todo \in [Procs -> SUBSET Steps] /\ touched \in [Procs -> SUBSET Steps]
    /\ on \in [Procs -> Steps \cup {NoOne}]
    /\ rev \in [Procs -> Revisions]
    /\ got \in [Procs -> Outcomes \cup {"none"}]
    /\ unsure \in [Procs -> BOOLEAN] /\ saw \in [Procs -> BOOLEAN]

LEMMA TypeParts == TypeOK <=> JobTyped /\ LeaseTyped /\ WorldTyped /\ LocalsTyped
BY DEF TypeOK, JobTyped, LeaseTyped, WorldTyped, LocalsTyped

LEMMA JobTypeKept == ASSUME JobTyped, UNCHANGED job PROVE JobTyped'
BY DEF JobTyped, job

LEMMA WorldTypeKept == ASSUME WorldTyped, UNCHANGED world PROVE WorldTyped'
BY DEF WorldTyped, world

LEMMA LocalsTypeKept == ASSUME LocalsTyped, UNCHANGED locals PROVE LocalsTyped'
BY DEF LocalsTyped, locals

-----------------------------------------------------------------------------
(* What a step of p does to the record, seen by everybody else.            *)

Same(q) ==
    /\ pc'[q] = pc[q] /\ kind'[q] = kind[q] /\ phase'[q] = phase[q]
    /\ todo'[q] = todo[q] /\ touched'[q] = touched[q] /\ on'[q] = on[q] /\ rev'[q] = rev[q]
    /\ got'[q] = got[q] /\ unsure'[q] = unsure[q] /\ saw'[q] = saw[q]

Marks(p, s) ==
    /\ step'[s] = "dispatching" /\ status \notin Stopped
    /\ step[s] = "pending" \/ (step[s] = "dispatched" /\ blocked # "interrupted")

Records(p, s) ==
    /\ step[s] = "dispatching" /\ step'[s] = "dispatched"
    /\ pc[p] = "record" /\ on[p] = s /\ rev[p] = revision

Fences(s) == step[s] = "pending" /\ step'[s] = "cancelled" /\ status' \in Stopped

TrueResult(s) ==
    /\ Fixed(result'[s]) => ~MayAppear(s, revision)'
    /\ result'[s] = "published" => post'[s][revision] = "public"

JobMild(p) ==
    /\ revision' = revision
    /\ status \in Stopped => status' \in Stopped
    /\ status' = "completed" /\ status # "completed" => owner = p
    /\ blocked' # blocked => p \in {owner, owner'}
    /\ blocked' = "interrupted" /\ blocked # "interrupted" => owner = p
    /\ blocked = "interrupted" => blocked' = "interrupted" \/ status' \in Stopped
    /\ \A l \in Lanes : mode'[l] # mode[l] => owner = p
    /\ \A s \in Steps : step'[s] # step[s] =>
          Fences(s) \/ (p \in Runners /\ owner = p /\ (Marks(p, s) \/ Records(p, s)))
    /\ \A s \in Steps : result'[s] # result[s] => owner = p \/ Fixed(result'[s])
    /\ \A s \in Steps : step'[s] = "dispatched" /\ <<step[s], result[s]>>' # <<step[s], result[s]>>
          => TrueResult(s)

LeaseMild(p) ==
    /\ \A q \in Procs : q # p /\ owner' = q => owner = q
    /\ \A q \in Runners : q # p /\ phase[q] = "retry" /\ owner = q /\ live => owner' = q /\ live'

Sends(p, s, r) ==
    /\ p \in Runners /\ on[p] = s /\ rev[p] = r
    /\ pc[p] = "resend" \/ (pc[p] = "send" /\ claim[s][r] = "none")

WorldMild(p) ==
    \A s \in Steps, r \in Revisions :
        /\ claim'[s][r] = "none" => claim[s][r] = "none"
        /\ claim[s][r] = "sent" /\ claim'[s][r] # "sent" =>
              p \in Runners /\ pc[p] \in Flying /\ on[p] = s /\ rev[p] = r
        /\ r = revision /\ claim'[s][r] # claim[s][r] => step[s] \notin {"pending", "cancelled"}
        /\ post[s][r] = "public" => post'[s][r] = "public"
        /\ MayAppear(s, r)' => MayAppear(s, r) \/ Sends(p, s, r)

Mild(p) == JobMild(p) /\ LeaseMild(p) /\ WorldMild(p)

LEMMA JobUntouched == ASSUME NEW p, UNCHANGED job PROVE JobMild(p)
BY DEF job, JobMild

LEMMA LeaseUntouched == ASSUME NEW p, UNCHANGED lease PROVE LeaseMild(p)
BY DEF lease, LeaseMild

LEMMA WorldUntouched == ASSUME NEW p, UNCHANGED <<claim, post>> PROVE WorldMild(p)
BY DEF WorldMild, MayAppear

(* A copy appears only for a step in flight in the present revision.       *)
LEMMA OnlyInFlight ==
    ASSUME IInv, NEW p, NEW s \in Steps, NEW r \in Revisions, Sends(p, s, r)
    PROVE  step[s] = "dispatching" /\ r = revision
<1>1. RunnerInv(p) /\ p \in Runners
  BY DEF IInv, RunnersInv, Sends
<1>2. CASE pc[p] = "resend"
  BY <1>1, <1>2 DEF RunnerInv, WorkInv, LabelInv, LeaseInv, Sends
<1>3. CASE pc[p] = "send"
  BY <1>1, <1>3 DEF RunnerInv, WorkInv, Sends
<1> QED
  BY <1>2, <1>3 DEF Sends

LEMMA RunnerOnward ==
    ASSUME IInv, TypeOK', NEW p, Mild(p), NEW q \in Runners, q # p, Same(q)
    PROVE  RunnerInv(q)'
<1>1. RunnerInv(q) /\ q \in Procs /\ revision' = revision
  BY DEF IInv, RunnersInv, Procs, Mild, JobMild
<1>2. /\ rev[q] \in Revisions /\ on[q] \in Steps \cup {NoOne} /\ todo[q] \subseteq Steps
      /\ status \in Statuses /\ revision \in Revisions
      /\ \A s \in Steps : step[s] \in {"pending", "dispatching", "dispatched", "cancelled"}
  BY <1>1 DEF IInv, TypeOK
<1>3. LabelInv(q)'
  BY <1>1 DEF RunnerInv, LabelInv, Same
<1>4. LeaseInv(q)'
  BY <1>1 DEF RunnerInv, LeaseInv, Same, Mild, JobMild, LeaseMild
<1>5. \A s \in Steps : step[s] \notin {"pending", "cancelled"} =>
                          step'[s] \notin {"pending", "cancelled"}
  BY <1>2 DEF Mild, JobMild, Fences, Marks, Records
<1>6. \A s \in Steps : owner = q => step'[s] = step[s] \/ Fences(s)
  BY DEF Mild, JobMild
<1>7. owner' = q => owner = q
  BY <1>1 DEF Mild, LeaseMild
<1>8. p \in Runners => RunnerInv(p) /\ AloneInv(p, q) /\ AloneInv(q, p)
  BY DEF IInv, RunnersInv, AlonesInv
<1>9. WorkInv(q)'
  <2>1. rev'[q] = revision' =>
          /\ pc'[q] \in AtKey => step'[on'[q]] \notin {"pending", "cancelled"}
          /\ \A s \in todo'[q] : step'[s] \notin {"pending", "cancelled"}
    BY <1>1, <1>2, <1>5 DEF RunnerInv, WorkInv, LabelInv, Same
  <2>2. pc'[q] \in {"resend", "reflight"} => step'[on'[q]] = "dispatching"
    BY <1>1, <1>2, <1>6 DEF RunnerInv, WorkInv, LabelInv, LeaseInv, AtKey, Same, Fences
  <2>3. ASSUME pc'[q] \in Flying PROVE claim'[on'[q]][rev'[q]] = "sent"
    <3>1. on[q] \in Steps /\ claim[on[q]][rev[q]] = "sent" /\ pc[q] \in Flying
      BY <1>1, <2>3 DEF RunnerInv, WorkInv, LabelInv, AtKey, Flying, Same
    <3>2. ~(p \in Runners /\ pc[p] \in Flying /\ on[p] = on[q] /\ rev[p] = rev[q])
      BY <1>8, <3>1 DEF AloneInv
    <3> QED
      BY <1>2, <3>1, <3>2 DEF Mild, WorldMild, Same
  <2>4. ASSUME pc'[q] = "send", claim'[on'[q]][rev'[q]] = "none"
        PROVE  rev'[q] = revision' /\ step'[on'[q]] = "dispatching"
    <3>1. on[q] \in Steps /\ claim[on[q]][rev[q]] = "none" /\ pc[q] = "send"
      BY <1>1, <1>2, <2>4 DEF RunnerInv, LabelInv, AtKey, Same, Mild, WorldMild
    <3>2. rev[q] = revision /\ step[on[q]] = "dispatching"
      BY <1>1, <3>1 DEF RunnerInv, WorkInv
    <3>3. ~Records(p, on[q]) \/ p \notin Runners
      BY <1>8, <3>1, <3>2 DEF AloneInv, Records
    <3> QED
      BY <1>1, <3>1, <3>2, <3>3 DEF Mild, JobMild, Fences, Marks, Same
  <2> QED
    BY <2>1, <2>2, <2>3, <2>4 DEF WorkInv
<1>10. TruthInv(q)'
  <2>1. ASSUME pc'[q] = "send", owner' = q PROVE ~MayAppear(on[q], rev[q])'
    <3>1. on[q] \in Steps /\ pc[q] = "send" /\ ~MayAppear(on[q], rev[q])
      BY <1>1, <1>7, <2>1 DEF RunnerInv, LabelInv, TruthInv, AtKey, Same
    <3>2. ~Sends(p, on[q], rev[q])
      BY <1>1, <1>7, <1>8, <2>1, <3>1 DEF Sends, AloneInv, RunnerInv, LabelInv, LeaseInv
    <3> QED
      BY <1>2, <3>1, <3>2 DEF Mild, WorldMild, MayAppear, Same
  <2>2. ASSUME pc'[q] = "record", owner' = q, step'[on'[q]] = "dispatching", Fixed(got'[q])
        PROVE  ~MayAppear(on[q], rev[q])'
    <3>1. on[q] \in Steps /\ pc[q] = "record" /\ ~MayAppear(on[q], rev[q])
      BY <1>1, <1>6, <1>7, <2>2 DEF RunnerInv, LabelInv, TruthInv, AtKey, Same, Fences
    <3>2. ~Sends(p, on[q], rev[q])
      BY <1>1, <1>7, <1>8, <2>2, <3>1 DEF Sends, AloneInv, RunnerInv, LabelInv, LeaseInv
    <3> QED
      BY <1>2, <3>1, <3>2 DEF Mild, WorldMild, MayAppear, Same
  <2>3. ASSUME pc'[q] = "polled", owner' = q, step'[on'[q]] = "dispatched", Fixed(got'[q])
        PROVE  ~MayAppear(on[q], rev[q])'
    <3>1. on[q] \in Steps /\ step[on[q]] = "dispatched" /\ ~MayAppear(on[q], rev[q])
      BY <1>1, <1>6, <1>7, <2>3 DEF RunnerInv, LabelInv, TruthInv, AtKey, Same, Fences
    <3>2. ~Sends(p, on[q], rev[q])
      BY <1>2, <3>1, OnlyInFlight
    <3> QED
      BY <1>2, <3>1, <3>2 DEF Mild, WorldMild, MayAppear, Same
  <2>4. pc'[q] \in {"record", "polled"} /\ got'[q] = "published" =>
           post'[on'[q]][rev'[q]] = "public"
    BY <1>1, <1>2 DEF RunnerInv, LabelInv, TruthInv, AtKey, Same, Mild, WorldMild
  <2> QED
    BY <2>1, <2>2, <2>3, <2>4 DEF TruthInv, MayAppear
<1> QED
  BY <1>3, <1>4, <1>9, <1>10 DEF RunnerInv

LEMMA AloneOnward ==
    ASSUME IInv, NEW p, Mild(p), NEW q \in Runners, NEW o \in Runners, Same(q), Same(o)
    PROVE  AloneInv(q, o)'
<1>1. AloneInv(q, o) /\ RunnerInv(q) /\ rev[q] \in Revisions
  BY DEF IInv, AlonesInv, RunnersInv, TypeOK, Procs
<1>2. pc[q] = "record" => on[q] \in Steps
  BY <1>1 DEF RunnerInv, LabelInv, AtKey
<1> QED
  BY <1>1, <1>2 DEF AloneInv, Same, Mild, WorldMild

LEMMA StepsOnward ==
    ASSUME IInv, TypeOK', NEW p, Mild(p)
    PROVE  StepsInv'
<1> SUFFICES ASSUME NEW s \in Steps PROVE StepInv(s)'
  BY DEF StepsInv
<1>1. StepInv(s) /\ revision \in Revisions /\ revision' = revision
  BY DEF IInv, StepsInv, TypeOK, Mild, JobMild
<1>2. step'[s] # step[s] => Fences(s) \/ Marks(p, s) \/ Records(p, s)
  BY DEF Mild, JobMild
<1>3. step'[s] \in {"pending", "cancelled"} => claim'[s][revision] = "none"
  <2>1. step'[s] \in {"pending", "cancelled"} => step[s] \in {"pending", "cancelled"}
    BY <1>2 DEF Fences, Marks, Records
  <2> QED
    BY <1>1, <2>1 DEF StepInv, Mild, WorldMild
<1>4. step'[s] = "cancelled" => status' \in Stopped
  BY <1>1, <1>2 DEF StepInv, Fences, Marks, Records, Mild, JobMild
<1>5. step'[s] = "dispatched" => TrueResult(s)
  <2>1. CASE <<step[s], result[s]>>' # <<step[s], result[s]>>
    BY <2>1 DEF Mild, JobMild
  <2>2. CASE step'[s] = step[s] /\ result'[s] = result[s]
    <3>1. step[s] = "dispatched" => ~Sends(p, s, revision)
      BY <1>1, OnlyInFlight
    <3> QED
      BY <1>1, <2>2, <3>1 DEF StepInv, TrueResult, Mild, WorldMild, MayAppear
  <2> QED
    BY <2>1, <2>2
<1> QED
  BY <1>1, <1>3, <1>4, <1>5 DEF StepInv, TrueResult, MayAppear

(* Only a release or a cancellation decides that a job is over.            *)
StatusKept ==
    /\ status' = "cancelled" => status = "cancelled"
    /\ status' = "completed" /\ owner' = NoOne => status = "completed" /\ owner = NoOne

LEMMA QuietOnward ==
    ASSUME IInv, TypeOK', NEW p, Mild(p), status' = "cancelled" => status = "cancelled"
    PROVE  CancelledIsQuiet'
<1> SUFFICES ASSUME status' = "cancelled"
             PROVE  /\ \A s \in Steps : step'[s] # "dispatching"
                    /\ \A s \in Steps, r \in Revisions : post'[s][r] # "live"
  BY DEF CancelledIsQuiet
<1>1. /\ status = "cancelled" /\ \A s \in Steps : step[s] # "dispatching"
      /\ \A s \in Steps, r \in Revisions : post[s][r] # "live"
  BY DEF CancelledIsQuiet, IInv
<1>2. \A s \in Steps : step'[s] # "dispatching"
  BY <1>1 DEF Mild, JobMild, Fences, Marks, Records, Stopped
<1>3. \A s \in Steps, r \in Revisions : post'[s][r] # "live"
  BY <1>1, OnlyInFlight DEF Mild, WorldMild, MayAppear
<1> QED
  BY <1>2, <1>3

LEMMA OverOnward ==
    ASSUME IInv, TypeOK', NEW p, Mild(p), p # NoOne,
           status' = "completed" /\ owner' = NoOne => status = "completed" /\ owner = NoOne
    PROVE  CompletedIsOver'
<1> SUFFICES ASSUME status' = "completed", owner' = NoOne
             PROVE  /\ blocked' = "none"
                    /\ \A s \in Steps : step'[s] = "dispatched" /\ ~Unresolved(result'[s])
                    /\ \A s \in Steps, r \in Revisions : post'[s][r] # "live"
  BY DEF CompletedIsOver, hasUnresolved
<1>1. /\ blocked = "none" /\ owner = NoOne
      /\ \A s \in Steps : step[s] = "dispatched" /\ ~Unresolved(result[s])
      /\ \A s \in Steps, r \in Revisions : post[s][r] # "live"
  BY DEF CompletedIsOver, IInv
<1>2. blocked' = "none"
  BY <1>1 DEF Mild, JobMild
<1>3. \A s \in Steps : step'[s] = "dispatched" /\ ~Unresolved(result'[s])
  BY <1>1 DEF Mild, JobMild, Fences, Fixed, Unresolved
<1>4. \A s \in Steps, r \in Revisions : post'[s][r] # "live"
  BY <1>1, OnlyInFlight DEF Mild, WorldMild, MayAppear
<1> QED
  BY <1>2, <1>3, <1>4

LEMMA CallerOnward ==
    ASSUME IInv, TypeOK', NEW p, Mild(p), NEW q \in Callers, q # p, Same(q)
    PROVE  CallerInv(q)'
<1>1. CallerInv(q) /\ q \in Procs /\ revision' = revision
  BY DEF IInv, CallersInv, Procs, Mild, JobMild
<1>2. /\ rev[q] \in Revisions /\ todo[q] \subseteq Steps /\ touched[q] \subseteq Steps
      /\ status \in Statuses /\ revision \in Revisions
      /\ \A s \in Steps : step[s] \in {"pending", "dispatching", "dispatched", "cancelled"}
  BY <1>1 DEF IInv, TypeOK
<1>3. owner' = q => owner = q
  BY <1>1 DEF Mild, LeaseMild
<1>4. \A s \in Steps : owner = q => step'[s] = step[s] \/ Fences(s)
  BY DEF Mild, JobMild
<1>5. \A s \in Steps, r \in Revisions :
         MayAppear(s, r)' => MayAppear(s, r) \/ (step[s] = "dispatching" /\ r = revision)
  BY OnlyInFlight DEF Mild, WorldMild
<1>6. ASSUME owner' = q, status' \notin Stopped
      PROVE  /\ status \notin Stopped
             /\ \A s \in Steps : /\ step'[s] = step[s]
                                 /\ result'[s] = result[s] \/ Fixed(result'[s])
             /\ \A l \in Lanes : mode'[l] = mode[l]
  BY <1>3, <1>4, <1>6 DEF Mild, JobMild, Fences
<1>7. MoverInv(q)'
  <2>1. ASSUME owner' = q
        PROVE  /\ \A s \in Steps : step'[s] # "dispatching"
               /\ revision' < MaxRevision /\ status' # "completed" /\ rev'[q] = revision'
               /\ kind'[q] = "reschedule" /\ pc'[q] # "idle"
    <3>1. \A s \in Steps : step'[s] # "dispatching"
      BY <1>1, <1>3, <1>4, <2>1 DEF CallerInv, MoverInv, Fences
    <3>2. status' # "completed"
      BY <1>1, <1>3, <2>1 DEF CallerInv, MoverInv, Mild, JobMild
    <3> QED
      BY <1>1, <1>3, <2>1, <3>1, <3>2 DEF CallerInv, MoverInv, Same
  <2>2. ASSUME owner' = q, pc'[q] = "check"
        PROVE  /\ touched'[q] = {} /\ \A s \in todo'[q] : step'[s] = "dispatched"
               /\ status' \notin Stopped =>
                     \A s \in Steps : Quieted(q, s)' /\ (step'[s] = "dispatched" => Native(s)')
    <3>1. owner = q /\ pc[q] = "check"
      BY <1>3, <2>2 DEF Same
    <3>2. touched'[q] = {} /\ \A s \in todo'[q] : step'[s] = "dispatched"
      BY <1>1, <1>2, <1>4, <3>1 DEF CallerInv, MoverInv, Same, Fences
    <3>3. ASSUME status' \notin Stopped, NEW s \in Steps
          PROVE  Quieted(q, s)' /\ (step'[s] = "dispatched" => Native(s)')
      <4>1. Quieted(q, s) /\ (step[s] = "dispatched" => Native(s)) /\ s[1] \in Lanes
        BY <1>1, <1>6, <2>2, <3>1, <3>3 DEF CallerInv, MoverInv, Steps
      <4> QED
        BY <1>6, <2>2, <3>3, <4>1 DEF Quieted, Native, Same
    <3> QED
      BY <3>2, <3>3
  <2>3. ASSUME owner' = q, pc'[q] = "withdraw", status' \notin Stopped, NEW s \in Steps
        PROVE  Quieted(q, s)' \/ unsure'[q]
    <3>1. Quieted(q, s) \/ unsure[q]
      BY <1>1, <1>3, <1>6, <2>3 DEF CallerInv, MoverInv, Same
    <3> QED
      BY <1>6, <2>3, <3>1 DEF Quieted, Same
  <2>4. ASSUME owner' = q, pc'[q] = "move", status' \notin Stopped, NEW s \in Steps
        PROVE  ~MayAppear(s, revision)'
    BY <1>1, <1>2, <1>3, <1>5, <1>6, <2>4 DEF CallerInv, MoverInv, MayAppear, Same
  <2> QED
    BY <2>1, <2>2, <2>3, <2>4 DEF MoverInv
<1>8. WithdrawInv(q)'
  <2>1. ASSUME pc'[q] = "withdraw", rev'[q] = revision'
        PROVE  /\ status' \in Stopped \/ blocked' = "interrupted"
               /\ \A s \in todo'[q] \cup touched'[q] : step'[s] = "dispatched"
               /\ \A s \in touched'[q] : ~MayAppear(s, revision)'
    <3>1. /\ status \in Stopped \/ blocked = "interrupted"
          /\ \A s \in todo[q] \cup touched[q] : step[s] = "dispatched"
          /\ \A s \in touched[q] : ~MayAppear(s, revision)
      BY <1>1, <2>1 DEF CallerInv, WithdrawInv, Same
    <3>2. status' \in Stopped \/ blocked' = "interrupted"
      BY <3>1 DEF Mild, JobMild
    <3>3. \A s \in Steps : step[s] = "dispatched" => step'[s] = "dispatched"
      BY <3>1 DEF Mild, JobMild, Fences, Marks, Records
    <3>4. \A s \in touched'[q] : ~MayAppear(s, revision)'
      BY <1>1, <1>2, <1>5, <3>1 DEF MayAppear, Same
    <3> QED
      BY <1>2, <3>1, <3>2, <3>3, <3>4 DEF Same
  <2>2. pc'[q] = "withdraw" /\ kind'[q] = "cancel" => rev'[q] = revision' /\ status' \in Stopped
    BY <1>1 DEF CallerInv, WithdrawInv, Same, Mild, JobMild
  <2>3. ASSUME pc'[q] = "withdraw", kind'[q] = "cancel", ~unsure'[q], NEW s \in Steps
        PROVE  step'[s] # "dispatching" /\ (s \in todo'[q] \/ post'[s][revision'] # "live")
    <3>1. /\ step[s] # "dispatching" /\ (s \in todo[q] \/ post[s][revision] # "live")
          /\ status \in Stopped
      BY <1>1, <2>3 DEF CallerInv, WithdrawInv, Same
    <3>2. step'[s] # "dispatching"
      BY <3>1 DEF Mild, JobMild, Fences, Marks, Records
    <3>3. post[s][revision] # "live" => post'[s][revision] # "live"
      BY <1>2, <1>5, <3>1 DEF MayAppear, Mild, WorldMild
    <3> QED
      BY <1>1, <3>1, <3>2, <3>3 DEF Same
  <2> QED
    BY <1>1, <2>1, <2>2, <2>3 DEF WithdrawInv, CallerInv, Same
<1> QED
  BY <1>1, <1>2, <1>7, <1>8 DEF CallerInv, Same

-----------------------------------------------------------------------------
(* What has to be shown of a step of a runner, of a caller and of the      *)
(* environment.                                                            *)

Others(p) == \A q \in Procs \ {p} : Same(q)

LEMMA RunnerFits ==
    ASSUME IInv, TypeOK', NEW p \in Runners, Mild(p), Others(p), KeysInv', RunnerInv(p)',
           \A q \in Runners : AloneInv(p, q)' /\ AloneInv(q, p)',
           CancelledIsQuiet', CompletedIsOver'
    PROVE  IInv'
<1>1. p \in Procs /\ p \notin Callers
  BY SchedulerAssumption DEF Procs
<1>2. \A q \in Procs \ {p} : Same(q)
  BY DEF Others
<1>3. RunnersInv'
  BY <1>2, RunnerOnward DEF RunnersInv, Procs
<1>4. CallersInv'
  BY <1>1, <1>2, CallerOnward DEF CallersInv, Procs
<1>5. AlonesInv'
  BY <1>2, AloneOnward DEF AlonesInv, Procs
<1>6. StepsInv'
  BY StepsOnward
<1> QED
  BY <1>3, <1>4, <1>5, <1>6 DEF IInv

RunnerKept(p) ==
    /\ Mild(p) /\ Others(p) /\ StatusKept /\ KeysInv' /\ RunnerInv(p)'
    /\ \A q \in Runners : AloneInv(p, q)' /\ AloneInv(q, p)'

LEMMA RunnerKeeps ==
    ASSUME IInv, TypeOK', NEW p \in Runners, RunnerKept(p)
    PROVE  IInv'
<1>1. p # NoOne
  BY SchedulerAssumption DEF Procs
<1>2. CancelledIsQuiet' /\ CompletedIsOver'
  BY <1>1, QuietOnward, OverOnward DEF RunnerKept, StatusKept
<1> QED
  BY <1>2, RunnerFits DEF RunnerKept

CallerKept(p) ==
    /\ Mild(p) /\ Others(p) /\ KeysInv' /\ CallerInv(p)'
    /\ status' = "completed" /\ owner' = NoOne => status = "completed" /\ owner = NoOne

LEMMA CallerKeeps ==
    ASSUME IInv, TypeOK', NEW p \in Callers, CallerKept(p), CancelledIsQuiet'
    PROVE  IInv'
<1>1. p \in Procs /\ p \notin Runners /\ p # NoOne
  BY SchedulerAssumption DEF Procs
<1>2. \A q \in Procs \ {p} : Same(q)
  BY DEF CallerKept, Others
<1>3. RunnersInv'
  BY <1>1, <1>2, RunnerOnward DEF RunnersInv, CallerKept, Procs
<1>4. CallersInv'
  BY <1>2, CallerOnward DEF CallersInv, CallerKept, Procs
<1>5. AlonesInv'
  BY <1>1, <1>2, AloneOnward DEF AlonesInv, CallerKept, Procs
<1>6. StepsInv' /\ CompletedIsOver'
  BY <1>1, StepsOnward, OverOnward DEF CallerKept
<1> QED
  BY <1>3, <1>4, <1>5, <1>6 DEF IInv, CallerKept

(* The environment holds no lease and makes no call.                       *)
LEMMA WorldKeeps ==
    ASSUME IInv, TypeOK', Mild(Gone), KeysInv', StatusKept, UNCHANGED locals
    PROVE  IInv'
<1>1. Gone \notin Procs /\ Gone # NoOne
  BY SchedulerAssumption
<1>2. \A q \in Procs : Same(q) /\ q # Gone
  BY <1>1 DEF Same, locals
<1>3. RunnersInv' /\ CallersInv'
  BY <1>2, RunnerOnward, CallerOnward DEF RunnersInv, CallersInv, Procs
<1>4. AlonesInv'
  BY <1>2, AloneOnward DEF AlonesInv, Procs
<1>5. StepsInv' /\ CancelledIsQuiet' /\ CompletedIsOver'
  BY <1>1, StepsOnward, QuietOnward, OverOnward DEF StatusKept
<1> QED
  BY <1>3, <1>4, <1>5 DEF IInv

-----------------------------------------------------------------------------
(* The locals after the usual ends of an action.                           *)

Idled(p) ==
    /\ pc'[p] = "idle" /\ kind'[p] = "none" /\ phase'[p] = "none" /\ todo'[p] = {}
    /\ touched'[p] = {} /\ on'[p] = NoOne /\ rev'[p] = 0 /\ got'[p] = "none"

LEMMA Finished ==
    ASSUME LocalsTyped, NEW p \in Procs, Finish(p)
    PROVE  LocalsTyped' /\ Others(p) /\ Idled(p)
<1>1. LocalsTyped'
  BY SchedulerAssumption DEF LocalsTyped, Finish, Goto, Labels, Phases, Outcomes, Revisions
<1> QED
  BY <1>1 DEF LocalsTyped, Finish, Goto, Others, Same, Idled

LEMMA Releasing ==
    ASSUME LocalsTyped, NEW p \in Procs, ToRelease(p)
    PROVE  /\ LocalsTyped' /\ Others(p) /\ UNCHANGED <<job, lease, world>>
           /\ pc'[p] = "release" /\ phase'[p] = "none" /\ todo'[p] = {} /\ touched'[p] = {}
           /\ on'[p] = NoOne /\ rev'[p] = 0 /\ got'[p] = "none"
<1>1. LocalsTyped'
  BY SchedulerAssumption
  DEF LocalsTyped, ToRelease, Goto, Labels, Phases, Outcomes, Revisions
<1> QED
  BY <1>1 DEF LocalsTyped, ToRelease, Goto, Others, Same

LEMMA Polling ==
    ASSUME JobTyped, LocalsTyped, NEW p \in Procs, ToPoll(p),
           UNCHANGED <<kind, touched, got, unsure, saw>>
    PROVE  /\ LocalsTyped' /\ Others(p)
           /\ pc'[p] = "next" /\ phase'[p] = "poll" /\ rev'[p] = revision /\ on'[p] = NoOne
           /\ got'[p] = got[p] /\ \A s \in todo'[p] : s \in Steps /\ step[s] = "dispatched"
<1>1. todo' \in [Procs -> SUBSET Steps] /\ todo'[p] \subseteq {s \in Steps : hasUnresolved(s)}
  BY DEF ToPoll, LocalsTyped
<1>2. LocalsTyped'
  BY <1>1 DEF JobTyped, LocalsTyped, ToPoll, Goto, Labels, Phases, Outcomes
<1> QED
  BY <1>1, <1>2 DEF LocalsTyped, ToPoll, Goto, Others, Same, hasUnresolved

LEMMA KeysUntouched ==
    ASSUME KeysInv, UNCHANGED <<claim, post, revision>>
    PROVE  KeysInv'
BY DEF KeysInv, KeyInv, MayAppear

-----------------------------------------------------------------------------
(* Runners: the loop.                                                      *)

LEMMA Unseen ==
    ASSUME IInv, NEW p, LocalsTyped', UNCHANGED <<job, lease, world>>
    PROVE  TypeOK' /\ Mild(p) /\ StatusKept /\ KeysInv'
<1>1. TypeOK'
  BY TypeParts, JobTypeKept, WorldTypeKept
  DEF IInv, TypeOK, JobTyped, LeaseTyped, WorldTyped, LocalsTyped, job, lease, world
<1>2. Mild(p) /\ StatusKept /\ KeysInv'
  BY JobUntouched, LeaseUntouched, WorldUntouched, KeysUntouched
  DEF IInv, Mild, StatusKept, job, lease, world
<1> QED
  BY <1>1, <1>2

(* A step that changes what its runner keeps, and nothing else.            *)
LEMMA LocalStep ==
    ASSUME IInv, NEW p \in Runners, LocalsTyped', Others(p), RunnerInv(p)',
           UNCHANGED <<job, lease, world>>, pc'[p] \notin AtKey
    PROVE  IInv'
<1>1. TypeOK' /\ Mild(p) /\ StatusKept /\ KeysInv'
  BY Unseen
<1>2. \A q \in Runners : AloneInv(p, q)' /\ AloneInv(q, p)'
  BY DEF AloneInv, AtKey, Flying
<1> QED
  BY <1>1, <1>2, RunnerKeeps DEF RunnerKept

LEMMA NextPhaseStep == ASSUME IInv, NEW p \in Runners, NextPhase(p) PROVE IInv'
<1>1. RunnerInv(p) /\ p \in Procs /\ pc[p] = "next" /\ todo[p] = {}
  BY DEF IInv, RunnersInv, Procs, NextPhase
<1>2. LocalsTyped /\ JobTyped /\ UNCHANGED <<job, lease, world>>
  BY TypeParts DEF IInv, NextPhase
<1>3. CASE ToPoll(p)
  <2>1. /\ LocalsTyped' /\ Others(p) /\ pc'[p] = "next" /\ phase'[p] = "poll"
        /\ rev'[p] = revision /\ got'[p] = got[p]
        /\ \A s \in todo'[p] : s \in Steps /\ step[s] = "dispatched"
    BY <1>1, <1>2, <1>3, Polling DEF NextPhase
  <2>2. RunnerInv(p)'
    BY <1>1, <1>2, <2>1
    DEF RunnerInv, LabelInv, LeaseInv, WorkInv, TruthInv, AtKey, Flying, job, lease, JobTyped,
        Revisions
  <2> QED
    BY <1>2, <2>1, <2>2, LocalStep DEF AtKey
<1>4. CASE phase' = [phase EXCEPT ![p] = "advance"] /\ UNCHANGED <<pc, todo, rev, on>>
  <2>1. LocalsTyped'
    BY <1>2, <1>4 DEF LocalsTyped, NextPhase, Phases
  <2>2. Others(p) /\ phase'[p] = "advance"
    BY <1>1, <1>2, <1>4 DEF LocalsTyped, NextPhase, Others, Same
  <2>3. RunnerInv(p)'
    BY <1>1, <1>2, <1>4, <2>2
    DEF RunnerInv, LabelInv, LeaseInv, WorkInv, TruthInv, AtKey, Flying, job, lease, NextPhase
  <2> QED
    BY <1>1, <1>2, <1>4, <2>1, <2>2, <2>3, LocalStep DEF AtKey
<1> QED
  BY <1>3, <1>4 DEF NextPhase

LEMMA ReleaseAtLast ==
    ASSUME IInv, NEW p \in Runners, pc[p] # "idle", ToRelease(p) PROVE IInv'
<1>1. RunnerInv(p) /\ p \in Procs /\ LocalsTyped /\ revision \in Nat
  BY TypeParts DEF IInv, RunnersInv, Procs, TypeOK, Revisions
<1>2. /\ LocalsTyped' /\ Others(p) /\ UNCHANGED <<job, lease, world>>
      /\ pc'[p] = "release" /\ phase'[p] = "none" /\ todo'[p] = {}
      /\ rev'[p] = 0 /\ got'[p] = "none"
  BY <1>1, Releasing
<1>3. RunnerInv(p)'
  BY <1>1, <1>2
  DEF RunnerInv, LabelInv, LeaseInv, WorkInv, TruthInv, AtKey, Flying, job, lease
<1> QED
  BY <1>2, <1>3, LocalStep DEF AtKey

LEMMA AdvanceStep == ASSUME IInv, NEW p \in Runners, Advance(p) PROVE IInv'
<1>1. RunnerInv(p) /\ p \in Procs /\ pc[p] = "next" /\ phase[p] = "advance"
  BY DEF IInv, RunnersInv, Procs, Advance
<1>2. LocalsTyped /\ JobTyped /\ UNCHANGED <<job, lease, world>>
  BY TypeParts DEF IInv, Advance
<1>3. CASE ToPoll(p)
  <2>1. /\ LocalsTyped' /\ Others(p) /\ pc'[p] = "next" /\ phase'[p] = "poll"
        /\ rev'[p] = revision /\ got'[p] = got[p]
        /\ \A s \in todo'[p] : s \in Steps /\ step[s] = "dispatched"
    BY <1>1, <1>2, <1>3, Polling DEF Advance
  <2>2. RunnerInv(p)'
    BY <1>1, <1>2, <2>1
    DEF RunnerInv, LabelInv, LeaseInv, WorkInv, TruthInv, AtKey, Flying, job, lease, JobTyped,
        Revisions
  <2> QED
    BY <1>2, <2>1, <2>2, LocalStep DEF AtKey
<1>4. ASSUME MayAdvance(p), NEW s \in Steps, on' = [on EXCEPT ![p] = s],
             \/ MustRecover(s) /\ Goto(p, "recover")
             \/ Goto(p, "preflight"),
             rev' = [rev EXCEPT ![p] = revision], UNCHANGED <<phase, todo>>
      PROVE  IInv'
  <2>1. UNCHANGED <<kind, touched, got, unsure, saw>>
    BY DEF Advance
  <2>2. LocalsTyped'
    BY <1>2, <1>4, <2>1 DEF LocalsTyped, JobTyped, Goto, Labels
  <2>3. Others(p) /\ on'[p] = s /\ rev'[p] = revision /\ pc'[p] \in {"recover", "preflight"}
        /\ (pc'[p] = "recover" => step[s] = "dispatching")
    BY <1>1, <1>2, <1>4, <2>1 DEF LocalsTyped, Goto, Others, Same, MustRecover
  <2>4. RunnerInv(p)'
    BY <1>1, <1>2, <1>4, <2>1, <2>3
    DEF RunnerInv, LabelInv, LeaseInv, WorkInv, TruthInv, AtKey, Flying, job, lease, JobTyped,
        Revisions, MayAdvance
  <2>5. TypeOK' /\ Mild(p) /\ StatusKept /\ KeysInv'
    BY <1>2, <2>2, Unseen
  <2>6. \A q \in Runners : AloneInv(p, q)' /\ AloneInv(q, p)'
    BY <2>3 DEF AloneInv, Flying
  <2> QED
    BY <2>3, <2>4, <2>5, <2>6, RunnerKeeps DEF RunnerKept
<1> QED
  BY <1>3, <1>4 DEF Advance

-----------------------------------------------------------------------------
(* Runners: what they write into the record.                               *)

LEMMA RunnerActs ==
    ASSUME IInv, NEW p \in Runners, JobTyped', WorldTyped', LocalsTyped',
           UNCHANGED <<status, lease>>, JobMild(p), WorldMild(p), KeysInv', Others(p),
           RunnerInv(p)', \A q \in Runners : AloneInv(p, q)' /\ AloneInv(q, p)'
    PROVE  IInv'
<1>1. LeaseTyped'
  BY TypeParts DEF IInv, LeaseTyped, lease
<1>2. TypeOK'
  BY <1>1, TypeParts DEF TypeOK, JobTyped, LeaseTyped, WorldTyped, LocalsTyped
<1>3. Mild(p) /\ StatusKept
  BY LeaseUntouched DEF Mild, StatusKept, lease
<1> QED
  BY <1>2, <1>3, RunnerKeeps DEF RunnerKept

(* The claims and the copies stay, and the runner leaves its key.          *)
LEMMA RunnerWrites ==
    ASSUME IInv, NEW p \in Runners, JobTyped', LocalsTyped', UNCHANGED <<status, lease, world>>,
           JobMild(p), Others(p), RunnerInv(p)', pc'[p] \notin AtKey
    PROVE  IInv'
<1>1. WorldTyped' /\ WorldMild(p) /\ KeysInv'
  BY TypeParts, WorldTypeKept, WorldUntouched, KeysUntouched DEF IInv, JobMild, world
<1>2. \A q \in Runners : AloneInv(p, q)' /\ AloneInv(q, p)'
  BY DEF AloneInv, AtKey, Flying
<1> QED
  BY <1>1, <1>2, RunnerActs

LEMMA PreflightFailsStep == ASSUME IInv, NEW p \in Runners, PreflightFails(p) PROVE IInv'
<1>1. RunnerInv(p) /\ p \in Procs /\ pc[p] = "preflight" /\ phase[p] = "advance"
  BY DEF IInv, RunnersInv, Procs, PreflightFails, RunnerInv, LabelInv
<1>2. LocalsTyped /\ JobTyped
  BY TypeParts DEF IInv
<1>3. /\ LocalsTyped' /\ Others(p) /\ pc'[p] = "next" /\ phase'[p] = "poll"
      /\ rev'[p] = revision /\ got'[p] = got[p]
      /\ \A s \in todo'[p] : s \in Steps /\ step[s] = "dispatched"
  BY <1>1, <1>2, Polling DEF PreflightFails
<1>4. JobTyped' /\ JobMild(p)
  BY <1>1, <1>2 DEF PreflightFails, JobTyped, JobMild, RunnerInv, LeaseInv, Leased
<1>5. RunnerInv(p)'
  BY <1>1, <1>2, <1>3
  DEF RunnerInv, LabelInv, LeaseInv, WorkInv, TruthInv, AtKey, Flying, lease, JobTyped,
      Revisions, PreflightFails
<1> QED
  BY <1>3, <1>4, <1>5, RunnerWrites DEF AtKey, PreflightFails

LEMMA ConvertStep == ASSUME IInv, NEW p \in Runners, Convert(p) PROVE IInv'
<1>1. /\ RunnerInv(p) /\ p \in Procs /\ pc[p] = "preflight" /\ phase[p] = "advance"
      /\ on[p] \in Steps /\ on[p][1] \in Lanes
  BY DEF IInv, RunnersInv, Procs, Convert, RunnerInv, LabelInv, Steps
<1>2. LocalsTyped /\ JobTyped
  BY TypeParts DEF IInv
<1>3. LocalsTyped'
  BY <1>2 DEF LocalsTyped, Convert, Back, Goto, Labels
<1>4. Others(p) /\ pc'[p] = "next"
  BY <1>1, <1>2 DEF LocalsTyped, Convert, Back, Goto, Others, Same
<1>5. JobTyped' /\ JobMild(p)
  BY <1>1, <1>2 DEF Convert, JobTyped, JobMild, Leased
<1>6. RunnerInv(p)'
  BY <1>1, <1>2, <1>4
  DEF RunnerInv, LabelInv, LeaseInv, WorkInv, TruthInv, AtKey, Flying, lease, Convert
<1> QED
  BY <1>3, <1>4, <1>5, <1>6, RunnerWrites DEF AtKey, Convert

LEMMA RecoverFailsStep == ASSUME IInv, NEW p \in Runners, RecoverFails(p) PROVE IInv'
<1>1. RunnerInv(p) /\ p \in Procs /\ pc[p] = "recover"
  BY DEF IInv, RunnersInv, Procs, RecoverFails
<1>2. LocalsTyped /\ JobTyped
  BY TypeParts DEF IInv
<1>3. LocalsTyped'
  BY <1>2 DEF LocalsTyped, RecoverFails, Back, Goto, Got, Labels, Outcomes
<1>4. Others(p) /\ pc'[p] = "next" /\ got'[p] = "none"
  BY <1>1, <1>2 DEF LocalsTyped, RecoverFails, Back, Goto, Got, Others, Same
<1>5. JobTyped' /\ JobMild(p)
  BY <1>1, <1>2 DEF RecoverFails, JobTyped, JobMild, RunnerInv, LeaseInv, Leased
<1>6. RunnerInv(p)'
  BY <1>1, <1>2, <1>4
  DEF RunnerInv, LabelInv, LeaseInv, WorkInv, TruthInv, AtKey, Flying, lease, RecoverFails
<1> QED
  BY <1>3, <1>4, <1>5, <1>6, RunnerWrites DEF AtKey, RecoverFails

LEMMA RecordStep == ASSUME IInv, NEW p \in Runners, Record(p) PROVE IInv'
<1>1. RunnerInv(p) /\ p \in Procs /\ pc[p] = "record" /\ on[p] \in Steps /\ got[p] # "none"
  BY DEF IInv, RunnersInv, Procs, Record, RunnerInv, LabelInv, AtKey
<1>2. LocalsTyped /\ JobTyped
  BY TypeParts DEF IInv
<1>3. LocalsTyped'
  BY <1>2 DEF LocalsTyped, Record, Back, Goto, Got, Labels, Outcomes
<1>4. Others(p) /\ pc'[p] = "next" /\ got'[p] = "none"
  BY <1>1, <1>2 DEF LocalsTyped, Record, Back, Goto, Got, Others, Same
<1>5. got[p] \in Outcomes /\ 0 \in 0 .. MaxPolls
  BY <1>1, <1>2, SchedulerAssumption DEF LocalsTyped
<1>6. /\ \A s \in Steps : /\ <<step[s], result[s]>>' = <<step[s], result[s]>>
                          \/ /\ s = on[p] /\ owner = p /\ Records(p, s)
                             /\ result'[s] = got[p]
      /\ rev[p] \in Revisions
  BY <1>1, <1>2 DEF Record, JobTyped, LocalsTyped, Leased, Records, RunnerInv, LeaseInv
<1>7. JobTyped'
  BY <1>1, <1>2, <1>5, <1>6 DEF Record, JobTyped, Records
<1>8. JobMild(p)
  <2>1. ASSUME NEW s \in Steps, <<step[s], result[s]>>' # <<step[s], result[s]>>
        PROVE  TrueResult(s)
    <3>1. /\ s = on[p] /\ owner = p /\ step[s] = "dispatching" /\ result'[s] = got[p]
          /\ rev[p] = revision /\ UNCHANGED <<post, revision>>
      BY <1>6, <2>1 DEF Records, Record, world
    <3> QED
      BY <1>1, <3>1 DEF RunnerInv, TruthInv, TrueResult, MayAppear
  <2> QED
    BY <1>1, <1>6, <2>1 DEF Record, JobMild
<1>9. RunnerInv(p)'
  BY <1>1, <1>2, <1>4, <1>6
  DEF RunnerInv, LabelInv, LeaseInv, WorkInv, TruthInv, AtKey, Flying, lease, Record, Records,
      LocalsTyped
<1> QED
  BY <1>3, <1>4, <1>7, <1>8, <1>9, RunnerWrites DEF AtKey, Record

LEMMA RecordPollStep == ASSUME IInv, NEW p \in Runners, RecordPoll(p) PROVE IInv'
<1>1. RunnerInv(p) /\ p \in Procs /\ pc[p] = "polled" /\ on[p] \in Steps
  BY DEF IInv, RunnersInv, Procs, RecordPoll, RunnerInv, LabelInv, AtKey
<1>2. LocalsTyped /\ JobTyped
  BY TypeParts DEF IInv
<1>3. LocalsTyped'
  BY <1>2 DEF LocalsTyped, RecordPoll, Back, Goto, Got, Labels, Outcomes
<1>4. Others(p) /\ pc'[p] = "next" /\ got'[p] = "none"
  BY <1>1, <1>2 DEF LocalsTyped, RecordPoll, Back, Goto, Got, Others, Same
<1>5. \A s \in Steps : \/ result'[s] = result[s]
                       \/ /\ s = on[p] /\ owner = p /\ step[s] = "dispatched"
                          /\ got[p] # "none" /\ result'[s] = got[p]
  BY <1>1, <1>2 DEF RecordPoll, JobTyped, LocalsTyped, Leased, Polled
<1>6. JobTyped'
  <2>1. got[p] \in Outcomes \cup {"none"} /\ MaxPolls \in Nat
    BY <1>1, <1>2, SchedulerAssumption DEF LocalsTyped
  <2>2. polls' \in [Steps -> 0 .. MaxPolls]
    BY <1>1, <1>2, <2>1 DEF RecordPoll, JobTyped
  <2>3. result' \in [Steps -> Outcomes \cup {"none"}]
    BY <1>1, <1>2, <2>1 DEF RecordPoll, JobTyped, Polled
  <2> QED
    BY <1>1, <1>2, <1>5, <2>2, <2>3 DEF RecordPoll, JobTyped
<1>7. JobMild(p)
  <2>1. ASSUME NEW s \in Steps, <<step[s], result[s]>>' # <<step[s], result[s]>>
        PROVE  TrueResult(s)
    <3>1. /\ s = on[p] /\ owner = p /\ step[s] = "dispatched" /\ result'[s] = got[p]
          /\ UNCHANGED <<post, revision>>
      BY <1>5, <2>1 DEF RecordPoll, world
    <3>2. rev[p] = revision
      BY <1>1, <3>1 DEF RunnerInv, LeaseInv
    <3> QED
      BY <1>1, <3>1, <3>2 DEF RunnerInv, TruthInv, TrueResult, MayAppear
  <2> QED
    BY <1>1, <1>5, <2>1 DEF RecordPoll, JobMild
<1>8. RunnerInv(p)'
  BY <1>1, <1>2, <1>4
  DEF RunnerInv, LabelInv, LeaseInv, WorkInv, TruthInv, AtKey, Flying, lease, RecordPoll
<1> QED
  BY <1>3, <1>4, <1>6, <1>7, <1>8, RunnerWrites DEF AtKey, RecordPoll

LEMMA MarkStep == ASSUME IInv, NEW p \in Runners, MarkDispatching(p) PROVE IInv'
<1>1. /\ RunnerInv(p) /\ p \in Procs /\ pc[p] = "preflight" /\ phase[p] = "advance"
      /\ on[p] \in Steps
  BY DEF IInv, RunnersInv, Procs, MarkDispatching, RunnerInv, LabelInv
<1>2. LocalsTyped /\ JobTyped /\ WorldTyped
  BY TypeParts DEF IInv
<1>3. UNCHANGED <<status, blocked, revision, mode, result, polls, lease, world>>
  BY DEF MarkDispatching
<1>4. CASE ToPoll(p) /\ UNCHANGED step
  <2>1. /\ LocalsTyped' /\ Others(p) /\ pc'[p] = "next" /\ phase'[p] = "poll"
        /\ rev'[p] = revision /\ got'[p] = got[p]
        /\ \A s \in todo'[p] : s \in Steps /\ step[s] = "dispatched"
    BY <1>1, <1>2, <1>4, Polling DEF MarkDispatching
  <2>2. RunnerInv(p)'
    BY <1>1, <1>2, <1>3, <1>4, <2>1
    DEF RunnerInv, LabelInv, LeaseInv, WorkInv, TruthInv, AtKey, Flying, lease, JobTyped,
        Revisions
  <2>3. UNCHANGED <<job, lease, world>>
    BY <1>3, <1>4 DEF job, MarkDispatching
  <2> QED
    BY <2>1, <2>2, <2>3, LocalStep DEF AtKey
<1>5. CASE /\ MayMark(p, on[p], "pending") /\ step' = [step EXCEPT ![on[p]] = "dispatching"]
           /\ rev' = [rev EXCEPT ![p] = revision] /\ Goto(p, "send")
           /\ UNCHANGED <<phase, todo, on>>
  <2>1. owner = p /\ status \notin Stopped /\ step[on[p]] = "pending"
    BY <1>5 DEF MayMark, Leased
  <2>2. /\ \A s \in Steps : step'[s] = IF s = on[p] THEN "dispatching" ELSE step[s]
        /\ claim[on[p]][revision] = "none" /\ post[on[p]][revision] = "absent"
    BY <1>1, <1>2, <1>5, <2>1
    DEF JobTyped, IInv, StepsInv, StepInv, KeysInv, KeyInv
  <2>3. LocalsTyped'
    BY <1>2, <1>5 DEF LocalsTyped, JobTyped, MarkDispatching, Goto, Labels
  <2>4. Others(p) /\ pc'[p] = "send" /\ rev'[p] = revision /\ UNCHANGED <<got, on, phase, todo>>
    BY <1>1, <1>2, <1>5 DEF LocalsTyped, MarkDispatching, Goto, Others, Same
  <2>5. JobTyped' /\ JobMild(p)
    <3>1. JobTyped'
      BY <1>1, <1>2, <1>5, <2>1, <2>2 DEF MarkDispatching, JobTyped
    <3>2. JobMild(p)
      BY <1>3, <2>1, <2>2 DEF JobMild, Marks
    <3> QED
      BY <3>1, <3>2
  <2>6. RunnerInv(p)'
    BY <1>1, <1>2, <1>3, <2>1, <2>2, <2>4
    DEF RunnerInv, LabelInv, LeaseInv, WorkInv, TruthInv, AtKey, Flying, lease, JobTyped, world,
        Revisions, MayAppear
  <2>7. ASSUME NEW q \in Runners PROVE AloneInv(p, q)' /\ AloneInv(q, p)'
    <3>1. q # p => Same(q) /\ RunnerInv(q)
      BY <2>4 DEF Others, IInv, RunnersInv, Procs
    <3> QED
      BY <1>3, <2>1, <2>2, <2>4, <3>1
      DEF AloneInv, Same, RunnerInv, WorkInv, AtKey, Flying, world
  <2>8. WorldTyped' /\ WorldMild(p) /\ KeysInv' /\ UNCHANGED <<status, lease>>
    BY <1>2, <1>3, WorldTypeKept, WorldUntouched, KeysUntouched DEF IInv, world
  <2> QED
    BY <2>3, <2>4, <2>5, <2>6, <2>7, <2>8, RunnerActs
<1> QED
  BY <1>4, <1>5 DEF MarkDispatching

LEMMA RetryStep == ASSUME IInv, NEW p \in Runners, Retry(p) PROVE IInv'
<1>1. RunnerInv(p) /\ p \in Procs /\ pc[p] = "next" /\ phase[p] = "retry"
  BY DEF IInv, RunnersInv, Procs, Retry
<1>2. LocalsTyped /\ JobTyped /\ WorldTyped /\ todo[p] \subseteq Steps
  BY <1>1, TypeParts DEF IInv, LocalsTyped
<1>3. UNCHANGED <<status, blocked, revision, mode, polls, lease, world>>
  BY DEF Retry
<1>4. ASSUME NEW s \in todo[p], ~MayMark(p, s, "dispatched"),
             \E rest \in SUBSET todo[p] : todo' = [todo EXCEPT ![p] = rest],
             UNCHANGED <<step, result, got, on, pc>>
      PROVE  IInv'
  <2>1. LocalsTyped' /\ Others(p) /\ todo'[p] \subseteq todo[p]
    BY <1>1, <1>2, <1>4 DEF LocalsTyped, Retry, Others, Same
  <2>2. RunnerInv(p)' /\ UNCHANGED <<job, lease, world>>
    BY <1>1, <1>3, <1>4, <2>1
    DEF RunnerInv, LabelInv, LeaseInv, WorkInv, TruthInv, AtKey, Flying, lease, job, Retry
  <2> QED
    BY <1>1, <1>4, <2>1, <2>2, LocalStep DEF AtKey
<1>5. ASSUME NEW s \in todo[p], MayMark(p, s, "dispatched"),
             step' = [step EXCEPT ![s] = "dispatching"],
             result' = [result EXCEPT ![s] = "none"],
             Got(p, result[s]), on' = [on EXCEPT ![p] = s],
             todo' = [todo EXCEPT ![p] = @ \ {s}], Goto(p, "resend")
      PROVE  IInv'
  <2>1. /\ owner = p /\ status \notin Stopped /\ step[s] = "dispatched" /\ s \in Steps
        /\ blocked # "interrupted" /\ live /\ rev[p] = revision
    BY <1>1, <1>2, <1>5 DEF MayMark, Leased, RunnerInv, LeaseInv
  <2>2. /\ \A t \in Steps : step'[t] = IF t = s THEN "dispatching" ELSE step[t]
        /\ \A t \in Steps : result'[t] = IF t = s THEN "none" ELSE result[t]
    BY <1>2, <1>5 DEF JobTyped
  <2>3. LocalsTyped'
    BY <1>2, <1>5, <2>1 DEF LocalsTyped, JobTyped, Retry, Goto, Got, Labels
  <2>4. /\ Others(p) /\ pc'[p] = "resend" /\ on'[p] = s /\ todo'[p] \subseteq todo[p]
        /\ UNCHANGED <<rev, phase>>
    BY <1>1, <1>2, <1>5 DEF LocalsTyped, Retry, Goto, Got, Others, Same
  <2>5. JobTyped'
    BY <1>2, <1>3, <1>5, <2>1, <2>2 DEF Retry, JobTyped
  <2>6. JobMild(p)
    BY <1>3, <2>1, <2>2 DEF JobMild, Marks, Fixed
  <2>7. RunnerInv(p)'
    BY <1>1, <1>2, <1>3, <2>1, <2>2, <2>4
    DEF RunnerInv, LabelInv, LeaseInv, WorkInv, TruthInv, AtKey, Flying, lease
  <2>8. \A q \in Runners : AloneInv(p, q)' /\ AloneInv(q, p)'
    BY <2>4 DEF AloneInv, Flying
  <2>9. WorldTyped' /\ WorldMild(p) /\ KeysInv' /\ UNCHANGED <<status, lease>>
    BY <1>2, <1>3, WorldTypeKept, WorldUntouched, KeysUntouched DEF IInv, world
  <2> QED
    BY <2>3, <2>4, <2>5, <2>6, <2>7, <2>8, <2>9, RunnerActs
<1> QED
  BY <1>4, <1>5 DEF Retry

-----------------------------------------------------------------------------
(* Runners: what they make of claims and copies.                           *)

(* A step at the key of p and s.                                           *)
AtItsKey(p, s) ==
    \A t \in Steps, r \in Revisions : t # s \/ r # rev[p] =>
        claim'[t][r] = claim[t][r] /\ post'[t][r] = post[t][r]

LEMMA ClaimSet ==
    ASSUME WorldTyped, NEW p, NEW s \in Steps, rev[p] \in Revisions,
           NEW c \in Claims, SetClaim(p, s, c)
    PROVE  /\ claim' \in [Steps -> [Revisions -> Claims]]
           /\ claim'[s][rev[p]] = c
           /\ \A t \in Steps, r \in Revisions :
                 t # s \/ r # rev[p] => claim'[t][r] = claim[t][r]
BY DEF WorldTyped, SetClaim

LEMMA PostSet ==
    ASSUME WorldTyped, NEW p, NEW s \in Steps, rev[p] \in Revisions,
           NEW c \in Copies, SetPost(p, s, c)
    PROVE  /\ post' \in [Steps -> [Revisions -> Copies]]
           /\ post'[s][rev[p]] = c
           /\ \A t \in Steps, r \in Revisions :
                 t # s \/ r # rev[p] => post'[t][r] = post[t][r]
BY DEF WorldTyped, SetPost

LEMMA KeysAtItsKey ==
    ASSUME KeysInv, NEW p, NEW s \in Steps, AtItsKey(p, s), revision' = revision,
           KeyInv(s, rev[p])', rev' [p] = rev[p]
    PROVE  KeysInv'
BY DEF KeysInv, KeyInv, AtItsKey, MayAppear

(* What may be said of the key.                                            *)
TrueOf(o, s, r) ==
    /\ o \in Outcomes
    /\ Fixed(o) => ~MayAppear(s, r)
    /\ o = "published" => post[s][r] = "public"

LEMMA ReportsAreTrue ==
    ASSUME WorldTyped, NEW p, NEW s \in Steps, rev[p] \in Revisions, NEW o \in Reports(p, s)
    PROVE  TrueOf(o, s, rev[p]) /\ o \in Claims \ {"none", "sent"} /\ o # "refused"
BY DEF Reports, ThePost, TrueOf, Fixed, MayAppear, Outcomes, Claims

LEMMA ReadIsTrue ==
    ASSUME WorldTyped, NEW s \in Steps, NEW r \in Revisions, KeyInv(s, r), claim[s][r] # "none"
    PROVE  TrueOf(Read(claim[s][r]), s, r)
BY DEF WorldTyped, KeyInv, Read, TrueOf, Fixed, Outcomes, Claims

LEMMA UnsentIsTrue ==
    ASSUME LocalsTyped, NEW p \in Procs, NEW s, NEW r, NEW o, TrueOf(o, s, r), GotUnsent(p, o)
    PROVE  /\ got' \in [Procs -> Outcomes \cup {"none"}] /\ TrueOf(got'[p], s, r)
           /\ \A q \in Procs \ {p} : got'[q] = got[q]
<1>1. CASE Got(p, o)
  BY <1>1 DEF Got, LocalsTyped, TrueOf
<1>2. CASE o = "failed" /\ Got(p, "refused")
  <2>1. TrueOf("refused", s, r)
    BY <1>2 DEF TrueOf, Fixed, Outcomes
  <2> QED
    BY <1>2, <2>1 DEF Got, LocalsTyped, TrueOf
<1> QED
  BY <1>1, <1>2 DEF GotUnsent

LEMMA Reconciled ==
    ASSUME WorldTyped, LocalsTyped, NEW p \in Procs, NEW s \in Steps, KeyInv(s, rev[p]),
           Reconcile(p, s), UNCHANGED <<post, revision>>, rev'[p] = rev[p],
           ~(rev[p] > revision)
    PROVE  /\ claim' \in [Steps -> [Revisions -> Claims]]
           /\ AtItsKey(p, s) /\ KeyInv(s, rev[p])' /\ claim'[s][rev[p]] # "none"
           /\ claim[s][rev[p]] = "sent" => claim'[s][rev[p]] = "sent"
           /\ got' \in [Procs -> Outcomes \cup {"none"}] /\ TrueOf(got'[p], s, rev[p])
           /\ \A q \in Procs \ {p} : got'[q] = got[q]
<1>1. rev[p] \in Revisions
  BY DEF LocalsTyped
<1>2. CASE TheClaim(p, s) = "none" /\ SetClaim(p, s, "failed") /\ GotUnsent(p, "failed")
  <2>1. TrueOf("failed", s, rev[p])
    BY <1>2 DEF TheClaim, KeyInv, TrueOf, Fixed, MayAppear, Outcomes
  <2>2. /\ claim' \in [Steps -> [Revisions -> Claims]]
        /\ claim'[s][rev[p]] = "failed" /\ AtItsKey(p, s)
    BY <1>1, <1>2, ClaimSet DEF AtItsKey, Claims, Outcomes
  <2>3. KeyInv(s, rev[p])'
    BY <1>2, <2>2 DEF TheClaim, KeyInv, MayAppear
  <2> QED
    BY <1>2, <2>1, <2>2, <2>3, UnsentIsTrue DEF TheClaim
<1>3. ASSUME Unresolved(TheClaim(p, s)), NEW o \in Reports(p, s), SetClaim(p, s, o), Got(p, o)
      PROVE  /\ claim' \in [Steps -> [Revisions -> Claims]]
             /\ AtItsKey(p, s) /\ KeyInv(s, rev[p])' /\ claim'[s][rev[p]] # "none"
             /\ claim[s][rev[p]] = "sent" => claim'[s][rev[p]] = "sent"
             /\ got' \in [Procs -> Outcomes \cup {"none"}] /\ TrueOf(got'[p], s, rev[p])
             /\ \A q \in Procs \ {p} : got'[q] = got[q]
  <2>1. TrueOf(o, s, rev[p]) /\ o \in Claims \ {"none", "sent"}
    BY <1>1, <1>3, ReportsAreTrue
  <2>2. /\ got' \in [Procs -> Outcomes \cup {"none"}] /\ got'[p] = o
        /\ \A q \in Procs \ {p} : got'[q] = got[q]
    BY <1>3, <2>1 DEF Got, LocalsTyped, TrueOf
  <2>3. /\ claim' \in [Steps -> [Revisions -> Claims]] /\ claim'[s][rev[p]] = o /\ AtItsKey(p, s)
    BY <1>1, <1>3, <2>1, ClaimSet DEF AtItsKey
  <2>4. KeyInv(s, rev[p])'
    BY <1>1, <1>3, <2>1, <2>3 DEF KeyInv, MayAppear, TrueOf, Fixed, TheClaim, Unresolved
  <2> QED
    BY <1>3, <2>1, <2>2, <2>3, <2>4 DEF TheClaim, Unresolved
<1>4. CASE /\ TheClaim(p, s) # "none" /\ GotUnsent(p, Read(TheClaim(p, s))) /\ UNCHANGED claim
  <2>1. TrueOf(Read(TheClaim(p, s)), s, rev[p])
    BY <1>1, <1>4, ReadIsTrue DEF TheClaim
  <2>2. KeyInv(s, rev[p])'
    BY <1>4 DEF KeyInv, MayAppear
  <2> QED
    BY <1>4, <2>1, <2>2, UnsentIsTrue DEF TheClaim, AtItsKey, WorldTyped
<1> QED
  BY <1>2, <1>3, <1>4 DEF Reconcile

(* A step that changes a claim or a copy at its runner's key.              *)
LEMMA RunnerCalls ==
    ASSUME IInv, NEW p \in Runners, NEW s \in Steps, UNCHANGED <<job, lease>>,
           WorldTyped', LocalsTyped', Others(p), AtItsKey(p, s), KeyInv(s, rev[p])',
           rev'[p] = rev[p], rev[p] = revision => step[s] \notin {"pending", "cancelled"},
           claim'[s][rev[p]] # "none" \/ claim[s][rev[p]] = "none",
           claim[s][rev[p]] = "sent" /\ claim'[s][rev[p]] # "sent" => pc[p] \in Flying /\ on[p] = s,
           post[s][rev[p]] = "public" => post'[s][rev[p]] = "public",
           MayAppear(s, rev[p])' => MayAppear(s, rev[p]) \/ Sends(p, s, rev[p]),
           RunnerInv(p)', \A q \in Runners : AloneInv(p, q)' /\ AloneInv(q, p)'
    PROVE  IInv'
<1>1. JobTyped' /\ JobMild(p)
  BY TypeParts, JobTypeKept, JobUntouched DEF IInv
<1>2. KeysInv' /\ UNCHANGED status
  BY KeysAtItsKey DEF IInv, job
<1>3. WorldMild(p)
  BY DEF WorldMild, AtItsKey, MayAppear
<1> QED
  BY <1>1, <1>2, <1>3, RunnerActs DEF lease

LEMMA ReadyToRecord ==
    ASSUME IInv, NEW p \in Runners, NEW s \in Steps, UNCHANGED <<job, lease, post>>,
           pc[p] \notin {"idle", "release"}, pc'[p] = "record", on'[p] = s, rev'[p] = rev[p],
           phase'[p] = phase[p], todo'[p] \subseteq todo[p],
           rev[p] = revision => step[s] \notin {"pending", "cancelled"},
           got'[p] \in Outcomes, owner = p /\ Fixed(got'[p]) => ~MayAppear(s, rev[p]),
           got'[p] = "published" => post[s][rev[p]] = "public"
    PROVE  RunnerInv(p)'
<1>1. RunnerInv(p)
  BY DEF IInv, RunnersInv
<1> QED
  BY <1>1
  DEF RunnerInv, LabelInv, LeaseInv, WorkInv, TruthInv, AtKey, Flying, job, lease, MayAppear,
      Outcomes

LEMMA AloneAtRecord ==
    ASSUME NEW p \in Runners, NEW s \in Steps, pc'[p] = "record", on'[p] = s, rev'[p] = rev[p],
           claim'[s][rev[p]] # "none"
    PROVE  \A q \in Runners : AloneInv(p, q)' /\ AloneInv(q, p)'
BY DEF AloneInv, Flying

LEMMA PublishStep == ASSUME IInv, NEW p \in Runners, Publish(p) PROVE IInv'
<1> DEFINE s == on[p]
           r == rev[p]
<1>1. /\ RunnerInv(p) /\ p \in Procs /\ pc[p] = "send" /\ phase[p] = "advance"
      /\ s \in Steps /\ todo[p] = {} /\ got[p] = "none"
  BY DEF IInv, RunnersInv, Procs, Publish, RunnerInv, LabelInv, AtKey
<1>2. /\ LocalsTyped /\ WorldTyped /\ UNCHANGED <<job, lease>> /\ r \in Revisions
      /\ revision \in Nat /\ KeyInv(s, r)
  BY <1>1, TypeParts DEF IInv, LocalsTyped, Publish, KeysInv, JobTyped, Revisions
<1>3. rev[p] = revision => step[s] \notin {"pending", "cancelled"}
  BY <1>1 DEF RunnerInv, WorkInv, AtKey
<1>4. UNCHANGED <<due, retries, kind, phase, todo, on, rev, unsure, saw>>
  BY DEF Publish
<1>5. CASE /\ claim[s][r] = "none"
           /\ SetClaim(p, s, "sent") /\ SetPost(p, s, "live")
           /\ Goto(p, "flight") /\ UNCHANGED <<got, touched>>
  <2>1. /\ claim' \in [Steps -> [Revisions -> Claims]] /\ claim'[s][r] = "sent"
        /\ post' \in [Steps -> [Revisions -> Copies]] /\ post'[s][r] = "live" /\ AtItsKey(p, s)
    <3>1. /\ claim' \in [Steps -> [Revisions -> Claims]] /\ claim'[s][r] = "sent"
          /\ \A t \in Steps, q \in Revisions : t # s \/ q # r => claim'[t][q] = claim[t][q]
      BY <1>1, <1>2, <1>5, ClaimSet DEF Claims
    <3>2. /\ post' \in [Steps -> [Revisions -> Copies]] /\ post'[s][r] = "live"
          /\ \A t \in Steps, q \in Revisions : t # s \/ q # r => post'[t][q] = post[t][q]
      BY <1>1, <1>2, <1>5, PostSet DEF Copies
    <3> QED
      BY <3>1, <3>2 DEF AtItsKey
  <2>2. r = revision /\ step[s] = "dispatching" /\ post[s][r] = "absent"
    BY <1>1, <1>2, <1>5 DEF RunnerInv, WorkInv, KeyInv
  <2>3. LocalsTyped' /\ WorldTyped'
    BY <1>2, <1>4, <1>5, <2>1 DEF LocalsTyped, WorldTyped, Goto, Labels
  <2>4. Others(p) /\ pc'[p] = "flight"
    BY <1>1, <1>2, <1>4, <1>5 DEF LocalsTyped, Goto, Others, Same
  <2>5. KeyInv(s, r)'
    BY <1>2, <1>4, <2>1, <2>2 DEF KeyInv, MayAppear, job
  <2>6. RunnerInv(p)'
    BY <1>1, <1>2, <1>4, <1>5, <2>1, <2>2, <2>4
    DEF RunnerInv, LabelInv, LeaseInv, WorkInv, TruthInv, AtKey, Flying, job, lease
  <2>7. ASSUME NEW q \in Runners PROVE AloneInv(p, q)' /\ AloneInv(q, p)'
    <3>1. q # p => Same(q) /\ RunnerInv(q)
      BY <2>4 DEF Others, IInv, RunnersInv, Procs
    <3> QED
      BY <1>4, <1>5, <2>1, <2>4, <3>1 DEF AloneInv, Same, RunnerInv, WorkInv, Flying
  <2>8. MayAppear(s, r)' => Sends(p, s, r)
    BY <1>1, <1>5 DEF Sends
  <2> QED
    BY <1>1, <1>2, <1>3, <1>4, <1>5, <2>1, <2>2, <2>3, <2>4, <2>5, <2>6, <2>7, <2>8, RunnerCalls
<1>6. ASSUME NEW o \in Outcomes, touched' = [touched EXCEPT ![p] = @ \cup {s}],
             Goto(p, "record"), UNCHANGED post, Got(p, o),
             owner = p /\ Fixed(o) => ~MayAppear(s, r), o = "published" => post[s][r] = "public",
             claim' \in [Steps -> [Revisions -> Claims]], AtItsKey(p, s), KeyInv(s, r)',
             UNCHANGED claim \/ (claim[s][r] = "none" /\ claim'[s][r] # "none")
      PROVE  IInv'
  <2>1. LocalsTyped' /\ WorldTyped'
    BY <1>1, <1>2, <1>4, <1>6 DEF LocalsTyped, WorldTyped, Goto, Got, Labels
  <2>2. Others(p) /\ pc'[p] = "record" /\ got'[p] = o
    BY <1>1, <1>2, <1>4, <1>6 DEF LocalsTyped, Goto, Got, Others, Same
  <2>3. RunnerInv(p)'
    BY <1>1, <1>2, <1>3, <1>4, <1>6, <2>2, ReadyToRecord
  <2>4. ASSUME NEW q \in Runners PROVE AloneInv(p, q)' /\ AloneInv(q, p)'
    <3>1. q # p => Same(q) /\ AloneInv(p, q)
      BY <2>2 DEF Others, IInv, AlonesInv, Procs
    <3> QED
      BY <1>1, <1>4, <1>6, <2>2, <3>1 DEF AloneInv, Same, Flying
  <2>5. claim[s][r] = "sent" => claim'[s][r] = "sent"
    BY <1>6
  <2> QED
    BY <1>1, <1>2, <1>3, <1>4, <1>6, <2>1, <2>2, <2>3, <2>4, <2>5, RunnerCalls DEF MayAppear
<1>7. CASE claim[s][r] = "none" /\ SetClaim(p, s, "failed") /\ Got(p, "failed")
           /\ touched' = [touched EXCEPT ![p] = @ \cup {s}] /\ Goto(p, "record") /\ UNCHANGED post
  <2>1. /\ claim' \in [Steps -> [Revisions -> Claims]] /\ claim'[s][r] = "failed" /\ AtItsKey(p, s)
    BY <1>1, <1>2, <1>7, ClaimSet DEF AtItsKey, Claims, Outcomes
  <2>2. KeyInv(s, r)' /\ ~MayAppear(s, r)
    BY <1>1, <1>2, <1>4, <1>7, <2>1 DEF KeyInv, MayAppear, job, RunnerInv, WorkInv
  <2> QED
    BY <1>6, <1>7, <2>1, <2>2 DEF Outcomes
<1>8. CASE claim[s][r] # "none" /\ Got(p, Read(claim[s][r])) /\ UNCHANGED claim
           /\ touched' = [touched EXCEPT ![p] = @ \cup {s}] /\ Goto(p, "record") /\ UNCHANGED post
  <2>1. TrueOf(Read(claim[s][r]), s, r)
    BY <1>1, <1>2, <1>8, ReadIsTrue
  <2>2. KeyInv(s, r)' /\ AtItsKey(p, s) /\ claim' \in [Steps -> [Revisions -> Claims]]
    BY <1>2, <1>4, <1>8 DEF KeyInv, MayAppear, job, AtItsKey, WorldTyped
  <2> QED
    BY <1>6, <1>8, <2>1, <2>2 DEF TrueOf
<1>9. CASE Got(p, "refused") /\ UNCHANGED claim
           /\ touched' = [touched EXCEPT ![p] = @ \cup {s}] /\ Goto(p, "record") /\ UNCHANGED post
  <2>1. owner = p => ~MayAppear(s, r)
    BY <1>1 DEF RunnerInv, TruthInv
  <2>2. KeyInv(s, r)' /\ AtItsKey(p, s) /\ claim' \in [Steps -> [Revisions -> Claims]]
    BY <1>2, <1>4, <1>9 DEF KeyInv, MayAppear, job, AtItsKey, WorldTyped
  <2> QED
    BY <1>6, <1>9, <2>1, <2>2 DEF Outcomes
<1> QED
  BY <1>5, <1>7, <1>8, <1>9 DEF Publish, TheClaim

(* An answer, or what is saved, is to be recorded of the key.              *)
LEMMA RecordsNext ==
    ASSUME IInv, NEW p \in Runners, NEW s \in Steps, UNCHANGED <<job, lease, post, due, retries>>,
           claim' \in [Steps -> [Revisions -> Claims]], LocalsTyped', Others(p),
           AtItsKey(p, s), KeyInv(s, rev[p])', claim'[s][rev[p]] # "none",
           claim[s][rev[p]] = "sent" /\ claim'[s][rev[p]] # "sent" => pc[p] \in Flying /\ on[p] = s,
           rev[p] = revision => step[s] \notin {"pending", "cancelled"},
           pc[p] \notin {"idle", "release"}, pc'[p] = "record", on'[p] = s, rev'[p] = rev[p],
           phase'[p] = phase[p], todo'[p] \subseteq todo[p], TrueOf(got'[p], s, rev[p])
    PROVE  IInv'
<1>1. RunnerInv(p)'
  BY ReadyToRecord DEF TrueOf
<1>2. \A q \in Runners : AloneInv(p, q)' /\ AloneInv(q, p)'
  BY AloneAtRecord
<1>3. WorldTyped'
  BY TypeParts DEF IInv, WorldTyped
<1> QED
  BY <1>1, <1>2, <1>3, RunnerCalls DEF MayAppear

LEMMA PublishAnswersStep == ASSUME IInv, NEW p \in Runners, PublishAnswers(p) PROVE IInv'
<1> DEFINE s == on[p]
           r == rev[p]
<1>1. /\ RunnerInv(p) /\ p \in Procs /\ pc[p] = "flight" /\ s \in Steps /\ claim[s][r] = "sent"
  BY DEF IInv, RunnersInv, Procs, PublishAnswers, RunnerInv, LabelInv, WorkInv, AtKey, Flying
<1>2. /\ LocalsTyped /\ WorldTyped /\ r \in Revisions /\ KeyInv(s, r)
  BY <1>1, TypeParts DEF IInv, LocalsTyped, KeysInv
<1>3. UNCHANGED <<job, lease, due, post, retries, kind, phase, todo, on, rev, unsure, saw>>
  BY DEF PublishAnswers
<1>4. PICK o, c : o \in Reports(p, s) /\ c \in {o, "sent"} /\ Got(p, o) /\ SetClaim(p, s, c)
  BY DEF PublishAnswers
<1>5. TrueOf(o, s, r) /\ o \in Claims \ {"none"} /\ c \in Claims \ {"none"} /\ o \in Outcomes
  BY <1>1, <1>2, <1>4, ReportsAreTrue DEF TrueOf, Claims
<1>6. claim' \in [Steps -> [Revisions -> Claims]] /\ claim'[s][r] = c /\ AtItsKey(p, s)
  <2>1. /\ claim' \in [Steps -> [Revisions -> Claims]] /\ claim'[s][r] = c
        /\ \A t \in Steps, q \in Revisions : t # s \/ q # r => claim'[t][q] = claim[t][q]
    BY <1>1, <1>2, <1>4, <1>5, ClaimSet
  <2> QED
    BY <1>3, <2>1 DEF AtItsKey
<1>7. KeyInv(s, r)'
  BY <1>1, <1>2, <1>3, <1>4, <1>5, <1>6 DEF KeyInv, MayAppear, job, TrueOf, Fixed
<1>8. LocalsTyped'
  BY <1>1, <1>2, <1>3, <1>4, <1>5 DEF LocalsTyped, PublishAnswers, Goto, Got, Labels
<1>9. Others(p) /\ pc'[p] = "record" /\ got'[p] = o
  BY <1>1, <1>2, <1>3, <1>4 DEF LocalsTyped, PublishAnswers, Goto, Got, Others, Same
<1>10. rev[p] = revision => step[s] \notin {"pending", "cancelled"}
  BY <1>1 DEF RunnerInv, WorkInv, AtKey
<1> QED
  BY <1>1, <1>3, <1>5, <1>6, <1>7, <1>8, <1>9, <1>10, RecordsNext DEF Flying

LEMMA RecoverStep == ASSUME IInv, NEW p \in Runners, Recover(p) PROVE IInv'
<1> DEFINE s == on[p]
<1>1. RunnerInv(p) /\ p \in Procs /\ pc[p] = "recover" /\ s \in Steps
  BY DEF IInv, RunnersInv, Procs, Recover, RunnerInv, LabelInv, AtKey
<1>2. /\ LocalsTyped /\ WorldTyped /\ rev[p] \in Revisions /\ revision \in Revisions
      /\ KeyInv(s, rev[p])
  BY <1>1, TypeParts DEF IInv, LocalsTyped, KeysInv, JobTyped
<1>3. UNCHANGED <<job, lease, due, post, retries, kind, phase, todo, touched, on, rev, unsure, saw>>
  BY DEF Recover
<1>4. ~(rev[p] > revision) /\ revision' = revision
  BY <1>1, <1>2, <1>3 DEF RunnerInv, LabelInv, Revisions, job
<1>5. /\ claim' \in [Steps -> [Revisions -> Claims]]
      /\ AtItsKey(p, s) /\ KeyInv(s, rev[p])' /\ claim'[s][rev[p]] # "none"
      /\ claim[s][rev[p]] = "sent" => claim'[s][rev[p]] = "sent"
      /\ got' \in [Procs -> Outcomes \cup {"none"}] /\ TrueOf(got'[p], s, rev[p])
      /\ \A q \in Procs \ {p} : got'[q] = got[q]
  <2> HIDE DEF s
  <2>1. PICK t \in Steps : t = s
    BY <1>1
  <2> QED
    BY <1>1, <1>2, <1>3, <1>4, <2>1, Reconciled DEF Recover, s
<1>6. LocalsTyped'
  BY <1>2, <1>3, <1>5 DEF LocalsTyped, Recover, Goto, Labels
<1>7. Others(p) /\ pc'[p] = "record"
  BY <1>1, <1>2, <1>3, <1>5 DEF LocalsTyped, Recover, Goto, Others, Same
<1>8. rev[p] = revision => step[s] \notin {"pending", "cancelled"}
  BY <1>1 DEF RunnerInv, WorkInv, AtKey
<1> QED
  BY <1>1, <1>3, <1>5, <1>6, <1>7, <1>8, RecordsNext DEF Flying

LEMMA RetryFailedStep == ASSUME IInv, NEW p \in Runners, RetryFailed(p) PROVE IInv'
<1> DEFINE s == on[p]
           r == rev[p]
<1>1. /\ RunnerInv(p) /\ p \in Procs /\ pc[p] = "resend" /\ phase[p] = "retry" /\ s \in Steps
      /\ owner = p /\ r = revision /\ step[s] = "dispatching" /\ blocked # "interrupted"
  BY DEF IInv, RunnersInv, Procs, RetryFailed, RunnerInv, LabelInv, LeaseInv, WorkInv, AtKey
<1>2. /\ LocalsTyped /\ WorldTyped /\ r \in Revisions /\ KeyInv(s, r) /\ revision \in Nat
  BY <1>1, TypeParts DEF IInv, LocalsTyped, KeysInv, JobTyped, Revisions
<1>3. UNCHANGED <<job, lease, due, kind, phase, todo, touched, on, rev, unsure, saw>>
  BY DEF RetryFailed
<1>4. CASE /\ Retryable(claim[s][r]) /\ retries > 0
           /\ SetClaim(p, s, "sent") /\ SetPost(p, s, "live") /\ retries' = retries - 1
           /\ Goto(p, "reflight") /\ UNCHANGED got
  <2>1. /\ claim' \in [Steps -> [Revisions -> Claims]] /\ claim'[s][r] = "sent"
        /\ post' \in [Steps -> [Revisions -> Copies]] /\ post'[s][r] = "live" /\ AtItsKey(p, s)
    <3>1. /\ claim' \in [Steps -> [Revisions -> Claims]] /\ claim'[s][r] = "sent"
          /\ \A t \in Steps, q \in Revisions : t # s \/ q # r => claim'[t][q] = claim[t][q]
      <4>1. "sent" \in Claims
        BY DEF Claims
      <4>2. WorldTyped /\ s \in Steps /\ rev[p] \in Revisions /\ SetClaim(p, s, "sent")
        BY <1>1, <1>2, <1>4
      <4> HIDE DEF s, r
      <4>3. r = rev[p]
        BY DEF r
      <4> QED
        BY <4>1, <4>2, <4>3, ClaimSet
    <3>2. /\ post' \in [Steps -> [Revisions -> Copies]] /\ post'[s][r] = "live"
          /\ \A t \in Steps, q \in Revisions : t # s \/ q # r => post'[t][q] = post[t][q]
      BY <1>1, <1>2, <1>4, PostSet DEF Copies
    <3> QED
      BY <3>1, <3>2 DEF AtItsKey
  <2>2. LocalsTyped' /\ WorldTyped'
    <3>1. retries' \in 0 .. MaxRetries
      BY <1>2, <1>4, SchedulerAssumption DEF WorldTyped
    <3> QED
      BY <1>2, <1>3, <1>4, <2>1, <3>1 DEF LocalsTyped, WorldTyped, Goto, Labels
  <2>3. Others(p) /\ pc'[p] = "reflight"
    BY <1>1, <1>2, <1>3, <1>4 DEF LocalsTyped, Goto, Others, Same
  <2>4. KeyInv(s, r)' /\ claim[s][r] # "sent" /\ post[s][r] # "public"
    BY <1>1, <1>2, <1>3, <1>4, <2>1 DEF KeyInv, MayAppear, job, Retryable
  <2>5. RunnerInv(p)'
    BY <1>1, <1>2, <1>3, <1>4, <2>1, <2>3
    DEF RunnerInv, LabelInv, LeaseInv, WorkInv, TruthInv, AtKey, Flying, job, lease
  <2>6. ASSUME NEW q \in Runners PROVE AloneInv(p, q)' /\ AloneInv(q, p)'
    <3>1. q # p => Same(q) /\ RunnerInv(q)
      BY <2>3 DEF Others, IInv, RunnersInv, Procs
    <3> QED
      BY <1>3, <1>4, <2>1, <2>3, <2>4, <3>1 DEF AloneInv, Same, RunnerInv, WorkInv, Flying
  <2>7. Sends(p, s, r)
    BY <1>1 DEF Sends
  <2> QED
    BY <1>1, <1>2, <1>3, <1>4, <2>1, <2>2, <2>3, <2>4, <2>5, <2>6, <2>7, RunnerCalls
<1>5. CASE /\ Retryable(claim[s][r]) /\ SetClaim(p, s, "failed") /\ Got(p, "failed")
           /\ Goto(p, "record") /\ UNCHANGED <<post, retries>>
  <2>1. /\ claim' \in [Steps -> [Revisions -> Claims]] /\ claim'[s][r] = "failed" /\ AtItsKey(p, s)
    <3>1. /\ claim' \in [Steps -> [Revisions -> Claims]] /\ claim'[s][r] = "failed"
          /\ \A t \in Steps, q \in Revisions : t # s \/ q # r => claim'[t][q] = claim[t][q]
      <4>1. "failed" \in Claims
        BY DEF Claims, Outcomes
      <4> QED
        BY <1>1, <1>2, <1>5, <4>1, ClaimSet
    <3> QED
      BY <1>5, <3>1 DEF AtItsKey
  <2>2. KeyInv(s, r)' /\ TrueOf("failed", s, r) /\ claim[s][r] # "sent"
    BY <1>1, <1>2, <1>3, <1>5, <2>1
    DEF KeyInv, MayAppear, job, Retryable, TrueOf, Fixed, Outcomes
  <2>3. LocalsTyped'
    BY <1>2, <1>3, <1>5 DEF LocalsTyped, Goto, Got, Labels, Outcomes
  <2>4. Others(p) /\ pc'[p] = "record" /\ got'[p] = "failed"
    BY <1>1, <1>2, <1>3, <1>5 DEF LocalsTyped, Goto, Got, Others, Same
  <2> QED
    BY <1>1, <1>3, <1>5, <2>1, <2>2, <2>3, <2>4, RecordsNext
<1>6. CASE /\ claim[s][r] # "none" /\ GotUnsent(p, Read(claim[s][r]))
           /\ Goto(p, "record") /\ UNCHANGED <<claim, post, retries>>
  <2>1. /\ got' \in [Procs -> Outcomes \cup {"none"}] /\ TrueOf(got'[p], s, r)
        /\ \A q \in Procs \ {p} : got'[q] = got[q]
    BY <1>1, <1>2, <1>6, ReadIsTrue, UnsentIsTrue
  <2>2. /\ claim' \in [Steps -> [Revisions -> Claims]] /\ AtItsKey(p, s) /\ KeyInv(s, r)'
    BY <1>2, <1>3, <1>6 DEF KeyInv, MayAppear, job, AtItsKey, WorldTyped
  <2>3. LocalsTyped'
    BY <1>2, <1>3, <1>6, <2>1 DEF LocalsTyped, Goto, Labels
  <2>4. Others(p) /\ pc'[p] = "record"
    BY <1>1, <1>2, <1>3, <1>6, <2>1 DEF LocalsTyped, Goto, Others, Same
  <2> QED
    BY <1>1, <1>3, <1>6, <2>1, <2>2, <2>3, <2>4, RecordsNext
<1>7. CASE Goto(p, "recover") /\ UNCHANGED <<claim, post, retries, got>>
  <2>1. LocalsTyped' /\ Others(p) /\ pc'[p] = "recover"
    BY <1>1, <1>2, <1>3, <1>7 DEF LocalsTyped, Goto, Labels, Others, Same
  <2>2. UNCHANGED world
    BY <1>3, <1>7 DEF world
  <2>3. RunnerInv(p)'
    BY <1>1, <1>3, <1>7, <2>1
    DEF RunnerInv, LabelInv, LeaseInv, WorkInv, TruthInv, AtKey, Flying, job, lease
  <2>4. \A q \in Runners : AloneInv(p, q)' /\ AloneInv(q, p)'
    BY <2>1 DEF AloneInv, Flying
  <2>5. TypeOK' /\ Mild(p) /\ StatusKept /\ KeysInv'
    BY <1>3, <2>1, <2>2, Unseen
  <2> QED
    BY <2>1, <2>3, <2>4, <2>5, RunnerKeeps DEF RunnerKept
<1> QED
  BY <1>4, <1>5, <1>6, <1>7 DEF RetryFailed, TheClaim

LEMMA RetryAnswersStep == ASSUME IInv, NEW p \in Runners, RetryAnswers(p) PROVE IInv'
<1> DEFINE s == on[p]
           r == rev[p]
<1>1. /\ RunnerInv(p) /\ p \in Procs /\ pc[p] = "reflight" /\ phase[p] = "retry" /\ s \in Steps
      /\ blocked # "interrupted" /\ step[s] = "dispatching"
  BY DEF IInv, RunnersInv, Procs, RetryAnswers, RunnerInv, LabelInv, LeaseInv, WorkInv, AtKey
<1>2. /\ LocalsTyped /\ WorldTyped /\ r \in Revisions /\ KeyInv(s, r)
  BY <1>1, TypeParts DEF IInv, LocalsTyped, KeysInv
<1>3. UNCHANGED <<job, lease, due, post, retries, kind, phase, todo, touched, on, rev, unsure, saw>>
  BY DEF RetryAnswers
<1>4. ASSUME NEW o \in Reports(p, s), SetClaim(p, s, o), Got(p, o), Goto(p, "record")
      PROVE  IInv'
  <2>1. TrueOf(o, s, r) /\ o \in Claims \ {"none"} /\ o \in Outcomes
    BY <1>1, <1>2, <1>4, ReportsAreTrue DEF TrueOf
  <2>2. /\ claim' \in [Steps -> [Revisions -> Claims]] /\ claim'[s][r] = o /\ AtItsKey(p, s)
    <3>1. /\ claim' \in [Steps -> [Revisions -> Claims]] /\ claim'[s][r] = o
          /\ \A t \in Steps, q \in Revisions : t # s \/ q # r => claim'[t][q] = claim[t][q]
      BY <1>1, <1>2, <1>4, <2>1, ClaimSet
    <3> QED
      BY <1>3, <3>1 DEF AtItsKey
  <2>3. KeyInv(s, r)'
    BY <1>1, <1>2, <1>3, <2>1, <2>2
    DEF KeyInv, MayAppear, job, TrueOf, Fixed, RunnerInv, WorkInv, Flying
  <2>4. LocalsTyped'
    BY <1>2, <1>3, <1>4, <2>1 DEF LocalsTyped, Goto, Got, Labels
  <2>5. Others(p) /\ pc'[p] = "record" /\ got'[p] = o
    BY <1>1, <1>2, <1>3, <1>4 DEF LocalsTyped, Goto, Got, Others, Same
  <2> QED
    BY <1>1, <1>3, <2>1, <2>2, <2>3, <2>4, <2>5, RecordsNext DEF Flying
<1>5. CASE Goto(p, "recover") /\ UNCHANGED <<claim, got>>
  <2>1. LocalsTyped' /\ Others(p) /\ pc'[p] = "recover"
    BY <1>1, <1>2, <1>3, <1>5 DEF LocalsTyped, Goto, Labels, Others, Same
  <2>2. UNCHANGED world
    BY <1>3, <1>5 DEF world
  <2>3. RunnerInv(p)'
    BY <1>1, <1>3, <1>5, <2>1
    DEF RunnerInv, LabelInv, LeaseInv, WorkInv, TruthInv, AtKey, Flying, job, lease
  <2>4. \A q \in Runners : AloneInv(p, q)' /\ AloneInv(q, p)'
    BY <2>1 DEF AloneInv, Flying
  <2>5. TypeOK' /\ Mild(p) /\ StatusKept /\ KeysInv'
    BY <1>3, <2>1, <2>2, Unseen
  <2> QED
    BY <2>1, <2>3, <2>4, <2>5, RunnerKeeps DEF RunnerKept
<1> QED
  BY <1>4, <1>5 DEF RetryAnswers

LEMMA SalvageStep == ASSUME IInv, NEW p \in Runners, Salvage(p) PROVE IInv'
<1>1. /\ RunnerInv(p) /\ p \in Procs /\ pc[p] = "next" /\ phase[p] = "salvage"
      /\ status \in Stopped
  BY DEF IInv, RunnersInv, Procs, Salvage, RunnerInv, LeaseInv
<1>2. /\ LocalsTyped /\ WorldTyped /\ JobTyped /\ rev[p] \in Revisions /\ revision \in Revisions
      /\ todo[p] \subseteq Steps
  BY <1>1, TypeParts DEF IInv, LocalsTyped, JobTyped
<1>3. UNCHANGED <<status, nextRun, revision, mode, step, result, polls,
                  lease, due, post, retries, kind, phase, touched, rev, unsure, saw>>
  BY DEF Salvage
<1>4. ~(rev[p] > revision)
  BY <1>1, <1>2 DEF RunnerInv, LabelInv, Revisions
<1>5. ASSUME NEW s \in todo[p], todo' = [todo EXCEPT ![p] = @ \ {s}], Reconcile(p, s),
             on' = [on EXCEPT ![p] = s], Goto(p, "record"), UNCHANGED blocked
      PROVE  IInv'
  <2>1. s \in Steps /\ KeyInv(s, rev[p]) /\ UNCHANGED job
    BY <1>2, <1>3, <1>5 DEF IInv, KeysInv, job
  <2>2. /\ claim' \in [Steps -> [Revisions -> Claims]]
        /\ AtItsKey(p, s) /\ KeyInv(s, rev[p])' /\ claim'[s][rev[p]] # "none"
        /\ claim[s][rev[p]] = "sent" => claim'[s][rev[p]] = "sent"
        /\ got' \in [Procs -> Outcomes \cup {"none"}] /\ TrueOf(got'[p], s, rev[p])
        /\ \A q \in Procs \ {p} : got'[q] = got[q]
    BY <1>1, <1>2, <1>3, <1>4, <1>5, <2>1, Reconciled
  <2>3. LocalsTyped'
    BY <1>1, <1>2, <1>3, <1>5, <2>1, <2>2 DEF LocalsTyped, Goto, Labels
  <2>4. Others(p) /\ pc'[p] = "record" /\ on'[p] = s /\ todo'[p] \subseteq todo[p]
    BY <1>1, <1>2, <1>3, <1>5, <2>2 DEF LocalsTyped, Goto, Others, Same
  <2>5. rev[p] = revision => step[s] \notin {"pending", "cancelled"}
    BY <1>1 DEF RunnerInv, WorkInv
  <2> QED
    BY <1>1, <1>3, <2>1, <2>2, <2>3, <2>4, <2>5, RecordsNext
<1>6. ASSUME NEW s \in todo[p], todo' = [todo EXCEPT ![p] = @ \ {s}],
             blocked' = IF Leased(p) THEN "error" ELSE blocked, UNCHANGED <<claim, got, on, pc>>
      PROVE  IInv'
  <2>1. LocalsTyped' /\ Others(p) /\ todo'[p] \subseteq todo[p]
    BY <1>1, <1>2, <1>3, <1>6 DEF LocalsTyped, Others, Same
  <2>2. JobTyped' /\ JobMild(p)
    BY <1>1, <1>2, <1>3, <1>6 DEF JobTyped, JobMild, Leased
  <2>3. RunnerInv(p)'
    BY <1>1, <1>3, <1>6, <2>1
    DEF RunnerInv, LabelInv, LeaseInv, WorkInv, TruthInv, AtKey, Flying, lease
  <2>4. UNCHANGED <<status, lease, world>> /\ pc'[p] \notin AtKey
    BY <1>1, <1>3, <1>6 DEF world, AtKey
  <2> QED
    BY <2>1, <2>2, <2>3, <2>4, RunnerWrites
<1> QED
  BY <1>5, <1>6 DEF Salvage

LEMMA PollStep == ASSUME IInv, NEW p \in Runners, Poll(p) PROVE IInv'
<1>1. /\ RunnerInv(p) /\ p \in Procs /\ pc[p] = "next" /\ phase[p] = "poll" /\ got[p] = "none"
  BY DEF IInv, RunnersInv, Procs, Poll, RunnerInv, LabelInv
<1>2. /\ LocalsTyped /\ WorldTyped /\ JobTyped /\ rev[p] \in Revisions /\ revision \in Revisions
      /\ todo[p] \subseteq Steps
  BY <1>1, TypeParts DEF IInv, LocalsTyped, JobTyped
<1>3. UNCHANGED <<job, lease, due, post, retries, kind, phase, rev, unsure, saw>>
  BY DEF Poll
<1>4. ~(rev[p] > revision) /\ revision' = revision
  BY <1>1, <1>2, <1>3 DEF RunnerInv, LabelInv, Revisions, job
<1>5. PICK s \in todo[p] :
         /\ on' = [on EXCEPT ![p] = s] /\ todo' = [todo EXCEPT ![p] = @ \ {s}]
         /\ touched' = [touched EXCEPT ![p] = @ \cup {s}]
         /\ Reconcile(p, s) \/ UNCHANGED <<claim, got>>
  BY DEF Poll
<1>6. s \in Steps /\ KeyInv(s, rev[p]) /\ Goto(p, "polled")
  BY <1>2, <1>5 DEF IInv, KeysInv, Poll
<1>7. /\ claim' \in [Steps -> [Revisions -> Claims]]
      /\ AtItsKey(p, s) /\ KeyInv(s, rev[p])'
      /\ claim'[s][rev[p]] # "none" \/ claim[s][rev[p]] = "none"
      /\ claim[s][rev[p]] = "sent" => claim'[s][rev[p]] = "sent"
      /\ got' \in [Procs -> Outcomes \cup {"none"}]
      /\ got'[p] = "none" \/ TrueOf(got'[p], s, rev[p])
      /\ \A q \in Procs \ {p} : got'[q] = got[q]
  <2>1. CASE Reconcile(p, s)
    BY <1>1, <1>2, <1>3, <1>4, <1>6, <2>1, Reconciled
  <2>2. CASE UNCHANGED <<claim, got>>
    BY <1>1, <1>2, <1>3, <1>4, <1>6, <2>2
    DEF KeyInv, MayAppear, AtItsKey, LocalsTyped, WorldTyped
  <2> QED
    BY <1>5, <2>1, <2>2
<1>8. LocalsTyped'
  BY <1>1, <1>2, <1>3, <1>5, <1>6, <1>7 DEF LocalsTyped, Goto, Labels
<1>9. Others(p) /\ pc'[p] = "polled" /\ on'[p] = s /\ todo'[p] \subseteq todo[p]
  BY <1>1, <1>2, <1>3, <1>5, <1>6, <1>7 DEF LocalsTyped, Goto, Others, Same
<1>10. RunnerInv(p)'
  BY <1>1, <1>2, <1>3, <1>6, <1>7, <1>9
  DEF RunnerInv, LabelInv, LeaseInv, WorkInv, TruthInv, AtKey, Flying, job, lease, TrueOf, Fixed,
      MayAppear
<1>11. \A q \in Runners : AloneInv(p, q)' /\ AloneInv(q, p)'
  BY <1>9 DEF AloneInv, Flying
<1>12. rev[p] = revision => step[s] \notin {"pending", "cancelled"}
  BY <1>1 DEF RunnerInv, WorkInv
<1>13. WorldTyped'
  BY <1>2, <1>3, <1>7 DEF WorldTyped
<1> QED
  BY <1>3, <1>6, <1>7, <1>8, <1>9, <1>10, <1>11, <1>12, <1>13, RunnerCalls DEF MayAppear

-----------------------------------------------------------------------------
(* Runners: the lease.                                                     *)

LEMMA ClaimStep == ASSUME IInv, NEW p \in Runners, NEW k \in Kinds, Claim(p, k) PROVE IInv'
<1>1. /\ RunnerInv(p) /\ p \in Procs /\ pc[p] = "idle" /\ got[p] = "none" /\ p # NoOne
      /\ k \in RunnerKinds
  BY SchedulerAssumption DEF IInv, RunnersInv, Procs, Claim, RunnerInv, LabelInv
<1>2. LocalsTyped /\ JobTyped /\ WorldTyped /\ revision \in Nat
  BY TypeParts DEF IInv, JobTyped, Revisions
<1>3. UNCHANGED <<status, nextRun, revision, mode, step, result, polls, world,
                  touched, on, got, unsure>>
  BY DEF Claim
<1>4. /\ Agenda(k) \subseteq Steps
      /\ \A s \in Agenda(k) : step[s] \in {"dispatching", "dispatched"}
      /\ FirstPhase(k) = "advance" => Agenda(k) = {}
      /\ FirstPhase(k) \in {"salvage", "retry", "advance"}
      /\ FirstPhase(k) = "salvage" => status \in Stopped
      /\ FirstPhase(k) = "retry" => Retries(k)
  BY DEF Agenda, FirstPhase, Stopped
<1>5. LocalsTyped'
  <2>1. kind' \in [Procs -> RunnerKinds \cup CallerKinds \cup {"none"}]
    BY <1>1, <1>2 DEF LocalsTyped, Claim, RunnerKinds
  <2>2. phase' \in [Procs -> Phases] /\ todo' \in [Procs -> SUBSET Steps]
    BY <1>2, <1>4 DEF LocalsTyped, Claim, Phases
  <2>3. pc' \in [Procs -> Labels] /\ rev' \in [Procs -> Revisions] /\ saw' \in [Procs -> BOOLEAN]
    BY <1>2 DEF LocalsTyped, JobTyped, WorldTyped, Claim, Goto, Labels
  <2> QED
    BY <1>2, <1>3, <2>1, <2>2, <2>3 DEF LocalsTyped
<1>6. /\ Others(p) /\ pc'[p] = "next" /\ rev'[p] = revision /\ got'[p] = "none"
      /\ phase'[p] = FirstPhase(k) /\ todo'[p] = Agenda(k)
  BY <1>1, <1>2 DEF LocalsTyped, Claim, Goto, Others, Same
<1>7. JobTyped' /\ JobMild(p)
  BY <1>2, <1>3 DEF JobTyped, JobMild, Claim, Retries
<1>8. LeaseTyped' /\ LeaseMild(p)
  BY <1>1, SchedulerAssumption DEF LeaseTyped, LeaseMild, Claim, Procs
<1>9. WorldTyped' /\ WorldMild(p) /\ KeysInv'
  BY <1>2, <1>3, WorldTypeKept, WorldUntouched, KeysUntouched DEF IInv, world
<1>10. TypeOK' /\ Mild(p) /\ StatusKept
  <2>1. TypeOK'
    BY <1>5, <1>7, <1>8, <1>9 DEF TypeOK, JobTyped, LeaseTyped, WorldTyped, LocalsTyped
  <2> QED
    BY <1>1, <1>7, <1>8, <1>9, <2>1 DEF Mild, StatusKept, Claim
<1>11. RunnerInv(p)'
  BY <1>1, <1>2, <1>3, <1>4, <1>6
  DEF RunnerInv, LabelInv, LeaseInv, WorkInv, TruthInv, AtKey, Flying, Claim, Retries
<1>12. \A q \in Runners : AloneInv(p, q)' /\ AloneInv(q, p)'
  BY <1>6 DEF AloneInv, Flying
<1> QED
  BY <1>6, <1>9, <1>10, <1>11, <1>12, RunnerKeeps DEF RunnerKept

LEMMA IdleRunner ==
    ASSUME NEW p, Idled(p), owner' # p, revision' \in Nat
    PROVE  RunnerInv(p)' /\ \A q \in Runners : AloneInv(p, q)' /\ AloneInv(q, p)'
<1>1. RunnerInv(p)'
  BY DEF RunnerInv, LabelInv, LeaseInv, WorkInv, TruthInv, Idled, AtKey, Flying
<1>2. \A q \in Runners : AloneInv(p, q)' /\ AloneInv(q, p)'
  BY DEF AloneInv, Flying, Idled
<1> QED
  BY <1>1, <1>2

(* Where every outcome is settled, nothing can appear any more.            *)
LEMMA SettledIsOver ==
    ASSUME IInv, \A s \in Steps : step[s] = "dispatched" /\ ~hasUnresolved(s)
    PROVE  \A s \in Steps : /\ step[s] = "dispatched" /\ ~Unresolved(result[s])
                            /\ \A r \in Revisions : post[s][r] # "live"
<1> SUFFICES ASSUME NEW s \in Steps, NEW r \in Revisions PROVE post[s][r] # "live"
  BY DEF hasUnresolved
<1>1. KeyInv(s, r) /\ StepInv(s) /\ step[s] = "dispatched" /\ ~Unresolved(result[s])
  BY DEF IInv, KeysInv, StepsInv, hasUnresolved
<1>2. result[s] \in Outcomes
  BY <1>1 DEF IInv, TypeOK
<1> QED
  BY <1>1, <1>2 DEF KeyInv, StepInv, MayAppear, Fixed, Unresolved, Outcomes

LEMMA ReleaseStep == ASSUME IInv, NEW p \in Runners, Release(p) PROVE IInv'
<1> DEFINE pending == \E s \in Steps : step[s] # "dispatched" \/ hasUnresolved(s)
           next == NextOnRelease(saw[p])
<1>1. p \in Procs /\ p # NoOne /\ NoOne \notin Procs
  BY SchedulerAssumption DEF Procs
<1>2. LocalsTyped /\ JobTyped /\ WorldTyped /\ LeaseTyped /\ revision \in Nat
  BY TypeParts DEF IInv, JobTyped, Revisions
<1>3. Others(p) /\ Idled(p) /\ LocalsTyped'
  BY <1>1, <1>2, Finished DEF Release
<1>4. UNCHANGED <<blocked, revision, mode, step, result, polls, world>>
  BY DEF Release
<1>5. CASE ~Leased(p)
  <2>1. UNCHANGED <<job, lease, world>> /\ owner' # p
    BY <1>4, <1>5 DEF Release, Leased, job, lease
  <2>2. RunnerInv(p)' /\ pc'[p] \notin AtKey
    BY <1>2, <1>3, <1>4, <2>1, IdleRunner DEF Idled, AtKey
  <2> QED
    BY <1>3, <2>1, <2>2, LocalStep
<1>6. CASE Leased(p)
  <2>1. /\ owner = p /\ owner' = NoOne /\ live' = FALSE
        /\ nextRun' = IF status \in Stopped THEN "none" ELSE next
        /\ status' = IF status \in Stopped THEN status ELSE StatusOnRelease(pending, next)
    BY <1>6 DEF Release, Leased
  <2>2. /\ next \in {"none", "soon", "runAt"}
        /\ StatusOnRelease(pending, next) \in {"completed", "blocked", "running", "scheduled"}
        /\ StatusOnRelease(pending, next) = "completed" => ~pending /\ blocked = "none"
    BY DEF NextOnRelease, StatusOnRelease
  <2> HIDE DEF next, pending
  <2>3. JobTyped' /\ JobMild(p)
    BY <1>2, <1>4, <2>1, <2>2 DEF JobTyped, JobMild, Statuses
  <2>4. LeaseTyped' /\ LeaseMild(p)
    BY <1>1, <2>1 DEF LeaseTyped, LeaseMild, Procs
  <2>5. WorldTyped' /\ WorldMild(p) /\ KeysInv'
    BY <1>2, <1>4, WorldTypeKept, WorldUntouched, KeysUntouched DEF IInv, world
  <2>6. TypeOK'
    BY <1>3, <2>3, <2>4, <2>5 DEF TypeOK, JobTyped, LeaseTyped, WorldTyped, LocalsTyped
  <2>7. CancelledIsQuiet'
    <3>1. status' = "cancelled" => status = "cancelled"
      BY <2>1, <2>2
    <3> QED
      BY <2>3, <2>4, <2>5, <2>6, <3>1, QuietOnward DEF Mild
  <2>8. CompletedIsOver'
    <3> SUFFICES ASSUME status' = "completed"
                 PROVE  /\ blocked' = "none"
                        /\ \A s \in Steps : step'[s] = "dispatched" /\ ~Unresolved(result'[s])
                        /\ \A s \in Steps, r \in Revisions : post'[s][r] # "live"
      BY DEF CompletedIsOver
    <3>1. ~pending /\ blocked = "none"
      BY <2>1, <2>2 DEF Stopped
    <3>2. \A s \in Steps : step[s] = "dispatched" /\ ~hasUnresolved(s)
      BY <3>1 DEF pending
    <3> QED
      BY <1>4, <3>1, <3>2, SettledIsOver DEF world
  <2>9. RunnerInv(p)' /\ \A q \in Runners : AloneInv(p, q)' /\ AloneInv(q, p)'
    BY <1>1, <1>2, <1>3, <1>4, <2>1, IdleRunner
  <2> QED
    BY <1>3, <2>3, <2>4, <2>5, <2>6, <2>7, <2>8, <2>9, RunnerFits DEF Mild
<1> QED
  BY <1>5, <1>6

(* A call that ends is seen by nobody, but for a lease it leaves behind.   *)
LEMMA Leaves ==
    ASSUME IInv, NEW p \in Procs, Abandon(p), Finish(p), UNCHANGED <<job, live, world>>
    PROVE  /\ TypeOK' /\ Mild(p) /\ StatusKept /\ KeysInv' /\ Others(p) /\ Idled(p)
           /\ owner' # p /\ revision' \in Nat
<1>1. Gone \notin Procs /\ p # NoOne /\ Gone # NoOne
  BY SchedulerAssumption
<1>2. LocalsTyped /\ JobTyped /\ WorldTyped /\ LeaseTyped /\ revision \in Nat
  BY TypeParts DEF IInv, JobTyped, Revisions
<1>3. Others(p) /\ Idled(p) /\ LocalsTyped'
  BY <1>2, Finished
<1>4. owner' = IF owner = p THEN Gone ELSE owner
  BY DEF Abandon
<1>5. JobTyped' /\ JobMild(p) /\ LeaseTyped' /\ LeaseMild(p)
  BY <1>1, <1>2, <1>4, JobTypeKept, JobUntouched DEF LeaseTyped, LeaseMild, Procs
<1>6. WorldTyped' /\ WorldMild(p) /\ KeysInv'
  BY <1>2, WorldTypeKept, WorldUntouched, KeysUntouched DEF IInv, world, job
<1>7. TypeOK'
  BY <1>3, <1>5, <1>6 DEF TypeOK, JobTyped, LeaseTyped, WorldTyped, LocalsTyped
<1> QED
  BY <1>1, <1>2, <1>3, <1>4, <1>5, <1>6, <1>7 DEF Mild, StatusKept, job, world

LEMMA RunnerDies == ASSUME IInv, NEW p \in Runners, Crash(p) PROVE IInv'
<1>1. p \in Procs
  BY DEF Procs
<1>2. /\ TypeOK' /\ Mild(p) /\ StatusKept /\ KeysInv' /\ Others(p) /\ Idled(p)
      /\ owner' # p /\ revision' \in Nat
  BY <1>1, Leaves DEF Crash
<1> QED
  BY <1>2, IdleRunner, RunnerKeeps DEF RunnerKept

-----------------------------------------------------------------------------
(* Callers.                                                                *)

LEMMA IdleCaller ==
    ASSUME NEW p, Idled(p), owner' # p, revision' \in Nat
    PROVE  CallerInv(p)'
BY DEF CallerInv, MoverInv, WithdrawInv, Idled

LEMMA CallerLeaves ==
    ASSUME IInv, NEW p \in Callers, Abandon(p), Finish(p), UNCHANGED <<job, live, world>>
    PROVE  IInv'
<1>1. p \in Procs
  BY DEF Procs
<1>2. /\ TypeOK' /\ Mild(p) /\ StatusKept /\ KeysInv' /\ Others(p) /\ Idled(p)
      /\ owner' # p /\ revision' \in Nat
  BY <1>1, Leaves
<1> QED
  BY <1>2, IdleCaller, QuietOnward, CallerKeeps DEF CallerKept, StatusKept

(* A step of a caller that does not decide that the job is over.           *)
LEMMA CallerActs ==
    ASSUME IInv, NEW p \in Callers, JobTyped', LeaseTyped', WorldTyped', LocalsTyped',
           JobMild(p), LeaseMild(p), WorldMild(p), KeysInv', Others(p), CallerInv(p)', StatusKept
    PROVE  IInv'
<1>1. TypeOK' /\ Mild(p)
  BY DEF TypeOK, JobTyped, LeaseTyped, WorldTyped, LocalsTyped, Mild
<1>2. CancelledIsQuiet'
  BY <1>1, QuietOnward DEF StatusKept
<1> QED
  BY <1>1, <1>2, CallerKeeps DEF CallerKept, StatusKept

LEMMA WorldAlone ==
    ASSUME IInv, UNCHANGED <<world, revision>>, NEW p
    PROVE  WorldTyped' /\ WorldMild(p) /\ KeysInv'
BY TypeParts, WorldTypeKept, WorldUntouched, KeysUntouched DEF IInv, world

LEMMA WithdrawingLocals ==
    ASSUME LocalsTyped, JobTyped, NEW p \in Procs, Withdrawing(p)
    PROVE  /\ todo' \in [Procs -> SUBSET Steps] /\ touched' \in [Procs -> SUBSET Steps]
           /\ unsure' \in [Procs -> BOOLEAN] /\ rev' \in [Procs -> Revisions]
           /\ todo'[p] = Scheduled /\ touched'[p] = {} /\ rev'[p] = revision
           /\ ~unsure'[p] => \A s \in Steps : step[s] # "dispatching" /\
                                 (hasUnresolved(s) => s \in Scheduled)
           /\ \A q \in Procs \ {p} : /\ todo'[q] = todo[q] /\ touched'[q] = touched[q]
                                     /\ unsure'[q] = unsure[q] /\ rev'[q] = rev[q]
BY DEF Withdrawing, LocalsTyped, JobTyped, Scheduled

LEMMA CancelFenceStep ==
    ASSUME IInv, NEW p \in Callers, CancelFence(p), owner # p PROVE IInv'
<1>1. CallerInv(p) /\ p \in Procs
  BY DEF IInv, CallersInv, Procs
<1>2. LocalsTyped /\ JobTyped /\ revision \in Nat
  BY TypeParts DEF IInv, JobTyped, Revisions
<1>3. /\ status' = "cancel-unresolved" /\ kind' = [kind EXCEPT ![p] = "cancel"]
      /\ Goto(p, "withdraw") /\ Withdrawing(p)
      /\ step' = [s \in Steps |-> FenceStep(s)]
      /\ UNCHANGED <<blocked, revision, mode, result, polls, lease, world, phase, on, got, saw>>
  BY DEF CancelFence
<1>4. /\ todo'[p] = Scheduled /\ touched'[p] = {} /\ rev'[p] = revision
      /\ ~unsure'[p] => \A s \in Steps : step[s] # "dispatching" /\
                            (hasUnresolved(s) => s \in Scheduled)
  BY <1>1, <1>2, <1>3, WithdrawingLocals
<1>5. LocalsTyped'
  <2>1. /\ todo' \in [Procs -> SUBSET Steps] /\ touched' \in [Procs -> SUBSET Steps]
        /\ unsure' \in [Procs -> BOOLEAN] /\ rev' \in [Procs -> Revisions]
    BY <1>1, <1>2, <1>3, WithdrawingLocals
  <2> QED
    BY <1>2, <1>3, <2>1 DEF LocalsTyped, Goto, Labels, CallerKinds
<1>6. Others(p) /\ pc'[p] = "withdraw" /\ kind'[p] = "cancel" /\ phase'[p] = "none"
  <2>1. \A q \in Procs \ {p} : /\ todo'[q] = todo[q] /\ touched'[q] = touched[q]
                               /\ unsure'[q] = unsure[q] /\ rev'[q] = rev[q]
    BY <1>1, <1>2, <1>3, WithdrawingLocals
  <2> QED
    BY <1>1, <1>2, <1>3, <2>1 DEF LocalsTyped, Goto, Others, Same, CallerInv
<1>7. \A s \in Steps : step'[s] = IF step[s] = "pending" THEN "cancelled" ELSE step[s]
  BY <1>3 DEF FenceStep
<1>8. JobTyped'
  BY <1>2, <1>3, <1>7 DEF JobTyped, Statuses, CancelFence
<1>9. JobMild(p)
  BY <1>3, <1>7 DEF JobMild, Fences, Stopped
<1>10. LeaseTyped' /\ LeaseMild(p) /\ StatusKept
  BY <1>3, TypeParts, LeaseUntouched DEF IInv, LeaseTyped, StatusKept, lease
<1>11. WithdrawInv(p)'
  <2>1. ASSUME NEW s \in Steps, ~unsure'[p]
        PROVE  step'[s] # "dispatching" /\ (s \in todo'[p] \/ post'[s][revision'] # "live")
    <3>1. /\ StepInv(s) /\ KeyInv(s, revision) /\ step'[s] # "dispatching"
          /\ UNCHANGED <<post, revision>>
      BY <1>2, <1>3, <1>4, <1>7, <2>1 DEF IInv, StepsInv, KeysInv, JobTyped, world
    <3>2. CASE step[s] \in {"pending", "cancelled"}
      BY <3>1, <3>2 DEF StepInv, KeyInv
    <3>3. CASE step[s] = "dispatched"
      <4>1. result[s] \in Outcomes
        BY <1>2, <3>3 DEF JobTyped
      <4> QED
        BY <1>4, <2>1, <3>1, <3>3, <4>1
        DEF StepInv, MayAppear, Fixed, hasUnresolved, Unresolved, Outcomes
    <3> QED
      BY <1>2, <1>4, <2>1, <3>1, <3>2, <3>3 DEF JobTyped
  <2>2. \A s \in todo'[p] \cup touched'[p] : step'[s] = "dispatched"
    BY <1>4, <1>7 DEF Scheduled
  <2> QED
    BY <1>3, <1>4, <1>6, <2>1, <2>2 DEF WithdrawInv, Stopped
<1>12. CallerInv(p)'
  BY <1>2, <1>3, <1>4, <1>6, <1>11 DEF CallerInv, MoverInv, lease
<1> QED
  BY <1>3, <1>5, <1>6, <1>8, <1>9, <1>10, <1>12, WorldAlone, CallerActs

LEMMA CancelStep == ASSUME IInv, NEW p \in Callers, Cancel(p) PROVE IInv'
<1>1. owner # p
  BY DEF IInv, CallersInv, CallerInv, MoverInv, Cancel
<1> QED
  BY <1>1, CancelFenceStep DEF Cancel

LEMMA RescheduleCancelsStep == ASSUME IInv, NEW p \in Callers, RescheduleCancels(p) PROVE IInv'
<1>1. owner # p /\ p \in Procs
  BY DEF IInv, CallersInv, CallerInv, MoverInv, RescheduleCancels, Procs
<1>2. CASE CancelFence(p)
  BY <1>1, <1>2, CancelFenceStep
<1>3. CASE Finish(p) /\ UNCHANGED <<job, lease, world>>
  <2>1. LocalsTyped /\ JobTyped /\ revision \in Nat
    BY TypeParts DEF IInv, JobTyped, Revisions
  <2>2. LocalsTyped' /\ Others(p) /\ Idled(p)
    BY <1>1, <1>3, <2>1, Finished
  <2>3. TypeOK' /\ Mild(p) /\ StatusKept /\ KeysInv'
    BY <1>3, <2>2, Unseen
  <2>4. CallerInv(p)'
    BY <1>1, <1>3, <2>1, <2>2, IdleCaller DEF job, lease
  <2> QED
    BY <2>2, <2>3, <2>4, QuietOnward, CallerKeeps DEF CallerKept, StatusKept
<1> QED
  BY <1>2, <1>3 DEF RescheduleCancels

(* One copy at most is withdrawn, confirmed or not.                        *)
Withdrawn(p, s) ==
    /\ s \in todo[p] /\ s \in Steps /\ todo' = [todo EXCEPT ![p] = @ \ {s}]
    /\ UNCHANGED <<job, lease, due, claim, retries, pc, kind, phase, on, rev, got, saw>>
    /\ \A t \in Steps, r \in Revisions :
          \/ post'[t][r] = post[t][r]
          \/ t = s /\ r = rev[p] /\ post[t][r] \in {"live", "dead"} /\ post'[t][r] = "dead"
    /\ todo'[p] = todo[p] \ {s}
    /\ \/ touched'[p] = touched[p] \cup {s} /\ unsure'[p] = unsure[p] /\ post'[s][rev[p]] = "dead"
       \/ touched'[p] = touched[p] /\ unsure'[p] = TRUE
    /\ LocalsTyped' /\ WorldTyped' /\ Others(p)

LEMMA CopyWithdrawn ==
    ASSUME LocalsTyped, WorldTyped, NEW p \in Procs, WithdrawCopy(p)
    PROVE  \E s \in Steps : Withdrawn(p, s)
<1>1. p \in Procs
  OBVIOUS
<1>2. LocalsTyped /\ WorldTyped /\ rev[p] \in Revisions
  BY DEF LocalsTyped
<1>3. UNCHANGED <<job, lease, due, claim, retries, pc, kind, phase, on, rev, got, saw>>
  BY DEF WithdrawCopy
<1>4. PICK s \in todo[p] :
         /\ todo' = [todo EXCEPT ![p] = @ \ {s}]
         /\ \/ /\ post[s][rev[p]] \in {"live", "dead"}
               /\ post' = [post EXCEPT ![s][rev[p]] = "dead"]
               /\ touched' = [touched EXCEPT ![p] = @ \cup {s}] /\ UNCHANGED unsure
            \/ /\ post' \in {post, [post EXCEPT ![s][rev[p]] = IF @ = "live" THEN "dead" ELSE @]}
               /\ unsure' = [unsure EXCEPT ![p] = TRUE] /\ UNCHANGED touched
  BY DEF WithdrawCopy
<1>5. s \in Steps
  BY <1>1, <1>2, <1>4 DEF LocalsTyped
<1>6. /\ post' \in [Steps -> [Revisions -> Copies]]
      /\ \A t \in Steps, r \in Revisions :
            \/ post'[t][r] = post[t][r]
            \/ t = s /\ r = rev[p] /\ post[t][r] \in {"live", "dead"} /\ post'[t][r] = "dead"
  <2>1. CASE post' = post
    BY <1>2, <2>1 DEF WorldTyped
  <2>2. CASE post[s][rev[p]] \in {"live", "dead"} /\ post' = [post EXCEPT ![s][rev[p]] = "dead"]
    BY <1>2, <1>5, <2>2 DEF WorldTyped, Copies
  <2>3. CASE post' = [post EXCEPT ![s][rev[p]] = IF @ = "live" THEN "dead" ELSE @]
    <3>1. post[s][rev[p]] \in Copies /\ "dead" \in Copies
      BY <1>2, <1>5 DEF WorldTyped, Copies
    <3>2. CASE post[s][rev[p]] = "live"
      <4>1. post' = [post EXCEPT ![s][rev[p]] = "dead"]
        BY <2>3, <3>2
      <4> QED
        BY <1>2, <1>5, <3>1, <3>2, <4>1 DEF WorldTyped
    <3>3. CASE post[s][rev[p]] # "live"
      <4>1. post' = post
        BY <1>2, <1>5, <2>3, <3>3 DEF WorldTyped
      <4> QED
        BY <1>2, <4>1 DEF WorldTyped
    <3> QED
      BY <3>2, <3>3
  <2> QED
    BY <1>4, <2>1, <2>2, <2>3
<1>7. \/ /\ touched' = [touched EXCEPT ![p] = @ \cup {s}] /\ UNCHANGED unsure
         /\ post'[s][rev[p]] = "dead"
      \/ unsure' = [unsure EXCEPT ![p] = TRUE] /\ UNCHANGED touched
  BY <1>2, <1>4, <1>5 DEF WorldTyped
<1>8. /\ todo'[p] = todo[p] \ {s}
      /\ \/ touched'[p] = touched[p] \cup {s} /\ unsure'[p] = unsure[p] /\ post'[s][rev[p]] = "dead"
         \/ touched'[p] = touched[p] /\ unsure'[p] = TRUE
  BY <1>1, <1>2, <1>4, <1>7 DEF LocalsTyped
<1>9. LocalsTyped' /\ Others(p)
  <2>1. /\ todo' \in [Procs -> SUBSET Steps] /\ \A q \in Procs \ {p} : todo'[q] = todo[q]
    BY <1>2, <1>4 DEF LocalsTyped
  <2>2. /\ touched' \in [Procs -> SUBSET Steps] /\ unsure' \in [Procs -> BOOLEAN]
        /\ \A q \in Procs \ {p} : touched'[q] = touched[q] /\ unsure'[q] = unsure[q]
    <3>1. CASE touched' = [touched EXCEPT ![p] = @ \cup {s}] /\ UNCHANGED unsure
      BY <1>1, <1>2, <1>5, <3>1 DEF LocalsTyped
    <3>2. CASE unsure' = [unsure EXCEPT ![p] = TRUE] /\ UNCHANGED touched
      BY <1>1, <1>2, <3>2 DEF LocalsTyped
    <3> QED
      BY <1>7, <3>1, <3>2
  <2> QED
    BY <1>2, <1>3, <2>1, <2>2 DEF LocalsTyped, Others, Same
<1>10. WorldTyped'
  BY <1>2, <1>3, <1>6 DEF WorldTyped
<1> QED
  BY <1>3, <1>4, <1>5, <1>6, <1>8, <1>9, <1>10 DEF Withdrawn

LEMMA WithdrawCopyStep == ASSUME IInv, NEW p \in Callers, WithdrawCopy(p) PROVE IInv'
<1>1. CallerInv(p) /\ p \in Procs /\ pc[p] = "withdraw" /\ p \notin Runners
  BY SchedulerAssumption DEF IInv, CallersInv, Procs, WithdrawCopy
<1>2. LocalsTyped /\ JobTyped /\ WorldTyped /\ LeaseTyped /\ rev[p] \in Revisions
  BY <1>1, TypeParts DEF IInv, LocalsTyped
<1>3. UNCHANGED <<job, lease, due, claim, retries, pc, kind, phase, on, rev, got, saw>>
  BY DEF WithdrawCopy
<1>4. PICK s \in Steps : Withdrawn(p, s)
  BY <1>1, <1>2, CopyWithdrawn
<1>5. /\ WorldTyped' /\ s \in todo[p]
      /\ \A t \in Steps, r \in Revisions :
            \/ post'[t][r] = post[t][r]
            \/ t = s /\ r = rev[p] /\ post[t][r] \in {"live", "dead"} /\ post'[t][r] = "dead"
  BY <1>4 DEF Withdrawn
<1>6. /\ todo'[p] = todo[p] \ {s}
      /\ \/ touched'[p] = touched[p] \cup {s} /\ unsure'[p] = unsure[p] /\ post'[s][rev[p]] = "dead"
         \/ touched'[p] = touched[p] /\ unsure'[p] = TRUE
  BY <1>4 DEF Withdrawn
<1>7. LocalsTyped' /\ Others(p)
  BY <1>4 DEF Withdrawn
<1>8. JobTyped' /\ JobMild(p) /\ LeaseTyped' /\ LeaseMild(p) /\ StatusKept
  BY <1>2, <1>3, JobTypeKept, JobUntouched, LeaseUntouched DEF LeaseTyped, lease, job, StatusKept
<1>9. WorldTyped' /\ WorldMild(p)
  BY <1>2, <1>3, <1>5 DEF WorldMild, MayAppear
<1>10. KeysInv'
  BY <1>3, <1>5 DEF IInv, KeysInv, KeyInv, MayAppear, job
<1>11. MoverInv(p)'
  <2>1. ASSUME owner' = p, status' \notin Stopped, NEW t \in Steps
        PROVE  Quieted(p, t)' \/ unsure'[p]
    <3>1. Quieted(p, t) \/ unsure[p]
      BY <1>1, <1>3, <2>1 DEF CallerInv, MoverInv, job, lease
    <3> QED
      BY <1>3, <1>6, <3>1 DEF Quieted, job
  <2> QED
    BY <1>1, <1>3, <2>1 DEF CallerInv, MoverInv, job, lease
<1>12. WithdrawInv(p)'
  <2>1. ASSUME rev'[p] = revision'
        PROVE  /\ status' \in Stopped \/ blocked' = "interrupted"
               /\ \A t \in todo'[p] \cup touched'[p] : step'[t] = "dispatched"
               /\ \A t \in touched'[p] : ~MayAppear(t, revision)'
    <3>1. /\ status \in Stopped \/ blocked = "interrupted"
          /\ \A t \in todo[p] \cup touched[p] : step[t] = "dispatched"
          /\ \A t \in touched[p] : ~MayAppear(t, revision)
          /\ rev[p] = revision /\ touched[p] \subseteq Steps
      BY <1>1, <1>2, <1>3, <2>1 DEF CallerInv, WithdrawInv, job, LocalsTyped
    <3>2. \A t \in touched[p] : ~MayAppear(t, revision)'
      BY <1>2, <1>3, <1>5, <3>1 DEF MayAppear, job
    <3> QED
      BY <1>3, <1>5, <1>6, <3>1, <3>2 DEF MayAppear, job
  <2>2. ASSUME kind'[p] = "cancel", ~unsure'[p], NEW t \in Steps
        PROVE  step'[t] # "dispatching" /\ (t \in todo'[p] \/ post'[t][revision'] # "live")
    BY <1>1, <1>2, <1>3, <1>5, <1>6, <2>2 DEF CallerInv, WithdrawInv, job
  <2> QED
    BY <1>1, <1>3, <2>1, <2>2 DEF CallerInv, WithdrawInv, job
<1>13. CallerInv(p)'
  BY <1>1, <1>3, <1>11, <1>12 DEF CallerInv, job
<1> QED
  BY <1>7, <1>8, <1>9, <1>10, <1>13, CallerActs

(* What a saved withdrawal says is so.                                     *)
LEMMA Confirmed ==
    ASSUME IInv, NEW p \in Callers, pc[p] = "withdraw", SaveConfirmed(p),
           UNCHANGED <<post, revision, step>>
    PROVE  /\ result' \in [Steps -> Outcomes \cup {"none"}]
           /\ \A s \in Steps : step'[s] = "dispatched" <=> result'[s] # "none"
           /\ \A s \in Steps : result'[s] # result[s] => result'[s] = "final" /\ TrueResult(s)
<1>1. WithdrawInv(p) /\ JobTyped
  BY TypeParts DEF IInv, CallersInv, CallerInv
<1>2. \A s \in Steps : /\ result'[s] = IF Confirms(p, s) THEN "final" ELSE result[s]
                       /\ Confirms(p, s) => step[s] = "dispatched" /\ ~MayAppear(s, revision)
  BY <1>1 DEF SaveConfirmed, Confirms, Scheduled, WithdrawInv
<1>3. result' \in [Steps -> Outcomes \cup {"none"}]
  BY <1>1 DEF SaveConfirmed, JobTyped, Outcomes
<1> QED
  BY <1>1, <1>2, <1>3 DEF JobTyped, TrueResult, MayAppear

LEMMA CancelFinalStep == ASSUME IInv, NEW p \in Callers, CancelFinal(p) PROVE IInv'
<1>1. /\ CallerInv(p) /\ p \in Procs /\ pc[p] = "withdraw" /\ kind[p] = "cancel" /\ todo[p] = {}
  BY DEF IInv, CallersInv, Procs, CancelFinal
<1>2. LocalsTyped /\ JobTyped /\ WorldTyped /\ LeaseTyped /\ revision \in Nat
  BY TypeParts DEF IInv, JobTyped, Revisions
<1>3. /\ UNCHANGED <<blocked, nextRun, revision, mode, step, polls, lease, world>>
      /\ status' = FinalStatus(p) /\ SaveConfirmed(p) /\ Finish(p)
  BY DEF CancelFinal
<1>4. owner # p /\ status \in Stopped /\ status' \in Stopped
  BY <1>1, <1>3 DEF CallerInv, MoverInv, WithdrawInv, FinalStatus, Stopped
<1>5. /\ result' \in [Steps -> Outcomes \cup {"none"}]
      /\ \A s \in Steps : step'[s] = "dispatched" <=> result'[s] # "none"
      /\ \A s \in Steps : result'[s] # result[s] => result'[s] = "final" /\ TrueResult(s)
  BY <1>1, <1>3, Confirmed DEF world
<1>6. LocalsTyped' /\ Others(p) /\ Idled(p)
  BY <1>1, <1>2, <1>3, Finished
<1>7. JobTyped'
  BY <1>2, <1>3, <1>4, <1>5 DEF JobTyped, Statuses, Stopped
<1>8. JobMild(p)
  BY <1>3, <1>4, <1>5 DEF JobMild, Fixed, Stopped
<1>9. LeaseTyped' /\ LeaseMild(p)
  BY <1>2, <1>3, LeaseUntouched DEF LeaseTyped, lease
<1>10. WorldTyped' /\ WorldMild(p) /\ KeysInv'
  BY <1>3, WorldAlone
<1>11. TypeOK'
  BY <1>6, <1>7, <1>9, <1>10 DEF TypeOK, JobTyped, LeaseTyped, WorldTyped, LocalsTyped
<1>12. CancelledIsQuiet'
  <2> SUFFICES ASSUME status' = "cancelled", NEW s \in Steps, NEW r \in Revisions
               PROVE  step'[s] # "dispatching" /\ post'[s][r] # "live"
    <3>1. 0 \in Revisions
      BY SchedulerAssumption DEF Revisions
    <3> QED
      BY <3>1 DEF CancelledIsQuiet
  <2>1. ~unsure[p]
    BY <1>3 DEF FinalStatus
  <2>2. step[s] # "dispatching" /\ post[s][revision] # "live"
    BY <1>1, <2>1 DEF CallerInv, WithdrawInv
  <2>3. r # revision => ~MayAppear(s, r)
    BY DEF IInv, KeysInv, KeyInv
  <2> QED
    BY <1>3, <2>2, <2>3 DEF MayAppear, world
<1>13. CallerInv(p)'
  BY <1>2, <1>3, <1>4, <1>6, IdleCaller DEF lease
<1> QED
  BY <1>4, <1>6, <1>8, <1>9, <1>10, <1>11, <1>12, <1>13, CallerKeeps
  DEF CallerKept, Mild, Stopped

(* A moving job has no step in flight, and its copies are all known.       *)
LEMMA RescheduleStep == ASSUME IInv, NEW p \in Callers, Reschedule(p) PROVE IInv'
<1>1. CallerInv(p) /\ p \in Procs /\ pc[p] = "idle" /\ p # NoOne
  BY SchedulerAssumption DEF IInv, CallersInv, Procs, Reschedule
<1>2. LocalsTyped /\ JobTyped /\ WorldTyped /\ LeaseTyped /\ revision \in Nat
  BY TypeParts DEF IInv, JobTyped, Revisions
<1>3. /\ MayReschedule /\ revision < MaxRevision /\ owner' = p /\ live' = TRUE
      /\ kind' = [kind EXCEPT ![p] = "reschedule"] /\ Goto(p, "check") /\ Withdrawing(p)
      /\ UNCHANGED <<job, world, phase, on, got, saw>>
  BY DEF Reschedule
<1>4. todo'[p] = Scheduled /\ touched'[p] = {} /\ rev'[p] = revision
  BY <1>1, <1>2, <1>3, WithdrawingLocals
<1>5. LocalsTyped'
  <2>1. /\ todo' \in [Procs -> SUBSET Steps] /\ touched' \in [Procs -> SUBSET Steps]
        /\ unsure' \in [Procs -> BOOLEAN] /\ rev' \in [Procs -> Revisions]
    BY <1>1, <1>2, <1>3, WithdrawingLocals
  <2> QED
    BY <1>2, <1>3, <2>1 DEF LocalsTyped, Goto, Labels, CallerKinds
<1>6. Others(p) /\ pc'[p] = "check" /\ kind'[p] = "reschedule" /\ phase'[p] = "none"
  <2>1. \A q \in Procs \ {p} : /\ todo'[q] = todo[q] /\ touched'[q] = touched[q]
                               /\ unsure'[q] = unsure[q] /\ rev'[q] = rev[q]
    BY <1>1, <1>2, <1>3, WithdrawingLocals
  <2> QED
    BY <1>1, <1>2, <1>3, <2>1 DEF LocalsTyped, Goto, Others, Same, CallerInv
<1>7. JobTyped' /\ JobMild(p)
  BY <1>2, <1>3, JobTypeKept, JobUntouched
<1>8. LeaseTyped' /\ LeaseMild(p) /\ StatusKept
  BY <1>1, <1>3, SchedulerAssumption
  DEF LeaseTyped, LeaseMild, StatusKept, MayReschedule, Procs, job
<1>9. /\ \A s \in Steps : step[s] # "dispatching"
      /\ status \notin Stopped /\ status # "completed"
      /\ \A s \in Steps : step[s] = "dispatched" => /\ Native(s)
                                                    /\ result[s] \notin {"published", "unknown"}
  BY <1>3 DEF MayReschedule, hasDispatchedRuntime
<1>10. ASSUME NEW s \in Steps
       PROVE  \/ step[s] = "pending"
              \/ step[s] = "dispatched" /\ (s \in Scheduled \/ Fixed(result[s]))
  <2>1. StepInv(s)
    BY DEF IInv, StepsInv
  <2>2. step[s] \in {"pending", "dispatched"}
    BY <1>2, <1>9, <2>1 DEF StepInv, JobTyped
  <2>3. step[s] = "dispatched" => result[s] \in Outcomes
    BY <1>2 DEF JobTyped
  <2> QED
    BY <1>9, <2>2, <2>3 DEF Scheduled, Fixed, Outcomes
<1>11. MoverInv(p)'
  <2>1. ASSUME NEW s \in Steps
        PROVE  Quieted(p, s)' /\ (step'[s] = "dispatched" => Native(s)')
    BY <1>3, <1>4, <1>9, <1>10 DEF Quieted, Native, job
  <2> QED
    BY <1>3, <1>4, <1>6, <1>9, <2>1 DEF MoverInv, job, Scheduled
<1>12. CallerInv(p)'
  BY <1>2, <1>3, <1>4, <1>6, <1>11 DEF CallerInv, WithdrawInv, job
<1> QED
  BY <1>3, <1>5, <1>6, <1>7, <1>8, <1>12, WorldAlone, CallerActs DEF job

LEMMA Unfenced ==
    ASSUME IInv, NEW p \in Callers, Unfence(p), UNCHANGED status
    PROVE  LeaseTyped' /\ LeaseMild(p) /\ StatusKept /\ owner' # p
<1>1. NoOne \notin Procs /\ p \in Procs /\ CallerInv(p) /\ LeaseTyped
  BY SchedulerAssumption, TypeParts DEF IInv, CallersInv, Procs
<1>2. owner = p => status # "completed"
  BY <1>1 DEF CallerInv, MoverInv
<1> QED
  BY <1>1, <1>2 DEF Unfence, LeaseTyped, LeaseMild, StatusKept, Procs

LEMMA RescheduleFailsStep == ASSUME IInv, NEW p \in Callers, RescheduleFails(p) PROVE IInv'
<1>1. p \in Procs
  BY DEF Procs
<1>2. LocalsTyped /\ JobTyped /\ revision \in Nat
  BY TypeParts DEF IInv, JobTyped, Revisions
<1>3. LocalsTyped' /\ Others(p) /\ Idled(p)
  BY <1>1, <1>2, Finished DEF RescheduleFails
<1>4. UNCHANGED <<job, world>> /\ Unfence(p)
  BY DEF RescheduleFails
<1>5. LeaseTyped' /\ LeaseMild(p) /\ StatusKept /\ owner' # p
  BY <1>4, Unfenced DEF job
<1>6. JobTyped' /\ JobMild(p)
  BY <1>2, <1>4, JobTypeKept, JobUntouched
<1>7. CallerInv(p)'
  BY <1>2, <1>3, <1>4, <1>5, IdleCaller DEF job
<1> QED
  BY <1>3, <1>4, <1>5, <1>6, <1>7, WorldAlone, CallerActs DEF job

LEMMA RescheduleUnfencesStep ==
    ASSUME IInv, NEW p \in Callers, RescheduleUnfences(p) PROVE IInv'
<1>1. p \in Procs /\ CallerInv(p) /\ pc[p] = "release"
  BY DEF Procs, IInv, CallersInv, RescheduleUnfences
<1>2. LocalsTyped /\ JobTyped
  BY TypeParts DEF IInv
<1>3. /\ UNCHANGED <<job, world, pc, phase, todo, touched, on, rev, got, unsure, saw>>
      /\ Unfence(p) /\ kind' = [kind EXCEPT ![p] = "cancel"]
  BY DEF RescheduleUnfences
<1>4. LocalsTyped' /\ Others(p)
  BY <1>1, <1>2, <1>3 DEF LocalsTyped, Others, Same, CallerKinds
<1>5. LeaseTyped' /\ LeaseMild(p) /\ StatusKept /\ owner' # p
  BY <1>3, Unfenced DEF job
<1>6. JobTyped' /\ JobMild(p)
  BY <1>2, <1>3, JobTypeKept, JobUntouched
<1>7. CallerInv(p)'
  BY <1>1, <1>3, <1>5 DEF CallerInv, MoverInv, WithdrawInv, job
<1> QED
  BY <1>3, <1>4, <1>5, <1>6, <1>7, WorldAlone, CallerActs DEF job

LEMMA RenewStep == ASSUME IInv, NEW p \in Callers, Renew(p) PROVE IInv'
<1>1. p \in Procs /\ CallerInv(p) /\ pc[p] = "check" /\ p # NoOne
  BY SchedulerAssumption DEF Procs, IInv, CallersInv, Renew
<1>2. LocalsTyped /\ JobTyped /\ LeaseTyped /\ revision \in Nat
  BY TypeParts DEF IInv, JobTyped, Revisions
<1>3. UNCHANGED <<status, nextRun, revision, mode, step, result, polls, world,
                  kind, phase, todo, touched, on, rev, got, unsure, saw>>
  BY DEF Renew
<1>4. CASE /\ MayRenew(p) /\ owner' = p /\ live' = TRUE
           /\ blocked' = "interrupted" /\ Goto(p, "withdraw")
  <2>1. LocalsTyped' /\ Others(p) /\ pc'[p] = "withdraw"
    BY <1>1, <1>2, <1>3, <1>4 DEF LocalsTyped, Others, Same, Goto, Labels
  <2>2. JobTyped' /\ JobMild(p)
    BY <1>2, <1>3, <1>4 DEF JobTyped, JobMild, MayRenew
  <2>3. LeaseTyped' /\ LeaseMild(p) /\ StatusKept /\ owner = p
    BY <1>1, <1>3, <1>4 DEF LeaseTyped, LeaseMild, StatusKept, MayRenew
  <2>4. MoverInv(p)'
    <3>1. ASSUME status' \notin Stopped, NEW s \in Steps PROVE Quieted(p, s)'
      BY <1>1, <1>3, <2>3, <3>1 DEF CallerInv, MoverInv, Quieted
    <3> QED
      BY <1>1, <1>3, <2>1, <2>3, <3>1 DEF CallerInv, MoverInv
  <2>5. WithdrawInv(p)'
    BY <1>1, <1>3, <1>4, <2>1, <2>3 DEF CallerInv, MoverInv, WithdrawInv
  <2>6. CallerInv(p)'
    BY <1>1, <1>3, <2>1, <2>4, <2>5 DEF CallerInv
  <2> QED
    BY <1>3, <2>1, <2>2, <2>3, <2>6, WorldAlone, CallerActs
<1>5. CASE /\ ~\E s \in Steps : Native(s) /\ step[s] = "dispatched"
           /\ Goto(p, "move") /\ UNCHANGED <<lease, blocked>>
  <2>1. LocalsTyped' /\ Others(p) /\ pc'[p] = "move"
    BY <1>1, <1>2, <1>3, <1>5 DEF LocalsTyped, Others, Same, Goto, Labels
  <2>2. UNCHANGED <<job, lease, world>>
    BY <1>3, <1>5 DEF job
  <2>3. TypeOK' /\ Mild(p) /\ StatusKept /\ KeysInv'
    BY <2>1, <2>2, Unseen
  <2>4. ASSUME owner' = p, status' \notin Stopped, NEW s \in Steps
        PROVE  ~MayAppear(s, revision)'
    <3>1. /\ Quieted(p, s) /\ (step[s] = "dispatched" => Native(s))
          /\ StepInv(s) /\ KeyInv(s, revision)
      BY <1>1, <1>2, <1>3, <1>5, <2>4
      DEF CallerInv, MoverInv, lease, IInv, StepsInv, KeysInv, JobTyped
    <3>2. step[s] = "pending"
      BY <1>5, <3>1 DEF Quieted
    <3> QED
      BY <1>3, <3>1, <3>2 DEF StepInv, KeyInv, MayAppear, world
  <2>5. CallerInv(p)'
    BY <1>1, <1>3, <1>5, <2>1, <2>4 DEF CallerInv, MoverInv, WithdrawInv, lease
  <2> QED
    BY <2>1, <2>3, <2>5, QuietOnward, CallerKeeps DEF CallerKept, StatusKept
<1> QED
  BY <1>4, <1>5 DEF Renew

LEMMA RescheduleSavesStep == ASSUME IInv, NEW p \in Callers, RescheduleSaves(p) PROVE IInv'
<1>1. /\ p \in Procs /\ CallerInv(p) /\ pc[p] = "withdraw" /\ kind[p] = "reschedule" /\ todo[p] = {}
      /\ p # NoOne
  BY SchedulerAssumption DEF Procs, IInv, CallersInv, RescheduleSaves
<1>2. LocalsTyped /\ JobTyped /\ LeaseTyped /\ revision \in Nat
  BY TypeParts DEF IInv, JobTyped, Revisions
<1>3. /\ UNCHANGED <<status, blocked, nextRun, revision, mode, step, polls, lease, world,
                     kind, phase, todo, touched, on, rev, got, unsure, saw>>
      /\ SaveConfirmed(p) /\ Goto(p, IF unsure[p] THEN "release" ELSE "move")
  BY DEF RescheduleSaves
<1>4. /\ result' \in [Steps -> Outcomes \cup {"none"}]
      /\ \A s \in Steps : step'[s] = "dispatched" <=> result'[s] # "none"
      /\ \A s \in Steps : result'[s] # result[s] => result'[s] = "final" /\ TrueResult(s)
  BY <1>1, <1>3, Confirmed DEF world
<1>5. LocalsTyped' /\ Others(p) /\ pc'[p] = IF unsure[p] THEN "release" ELSE "move"
  BY <1>1, <1>2, <1>3 DEF LocalsTyped, Others, Same, Goto, Labels
<1>6. JobTyped' /\ JobMild(p)
  <2>1. JobTyped'
    BY <1>2, <1>3, <1>4 DEF JobTyped
  <2>2. JobMild(p)
    BY <1>3, <1>4 DEF JobMild, Fixed
  <2> QED
    BY <2>1, <2>2
<1>7. LeaseTyped' /\ LeaseMild(p) /\ StatusKept
  BY <1>2, <1>3, LeaseUntouched DEF LeaseTyped, StatusKept, lease
<1>8. MoverInv(p)'
  <2>1. ASSUME owner' = p, pc'[p] = "move", status' \notin Stopped, NEW s \in Steps
        PROVE  ~MayAppear(s, revision)'
    <3>1. Quieted(p, s) /\ rev[p] = revision /\ StepInv(s) /\ KeyInv(s, revision)
      BY <1>1, <1>2, <1>3, <1>5, <2>1
      DEF CallerInv, MoverInv, lease, IInv, StepsInv, KeysInv, JobTyped
    <3>2. s \in touched[p] => ~MayAppear(s, revision)
      BY <1>1, <3>1 DEF CallerInv, WithdrawInv
    <3>3. ~MayAppear(s, revision)
      BY <1>1, <3>1, <3>2 DEF Quieted, StepInv, KeyInv, MayAppear
    <3> QED
      BY <1>3, <3>3 DEF MayAppear, world
  <2> QED
    BY <1>1, <1>3, <1>5, <2>1 DEF CallerInv, MoverInv, lease
<1>9. CallerInv(p)'
  BY <1>1, <1>3, <1>5, <1>8 DEF CallerInv, WithdrawInv
<1> QED
  BY <1>3, <1>5, <1>6, <1>7, <1>9, WorldAlone, CallerActs

(* The move: no runner works under the lease that the mover holds, and     *)
(* nothing can appear under the keys it leaves behind.                     *)
LEMMA MoveStep == ASSUME IInv, NEW p \in Callers, Move(p) PROVE IInv'
<1>1. /\ CallerInv(p) /\ p \in Procs /\ pc[p] = "move" /\ p \notin Runners /\ p # NoOne
      /\ NoOne \notin Procs
  BY SchedulerAssumption DEF IInv, CallersInv, Procs, Move
<1>2. LocalsTyped /\ JobTyped /\ WorldTyped /\ LeaseTyped /\ revision \in Nat
  BY TypeParts DEF IInv, JobTyped, Revisions
<1>3. CASE ~MayMove(p)
  BY <1>3, CallerLeaves DEF Move, world
<1>4. CASE MayMove(p)
  <2>1. /\ status' = "scheduled" /\ blocked' = "none" /\ owner' = NoOne /\ live' = FALSE
        /\ revision' = revision + 1
        /\ mode' = [l \in Lanes |-> IF l \in NativeLanes THEN "native" ELSE mode[l]]
        /\ step' = [s \in Steps |-> "pending"] /\ result' = [s \in Steps |-> "none"]
        /\ polls' = [s \in Steps |-> 0]
        /\ nextRun' = IF NativeLanes # {} THEN "soon" ELSE "runAt"
        /\ due' = FALSE /\ Finish(p) /\ UNCHANGED <<post, claim, retries>>
    BY <1>4 DEF Move
  <2>2. /\ owner = p /\ status \notin Stopped /\ revision < MaxRevision /\ rev[p] = revision
        /\ \A s \in Steps : step[s] # "dispatching" /\ ~MayAppear(s, revision)
    BY <1>1, <1>4 DEF MayMove, CallerInv, MoverInv
  <2>3. LocalsTyped' /\ Others(p) /\ Idled(p)
    BY <1>1, <1>2, <2>1, Finished
  <2>4. JobTyped'
    BY <1>2, <2>1, <2>2, SchedulerAssumption DEF JobTyped, Statuses, Revisions
  <2>5. TypeOK'
    BY <1>2, <2>1, <2>3, <2>4
    DEF TypeOK, JobTyped, LeaseTyped, WorldTyped, LocalsTyped
  <2>6. KeysInv'
    <3> SUFFICES ASSUME NEW s \in Steps, NEW r \in Revisions PROVE KeyInv(s, r)'
      BY <2>1, SchedulerAssumption DEF KeysInv
    <3>1. KeyInv(s, r) /\ (r = revision => ~MayAppear(s, r)) /\ r \in Nat
      BY <2>2 DEF IInv, KeysInv, Revisions
    <3> QED
      BY <1>2, <2>1, <3>1 DEF KeyInv, MayAppear
  <2>7. StepsInv'
    <3> SUFFICES ASSUME NEW s \in Steps PROVE StepInv(s)'
      BY DEF StepsInv
    <3>1. revision + 1 \in Revisions /\ KeyInv(s, revision + 1)
      BY <1>2, <2>2, SchedulerAssumption DEF IInv, KeysInv, Revisions
    <3> QED
      BY <1>2, <2>1, <3>1 DEF StepInv, KeyInv
  <2>8. RunnersInv'
    <3> SUFFICES ASSUME NEW q \in Runners PROVE RunnerInv(q)'
      BY DEF RunnersInv
    <3>1. RunnerInv(q) /\ Same(q) /\ q \in Procs /\ rev[q] \in Nat /\ rev[q] <= revision
      BY <1>1, <1>2, <2>3
      DEF IInv, RunnersInv, RunnerInv, LabelInv, Others, Procs, LocalsTyped, Revisions
    <3>2. phase[q] \notin {"retry", "salvage"} /\ pc[q] \notin {"resend", "reflight"}
      BY <1>1, <2>2, <3>1 DEF RunnerInv, LabelInv, LeaseInv
    <3>3. rev'[q] # revision' /\ rev'[q] <= revision' /\ owner' # q
      BY <1>1, <1>2, <2>1, <3>1 DEF Same
    <3>4. LabelInv(q)' /\ LeaseInv(q)'
      BY <3>1, <3>2, <3>3 DEF RunnerInv, LabelInv, LeaseInv, Same
    <3>5. pc[q] = "send" => on[q] \in Steps /\ claim[on[q]][rev[q]] # "none"
      BY <2>2, <3>1 DEF RunnerInv, LabelInv, WorkInv, AtKey
    <3>6. WorkInv(q)'
      BY <2>1, <3>1, <3>2, <3>3, <3>5 DEF RunnerInv, WorkInv, Same, Flying
    <3>7. TruthInv(q)'
      BY <2>1, <3>1, <3>3 DEF RunnerInv, TruthInv, Same
    <3> QED
      BY <3>4, <3>6, <3>7 DEF RunnerInv
  <2>9. AlonesInv'
    <3> SUFFICES ASSUME NEW q \in Runners, NEW o \in Runners PROVE AloneInv(q, o)'
      BY DEF AlonesInv
    <3>1. AloneInv(q, o) /\ Same(q) /\ Same(o)
      BY <1>1, <2>3 DEF IInv, AlonesInv, Others, Procs
    <3> QED
      BY <2>1, <3>1 DEF AloneInv, Same
  <2>10. CallersInv'
    <3> SUFFICES ASSUME NEW q \in Callers PROVE CallerInv(q)'
      BY DEF CallersInv
    <3>1. CASE q = p
      BY <1>1, <1>2, <2>1, <2>3, <3>1, IdleCaller
    <3>2. CASE q # p
      <4>1. CallerInv(q) /\ Same(q) /\ q \in Procs /\ rev[q] \in Nat /\ rev[q] <= revision
        BY <1>2, <2>3, <3>2
        DEF IInv, CallersInv, CallerInv, Others, Procs, LocalsTyped, Revisions
      <4>2. rev'[q] # revision' /\ rev'[q] <= revision' /\ owner' # q
        BY <1>1, <1>2, <2>1, <4>1 DEF Same
      <4> QED
        BY <2>2, <4>1, <4>2 DEF CallerInv, MoverInv, WithdrawInv, Same
    <3> QED
      BY <3>1, <3>2
  <2>11. CancelledIsQuiet' /\ CompletedIsOver'
    BY <2>1 DEF CancelledIsQuiet, CompletedIsOver
  <2> QED
    BY <2>5, <2>6, <2>7, <2>8, <2>9, <2>10, <2>11 DEF IInv
<1> QED
  BY <1>3, <1>4

-----------------------------------------------------------------------------
(* The environment.                                                        *)

LEMMA LeaseExpiresStep == ASSUME IInv, LeaseCoversRetry, LeaseExpires PROVE IInv'
<1>1. UNCHANGED <<job, owner, world, locals>> /\ live' = FALSE
  BY DEF LeaseExpires
<1>2. LocalsTyped' /\ JobTyped' /\ WorldTyped' /\ LeaseTyped'
  BY <1>1, TypeParts, JobTypeKept, WorldTypeKept, LocalsTypeKept DEF IInv, LeaseTyped
<1>3. LeaseMild(Gone)
  BY <1>1 DEF LeaseMild, LeaseExpires, LeaseCoversRetry
<1>4. KeysInv' /\ WorldMild(Gone) /\ JobMild(Gone) /\ StatusKept
  BY <1>1, KeysUntouched, WorldUntouched, JobUntouched DEF IInv, job, world, StatusKept
<1>5. TypeOK'
  BY <1>2 DEF TypeOK, JobTyped, LeaseTyped, WorldTyped, LocalsTyped
<1> QED
  BY <1>1, <1>3, <1>4, <1>5, WorldKeeps DEF Mild

LEMMA WorldActs ==
    ASSUME IInv, UNCHANGED <<job, lease, locals>>, WorldTyped', WorldMild(Gone), KeysInv'
    PROVE  IInv'
<1>1. LocalsTyped' /\ JobTyped' /\ LeaseTyped' /\ LeaseMild(Gone) /\ JobMild(Gone) /\ StatusKept
  BY TypeParts, JobTypeKept, LocalsTypeKept, LeaseUntouched, JobUntouched
  DEF IInv, LeaseTyped, lease, job, StatusKept
<1>2. TypeOK'
  BY <1>1 DEF TypeOK, JobTyped, LeaseTyped, WorldTyped, LocalsTyped
<1> QED
  BY <1>1, <1>2, WorldKeeps DEF Mild

LEMMA TimePassesStep == ASSUME IInv, TimePasses PROVE IInv'
<1>1. /\ UNCHANGED <<job, lease, locals, post, claim, retries, revision>>
      /\ due' = TRUE
  BY DEF TimePasses, job
<1>2. WorldTyped' /\ WorldMild(Gone) /\ KeysInv'
  BY <1>1, TypeParts, WorldUntouched, KeysUntouched DEF IInv, WorldTyped
<1> QED
  BY <1>1, <1>2, WorldActs

LEMMA ProviderMovesStep ==
    ASSUME IInv, NEW s \in Steps, NEW r \in Revisions, ProviderMoves(s, r) PROVE IInv'
<1>1. WorldTyped
  BY TypeParts DEF IInv
<1>2. PICK x \in {"public", "dead"} : post' = [post EXCEPT ![s][r] = x]
  BY DEF ProviderMoves
<1>3. UNCHANGED <<job, lease, locals, due, claim, retries, revision>> /\ post[s][r] = "live"
  BY DEF ProviderMoves, job
<1>4. /\ post' \in [Steps -> [Revisions -> Copies]] /\ post'[s][r] \in {"public", "dead"}
      /\ \A t \in Steps, q \in Revisions : t # s \/ q # r => post'[t][q] = post[t][q]
  BY <1>1, <1>2 DEF WorldTyped, Copies
<1>5. WorldTyped' /\ WorldMild(Gone)
  BY <1>1, <1>3, <1>4 DEF WorldTyped, WorldMild, MayAppear
<1>6. KeysInv'
  <2> SUFFICES ASSUME NEW t \in Steps, NEW q \in Revisions PROVE KeyInv(t, q)'
    BY DEF KeysInv
  <2>1. KeyInv(t, q)
    BY DEF IInv, KeysInv
  <2>2. CASE t = s /\ q = r
    BY <1>3, <1>4, <2>1, <2>2 DEF KeyInv, MayAppear
  <2>3. CASE t # s \/ q # r
    BY <1>3, <1>4, <2>1, <2>3 DEF KeyInv, MayAppear
  <2> QED
    BY <2>2, <2>3
<1> QED
  BY <1>3, <1>5, <1>6, WorldActs

-----------------------------------------------------------------------------
(* The invariant.                                                          *)

LEMMA InitIInv == Init => IInv
<1> SUFFICES ASSUME Init PROVE IInv
  OBVIOUS
<1> USE SchedulerAssumption DEF Init
<1>1. 0 \in Revisions /\ MaxRetries \in 0 .. MaxRetries /\ 0 \in 0 .. MaxPolls
  BY DEF Revisions
<1>2. TypeOK
  BY <1>1 DEF TypeOK, Statuses, Outcomes, Copies, Claims, Labels, Phases
<1>3. KeysInv
  BY <1>1 DEF KeysInv, KeyInv, MayAppear
<1>4. StepsInv
  BY <1>1 DEF StepsInv, StepInv
<1>5. ASSUME NEW p \in Procs
      PROVE  /\ pc[p] = "idle" /\ phase[p] = "none" /\ todo[p] = {} /\ rev[p] = 0 /\ got[p] = "none"
             /\ p # NoOne
  BY <1>5
<1>6. RunnersInv
  <2> SUFFICES ASSUME NEW p \in Runners PROVE RunnerInv(p)
    BY DEF RunnersInv
  <2> QED
    BY <1>5 DEF Procs, RunnerInv, LabelInv, LeaseInv, WorkInv, TruthInv, AtKey, Flying
<1>7. AlonesInv
  BY <1>5 DEF Procs, AlonesInv, AloneInv, Flying
<1>8. CallersInv
  <2> SUFFICES ASSUME NEW p \in Callers PROVE CallerInv(p)
    BY DEF CallersInv
  <2> QED
    BY <1>5 DEF Procs, CallerInv, MoverInv, WithdrawInv
<1>9. CancelledIsQuiet /\ CompletedIsOver
  BY DEF CancelledIsQuiet, CompletedIsOver
<1> QED
  BY <1>2, <1>3, <1>4, <1>6, <1>7, <1>8, <1>9 DEF IInv

LEMMA RunnerStepIInv == ASSUME IInv, NEW p \in Runners, RunnerStep(p) PROVE IInv'
<1>1. CASE NextPhase(p)
  BY <1>1, NextPhaseStep
<1>2. CASE EndRounds(p)
  BY <1>2, ReleaseAtLast DEF EndRounds
<1>3. CASE Release(p)
  BY <1>3, ReleaseStep
<1>4. CASE Publish(p) \/ PublishAnswers(p) \/ RetryFailed(p) \/ RetryAnswers(p)
  BY <1>4, PublishStep, PublishAnswersStep, RetryFailedStep, RetryAnswersStep
<1>5. CASE Advance(p) \/ PreflightFails(p) \/ Convert(p) \/ MarkDispatching(p)
  BY <1>5, AdvanceStep, PreflightFailsStep, ConvertStep, MarkStep
<1>6. CASE Salvage(p) \/ Recover(p) \/ RecoverFails(p) \/ Record(p)
  BY <1>6, SalvageStep, RecoverStep, RecoverFailsStep, RecordStep
<1>7. CASE Retry(p) \/ Poll(p) \/ RecordPoll(p)
  BY <1>7, RetryStep, PollStep, RecordPollStep
<1> QED
  BY <1>1, <1>2, <1>3, <1>4, <1>5, <1>6, <1>7 DEF RunnerStep

LEMMA CallerStepIInv == ASSUME IInv, NEW p \in Callers, CallerStep(p) PROVE IInv'
<1>1. CASE Cancel(p) \/ WithdrawCopy(p) \/ CancelFinal(p)
  BY <1>1, CancelStep, WithdrawCopyStep, CancelFinalStep
<1>2. CASE Reschedule(p) \/ RescheduleFails(p) \/ Renew(p)
  BY <1>2, RescheduleStep, RescheduleFailsStep, RenewStep
<1>3. CASE RescheduleSaves(p) \/ RescheduleUnfences(p) \/ RescheduleCancels(p) \/ Move(p)
  BY <1>3, RescheduleSavesStep, RescheduleUnfencesStep, RescheduleCancelsStep, MoveStep
<1> QED
  BY <1>1, <1>2, <1>3 DEF CallerStep

LEMMA NextIInv == ASSUME LeaseCoversRetry, IInv, [Next]_vars PROVE IInv'
<1>1. CASE \E p \in Runners : RunnerStep(p)
  BY <1>1, RunnerStepIInv
<1>2. CASE \E p \in Runners : Throw(p)
  BY <1>2, ReleaseAtLast DEF Throw
<1>3. CASE \E p \in Runners, k \in Kinds : Claim(p, k)
  BY <1>3, ClaimStep
<1>4. CASE \E p \in Callers : CallerStep(p)
  BY <1>4, CallerStepIInv
<1>5. CASE \E p \in Procs : Crash(p)
  <2>1. PICK p \in Procs : Crash(p)
    BY <1>5
  <2>2. CASE p \in Runners
    BY <2>1, <2>2, RunnerDies
  <2>3. CASE p \in Callers
    BY <2>1, <2>3, CallerLeaves DEF Crash
  <2> QED
    BY <2>2, <2>3 DEF Procs
<1>6. CASE LeaseExpires \/ TimePasses
  BY <1>6, LeaseExpiresStep, TimePassesStep
<1>7. CASE \E s \in Steps, r \in Revisions : ProviderMoves(s, r)
  BY <1>7, ProviderMovesStep
<1>8. CASE UNCHANGED vars
  <2>1. UNCHANGED <<job, lease, world, locals, revision, claim, post>>
    BY <1>8 DEF vars, job, world
  <2>2. WorldTyped' /\ WorldMild(Gone) /\ KeysInv'
    BY <2>1, WorldAlone
  <2> QED
    BY <2>1, <2>2, WorldActs
<1> QED
  BY <1>1, <1>2, <1>3, <1>4, <1>5, <1>6, <1>7, <1>8 DEF Next

(* Whatever happens, and where no lease expires under a retry, the record, *)
(* the calls in progress, the claims and the copies fit together.          *)
THEOREM SchedulerInvariant == ASSUME LeaseCoversRetry PROVE Spec => []IInv
<1>1. IInv /\ [Next]_vars => IInv'
  BY NextIInv
<1> QED
  BY <1>1, InitIInv, PTL DEF Spec

(* However often a step is retried, recovered, cancelled or moved by any   *)
(* number of processes, it has one copy that may appear: a key of an       *)
(* earlier revision has none (reschedule, #cancelProviderWork).            *)
THEOREM OneCopyOfAStep == ASSUME LeaseCoversRetry PROVE Spec => []OneCopy
<1>1. IInv => OneCopy
  BY DEF IInv, KeysInv, KeyInv, OneCopy
<1> QED
  BY <1>1, SchedulerInvariant, PTL

(* An outcome that the job reports as settled and not published is true of *)
(* the step's present key, whichever worker recorded it (#recover, #poll,  *)
(* retriedStep).                                                           *)
THEOREM SettledOutcomesAreTrue == ASSUME LeaseCoversRetry PROVE Spec => []SettledIsTrue
<1>1. IInv => SettledIsTrue
  <2> SUFFICES ASSUME IInv, NEW s \in Steps, step[s] = "dispatched", result[s] # "published",
                      ~Unresolved(result[s])
               PROVE  ~MayAppear(s, revision)
    BY DEF SettledIsTrue
  <2>1. StepInv(s) /\ result[s] \in Outcomes
    BY DEF IInv, StepsInv, TypeOK
  <2> QED
    BY <2>1 DEF StepInv, Fixed, Unresolved, Outcomes
<1> QED
  BY <1>1, SchedulerInvariant, PTL

(* A job is called cancelled only when no step is in flight and no copy of *)
(* any revision can still go public (cancel, #cancelProviderWork).         *)
THEOREM CancellationIsQuiet == ASSUME LeaseCoversRetry PROVE Spec => []CancelledIsQuiet
<1>1. IInv => CancelledIsQuiet
  BY DEF IInv
<1> QED
  BY <1>1, SchedulerInvariant, PTL

(* A job is called completed, once nobody works on it, only when every     *)
(* outcome is settled and no copy can still go public (#release).          *)
THEOREM CompletionIsOver == ASSUME LeaseCoversRetry PROVE Spec => []CompletedIsOver
<1>1. IInv => CompletedIsOver
  BY DEF IInv
<1> QED
  BY <1>1, SchedulerInvariant, PTL

-----------------------------------------------------------------------------
(* Where a lease may expire under a retry as well.                         *)

(* A runner and its lease.                                                 *)
HolderInv(p) ==
    LabelInv(p) /\ (owner = p => pc[p] # "idle" /\ (pc[p] # "release" => rev[p] = revision))

(* A caller that has fenced the job.                                       *)
FencerInv(p) ==
    owner = p =>
        /\ \A s \in Steps : step[s] # "dispatching"
        /\ revision < MaxRevision /\ kind[p] = "reschedule" /\ pc[p] # "idle"

HoldInv ==
    /\ TypeOK
    /\ \A p \in Runners : HolderInv(p)
    /\ \A p \in Callers : FencerInv(p)

(* A step of p, as the other calls see it.                                 *)
Yields(p) ==
    /\ TypeOK' /\ Others(p) /\ \A q \in Procs : q # p /\ owner' = q => owner = q
    /\ revision' = revision \/ (revision < revision' /\ \A q \in Procs : owner' # q)
    /\ p \in Callers \/ owner # p =>
          \A s \in Steps : step'[s] = "dispatching" => step[s] = "dispatching"

LEMMA HoldOnward ==
    ASSUME HoldInv, NEW p, Yields(p), NEW q \in Procs, q # p
    PROVE  /\ q \in Runners => HolderInv(q)'
           /\ q \in Callers => FencerInv(q)'
<1>1. /\ Same(q) /\ (owner' = q => owner = q /\ revision' = revision) /\ revision <= revision'
      /\ rev[q] \in Nat /\ revision \in Nat /\ revision' \in Nat
  BY DEF HoldInv, TypeOK, Yields, Others, Revisions
<1>2. ASSUME q \in Runners PROVE HolderInv(q)'
  BY <1>1, <1>2 DEF HoldInv, HolderInv, LabelInv, Same
<1>3. ASSUME q \in Callers, owner' = q PROVE FencerInv(q)'
  <2>1. \A s \in Steps : step'[s] = "dispatching" => step[s] = "dispatching"
    BY <1>1, <1>3 DEF Yields
  <2> QED
    BY <1>1, <1>3, <2>1 DEF HoldInv, FencerInv, Same
<1> QED
  BY <1>2, <1>3 DEF FencerInv

LEMMA RunnerHolds ==
    ASSUME HoldInv, NEW p \in Runners, Yields(p), HolderInv(p)' PROVE HoldInv'
<1>1. p \notin Callers
  BY SchedulerAssumption
<1> QED
  BY <1>1, HoldOnward DEF HoldInv, Yields, Procs

LEMMA CallerHolds ==
    ASSUME HoldInv, NEW p \in Callers, Yields(p), FencerInv(p)' PROVE HoldInv'
<1>1. p \notin Runners
  BY SchedulerAssumption
<1> QED
  BY <1>1, HoldOnward DEF HoldInv, Yields, Procs

LEMMA WorldHolds == ASSUME HoldInv, Yields(Gone) PROVE HoldInv'
<1>1. Gone \notin Procs
  BY SchedulerAssumption
<1> QED
  BY <1>1, HoldOnward DEF HoldInv, Yields, Procs

(* A step of a runner that leaves the leases alone.                        *)
LEMMA RunnerGoes ==
    ASSUME HoldInv, NEW p \in Runners, JobTyped', WorldTyped', LocalsTyped', Others(p),
           UNCHANGED <<lease, revision>>, HolderInv(p)',
           owner # p => \A s \in Steps : step'[s] = "dispatching" => step[s] = "dispatching"
    PROVE  HoldInv'
<1>1. LeaseTyped' /\ p \notin Callers
  BY TypeParts, SchedulerAssumption DEF HoldInv, LeaseTyped, lease
<1>2. TypeOK'
  BY <1>1 DEF TypeOK, JobTyped, LeaseTyped, WorldTyped, LocalsTyped
<1> QED
  BY <1>1, <1>2, RunnerHolds DEF Yields, lease

LEMMA RunnerTypes ==
    ASSUME HoldInv, NEW p \in Runners
    PROVE  /\ p \in Procs /\ p # NoOne /\ JobTyped /\ WorldTyped /\ LocalsTyped /\ LeaseTyped
           /\ HolderInv(p) /\ revision \in Revisions /\ revision \in Nat /\ rev[p] \in Revisions
           /\ UNCHANGED job => JobTyped'
           /\ UNCHANGED world => WorldTyped'
BY TypeParts, JobTypeKept, WorldTypeKept, SchedulerAssumption
DEF HoldInv, Procs, JobTyped, LocalsTyped, Revisions

LEMMA LoopHolds ==
    ASSUME HoldInv, NEW p \in Runners, NextPhase(p) \/ EndRounds(p) \/ Throw(p) \/ Advance(p)
    PROVE  HoldInv'
<1>1. /\ p \in Procs /\ JobTyped /\ WorldTyped /\ LocalsTyped /\ HolderInv(p)
      /\ revision \in Revisions /\ revision \in Nat
  BY RunnerTypes
<1>2. UNCHANGED <<job, lease, world>>
  BY DEF NextPhase, EndRounds, Throw, ToRelease, Advance
<1>3. LocalsTyped' /\ Others(p) /\ HolderInv(p)'
  <2>1. CASE ToRelease(p)
    <3>1. pc[p] # "idle"
      BY DEF NextPhase, EndRounds, Throw, Advance
    <3> QED
      BY <1>1, <2>1, <3>1, Releasing DEF HolderInv, LabelInv, AtKey, job, lease
  <2>2. CASE (NextPhase(p) \/ Advance(p)) /\ ToPoll(p)
    <3>1. UNCHANGED <<kind, touched, got, unsure, saw>> /\ pc[p] = "next"
      BY <2>2 DEF NextPhase, Advance
    <3> QED
      BY <1>1, <2>2, <3>1, Polling DEF HolderInv, LabelInv, AtKey, NextPhase, Advance, job, lease
  <2>3. CASE NextPhase(p) /\ ~ToPoll(p)
    <3>1. /\ phase' = [phase EXCEPT ![p] = "advance"] /\ UNCHANGED <<pc, todo, rev, on>>
          /\ UNCHANGED <<kind, touched, got, unsure, saw>> /\ todo[p] = {} /\ pc[p] = "next"
      BY <2>3 DEF NextPhase
    <3>2. LocalsTyped'
      BY <1>1, <3>1 DEF LocalsTyped, Phases
    <3> QED
      BY <1>1, <1>2, <3>1, <3>2
      DEF LocalsTyped, Others, Same, HolderInv, LabelInv, AtKey, job, lease
  <2>4. CASE Advance(p) /\ ~ToPoll(p)
    <3>1. PICK s \in Steps, l \in {"recover", "preflight"} :
             on' = [on EXCEPT ![p] = s] /\ Goto(p, l)
      BY <2>4 DEF Advance
    <3>2. /\ rev' = [rev EXCEPT ![p] = revision] /\ UNCHANGED <<phase, todo>>
          /\ UNCHANGED <<kind, touched, got, unsure, saw>> /\ phase[p] = "advance" /\ pc[p] = "next"
      BY <2>4 DEF Advance
    <3>3. LocalsTyped'
      BY <1>1, <3>1, <3>2 DEF LocalsTyped, Goto, Labels
    <3>4. pc'[p] = l /\ on'[p] = s /\ rev'[p] = revision /\ Others(p)
      BY <1>1, <3>1, <3>2 DEF LocalsTyped, Goto, Others, Same
    <3> QED
      BY <1>1, <1>2, <3>2, <3>3, <3>4 DEF HolderInv, LabelInv, AtKey, job, lease
  <2> QED
    BY <2>1, <2>2, <2>3, <2>4 DEF EndRounds, Throw
<1>4. JobTyped' /\ WorldTyped'
  BY <1>1, <1>2, RunnerTypes
<1> QED
  BY <1>2, <1>3, <1>4, RunnerGoes DEF job

(* Back in the loop, with nothing in hand.                                 *)
LEMMA BackHolds ==
    ASSUME HoldInv, NEW p \in Runners, JobTyped', pc[p] \notin {"idle", "release"},
           Back(p), Got(p, "none") \/ (UNCHANGED got /\ got[p] = "none"),
           UNCHANGED <<lease, world, revision, kind, phase, todo, touched, rev, unsure, saw>>,
           owner # p => \A s \in Steps : step'[s] = "dispatching" => step[s] = "dispatching"
    PROVE  HoldInv'
<1>1. p \in Procs /\ LocalsTyped /\ HolderInv(p)
  BY RunnerTypes
<1>2. LocalsTyped'
  BY <1>1 DEF LocalsTyped, Back, Goto, Got, Labels, Outcomes
<1>3. Others(p) /\ pc'[p] = "next" /\ got'[p] = "none"
  BY <1>1 DEF LocalsTyped, Back, Goto, Got, Others, Same
<1>4. HolderInv(p)'
  BY <1>1, <1>3 DEF HolderInv, LabelInv, AtKey, lease
<1> QED
  BY <1>2, <1>3, <1>4, RunnerTypes, RunnerGoes

LEMMA BackAgainHolds ==
    ASSUME HoldInv, NEW p \in Runners, Convert(p) \/ RecoverFails(p) \/ Record(p) \/ RecordPoll(p)
    PROVE  HoldInv'
<1>1. p \in Procs /\ JobTyped /\ LocalsTyped /\ HolderInv(p)
  BY RunnerTypes
<1>2. CASE Convert(p)
  <2>1. on[p] \in Steps /\ got[p] = "none" /\ pc[p] = "preflight"
    BY <1>1, <1>2 DEF Convert, HolderInv, LabelInv
  <2>2. JobTyped'
    BY <1>1, <1>2, <2>1 DEF Convert, JobTyped, Steps
  <2> QED
    BY <1>2, <2>1, <2>2, BackHolds DEF Convert
<1>3. CASE RecoverFails(p)
  <2>1. JobTyped'
    BY <1>1, <1>3 DEF RecoverFails, JobTyped
  <2> QED
    BY <1>3, <2>1, BackHolds DEF RecoverFails
<1>4. CASE Record(p)
  <2>1. /\ pc[p] = "record" /\ on[p] \in Steps /\ got[p] \in Outcomes /\ 0 \in 0 .. MaxPolls
        /\ on[p] # NoOne
    BY <1>1, <1>4, SchedulerAssumption DEF Record, HolderInv, LabelInv, AtKey, LocalsTyped
  <2>2. JobTyped' /\ \A s \in Steps : step'[s] = "dispatching" => step[s] = "dispatching"
    BY <1>1, <1>4, <2>1 DEF Record, JobTyped, Outcomes
  <2> QED
    BY <1>4, <2>1, <2>2, BackHolds DEF Record
<1>5. CASE RecordPoll(p)
  <2>1. pc[p] = "polled" /\ on[p] \in Steps /\ got[p] \in Outcomes \cup {"none"} /\ MaxPolls \in Nat
    BY <1>1, <1>5, SchedulerAssumption DEF RecordPoll, HolderInv, LabelInv, LocalsTyped
  <2>2. polls' \in [Steps -> 0 .. MaxPolls]
    BY <1>1, <1>5, <2>1 DEF RecordPoll, JobTyped
  <2>3. /\ result' \in [Steps -> Outcomes \cup {"none"}]
        /\ \A s \in Steps :
              result'[s] = result[s] \/ (step[s] = "dispatched" /\ result'[s] # "none")
    BY <1>1, <1>5, <2>1 DEF RecordPoll, JobTyped, Polled
  <2>4. JobTyped'
    BY <1>1, <1>5, <2>2, <2>3 DEF RecordPoll, JobTyped
  <2> QED
    BY <1>5, <2>1, <2>4, BackHolds DEF RecordPoll
<1> QED
  BY <1>2, <1>3, <1>4, <1>5

LEMMA FenceStepHolds ==
    ASSUME HoldInv, NEW p \in Runners, PreflightFails(p) \/ MarkDispatching(p) \/ Retry(p)
    PROVE  HoldInv'
<1>1. /\ p \in Procs /\ JobTyped /\ LocalsTyped /\ WorldTyped /\ HolderInv(p) /\ p # NoOne
      /\ revision \in Nat /\ revision \in Revisions
  BY RunnerTypes
<1>2. UNCHANGED <<lease, world, revision>> /\ WorldTyped'
  BY RunnerTypes DEF PreflightFails, MarkDispatching, Retry
<1>3. CASE PreflightFails(p) \/ (MarkDispatching(p) /\ ToPoll(p))
  <2>1. /\ pc[p] = "preflight" /\ ToPoll(p) /\ UNCHANGED <<kind, touched, got, unsure, saw>>
        /\ got[p] = "none"
    BY <1>1, <1>3 DEF PreflightFails, MarkDispatching, HolderInv, LabelInv
  <2>2. /\ LocalsTyped' /\ Others(p) /\ pc'[p] = "next" /\ phase'[p] = "poll"
        /\ rev'[p] = revision /\ got'[p] = "none"
    BY <1>1, <2>1, Polling
  <2>3. HolderInv(p)'
    BY <1>1, <1>2, <2>1, <2>2 DEF HolderInv, LabelInv, AtKey, lease
  <2>4. UNCHANGED step /\ JobTyped'
    <3>1. CASE PreflightFails(p)
      BY <1>1, <3>1 DEF PreflightFails, JobTyped
    <3>2. CASE MarkDispatching(p)
      <4>1. pc'[p] # "send"
        BY <2>2
      <4> QED
        BY <1>1, <3>2, <4>1 DEF MarkDispatching, JobTyped, Goto, LocalsTyped
    <3> QED
      BY <1>3, <3>1, <3>2
  <2> QED
    BY <1>2, <2>2, <2>3, <2>4, RunnerGoes
<1>4. CASE MarkDispatching(p) /\ ~ToPoll(p)
  <2>1. /\ MayMark(p, on[p], "pending") /\ step' = [step EXCEPT ![on[p]] = "dispatching"]
        /\ rev' = [rev EXCEPT ![p] = revision] /\ Goto(p, "send")
        /\ UNCHANGED <<phase, todo, on, kind, touched, got, unsure, saw>>
        /\ UNCHANGED <<status, blocked, nextRun, revision, mode, result, polls>>
        /\ pc[p] = "preflight" /\ on[p] \in Steps
    BY <1>1, <1>4 DEF MarkDispatching, HolderInv, LabelInv
  <2>2. LocalsTyped'
    BY <1>1, <2>1 DEF LocalsTyped, Goto, Labels
  <2>3. Others(p) /\ pc'[p] = "send" /\ rev'[p] = revision
    BY <1>1, <2>1 DEF LocalsTyped, Goto, Others, Same
  <2>4. JobTyped' /\ owner = p
    BY <1>1, <2>1 DEF JobTyped, MayMark, Leased
  <2>5. HolderInv(p)'
    BY <1>1, <1>2, <2>1, <2>3 DEF HolderInv, LabelInv, AtKey, lease
  <2> QED
    BY <1>2, <2>2, <2>3, <2>4, <2>5, RunnerGoes
<1>5. ASSUME Retry(p), NEW s \in todo[p], MayMark(p, s, "dispatched"),
             step' = [step EXCEPT ![s] = "dispatching"], result' = [result EXCEPT ![s] = "none"],
             Got(p, result[s]), on' = [on EXCEPT ![p] = s],
             todo' = [todo EXCEPT ![p] = @ \ {s}], Goto(p, "resend")
      PROVE  HoldInv'
  <2>1. /\ s \in Steps /\ result[s] \in Outcomes /\ owner = p /\ phase[p] = "retry"
        /\ UNCHANGED <<status, blocked, nextRun, revision, mode, polls>>
        /\ UNCHANGED <<kind, phase, touched, rev, unsure, saw>>
    BY <1>1, <1>5 DEF Retry, LocalsTyped, JobTyped, MayMark, Leased
  <2>2. LocalsTyped'
    BY <1>1, <1>5, <2>1 DEF LocalsTyped, Goto, Got, Labels
  <2>3. Others(p) /\ pc'[p] = "resend" /\ on'[p] = s /\ todo'[p] \subseteq todo[p]
    BY <1>1, <1>5, <2>1 DEF LocalsTyped, Goto, Got, Others, Same
  <2>4. JobTyped'
    BY <1>1, <1>5, <2>1 DEF JobTyped
  <2>5. HolderInv(p)'
    BY <1>1, <1>2, <1>5, <2>1, <2>3 DEF HolderInv, LabelInv, AtKey, Retry, lease
  <2> QED
    BY <1>2, <2>1, <2>2, <2>3, <2>4, <2>5, RunnerGoes
<1>6. ASSUME Retry(p), NEW T \in SUBSET Steps, todo' = [todo EXCEPT ![p] = T],
             UNCHANGED <<step, result, got, on, pc>>
      PROVE  HoldInv'
  <2>1. LocalsTyped' /\ JobTyped' /\ UNCHANGED step
    BY <1>1, <1>6 DEF Retry, LocalsTyped, JobTyped
  <2>2. Others(p)
    BY <1>1, <1>6 DEF Retry, LocalsTyped, Others, Same
  <2>3. HolderInv(p)'
    BY <1>1, <1>2, <1>6 DEF HolderInv, LabelInv, AtKey, Retry, lease
  <2> QED
    BY <1>2, <2>1, <2>2, <2>3, RunnerGoes
<1>7. CASE Retry(p)
  <2>1. PICK s \in todo[p] :
          \/ /\ MayMark(p, s, "dispatched")
             /\ step' = [step EXCEPT ![s] = "dispatching"]
             /\ result' = [result EXCEPT ![s] = "none"]
             /\ Got(p, result[s]) /\ on' = [on EXCEPT ![p] = s]
             /\ todo' = [todo EXCEPT ![p] = @ \ {s}] /\ Goto(p, "resend")
          \/ /\ todo' = [todo EXCEPT ![p] =
                    IF ~Leased(p) \/ status \in Stopped THEN {} ELSE @ \ {s}]
             /\ UNCHANGED <<step, result, got, on, pc>>
    BY <1>7 DEF Retry
  <2>2. todo[p] \subseteq Steps
    BY <1>1 DEF LocalsTyped
  <2>3. ASSUME todo' = [todo EXCEPT ![p] = IF ~Leased(p) \/ status \in Stopped THEN {} ELSE @ \ {s}]
        PROVE  \E T \in SUBSET Steps : todo' = [todo EXCEPT ![p] = T]
    <3>1. (IF ~Leased(p) \/ status \in Stopped THEN {} ELSE todo[p] \ {s}) \in SUBSET Steps
      BY <2>2
    <3> QED
      BY <1>1, <2>3, <3>1 DEF LocalsTyped
  <2> QED
    BY <1>5, <1>6, <1>7, <2>1, <2>3
<1> QED
  BY <1>3, <1>4, <1>7

GotAnew(p) ==
    /\ got' \in [Procs -> Outcomes \cup {"none"}] /\ got'[p] # "none"
    /\ \A q \in Procs \ {p} : got'[q] = got[q]

LEMMA ReconcileTypes ==
    ASSUME WorldTyped, LocalsTyped, NEW p \in Procs, NEW s \in Steps, Reconcile(p, s)
    PROVE  claim' \in [Steps -> [Revisions -> Claims]] /\ GotAnew(p)
<1>1. rev[p] \in Revisions /\ TheClaim(p, s) \in Claims
  BY DEF LocalsTyped, WorldTyped, TheClaim
<1>2. ASSUME NEW o \in Outcomes, Got(p, o) \/ GotUnsent(p, o) PROVE GotAnew(p)
  BY <1>2 DEF GotAnew, GotUnsent, Got, LocalsTyped, Outcomes
<1>3. ASSUME NEW c \in Claims, SetClaim(p, s, c) PROVE claim' \in [Steps -> [Revisions -> Claims]]
  BY <1>1, <1>3, ClaimSet
<1>4. CASE SetClaim(p, s, "failed") /\ GotUnsent(p, "failed")
  BY <1>2, <1>3, <1>4 DEF Claims, Outcomes
<1>5. ASSUME NEW o \in Reports(p, s), SetClaim(p, s, o), Got(p, o)
      PROVE  claim' \in [Steps -> [Revisions -> Claims]] /\ GotAnew(p)
  <2>1. o \in Claims /\ o \in Outcomes
    BY DEF Reports, Claims, Outcomes
  <2> QED
    BY <1>2, <1>3, <1>5, <2>1
<1>6. CASE TheClaim(p, s) # "none" /\ GotUnsent(p, Read(TheClaim(p, s))) /\ UNCHANGED claim
  <2>1. Read(TheClaim(p, s)) \in Outcomes
    BY <1>1, <1>6 DEF Read, Claims, Outcomes
  <2> QED
    BY <1>2, <1>6, <2>1 DEF WorldTyped
<1> QED
  BY <1>4, <1>5, <1>6 DEF Reconcile

(* A call of the client, whatever it does to the claim and the copy.       *)
LEMMA CallHolds ==
    ASSUME HoldInv, NEW p \in Runners,
           NEW l \in {"record", "polled", "flight", "reflight", "recover"},
           NEW s \in Steps,
           UNCHANGED <<status, revision, step, lease>>, JobTyped',
           due' = due, retries' \in 0 .. MaxRetries,
           claim' \in [Steps -> [Revisions -> Claims]], post' \in [Steps -> [Revisions -> Copies]],
           pc' = [pc EXCEPT ![p] = l], on' = [on EXCEPT ![p] = s],
           UNCHANGED <<kind, phase, rev, unsure, saw>>,
           pc[p] \notin {"idle", "release"},
           todo' = todo \/ (\E T \in SUBSET todo[p] : todo' = [todo EXCEPT ![p] = T]),
           touched' = touched \/ touched' = [touched EXCEPT ![p] = @ \cup {s}],
           \/ GotAnew(p)
           \/ UNCHANGED got /\ (l = "record" => got[p] # "none")
                            /\ (l = "flight" => got[p] = "none"),
           l = "flight" => phase[p] = "advance" /\ got'[p] = "none",
           l = "reflight" => phase[p] = "retry"
    PROVE  HoldInv'
<1>1. /\ p \in Procs /\ WorldTyped /\ LocalsTyped /\ HolderInv(p)
  BY RunnerTypes
<1>2. WorldTyped'
  BY <1>1 DEF WorldTyped
<1>3. /\ got' \in [Procs -> Outcomes \cup {"none"}] /\ \A q \in Procs \ {p} : got'[q] = got[q]
  BY <1>1 DEF GotAnew, LocalsTyped
<1>4. todo' \in [Procs -> SUBSET Steps] /\ todo'[p] \subseteq todo[p]
  BY <1>1 DEF LocalsTyped
<1>5. LocalsTyped'
  <2>1. pc' \in [Procs -> Labels] /\ on' \in [Procs -> Steps \cup {NoOne}]
    BY <1>1 DEF LocalsTyped, Labels
  <2>2. touched' \in [Procs -> SUBSET Steps]
    BY <1>1 DEF LocalsTyped
  <2> QED
    BY <1>1, <1>3, <1>4, <2>1, <2>2 DEF LocalsTyped
<1>6. Others(p) /\ pc'[p] = l /\ on'[p] = s
  BY <1>1, <1>3 DEF LocalsTyped, Others, Same
<1>7. HolderInv(p)'
  BY <1>1, <1>4, <1>6 DEF HolderInv, LabelInv, AtKey, GotAnew, lease
<1> QED
  BY <1>2, <1>5, <1>6, <1>7, RunnerGoes

LEMMA ClientHolds ==
    ASSUME HoldInv, NEW p \in Runners,
           Publish(p) \/ PublishAnswers(p) \/ RetryFailed(p) \/ RetryAnswers(p) \/ Recover(p)
    PROVE  HoldInv'
<1>1. /\ p \in Procs /\ WorldTyped /\ LocalsTyped /\ HolderInv(p) /\ on[p] \in Steps
      /\ rev[p] \in Revisions /\ TheClaim(p, on[p]) \in Claims
      /\ got \in [Procs -> Outcomes \cup {"none"}]
  BY RunnerTypes
  DEF HolderInv, LabelInv, AtKey, Publish, PublishAnswers, RetryFailed, RetryAnswers, Recover,
      WorldTyped, TheClaim, LocalsTyped
<1>2. /\ UNCHANGED <<status, revision, step, lease, due>> /\ JobTyped'
      /\ UNCHANGED <<kind, phase, todo, on, rev, unsure, saw>> /\ on' = [on EXCEPT ![p] = on[p]]
      /\ pc[p] \notin {"idle", "release"}
  BY <1>1, RunnerTypes
  DEF Publish, PublishAnswers, RetryFailed, RetryAnswers, Recover, job, LocalsTyped
<1>3. /\ touched' = touched \/ touched' = [touched EXCEPT ![p] = @ \cup {on[p]}]
      /\ retries' \in 0 .. MaxRetries
  BY <1>1, SchedulerAssumption
  DEF Publish, PublishAnswers, RetryFailed, RetryAnswers, Recover, WorldTyped
<1>4. ASSUME NEW c \in Claims, SetClaim(p, on[p], c)
      PROVE  claim' \in [Steps -> [Revisions -> Claims]]
  BY <1>1, <1>4, ClaimSet
<1>5. /\ UNCHANGED claim => claim' \in [Steps -> [Revisions -> Claims]]
      /\ UNCHANGED post => post' \in [Steps -> [Revisions -> Copies]]
      /\ SetPost(p, on[p], "live") => post' \in [Steps -> [Revisions -> Copies]]
  BY <1>1, PostSet DEF WorldTyped, Copies
<1>6. ASSUME NEW o \in Outcomes, Got(p, o) \/ GotUnsent(p, o) PROVE GotAnew(p)
  BY <1>1, <1>6 DEF GotAnew, GotUnsent, Got, LocalsTyped, Outcomes
<1>7. /\ Reports(p, on[p]) \subseteq Claims \cap Outcomes
      /\ TheClaim(p, on[p]) # "none" => Read(TheClaim(p, on[p])) \in Outcomes
      /\ {"refused", "failed"} \subseteq Outcomes /\ {"sent", "failed"} \subseteq Claims
  BY <1>1 DEF Reports, Claims, Outcomes, Read
<1>8. CASE Publish(p)
  <2>1. phase[p] = "advance" /\ got[p] = "none"
    BY <1>1, <1>8 DEF Publish, HolderInv, LabelInv
  <2>2. /\ claim' \in [Steps -> [Revisions -> Claims]]
        /\ post' \in [Steps -> [Revisions -> Copies]]
        /\ (UNCHANGED got /\ Goto(p, "flight")) \/ (GotAnew(p) /\ Goto(p, "record"))
    BY <1>4, <1>5, <1>6, <1>7, <1>8 DEF Publish
  <2>3. CASE UNCHANGED got /\ Goto(p, "flight")
    BY <1>1, <1>2, <1>3, <2>1, <2>2, <2>3, CallHolds DEF Goto
  <2>4. CASE GotAnew(p) /\ Goto(p, "record")
    BY <1>1, <1>2, <1>3, <2>2, <2>4, CallHolds DEF Goto
  <2> QED
    BY <2>2, <2>3, <2>4
<1>9. CASE PublishAnswers(p)
  <2>1. PICK o \in Reports(p, on[p]), c \in Reports(p, on[p]) \cup {"sent"} :
           Got(p, o) /\ SetClaim(p, on[p], c)
    BY <1>9 DEF PublishAnswers
  <2>2. claim' \in [Steps -> [Revisions -> Claims]] /\ GotAnew(p)
    BY <1>4, <1>6, <1>7, <2>1
  <2>3. Goto(p, "record") /\ UNCHANGED post
    BY <1>9 DEF PublishAnswers
  <2> QED
    BY <1>1, <1>2, <1>3, <1>5, <2>2, <2>3, CallHolds DEF Goto
<1>10. CASE RetryFailed(p)
  <2>1. phase[p] = "retry" /\ UNCHANGED touched
    BY <1>1, <1>10 DEF RetryFailed, HolderInv, LabelInv
  <2>2. /\ claim' \in [Steps -> [Revisions -> Claims]]
        /\ post' \in [Steps -> [Revisions -> Copies]]
        /\ \/ UNCHANGED got /\ (Goto(p, "reflight") \/ Goto(p, "recover"))
           \/ GotAnew(p) /\ Goto(p, "record")
    BY <1>4, <1>5, <1>6, <1>7, <1>10 DEF RetryFailed
  <2> QED
    BY <1>1, <1>2, <1>3, <2>1, <2>2, CallHolds DEF Goto
<1>11. CASE RetryAnswers(p)
  <2>1. PICK o \in Reports(p, on[p]) :
          \/ SetClaim(p, on[p], o) /\ Got(p, o) /\ Goto(p, "record")
          \/ Goto(p, "recover") /\ UNCHANGED <<claim, got>>
    BY <1>11 DEF RetryAnswers
  <2>2. /\ claim' \in [Steps -> [Revisions -> Claims]] /\ UNCHANGED post
        /\ (UNCHANGED got /\ Goto(p, "recover")) \/ (GotAnew(p) /\ Goto(p, "record"))
    BY <1>4, <1>5, <1>6, <1>7, <1>11, <2>1 DEF RetryAnswers
  <2> QED
    BY <1>1, <1>2, <1>3, <1>5, <2>2, CallHolds DEF Goto
<1>12. CASE Recover(p)
  <2>1. claim' \in [Steps -> [Revisions -> Claims]] /\ GotAnew(p)
    BY <1>1, <1>12, ReconcileTypes DEF Recover
  <2> QED
    BY <1>1, <1>2, <1>3, <1>5, <1>12, <2>1, CallHolds DEF Goto, Recover
<1> QED
  BY <1>8, <1>9, <1>10, <1>11, <1>12

LEMMA VisitHolds ==
    ASSUME HoldInv, NEW p \in Runners, Salvage(p) \/ Poll(p) PROVE HoldInv'
<1>1. /\ p \in Procs /\ JobTyped /\ WorldTyped /\ LocalsTyped /\ HolderInv(p)
      /\ pc[p] = "next" /\ got[p] = "none" /\ todo[p] \subseteq Steps
  BY RunnerTypes DEF Salvage, Poll, LocalsTyped, HolderInv, LabelInv
<1>2. /\ retries' \in 0 .. MaxRetries /\ post' \in [Steps -> [Revisions -> Copies]]
      /\ UNCHANGED <<status, revision, step, lease, due, kind, phase, rev, unsure, saw>>
  BY <1>1 DEF Salvage, Poll, WorldTyped, job
<1>3. CASE Salvage(p)
  <2>1. PICK s \in todo[p] :
          /\ todo' = [todo EXCEPT ![p] = @ \ {s}]
          /\ \/ /\ Reconcile(p, s) /\ on' = [on EXCEPT ![p] = s] /\ Goto(p, "record")
                /\ UNCHANGED blocked
             \/ /\ blocked' = IF Leased(p) THEN "error" ELSE blocked
                /\ UNCHANGED <<claim, got, on, pc>>
    BY <1>3 DEF Salvage
  <2>2. JobTyped' /\ s \in Steps /\ UNCHANGED touched
    BY <1>1, <1>3, <2>1 DEF Salvage, JobTyped
  <2>3. CASE Reconcile(p, s) /\ on' = [on EXCEPT ![p] = s] /\ Goto(p, "record")
    <3>1. claim' \in [Steps -> [Revisions -> Claims]] /\ GotAnew(p)
      BY <1>1, <2>2, <2>3, ReconcileTypes
    <3>2. \E T \in SUBSET todo[p] : todo' = [todo EXCEPT ![p] = T]
      BY <1>1, <2>1 DEF LocalsTyped
    <3> QED
      BY <1>1, <1>2, <2>2, <2>3, <3>1, <3>2, CallHolds DEF Goto
  <2>4. CASE UNCHANGED <<claim, got, on, pc>>
    <3>1. WorldTyped' /\ LocalsTyped' /\ Others(p) /\ todo'[p] \subseteq todo[p]
      BY <1>1, <1>2, <2>1, <2>2, <2>4 DEF WorldTyped, LocalsTyped, Others, Same
    <3>2. HolderInv(p)'
      BY <1>1, <1>2, <2>4, <3>1 DEF HolderInv, LabelInv, AtKey, lease
    <3> QED
      BY <1>2, <2>2, <3>1, <3>2, RunnerGoes
  <2> QED
    BY <2>1, <2>3, <2>4
<1>4. CASE Poll(p)
  <2>1. PICK s \in todo[p] :
          /\ on' = [on EXCEPT ![p] = s] /\ todo' = [todo EXCEPT ![p] = @ \ {s}]
          /\ touched' = [touched EXCEPT ![p] = @ \cup {s}]
          /\ Reconcile(p, s) \/ UNCHANGED <<claim, got>>
    BY <1>4 DEF Poll
  <2>2. Goto(p, "polled") /\ JobTyped' /\ s \in Steps
    BY <1>1, <1>4, RunnerTypes DEF Poll
  <2>3. claim' \in [Steps -> [Revisions -> Claims]] /\ (GotAnew(p) \/ UNCHANGED got)
    BY <1>1, <2>1, <2>2, ReconcileTypes DEF WorldTyped
  <2>4. \E T \in SUBSET todo[p] : todo' = [todo EXCEPT ![p] = T]
    BY <1>1, <2>1 DEF LocalsTyped
  <2> QED
    BY <1>1, <1>2, <2>1, <2>2, <2>3, <2>4, CallHolds DEF Goto
<1> QED
  BY <1>3, <1>4

LEMMA TurnHolds ==
    ASSUME HoldInv, NEW p \in Runners, Release(p) \/ \E k \in Kinds : Claim(p, k) PROVE HoldInv'
<1>1. /\ p \in Procs /\ JobTyped /\ WorldTyped /\ LocalsTyped /\ LeaseTyped /\ HolderInv(p)
      /\ revision \in Revisions /\ revision \in Nat /\ p # NoOne /\ NoOne \notin Procs
  BY RunnerTypes, SchedulerAssumption
<1>2. UNCHANGED <<revision, step, mode, result, polls, world>> /\ WorldTyped'
  BY RunnerTypes DEF Release, Claim
<1>3. CASE Release(p)
  <2>1. Finish(p) /\ owner' # p /\ (owner' = owner \/ owner' = NoOne) /\ live' \in BOOLEAN
    BY <1>1, <1>3 DEF Release, Leased, LeaseTyped
  <2>2. LocalsTyped' /\ Others(p) /\ Idled(p)
    BY <1>1, <2>1, Finished
  <2>3. JobTyped' /\ LeaseTyped'
    <3>1. status' \in Statuses /\ nextRun' \in {"none", "soon", "runAt"} /\ UNCHANGED blocked
      BY <1>1, <1>3
      DEF Release, StatusOnRelease, NextOnRelease, Statuses, JobTyped
    <3> QED
      BY <1>1, <1>2, <2>1, <3>1 DEF JobTyped, LeaseTyped
  <2>4. TypeOK'
    BY <1>2, <2>2, <2>3 DEF TypeOK, JobTyped, LeaseTyped, WorldTyped, LocalsTyped
  <2>5. HolderInv(p)'
    BY <1>1, <1>2, <2>1, <2>2 DEF HolderInv, LabelInv, AtKey, Idled
  <2>6. Yields(p)
    BY <1>1, <1>2, <2>1, <2>2, <2>4 DEF Yields
  <2> QED
    BY <2>5, <2>6, RunnerHolds
<1>4. ASSUME NEW k \in Kinds, Claim(p, k) PROVE HoldInv'
  <2>1. k \in RunnerKinds /\ Agenda(k) \subseteq Steps
    BY SchedulerAssumption DEF Agenda
  <2>2. LocalsTyped'
    BY <1>1, <1>4, <2>1
    DEF Claim, LocalsTyped, WorldTyped, RunnerKinds, FirstPhase, Phases, Goto, Labels
  <2>3. /\ Others(p) /\ pc'[p] = "next" /\ rev'[p] = revision /\ got'[p] = got[p] /\ pc[p] = "idle"
        /\ phase'[p] = FirstPhase(k) /\ todo'[p] = Agenda(k)
    BY <1>1, <1>4 DEF Claim, LocalsTyped, Goto, Others, Same
  <2>4. JobTyped' /\ LeaseTyped'
    BY <1>1, <1>4 DEF Claim, JobTyped, LeaseTyped
  <2>5. TypeOK'
    BY <1>2, <2>2, <2>4 DEF TypeOK, JobTyped, LeaseTyped, WorldTyped, LocalsTyped
  <2>6. HolderInv(p)'
    BY <1>1, <1>2, <2>3 DEF HolderInv, LabelInv, AtKey, FirstPhase, Agenda
  <2>7. Yields(p)
    BY <1>1, <1>2, <1>4, <2>3, <2>5 DEF Yields, Claim
  <2> QED
    BY <2>6, <2>7, RunnerHolds
<1> QED
  BY <1>3, <1>4

(* A caller keeps its fence until it ends, and only it moves the job.      *)
LEMMA CallerTypes ==
    ASSUME HoldInv, NEW p \in Callers
    PROVE  /\ p \in Procs /\ p # NoOne /\ p # Gone /\ JobTyped /\ WorldTyped /\ LocalsTyped
           /\ LeaseTyped /\ FencerInv(p) /\ revision \in Revisions /\ revision \in Nat
           /\ rev[p] \in Revisions /\ NoOne \notin Procs /\ Gone \notin Procs
           /\ UNCHANGED job => JobTyped'
           /\ UNCHANGED world => WorldTyped'
BY TypeParts, JobTypeKept, WorldTypeKept, SchedulerAssumption
DEF HoldInv, Procs, JobTyped, LocalsTyped, Revisions

LEMMA CallerGoes ==
    ASSUME HoldInv, NEW p \in Callers, JobTyped', WorldTyped', LocalsTyped', LeaseTyped', Others(p),
           UNCHANGED revision, \A q \in Procs : q # p /\ owner' = q => owner = q,
           \A s \in Steps : step'[s] = "dispatching" => step[s] = "dispatching",
           owner' = p => owner = p /\ kind'[p] = kind[p] /\ pc'[p] # "idle"
    PROVE  HoldInv'
<1>1. TypeOK'
  BY DEF TypeOK, JobTyped, LeaseTyped, WorldTyped, LocalsTyped
<1>2. Yields(p)
  BY <1>1 DEF Yields
<1>3. FencerInv(p)'
  BY DEF HoldInv, FencerInv
<1> QED
  BY <1>2, <1>3, CallerHolds

LEMMA CancelsHold ==
    ASSUME HoldInv, NEW p \in Callers,
           Cancel(p) \/ RescheduleCancels(p) \/ WithdrawCopy(p) \/ CancelFinal(p)
    PROVE  HoldInv'
<1>1. /\ p \in Procs /\ JobTyped /\ WorldTyped /\ LocalsTyped /\ LeaseTyped /\ FencerInv(p)
      /\ rev[p] \in Revisions
  BY CallerTypes
<1>2. UNCHANGED <<revision, lease>> /\ LeaseTyped'
  BY <1>1
  DEF Cancel, RescheduleCancels, CancelFence, WithdrawCopy, CancelFinal, job, lease, LeaseTyped
<1>3. CASE CancelFence(p) /\ (pc[p] = "idle" \/ kind[p] = "cancel")
  <2>1. owner # p
    BY <1>1, <1>3 DEF FencerInv
  <2>2. LocalsTyped'
    <3>1. /\ todo' \in [Procs -> SUBSET Steps] /\ touched' \in [Procs -> SUBSET Steps]
          /\ unsure' \in [Procs -> BOOLEAN] /\ rev' \in [Procs -> Revisions]
      BY <1>1, <1>3, WithdrawingLocals DEF CancelFence
    <3> QED
      BY <1>1, <1>3, <3>1 DEF CancelFence, LocalsTyped, Goto, Labels, CallerKinds
  <2>3. Others(p)
    <3>1. \A q \in Procs \ {p} : /\ todo'[q] = todo[q] /\ touched'[q] = touched[q]
                                 /\ unsure'[q] = unsure[q] /\ rev'[q] = rev[q]
      BY <1>1, <1>3, WithdrawingLocals DEF CancelFence
    <3> QED
      BY <1>1, <1>3, <3>1 DEF CancelFence, LocalsTyped, Goto, Others, Same
  <2>4. JobTyped' /\ \A s \in Steps : step'[s] = "dispatching" => step[s] = "dispatching"
    BY <1>1, <1>3 DEF CancelFence, FenceStep, JobTyped, Statuses
  <2>5. WorldTyped'
    BY <1>3, CallerTypes DEF CancelFence
  <2> QED
    BY <1>1, <1>2, <2>1, <2>2, <2>3, <2>4, <2>5, CallerGoes DEF lease
<1>4. CASE RescheduleCancels(p) /\ Finish(p) /\ UNCHANGED <<job, lease, world>>
  <2>1. LocalsTyped' /\ Others(p) /\ JobTyped' /\ WorldTyped' /\ UNCHANGED step /\ owner # p
    BY <1>1, <1>4, Finished, CallerTypes DEF RescheduleCancels, FencerInv, job
  <2> QED
    BY <1>1, <1>2, <2>1, CallerGoes DEF lease
<1>5. CASE WithdrawCopy(p)
  <2>1. PICK s \in Steps : Withdrawn(p, s)
    BY <1>1, <1>5, CopyWithdrawn
  <2>2. /\ LocalsTyped' /\ WorldTyped' /\ Others(p) /\ UNCHANGED <<job, lease, pc, kind>>
        /\ pc[p] = "withdraw"
    BY <1>5, <2>1 DEF Withdrawn, WithdrawCopy
  <2>3. JobTyped' /\ UNCHANGED step
    BY <2>2, CallerTypes DEF job
  <2> QED
    BY <1>1, <1>2, <2>2, <2>3, CallerGoes DEF lease
<1>6. CASE CancelFinal(p)
  <2>1. Finish(p) /\ owner # p
        /\ UNCHANGED <<blocked, nextRun, revision, mode, step, polls, lease, world>>
    BY <1>1, <1>6 DEF CancelFinal, FencerInv
  <2>2. LocalsTyped' /\ Others(p) /\ WorldTyped'
    BY <1>1, <2>1, Finished, CallerTypes
  <2>3. JobTyped'
    BY <1>1, <1>6, <2>1
    DEF CancelFinal, SaveConfirmed, Confirms, Scheduled, FinalStatus, JobTyped, Statuses, Outcomes
  <2> QED
    BY <1>1, <1>2, <2>1, <2>2, <2>3, CallerGoes DEF lease
<1> QED
  BY <1>3, <1>4, <1>5, <1>6 DEF Cancel, RescheduleCancels

LEMMA ReschedulesHold ==
    ASSUME HoldInv, NEW p \in Callers,
           \/ Reschedule(p) \/ RescheduleFails(p) \/ Renew(p) \/ RescheduleSaves(p)
           \/ RescheduleUnfences(p)
    PROVE  HoldInv'
<1>1. /\ p \in Procs /\ JobTyped /\ WorldTyped /\ LocalsTyped /\ LeaseTyped /\ FencerInv(p)
      /\ NoOne \notin Procs /\ p # NoOne
  BY CallerTypes
<1>2. UNCHANGED <<revision, step, world>> /\ WorldTyped'
  BY CallerTypes DEF Reschedule, RescheduleFails, Renew, RescheduleSaves, RescheduleUnfences, job
<1>3. CASE Reschedule(p)
  <2>1. /\ owner' = p /\ live' = TRUE /\ kind' = [kind EXCEPT ![p] = "reschedule"]
        /\ Goto(p, "check") /\ Withdrawing(p) /\ UNCHANGED <<job, world, phase, on, got, saw>>
        /\ MayReschedule /\ revision < MaxRevision
    BY <1>3 DEF Reschedule
  <2>2. /\ todo' \in [Procs -> SUBSET Steps] /\ touched' \in [Procs -> SUBSET Steps]
        /\ unsure' \in [Procs -> BOOLEAN] /\ rev' \in [Procs -> Revisions]
        /\ \A q \in Procs \ {p} : /\ todo'[q] = todo[q] /\ touched'[q] = touched[q]
                                  /\ unsure'[q] = unsure[q] /\ rev'[q] = rev[q]
    BY <1>1, <2>1, WithdrawingLocals
  <2>3. LocalsTyped' /\ Others(p) /\ pc'[p] = "check" /\ kind'[p] = "reschedule"
    BY <1>1, <2>1, <2>2 DEF LocalsTyped, Goto, Labels, CallerKinds, Others, Same
  <2>4. JobTyped' /\ LeaseTyped'
    BY <1>1, <2>1, CallerTypes DEF LeaseTyped
  <2>5. TypeOK'
    BY <1>2, <2>3, <2>4 DEF TypeOK, JobTyped, LeaseTyped, WorldTyped, LocalsTyped
  <2>6. \A s \in Steps : step'[s] # "dispatching"
    BY <1>2, <2>1 DEF MayReschedule, hasDispatchedRuntime
  <2>7. FencerInv(p)' /\ Yields(p)
    BY <1>1, <1>2, <2>1, <2>3, <2>5, <2>6 DEF FencerInv, Yields, job
  <2> QED
    BY <2>7, CallerHolds
<1>4. CASE RescheduleFails(p) \/ RescheduleUnfences(p)
  <2>1. /\ Unfence(p) /\ UNCHANGED job
        /\ \/ Finish(p)
           \/ /\ kind' = [kind EXCEPT ![p] = "cancel"]
              /\ UNCHANGED <<pc, phase, todo, touched, on, rev, got, unsure, saw>>
    BY <1>4 DEF RescheduleFails, RescheduleUnfences
  <2>2. LeaseTyped' /\ owner' # p /\ \A q \in Procs : owner' = q => owner = q
    BY <1>1, <2>1 DEF Unfence, LeaseTyped
  <2>3. LocalsTyped' /\ Others(p)
    BY <1>1, <2>1, Finished DEF LocalsTyped, CallerKinds, Others, Same
  <2> QED
    BY <1>2, <2>1, <2>2, <2>3, CallerTypes, CallerGoes
<1>5. CASE Renew(p) \/ RescheduleSaves(p)
  <2>1. PICK l \in {"withdraw", "move", "release"} : Goto(p, l)
    BY <1>5 DEF Renew, RescheduleSaves
  <2>2. /\ UNCHANGED <<kind, phase, todo, touched, on, rev, got, unsure, saw>>
        /\ owner' = owner /\ live' \in BOOLEAN
    BY <1>1, <1>5 DEF Renew, MayRenew, RescheduleSaves, lease, LeaseTyped
  <2>3. LocalsTyped' /\ Others(p) /\ pc'[p] = l
    BY <1>1, <2>1, <2>2 DEF LocalsTyped, Goto, Labels, Others, Same
  <2>4. JobTyped' /\ LeaseTyped'
    <3>1. CASE Renew(p)
      BY <1>1, <2>2, <3>1 DEF Renew, JobTyped, LeaseTyped
    <3>2. CASE RescheduleSaves(p)
      BY <1>1, <2>2, <3>2
      DEF RescheduleSaves, SaveConfirmed, Confirms, Scheduled, JobTyped, LeaseTyped, Outcomes
    <3> QED
      BY <1>5, <3>1, <3>2
  <2> QED
    BY <1>2, <2>2, <2>3, <2>4, CallerGoes
<1> QED
  BY <1>3, <1>4, <1>5

LEMMA MoveHolds == ASSUME HoldInv, NEW p \in Callers, Move(p) PROVE HoldInv'
<1>1. /\ p \in Procs /\ JobTyped /\ WorldTyped /\ LocalsTyped /\ LeaseTyped /\ FencerInv(p)
      /\ NoOne \notin Procs /\ Gone \notin Procs /\ revision \in Nat
  BY CallerTypes
<1>2. LocalsTyped' /\ Others(p) /\ Idled(p)
  BY <1>1, Finished DEF Move
<1>3. CASE MayMove(p)
  <2>1. /\ status' = "scheduled" /\ blocked' = "none" /\ owner' = NoOne /\ live' = FALSE
        /\ revision' = revision + 1 /\ due' = FALSE /\ UNCHANGED <<post, claim, retries>>
        /\ mode' = [l \in Lanes |-> IF l \in NativeLanes THEN "native" ELSE mode[l]]
        /\ step' = [s \in Steps |-> "pending"] /\ result' = [s \in Steps |-> "none"]
        /\ polls' = [s \in Steps |-> 0]
        /\ nextRun' = IF NativeLanes # {} THEN "soon" ELSE "runAt"
    BY <1>3 DEF Move
  <2>2. revision + 1 \in Revisions
    BY <1>1, <1>3, SchedulerAssumption DEF FencerInv, MayMove, Revisions
  <2>3. JobTyped' /\ LeaseTyped' /\ WorldTyped'
    <3>1. JobTyped'
      BY <1>1, <2>1, <2>2, SchedulerAssumption DEF JobTyped, Statuses
    <3> QED
      BY <1>1, <2>1, <3>1 DEF LeaseTyped, WorldTyped
  <2>4. TypeOK'
    BY <1>2, <2>3 DEF TypeOK, JobTyped, LeaseTyped, WorldTyped, LocalsTyped
  <2>5. FencerInv(p)' /\ Yields(p)
    BY <1>1, <1>2, <2>1, <2>4 DEF FencerInv, Yields
  <2> QED
    BY <2>5, CallerHolds
<1>4. CASE ~MayMove(p)
  <2>1. Abandon(p) /\ UNCHANGED <<job, live, due, post, claim, retries>>
    BY <1>4 DEF Move
  <2>2. LeaseTyped' /\ owner' # p /\ \A q \in Procs : owner' = q => owner = q
    BY <1>1, <2>1 DEF Abandon, LeaseTyped
  <2> QED
    BY <1>2, <2>1, <2>2, CallerTypes, CallerGoes DEF job, world
<1> QED
  BY <1>3, <1>4

LEMMA DeathHolds == ASSUME HoldInv, NEW p \in Procs, Crash(p) PROVE HoldInv'
<1>1. /\ JobTyped /\ WorldTyped /\ LocalsTyped /\ LeaseTyped /\ p # Gone /\ Gone \notin Procs
      /\ revision \in Nat /\ JobTyped' /\ WorldTyped'
  BY RunnerTypes, CallerTypes, SchedulerAssumption DEF Procs, Crash
<1>2. LocalsTyped' /\ Others(p) /\ Idled(p) /\ UNCHANGED <<job, live, world>>
  BY <1>1, Finished DEF Crash
<1>3. LeaseTyped' /\ owner' # p /\ \A q \in Procs : owner' = q => owner = q
  BY <1>1, <1>2 DEF Crash, Abandon, LeaseTyped
<1>4. TypeOK'
  BY <1>1, <1>2, <1>3 DEF TypeOK, JobTyped, LeaseTyped, WorldTyped, LocalsTyped
<1>5. Yields(p)
  BY <1>2, <1>3, <1>4 DEF Yields, job
<1>6. HolderInv(p)' /\ FencerInv(p)'
  BY <1>1, <1>2, <1>3 DEF HolderInv, LabelInv, FencerInv, AtKey, Idled, job
<1> QED
  BY <1>5, <1>6, RunnerHolds, CallerHolds DEF Procs

LEMMA WorldMovesHold ==
    ASSUME HoldInv,
           \/ LeaseExpires \/ TimePasses \/ UNCHANGED vars
           \/ \E s \in Steps, r \in Revisions : ProviderMoves(s, r)
    PROVE  HoldInv'
<1>1. JobTyped /\ WorldTyped /\ LocalsTyped /\ LeaseTyped
  BY TypeParts DEF HoldInv
<1>2. UNCHANGED <<job, owner, locals>> /\ live' \in BOOLEAN
  BY <1>1 DEF LeaseExpires, TimePasses, ProviderMoves, vars, lease, LeaseTyped
<1>3. JobTyped' /\ LocalsTyped' /\ LeaseTyped'
  BY <1>1, <1>2, JobTypeKept, LocalsTypeKept DEF LeaseTyped
<1>4. WorldTyped'
  <2>1. CASE \E s \in Steps, r \in Revisions : ProviderMoves(s, r)
    BY <1>1, <2>1 DEF ProviderMoves, WorldTyped, Copies
  <2>2. CASE TimePasses
    BY <1>1, <2>2 DEF TimePasses, WorldTyped
  <2>3. CASE LeaseExpires \/ UNCHANGED vars
    BY <1>1, <2>3, WorldTypeKept DEF LeaseExpires, vars
  <2> QED
    BY <2>1, <2>2, <2>3
<1>5. TypeOK'
  BY <1>3, <1>4 DEF TypeOK, JobTyped, LeaseTyped, WorldTyped, LocalsTyped
<1>6. Yields(Gone)
  BY <1>2, <1>5 DEF Yields, Others, Same, job, locals
<1> QED
  BY <1>6, WorldHolds

LEMMA NextHolds == ASSUME HoldInv, [Next]_vars PROVE HoldInv'
<1>1. CASE \E p \in Runners : RunnerStep(p) \/ Throw(p)
  BY <1>1, LoopHolds, BackAgainHolds, FenceStepHolds, ClientHolds, VisitHolds, TurnHolds
  DEF RunnerStep
<1>2. CASE \E p \in Runners, k \in Kinds : Claim(p, k)
  BY <1>2, TurnHolds
<1>3. CASE \E p \in Callers : CallerStep(p)
  BY <1>3, CancelsHold, ReschedulesHold, MoveHolds DEF CallerStep
<1>4. CASE \E p \in Procs : Crash(p)
  BY <1>4, DeathHolds
<1>5. CASE \/ LeaseExpires \/ TimePasses \/ UNCHANGED vars
           \/ \E s \in Steps, r \in Revisions : ProviderMoves(s, r)
  BY <1>5, WorldMovesHold
<1> QED
  BY <1>1, <1>2, <1>3, <1>4, <1>5 DEF Next

LEMMA InitHolds == Init => HoldInv
BY InitIInv DEF IInv, HoldInv, HolderInv, FencerInv, RunnersInv, RunnerInv, LeaseInv, CallersInv,
                CallerInv, MoverInv

(* The types, the fence of cancel and the fence of the lease do not rest   *)
(* on a retry that ends before its lease does.                             *)
THEOREM SchedulerTypes == Spec => []TypeOK
<1>1. HoldInv => TypeOK
  BY DEF HoldInv
<1>2. HoldInv /\ [Next]_vars => HoldInv'
  BY NextHolds
<1> QED
  BY <1>1, <1>2, InitHolds, PTL DEF Spec

-----------------------------------------------------------------------------
(* What a step of the system may do to the record.                         *)

LEMMA OnlyTheseWrite ==
    ASSUME Next
    PROVE  \/ UNCHANGED <<status, step>>
           \/ \E p \in Runners : Release(p) \/ MarkDispatching(p) \/ Record(p) \/ Retry(p)
           \/ \E p \in Callers : CancelFence(p) \/ CancelFinal(p) \/ Move(p)
<1>1. ASSUME NEW p \in Runners, RunnerStep(p)
      PROVE  \/ UNCHANGED <<status, step>>
             \/ Release(p) \/ MarkDispatching(p) \/ Record(p) \/ Retry(p)
  BY <1>1
  DEF RunnerStep, NextPhase, EndRounds, ToRelease, Publish, PublishAnswers, RetryFailed,
      RetryAnswers, Advance, PreflightFails, Convert, Salvage, Recover, RecoverFails, Poll,
      RecordPoll, job
<1>2. ASSUME NEW p \in Callers, CallerStep(p)
      PROVE  UNCHANGED <<status, step>> \/ CancelFence(p) \/ CancelFinal(p) \/ Move(p)
  BY <1>2
  DEF CallerStep, Cancel, WithdrawCopy, Reschedule, RescheduleFails, Renew, RescheduleSaves,
      RescheduleUnfences, RescheduleCancels, job
<1>3. ASSUME \/ \E p \in Runners : Throw(p)
             \/ \E p \in Runners, k \in Kinds : Claim(p, k)
             \/ \E p \in Procs : Crash(p)
             \/ LeaseExpires \/ TimePasses
             \/ \E s \in Steps, r \in Revisions : ProviderMoves(s, r)
      PROVE  UNCHANGED <<status, step>>
  BY <1>3 DEF Throw, ToRelease, Claim, Crash, LeaseExpires, TimePasses, ProviderMoves, job
<1> QED
  BY <1>1, <1>2, <1>3 DEF Next

StillStopped ==
    /\ status' \in Stopped
    /\ \A s \in Steps : step'[s] = "dispatching" => step[s] = "dispatching"

LEMMA StopsForGood ==
    ASSUME HoldInv, Next, status \in Stopped
    PROVE  StillStopped
<1>1. JobTyped
  BY TypeParts DEF HoldInv
<1>2. ASSUME NEW p \in Runners, Release(p) \/ MarkDispatching(p) \/ Record(p) \/ Retry(p)
      PROVE  StillStopped
  <2>1. pc[p] = "record" => on[p] \in Steps
    BY DEF HoldInv, HolderInv, LabelInv, AtKey
  <2> QED
    BY <1>1, <1>2, <2>1 DEF StillStopped, Release, MarkDispatching, Record, Retry, MayMark, JobTyped
<1>3. ASSUME NEW p \in Callers, CancelFence(p) \/ CancelFinal(p) \/ Move(p)
      PROVE  StillStopped
  BY <1>3
  DEF StillStopped, CancelFence, FenceStep, CancelFinal, FinalStatus, Move, MayMove, Stopped, job
<1> QED
  BY <1>2, <1>3, OnlyTheseWrite DEF StillStopped

LEMMA EndsFenced ==
    ASSUME HoldInv, Next, NEW s \in Steps, step[s] = "dispatching", step'[s] # "dispatching"
    PROVE  \E p \in Runners : owner = p /\ pc[p] = "record" /\ on[p] = s /\ rev[p] = revision
<1>1. JobTyped
  BY TypeParts DEF HoldInv
<1>2. ASSUME NEW p \in Runners, Release(p) \/ MarkDispatching(p) \/ Record(p) \/ Retry(p)
      PROVE  owner = p /\ pc[p] = "record" /\ on[p] = s /\ rev[p] = revision
  <2>1. ~(Release(p) \/ MarkDispatching(p) \/ Retry(p))
    BY <1>1 DEF Release, MarkDispatching, Retry, JobTyped
  <2>2. Record(p) /\ owner = p /\ pc[p] = "record" /\ on[p] = s
    BY <1>1, <1>2, <2>1 DEF Record, Leased, JobTyped
  <2> QED
    BY <2>2 DEF HoldInv, HolderInv
<1>3. ASSUME NEW p \in Callers, CancelFence(p) \/ CancelFinal(p) \/ Move(p) PROVE FALSE
  <2>1. owner = p => step[s] # "dispatching"
    BY DEF HoldInv, FencerInv
  <2> QED
    BY <1>3, <2>1 DEF CancelFence, FenceStep, CancelFinal, Move, MayMove, job
<1> QED
  BY <1>2, <1>3, OnlyTheseWrite

(* A stopped job stays stopped and none of its steps goes in flight again, *)
(* against every runner, retry and reschedule that read it before, live    *)
(* lease or not (cancel).                                                  *)
THEOREM StoppedStaysStopped == Spec => FenceHolds
<1>1. HoldInv /\ [Next]_vars =>
        [(status \in Stopped) =>
           /\ status' \in Stopped
           /\ \A s \in Steps : step'[s] = "dispatching" => step[s] = "dispatching"]_vars
  BY StopsForGood DEF StillStopped
<1>2. HoldInv /\ [Next]_vars => HoldInv'
  BY NextHolds
<1> QED
  BY <1>1, <1>2, InitHolds, PTL DEF Spec, FenceHolds

(* A step in flight is settled by the lease's holder alone, with what was  *)
(* answered for it in the job's present revision (#leased): the answer of  *)
(* an expired worker, whatever it was doing when its lease ran out, is     *)
(* lost on a record that its replacement works on.                         *)
THEOREM OnlyTheHolderRecords == Spec => ProgressIsFenced
<1>1. HoldInv /\ [Next]_vars =>
        [\A s \in Steps : step[s] = "dispatching" /\ step'[s] # "dispatching" =>
            \E p \in Runners : owner = p /\ pc[p] = "record" /\ on[p] = s /\ rev[p] = revision]_vars
  BY EndsFenced
<1>2. HoldInv /\ [Next]_vars => HoldInv'
  BY NextHolds
<1> QED
  BY <1>1, <1>2, InitHolds, PTL DEF Spec, ProgressIsFenced

-----------------------------------------------------------------------------
(* Who acts, and what the others see of it.                                *)

Alone(p) ==
    Others(p) /\ \A q \in Procs : q # p /\ owner' = q => owner = q

LEMMA RunnerAlone ==
    ASSUME HoldInv, NEW p \in Runners, RunnerStep(p) \/ Throw(p) \/ \E k \in Kinds : Claim(p, k)
    PROVE  Alone(p)
<1>1. p \in Procs /\ LocalsTyped /\ NoOne \notin Procs
  BY RunnerTypes, SchedulerAssumption
<1>2. \A q \in Procs : q # p /\ owner' = q => owner = q
  BY <1>1
  DEF RunnerStep, NextPhase, EndRounds, Throw, ToRelease, Publish, PublishAnswers, RetryFailed,
      RetryAnswers, Advance, PreflightFails, Convert, MarkDispatching, Salvage, Recover,
      RecoverFails, Record, Retry, Poll, RecordPoll, Release, Claim, lease
<1> SUFFICES Others(p)
  BY <1>2 DEF Alone
<1>3. CASE NextPhase(p) \/ EndRounds(p) \/ Throw(p) \/ Release(p)
  <2>1. CASE NextPhase(p) \/ EndRounds(p)
    BY <1>1, <2>1 DEF LocalsTyped, Others, Same, NextPhase, EndRounds, ToPoll, ToRelease, Goto
  <2>2. CASE Throw(p) \/ Release(p)
    BY <1>1, <2>2 DEF LocalsTyped, Others, Same, Throw, ToRelease, Release, Finish, Goto
  <2> QED
    BY <1>3, <2>1, <2>2
<1>4. CASE Publish(p) \/ PublishAnswers(p) \/ RetryFailed(p) \/ RetryAnswers(p) \/ Recover(p)
  BY <1>1, <1>4
  DEF LocalsTyped, Others, Same, Publish, PublishAnswers, RetryFailed, RetryAnswers, Recover,
      Reconcile, GotUnsent, Got, Goto
<1>5. CASE Advance(p)
  BY <1>1, <1>5 DEF LocalsTyped, Others, Same, Advance, ToPoll, Goto
<1>6. CASE PreflightFails(p) \/ Convert(p) \/ MarkDispatching(p)
  BY <1>1, <1>6
  DEF LocalsTyped, Others, Same, PreflightFails, Convert, MarkDispatching, ToPoll, Back, Goto
<1>7. CASE RecoverFails(p) \/ Record(p) \/ RecordPoll(p)
  BY <1>1, <1>7 DEF LocalsTyped, Others, Same, RecoverFails, Record, RecordPoll, Back, Got, Goto
<1>8. CASE Salvage(p)
  BY <1>1, <1>8 DEF LocalsTyped, Others, Same, Salvage, Reconcile, GotUnsent, Got, Goto
<1>9. CASE Retry(p)
  BY <1>1, <1>9 DEF LocalsTyped, Others, Same, Retry, Got, Goto
<1>10. CASE Poll(p)
  BY <1>1, <1>10 DEF LocalsTyped, Others, Same, Poll, Reconcile, GotUnsent, Got, Goto
<1>11. CASE \E k \in Kinds : Claim(p, k)
  BY <1>1, <1>11 DEF LocalsTyped, Others, Same, Claim, Goto
<1> QED
  BY <1>3, <1>4, <1>5, <1>6, <1>7, <1>8, <1>9, <1>10, <1>11 DEF RunnerStep

LEMMA CallerAlone ==
    ASSUME HoldInv, NEW p \in Callers, CallerStep(p) PROVE Alone(p)
<1>1. p \in Procs /\ LocalsTyped /\ WorldTyped /\ NoOne \notin Procs /\ Gone \notin Procs
  BY CallerTypes
<1>2. \A q \in Procs : q # p /\ owner' = q => owner = q
  BY <1>1
  DEF CallerStep, Cancel, CancelFence, WithdrawCopy, CancelFinal, Reschedule, RescheduleFails,
      Renew, RescheduleSaves, RescheduleUnfences, RescheduleCancels, Move, Unfence, Abandon, lease
<1> SUFFICES Others(p)
  BY <1>2 DEF Alone
<1>3. CASE Cancel(p) \/ RescheduleCancels(p)
  BY <1>1, <1>3
  DEF LocalsTyped, Others, Same, Cancel, RescheduleCancels, CancelFence, Withdrawing, Finish, Goto
<1>4. CASE WithdrawCopy(p)
  BY <1>1, <1>4, CopyWithdrawn DEF Withdrawn
<1>5. CASE CancelFinal(p) \/ RescheduleSaves(p)
  BY <1>1, <1>5 DEF LocalsTyped, Others, Same, CancelFinal, RescheduleSaves, Finish, Goto
<1>6. CASE Reschedule(p) \/ Renew(p)
  BY <1>1, <1>6 DEF LocalsTyped, Others, Same, Reschedule, Renew, Withdrawing, Goto
<1>7. CASE RescheduleFails(p) \/ RescheduleUnfences(p) \/ Move(p)
  BY <1>1, <1>7
  DEF LocalsTyped, Others, Same, RescheduleFails, RescheduleUnfences, Move, Finish, Goto
<1> QED
  BY <1>3, <1>4, <1>5, <1>6, <1>7 DEF CallerStep

LEMMA DeathAlone == ASSUME HoldInv, NEW p \in Procs, Crash(p) PROVE Alone(p)
<1>1. LocalsTyped /\ Gone \notin Procs
  BY TypeParts, SchedulerAssumption DEF HoldInv
<1> QED
  BY <1>1, Finished DEF Crash, Abandon, Alone

WorldStep == \/ LeaseExpires \/ TimePasses
             \/ \E s \in Steps, r \in Revisions : ProviderMoves(s, r)

LEMMA WorldIsAlone == ASSUME WorldStep PROVE \A q \in Procs : Same(q) /\ (owner' = q => owner = q)
BY DEF WorldStep, LeaseExpires, TimePasses, ProviderMoves, Same, locals, lease

-----------------------------------------------------------------------------
(* The order of a lane's steps.  A lane with more than one step has no     *)
(* native route, so that a job of which any step was sent is never moved:  *)
(* every claim and every copy is one of the present revision.              *)

Active(s) == step[s] \in {"dispatching", "dispatched"}

Prior(s) == <<s[1], s[2] - 1>>

Led(s) == s[2] > 1 => result[Prior(s)] = "published"

ClaimedInv(s, r) == KeyInv(s, r) /\ (claim[s][r] # "none" => r = revision /\ Active(s))

(* A runner works on steps that were sent in their turn, and a retry has   *)
(* only failed ones before it, as long as it has its lease.                *)
TurnInv(p) ==
    /\ pc[p] \in AtKey \cup {"polled"} => rev[p] = revision /\ Active(on[p])
    /\ \A s \in todo[p] : rev[p] = revision /\ Active(s)
    /\ pc[p] \in {"record", "polled"} /\ got[p] = "published" => post[on[p]][rev[p]] = "public"
    /\ pc[p] = "preflight" /\ owner = p => Led(on[p])
    /\ phase[p] = "retry" /\ owner = p =>
              \A s \in todo[p] : step[s] = "dispatched" /\ Fixed(result[s])

(* A step leaves pending only behind one that is published, and stays      *)
(* behind it: a retry never takes a published step.                        *)
OrderInv ==
    /\ \A l \in Lanes : mode[l] = "runtime"
    /\ \A s \in Steps, r \in Revisions : ClaimedInv(s, r)
    /\ \A s \in Steps : result[s] = "published" => post[s][revision] = "public"
    /\ \A s \in Steps : Active(s) => Led(s)
    /\ \A p \in Runners : TurnInv(p)
    /\ \A p \in Callers : owner = p => \A s \in Steps : ~Active(s)

LEMMA PriorIsAStep == ASSUME NEW s \in Steps, s[2] > 1 PROVE Prior(s) \in Steps /\ Length # 1
<1>1. PICK l \in Lanes, i \in 1 .. Length : s = <<l, i>>
  BY DEF Steps
<1> QED
  BY <1>1, SchedulerAssumption DEF Steps, Prior

LEMMA Writes ==
    ASSUME Next
    PROVE  \/ UNCHANGED <<mode, step, result>>
           \/ \E p \in Runners : \/ Convert(p) \/ MarkDispatching(p) \/ Record(p)
                                 \/ Retry(p) \/ RecordPoll(p)
           \/ \E p \in Callers : \/ CancelFence(p) \/ CancelFinal(p) \/ RescheduleSaves(p)
                                 \/ Move(p) /\ MayMove(p)
<1>1. ASSUME NEW p \in Runners, RunnerStep(p)
      PROVE  \/ UNCHANGED <<mode, step, result>>
             \/ Convert(p) \/ MarkDispatching(p) \/ Record(p) \/ Retry(p) \/ RecordPoll(p)
  BY <1>1
  DEF RunnerStep, NextPhase, EndRounds, ToRelease, Publish, PublishAnswers, RetryFailed,
      RetryAnswers, Advance, PreflightFails, Salvage, Recover, RecoverFails, Poll, Release, job
<1>2. ASSUME NEW p \in Callers, CallerStep(p)
      PROVE  \/ UNCHANGED <<mode, step, result>>
             \/ CancelFence(p) \/ CancelFinal(p) \/ RescheduleSaves(p) \/ (Move(p) /\ MayMove(p))
  BY <1>2
  DEF CallerStep, Cancel, WithdrawCopy, Reschedule, RescheduleFails, Renew,
      RescheduleUnfences, RescheduleCancels, Move, job
<1>3. ASSUME \/ \E p \in Runners : Throw(p)
             \/ \E p \in Runners, k \in Kinds : Claim(p, k)
             \/ \E p \in Procs : Crash(p)
             \/ LeaseExpires \/ TimePasses
             \/ \E s \in Steps, r \in Revisions : ProviderMoves(s, r)
      PROVE  UNCHANGED <<mode, step, result>>
  BY <1>3 DEF Throw, ToRelease, Claim, Crash, LeaseExpires, TimePasses, ProviderMoves, job
<1> QED
  BY <1>1, <1>2, <1>3 DEF Next

LEMMA OneRevision ==
    ASSUME Next, ~\E p \in Callers : Move(p) /\ MayMove(p) PROVE revision' = revision
<1>1. ASSUME NEW p \in Runners, RunnerStep(p) PROVE revision' = revision
  BY <1>1
  DEF RunnerStep, NextPhase, EndRounds, ToRelease, Publish, PublishAnswers, RetryFailed,
      RetryAnswers, Advance, PreflightFails, Convert, MarkDispatching, Salvage, Recover,
      RecoverFails, Record, Retry, Poll, RecordPoll, Release, job
<1>2. ASSUME NEW p \in Callers, CallerStep(p), ~(Move(p) /\ MayMove(p)) PROVE revision' = revision
  BY <1>2
  DEF CallerStep, Cancel, CancelFence, WithdrawCopy, CancelFinal, Reschedule, RescheduleFails,
      Renew, RescheduleSaves, RescheduleUnfences, RescheduleCancels, Move, job
<1>3. ASSUME \/ \E p \in Runners : Throw(p)
             \/ \E p \in Runners, k \in Kinds : Claim(p, k)
             \/ \E p \in Procs : Crash(p)
             \/ LeaseExpires \/ TimePasses
             \/ \E s \in Steps, r \in Revisions : ProviderMoves(s, r)
      PROVE  revision' = revision
  BY <1>3 DEF Throw, ToRelease, Claim, Crash, LeaseExpires, TimePasses, ProviderMoves, job
<1> QED
  BY <1>1, <1>2, <1>3 DEF Next

(* A job is moved only before any of its steps was sent.                   *)
Moves == \E p \in Callers : Move(p) /\ MayMove(p)

(* What no other step does: it takes a published outcome back, sends a     *)
(* step out of turn, or forgets a step that was sent.                      *)
Follows(s) ==
    /\ result[s] = "published" => result'[s] = "published"
    /\ Active(s) => Active(s)'
    /\ Active(s)' => Active(s) \/ Led(s)

LEMMA InTurn ==
    ASSUME StopOnFailure, HoldInv, OrderInv, Next, ~Moves
    PROVE  /\ revision' = revision
           /\ \A l \in Lanes : mode'[l] = "runtime"
           /\ \A s \in Steps : Follows(s)
<1>1. JobTyped
  BY TypeParts DEF HoldInv
<1>2. ASSUME NEW p \in Runners, \/ Convert(p) \/ MarkDispatching(p) \/ Record(p)
                                \/ Retry(p) \/ RecordPoll(p)
      PROVE  (\A l \in Lanes : mode'[l] = "runtime") /\ \A s \in Steps : Follows(s)
  <2>1. TurnInv(p) /\ HolderInv(p)
    BY DEF OrderInv, HoldInv
  <2>2. CASE Convert(p)
    BY <1>1, <2>2 DEF Convert, OrderInv, JobTyped, Follows, Active
  <2>3. CASE MarkDispatching(p)
    BY <1>1, <2>1, <2>3
    DEF MarkDispatching, MayMark, Leased, TurnInv, OrderInv, JobTyped, Follows, Active
  <2>4. CASE Record(p)
    BY <1>1, <2>4 DEF Record, OrderInv, JobTyped, Follows, Active
  <2>5. CASE Retry(p)
    BY <1>1, <2>1, <2>5
    DEF Retry, MayMark, Leased, TurnInv, OrderInv, Fixed, JobTyped, Follows, Active
  <2>6. CASE RecordPoll(p)
    <3>1. \A s \in Steps : result'[s] = result[s] \/ Unresolved(result[s])
      BY <1>1, <2>6 DEF RecordPoll, Polled, JobTyped
    <3> QED
      BY <2>6, <3>1 DEF RecordPoll, Unresolved, OrderInv, Follows, Active
  <2> QED
    BY <1>2, <2>2, <2>3, <2>4, <2>5, <2>6
<1>3. ASSUME NEW p \in Callers, CancelFence(p) \/ CancelFinal(p) \/ RescheduleSaves(p)
      PROVE  (\A l \in Lanes : mode'[l] = "runtime") /\ \A s \in Steps : Follows(s)
  <2>1. CASE CancelFence(p)
    BY <2>1 DEF CancelFence, FenceStep, OrderInv, Follows, Active
  <2>2. CASE CancelFinal(p) \/ RescheduleSaves(p)
    BY <2>2
    DEF CancelFinal, RescheduleSaves, SaveConfirmed, Confirms, Scheduled, OrderInv, Follows, Active
  <2> QED
    BY <1>3, <2>1, <2>2
<1>4. UNCHANGED <<mode, step, result>> =>
         (\A l \in Lanes : mode'[l] = "runtime") /\ \A s \in Steps : Follows(s)
  BY DEF OrderInv, Follows, Active
<1>5. revision' = revision
  BY OneRevision DEF Moves
<1> QED
  BY <1>2, <1>3, <1>4, <1>5, Writes DEF Moves

LEMMA LedOnward ==
    ASSUME \A s \in Steps : Follows(s), NEW s \in Steps, Led(s) PROVE Led(s)'
BY PriorIsAStep DEF Follows, Led, Prior

(* A call for a step's key: it tells the truth of the copy, and a public   *)
(* copy is never sent again.                                               *)
Tells(p, s) ==
    /\ rev[p] = revision /\ Active(s) /\ rev'[p] = rev[p]
    /\ UNCHANGED <<step, result, lease>> /\ phase'[p] = phase[p] /\ todo'[p] \subseteq todo[p]
    /\ pc'[p] # "preflight" /\ (pc'[p] \in AtKey \cup {"polled"} => on'[p] = s)
    /\ AtItsKey(p, s) /\ KeyInv(s, rev[p])'
    /\ post[s][rev[p]] = "public" => post'[s][rev[p]] = "public"
    /\ pc'[p] \in {"record", "polled"} /\ got'[p] = "published" => post'[s][rev[p]] = "public"

LEMMA AnswersAreTrue ==
    ASSUME HoldInv, OrderInv, NEW p \in Runners,
           Publish(p) \/ PublishAnswers(p) \/ RetryFailed(p) \/ RetryAnswers(p) \/ Recover(p)
    PROVE  Tells(p, on[p]) /\ on[p] \in Steps
<1> DEFINE s == on[p]
<1>1. /\ p \in Procs /\ WorldTyped /\ LocalsTyped /\ s \in Steps /\ revision \in Revisions
      /\ revision \in Nat
      /\ rev[p] = revision /\ Active(s) /\ KeyInv(s, revision)
  BY RunnerTypes
  DEF HolderInv, LabelInv, OrderInv, TurnInv, ClaimedInv, AtKey, Publish, PublishAnswers,
      RetryFailed, RetryAnswers, Recover
<1>2. /\ UNCHANGED <<step, result, revision, lease, phase, todo, on, rev>>
      /\ \E l \in {"flight", "reflight", "record", "recover"} : pc' = [pc EXCEPT ![p] = l]
  BY DEF Publish, PublishAnswers, RetryFailed, RetryAnswers, Recover, Goto, job
<1>3. /\ rev'[p] = rev[p] /\ phase'[p] = phase[p] /\ todo'[p] = todo[p] /\ on'[p] = s
      /\ pc'[p] # "preflight"
  BY <1>1, <1>2 DEF LocalsTyped
<1>4. SUFFICES /\ AtItsKey(p, s) /\ KeyInv(s, revision)'
               /\ post[s][revision] = "public" => post'[s][revision] = "public"
               /\ pc'[p] = "record" /\ got'[p] = "published" => post'[s][revision] = "public"
  BY <1>1, <1>2, <1>3 DEF Tells, LocalsTyped
<1> DEFINE Saved(c) == claim' \in [Steps -> [Revisions -> Claims]] /\ claim'[s][revision] = c /\
                       \A t \in Steps, r \in Revisions :
                           t # s \/ r # revision => claim'[t][r] = claim[t][r]
           Sent == post'[s][revision] = "live" /\
                   \A t \in Steps, r \in Revisions :
                       t # s \/ r # revision => post'[t][r] = post[t][r]
<1>5. ASSUME NEW c \in Claims, SetClaim(p, s, c) PROVE Saved(c)
  BY <1>1, <1>5, ClaimSet
<1>6. ASSUME SetPost(p, s, "live") PROVE Sent
  BY <1>1, <1>6, PostSet DEF Copies
<1>7. UNCHANGED claim \/ UNCHANGED post =>
         \A t \in Steps, r \in Revisions : (UNCHANGED claim => claim'[t][r] = claim[t][r]) /\
                                           (UNCHANGED post => post'[t][r] = post[t][r])
  OBVIOUS
<1>8. ASSUME NEW o \in Reports(p, s) PROVE TrueOf(o, s, revision) /\ o \in Claims \ {"none", "sent"}
  BY <1>1, ReportsAreTrue
<1>9. TheClaim(p, s) # "none" => TrueOf(Read(TheClaim(p, s)), s, revision)
  BY <1>1, ReadIsTrue DEF TheClaim
<1>10. ASSUME NEW o, Got(p, o) PROVE got'[p] = o
  BY <1>1, <1>10 DEF Got, LocalsTyped
<1>11. ASSUME NEW o, GotUnsent(p, o) PROVE got'[p] = o \/ got'[p] = "refused"
  BY <1>1, <1>11 DEF GotUnsent, Got, LocalsTyped
<1>12. CASE Publish(p)
  <2>1. CASE TheClaim(p, s) = "none" /\ SetClaim(p, s, "sent") /\ SetPost(p, s, "live")
             /\ Goto(p, "flight")
    BY <1>1, <1>2, <1>5, <1>6, <2>1 DEF AtItsKey, KeyInv, TheClaim, Claims, Goto, LocalsTyped
  <2>2. CASE TheClaim(p, s) = "none" /\ SetClaim(p, s, "failed") /\ Got(p, "failed")
             /\ UNCHANGED post
    <3>1. Saved("failed") /\ got'[p] = "failed"
      BY <1>5, <1>10, <2>2 DEF Claims, Outcomes
    <3> QED
      BY <1>1, <1>2, <2>2, <3>1 DEF AtItsKey, KeyInv, TheClaim, MayAppear
  <2>3. CASE TheClaim(p, s) # "none" /\ Got(p, Read(TheClaim(p, s))) /\ UNCHANGED <<claim, post>>
    BY <1>1, <1>2, <1>9, <1>10, <2>3 DEF AtItsKey, KeyInv, MayAppear, TrueOf
  <2>4. CASE Got(p, "refused") /\ UNCHANGED <<claim, post>>
    BY <1>1, <1>2, <1>10, <2>4 DEF AtItsKey, KeyInv, MayAppear
  <2> QED
    BY <1>12, <2>1, <2>2, <2>3, <2>4 DEF Publish
<1>13. CASE PublishAnswers(p)
  <2>1. PICK o \in Reports(p, s), c \in Reports(p, s) \cup {"sent"} :
           Got(p, o) /\ SetClaim(p, s, c) /\ c \in {o, "sent"}
    BY <1>13 DEF PublishAnswers
  <2>2. Saved(c) /\ got'[p] = o /\ UNCHANGED post /\ TrueOf(o, s, revision)
    BY <1>5, <1>8, <1>10, <1>13, <2>1 DEF PublishAnswers, Claims
  <2> QED
    BY <1>1, <1>2, <1>8, <2>1, <2>2 DEF AtItsKey, KeyInv, MayAppear, TrueOf, Fixed
<1>14. CASE RetryFailed(p)
  <2>1. CASE Retryable(TheClaim(p, s)) /\ SetClaim(p, s, "sent") /\ SetPost(p, s, "live")
             /\ Goto(p, "reflight")
    BY <1>1, <1>2, <1>5, <1>6, <2>1
    DEF AtItsKey, KeyInv, TheClaim, Retryable, MayAppear, Claims, Goto, LocalsTyped
  <2>2. CASE Retryable(TheClaim(p, s)) /\ SetClaim(p, s, "failed") /\ Got(p, "failed")
             /\ UNCHANGED post
    BY <1>1, <1>2, <1>5, <1>10, <2>2
    DEF AtItsKey, KeyInv, TheClaim, Retryable, Claims, Outcomes, MayAppear
  <2>3. CASE /\ TheClaim(p, s) # "none" /\ GotUnsent(p, Read(TheClaim(p, s)))
             /\ UNCHANGED <<claim, post>>
    BY <1>1, <1>2, <1>9, <1>11, <2>3 DEF AtItsKey, KeyInv, MayAppear, TrueOf
  <2>4. CASE Goto(p, "recover") /\ UNCHANGED <<claim, post>>
    BY <1>1, <1>2, <2>4 DEF AtItsKey, KeyInv, MayAppear, Goto, LocalsTyped
  <2> QED
    BY <1>14, <2>1, <2>2, <2>3, <2>4 DEF RetryFailed
<1>15. CASE RetryAnswers(p)
  <2>1. PICK o \in Reports(p, s) :
          \/ SetClaim(p, s, o) /\ Got(p, o) /\ Goto(p, "record")
          \/ Goto(p, "recover") /\ UNCHANGED <<claim, got>>
    BY <1>15 DEF RetryAnswers
  <2>2. UNCHANGED post
    BY <1>15 DEF RetryAnswers
  <2>3. CASE SetClaim(p, s, o) /\ Got(p, o)
    BY <1>1, <1>2, <1>5, <1>8, <1>10, <2>2, <2>3 DEF AtItsKey, KeyInv, MayAppear, TrueOf, Fixed
  <2>4. CASE Goto(p, "recover") /\ UNCHANGED claim
    BY <1>1, <1>2, <2>2, <2>4 DEF AtItsKey, KeyInv, MayAppear, Goto, LocalsTyped
  <2> QED
    BY <2>1, <2>3, <2>4
<1>16. CASE Recover(p)
  <2>1. UNCHANGED <<post, revision>> /\ Reconcile(p, s)
    BY <1>2, <1>16 DEF Recover
  <2>2. AtItsKey(p, s) /\ KeyInv(s, rev[p])' /\ TrueOf(got'[p], s, rev[p])
    BY <1>1, <1>3, <2>1, Reconciled
  <2> QED
    BY <1>1, <1>2, <1>3, <2>1, <2>2 DEF TrueOf, KeyInv
<1> QED
  BY <1>12, <1>13, <1>14, <1>15, <1>16

LEMMA VisitsAreTrue ==
    ASSUME HoldInv, OrderInv, NEW p \in Runners, Salvage(p) \/ Poll(p)
    PROVE  \E s \in Steps : Tells(p, s)
<1>1. PICK s \in todo[p] :
         /\ todo' = [todo EXCEPT ![p] = @ \ {s}]
         /\ \/ /\ Reconcile(p, s) /\ on' = [on EXCEPT ![p] = s]
               /\ Goto(p, "record") \/ Goto(p, "polled")
            \/ /\ UNCHANGED <<claim, got>>
               /\ UNCHANGED pc \/ (Goto(p, "polled") /\ on' = [on EXCEPT ![p] = s])
  BY DEF Salvage, Poll
<1>2. /\ p \in Procs /\ WorldTyped /\ LocalsTyped /\ s \in Steps /\ revision \in Revisions
      /\ revision \in Nat /\ pc[p] = "next" /\ got[p] = "none"
      /\ rev[p] = revision /\ Active(s) /\ KeyInv(s, revision)
  BY RunnerTypes DEF HolderInv, LabelInv, LocalsTyped, OrderInv, TurnInv, ClaimedInv, Salvage, Poll
<1>3. UNCHANGED <<step, result, revision, lease, phase, rev, post>>
  BY DEF Salvage, Poll, job
<1>4. /\ rev'[p] = rev[p] /\ phase'[p] = phase[p] /\ todo'[p] \subseteq todo[p]
      /\ pc'[p] # "preflight" /\ (pc'[p] \in AtKey \cup {"polled"} => on'[p] = s)
  BY <1>1, <1>2, <1>3 DEF LocalsTyped, Goto, AtKey
<1>5. CASE Reconcile(p, s)
  <2>1. AtItsKey(p, s) /\ KeyInv(s, rev[p])' /\ TrueOf(got'[p], s, rev[p])
    BY <1>2, <1>3, <1>4, <1>5, Reconciled
  <2> QED
    BY <1>2, <1>3, <1>4, <2>1 DEF Tells, TrueOf
<1>6. CASE UNCHANGED <<claim, got>>
  <2>1. AtItsKey(p, s) /\ KeyInv(s, rev[p])'
    BY <1>2, <1>3, <1>4, <1>6 DEF AtItsKey, KeyInv, MayAppear
  <2> QED
    BY <1>2, <1>3, <1>4, <1>6, <2>1 DEF Tells
<1> QED
  BY <1>1, <1>5, <1>6

LEMMA TellsInTurn ==
    ASSUME HoldInv, OrderInv, NEW p \in Runners, NEW s \in Steps, Tells(p, s), revision' = revision
    PROVE  TurnInv(p)'
<1>1. TurnInv(p) /\ owner' = owner
  BY DEF OrderInv, Tells, lease
<1> QED
  BY <1>1 DEF TurnInv, Tells, Active, AtKey

(* What is known of every key once a step has been taken.                  *)
KeysFollow ==
    /\ \A s \in Steps, r \in Revisions : ClaimedInv(s, r)'
    /\ \A s \in Steps, r \in Revisions : post[s][r] = "public" => post'[s][r] = "public"

LEMMA TellsOfKeys ==
    ASSUME HoldInv, OrderInv, NEW p \in Runners, NEW s \in Steps, Tells(p, s), revision' = revision
    PROVE  KeysFollow
<1>1. ASSUME NEW t \in Steps, NEW r \in Revisions, t # s \/ r # revision
      PROVE  ClaimedInv(t, r)' /\ post'[t][r] = post[t][r]
  <2>1. ClaimedInv(t, r) /\ claim'[t][r] = claim[t][r] /\ post'[t][r] = post[t][r]
        /\ UNCHANGED <<step, revision>>
    BY <1>1 DEF OrderInv, Tells, AtItsKey
  <2> QED
    BY <2>1 DEF ClaimedInv, KeyInv, MayAppear, Active
<1>2. ClaimedInv(s, revision)' /\ (post[s][revision] = "public" => post'[s][revision] = "public")
  BY DEF Tells, ClaimedInv, Active
<1> QED
  BY <1>1, <1>2 DEF KeysFollow

LEMMA Calls ==
    ASSUME Next
    PROVE  \/ UNCHANGED <<claim, post>>
           \/ \E p \in Runners : \/ Publish(p) \/ PublishAnswers(p) \/ RetryFailed(p)
                                 \/ RetryAnswers(p) \/ Recover(p) \/ Salvage(p) \/ Poll(p)
           \/ \E p \in Callers : WithdrawCopy(p)
           \/ \E s \in Steps, r \in Revisions : ProviderMoves(s, r)
<1>1. ASSUME NEW p \in Runners, RunnerStep(p)
      PROVE  \/ UNCHANGED <<claim, post>>
             \/ Publish(p) \/ PublishAnswers(p) \/ RetryFailed(p) \/ RetryAnswers(p)
             \/ Recover(p) \/ Salvage(p) \/ Poll(p)
  BY <1>1
  DEF RunnerStep, NextPhase, EndRounds, ToRelease, Advance, PreflightFails, Convert,
      MarkDispatching, RecoverFails, Record, Retry, RecordPoll, Release, world
<1>2. ASSUME NEW p \in Callers, CallerStep(p) PROVE UNCHANGED <<claim, post>> \/ WithdrawCopy(p)
  BY <1>2
  DEF CallerStep, Cancel, CancelFence, CancelFinal, Reschedule, RescheduleFails, Renew,
      RescheduleSaves, RescheduleUnfences, RescheduleCancels, Move, world
<1>3. ASSUME \/ \E p \in Runners : Throw(p)
             \/ \E p \in Runners, k \in Kinds : Claim(p, k)
             \/ \E p \in Procs : Crash(p)
             \/ LeaseExpires \/ TimePasses
      PROVE  UNCHANGED <<claim, post>>
  BY <1>3 DEF Throw, ToRelease, Claim, Crash, LeaseExpires, TimePasses, world
<1> QED
  BY <1>1, <1>2, <1>3 DEF Next

LEMMA KeysGo ==
    ASSUME StopOnFailure, HoldInv, OrderInv, Next, ~Moves PROVE KeysFollow
<1>1. revision' = revision /\ \A s \in Steps : Active(s) => Active(s)'
  BY InTurn DEF Follows
<1>2. CASE UNCHANGED <<claim, post>>
  BY <1>1, <1>2 DEF KeysFollow, OrderInv, ClaimedInv, KeyInv, MayAppear
<1>3. ASSUME NEW p \in Runners,
             \/ Publish(p) \/ PublishAnswers(p) \/ RetryFailed(p) \/ RetryAnswers(p) \/ Recover(p)
             \/ Salvage(p) \/ Poll(p)
      PROVE  KeysFollow
  BY <1>1, <1>3, AnswersAreTrue, VisitsAreTrue, TellsOfKeys
<1>4. ASSUME \A s \in Steps, r \in Revisions :
                \/ post'[s][r] = post[s][r]
                \/ post[s][r] \in {"live", "dead"} /\ post'[s][r] = "dead"
                \/ post[s][r] = "live" /\ post'[s][r] \in {"public", "dead"},
             UNCHANGED claim
      PROVE  KeysFollow
  <2> SUFFICES ASSUME NEW s \in Steps, NEW r \in Revisions
               PROVE  ClaimedInv(s, r)' /\ (post[s][r] = "public" => post'[s][r] = "public")
    BY DEF KeysFollow
  <2>1. ClaimedInv(s, r)
    BY DEF OrderInv
  <2> QED
    BY <1>1, <1>4, <2>1 DEF ClaimedInv, KeyInv, MayAppear
<1>5. ASSUME NEW p \in Callers, WithdrawCopy(p) PROVE KeysFollow
  <2>1. PICK s \in Steps : Withdrawn(p, s)
    BY <1>5, CallerTypes, CopyWithdrawn
  <2> QED
    BY <1>4, <2>1 DEF Withdrawn
<1>6. ASSUME NEW s \in Steps, NEW r \in Revisions, ProviderMoves(s, r) PROVE KeysFollow
  <2>1. WorldTyped
    BY TypeParts DEF HoldInv
  <2> QED
    BY <1>4, <1>6, <2>1 DEF ProviderMoves, WorldTyped
<1> QED
  BY <1>2, <1>3, <1>5, <1>6, Calls

(* What the steps of the others leave a runner.                            *)
LEMMA TurnKept ==
    ASSUME StopOnFailure, HoldInv, OrderInv, Next, ~Moves, NEW p \in Runners,
           Same(p), owner' = p => owner = p
    PROVE  TurnInv(p)'
<1>1. TurnInv(p) /\ HolderInv(p) /\ JobTyped /\ LocalsTyped /\ p \in Procs /\ p \notin Callers
      /\ todo[p] \subseteq Steps /\ rev[p] \in Revisions
  BY TypeParts, SchedulerAssumption DEF OrderInv, HoldInv, Procs, LocalsTyped
<1>2. revision' = revision /\ (\A s \in Steps : Follows(s)) /\ KeysFollow
  BY InTurn, KeysGo
<1>3. /\ pc'[p] \in AtKey \cup {"polled"} => rev'[p] = revision' /\ Active(on[p])'
      /\ \A s \in todo'[p] : rev'[p] = revision' /\ Active(s)'
      /\ pc'[p] \in {"record", "polled"} /\ got'[p] = "published" =>
                post'[on'[p]][rev'[p]] = "public"
  BY <1>1, <1>2 DEF TurnInv, HolderInv, LabelInv, AtKey, Same, Follows, KeysFollow, Active
<1>4. pc'[p] = "preflight" /\ owner' = p => Led(on[p])'
  BY <1>1, <1>2, LedOnward DEF TurnInv, HolderInv, LabelInv, Same, Led, Prior
<1>5. ASSUME phase'[p] = "retry", owner' = p, NEW s \in todo'[p]
      PROVE  step'[s] = "dispatched" /\ Fixed(result'[s])
  <2>1. s \in Steps /\ s \in todo[p] /\ owner = p /\ step[s] = "dispatched" /\ Fixed(result[s])
    BY <1>1, <1>5 DEF TurnInv, Same
  <2>2. ASSUME NEW q \in Runners, \/ Convert(q) \/ MarkDispatching(q) \/ Record(q)
                                  \/ Retry(q) \/ RecordPoll(q)
        PROVE  step'[s] = step[s] /\ result'[s] = result[s]
    <3>1. CASE Convert(q)
      BY <3>1 DEF Convert
    <3>2. CASE MarkDispatching(q)
      BY <1>1, <2>1, <3>2 DEF MarkDispatching, MayMark, JobTyped
    <3>3. CASE Record(q)
      BY <1>1, <2>1, <3>3 DEF Record, JobTyped
    <3>4. CASE Retry(q)
      <4>1. ASSUME q = p PROVE s \notin todo[p] \/ UNCHANGED <<step, result>>
        BY <1>1, <1>5, <3>4, <4>1 DEF Retry, LocalsTyped, Same, Goto
      <4> QED
        BY <1>1, <2>1, <3>4, <4>1 DEF Retry, MayMark, Leased, JobTyped, Same, LocalsTyped
    <3>5. CASE RecordPoll(q)
      BY <1>1, <2>1, <3>5 DEF RecordPoll, Polled, Unresolved, Fixed, JobTyped
    <3> QED
      BY <2>2, <3>1, <3>2, <3>3, <3>4, <3>5
  <2>3. ASSUME NEW q \in Callers, CancelFence(q) \/ CancelFinal(q) \/ RescheduleSaves(q)
        PROVE  step'[s] = step[s] /\ (result'[s] = result[s] \/ result'[s] = "final")
    BY <2>1, <2>3
    DEF CancelFence, FenceStep, CancelFinal, RescheduleSaves, SaveConfirmed
  <2> QED
    BY <2>1, <2>2, <2>3, Writes DEF Fixed, Moves
<1> QED
  BY <1>3, <1>4, <1>5 DEF TurnInv

(* What a runner's own steps leave it: where it arrives.                   *)
LEMMA TurnTaken ==
    ASSUME StopOnFailure, HoldInv, OrderInv, Next, ~Moves, NEW p \in Runners,
           RunnerStep(p) \/ Throw(p) \/ \E k \in Kinds : Claim(p, k)
    PROVE  TurnInv(p)'
<1>1. /\ TurnInv(p) /\ HolderInv(p) /\ JobTyped /\ LocalsTyped /\ p \in Procs
      /\ todo[p] \subseteq Steps /\ \A l \in Lanes : mode[l] = "runtime"
  BY RunnerTypes DEF OrderInv, LocalsTyped
<1>2. revision' = revision /\ \A s \in Steps : Follows(s)
  BY InTurn
<1>3. CASE Publish(p) \/ PublishAnswers(p) \/ RetryFailed(p) \/ RetryAnswers(p) \/ Recover(p)
           \/ Salvage(p) \/ Poll(p)
  BY <1>2, <1>3, AnswersAreTrue, VisitsAreTrue, TellsInTurn
<1>4. CASE ToRelease(p)
  BY <1>1, <1>4, Releasing DEF TurnInv, AtKey
<1>5. CASE Release(p)
  BY <1>1, <1>5, Finished DEF TurnInv, Release, Idled, AtKey
<1>6. ASSUME ToPoll(p), UNCHANGED <<kind, touched, got, unsure, saw>> PROVE TurnInv(p)'
  <2>1. /\ pc'[p] = "next" /\ phase'[p] = "poll" /\ rev'[p] = revision
        /\ \A s \in todo'[p] : s \in Steps /\ step[s] = "dispatched"
    BY <1>1, <1>6, Polling
  <2> QED
    BY <1>2, <2>1 DEF TurnInv, Follows, Active, AtKey
<1>7. CASE NextPhase(p) /\ ~ToPoll(p)
  BY <1>1, <1>7 DEF NextPhase, TurnInv, LocalsTyped, AtKey
<1>8. CASE Advance(p) /\ ~ToPoll(p)
  <2>1. PICK s \in Steps : /\ on' = [on EXCEPT ![p] = s]
                           /\ \/ MustRecover(s) /\ Goto(p, "recover")
                              \/ MustConvert(s, saw[p]) /\ Goto(p, "preflight")
                              \/ MustDispatch(s, saw[p]) /\ Goto(p, "preflight")
    BY <1>8 DEF Advance
  <2>2. /\ rev'[p] = revision /\ phase'[p] = "advance" /\ todo'[p] = {} /\ on'[p] = s
        /\ UNCHANGED <<step, result, got>> /\ got[p] = "none"
    BY <1>1, <1>8, <2>1 DEF Advance, LocalsTyped, HolderInv, LabelInv, job
  <2>3. CASE MustRecover(s) /\ pc'[p] = "recover"
    BY <1>2, <2>2, <2>3 DEF TurnInv, MustRecover, Active, AtKey
  <2>4. CASE MustDispatch(s, saw[p]) /\ pc'[p] = "preflight"
    <3>1. s[1] \in Lanes
      BY DEF Steps
    <3>2. Unhindered(s)
      BY <1>1, <2>4, <3>1 DEF MustDispatch, Native
    <3>3. Led(s)
      BY <3>2, PriorIsAStep DEF Unhindered, Led, Prior
    <3> QED
      BY <1>2, <2>2, <2>4, <3>3, LedOnward DEF TurnInv, AtKey, Led, Prior
  <2>5. ~MustConvert(s, saw[p])
    BY <1>1 DEF MustConvert, Native, Steps
  <2> QED
    BY <1>1, <2>1, <2>3, <2>4, <2>5 DEF Goto, LocalsTyped
<1>9. CASE Convert(p) \/ RecoverFails(p) \/ Record(p) \/ RecordPoll(p)
  <2>1. /\ pc'[p] = "next" /\ phase'[p] = phase[p] /\ todo'[p] = todo[p] /\ rev'[p] = rev[p]
        /\ owner' = owner
    BY <1>1, <1>9 DEF Convert, RecoverFails, Record, RecordPoll, Back, Goto, LocalsTyped, lease
  <2>2. ASSUME phase[p] = "retry", owner = p, NEW s \in todo[p]
        PROVE  step'[s] = "dispatched" /\ Fixed(result'[s])
    <3>1. s \in Steps /\ step[s] = "dispatched" /\ Fixed(result[s])
      BY <1>1, <2>2 DEF TurnInv
    <3> QED
      BY <1>1, <1>9, <3>1
      DEF Convert, RecoverFails, Record, RecordPoll, Polled, Unresolved, Fixed, JobTyped
  <2> QED
    BY <1>1, <1>2, <2>1, <2>2 DEF TurnInv, AtKey, Follows
<1>10. CASE MarkDispatching(p) /\ ~ToPoll(p)
  <2>1. /\ step' = [step EXCEPT ![on[p]] = "dispatching"] /\ rev' = [rev EXCEPT ![p] = revision]
        /\ Goto(p, "send") /\ UNCHANGED <<phase, todo, on, got>> /\ on[p] \in Steps
        /\ todo[p] = {} /\ phase[p] = "advance"
    BY <1>1, <1>10 DEF MarkDispatching, HolderInv, LabelInv
  <2>2. /\ pc'[p] = "send" /\ rev'[p] = revision /\ step'[on[p]] = "dispatching"
    BY <1>1, <2>1 DEF Goto, LocalsTyped, JobTyped
  <2> QED
    BY <1>2, <2>1, <2>2 DEF TurnInv, Active, AtKey
<1>11. CASE Retry(p)
  <2>1. PICK s \in todo[p] :
          \/ /\ MayMark(p, s, "dispatched")
             /\ step' = [step EXCEPT ![s] = "dispatching"]
             /\ result' = [result EXCEPT ![s] = "none"]
             /\ Got(p, result[s]) /\ on' = [on EXCEPT ![p] = s]
             /\ todo' = [todo EXCEPT ![p] = @ \ {s}] /\ Goto(p, "resend")
          \/ /\ todo' = [todo EXCEPT ![p] =
                    IF ~Leased(p) \/ status \in Stopped THEN {} ELSE @ \ {s}]
             /\ UNCHANGED <<step, result, got, on, pc>>
    BY <1>11 DEF Retry
  <2>2. /\ rev'[p] = rev[p] /\ phase'[p] = phase[p] /\ owner' = owner /\ pc[p] = "next"
        /\ todo'[p] \subseteq todo[p] \ {s}
    BY <1>1, <1>11, <2>1 DEF Retry, LocalsTyped, lease
  <2>3. pc'[p] \in {"next", "resend"} /\ (pc'[p] = "resend" => on'[p] = s)
    BY <1>1, <2>1, <2>2 DEF LocalsTyped, Goto
  <2>4. \A t \in todo'[p] : step'[t] = step[t] /\ result'[t] = result[t]
    BY <1>1, <2>1, <2>2 DEF JobTyped
  <2> QED
    BY <1>1, <1>2, <2>2, <2>3, <2>4 DEF TurnInv, Follows, AtKey
<1>12. ASSUME NEW k \in Kinds, Claim(p, k) PROVE TurnInv(p)'
  <2>1. /\ pc'[p] = "next" /\ rev'[p] = revision /\ todo'[p] = Agenda(k)
        /\ phase'[p] = FirstPhase(k) /\ UNCHANGED <<step, result>>
    BY <1>1, <1>12 DEF Claim, LocalsTyped, Goto
  <2>2. \A s \in Agenda(k) : s \in Steps /\ Active(s)
    BY DEF Agenda, Active
  <2>3. FirstPhase(k) = "retry" => \A s \in Agenda(k) : step[s] = "dispatched" /\ Fixed(result[s])
    BY <1>1 DEF FirstPhase, Agenda, Fixed, Unresolved, Outcomes, JobTyped
  <2> QED
    BY <1>2, <2>1, <2>2, <2>3 DEF TurnInv, Follows, AtKey
<1>13. NextPhase(p) \/ Advance(p) \/ PreflightFails(p) \/ MarkDispatching(p) =>
          UNCHANGED <<kind, touched, got, unsure, saw>>
  BY DEF NextPhase, Advance, PreflightFails, MarkDispatching
<1>14. CASE NextPhase(p) \/ Advance(p) \/ PreflightFails(p) \/ MarkDispatching(p)
  <2>1. CASE ToPoll(p)
    BY <1>6, <1>13, <1>14, <2>1
  <2> QED
    BY <1>7, <1>8, <1>10, <1>14, <2>1 DEF PreflightFails
<1> QED
  BY <1>3, <1>4, <1>5, <1>9, <1>11, <1>12, <1>14 DEF RunnerStep, EndRounds, Throw

(* A published outcome is recorded from a call that saw the public post.   *)
LEMMA PublishedIsPublic ==
    ASSUME StopOnFailure, HoldInv, OrderInv, Next, ~Moves, NEW s \in Steps,
           result'[s] = "published"
    PROVE  post'[s][revision'] = "public"
<1>1. JobTyped /\ revision' = revision /\ revision \in Revisions
  BY TypeParts, InTurn DEF HoldInv, JobTyped
<1>2. SUFFICES post[s][revision] = "public"
  BY <1>1, KeysGo DEF KeysFollow
<1>3. CASE result[s] = "published"
  BY <1>3 DEF OrderInv
<1>4. ASSUME result[s] # "published", NEW p \in Runners,
             \/ Convert(p) \/ MarkDispatching(p) \/ Record(p) \/ Retry(p) \/ RecordPoll(p)
      PROVE  post[s][revision] = "public"
  <2>1. TurnInv(p) /\ HolderInv(p)
    BY DEF OrderInv, HoldInv
  <2>2. ~(Convert(p) \/ MarkDispatching(p) \/ Retry(p))
    BY <1>1, <1>4 DEF Convert, MarkDispatching, Retry, JobTyped
  <2>3. owner = p /\ on[p] = s /\ got[p] = "published" /\ pc[p] \in {"record", "polled"}
    BY <1>1, <1>4, <2>2 DEF Record, RecordPoll, Polled, Leased, JobTyped
  <2> QED
    BY <2>1, <2>3 DEF TurnInv, HolderInv
<1>5. ASSUME result[s] # "published", NEW p \in Callers,
             CancelFence(p) \/ CancelFinal(p) \/ RescheduleSaves(p)
      PROVE  FALSE
  BY <1>5 DEF CancelFence, CancelFinal, RescheduleSaves, SaveConfirmed
<1> QED
  BY <1>3, <1>4, <1>5, Writes DEF Moves

(* A step is sent only by the holder of the lease, and a caller gets the   *)
(* lease of a job of which nothing was sent.                               *)
LEMMA SentByTheHolder ==
    ASSUME HoldInv, OrderInv, Next, ~Moves, NEW s \in Steps, ~Active(s), Active(s)'
    PROVE  owner \in Runners /\ owner' = owner
<1>1. JobTyped
  BY TypeParts DEF HoldInv
<1>2. ASSUME NEW p \in Runners, \/ Convert(p) \/ MarkDispatching(p) \/ Record(p)
                                \/ Retry(p) \/ RecordPoll(p)
      PROVE  owner = p /\ owner' = owner
  <2>1. ~(Convert(p) \/ Record(p) \/ RecordPoll(p))
    BY <1>1 DEF Convert, Record, RecordPoll, JobTyped, Active
  <2> QED
    BY <1>1, <1>2, <2>1 DEF MarkDispatching, Retry, MayMark, Leased, lease, JobTyped, Active
<1>3. ASSUME NEW p \in Callers, CancelFence(p) \/ CancelFinal(p) \/ RescheduleSaves(p)
      PROVE  FALSE
  BY <1>3 DEF CancelFence, FenceStep, CancelFinal, RescheduleSaves, Active
<1> QED
  BY <1>2, <1>3, Writes DEF Moves, Active

LEMMA OnlyTheseFence ==
    ASSUME HoldInv, Next, NEW p \in Callers, owner' = p, owner # p
    PROVE  Reschedule(p)
<1>1. p \in Procs /\ p # NoOne /\ p # Gone /\ p \notin Runners
  BY CallerTypes, SchedulerAssumption
<1>2. ASSUME NEW q \in Runners, RunnerStep(q) \/ Throw(q) \/ \E k \in Kinds : Claim(q, k)
      PROVE  FALSE
  BY <1>1, <1>2, RunnerAlone DEF Alone
<1>3. ASSUME NEW q \in Callers, CallerStep(q), q # p PROVE FALSE
  BY <1>1, <1>3, CallerAlone DEF Alone
<1>4. ASSUME CallerStep(p) PROVE Reschedule(p)
  BY <1>1, <1>4
  DEF CallerStep, Cancel, CancelFence, WithdrawCopy, CancelFinal, RescheduleFails, Renew, MayRenew,
      RescheduleSaves, RescheduleUnfences, RescheduleCancels, Move, Unfence, Abandon, lease
<1>5. ASSUME NEW q \in Procs, Crash(q) PROVE FALSE
  BY <1>1, <1>5 DEF Crash, Abandon
<1>6. ~WorldStep
  BY <1>1, WorldIsAlone
<1> QED
  BY <1>2, <1>3, <1>4, <1>5, <1>6 DEF Next, WorldStep

LEMMA NothingSentYet ==
    ASSUME HoldInv, OrderInv, Next, ~Moves, NEW p \in Callers, owner' = p
    PROVE  \A s \in Steps : ~Active(s)'
<1> SUFFICES ASSUME NEW s \in Steps, Active(s)' PROVE FALSE
  OBVIOUS
<1>1. Active(s) /\ owner # p
  BY SentByTheHolder, SchedulerAssumption DEF OrderInv
<1>2. MayReschedule
  BY <1>1, OnlyTheseFence DEF Reschedule
<1>3. s[1] \in Lanes
  BY DEF Steps
<1> QED
  BY <1>1, <1>2, <1>3 DEF MayReschedule, hasDispatchedRuntime, Native, OrderInv, Active

LEMMA AllTurnsKept ==
    ASSUME StopOnFailure, HoldInv, OrderInv, Next, ~Moves, NEW p \in Runners
    PROVE  TurnInv(p)'
<1>1. p \in Procs /\ p \notin Callers
  BY SchedulerAssumption DEF Procs
<1>2. ASSUME NEW q, Alone(q), q # p PROVE TurnInv(p)'
  BY <1>1, <1>2, TurnKept DEF Alone, Others
<1>3. CASE RunnerStep(p) \/ Throw(p) \/ \E k \in Kinds : Claim(p, k)
  BY <1>3, TurnTaken
<1>4. ASSUME NEW q \in Runners, q # p, RunnerStep(q) \/ Throw(q) \/ \E k \in Kinds : Claim(q, k)
      PROVE  TurnInv(p)'
  BY <1>2, <1>4, RunnerAlone
<1>5. ASSUME NEW q \in Callers, CallerStep(q) PROVE TurnInv(p)'
  BY <1>1, <1>2, <1>5, CallerAlone
<1>6. ASSUME NEW q \in Procs, q # p, Crash(q) PROVE TurnInv(p)'
  BY <1>2, <1>6, DeathAlone
<1>7. ASSUME Crash(p) PROVE TurnInv(p)'
  <2>1. LocalsTyped /\ p # Gone /\ p # NoOne
    BY <1>1, RunnerTypes, SchedulerAssumption
  <2> QED
    BY <1>1, <1>7, <2>1, Finished DEF Crash, Idled, TurnInv, AtKey
<1>8. CASE WorldStep
  BY <1>1, <1>8, WorldIsAlone, TurnKept
<1> QED
  BY <1>3, <1>4, <1>5, <1>6, <1>7, <1>8 DEF Next, WorldStep

(* A move finds nothing sent and nobody at work, and starts over.          *)
LEMMA MoveInOrder ==
    ASSUME NativeLanes = {}, HoldInv, OrderInv, Moves PROVE OrderInv'
<1>1. PICK p \in Callers : Move(p) /\ MayMove(p)
  BY DEF Moves
<1>2. /\ owner' = NoOne /\ mode' = [l \in Lanes |-> mode[l]]
      /\ step' = [s \in Steps |-> "pending"] /\ result' = [s \in Steps |-> "none"]
      /\ UNCHANGED <<claim, post>> /\ Finish(p)
  BY <1>1 DEF Move
<1>3. p \in Procs /\ LocalsTyped /\ NoOne \notin Procs
  BY CallerTypes
<1>4. \A s \in Steps : ~Active(s)
  BY <1>1 DEF MayMove, OrderInv
<1>5. \A s \in Steps, r \in Revisions : ClaimedInv(s, r)'
  BY <1>2, <1>4 DEF OrderInv, ClaimedInv, KeyInv, MayAppear
<1>6. \A s \in Steps : ~Active(s)' /\ result'[s] # "published"
  BY <1>2 DEF Active
<1>7. ASSUME NEW q \in Runners PROVE TurnInv(q)'
  <2>1. q \in Procs /\ q # p /\ Same(q) /\ owner' # q
    BY <1>2, <1>3, Finished, SchedulerAssumption DEF Procs, Others
  <2>2. TurnInv(q) /\ HolderInv(q) /\ todo[q] \subseteq Steps
    BY <1>3, <2>1 DEF OrderInv, HoldInv, LocalsTyped
  <2>3. pc[q] \notin AtKey \cup {"polled"} /\ todo[q] = {}
    BY <1>4, <2>2 DEF TurnInv, HolderInv, LabelInv
  <2> QED
    BY <2>1, <2>3 DEF TurnInv, Same, AtKey
<1>8. \A q \in Callers : owner' # q
  BY <1>2, <1>3 DEF Procs
<1> QED
  BY <1>2, <1>5, <1>6, <1>7, <1>8 DEF OrderInv

LEMMA NextOrder ==
    ASSUME StopOnFailure, NativeLanes = {}, HoldInv, OrderInv, [Next]_vars PROVE OrderInv'
<1>1. CASE Moves
  BY <1>1, MoveInOrder
<1>2. CASE Next /\ ~Moves
  <2>1. revision' = revision /\ (\A l \in Lanes : mode'[l] = "runtime")
        /\ \A s \in Steps : Follows(s)
    BY <1>2, InTurn
  <2>2. KeysFollow
    BY <1>2, KeysGo
  <2>3. \A s \in Steps : result'[s] = "published" => post'[s][revision'] = "public"
    BY <1>2, <2>1, <2>2, PublishedIsPublic
  <2>4. \A s \in Steps : Active(s)' => Led(s)'
    BY <2>1, LedOnward DEF OrderInv, Follows
  <2>5. \A p \in Runners : TurnInv(p)'
    BY <1>2, AllTurnsKept
  <2>6. \A p \in Callers : owner' = p => \A s \in Steps : ~Active(s)'
    BY <1>2, NothingSentYet
  <2> QED
    BY <2>1, <2>2, <2>3, <2>4, <2>5, <2>6 DEF OrderInv, KeysFollow
<1>3. CASE UNCHANGED vars
  BY <1>3
  DEF vars, job, lease, world, locals, OrderInv, ClaimedInv, KeyInv, MayAppear, Active, Led, TurnInv
<1> QED
  BY <1>1, <1>2, <1>3

LEMMA InitOrder == ASSUME NativeLanes = {} PROVE Init => OrderInv
<1> SUFFICES ASSUME Init PROVE OrderInv
  OBVIOUS
<1>1. KeysInv
  BY InitIInv DEF IInv
<1>2. /\ \A s \in Steps : step[s] = "pending" /\ result[s] = "none"
      /\ \A s \in Steps, r \in Revisions : claim[s][r] = "none"
      /\ \A l \in Lanes : mode[l] = "runtime"
  BY DEF Init
<1>3. \A p \in Procs : owner # p /\ pc[p] = "idle" /\ todo[p] = {}
  BY SchedulerAssumption DEF Init
<1>4. \A p \in Runners : TurnInv(p)
  BY <1>3 DEF TurnInv, Procs, AtKey
<1> QED
  BY <1>1, <1>2, <1>3, <1>4 DEF OrderInv, ClaimedInv, KeysInv, Active, Procs

LEMMA OrderHolds == ASSUME HoldInv, OrderInv PROVE InOrder
<1> SUFFICES ASSUME NEW s \in Steps, NEW r \in Revisions, s[2] > 1, MayAppear(s, r)
             PROVE  post[Prior(s)][r] = "public"
  BY DEF InOrder, Prior
<1>1. r = revision /\ Active(s)
  BY DEF OrderInv, ClaimedInv, KeyInv, MayAppear
<1> QED
  BY <1>1, PriorIsAStep DEF OrderInv, Led

(* No item of a sequence is sent before the one before it is published     *)
(* (laneProgress), though items are retried and recovered, and though an   *)
(* expired runner goes on with a retry that another has taken over.  The   *)
(* one before it is not withdrawn or sent again after that.                *)
THEOREM LanesGoInOrder == Spec => []InOrder
<1>1. CASE StopOnFailure /\ NativeLanes = {}
  <2>1. Init => HoldInv /\ OrderInv
    BY <1>1, InitHolds, InitOrder
  <2>2. HoldInv /\ OrderInv /\ [Next]_vars => (HoldInv /\ OrderInv)'
    BY <1>1, NextHolds, NextOrder
  <2>3. HoldInv /\ OrderInv => InOrder
    BY OrderHolds
  <2> QED
    BY <2>1, <2>2, <2>3, PTL DEF Spec
<1>2. CASE ~(StopOnFailure /\ NativeLanes = {})
  <2>1. InOrder
    <3>1. \A s \in Steps : StopOnFailure => ~(s[2] > 1)
      BY <1>2, PriorIsAStep, SchedulerAssumption
    <3> QED
      BY <3>1 DEF InOrder
  <2> QED
    BY <2>1, PTL
<1> QED
  BY <1>1, <1>2

-----------------------------------------------------------------------------
(* The keys of the steps are used as KeyedTargets promises, whatever       *)
(* expires: what the claim says of a key is so, and a key that a runner is *)
(* sending is fenced, so that nobody else sends it or speaks for it.       *)

FliesAt(p, s, r) == pc[p] \in Flying /\ on[p] = s /\ rev[p] = r

ToldInv(s, r) ==
    /\ claim[s][r] \in {"none", "failed", "final"} => ~MayAppear(s, r)
    /\ claim[s][r] = "published" => post[s][r] = "public"

SpokenInv ==
    /\ HoldInv
    /\ \A s \in Steps, r \in Revisions : ToldInv(s, r)
    /\ \A p \in Runners, s \in Steps, r \in Revisions : FliesAt(p, s, r) =>
          claim[s][r] = "sent" /\ \A q \in Runners : FliesAt(q, s, r) => q = p

(* What may become of a key in a step. *)
Stays(s, r) == claim'[s][r] = claim[s][r] /\ post'[s][r] = post[s][r]

Learns(s, r) ==
    /\ \/ claim[s][r] \in {"sent", "scheduled", "unknown"}
       \/ claim[s][r] = "none" /\ claim'[s][r] = "failed"
    /\ claim'[s][r] \in Claims \ {"none"}
    /\ claim'[s][r] \in {"failed", "final"} => ~MayAppear(s, r)
    /\ claim'[s][r] = "published" => post[s][r] = "public"
    /\ post'[s][r] = post[s][r]

Sent(s, r) ==
    /\ claim[s][r] \in {"none", "failed"} /\ ~MayAppear(s, r)
    /\ claim'[s][r] = "sent" /\ post'[s][r] = "live"

Drifts(s, r) ==
    /\ claim'[s][r] = claim[s][r]
    /\ post[s][r] = "live" /\ post'[s][r] \in {"public", "dead"}

KeyGoes(s, r) == Stays(s, r) \/ Learns(s, r) \/ Sent(s, r) \/ Drifts(s, r)

(* What a step of p may do to the keys. *)
KeysGoOn(p) ==
    /\ \A s \in Steps, r \in Revisions : KeyGoes(s, r)
    /\ \A s \in Steps, r \in Revisions :
          claim[s][r] = "sent" /\ claim'[s][r] # "sent" => p \in Runners /\ FliesAt(p, s, r)
    /\ \A s \in Steps, r \in Revisions :
          p \in Runners /\ FliesAt(p, s, r)' => claim[s][r] # "sent" /\ claim'[s][r] = "sent"

LEMMA TheKeyGoes ==
    ASSUME NEW p, NEW s \in Steps, AtItsKey(p, s), KeyGoes(s, rev[p])
    PROVE  \A t \in Steps, r \in Revisions : KeyGoes(t, r)
BY DEF AtItsKey, KeyGoes, Stays

LEMMA TheClaimSet ==
    ASSUME HoldInv, NEW p \in Runners, NEW s \in Steps, NEW c \in Claims, SetClaim(p, s, c)
    PROVE  /\ claim'[s][rev[p]] = c
           /\ post' = post => AtItsKey(p, s)
           /\ SetPost(p, s, "live") => AtItsKey(p, s) /\ post'[s][rev[p]] = "live"
<1>1. WorldTyped /\ rev[p] \in Revisions
  BY RunnerTypes
<1>2. /\ claim'[s][rev[p]] = c
      /\ \A t \in Steps, r \in Revisions : t # s \/ r # rev[p] => claim'[t][r] = claim[t][r]
  BY <1>1, ClaimSet
<1>3. ASSUME SetPost(p, s, "live") PROVE AtItsKey(p, s) /\ post'[s][rev[p]] = "live"
  <2>1. "live" \in Copies
    BY DEF Copies
  <2> QED
    BY <1>1, <1>2, <1>3, <2>1, PostSet DEF AtItsKey
<1> QED
  BY <1>2, <1>3 DEF AtItsKey

(* An answer of the provider, or a reading of the claim.                   *)
LEMMA AnswerLearnt ==
    ASSUME HoldInv, NEW p \in Runners, NEW s \in Steps, NEW o \in Reports(p, s),
           NEW c \in {o, "sent"}, SetClaim(p, s, c), post' = post,
           claim[s][rev[p]] \in {"sent", "scheduled", "unknown"}
    PROVE  /\ \A t \in Steps, r \in Revisions : KeyGoes(t, r)
           /\ \A t \in Steps, r \in Revisions :
                 t # s \/ r # rev[p] => claim'[t][r] = claim[t][r]
<1>1. WorldTyped /\ rev[p] \in Revisions
  BY RunnerTypes
<1>2. TrueOf(o, s, rev[p]) /\ o \in Claims \ {"none", "sent"}
  BY <1>1, ReportsAreTrue
<1>3. c \in Claims \ {"none"} /\ (c # "sent" => TrueOf(c, s, rev[p]))
  BY <1>2 DEF Claims
<1>4. claim'[s][rev[p]] = c /\ AtItsKey(p, s)
  BY <1>3, TheClaimSet
<1>5. Learns(s, rev[p])
  BY <1>3, <1>4 DEF Learns, TrueOf, Fixed, AtItsKey
<1> QED
  BY <1>4, <1>5, TheKeyGoes DEF KeyGoes, AtItsKey

LEMMA ReconcileLearns ==
    ASSUME SpokenInv, NEW p \in Runners, NEW s \in Steps, Reconcile(p, s), post' = post
    PROVE  /\ \A t \in Steps, r \in Revisions : KeyGoes(t, r)
           /\ \A t \in Steps, r \in Revisions : claim[t][r] = "sent" => claim'[t][r] = "sent"
<1>1. rev[p] \in Revisions
  BY RunnerTypes DEF SpokenInv
<1>2. CASE TheClaim(p, s) = "none" /\ SetClaim(p, s, "failed")
  <2>1. "failed" \in Claims
    BY DEF Claims, Outcomes
  <2>2. claim'[s][rev[p]] = "failed" /\ AtItsKey(p, s)
    BY <1>2, <2>1, TheClaimSet DEF SpokenInv
  <2>3. Learns(s, rev[p])
    BY <1>1, <1>2, <2>1, <2>2 DEF Learns, TheClaim, SpokenInv, ToldInv
  <2> QED
    BY <1>2, <2>2, <2>3, TheKeyGoes DEF KeyGoes, AtItsKey, TheClaim
<1>3. ASSUME Unresolved(TheClaim(p, s)), NEW o \in Reports(p, s), SetClaim(p, s, o)
      PROVE  /\ \A t \in Steps, r \in Revisions : KeyGoes(t, r)
             /\ \A t \in Steps, r \in Revisions : claim[t][r] = "sent" => claim'[t][r] = "sent"
  <2>1. claim[s][rev[p]] \in {"scheduled", "unknown"}
    BY <1>3 DEF Unresolved, TheClaim
  <2> QED
    BY <1>3, <2>1, AnswerLearnt DEF SpokenInv
<1>4. CASE UNCHANGED claim
  BY <1>4 DEF KeyGoes, Stays
<1> QED
  BY <1>2, <1>3, <1>4 DEF Reconcile

LEMMA ClientKeys ==
    ASSUME SpokenInv, NEW p \in Runners,
           \/ Publish(p) \/ PublishAnswers(p) \/ RetryFailed(p) \/ RetryAnswers(p)
           \/ Recover(p) \/ Salvage(p) \/ Poll(p)
    PROVE  KeysGoOn(p)
<1>1. /\ p \in Procs /\ LocalsTyped /\ WorldTyped /\ HolderInv(p) /\ rev[p] \in Revisions
  BY RunnerTypes DEF SpokenInv
<1>2. pc[p] \in AtKey => on[p] \in Steps
  BY <1>1 DEF HolderInv, LabelInv
<1>3. {"sent", "failed"} \subseteq Claims
  BY DEF Claims, Outcomes
<1>4. ASSUME NEW s \in Steps, claim[s][rev[p]] \in {"none", "failed"},
             SetClaim(p, s, "sent"), SetPost(p, s, "live"), on[p] = s, UNCHANGED <<on, rev>>
      PROVE  KeysGoOn(p)
  <2>1. claim'[s][rev[p]] = "sent" /\ post'[s][rev[p]] = "live" /\ AtItsKey(p, s)
    BY <1>3, <1>4, TheClaimSet DEF SpokenInv
  <2>2. Sent(s, rev[p])
    BY <1>1, <1>4, <2>1 DEF Sent, SpokenInv, ToldInv
  <2> QED
    BY <1>1, <1>4, <2>1, <2>2, TheKeyGoes DEF KeysGoOn, KeyGoes, AtItsKey, FliesAt
<1>5. ASSUME NEW s \in Steps, claim[s][rev[p]] \in {"none", "failed"},
             SetClaim(p, s, "failed"), post' = post, pc'[p] \notin Flying
      PROVE  KeysGoOn(p)
  <2>1. claim'[s][rev[p]] = "failed" /\ AtItsKey(p, s)
    BY <1>3, <1>5, TheClaimSet DEF SpokenInv
  <2>2. Learns(s, rev[p]) \/ Stays(s, rev[p])
    BY <1>1, <1>3, <1>5, <2>1 DEF Learns, Stays, SpokenInv, ToldInv
  <2> QED
    BY <1>5, <2>1, <2>2, TheKeyGoes DEF KeysGoOn, KeyGoes, AtItsKey, FliesAt
<1>6. ASSUME UNCHANGED <<claim, post>>, pc'[p] \notin Flying PROVE KeysGoOn(p)
  BY <1>6 DEF KeysGoOn, KeyGoes, Stays, FliesAt
<1>7. ASSUME NEW s \in Steps, Reconcile(p, s), post' = post, pc'[p] \notin Flying PROVE KeysGoOn(p)
  BY <1>7, ReconcileLearns DEF KeysGoOn, FliesAt
<1>8. ASSUME pc[p] \in Flying, NEW o \in Reports(p, on[p]), NEW c \in {o, "sent"},
             SetClaim(p, on[p], c), post' = post, pc'[p] \notin Flying
      PROVE  KeysGoOn(p)
  <2>1. on[p] \in Steps /\ FliesAt(p, on[p], rev[p])
    BY <1>2, <1>8 DEF Flying, AtKey, FliesAt
  <2>2. claim[on[p]][rev[p]] = "sent"
    BY <1>1, <2>1 DEF SpokenInv
  <2> QED
    BY <1>8, <2>1, <2>2, AnswerLearnt DEF KeysGoOn, FliesAt, SpokenInv
<1>9. \A l \in Labels : Goto(p, l) => pc'[p] = l
  BY <1>1 DEF LocalsTyped, Goto
<1>10. {"record", "recover", "polled", "next"} \subseteq Labels
       /\ \A l \in {"record", "recover", "polled", "next"} : l \notin Flying
  BY DEF Labels, Flying
<1>11. CASE Publish(p)
  <2>1. on[p] \in Steps
    BY <1>2, <1>11 DEF Publish, AtKey
  <2>2. CASE TheClaim(p, on[p]) = "none" /\ SetClaim(p, on[p], "sent") /\ SetPost(p, on[p], "live")
    BY <1>4, <1>11, <2>1, <2>2 DEF Publish, TheClaim
  <2> QED
    BY <1>5, <1>6, <1>9, <1>10, <1>11, <2>1, <2>2 DEF Publish, TheClaim
<1>12. CASE PublishAnswers(p)
  BY <1>8, <1>9, <1>10, <1>12 DEF PublishAnswers, Flying
<1>13. CASE RetryFailed(p)
  <2>1. on[p] \in Steps
    BY <1>2, <1>13 DEF RetryFailed, AtKey
  <2>2. CASE /\ Retryable(TheClaim(p, on[p]))
             /\ SetClaim(p, on[p], "sent") /\ SetPost(p, on[p], "live")
    BY <1>4, <1>13, <2>1, <2>2 DEF RetryFailed, TheClaim, Retryable
  <2> QED
    BY <1>5, <1>6, <1>9, <1>10, <1>13, <2>1, <2>2 DEF RetryFailed, TheClaim, Retryable
<1>14. CASE RetryAnswers(p)
  BY <1>6, <1>8, <1>9, <1>10, <1>14 DEF RetryAnswers, Flying
<1>15. CASE Recover(p)
  BY <1>2, <1>7, <1>9, <1>10, <1>15 DEF Recover, AtKey
<1>16. CASE Salvage(p)
  <2>1. PICK s \in todo[p] :
           \/ Reconcile(p, s) /\ Goto(p, "record")
           \/ UNCHANGED <<claim, pc>>
    BY <1>16 DEF Salvage
  <2>2. s \in Steps /\ pc[p] \notin Flying /\ post' = post
    BY <1>1, <1>16 DEF LocalsTyped, Salvage, Flying
  <2> QED
    BY <1>6, <1>7, <1>9, <1>10, <2>1, <2>2
<1>17. CASE Poll(p)
  <2>1. PICK s \in todo[p] : Reconcile(p, s) \/ UNCHANGED <<claim, got>>
    BY <1>17 DEF Poll
  <2>2. s \in Steps /\ Goto(p, "polled") /\ post' = post
    BY <1>1, <1>17 DEF LocalsTyped, Poll
  <2> QED
    BY <1>6, <1>7, <1>9, <1>10, <2>1, <2>2
<1> QED
  BY <1>11, <1>12, <1>13, <1>14, <1>15, <1>16, <1>17

LEMMA QuietKeys ==
    ASSUME NEW p, UNCHANGED <<claim, post>>, p \in Runners => pc'[p] \notin Flying PROVE KeysGoOn(p)
BY DEF KeysGoOn, KeyGoes, Stays, FliesAt

LEMMA RunnerKeys ==
    ASSUME SpokenInv, NEW p \in Runners, RunnerStep(p) \/ Throw(p) \/ \E k \in Kinds : Claim(p, k)
    PROVE  KeysGoOn(p)
<1>1. p \in Procs /\ LocalsTyped
  BY RunnerTypes DEF SpokenInv
<1> USE DEF LocalsTyped, Flying, Goto
<1>2. CASE NextPhase(p) \/ EndRounds(p) \/ Throw(p) \/ Release(p)
  BY <1>1, <1>2, QuietKeys DEF NextPhase, EndRounds, Throw, ToPoll, ToRelease, Release, Finish, world
<1>3. CASE Advance(p) \/ PreflightFails(p) \/ Convert(p) \/ MarkDispatching(p)
  BY <1>1, <1>3, QuietKeys
  DEF Advance, PreflightFails, Convert, MarkDispatching, ToPoll, Back, world
<1>4. CASE RecoverFails(p) \/ Record(p) \/ RecordPoll(p)
  BY <1>1, <1>4, QuietKeys DEF RecoverFails, Record, RecordPoll, Back, world
<1>5. CASE Retry(p) \/ \E k \in Kinds : Claim(p, k)
  BY <1>1, <1>5, QuietKeys DEF Retry, Claim, world
<1> QED
  BY <1>2, <1>3, <1>4, <1>5, ClientKeys DEF RunnerStep

LEMMA CallerKeys ==
    ASSUME SpokenInv, NEW p \in Callers, CallerStep(p) PROVE KeysGoOn(p)
<1>1. p \notin Runners
  BY SchedulerAssumption
<1>2. CASE UNCHANGED <<claim, post>>
  BY <1>1, <1>2, QuietKeys
<1>3. CASE WithdrawCopy(p)
  <2>1. PICK s \in Steps : Withdrawn(p, s)
    BY <1>3, CallerTypes, CopyWithdrawn DEF SpokenInv
  <2>2. \A t \in Steps, r \in Revisions : Stays(t, r) \/ Drifts(t, r)
    BY <2>1 DEF Withdrawn, Stays, Drifts
  <2> QED
    BY <1>1, <2>1, <2>2 DEF KeysGoOn, KeyGoes, Withdrawn
<1>4. WithdrawCopy(p) \/ UNCHANGED <<claim, post>>
  BY DEF CallerStep, Cancel, CancelFence, CancelFinal, Reschedule, RescheduleFails, Renew,
     RescheduleSaves, RescheduleUnfences, RescheduleCancels, Move, world
<1> QED
  BY <1>2, <1>3, <1>4

(* What every step does to the keys, and to the runners that send them.    *)
LEMMA StepKeys ==
    ASSUME SpokenInv, Next
    PROVE  \E p : KeysGoOn(p) /\ \A q \in Runners : q # p => Same(q)
<1>1. ASSUME NEW p \in Runners, RunnerStep(p) \/ Throw(p) \/ \E k \in Kinds : Claim(p, k)
      PROVE  KeysGoOn(p) /\ \A q \in Runners : q # p => Same(q)
  BY <1>1, RunnerKeys, RunnerAlone DEF SpokenInv, Alone, Others, Procs
<1>2. ASSUME NEW p \in Callers, CallerStep(p)
      PROVE  KeysGoOn(p) /\ \A q \in Runners : q # p => Same(q)
  BY <1>2, CallerKeys, CallerAlone DEF SpokenInv, Alone, Others, Procs
<1>3. ASSUME NEW p \in Procs, Crash(p)
      PROVE  KeysGoOn(p) /\ \A q \in Runners : q # p => Same(q)
  <2>1. LocalsTyped
    BY TypeParts DEF SpokenInv, HoldInv
  <2>2. pc'[p] \notin Flying
    BY <1>3, <2>1, Finished DEF Crash, Idled, Flying
  <2>3. UNCHANGED <<claim, post>>
    BY <1>3 DEF Crash, world
  <2> QED
    BY <1>3, <2>2, <2>3, QuietKeys, DeathAlone DEF SpokenInv, Alone, Others, Procs
<1>4. ASSUME WorldStep PROVE KeysGoOn(Gone) /\ \A q \in Runners : q # Gone => Same(q)
  <2>1. Gone \notin Runners /\ \A q \in Runners : Same(q)
    BY <1>4, WorldIsAlone, SchedulerAssumption DEF Procs
  <2>2. \A s \in Steps, r \in Revisions : claim'[s][r] = claim[s][r]
    BY <1>4 DEF WorldStep, LeaseExpires, TimePasses, ProviderMoves, world
  <2>3. ASSUME NEW s \in Steps, NEW r \in Revisions PROVE Stays(s, r) \/ Drifts(s, r)
    <3>1. WorldTyped
      BY TypeParts DEF SpokenInv, HoldInv
    <3> QED
      BY <1>4, <2>2, <3>1
      DEF WorldStep, LeaseExpires, TimePasses, ProviderMoves, world, WorldTyped, Stays, Drifts
  <2> QED
    BY <2>1, <2>2, <2>3 DEF KeysGoOn, KeyGoes
<1> QED
  BY <1>1, <1>2, <1>3, <1>4 DEF Next, WorldStep

LEMMA SpokenNext == ASSUME SpokenInv, [Next]_vars PROVE SpokenInv'
<1>1. HoldInv'
  BY NextHolds DEF SpokenInv
<1>2. CASE UNCHANGED vars
  BY <1>1, <1>2 DEF SpokenInv, ToldInv, MayAppear, FliesAt, vars, world, locals
<1>3. CASE Next
  <2>1. PICK p : KeysGoOn(p) /\ \A q \in Runners : q # p => Same(q)
    BY <1>3, StepKeys
  <2>2. ASSUME NEW s \in Steps, NEW r \in Revisions PROVE ToldInv(s, r)'
    <3>1. ToldInv(s, r) /\ KeyGoes(s, r)
      BY <2>1 DEF SpokenInv, KeysGoOn
    <3> QED
      BY <3>1 DEF ToldInv, KeyGoes, Stays, Learns, Sent, Drifts, MayAppear
  <2>3. ASSUME NEW q \in Runners, NEW s \in Steps, NEW r \in Revisions, FliesAt(q, s, r)', q # p
        PROVE  FliesAt(q, s, r) /\ claim[s][r] = "sent" /\ claim'[s][r] = "sent"
    <3>1. FliesAt(q, s, r)
      BY <2>1, <2>3 DEF Same, FliesAt
    <3>2. claim[s][r] = "sent" /\ (p \in Runners => ~FliesAt(p, s, r))
      BY <2>3, <3>1 DEF SpokenInv
    <3> QED
      BY <2>1, <3>1, <3>2 DEF KeysGoOn
  <2>4. ASSUME NEW s \in Steps, NEW r \in Revisions, p \in Runners, FliesAt(p, s, r)'
        PROVE  claim[s][r] # "sent" /\ claim'[s][r] = "sent"
    BY <2>1, <2>4 DEF KeysGoOn
  <2>5. ASSUME NEW q \in Runners, NEW s \in Steps, NEW r \in Revisions, FliesAt(q, s, r)'
        PROVE  claim'[s][r] = "sent" /\ \A o \in Runners : FliesAt(o, s, r)' => o = q
    <3>1. CASE q = p
      BY <2>3, <2>4, <2>5, <3>1
    <3>2. CASE q # p
      <4>1. FliesAt(q, s, r) /\ claim[s][r] = "sent" /\ claim'[s][r] = "sent"
        BY <2>3, <2>5, <3>2
      <4>2. ASSUME NEW o \in Runners, FliesAt(o, s, r)' PROVE o = q
        <5>1. o # p
          BY <2>4, <4>1, <4>2
        <5>2. FliesAt(o, s, r)
          BY <2>3, <4>2, <5>1
        <5> QED
          BY <4>1, <5>2 DEF SpokenInv
      <4> QED
        BY <4>1, <4>2
    <3> QED
      BY <3>1, <3>2
  <2> QED
    BY <1>1, <2>2, <2>5 DEF SpokenInv
<1> QED
  BY <1>2, <1>3

LEMMA InitSpoken == Init => SpokenInv
<1> SUFFICES ASSUME Init PROVE SpokenInv
  OBVIOUS
<1>1. HoldInv
  BY InitHolds
<1>2. \A s \in Steps, r \in Revisions : claim[s][r] = "none" /\ post[s][r] = "absent"
  BY DEF Init
<1>3. \A p \in Runners : pc[p] = "idle"
  BY DEF Init, Procs
<1> QED
  BY <1>1, <1>2, <1>3 DEF SpokenInv, ToldInv, MayAppear, FliesAt, Flying

LEMMA KeyAsPromised ==
    ASSUME NEW k \in KeysOfSteps, KeyGoes(k[1], k[2])
    PROVE  Keyed!Claim(k) \/ Keyed!Settle(k) \/ Keyed!ProviderMoves(k) \/ Keyed!Rests(k)
<1> DEFINE s == k[1]
           r == k[2]
<1>1. CASE Stays(s, r)
  <2>1. Keyed!Rests(k)
    BY <1>1 DEF Stays, Keyed!Rests, Keyed!KnownSame, Keyed!GoingSame, Keyed!CopySame
  <2> QED
    BY <2>1
<1>2. CASE Sent(s, r)
  <2>1. Keyed!Claim(k)
    BY <1>2 DEF Sent, MayAppear, Verdict, Keyed!Claim, Keyed!MayAppear, Keyed!GoingSame
  <2> QED
    BY <2>1
<1>3. CASE Drifts(s, r)
  <2>1. Keyed!ProviderMoves(k)
    BY <1>3 DEF Drifts, Keyed!ProviderMoves, Keyed!KnownSame, Keyed!GoingSame
  <2> QED
    BY <2>1
<1>4. CASE Learns(s, r)
  <2>1. CASE claim'[s][r] \in {"sent", "scheduled", "unknown"}
    <3>1. Keyed!Rests(k)
      BY <1>4, <2>1 DEF Learns, Verdict, Keyed!Rests, Keyed!KnownSame, Keyed!GoingSame, Keyed!CopySame
    <3> QED
      BY <3>1
  <2>2. CASE claim'[s][r] \in {"failed", "final", "published"}
    <3>1. Keyed!Settle(k)
      BY <1>4, <2>2
      DEF Learns, MayAppear, Verdict, Keyed!Settle, Keyed!IsTrue, Keyed!MayAppear, Keyed!Knowledge,
          Keyed!GoingSame, Keyed!CopySame
    <3> QED
      BY <3>1
  <2> QED
    BY <1>4, <2>1, <2>2 DEF Learns, Claims, Outcomes
<1> QED
  BY <1>1, <1>2, <1>3, <1>4 DEF KeyGoes

LEMMA KeyedStep ==
    ASSUME SpokenInv, [Next]_vars
    PROVE  [Keyed!Next]_<<[k \in KeysOfSteps |-> Verdict(claim[k[1]][k[2]])], {},
                         [k \in KeysOfSteps |-> post[k[1]][k[2]]]>>
<1>1. CASE UNCHANGED vars
  BY <1>1 DEF vars, world
<1>2. CASE Next
  <2>1. \A s \in Steps, r \in Revisions : KeyGoes(s, r)
    BY <1>2, StepKeys DEF KeysGoOn
  <2>2. Keyed!Next
    BY <2>1, KeyAsPromised DEF Keyed!Next, KeysOfSteps
  <2> QED
    BY <2>2
<1> QED
  BY <1>1, <1>2

(* However many runners and callers work on a job, alive or past their     *)
(* leases, the calls of the client that the model makes for the key of a   *)
(* step do what Publication_proofs shows of such calls: KeepsTheKey.       *)
THEOREM KeysAreUsedAsPromised == Spec => KeysAreKept
<1>1. Init => Keyed!Init
  BY DEF Init, Keyed!Init, KeysOfSteps, Verdict
<1>2. SpokenInv /\ [Next]_vars => SpokenInv'
  BY SpokenNext
<1>3. SpokenInv /\ [Next]_vars
        => [Keyed!Next]_<<[k \in KeysOfSteps |-> Verdict(claim[k[1]][k[2]])], {},
                         [k \in KeysOfSteps |-> post[k[1]][k[2]]]>>
  BY KeyedStep
<1> QED
  BY <1>1, <1>2, <1>3, InitSpoken, PTL DEF Spec, KeysAreKept, Keyed!Spec
=============================================================================
