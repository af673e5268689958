------------------------------ MODULE QueueSlots ------------------------------
(***************************************************************************)
(* Queue slots: how schedule and reschedule (server/scheduler.ts) reserve  *)
(* a posting time with reserveSlot and releaseSlot (createKeyValue-        *)
(* ScheduleStore, server/schedule-store.ts), while cancel and runDue       *)
(* change the jobs the reservations speak of.                              *)
(*                                                                         *)
(* A reservation and the job that is to occupy the slot are two records    *)
(* with a compare-and-set each; nothing writes both at once.  Every get    *)
(* and every compare-and-set is a step.  A compare-and-set wins iff its    *)
(* key was not written since the operation read it: fresh and current say  *)
(* so of the slot and of its holder's job.                                 *)
(*                                                                         *)
(* One scope and one queue.  A slot is its position among the queue's      *)
(* future times.  An operation happens once: its name is its token.        *)
(***************************************************************************)
EXTENDS Naturals

CONSTANTS
    Jobs, Ops,
    Slots,      \* the future slots are 1 .. Slots
    Attempts,   \* attempts of reserveSlot at one slot
    Cancels,    \* the operations that may be cancellations
    Retries,    \* the runs that are retryFailed, which takes a completed job up again
    NoOne

ASSUME QueueSlotsAssumption ==
    /\ Slots \in Nat \ {0} /\ Attempts \in Nat \ {0}
    /\ Cancels \subseteq Ops /\ Retries \subseteq Ops /\ NoOne \notin Ops \cup Jobs \cup (Jobs \X Ops)

VARIABLES
    status, at, owner, live,    \* the jobs: status, slot (0: another time), lease
    slot,                       \* the reservations: <<job, token>>
    pc, kind, job,              \* the operations
    skip, cand, tries, seen,    \* slots: passed over, being tried; attempts left; reservation read
    reserved,                   \* the slot the operation has reserved, or 0
    fresh, current              \* would a compare-and-set still win: slot, job

jobs == <<status, at, owner, live>>
plan == <<kind, job>>
look == <<skip, cand, tries, seen>>
vars == <<jobs, slot, pc, plan, look, reserved, fresh, current>>

Active == {"active", "cancel-unresolved"}    \* scheduled, running and blocked are one
Reservations == Jobs \X Ops

TypeOK ==
    /\ status \in [Jobs -> Active \cup {"absent", "cancelled", "completed"}]
    /\ at \in [Jobs -> 0 .. Slots]
    /\ owner \in [Jobs -> Ops \cup {NoOne}] /\ live \in [Jobs -> BOOLEAN]
    /\ \A j \in Jobs : live[j] => owner[j] # NoOne
    /\ slot \in [1 .. Slots -> Reservations \cup {NoOne}]
    /\ pc \in [Ops -> {"idle", "slot", "holder", "revoke", "take", "check", "move", "free",
                       "keep", "vacate", "unfence", "stop", "withdraw", "run", "done", "dead"}]
    /\ kind \in [Ops -> {"none", "schedule", "reschedule", "moved", "stopping", "cancel", "run"}]
    /\ job \in [Ops -> Jobs \cup {NoOne}]
    /\ skip \in [Ops -> 0 .. Slots] /\ cand \in [Ops -> 0 .. Slots] /\ tries \in [Ops -> 0 .. Attempts]
    /\ seen \in [Ops -> Reservations \cup {NoOne}]
    /\ reserved \in [Ops -> 0 .. Slots]
    /\ fresh \in [Ops -> BOOLEAN] /\ current \in [Ops -> BOOLEAN]

Init ==
    /\ status = [j \in Jobs |-> "absent"] /\ at = [j \in Jobs |-> 0]
    /\ owner = [j \in Jobs |-> NoOne] /\ live = [j \in Jobs |-> FALSE]
    /\ slot = [k \in 1 .. Slots |-> NoOne]
    /\ pc = [o \in Ops |-> "idle"] /\ kind = [o \in Ops |-> "none"]
    /\ job = [o \in Ops |-> NoOne]
    /\ skip = [o \in Ops |-> 0] /\ cand = [o \in Ops |-> 0] /\ tries = [o \in Ops |-> 0] /\ seen = [o \in Ops |-> NoOne]
    /\ reserved = [o \in Ops |-> 0]
    /\ fresh = [o \in Ops |-> FALSE] /\ current = [o \in Ops |-> FALSE]

-----------------------------------------------------------------------------
Goto(o, label) == pc' = [pc EXCEPT ![o] = label]

(* A write of slot k, or of job j, outdates what others have read. *)
WriteSlot(k, value) ==
    /\ slot' = [slot EXCEPT ![k] = value]
    /\ fresh' = [o \in Ops |-> fresh[o] /\ cand[o] # k]

Outdate(j) == current' = [o \in Ops |-> current[o] /\ (seen[o] # NoOne => seen[o][1] # j)]

Begin(o, k, j) ==
    /\ pc[o] = "idle" /\ kind' = [kind EXCEPT ![o] = k] /\ job' = [job EXCEPT ![o] = j]

(* The saved record of j occupies slot k. *)
Occupies(j, k) == status[j] \in Active /\ at[j] = k

-----------------------------------------------------------------------------
(* #reserveQueueSlot and reserveSlot                                       *)

(* The slots are tried in their order; reschedule skips the present one.   *)
NoSlot(o, k) == Goto(o, IF k = "reschedule" THEN "unfence" ELSE "done") /\ UNCHANGED <<cand, tries>>

Try(o, k) ==
    /\ cand' = [cand EXCEPT ![o] = k] /\ tries' = [tries EXCEPT ![o] = Attempts]
    /\ Goto(o, "slot")

Following(o) ==
    LET free == {x \in cand[o] + 1 .. Slots : x # skip[o]}
    IN \/ free = {} /\ NoSlot(o, kind[o])
       \/ \E k \in free : (\A x \in free : k <= x) /\ Try(o, k)

(* reserveSlot starts over, or gives this slot up. *)
Again(o) ==
    IF tries[o] > 0 THEN Goto(o, "slot") /\ UNCHANGED <<cand, tries>>
    ELSE Following(o)

ReadSlot(o) ==
    /\ pc[o] = "slot" /\ tries[o] > 0
    /\ tries' = [tries EXCEPT ![o] = @ - 1]
    /\ seen' = [seen EXCEPT ![o] = slot[cand[o]]]
    /\ fresh' = [fresh EXCEPT ![o] = TRUE]
    /\ Goto(o, IF slot[cand[o]] = NoOne THEN "take" ELSE "holder")
    /\ UNCHANGED <<jobs, slot, plan, skip, cand, reserved, current>>

(* Mutant: the holder of a reservation without a saved job does not count. *)
Holds_NoRecord(j, token, k, leased) ==
    status[j] \in Active /\ (at[j] = k \/ (leased /\ owner[j] = token))

(* The reservation's operation can still commit into the slot: the job is  *)
(* being created, occupies the slot, or is being moved under a live lease. *)
Holds(j, token, k, leased) ==
    \/ status[j] = "absent"
    \/ status[j] \in Active /\ (at[j] = k \/ (leased /\ owner[j] = token))

(* Mutant: an expired lease is left to the late operation. *)
MustRevoke_Never(j, leased) == FALSE

MustRevoke(j, leased) == owner[j] # NoOne /\ ~leased

(* The lease is judged by the instant at which the operation started, so an *)
(* expired one may still count.                                            *)
ReadHolder(o) ==
    /\ pc[o] = "holder"
    /\ current' = [current EXCEPT ![o] = TRUE]
    /\ LET j == seen[o][1]
       IN \E leased \in {owner[j] # NoOne /\ live[j], owner[j] # NoOne} :
             IF Holds(j, seen[o][2], cand[o], leased)
             THEN Following(o)
             ELSE /\ Goto(o, IF MustRevoke(j, leased) THEN "revoke" ELSE "take")
                  /\ UNCHANGED <<cand, tries>>
    /\ UNCHANGED <<jobs, slot, plan, skip, seen, reserved, fresh>>

(* Taking an expired lease away makes the late commit of its holder fail. *)
Revoke(o) ==
    /\ pc[o] = "revoke"
    /\ IF current[o]
       THEN /\ owner' = [owner EXCEPT ![seen[o][1]] = NoOne]
            /\ live' = [live EXCEPT ![seen[o][1]] = FALSE]
            /\ Outdate(seen[o][1]) /\ Goto(o, "take") /\ UNCHANGED <<cand, tries>>
       ELSE Again(o) /\ UNCHANGED <<owner, live, current>>
    /\ UNCHANGED <<status, at, slot, plan, skip, seen, reserved, fresh>>

TakeWins(o) == fresh[o]

Take(o) ==
    /\ pc[o] = "take"
    /\ IF TakeWins(o)
       THEN /\ WriteSlot(cand[o], <<job[o], o>>)
            /\ reserved' = [reserved EXCEPT ![o] = cand[o]]
            /\ Goto(o, "check") /\ UNCHANGED <<cand, tries>>
       ELSE Again(o) /\ UNCHANGED <<slot, reserved, fresh>>
    /\ UNCHANGED <<jobs, plan, skip, seen, current>>

-----------------------------------------------------------------------------
(* releaseSlot, after a failed operation                                   *)

(* A reschedule also drops its fence, but not after a move that failed.     *)
Freed(o) == Goto(o, IF kind[o] \in {"reschedule", "stopping"} THEN "unfence" ELSE "done")

(* Mutant: a failed operation keeps its reservation. *)
GiveUp_Keeps(o) == Freed(o)

(* The operation failed: it frees what it has reserved. *)
GiveUp(o) == IF reserved[o] # 0 THEN Goto(o, "free") ELSE Freed(o)

Mine(o, r) == r = <<job[o], o>>

ReadOwn(o) ==
    /\ pc[o] = "free"
    /\ IF Mine(o, slot[reserved[o]])
       THEN /\ seen' = [seen EXCEPT ![o] = slot[reserved[o]]]
            /\ cand' = [cand EXCEPT ![o] = reserved[o]]
            /\ fresh' = [fresh EXCEPT ![o] = TRUE] /\ Goto(o, "keep")
       ELSE Freed(o) /\ UNCHANGED <<seen, cand, fresh>>
    /\ UNCHANGED <<jobs, slot, plan, skip, tries, reserved, current>>

ReadOwnJob(o) ==
    /\ pc[o] = "keep"
    /\ IF Occupies(job[o], reserved[o]) THEN Freed(o) ELSE Goto(o, "vacate")
    /\ UNCHANGED <<jobs, slot, plan, look, reserved, fresh, current>>

Vacate(o) ==
    /\ pc[o] = "vacate"
    /\ IF fresh[o] THEN WriteSlot(reserved[o], NoOne) ELSE UNCHANGED <<slot, fresh>>
    /\ Freed(o)
    /\ UNCHANGED <<jobs, plan, look, reserved, current>>

-----------------------------------------------------------------------------
(* schedule                                                                *)

Schedule(o, j) ==
    /\ Begin(o, "schedule", j)
    /\ \E k \in 1 .. Slots : Try(o, k)
    /\ UNCHANGED <<jobs, slot, skip, seen, reserved, fresh, current>>

(* The preflight of the work, at its real time, fails. *)
PreflightFails(o) ==
    /\ pc[o] = "check" /\ GiveUp(o)
    /\ UNCHANGED <<jobs, slot, plan, look, reserved, fresh, current>>

(* #create; another operation may have saved a job with this id. *)
Create(o) ==
    /\ pc[o] = "check" /\ kind[o] = "schedule"
    /\ IF status[job[o]] = "absent"
       THEN /\ status' = [status EXCEPT ![job[o]] = "active"]
            /\ at' = [at EXCEPT ![job[o]] = reserved[o]]
            /\ Outdate(job[o]) /\ Goto(o, "done")
       ELSE GiveUp(o) /\ UNCHANGED <<status, at, current>>
    /\ UNCHANGED <<owner, live, slot, plan, look, reserved, fresh>>

(* A job with a fixed time takes no slot. *)
ScheduleFixed(o, j) ==
    /\ Begin(o, "schedule", j) /\ Goto(o, "done")
    /\ IF status[j] = "absent"
       THEN status' = [status EXCEPT ![j] = "active"] /\ Outdate(j)
       ELSE UNCHANGED <<status, current>>
    /\ UNCHANGED <<at, owner, live, slot, look, reserved, fresh>>

-----------------------------------------------------------------------------
(* reschedule                                                              *)

Lease(o, j) == owner' = [owner EXCEPT ![j] = o] /\ live' = [live EXCEPT ![j] = TRUE]

(* Mutant: the lease loses its owner and keeps its expiry. *)
Unlease_OwnerOnly(j) == owner' = [owner EXCEPT ![j] = NoOne] /\ UNCHANGED live

Unlease(j) == owner' = [owner EXCEPT ![j] = NoOne] /\ live' = [live EXCEPT ![j] = FALSE]

(* The fence lease, then a slot or a fixed time. *)
Reschedule(o, j) ==
    /\ Begin(o, "reschedule", j)
    /\ status[j] = "active" /\ ~(owner[j] # NoOne /\ live[j])
    /\ Lease(o, j) /\ Outdate(j)
    /\ skip' = [skip EXCEPT ![o] = at[j]]
    /\ \/ \E k \in 1 .. Slots \ {at[j]} : Try(o, k)
       \/ 1 .. Slots \subseteq {at[j]} /\ NoSlot(o, "reschedule")
       \/ Goto(o, "check") /\ UNCHANGED <<cand, tries>>
    /\ UNCHANGED <<status, at, slot, seen, reserved, fresh>>

(* A job with provider copies renews its lease before it withdraws them. *)
Renew(o) ==
    /\ pc[o] = "check" /\ kind[o] = "reschedule"
    /\ IF owner[job[o]] = o /\ live[job[o]]
       THEN Lease(o, job[o]) /\ Outdate(job[o]) /\ Goto(o, "move")
       ELSE GiveUp(o) /\ UNCHANGED <<owner, live, current>>
    /\ UNCHANGED <<status, at, slot, plan, look, reserved, fresh>>

MayMove(o) ==
    /\ owner[job[o]] = o
    /\ status[job[o]] # "cancelled" /\ status[job[o]] # "cancel-unresolved"

Move(o) ==
    /\ pc[o] \in {"check", "move"} /\ kind[o] = "reschedule"
    /\ IF MayMove(o)
       THEN /\ status' = [status EXCEPT ![job[o]] = "active"]
            /\ at' = [at EXCEPT ![job[o]] = reserved[o]]
            /\ Unlease(job[o]) /\ Outdate(job[o]) /\ Goto(o, "done") /\ UNCHANGED kind
       ELSE /\ kind' = [kind EXCEPT ![o] = "moved"]
            /\ Goto(o, IF reserved[o] # 0 THEN "free" ELSE "done")
            /\ UNCHANGED <<jobs, current>>
    /\ UNCHANGED <<slot, job, look, reserved, fresh>>

(* A copy could not be withdrawn: the slot and the fence are given up, and *)
(* the job is cancelled.                                                   *)
Stop(o) ==
    /\ pc[o] = "move" /\ kind[o] = "reschedule" /\ o \in Cancels
    /\ kind' = [kind EXCEPT ![o] = "stopping"]
    /\ Goto(o, IF reserved[o] # 0 THEN "free" ELSE "unfence")
    /\ UNCHANGED <<jobs, slot, job, look, reserved, fresh, current>>

Unfence(o) ==
    /\ pc[o] = "unfence"
    /\ IF owner[job[o]] = o THEN Unlease(job[o]) /\ Outdate(job[o])
       ELSE UNCHANGED <<owner, live, current>>
    /\ Goto(o, IF kind[o] = "stopping" THEN "stop" ELSE "done")
    /\ UNCHANGED <<status, at, slot, plan, look, reserved, fresh>>

-----------------------------------------------------------------------------
(* cancel, runDue, and what happens to processes and leases                *)

SetStatus(j, x) == status' = [status EXCEPT ![j] = x] /\ Outdate(j)

Cancel(o, j) ==
    /\ o \in Cancels /\ Begin(o, "cancel", j)
    /\ status[j] \in Active /\ SetStatus(j, "cancel-unresolved")
    /\ Goto(o, "withdraw")
    /\ UNCHANGED <<at, owner, live, slot, look, reserved, fresh>>

CancelMoved(o) ==
    /\ pc[o] = "stop"
    /\ IF status[job[o]] \in Active
       THEN SetStatus(job[o], "cancel-unresolved") /\ Goto(o, "withdraw")
       ELSE Goto(o, "done") /\ UNCHANGED <<status, current>>
    /\ UNCHANGED <<at, owner, live, slot, plan, look, reserved, fresh>>

(* The final write of cancel: its own findings, whatever the status is. *)
CancelFinal(o) ==
    /\ pc[o] = "withdraw"
    /\ \E x \in {"cancelled", "cancel-unresolved"} : SetStatus(job[o], x)
    /\ Goto(o, "done")
    /\ UNCHANGED <<at, owner, live, slot, plan, look, reserved, fresh>>

(* poll, runDue and retryFailed claim every job that is not cancelled. *)
Run(o, j) ==
    /\ Begin(o, "run", j)
    /\ status[j] \notin {"absent", "cancelled"} /\ ~(owner[j] # NoOne /\ live[j])
    /\ Lease(o, j) /\ Outdate(j) /\ Goto(o, "run")
    /\ UNCHANGED <<status, at, slot, look, reserved, fresh>>

(* #release computes every status but those of a cancellation anew: the job *)
(* goes on or is completed, and a retry may have given a completed job      *)
(* something to wait for.                                                   *)
Releases(o) ==
    IF status[job[o]] = "active" \/ (status[job[o]] = "completed" /\ o \in Retries)
    THEN {"active", "completed"} ELSE {status[job[o]]}

Release(o) ==
    /\ pc[o] = "run"
    /\ IF owner[job[o]] = o
       THEN /\ Unlease(job[o]) /\ Outdate(job[o])
            /\ \E x \in Releases(o) : status' = [status EXCEPT ![job[o]] = x]
       ELSE UNCHANGED <<status, owner, live, current>>
    /\ Goto(o, "done")
    /\ UNCHANGED <<at, slot, plan, look, reserved, fresh>>

Crash(o) ==
    /\ pc[o] \notin {"idle", "done", "dead"} /\ Goto(o, "dead")
    /\ UNCHANGED <<jobs, slot, plan, look, reserved, fresh, current>>

LeaseExpires(j) ==
    /\ live[j] /\ live' = [live EXCEPT ![j] = FALSE]
    /\ UNCHANGED <<status, at, owner, slot, pc, plan, look, reserved, fresh, current>>

Step(o) ==
    \/ ReadSlot(o) \/ ReadHolder(o) \/ Revoke(o) \/ Take(o)
    \/ ReadOwn(o) \/ ReadOwnJob(o) \/ Vacate(o)
    \/ PreflightFails(o) \/ Create(o) \/ Renew(o) \/ Move(o) \/ Stop(o) \/ Unfence(o)
    \/ CancelMoved(o) \/ CancelFinal(o) \/ Release(o) \/ Crash(o)

Start(o, j) ==
    \/ Schedule(o, j) \/ ScheduleFixed(o, j) \/ Reschedule(o, j) \/ Cancel(o, j) \/ Run(o, j)

Next ==
    \/ \E o \in Ops : Step(o)
    \/ \E o \in Ops, j \in Jobs : Start(o, j)
    \/ \E j \in Jobs : LeaseExpires(j)

Spec == Init /\ [][Next]_vars

-----------------------------------------------------------------------------
(* Properties                                                              *)

(* One slot never holds two active jobs, though a job and its reservation  *)
(* are written separately and both may be written late (reserveSlot,       *)
(* reschedule).                                                            *)
OneJobPerSlot ==
    \A i, j \in Jobs, k \in 1 .. Slots : Occupies(i, k) /\ Occupies(j, k) => i = j

(* An active job in a slot owns the slot's reservation, so nobody frees or *)
(* retakes a slot under a job (reserveSlot, releaseSlot).                  *)
OccupantHolds ==
    \A j \in Jobs, k \in 1 .. Slots : Occupies(j, k) => slot[k] # NoOne /\ slot[k][1] = j

(* An operation that has ended, successfully or not, leaves no slot        *)
(* reserved for a job that was never saved: such a slot is lost for good.  *)
(* Only an operation that is broken off leaves one behind: by a crash, or  *)
(* by a call of the store that throws (schedule, releaseSlot).             *)
NothingLeaks ==
    \A k \in 1 .. Slots : slot[k] # NoOne /\ status[slot[k][1]] = "absent" => pc[slot[k][2]] # "done"
=============================================================================
