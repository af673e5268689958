------------------------- MODULE QueueSlots_proofs -------------------------
(* Proofs about QueueSlots, for any number of jobs, operations, slots,      *)
(* attempts and cancellations, in two layers.                               *)
(*                                                                          *)
(* SteadyInv, the bookkeeping of the reservations, holds whatever happens:  *)
(* a reservation is its operation's own, is made once, and is given back.   *)
(* IInv says in addition that an operation that may still save its job into *)
(* a slot holds the slot's reservation, and that one that may still take a  *)
(* reservation has seen that its operation will not.  It needs two things of*)
(* the callers, CancelsApart and RetriesOpen: the code ensures neither, and *)
(* run slots_retry shows what happens without the second.                   *)
EXTENDS QueueSlots, TLAPS

\* No two cancellations of a job withdraw its copies at the same time: of two that do, the later
\* undoes the earlier, and a cancelled job is active again in a slot that may be another's.
CancelsApart ==
  \A a, b \in Ops : pc[a] = "withdraw" /\ pc[b] = "withdraw" /\ job[a] = job[b] => a = b

\* No retry takes up a completed job that has a slot: the slot may be another's by now, and the
\* retry makes the job active in it (run slots_retry).  A retry that has lost the job's lease
\* changes nothing any more.
RetriesOpen ==
  \A o \in Retries :
    pc[o] = "run" /\ owner[job[o]] = o /\ status[job[o]] = "completed" => at[job[o]] = 0

\* Where an operation has not reserved anything, and where it frees its slot.
Choosing == {"slot", "holder", "revoke", "take"}
Freeing == {"free", "keep", "vacate"}
Stopped == {"cancelled", "cancel-unresolved"}

\* The operation may still save its job into the slot it has reserved.
CanCommit(o) ==
  /\ reserved[o] # 0
  /\ \/ pc[o] = "check" /\ kind[o] = "schedule" /\ status[job[o]] = "absent"
     \/ pc[o] \in {"check", "move"} /\ kind[o] = "reschedule" /\ MayMove(o)

\* Nobody saves the job of reservation r into slot k any more.
Spent(r, k) == status[r[1]] # "absent" /\ ~Occupies(r[1], k) /\ ~CanCommit(r[2])

\* What an operation does at its label.
LabelInv(o) ==
  /\ (pc[o] = "idle") <=> (kind[o] = "none")
  /\ pc[o] # "idle" => job[o] \in Jobs
  /\ kind[o] \notin {"none", "schedule"} => status[job[o]] # "absent"
  /\ pc[o] \in {"stop", "withdraw"} => kind[o] \in {"stopping", "cancel"}
  /\ pc[o] = "withdraw" => status[job[o]] = "cancel-unresolved"
  /\ pc[o] = "run" => kind[o] = "run"
  /\ pc[o] \in {"move", "unfence"} => kind[o] \in {"reschedule", "stopping"}
  /\ pc[o] \in Choosing \cup {"check"} => kind[o] \in {"schedule", "reschedule"}
  /\ pc[o] \in Choosing => cand[o] # 0
  /\ pc[o] \in Choosing \cup {"idle"} => reserved[o] = 0
  /\ pc[o] \in Freeing => reserved[o] # 0

\* An operation that may still commit holds its slot, and one that is done leaves no
\* reservation of an absent job.
CommitInv(o) ==
  /\ CanCommit(o) => slot[reserved[o]] = <<job[o], o>>
  /\ pc[o] = "done" /\ reserved[o] # 0 /\ slot[reserved[o]] = <<job[o], o>> => status[job[o]] # "absent"

\* What an operation with a fresh reading of a slot knows of it.
TakeInv(o) ==
  /\ pc[o] \in {"holder", "revoke"} => seen[o] # NoOne
  /\ fresh[o] /\ pc[o] \in {"holder", "revoke", "take"} => slot[cand[o]] = seen[o]
  /\ fresh[o] /\ pc[o] = "revoke" /\ current[o] =>
       status[seen[o][1]] # "absent" /\ ~Occupies(seen[o][1], cand[o])
  /\ fresh[o] /\ pc[o] = "take" /\ seen[o] # NoOne => Spent(seen[o], cand[o])

\* What an operation that frees its slot knows of it.
FreeInv(o) ==
  /\ pc[o] \in {"keep", "vacate"} => cand[o] = reserved[o]
  /\ pc[o] \in {"keep", "vacate"} => (fresh[o] <=> slot[reserved[o]] = <<job[o], o>>)
  /\ pc[o] = "vacate" /\ fresh[o] => ~Occupies(job[o], reserved[o])

Knows(o) == LabelInv(o) /\ CommitInv(o) /\ TakeInv(o) /\ FreeInv(o)

\* Who holds the lease of a job.
LeaseInv(j) ==
  /\ status[j] = "absent" => at[j] = 0 /\ owner[j] = NoOne
  /\ owner[j] # NoOne => job[owner[j]] = j /\ kind[owner[j]] \notin {"none", "schedule"}
  /\ owner[j] # NoOne /\ kind[owner[j]] = "reschedule" => status[j] \in {"active"} \cup Stopped

\* A reservation is its operation's own, and was made once.
TokenInv(k) ==
  slot[k] # NoOne =>
    /\ slot[k][1] = job[slot[k][2]] /\ reserved[slot[k][2]] = k
    /\ pc[slot[k][2]] \notin Choosing \cup {"idle"}

RestInv ==
  /\ \A o \in Ops : Knows(o)
  /\ \A j \in Jobs : LeaseInv(j)
  /\ \A k \in 1 .. Slots : TokenInv(k)
  /\ OccupantHolds

IInv == TypeOK /\ RestInv

-----------------------------------------------------------------------------
\* The parts of the type invariant that the steps below use.
LEMMA Typed ==
  ASSUME TypeOK
  PROVE  /\ \A j \in Jobs : /\ status[j] \in Active \cup {"absent", "cancelled", "completed"}
                            /\ at[j] \in 0 .. Slots /\ owner[j] \in Ops \cup {NoOne}
         /\ \A k \in 1 .. Slots : slot[k] # NoOne =>
              slot[k][1] \in Jobs /\ slot[k][2] \in Ops /\ slot[k] = <<slot[k][1], slot[k][2]>>
         /\ \A o \in Ops : /\ job[o] \in Jobs \cup {NoOne} /\ cand[o] \in 0 .. Slots /\ reserved[o] \in 0 .. Slots
                           /\ seen[o] # NoOne => seen[o][1] \in Jobs /\ seen[o][2] \in Ops
                           /\ fresh[o] \in BOOLEAN /\ current[o] \in BOOLEAN
<1>1. \A r \in Reservations : r[1] \in Jobs /\ r[2] \in Ops /\ r = <<r[1], r[2]>>
  BY DEF Reservations
<1> QED
  BY <1>1 DEF TypeOK

LEMMA NoOneIsNobody ==
  NoOne \notin Ops /\ NoOne \notin Jobs /\ \A i \in Jobs, q \in Ops : <<i, q>> # NoOne
  BY QueueSlotsAssumption

LEMMA SlotNumbers == Slots \in Nat /\ \A k \in 1 .. Slots : k # 0
  BY QueueSlotsAssumption

\* An operation a step leaves alone; its readings may be outdated.
SameOp(p) ==
  /\ pc'[p] = pc[p] /\ kind'[p] = kind[p] /\ job'[p] = job[p] /\ reserved'[p] = reserved[p]
  /\ cand'[p] = cand[p] /\ seen'[p] = seen[p]
  /\ fresh'[p] <=> fresh[p]
  /\ current'[p] => current[p]

\* A step of operation o that writes at most job j.
Writes(o, j) ==
  /\ \A p \in Ops : p # o => SameOp(p)
  /\ \A i \in Jobs : i # j => status'[i] = status[i] /\ at'[i] = at[i] /\ owner'[i] = owner[i]
  /\ \A p \in Ops : p # o /\ current'[p] /\ seen[p] # NoOne /\ seen[p][1] = j =>
       status'[j] = status[j] /\ at'[j] = at[j]
  /\ slot' = slot

-----------------------------------------------------------------------------
(* What holds whoever cancels what: the types, and the bookkeeping of the   *)
(* reservations.                                                            *)

Steady(o) ==
  /\ (pc[o] = "idle") <=> (kind[o] = "none")
  /\ pc[o] # "idle" => job[o] \in Jobs
  /\ kind[o] \notin {"none", "schedule"} => status[job[o]] # "absent"
  /\ pc[o] \in {"run", "stop", "withdraw"} => kind[o] \notin {"none", "schedule"}
  /\ pc[o] \in {"move", "unfence"} => kind[o] \in {"reschedule", "stopping"}
  /\ pc[o] \in Choosing \cup {"check"} => kind[o] \in {"schedule", "reschedule"}
  /\ pc[o] \in Choosing => cand[o] # 0
  /\ pc[o] \in {"holder", "revoke"} => seen[o] # NoOne
  /\ pc[o] \in Choosing \cup {"idle"} => reserved[o] = 0
  /\ pc[o] \in Freeing => reserved[o] # 0
  /\ pc[o] = "done" /\ reserved[o] # 0 /\ slot[reserved[o]] = <<job[o], o>> => status[job[o]] # "absent"
  /\ pc[o] \in {"keep", "vacate"} =>
       cand[o] = reserved[o] /\ (fresh[o] <=> slot[reserved[o]] = <<job[o], o>>)

Ledger == (\A o \in Ops : Steady(o)) /\ \A k \in 1 .. Slots : TokenInv(k)

SteadyInv == TypeOK /\ Ledger

LEMMA KnowsEnough == IInv => SteadyInv
  BY DEF IInv, RestInv, Knows, LabelInv, CommitInv, TakeInv, FreeInv, SteadyInv, Ledger, Steady

\* Where an operation goes that chooses a slot, or gives its own up.
Forward(o) ==
  \E l \in {"slot", "unfence", "done"}, c \in 1 .. Slots, n \in 0 .. Attempts :
    /\ pc' = [pc EXCEPT ![o] = l] /\ cand' = [cand EXCEPT ![o] = c]
    /\ tries' = [tries EXCEPT ![o] = n]
    /\ l = "unfence" => kind[o] = "reschedule"

Back(o) ==
  \E l \in {"free", "unfence", "done"} :
    /\ pc' = [pc EXCEPT ![o] = l]
    /\ l = "free" <=> reserved[o] # 0
    /\ l = "unfence" => kind[o] \in {"reschedule", "stopping"}

LEMMA ForwardGoes ==
  ASSUME TypeOK, NEW o \in Ops, Forward(o)
  PROVE  /\ pc'[o] = "slot" \/ (pc'[o] = "unfence" /\ kind[o] = "reschedule") \/ pc'[o] = "done"
         /\ cand'[o] # 0 /\ \A p \in Ops : p # o => pc'[p] = pc[p] /\ cand'[p] = cand[p]
<1>1. PICK l \in {"slot", "unfence", "done"}, c \in 1 .. Slots :
        /\ pc' = [pc EXCEPT ![o] = l] /\ cand' = [cand EXCEPT ![o] = c]
        /\ l = "unfence" => kind[o] = "reschedule"
  BY DEF Forward
<1> QED
  BY <1>1, SlotNumbers DEF TypeOK

LEMMA FollowingGoes ==
  ASSUME TypeOK, NEW o \in Ops, cand[o] # 0, Following(o)
  PROVE  Forward(o)
<1>t. cand[o] \in 1 .. Slots /\ tries[o] \in 0 .. Attempts /\ Attempts \in 0 .. Attempts /\ Slots \in Nat
  BY QueueSlotsAssumption DEF TypeOK
<1>1. CASE NoSlot(o, kind[o])
  <2>1. cand' = [cand EXCEPT ![o] = cand[o]] /\ tries' = [tries EXCEPT ![o] = tries[o]]
    BY <1>1 DEF NoSlot, TypeOK
  <2> QED
    BY <1>t, <1>1, <2>1 DEF NoSlot, Goto, Forward
<1>2. ASSUME NEW k \in cand[o] + 1 .. Slots, Try(o, k) PROVE Forward(o)
  <2>1. k \in 1 .. Slots
    BY <1>t
  <2> QED
    BY <1>t, <1>2, <2>1 DEF Try, Goto, Forward
<1> QED
  BY <1>1, <1>2 DEF Following

LEMMA AgainGoes ==
  ASSUME TypeOK, NEW o \in Ops, cand[o] # 0, Again(o)
  PROVE  Forward(o)
<1>1. CASE Goto(o, "slot") /\ UNCHANGED <<cand, tries>>
  <2>1. cand' = [cand EXCEPT ![o] = cand[o]] /\ tries' = [tries EXCEPT ![o] = tries[o]]
    BY <1>1 DEF TypeOK
  <2>2. cand[o] \in 1 .. Slots /\ tries[o] \in 0 .. Attempts
    BY QueueSlotsAssumption DEF TypeOK
  <2> QED
    BY <1>1, <2>1, <2>2 DEF Goto, Forward
<1> QED
  BY <1>1, FollowingGoes DEF Again

LEMMA GiveUpGoes ==
  ASSUME NEW o \in Ops, GiveUp(o)
  PROVE  Back(o)
  BY DEF GiveUp, Freed, Goto, Back

LEMMA Outdated ==
  ASSUME TypeOK, NEW j \in Jobs, Outdate(j)
  PROVE  \A p \in Ops : current'[p] => current[p] /\ (seen[p] # NoOne => seen[p][1] # j)
  BY DEF Outdate, TypeOK

\* A step of operation o that writes at most job j keeps the bookkeeping of its own reservation.
Keeps(o, j) ==
  /\ status[j] # "absent" => status'[j] # "absent"
  /\ pc[o] \notin Choosing \cup {"idle"} =>
       pc'[o] \notin Choosing \cup {"idle"} /\ job'[o] = job[o] /\ reserved'[o] = reserved[o]
  /\ Steady(o)'

LEMMA ReadSlotGoes ==
  ASSUME SteadyInv, NEW o \in Ops, ReadSlot(o)
  PROVE  /\ pc[o] = "slot" /\ seen'[o] = slot[cand[o]] /\ fresh'[o] /\ cand'[o] = cand[o]
         /\ (slot[cand[o]] = NoOne /\ pc'[o] = "take") \/ (slot[cand[o]] # NoOne /\ pc'[o] = "holder")
         /\ UNCHANGED <<status, at, owner, slot, kind, job, reserved>>
         /\ \A p \in Ops : p # o => SameOp(p)
         /\ Keeps(o, job[o])
<1> USE Typed, NoOneIsNobody, SlotNumbers DEF SteadyInv, Ledger
<1>0. Steady(o) /\ TypeOK
  OBVIOUS
<1>1. /\ pc[o] = "slot" /\ seen'[o] = slot[cand[o]] /\ fresh'[o] /\ cand'[o] = cand[o]
      /\ (slot[cand[o]] = NoOne /\ pc'[o] = "take") \/ (slot[cand[o]] # NoOne /\ pc'[o] = "holder")
      /\ UNCHANGED <<status, at, owner, slot, kind, job, reserved>>
      /\ \A p \in Ops : p # o => SameOp(p)
  BY <1>0 DEF ReadSlot, Goto, SameOp, TypeOK, jobs, plan, look, Steady, Choosing
<1>2. Steady(o)'
  BY <1>0, <1>1 DEF Steady, Choosing, Freeing, Occupies, Active
<1>3. Keeps(o, job[o])
  BY <1>0, <1>1, <1>2 DEF Keeps, Steady, Choosing, ReadSlot
<1> QED
  BY <1>1, <1>3

LEMMA ReadOwnGoes ==
  ASSUME SteadyInv, NEW o \in Ops, ReadOwn(o)
  PROVE  /\ pc[o] = "free" /\ reserved[o] # 0
         /\ \/ /\ slot[reserved[o]] = <<job[o], o>> /\ pc'[o] = "keep" /\ fresh'[o]
               /\ seen'[o] = slot[reserved[o]] /\ cand'[o] = reserved[o]
            \/ /\ slot[reserved[o]] # <<job[o], o>>
               /\ pc'[o] = "done" \/ (pc'[o] = "unfence" /\ kind[o] \in {"reschedule", "stopping"})
         /\ UNCHANGED <<status, at, owner, slot, kind, job, reserved>>
         /\ \A p \in Ops : p # o => SameOp(p)
         /\ Keeps(o, job[o])
<1> USE Typed, NoOneIsNobody, SlotNumbers DEF SteadyInv, Ledger
<1>0. Steady(o) /\ TypeOK
  OBVIOUS
<1>1. /\ pc[o] = "free" /\ reserved[o] # 0
      /\ \/ /\ slot[reserved[o]] = <<job[o], o>> /\ pc'[o] = "keep" /\ fresh'[o]
            /\ seen'[o] = slot[reserved[o]] /\ cand'[o] = reserved[o]
         \/ /\ slot[reserved[o]] # <<job[o], o>>
            /\ pc'[o] = "done" \/ (pc'[o] = "unfence" /\ kind[o] \in {"reschedule", "stopping"})
      /\ UNCHANGED <<status, at, owner, slot, kind, job, reserved>>
      /\ \A p \in Ops : p # o => SameOp(p)
  <2>1. CASE Mine(o, slot[reserved[o]])
    BY <1>0, <2>1 DEF ReadOwn, Mine, Freed, Freeing, Goto, SameOp, TypeOK, jobs, plan, look,
       Steady, Choosing
  <2>2. CASE ~Mine(o, slot[reserved[o]])
    BY <1>0, <2>2 DEF ReadOwn, Mine, Freed, Freeing, Goto, SameOp, TypeOK, jobs, plan, look,
       Steady, Choosing
  <2> QED
    BY <2>1, <2>2
<1>2. Steady(o)'
  BY <1>0, <1>1 DEF Steady, Choosing, Freeing, Occupies, Active
<1>3. Keeps(o, job[o])
  BY <1>0, <1>1, <1>2 DEF Keeps, Steady, Choosing, ReadOwn
<1> QED
  BY <1>1, <1>3

LEMMA ReadOwnJobGoes ==
  ASSUME SteadyInv, NEW o \in Ops, ReadOwnJob(o)
  PROVE  /\ pc[o] = "keep" /\ cand'[o] = cand[o] /\ (fresh'[o] <=> fresh[o])
         /\ \/ ~Occupies(job[o], reserved[o]) /\ pc'[o] = "vacate"
            \/ /\ status[job[o]] \in Active
               /\ pc'[o] = "done" \/ (pc'[o] = "unfence" /\ kind[o] \in {"reschedule", "stopping"})
         /\ UNCHANGED <<status, at, owner, slot, kind, job, reserved>>
         /\ \A p \in Ops : p # o => SameOp(p)
         /\ Keeps(o, job[o])
<1> USE Typed, NoOneIsNobody, SlotNumbers DEF SteadyInv, Ledger
<1>0. Steady(o) /\ TypeOK
  OBVIOUS
<1>1. /\ pc[o] = "keep" /\ cand'[o] = cand[o] /\ (fresh'[o] <=> fresh[o])
      /\ \/ ~Occupies(job[o], reserved[o]) /\ pc'[o] = "vacate"
         \/ /\ status[job[o]] \in Active
            /\ pc'[o] = "done" \/ (pc'[o] = "unfence" /\ kind[o] \in {"reschedule", "stopping"})
      /\ UNCHANGED <<status, at, owner, slot, kind, job, reserved>>
      /\ \A p \in Ops : p # o => SameOp(p)
  BY <1>0 DEF ReadOwnJob, Occupies, Freed, Freeing, Goto, SameOp, TypeOK, jobs, plan, look,
     Steady, Choosing
<1>2. Steady(o)'
  BY <1>0, <1>1 DEF Steady, Choosing, Freeing, Occupies, Active
<1>3. Keeps(o, job[o])
  BY <1>0, <1>1, <1>2 DEF Keeps, Steady, Choosing, ReadOwnJob
<1> QED
  BY <1>1, <1>3

LEMMA PreflightFailsGoes ==
  ASSUME SteadyInv, NEW o \in Ops, PreflightFails(o)
  PROVE  /\ pc[o] = "check"
         /\ \/ pc'[o] = "free" /\ reserved[o] # 0
            \/ pc'[o] = "unfence" /\ kind[o] \in {"reschedule", "stopping"}
            \/ pc'[o] = "done" /\ reserved[o] = 0
         /\ UNCHANGED <<status, at, owner, slot, kind, job, reserved>>
         /\ \A p \in Ops : p # o => SameOp(p)
         /\ Keeps(o, job[o])
<1> USE Typed, NoOneIsNobody, SlotNumbers DEF SteadyInv, Ledger
<1>0. Steady(o) /\ TypeOK
  OBVIOUS
<1>1. /\ pc[o] = "check"
      /\ \/ pc'[o] = "free" /\ reserved[o] # 0
         \/ pc'[o] = "unfence" /\ kind[o] \in {"reschedule", "stopping"}
         \/ pc'[o] = "done" /\ reserved[o] = 0
      /\ UNCHANGED <<status, at, owner, slot, kind, job, reserved>>
      /\ \A p \in Ops : p # o => SameOp(p)
  BY <1>0, GiveUpGoes DEF PreflightFails, Back, Goto, SameOp, TypeOK, jobs, plan, look, Steady, Choosing
<1>2. Steady(o)'
  BY <1>0, <1>1 DEF Steady, Choosing, Freeing, Occupies, Active
<1>3. Keeps(o, job[o])
  BY <1>0, <1>1, <1>2 DEF Keeps, Steady, Choosing, PreflightFails
<1> QED
  BY <1>1, <1>3

LEMMA CrashGoes ==
  ASSUME SteadyInv, NEW o \in Ops, Crash(o)
  PROVE  /\ pc[o] # "idle" /\ pc'[o] = "dead"
         /\ UNCHANGED <<status, at, owner, slot, kind, job, reserved>>
         /\ \A p \in Ops : p # o => SameOp(p)
         /\ Keeps(o, job[o])
<1> USE Typed, NoOneIsNobody, SlotNumbers DEF SteadyInv, Ledger
<1>0. Steady(o) /\ TypeOK
  OBVIOUS
<1>1. /\ pc[o] # "idle" /\ pc'[o] = "dead"
      /\ UNCHANGED <<status, at, owner, slot, kind, job, reserved>>
      /\ \A p \in Ops : p # o => SameOp(p)
  BY <1>0 DEF Crash, Goto, SameOp, TypeOK, jobs, plan, look, Steady, Choosing
<1>2. Steady(o)'
  BY <1>0, <1>1 DEF Steady, Choosing, Freeing, Occupies, Active
<1>3. Keeps(o, job[o])
  BY <1>0, <1>1, <1>2 DEF Keeps, Steady, Choosing, Crash
<1> QED
  BY <1>1, <1>3

LEMMA ScheduleGoes ==
  ASSUME SteadyInv, NEW o \in Ops, NEW j \in Jobs, Schedule(o, j)
  PROVE  /\ Writes(o, j) /\ UNCHANGED reserved /\ Keeps(o, j)
         /\ pc'[o] = "slot" /\ kind'[o] = "schedule" /\ job'[o] = j /\ cand'[o] # 0
         /\ UNCHANGED <<status, at, owner>>
<1> USE Typed, NoOneIsNobody, SlotNumbers DEF SteadyInv, Ledger
<1>0. Steady(o) /\ TypeOK /\ pc[o] = "idle" /\ kind[o] = "none" /\ reserved[o] = 0
  BY DEF Schedule, Begin, Steady
<1>1. /\ pc'[o] = "slot" /\ kind'[o] = "schedule" /\ job'[o] = j /\ cand'[o] # 0
      /\ UNCHANGED <<status, at, owner>>
      /\ \A i \in Jobs : i # j => status'[i] = status[i] /\ at'[i] = at[i] /\ owner'[i] = owner[i]
      /\ slot' = slot /\ UNCHANGED reserved
      /\ \A p \in Ops : p # o => SameOp(p)
      /\ \A p \in Ops : p # o /\ current'[p] /\ seen[p] # NoOne /\ seen[p][1] = j =>
           status'[j] = status[j] /\ at'[j] = at[j]
  BY <1>0 DEF Schedule, jobs, plan, look, Goto, Outdate, Lease, Unlease, SetStatus, Begin, Try,
     SameOp, TypeOK
<1>2. Writes(o, j)
  BY <1>1 DEF Writes
<1>3. Steady(o)'
  BY <1>0, <1>1 DEF Steady, MayMove, Choosing, Freeing, Active
<1>4. Keeps(o, j)
  BY <1>0, <1>1, <1>3 DEF Keeps, Steady, Choosing
<1> QED
  BY <1>1, <1>2, <1>4

LEMMA ScheduleFixedGoes ==
  ASSUME SteadyInv, NEW o \in Ops, NEW j \in Jobs, ScheduleFixed(o, j)
  PROVE  /\ Writes(o, j) /\ UNCHANGED reserved /\ Keeps(o, j)
         /\ pc'[o] = "done" /\ kind'[o] = "schedule" /\ job'[o] = j
         /\ at'[j] = at[j] /\ owner'[j] = owner[j]
         /\ status'[j] = IF status[j] = "absent" THEN "active" ELSE status[j]
<1> USE Typed, NoOneIsNobody, SlotNumbers DEF SteadyInv, Ledger
<1>0. Steady(o) /\ TypeOK /\ pc[o] = "idle" /\ kind[o] = "none" /\ reserved[o] = 0
  BY DEF ScheduleFixed, Begin, Steady
<1>1. /\ pc'[o] = "done" /\ kind'[o] = "schedule" /\ job'[o] = j
      /\ at'[j] = at[j] /\ owner'[j] = owner[j]
      /\ status'[j] = IF status[j] = "absent" THEN "active" ELSE status[j]
      /\ \A i \in Jobs : i # j => status'[i] = status[i] /\ at'[i] = at[i] /\ owner'[i] = owner[i]
      /\ slot' = slot /\ UNCHANGED reserved
      /\ \A p \in Ops : p # o => SameOp(p)
      /\ \A p \in Ops : p # o /\ current'[p] /\ seen[p] # NoOne /\ seen[p][1] = j =>
           status'[j] = status[j] /\ at'[j] = at[j]
  <2>1. CASE status[j] = "absent"
    <3>1. /\ pc' = [pc EXCEPT ![o] = "done"] /\ kind' = [kind EXCEPT ![o] = "schedule"] /\ job' = [job EXCEPT ![o] = j]
          /\ status' = [status EXCEPT ![j] = "active"] /\ Outdate(j)
          /\ slot' = slot /\ UNCHANGED <<at, owner, cand, seen, reserved, fresh>>
      BY <1>0, <2>1 DEF ScheduleFixed, jobs, plan, look, Goto, Lease, Unlease, SetStatus, Begin
    <3>2. \A i \in Jobs : i # j => status'[i] = status[i] /\ at'[i] = at[i] /\ owner'[i] = owner[i]
      BY <1>0, <3>1 DEF TypeOK
    <3>3. \A p \in Ops : p # o => SameOp(p)
      <4>1. \A p \in Ops : current'[p] => current[p]
        BY <1>0, <3>1, Outdated
      <4>2. \A p \in Ops : p # o => pc'[p] = pc[p] /\ kind'[p] = kind[p] /\ job'[p] = job[p]
        BY <1>0, <3>1 DEF TypeOK
      <4> QED
        BY <3>1, <4>1, <4>2 DEF SameOp
    <3>4. \A p \in Ops : p # o /\ current'[p] /\ seen[p] # NoOne /\ seen[p][1] = j =>
            status'[j] = status[j] /\ at'[j] = at[j]
      BY <1>0, <3>1, Outdated
    <3>5. /\ pc'[o] = "done" /\ kind'[o] = "schedule" /\ job'[o] = j
         /\ at'[j] = at[j] /\ owner'[j] = owner[j]
         /\ status'[j] = IF status[j] = "absent" THEN "active" ELSE status[j]
      BY <1>0, <2>1, <3>1 DEF TypeOK
    <3> QED
      BY <3>1, <3>2, <3>3, <3>4, <3>5
  <2>2. CASE status[j] # "absent"
    <3>1. /\ pc' = [pc EXCEPT ![o] = "done"] /\ kind' = [kind EXCEPT ![o] = "schedule"] /\ job' = [job EXCEPT ![o] = j]
          /\ slot' = slot /\ UNCHANGED <<status, current, at, owner, cand, seen, reserved, fresh>>
      BY <1>0, <2>2 DEF ScheduleFixed, jobs, plan, look, Goto, Lease, Unlease, SetStatus, Begin
    <3>2. \A i \in Jobs : i # j => status'[i] = status[i] /\ at'[i] = at[i] /\ owner'[i] = owner[i]
      BY <1>0, <3>1 DEF TypeOK
    <3>3. \A p \in Ops : p # o => SameOp(p)
      <4>1. \A p \in Ops : current'[p] => current[p]
        BY <1>0, <3>1, Outdated
      <4>2. \A p \in Ops : p # o => pc'[p] = pc[p] /\ kind'[p] = kind[p] /\ job'[p] = job[p]
        BY <1>0, <3>1 DEF TypeOK
      <4> QED
        BY <3>1, <4>1, <4>2 DEF SameOp
    <3>4. \A p \in Ops : p # o /\ current'[p] /\ seen[p] # NoOne /\ seen[p][1] = j =>
            status'[j] = status[j] /\ at'[j] = at[j]
      BY <1>0, <3>1, Outdated
    <3>5. /\ pc'[o] = "done" /\ kind'[o] = "schedule" /\ job'[o] = j
         /\ at'[j] = at[j] /\ owner'[j] = owner[j]
         /\ status'[j] = IF status[j] = "absent" THEN "active" ELSE status[j]
      BY <1>0, <2>2, <3>1 DEF TypeOK
    <3> QED
      BY <3>1, <3>2, <3>3, <3>4, <3>5
  <2> QED
    BY <2>1, <2>2 DEF ScheduleFixed
<1>2. Writes(o, j)
  BY <1>1 DEF Writes
<1>3. Steady(o)'
  BY <1>0, <1>1 DEF Steady, MayMove, Choosing, Freeing, Active
<1>4. Keeps(o, j)
  BY <1>0, <1>1, <1>3 DEF Keeps, Steady, Choosing
<1> QED
  BY <1>1, <1>2, <1>4

LEMMA RescheduleGoes ==
  ASSUME SteadyInv, NEW o \in Ops, NEW j \in Jobs, Reschedule(o, j)
  PROVE  /\ Writes(o, j) /\ UNCHANGED reserved /\ Keeps(o, j)
         /\ kind'[o] = "reschedule" /\ job'[o] = j /\ status[j] = "active"
         /\ (pc'[o] = "slot" /\ cand'[o] # 0) \/ pc'[o] \in {"unfence", "check"}
         /\ status'[j] = status[j] /\ at'[j] = at[j] /\ owner'[j] = o
<1> USE Typed, NoOneIsNobody, SlotNumbers DEF SteadyInv, Ledger
<1>0. Steady(o) /\ TypeOK /\ pc[o] = "idle" /\ kind[o] = "none" /\ reserved[o] = 0
  BY DEF Reschedule, Begin, Steady
<1>1. /\ kind'[o] = "reschedule" /\ job'[o] = j /\ status[j] = "active"
      /\ (pc'[o] = "slot" /\ cand'[o] # 0) \/ pc'[o] \in {"unfence", "check"}
      /\ status'[j] = status[j] /\ at'[j] = at[j] /\ owner'[j] = o
      /\ \A i \in Jobs : i # j => status'[i] = status[i] /\ at'[i] = at[i] /\ owner'[i] = owner[i]
      /\ slot' = slot /\ UNCHANGED reserved
      /\ \A p \in Ops : p # o => SameOp(p)
      /\ \A p \in Ops : p # o /\ current'[p] /\ seen[p] # NoOne /\ seen[p][1] = j =>
           status'[j] = status[j] /\ at'[j] = at[j]
  BY <1>0 DEF Reschedule, NoSlot, jobs, plan, look, Goto, Outdate, Lease, Unlease, SetStatus,
     Begin, Try, SameOp, TypeOK
<1>2. Writes(o, j)
  BY <1>1 DEF Writes
<1>3. Steady(o)'
  BY <1>0, <1>1 DEF Steady, MayMove, Choosing, Freeing, Active
<1>4. Keeps(o, j)
  BY <1>0, <1>1, <1>3 DEF Keeps, Steady, Choosing
<1> QED
  BY <1>1, <1>2, <1>4

LEMMA CancelGoes ==
  ASSUME SteadyInv, NEW o \in Ops, NEW j \in Jobs, Cancel(o, j)
  PROVE  /\ Writes(o, j) /\ UNCHANGED reserved /\ Keeps(o, j)
         /\ kind'[o] = "cancel" /\ job'[o] = j /\ pc'[o] = "withdraw" /\ status[j] \in Active
         /\ status'[j] = "cancel-unresolved" /\ at'[j] = at[j] /\ owner'[j] = owner[j]
<1> USE Typed, NoOneIsNobody, SlotNumbers DEF SteadyInv, Ledger
<1>0. Steady(o) /\ TypeOK /\ pc[o] = "idle" /\ kind[o] = "none" /\ reserved[o] = 0
  BY DEF Cancel, Begin, Steady
<1>1. /\ kind'[o] = "cancel" /\ job'[o] = j /\ pc'[o] = "withdraw" /\ status[j] \in Active
      /\ status'[j] = "cancel-unresolved" /\ at'[j] = at[j] /\ owner'[j] = owner[j]
      /\ \A i \in Jobs : i # j => status'[i] = status[i] /\ at'[i] = at[i] /\ owner'[i] = owner[i]
      /\ slot' = slot /\ UNCHANGED reserved
      /\ \A p \in Ops : p # o => SameOp(p)
      /\ \A p \in Ops : p # o /\ current'[p] /\ seen[p] # NoOne /\ seen[p][1] = j =>
           status'[j] = status[j] /\ at'[j] = at[j]
  <2>1. /\ pc' = [pc EXCEPT ![o] = "withdraw"] /\ kind' = [kind EXCEPT ![o] = "cancel"]
        /\ job' = [job EXCEPT ![o] = j] /\ status[j] \in Active
        /\ status' = [status EXCEPT ![j] = "cancel-unresolved"] /\ Outdate(j)
        /\ UNCHANGED <<at, owner, slot, cand, seen, reserved, fresh>>
    BY <1>0 DEF Cancel, Goto, SetStatus, Begin, jobs, plan, look
  <2>2. \A p \in Ops : current'[p] => current[p] /\ (seen[p] # NoOne => seen[p][1] # j)
    BY <1>0, <2>1, Outdated
  <2>3. /\ \A i \in Jobs : i # j => status'[i] = status[i] /\ at'[i] = at[i] /\ owner'[i] = owner[i]
        /\ \A p \in Ops : p # o => pc'[p] = pc[p] /\ kind'[p] = kind[p] /\ job'[p] = job[p]
    BY <1>0, <2>1 DEF TypeOK
  <2>4. \A p \in Ops : p # o => SameOp(p)
    BY <2>1, <2>2, <2>3 DEF SameOp
  <2>5. /\ kind'[o] = "cancel" /\ job'[o] = j /\ pc'[o] = "withdraw" /\ status[j] \in Active
        /\ status'[j] = "cancel-unresolved" /\ at'[j] = at[j] /\ owner'[j] = owner[j]
    BY <1>0, <2>1 DEF TypeOK
  <2> QED
    BY <2>1, <2>2, <2>3, <2>4, <2>5
<1>2. Writes(o, j)
  BY <1>1 DEF Writes
<1>3. Steady(o)'
  BY <1>0, <1>1 DEF Steady, MayMove, Choosing, Freeing, Active
<1>4. Keeps(o, j)
  BY <1>0, <1>1, <1>3 DEF Keeps, Steady, Choosing
<1> QED
  BY <1>1, <1>2, <1>4

LEMMA RunGoes ==
  ASSUME SteadyInv, NEW o \in Ops, NEW j \in Jobs, Run(o, j)
  PROVE  /\ Writes(o, j) /\ UNCHANGED reserved /\ Keeps(o, j)
         /\ kind'[o] = "run" /\ job'[o] = j /\ pc'[o] = "run"
         /\ status[j] \notin {"absent", "cancelled"}
         /\ status'[j] = status[j] /\ at'[j] = at[j] /\ owner'[j] = o
<1> USE Typed, NoOneIsNobody, SlotNumbers DEF SteadyInv, Ledger
<1>0. Steady(o) /\ TypeOK /\ pc[o] = "idle" /\ kind[o] = "none" /\ reserved[o] = 0
  BY DEF Run, Begin, Steady
<1>1. /\ kind'[o] = "run" /\ job'[o] = j /\ pc'[o] = "run" /\ status[j] \notin {"absent", "cancelled"}
      /\ status'[j] = status[j] /\ at'[j] = at[j] /\ owner'[j] = o
      /\ \A i \in Jobs : i # j => status'[i] = status[i] /\ at'[i] = at[i] /\ owner'[i] = owner[i]
      /\ slot' = slot /\ UNCHANGED reserved
      /\ \A p \in Ops : p # o => SameOp(p)
      /\ \A p \in Ops : p # o /\ current'[p] /\ seen[p] # NoOne /\ seen[p][1] = j =>
           status'[j] = status[j] /\ at'[j] = at[j]
  BY <1>0 DEF Run, jobs, plan, look, Goto, Outdate, Lease, Unlease, SetStatus, Begin, Try,
     SameOp, TypeOK
<1>2. Writes(o, j)
  BY <1>1 DEF Writes
<1>3. Steady(o)'
  BY <1>0, <1>1 DEF Steady, MayMove, Choosing, Freeing, Active
<1>4. Keeps(o, j)
  BY <1>0, <1>1, <1>3 DEF Keeps, Steady, Choosing
<1> QED
  BY <1>1, <1>2, <1>4

LEMMA UnfenceGoes ==
  ASSUME SteadyInv, NEW o \in Ops, Unfence(o)
  PROVE  /\ Writes(o, job[o]) /\ UNCHANGED reserved /\ Keeps(o, job[o])
         /\ kind'[o] = kind[o] /\ job'[o] = job[o]
         /\ pc'[o] = (IF kind[o] = "stopping" THEN "stop" ELSE "done") /\ pc[o] = "unfence"
         /\ status'[job[o]] = status[job[o]] /\ at'[job[o]] = at[job[o]]
         /\ (owner[job[o]] = o /\ owner'[job[o]] = NoOne) \/ (owner[job[o]] # o /\ owner'[job[o]] = owner[job[o]])
<1> USE Typed, NoOneIsNobody, SlotNumbers DEF SteadyInv, Ledger
<1> DEFINE j == job[o]
<1>0. Steady(o) /\ TypeOK /\ j \in Jobs
  BY DEF Unfence, Steady
<1>1. /\ kind'[o] = kind[o] /\ job'[o] = job[o]
      /\ pc'[o] = (IF kind[o] = "stopping" THEN "stop" ELSE "done") /\ pc[o] = "unfence"
      /\ status'[j] = status[j] /\ at'[j] = at[j]
      /\ (owner[j] = o /\ owner'[j] = NoOne) \/ (owner[j] # o /\ owner'[j] = owner[j])
      /\ \A i \in Jobs : i # j => status'[i] = status[i] /\ at'[i] = at[i] /\ owner'[i] = owner[i]
      /\ slot' = slot /\ UNCHANGED reserved
      /\ \A p \in Ops : p # o => SameOp(p)
      /\ \A p \in Ops : p # o /\ current'[p] /\ seen[p] # NoOne /\ seen[p][1] = j =>
           status'[j] = status[j] /\ at'[j] = at[j]
  BY <1>0 DEF Unfence, jobs, plan, look, Goto, Outdate, Lease, Unlease, SetStatus, Begin, Try,
     SameOp, TypeOK
<1>2. Writes(o, j)
  BY <1>1 DEF Writes
<1>3. Steady(o)'
  BY <1>0, <1>1 DEF Steady, MayMove, Choosing, Freeing, Active
<1>4. Keeps(o, j)
  BY <1>0, <1>1, <1>3 DEF Keeps, Steady, Choosing
<1> QED
  BY <1>1, <1>2, <1>4

LEMMA CancelFinalGoes ==
  ASSUME SteadyInv, NEW o \in Ops, CancelFinal(o)
  PROVE  /\ Writes(o, job[o]) /\ UNCHANGED reserved /\ Keeps(o, job[o])
         /\ kind'[o] = kind[o] /\ job'[o] = job[o]
         /\ pc'[o] = "done" /\ pc[o] = "withdraw"
         /\ status'[job[o]] \in {"cancelled", "cancel-unresolved"} /\ at'[job[o]] = at[job[o]]
         /\ owner'[job[o]] = owner[job[o]]
<1> USE Typed, NoOneIsNobody, SlotNumbers DEF SteadyInv, Ledger
<1> DEFINE j == job[o]
<1>0. Steady(o) /\ TypeOK /\ j \in Jobs
  BY DEF CancelFinal, Steady
<1>1. /\ kind'[o] = kind[o] /\ job'[o] = job[o]
      /\ pc'[o] = "done" /\ pc[o] = "withdraw"
      /\ status'[j] \in {"cancelled", "cancel-unresolved"} /\ at'[j] = at[j] /\ owner'[j] = owner[j]
      /\ \A i \in Jobs : i # j => status'[i] = status[i] /\ at'[i] = at[i] /\ owner'[i] = owner[i]
      /\ slot' = slot /\ UNCHANGED reserved
      /\ \A p \in Ops : p # o => SameOp(p)
      /\ \A p \in Ops : p # o /\ current'[p] /\ seen[p] # NoOne /\ seen[p][1] = j =>
           status'[j] = status[j] /\ at'[j] = at[j]
  <2>1. /\ pc' = [pc EXCEPT ![o] = "done"] /\ pc[o] = "withdraw"
        /\ \E x \in {"cancelled", "cancel-unresolved"} : status' = [status EXCEPT ![j] = x]
        /\ Outdate(j) /\ UNCHANGED <<at, owner, slot, kind, job, cand, seen, reserved, fresh>>
    BY <1>0 DEF CancelFinal, Goto, SetStatus, Begin, jobs, plan, look
  <2>2. \A p \in Ops : current'[p] => current[p] /\ (seen[p] # NoOne => seen[p][1] # j)
    BY <1>0, <2>1, Outdated
  <2>3. /\ \A i \in Jobs : i # j => status'[i] = status[i] /\ at'[i] = at[i] /\ owner'[i] = owner[i]
        /\ \A p \in Ops : p # o => pc'[p] = pc[p] /\ kind'[p] = kind[p] /\ job'[p] = job[p]
    BY <1>0, <2>1 DEF TypeOK
  <2>4. \A p \in Ops : p # o => SameOp(p)
    BY <2>1, <2>2, <2>3 DEF SameOp
  <2>5. /\ kind'[o] = kind[o] /\ job'[o] = job[o] /\ pc'[o] = "done" /\ pc[o] = "withdraw"
        /\ status'[j] \in {"cancelled", "cancel-unresolved"} /\ at'[j] = at[j]
        /\ owner'[j] = owner[j]
    BY <1>0, <2>1 DEF TypeOK
  <2> QED
    BY <2>1, <2>2, <2>3, <2>4, <2>5
<1>2. Writes(o, j)
  BY <1>1 DEF Writes
<1>3. Steady(o)'
  BY <1>0, <1>1 DEF Steady, MayMove, Choosing, Freeing, Active
<1>4. Keeps(o, j)
  BY <1>0, <1>1, <1>3 DEF Keeps, Steady, Choosing
<1> QED
  BY <1>1, <1>2, <1>4

LEMMA CancelMovedGoes ==
  ASSUME SteadyInv, NEW o \in Ops, CancelMoved(o)
  PROVE  /\ Writes(o, job[o]) /\ UNCHANGED reserved /\ Keeps(o, job[o])
         /\ kind'[o] = kind[o] /\ job'[o] = job[o]
         /\ pc[o] = "stop" /\ at'[job[o]] = at[job[o]] /\ owner'[job[o]] = owner[job[o]]
         /\ \/ status[job[o]] \in Active /\ status'[job[o]] = "cancel-unresolved" /\ pc'[o] = "withdraw"
            \/ pc'[o] = "done" /\ status'[job[o]] = status[job[o]]
<1> USE Typed, NoOneIsNobody, SlotNumbers DEF SteadyInv, Ledger
<1> DEFINE j == job[o]
<1>0. Steady(o) /\ TypeOK /\ j \in Jobs
  BY DEF CancelMoved, Steady
<1>1. /\ kind'[o] = kind[o] /\ job'[o] = job[o]
      /\ pc[o] = "stop" /\ at'[j] = at[j] /\ owner'[j] = owner[j]
      /\ \/ status[j] \in Active /\ status'[j] = "cancel-unresolved" /\ pc'[o] = "withdraw"
         \/ pc'[o] = "done" /\ status'[j] = status[j]
      /\ \A i \in Jobs : i # j => status'[i] = status[i] /\ at'[i] = at[i] /\ owner'[i] = owner[i]
      /\ slot' = slot /\ UNCHANGED reserved
      /\ \A p \in Ops : p # o => SameOp(p)
      /\ \A p \in Ops : p # o /\ current'[p] /\ seen[p] # NoOne /\ seen[p][1] = j =>
           status'[j] = status[j] /\ at'[j] = at[j]
  <2>1. CASE status[j] \in Active
    <3>1. /\ pc' = [pc EXCEPT ![o] = "withdraw"] /\ status' = [status EXCEPT ![j] = "cancel-unresolved"] /\ Outdate(j)
          /\ slot' = slot /\ UNCHANGED <<at, owner, kind, job, cand, seen, reserved, fresh>>
          /\ pc[o] = "stop"
      BY <1>0, <2>1 DEF CancelMoved, jobs, plan, look, Goto, Lease, Unlease, SetStatus, Begin
    <3>2. \A i \in Jobs : i # j => status'[i] = status[i] /\ at'[i] = at[i] /\ owner'[i] = owner[i]
      BY <1>0, <3>1 DEF TypeOK
    <3>3. \A p \in Ops : p # o => SameOp(p)
      <4>1. \A p \in Ops : current'[p] => current[p]
        BY <1>0, <3>1, Outdated
      <4>2. \A p \in Ops : p # o => pc'[p] = pc[p] /\ kind'[p] = kind[p] /\ job'[p] = job[p]
        BY <1>0, <3>1 DEF TypeOK
      <4> QED
        BY <3>1, <4>1, <4>2 DEF SameOp
    <3>4. \A p \in Ops : p # o /\ current'[p] /\ seen[p] # NoOne /\ seen[p][1] = j =>
            status'[j] = status[j] /\ at'[j] = at[j]
      BY <1>0, <3>1, Outdated
    <3>5. /\ kind'[o] = kind[o] /\ job'[o] = job[o]
         /\ pc[o] = "stop" /\ at'[j] = at[j] /\ owner'[j] = owner[j]
         /\ \/ status[j] \in Active /\ status'[j] = "cancel-unresolved" /\ pc'[o] = "withdraw"
            \/ pc'[o] = "done" /\ status'[j] = status[j]
      BY <1>0, <2>1, <3>1 DEF TypeOK
    <3> QED
      BY <3>1, <3>2, <3>3, <3>4, <3>5
  <2>2. CASE status[j] \notin Active
    <3>1. /\ pc' = [pc EXCEPT ![o] = "done"] /\ pc[o] = "stop"
          /\ slot' = slot
          /\ UNCHANGED <<status, current, at, owner, kind, job, cand, seen, reserved, fresh>>
      BY <1>0, <2>2 DEF CancelMoved, jobs, plan, look, Goto, Lease, Unlease, SetStatus, Begin
    <3>2. \A i \in Jobs : i # j => status'[i] = status[i] /\ at'[i] = at[i] /\ owner'[i] = owner[i]
      BY <1>0, <3>1 DEF TypeOK
    <3>3. \A p \in Ops : p # o => SameOp(p)
      <4>1. \A p \in Ops : current'[p] => current[p]
        BY <1>0, <3>1, Outdated
      <4>2. \A p \in Ops : p # o => pc'[p] = pc[p] /\ kind'[p] = kind[p] /\ job'[p] = job[p]
        BY <1>0, <3>1 DEF TypeOK
      <4> QED
        BY <3>1, <4>1, <4>2 DEF SameOp
    <3>4. \A p \in Ops : p # o /\ current'[p] /\ seen[p] # NoOne /\ seen[p][1] = j =>
            status'[j] = status[j] /\ at'[j] = at[j]
      BY <1>0, <3>1, Outdated
    <3>5. /\ kind'[o] = kind[o] /\ job'[o] = job[o]
         /\ pc[o] = "stop" /\ at'[j] = at[j] /\ owner'[j] = owner[j]
         /\ \/ status[j] \in Active /\ status'[j] = "cancel-unresolved" /\ pc'[o] = "withdraw"
            \/ pc'[o] = "done" /\ status'[j] = status[j]
      BY <1>0, <2>2, <3>1 DEF TypeOK
    <3> QED
      BY <3>1, <3>2, <3>3, <3>4, <3>5
  <2> QED
    BY <2>1, <2>2 DEF CancelMoved
<1>2. Writes(o, j)
  BY <1>1 DEF Writes
<1>3. Steady(o)'
  BY <1>0, <1>1 DEF Steady, MayMove, Choosing, Freeing, Active
<1>4. Keeps(o, j)
  BY <1>0, <1>1, <1>3 DEF Keeps, Steady, Choosing
<1> QED
  BY <1>1, <1>2, <1>4

LEMMA ReleaseGoes ==
  ASSUME SteadyInv, NEW o \in Ops, Release(o)
  PROVE  /\ Writes(o, job[o]) /\ UNCHANGED reserved /\ Keeps(o, job[o])
         /\ kind'[o] = kind[o] /\ job'[o] = job[o]
         /\ pc[o] = "run" /\ pc'[o] = "done" /\ at'[job[o]] = at[job[o]]
         /\ \/ /\ owner[job[o]] = o /\ owner'[job[o]] = NoOne
               /\ \/ status'[job[o]] = status[job[o]]
                  \/ status[job[o]] = "active" /\ status'[job[o]] = "completed"
                  \/ o \in Retries /\ status[job[o]] = "completed" /\ status'[job[o]] = "active"
            \/ owner'[job[o]] = owner[job[o]] /\ status'[job[o]] = status[job[o]]
<1> USE Typed, NoOneIsNobody, SlotNumbers DEF SteadyInv, Ledger
<1> DEFINE j == job[o]
<1> DEFINE Moves == \/ status'[j] = status[j]
                    \/ status[j] = "active" /\ status'[j] = "completed"
                    \/ o \in Retries /\ status[j] = "completed" /\ status'[j] = "active"
<1>0. Steady(o) /\ TypeOK /\ j \in Jobs
  BY DEF Release, Steady
<1>1. /\ kind'[o] = kind[o] /\ job'[o] = job[o]
      /\ pc[o] = "run" /\ pc'[o] = "done" /\ at'[j] = at[j]
      /\ \/ /\ owner[j] = o /\ owner'[j] = NoOne
            /\ Moves
         \/ owner'[j] = owner[j] /\ status'[j] = status[j]
      /\ \A i \in Jobs : i # j => status'[i] = status[i] /\ at'[i] = at[i] /\ owner'[i] = owner[i]
      /\ slot' = slot /\ UNCHANGED reserved
      /\ \A p \in Ops : p # o => SameOp(p)
      /\ \A p \in Ops : p # o /\ current'[p] /\ seen[p] # NoOne /\ seen[p][1] = j =>
           status'[j] = status[j] /\ at'[j] = at[j]
  <2>1. CASE owner[j] = o
    <3>1. /\ pc' = [pc EXCEPT ![o] = "done"] /\ owner' = [owner EXCEPT ![j] = NoOne] /\ Outdate(j)
          /\ \/ status' = [status EXCEPT ![j] = status[j]]
             \/ status[j] = "active" /\ status' = [status EXCEPT ![j] = "completed"]
             \/ o \in Retries /\ status[j] = "completed" /\ status' = [status EXCEPT ![j] = "active"]
          /\ slot' = slot /\ UNCHANGED <<at, kind, job, cand, seen, reserved, fresh>>
          /\ pc[o] = "run"
      BY <1>0, <2>1 DEF Release, Releases, jobs, plan, look, Goto, Lease, Unlease, SetStatus, Begin
    <3>2. \A i \in Jobs : i # j => status'[i] = status[i] /\ at'[i] = at[i] /\ owner'[i] = owner[i]
      BY <1>0, <3>1 DEF TypeOK
    <3>3. \A p \in Ops : p # o => SameOp(p)
      <4>1. \A p \in Ops : current'[p] => current[p]
        BY <1>0, <3>1, Outdated
      <4>2. \A p \in Ops : p # o => pc'[p] = pc[p] /\ kind'[p] = kind[p] /\ job'[p] = job[p]
        BY <1>0, <3>1 DEF TypeOK
      <4> QED
        BY <3>1, <4>1, <4>2 DEF SameOp
    <3>4. \A p \in Ops : p # o /\ current'[p] /\ seen[p] # NoOne /\ seen[p][1] = j =>
            status'[j] = status[j] /\ at'[j] = at[j]
      BY <1>0, <3>1, Outdated
    <3>5. /\ kind'[o] = kind[o] /\ job'[o] = job[o]
         /\ pc[o] = "run" /\ pc'[o] = "done" /\ at'[j] = at[j]
         /\ \/ /\ owner[j] = o /\ owner'[j] = NoOne
               /\ Moves
            \/ owner'[j] = owner[j] /\ status'[j] = status[j]
      BY <1>0, <2>1, <3>1 DEF TypeOK
    <3> QED
      BY <3>1, <3>2, <3>3, <3>4, <3>5
  <2>2. CASE owner[j] # o
    <3>1. /\ pc' = [pc EXCEPT ![o] = "done"] /\ pc[o] = "run"
          /\ slot' = slot
          /\ UNCHANGED <<status, current, at, owner, kind, job, cand, seen, reserved, fresh>>
      BY <1>0, <2>2 DEF Release, Releases, jobs, plan, look, Goto, Lease, Unlease, SetStatus, Begin
    <3>2. \A i \in Jobs : i # j => status'[i] = status[i] /\ at'[i] = at[i] /\ owner'[i] = owner[i]
      BY <1>0, <3>1 DEF TypeOK
    <3>3. \A p \in Ops : p # o => SameOp(p)
      <4>1. \A p \in Ops : current'[p] => current[p]
        BY <1>0, <3>1, Outdated
      <4>2. \A p \in Ops : p # o => pc'[p] = pc[p] /\ kind'[p] = kind[p] /\ job'[p] = job[p]
        BY <1>0, <3>1 DEF TypeOK
      <4> QED
        BY <3>1, <4>1, <4>2 DEF SameOp
    <3>4. \A p \in Ops : p # o /\ current'[p] /\ seen[p] # NoOne /\ seen[p][1] = j =>
            status'[j] = status[j] /\ at'[j] = at[j]
      BY <1>0, <3>1, Outdated
    <3>5. /\ kind'[o] = kind[o] /\ job'[o] = job[o]
         /\ pc[o] = "run" /\ pc'[o] = "done" /\ at'[j] = at[j]
         /\ \/ /\ owner[j] = o /\ owner'[j] = NoOne
               /\ Moves
            \/ owner'[j] = owner[j] /\ status'[j] = status[j]
      BY <1>0, <2>2, <3>1 DEF TypeOK
    <3> QED
      BY <3>1, <3>2, <3>3, <3>4, <3>5
  <2> QED
    BY <2>1, <2>2 DEF Release
<1>2. Writes(o, j)
  BY <1>1 DEF Writes
<1>3. Steady(o)'
  BY <1>0, <1>1 DEF Steady, MayMove, Choosing, Freeing, Active
<1>4. Keeps(o, j)
  BY <1>0, <1>1, <1>3 DEF Keeps, Steady, Choosing
<1> QED
  BY <1>1, <1>2, <1>4

LEMMA CreateGoes ==
  ASSUME SteadyInv, NEW o \in Ops, Create(o)
  PROVE  /\ Writes(o, job[o]) /\ UNCHANGED reserved /\ Keeps(o, job[o])
         /\ kind'[o] = kind[o] /\ job'[o] = job[o]
         /\ pc[o] = "check" /\ kind[o] = "schedule" /\ owner'[job[o]] = owner[job[o]]
         /\ \/ /\ status[job[o]] = "absent" /\ status'[job[o]] = "active"
               /\ at'[job[o]] = reserved[o] /\ pc'[o] = "done"
            \/ /\ status[job[o]] # "absent" /\ status'[job[o]] = status[job[o]]
               /\ at'[job[o]] = at[job[o]]
               /\ (pc'[o] = "free" /\ reserved[o] # 0) \/ pc'[o] = "done"
<1> USE Typed, NoOneIsNobody, SlotNumbers DEF SteadyInv, Ledger
<1> DEFINE j == job[o]
<1>0. Steady(o) /\ TypeOK /\ j \in Jobs
  BY DEF Create, Steady
<1>1. /\ kind'[o] = kind[o] /\ job'[o] = job[o]
      /\ pc[o] = "check" /\ kind[o] = "schedule" /\ owner'[j] = owner[j]
      /\ \/ /\ status[j] = "absent" /\ status'[j] = "active" /\ at'[j] = reserved[o]
            /\ pc'[o] = "done"
         \/ /\ status[j] # "absent" /\ status'[j] = status[j] /\ at'[j] = at[j]
            /\ (pc'[o] = "free" /\ reserved[o] # 0) \/ pc'[o] = "done"
      /\ \A i \in Jobs : i # j => status'[i] = status[i] /\ at'[i] = at[i] /\ owner'[i] = owner[i]
      /\ slot' = slot /\ UNCHANGED reserved
      /\ \A p \in Ops : p # o => SameOp(p)
      /\ \A p \in Ops : p # o /\ current'[p] /\ seen[p] # NoOne /\ seen[p][1] = j =>
           status'[j] = status[j] /\ at'[j] = at[j]
  <2>1. CASE status[j] = "absent"
    <3>1. /\ pc' = [pc EXCEPT ![o] = "done"] /\ Outdate(j)
          /\ status' = [status EXCEPT ![j] = "active"] /\ at' = [at EXCEPT ![j] = reserved[o]]
          /\ pc[o] = "check" /\ kind[o] = "schedule"
          /\ slot' = slot /\ UNCHANGED <<owner, kind, job, cand, seen, reserved, fresh>>
      BY <1>0, <2>1, GiveUpGoes DEF Create, Back, jobs, plan, look, Goto, Lease, Unlease,
         SetStatus, Begin
    <3>2. \A i \in Jobs : i # j => status'[i] = status[i] /\ at'[i] = at[i] /\ owner'[i] = owner[i]
      BY <1>0, <3>1 DEF TypeOK
    <3>3. \A p \in Ops : p # o => SameOp(p)
      <4>1. \A p \in Ops : current'[p] => current[p]
        BY <1>0, <3>1, Outdated
      <4>2. \A p \in Ops : p # o => pc'[p] = pc[p] /\ kind'[p] = kind[p] /\ job'[p] = job[p]
        BY <1>0, <3>1 DEF TypeOK
      <4> QED
        BY <3>1, <4>1, <4>2 DEF SameOp
    <3>4. \A p \in Ops : p # o /\ current'[p] /\ seen[p] # NoOne /\ seen[p][1] = j =>
            status'[j] = status[j] /\ at'[j] = at[j]
      BY <1>0, <3>1, Outdated
    <3>5. /\ kind'[o] = kind[o] /\ job'[o] = job[o]
         /\ pc[o] = "check" /\ kind[o] = "schedule" /\ owner'[j] = owner[j]
         /\ \/ /\ status[j] = "absent" /\ status'[j] = "active" /\ at'[j] = reserved[o]
               /\ pc'[o] = "done"
            \/ /\ status[j] # "absent" /\ status'[j] = status[j] /\ at'[j] = at[j]
               /\ (pc'[o] = "free" /\ reserved[o] # 0) \/ pc'[o] = "done"
      BY <1>0, <2>1, <3>1 DEF TypeOK
    <3> QED
      BY <3>1, <3>2, <3>3, <3>4, <3>5
  <2>2. CASE status[j] # "absent"
    <3>1. /\ pc[o] = "check" /\ kind[o] = "schedule"
          /\ \/ pc' = [pc EXCEPT ![o] = "free"] /\ reserved[o] # 0
             \/ pc' = [pc EXCEPT ![o] = "done"]
          /\ slot' = slot
          /\ UNCHANGED <<status, current, at, owner, kind, job, cand, seen, reserved, fresh>>
      BY <1>0, <2>2, GiveUpGoes DEF Create, Back, jobs, plan, look, Goto, Lease, Unlease,
         SetStatus, Begin
    <3>2. \A i \in Jobs : i # j => status'[i] = status[i] /\ at'[i] = at[i] /\ owner'[i] = owner[i]
      BY <1>0, <3>1 DEF TypeOK
    <3>3. \A p \in Ops : p # o => SameOp(p)
      <4>1. \A p \in Ops : current'[p] => current[p]
        BY <1>0, <3>1, Outdated
      <4>2. \A p \in Ops : p # o => pc'[p] = pc[p] /\ kind'[p] = kind[p] /\ job'[p] = job[p]
        BY <1>0, <3>1 DEF TypeOK
      <4> QED
        BY <3>1, <4>1, <4>2 DEF SameOp
    <3>4. \A p \in Ops : p # o /\ current'[p] /\ seen[p] # NoOne /\ seen[p][1] = j =>
            status'[j] = status[j] /\ at'[j] = at[j]
      BY <1>0, <3>1, Outdated
    <3>5. /\ kind'[o] = kind[o] /\ job'[o] = job[o]
         /\ pc[o] = "check" /\ kind[o] = "schedule" /\ owner'[j] = owner[j]
         /\ \/ /\ status[j] = "absent" /\ status'[j] = "active" /\ at'[j] = reserved[o]
               /\ pc'[o] = "done"
            \/ /\ status[j] # "absent" /\ status'[j] = status[j] /\ at'[j] = at[j]
               /\ (pc'[o] = "free" /\ reserved[o] # 0) \/ pc'[o] = "done"
      BY <1>0, <2>2, <3>1 DEF TypeOK
    <3> QED
      BY <3>1, <3>2, <3>3, <3>4, <3>5
  <2> QED
    BY <2>1, <2>2 DEF Create, Back
<1>2. Writes(o, j)
  BY <1>1 DEF Writes
<1>3. Steady(o)'
  BY <1>0, <1>1 DEF Steady, MayMove, Choosing, Freeing, Active
<1>4. Keeps(o, j)
  BY <1>0, <1>1, <1>3 DEF Keeps, Steady, Choosing
<1> QED
  BY <1>1, <1>2, <1>4

LEMMA RenewGoes ==
  ASSUME SteadyInv, NEW o \in Ops, Renew(o)
  PROVE  /\ Writes(o, job[o]) /\ UNCHANGED reserved /\ Keeps(o, job[o])
         /\ kind'[o] = kind[o] /\ job'[o] = job[o]
         /\ pc[o] = "check" /\ kind[o] = "reschedule" /\ status'[job[o]] = status[job[o]]
         /\ at'[job[o]] = at[job[o]]
         /\ owner'[job[o]] = owner[job[o]]
         /\ \/ owner[job[o]] = o /\ pc'[o] = "move"
            \/ (pc'[o] = "free" /\ reserved[o] # 0) \/ pc'[o] \in {"unfence", "done"}
<1> USE Typed, NoOneIsNobody, SlotNumbers DEF SteadyInv, Ledger
<1> DEFINE j == job[o]
<1>0. Steady(o) /\ TypeOK /\ j \in Jobs
  BY DEF Renew, Steady
<1>1. /\ kind'[o] = kind[o] /\ job'[o] = job[o]
      /\ pc[o] = "check" /\ kind[o] = "reschedule" /\ status'[j] = status[j] /\ at'[j] = at[j]
      /\ owner'[j] = owner[j]
      /\ \/ owner[j] = o /\ pc'[o] = "move"
         \/ (pc'[o] = "free" /\ reserved[o] # 0) \/ pc'[o] \in {"unfence", "done"}
      /\ \A i \in Jobs : i # j => status'[i] = status[i] /\ at'[i] = at[i] /\ owner'[i] = owner[i]
      /\ slot' = slot /\ UNCHANGED reserved
      /\ \A p \in Ops : p # o => SameOp(p)
      /\ \A p \in Ops : p # o /\ current'[p] /\ seen[p] # NoOne /\ seen[p][1] = j =>
           status'[j] = status[j] /\ at'[j] = at[j]
  BY <1>0, GiveUpGoes DEF Renew, Back, jobs, plan, look, Goto, Outdate, Lease, Unlease,
     SetStatus, Begin, Try, SameOp, TypeOK
<1>2. Writes(o, j)
  BY <1>1 DEF Writes
<1>3. Steady(o)'
  BY <1>0, <1>1 DEF Steady, MayMove, Choosing, Freeing, Active
<1>4. Keeps(o, j)
  BY <1>0, <1>1, <1>3 DEF Keeps, Steady, Choosing
<1> QED
  BY <1>1, <1>2, <1>4

LEMMA MoveGoes ==
  ASSUME SteadyInv, NEW o \in Ops, Move(o)
  PROVE  /\ Writes(o, job[o]) /\ UNCHANGED reserved /\ Keeps(o, job[o])
         /\ job'[o] = job[o] /\ pc[o] \in {"check", "move"} /\ kind[o] = "reschedule"
         /\ \/ /\ MayMove(o) /\ status'[job[o]] = "active" /\ at'[job[o]] = reserved[o]
               /\ owner'[job[o]] = NoOne
               /\ pc'[o] = "done" /\ kind'[o] = kind[o]
            \/ /\ status'[job[o]] = status[job[o]] /\ at'[job[o]] = at[job[o]]
               /\ owner'[job[o]] = owner[job[o]] /\ kind'[o] = "moved"
               /\ (pc'[o] = "free" /\ reserved[o] # 0) \/ pc'[o] = "done"
<1> USE Typed, NoOneIsNobody, SlotNumbers DEF SteadyInv, Ledger
<1> DEFINE j == job[o]
<1>0. Steady(o) /\ TypeOK /\ j \in Jobs
  BY DEF Move, Steady
<1>1. /\ job'[o] = job[o] /\ pc[o] \in {"check", "move"} /\ kind[o] = "reschedule"
      /\ \/ /\ MayMove(o) /\ status'[j] = "active" /\ at'[j] = reserved[o] /\ owner'[j] = NoOne
            /\ pc'[o] = "done" /\ kind'[o] = kind[o]
         \/ /\ status'[j] = status[j] /\ at'[j] = at[j] /\ owner'[j] = owner[j]
            /\ kind'[o] = "moved"
            /\ (pc'[o] = "free" /\ reserved[o] # 0) \/ pc'[o] = "done"
      /\ \A i \in Jobs : i # j => status'[i] = status[i] /\ at'[i] = at[i] /\ owner'[i] = owner[i]
      /\ slot' = slot /\ UNCHANGED reserved
      /\ \A p \in Ops : p # o => SameOp(p)
      /\ \A p \in Ops : p # o /\ current'[p] /\ seen[p] # NoOne /\ seen[p][1] = j =>
           status'[j] = status[j] /\ at'[j] = at[j]
  <2>1. CASE MayMove(o)
    <3>1. /\ pc' = [pc EXCEPT ![o] = "done"] /\ Outdate(j)
          /\ status' = [status EXCEPT ![j] = "active"] /\ at' = [at EXCEPT ![j] = reserved[o]]
          /\ owner' = [owner EXCEPT ![j] = NoOne] /\ pc[o] \in {"check", "move"}
          /\ kind[o] = "reschedule"
          /\ slot' = slot /\ UNCHANGED <<kind, job, cand, seen, reserved, fresh>>
      BY <1>0, <2>1 DEF Move, jobs, plan, look, Goto, Lease, Unlease, SetStatus, Begin
    <3>2. \A i \in Jobs : i # j => status'[i] = status[i] /\ at'[i] = at[i] /\ owner'[i] = owner[i]
      BY <1>0, <3>1 DEF TypeOK
    <3>3. \A p \in Ops : p # o => SameOp(p)
      <4>1. \A p \in Ops : current'[p] => current[p]
        BY <1>0, <3>1, Outdated
      <4>2. \A p \in Ops : p # o => pc'[p] = pc[p] /\ kind'[p] = kind[p] /\ job'[p] = job[p]
        BY <1>0, <3>1 DEF TypeOK
      <4> QED
        BY <3>1, <4>1, <4>2 DEF SameOp
    <3>4. \A p \in Ops : p # o /\ current'[p] /\ seen[p] # NoOne /\ seen[p][1] = j =>
            status'[j] = status[j] /\ at'[j] = at[j]
      BY <1>0, <3>1, Outdated
    <3>5. /\ job'[o] = job[o] /\ pc[o] \in {"check", "move"} /\ kind[o] = "reschedule"
         /\ \/ /\ MayMove(o) /\ status'[j] = "active" /\ at'[j] = reserved[o] /\ owner'[j] = NoOne
               /\ pc'[o] = "done" /\ kind'[o] = kind[o]
            \/ /\ status'[j] = status[j] /\ at'[j] = at[j] /\ owner'[j] = owner[j]
               /\ kind'[o] = "moved"
               /\ (pc'[o] = "free" /\ reserved[o] # 0) \/ pc'[o] = "done"
      BY <1>0, <2>1, <3>1 DEF TypeOK
    <3> QED
      BY <3>1, <3>2, <3>3, <3>4, <3>5
  <2>2. CASE ~MayMove(o)
    <3>1. /\ kind' = [kind EXCEPT ![o] = "moved"] /\ pc[o] \in {"check", "move"} /\ kind[o] = "reschedule"
          /\ \/ pc' = [pc EXCEPT ![o] = "free"] /\ reserved[o] # 0
             \/ pc' = [pc EXCEPT ![o] = "done"]
          /\ slot' = slot
          /\ UNCHANGED <<status, current, at, owner, job, cand, seen, reserved, fresh>>
      BY <1>0, <2>2 DEF Move, jobs, plan, look, Goto, Lease, Unlease, SetStatus, Begin
    <3>2. \A i \in Jobs : i # j => status'[i] = status[i] /\ at'[i] = at[i] /\ owner'[i] = owner[i]
      BY <1>0, <3>1 DEF TypeOK
    <3>3. \A p \in Ops : p # o => SameOp(p)
      <4>1. \A p \in Ops : current'[p] => current[p]
        BY <1>0, <3>1, Outdated
      <4>2. \A p \in Ops : p # o => pc'[p] = pc[p] /\ kind'[p] = kind[p] /\ job'[p] = job[p]
        BY <1>0, <3>1 DEF TypeOK
      <4> QED
        BY <3>1, <4>1, <4>2 DEF SameOp
    <3>4. \A p \in Ops : p # o /\ current'[p] /\ seen[p] # NoOne /\ seen[p][1] = j =>
            status'[j] = status[j] /\ at'[j] = at[j]
      BY <1>0, <3>1, Outdated
    <3>5. /\ job'[o] = job[o] /\ pc[o] \in {"check", "move"} /\ kind[o] = "reschedule"
         /\ \/ /\ MayMove(o) /\ status'[j] = "active" /\ at'[j] = reserved[o] /\ owner'[j] = NoOne
               /\ pc'[o] = "done" /\ kind'[o] = kind[o]
            \/ /\ status'[j] = status[j] /\ at'[j] = at[j] /\ owner'[j] = owner[j]
               /\ kind'[o] = "moved"
               /\ (pc'[o] = "free" /\ reserved[o] # 0) \/ pc'[o] = "done"
      BY <1>0, <2>2, <3>1 DEF TypeOK
    <3> QED
      BY <3>1, <3>2, <3>3, <3>4, <3>5
  <2> QED
    BY <2>1, <2>2 DEF Move
<1>2. Writes(o, j)
  BY <1>1 DEF Writes
<1>3. Steady(o)'
  BY <1>0, <1>1 DEF Steady, MayMove, Choosing, Freeing, Active
<1>4. Keeps(o, j)
  BY <1>0, <1>1, <1>3 DEF Keeps, Steady, Choosing
<1> QED
  BY <1>1, <1>2, <1>4

LEMMA StopGoes ==
  ASSUME SteadyInv, NEW o \in Ops, Stop(o)
  PROVE  /\ Writes(o, job[o]) /\ UNCHANGED reserved /\ Keeps(o, job[o])
         /\ job'[o] = job[o] /\ pc[o] = "move" /\ kind[o] = "reschedule"
         /\ status'[job[o]] = status[job[o]] /\ at'[job[o]] = at[job[o]]
         /\ owner'[job[o]] = owner[job[o]] /\ kind'[o] = "stopping"
         /\ (pc'[o] = "free" /\ reserved[o] # 0) \/ pc'[o] = "unfence"
<1> USE Typed, NoOneIsNobody, SlotNumbers DEF SteadyInv, Ledger
<1> DEFINE j == job[o]
<1>0. Steady(o) /\ TypeOK /\ j \in Jobs
  BY DEF Stop, Steady
<1>1. /\ job'[o] = job[o] /\ pc[o] = "move" /\ kind[o] = "reschedule"
      /\ status'[j] = status[j] /\ at'[j] = at[j] /\ owner'[j] = owner[j] /\ kind'[o] = "stopping"
      /\ (pc'[o] = "free" /\ reserved[o] # 0) \/ pc'[o] = "unfence"
      /\ \A i \in Jobs : i # j => status'[i] = status[i] /\ at'[i] = at[i] /\ owner'[i] = owner[i]
      /\ slot' = slot /\ UNCHANGED reserved
      /\ \A p \in Ops : p # o => SameOp(p)
      /\ \A p \in Ops : p # o /\ current'[p] /\ seen[p] # NoOne /\ seen[p][1] = j =>
           status'[j] = status[j] /\ at'[j] = at[j]
  BY <1>0 DEF Stop, jobs, plan, look, Goto, Outdate, Lease, Unlease, SetStatus, Begin, Try,
     SameOp, TypeOK
<1>2. Writes(o, j)
  BY <1>1 DEF Writes
<1>3. Steady(o)'
  BY <1>0, <1>1 DEF Steady, MayMove, Choosing, Freeing, Active
<1>4. Keeps(o, j)
  BY <1>0, <1>1, <1>3 DEF Keeps, Steady, Choosing
<1> QED
  BY <1>1, <1>2, <1>4

(* A step of operation o that leaves the reservations alone.                *)
LEMMA LedgerKept ==
  ASSUME SteadyInv, NEW o \in Ops, NEW j \in Jobs, Writes(o, j), Keeps(o, j)
  PROVE  Ledger'
<1>0. /\ slot' = slot /\ (\A p \in Ops : p # o => SameOp(p)) /\ Steady(o)'
      /\ \A i \in Jobs : status[i] # "absent" => status'[i] # "absent"
      /\ pc[o] \notin Choosing \cup {"idle"} =>
           pc'[o] \notin Choosing \cup {"idle"} /\ job'[o] = job[o] /\ reserved'[o] = reserved[o]
  BY DEF Writes, Keeps
<1> USE <1>0
<1> USE Typed, NoOneIsNobody, SlotNumbers DEF SteadyInv, Ledger
<1>1. ASSUME NEW p \in Ops, p # o PROVE Steady(p)'
  <2>1. SameOp(p) /\ Steady(p)
    BY <1>1
  <2>2. job[p] \in Jobs => (status[job[p]] # "absent" => status'[job[p]] # "absent")
    OBVIOUS
  <2> QED
    BY <2>1, <2>2 DEF SameOp, Steady
<1>2. ASSUME NEW k \in 1 .. Slots PROVE TokenInv(k)'
  BY DEF SameOp, TokenInv
<1> QED
  BY <1>1, <1>2

(* A step of operation o that writes slot k.                                *)
LEMMA LedgerWritten ==
  ASSUME SteadyInv, NEW o \in Ops, NEW k \in 1 .. Slots, NEW v, WriteSlot(k, v),
         status' = status, UNCHANGED <<kind, job, cand, seen>>,
         v = NoOne \/ (v = <<job[o], o>> /\ job[o] \in Jobs /\ reserved'[o] = k),
         \A p \in Ops : p # o => pc'[p] = pc[p] /\ reserved'[p] = reserved[p],
         pc[o] \notin Choosing \cup {"idle"} => reserved'[o] = reserved[o],
         pc'[o] \notin Choosing \cup {"idle"}, Steady(o)'
  PROVE  Ledger'
<1> USE Typed, NoOneIsNobody, SlotNumbers DEF SteadyInv, Ledger
<1>1. /\ slot'[k] = v /\ \A m \in 1 .. Slots : m # k => slot'[m] = slot[m]
      /\ \A p \in Ops : fresh'[p] <=> (fresh[p] /\ cand[p] # k)
  BY DEF WriteSlot, TypeOK
<1>2. \A p \in Ops : p # o /\ job[p] \in Jobs => v # <<job[p], p>>
  <2>1. \A p \in Ops : <<job[p], p>>[2] = p
    OBVIOUS
  <2> QED
    BY <2>1
<1>3. ASSUME NEW p \in Ops, p # o PROVE Steady(p)'
  <2>1. Steady(p) /\ pc'[p] = pc[p] /\ reserved'[p] = reserved[p] /\ reserved[p] \in 0 .. Slots
    BY <1>3
  <2>2. ASSUME pc[p] = "done", reserved[p] # 0, slot'[reserved[p]] = <<job[p], p>>
        PROVE  status[job[p]] # "absent"
    <3>1. reserved[p] \in 1 .. Slots /\ job[p] \in Jobs
      BY <2>1, <2>2 DEF Steady
    <3>2. reserved[p] # k
      BY <1>1, <1>2, <1>3, <2>2, <3>1
    <3> QED
      BY <1>1, <2>1, <2>2, <3>1, <3>2 DEF Steady
  <2>3. ASSUME pc[p] \in {"keep", "vacate"}
        PROVE  cand[p] = reserved[p] /\ (fresh'[p] <=> slot'[reserved[p]] = <<job[p], p>>)
    <3>1. /\ reserved[p] \in 1 .. Slots /\ job[p] \in Jobs /\ cand[p] = reserved[p]
          /\ fresh[p] <=> slot[reserved[p]] = <<job[p], p>>
      BY <2>1, <2>3 DEF Steady, Freeing
    <3>2. CASE reserved[p] = k
      BY <1>1, <1>2, <1>3, <3>1, <3>2
    <3>3. CASE reserved[p] # k
      BY <1>1, <3>1, <3>3
    <3> QED
      BY <3>1, <3>2, <3>3
  <2> QED
    BY <2>1, <2>2, <2>3 DEF Steady
<1>4. ASSUME NEW m \in 1 .. Slots PROVE TokenInv(m)'
  <2>1. v = <<job[o], o>> => v[1] = job[o] /\ v[2] = o
    OBVIOUS
  <2> QED
    BY <1>1, <2>1 DEF TokenInv
<1> QED
  BY <1>3, <1>4

\* An operation that chooses a slot goes on choosing, or ends without one.
LEMMA ChoosingGoes ==
  ASSUME SteadyInv, NEW o \in Ops, pc[o] \in Choosing,
         UNCHANGED <<status, slot, kind, job, reserved, seen, fresh>>, cand'[o] # 0,
         pc'[o] \in {"slot", "unfence", "done", "revoke", "take"},
         pc'[o] = "unfence" => kind[o] = "reschedule", pc'[o] = "revoke" => pc[o] = "holder"
  PROVE  Keeps(o, job[o])
<1>1. Steady(o) /\ reserved[o] = 0
  BY DEF SteadyInv, Ledger, Steady
<1> QED
  BY <1>1 DEF Keeps, Steady, Choosing, Freeing

LEMMA AgainKeeps ==
  ASSUME SteadyInv, NEW o \in Ops, pc[o] \in Choosing, Again(o),
         UNCHANGED <<status, at, owner, slot, kind, job, reserved, seen, fresh, current>>
  PROVE  Writes(o, job[o]) /\ Keeps(o, job[o])
<1>0. TypeOK /\ cand[o] # 0
  BY DEF SteadyInv, Ledger, Steady
<1>1. Forward(o)
  BY <1>0, AgainGoes
<1>2. /\ pc'[o] = "slot" \/ (pc'[o] = "unfence" /\ kind[o] = "reschedule") \/ pc'[o] = "done"
      /\ cand'[o] # 0 /\ \A p \in Ops : p # o => pc'[p] = pc[p] /\ cand'[p] = cand[p]
  BY <1>0, <1>1, ForwardGoes
<1>3. Writes(o, job[o])
  BY <1>2 DEF Writes, SameOp
<1> QED
  BY <1>2, <1>3, ChoosingGoes

LEMMA ReadHolderKeeps ==
  ASSUME SteadyInv, NEW o \in Ops, ReadHolder(o)
  PROVE  Writes(o, job[o]) /\ Keeps(o, job[o])
<1>0. TypeOK /\ pc[o] = "holder" /\ cand[o] # 0
  BY DEF ReadHolder, SteadyInv, Ledger, Steady, Choosing
<1>1. /\ UNCHANGED <<status, at, owner, slot, kind, job, reserved, seen, fresh>>
      /\ \A p \in Ops : p # o => current'[p] = current[p]
  BY <1>0 DEF ReadHolder, TypeOK, jobs, plan
<1>2. Forward(o) \/ ((Goto(o, "revoke") \/ Goto(o, "take")) /\ UNCHANGED cand)
  BY <1>0, FollowingGoes DEF ReadHolder
<1>3. /\ pc'[o] \in {"slot", "unfence", "done", "revoke", "take"}
      /\ pc'[o] = "unfence" => kind[o] = "reschedule"
      /\ cand'[o] # 0 /\ \A p \in Ops : p # o => pc'[p] = pc[p] /\ cand'[p] = cand[p]
  BY <1>0, <1>2 DEF Forward, Goto, TypeOK
<1>4. Writes(o, job[o])
  BY <1>1, <1>3 DEF Writes, SameOp
<1> QED
  BY <1>0, <1>1, <1>3, <1>4, ChoosingGoes DEF Choosing

LEMMA RevokeKeeps ==
  ASSUME SteadyInv, NEW o \in Ops, Revoke(o)
  PROVE  \E j \in Jobs : Writes(o, j) /\ Keeps(o, j)
<1>0. /\ TypeOK /\ Steady(o) /\ pc[o] = "revoke" /\ cand[o] # 0 /\ job[o] \in Jobs
      /\ seen[o][1] \in Jobs
  BY Typed DEF Revoke, SteadyInv, Ledger, Steady, Choosing
<1>1. CASE current[o]
  <2>1. /\ UNCHANGED <<status, at, slot, kind, job, reserved, seen, fresh, cand>>
        /\ \A i \in Jobs : i # seen[o][1] => owner'[i] = owner[i]
        /\ pc'[o] = "take" /\ \A p \in Ops : p # o => SameOp(p)
    BY <1>0, <1>1 DEF Revoke, Goto, Outdate, TypeOK, plan, SameOp
  <2>2. Writes(o, seen[o][1])
    BY <2>1 DEF Writes
  <2>3. Keeps(o, job[o])
    BY <1>0, <2>1, ChoosingGoes DEF Choosing
  <2>4. Keeps(o, seen[o][1])
    BY <2>1, <2>3 DEF Keeps
  <2> QED
    BY <1>0, <2>2, <2>4
<1>2. CASE ~current[o]
  BY <1>0, <1>2, AgainKeeps DEF Revoke, Choosing, plan
<1> QED
  BY <1>1, <1>2

LEMMA TakeKeeps == ASSUME SteadyInv, NEW o \in Ops, Take(o) PROVE Ledger'
<1>0. TypeOK /\ Steady(o) /\ pc[o] = "take" /\ cand[o] \in 1 .. Slots /\ cand[o] # 0 /\ job[o] \in Jobs
  BY Typed, SlotNumbers DEF Take, SteadyInv, Ledger, Steady, Choosing
<1>1. CASE TakeWins(o)
  <2>1. /\ WriteSlot(cand[o], <<job[o], o>>) /\ UNCHANGED <<status, kind, job, cand, seen>>
        /\ pc'[o] = "check" /\ reserved'[o] = cand[o]
        /\ \A p \in Ops : p # o => pc'[p] = pc[p] /\ reserved'[p] = reserved[p]
    BY <1>0, <1>1 DEF Take, Goto, TypeOK, jobs, plan
  <2>2. Steady(o)'
    BY <1>0, <2>1 DEF Steady, Choosing, Freeing
  <2> QED
    BY <1>0, <2>1, <2>2, LedgerWritten DEF Choosing
<1>2. CASE ~TakeWins(o)
  BY <1>0, <1>2, AgainKeeps, LedgerKept DEF Take, Choosing, jobs, plan
<1> QED
  BY <1>1, <1>2

LEMMA VacateKeeps == ASSUME SteadyInv, NEW o \in Ops, Vacate(o) PROVE Ledger'
<1>0. /\ TypeOK /\ Steady(o) /\ pc[o] = "vacate" /\ reserved[o] \in 1 .. Slots /\ job[o] \in Jobs
      /\ (fresh[o] <=> slot[reserved[o]] = <<job[o], o>>)
  BY Typed, SlotNumbers DEF Vacate, SteadyInv, Ledger, Steady, Freeing
<1>1. /\ UNCHANGED <<status, at, owner, kind, job, reserved, cand, seen, current>>
      /\ pc'[o] = "done" \/ (pc'[o] = "unfence" /\ kind[o] \in {"reschedule", "stopping"})
      /\ \A p \in Ops : p # o => pc'[p] = pc[p]
  BY <1>0 DEF Vacate, Freed, Goto, TypeOK, jobs, plan, look
<1>2. CASE fresh[o]
  <2>1. WriteSlot(reserved[o], NoOne) /\ slot'[reserved[o]] # <<job[o], o>>
    BY <1>0, <1>2, NoOneIsNobody DEF Vacate, WriteSlot, TypeOK
  <2>2. Steady(o)'
    BY <1>0, <1>1, <2>1 DEF Steady, Choosing, Freeing
  <2> QED
    BY <1>0, <1>1, <2>1, <2>2, LedgerWritten DEF Choosing
<1>3. CASE ~fresh[o]
  <2>1. UNCHANGED <<slot, fresh>>
    BY <1>3 DEF Vacate
  <2>2. Steady(o)'
    BY <1>0, <1>1, <1>3, <2>1 DEF Steady, Choosing, Freeing
  <2>3. Keeps(o, job[o]) /\ Writes(o, job[o])
    BY <1>0, <1>1, <2>1, <2>2 DEF Keeps, Writes, SameOp, Choosing
  <2> QED
    BY <1>0, <2>3, LedgerKept
<1> QED
  BY <1>2, <1>3

LEMMA LedgerStep == ASSUME SteadyInv, Next PROVE Ledger'
<1>1. ASSUME NEW o \in Ops, Step(o) PROVE Ledger'
  <2>0. pc[o] # "idle" => job[o] \in Jobs
    BY DEF SteadyInv, Ledger, Steady
  <2>1. CASE ReadSlot(o) \/ ReadOwn(o) \/ ReadOwnJob(o) \/ PreflightFails(o) \/ Crash(o)
    <3>1. pc[o] # "idle"
      BY <2>1 DEF ReadSlot, ReadOwn, ReadOwnJob, PreflightFails, Crash
    <3>2. /\ UNCHANGED <<status, at, owner, slot>> /\ Keeps(o, job[o])
          /\ \A p \in Ops : p # o => SameOp(p)
      BY <2>1, ReadSlotGoes, ReadOwnGoes, ReadOwnJobGoes, PreflightFailsGoes, CrashGoes
    <3>3. Writes(o, job[o])
      BY <3>2 DEF Writes
    <3> QED
      BY <2>0, <3>1, <3>2, <3>3, LedgerKept
  <2>2. CASE ReadHolder(o)
    BY <2>0, <2>2, ReadHolderKeeps, LedgerKept DEF ReadHolder
  <2>3. CASE Revoke(o)
    BY <2>3, RevokeKeeps, LedgerKept
  <2>4. CASE Create(o) \/ Renew(o) \/ Move(o) \/ Stop(o)
    BY <2>0, <2>4, CreateGoes, RenewGoes, MoveGoes, StopGoes, LedgerKept DEF Create, Renew, Move, Stop
  <2>5. CASE Unfence(o) \/ CancelMoved(o) \/ CancelFinal(o) \/ Release(o)
    BY <2>0, <2>5, UnfenceGoes, CancelMovedGoes, CancelFinalGoes, ReleaseGoes, LedgerKept
    DEF Unfence, CancelMoved, CancelFinal, Release
  <2> QED
    BY <1>1, <2>1, <2>2, <2>3, <2>4, <2>5, TakeKeeps, VacateKeeps DEF Step
<1>2. ASSUME NEW o \in Ops, NEW j \in Jobs, Start(o, j) PROVE Ledger'
  BY <1>2, ScheduleGoes, ScheduleFixedGoes, RescheduleGoes, CancelGoes, RunGoes, LedgerKept DEF Start
<1>3. ASSUME NEW j \in Jobs, LeaseExpires(j) PROVE Ledger'
  BY <1>3 DEF LeaseExpires, SteadyInv, Ledger, Steady, TokenInv, plan, look
<1> QED
  BY <1>1, <1>2, <1>3 DEF Next

-----------------------------------------------------------------------------
(* Types.                                                                  *)

Labels == {"idle", "slot", "holder", "revoke", "take", "check", "move", "free", "keep", "vacate", "unfence",
           "stop", "withdraw", "run", "done", "dead"}
Operations == {"none", "schedule", "reschedule", "moved", "stopping", "cancel", "run"}
States == Active \cup {"absent", "cancelled", "completed"}

JobsTyped ==
  /\ status \in [Jobs -> States] /\ at \in [Jobs -> 0 .. Slots]
  /\ owner \in [Jobs -> Ops \cup {NoOne}] /\ live \in [Jobs -> BOOLEAN]
  /\ \A j \in Jobs : live[j] => owner[j] # NoOne

PlanTyped == pc \in [Ops -> Labels] /\ kind \in [Ops -> Operations] /\ job \in [Ops -> Jobs \cup {NoOne}]

LookTyped ==
  /\ skip \in [Ops -> 0 .. Slots] /\ cand \in [Ops -> 0 .. Slots]
  /\ tries \in [Ops -> 0 .. Attempts]
  /\ seen \in [Ops -> Reservations \cup {NoOne}]
  /\ reserved \in [Ops -> 0 .. Slots]
  /\ fresh \in [Ops -> BOOLEAN] /\ current \in [Ops -> BOOLEAN]

SlotTyped == slot \in [1 .. Slots -> Reservations \cup {NoOne}]

LEMMA TypeParts == TypeOK <=> JobsTyped /\ PlanTyped /\ LookTyped /\ SlotTyped
  BY DEF TypeOK, JobsTyped, PlanTyped, LookTyped, SlotTyped, Labels, Operations, States

LEMMA JobsTypedStep == ASSUME SteadyInv, Next PROVE JobsTyped'
<1> USE DEF SteadyInv, Ledger
<1>t. JobsTyped /\ LookTyped /\ PlanTyped
  BY TypeParts
<1> USE <1>t, NoOneIsNobody DEF JobsTyped, States, Active
<1>a. \A o \in Ops : reserved[o] \in 0 .. Slots /\ (pc[o] # "idle" => job[o] \in Jobs)
  BY DEF LookTyped, Steady
<1>b. Slots \in Nat /\ 0 \in 0 .. Slots
  BY QueueSlotsAssumption
<1>1. ASSUME NEW o \in Ops,
             \/ ReadSlot(o) \/ ReadHolder(o) \/ Take(o) \/ ReadOwn(o) \/ ReadOwnJob(o)
             \/ Vacate(o) \/ PreflightFails(o) \/ Stop(o) \/ Crash(o)
     PROVE  JobsTyped'
  <2>1. UNCHANGED jobs
    BY <1>1 DEF ReadSlot, ReadHolder, Take, ReadOwn, ReadOwnJob, Vacate, PreflightFails, Stop, Crash
  <2> QED
    BY <2>1 DEF jobs
<1>2. ASSUME NEW o \in Ops, Revoke(o) PROVE JobsTyped'
  <2>1. pc[o] = "revoke" => seen[o][1] \in Jobs
    BY <1>2, Typed DEF Steady
  <2> QED
    BY <1>2, <2>1 DEF Revoke, jobs
<1>3. ASSUME NEW o \in Ops, Create(o) PROVE JobsTyped'
  BY <1>a, <1>b, <1>3 DEF Create, Lease, Unlease, SetStatus, jobs
<1>4. ASSUME NEW o \in Ops, Renew(o) PROVE JobsTyped'
  BY <1>a, <1>b, <1>4 DEF Renew, Lease, Unlease, SetStatus, jobs
<1>5. ASSUME NEW o \in Ops, Move(o) PROVE JobsTyped'
  BY <1>a, <1>b, <1>5 DEF Move, Lease, Unlease, SetStatus, jobs
<1>6. ASSUME NEW o \in Ops, Unfence(o) PROVE JobsTyped'
  BY <1>a, <1>b, <1>6 DEF Unfence, Lease, Unlease, SetStatus, jobs
<1>7. ASSUME NEW o \in Ops, CancelMoved(o) PROVE JobsTyped'
  BY <1>a, <1>b, <1>7 DEF CancelMoved, Lease, Unlease, SetStatus, jobs
<1>8. ASSUME NEW o \in Ops, CancelFinal(o) PROVE JobsTyped'
  BY <1>a, <1>b, <1>8 DEF CancelFinal, Lease, Unlease, SetStatus, jobs
<1>9. ASSUME NEW o \in Ops, Release(o) PROVE JobsTyped'
  BY <1>a, <1>b, <1>9 DEF Release, Releases, Lease, Unlease, SetStatus, jobs
<1>10. ASSUME NEW o \in Ops, NEW j \in Jobs, Schedule(o, j) PROVE JobsTyped'
  BY <1>b, <1>10 DEF Schedule, Lease, SetStatus, jobs
<1>11. ASSUME NEW o \in Ops, NEW j \in Jobs, ScheduleFixed(o, j) PROVE JobsTyped'
  BY <1>b, <1>11 DEF ScheduleFixed, Lease, SetStatus, jobs
<1>12. ASSUME NEW o \in Ops, NEW j \in Jobs, Reschedule(o, j) PROVE JobsTyped'
  BY <1>b, <1>12 DEF Reschedule, Lease, SetStatus, jobs
<1>13. ASSUME NEW o \in Ops, NEW j \in Jobs, Cancel(o, j) PROVE JobsTyped'
  BY <1>b, <1>13 DEF Cancel, Lease, SetStatus, jobs
<1>14. ASSUME NEW o \in Ops, NEW j \in Jobs, Run(o, j) PROVE JobsTyped'
  BY <1>b, <1>14 DEF Run, Lease, SetStatus, jobs
<1>15. ASSUME NEW j \in Jobs, LeaseExpires(j) PROVE JobsTyped'
  BY <1>15 DEF LeaseExpires
<1> QED
  BY <1>1, <1>2, <1>3, <1>4, <1>5, <1>6, <1>7, <1>8, <1>9, <1>10, <1>11, <1>12, <1>13, <1>14,
     <1>15 DEF Next, Step, Start

LEMMA PlanTypedStep == ASSUME SteadyInv, Next PROVE PlanTyped'
<1> USE DEF SteadyInv, Ledger
<1>t. PlanTyped /\ TypeOK
  BY TypeParts
<1>c. \A o \in Ops : pc[o] \in Choosing => cand[o] # 0
  BY DEF Steady
<1> USE <1>t DEF PlanTyped, Labels, Operations, plan, Goto
<1>1. ASSUME NEW o \in Ops, ReadSlot(o) PROVE PlanTyped'
  BY <1>1 DEF ReadSlot
<1>2. ASSUME NEW o \in Ops, ReadHolder(o) PROVE PlanTyped'
  BY <1>2, FollowingGoes, <1>c DEF ReadHolder, Forward, Choosing
<1>3. ASSUME NEW o \in Ops, Revoke(o) PROVE PlanTyped'
  BY <1>3, AgainGoes, <1>c DEF Revoke, Forward, Choosing
<1>4. ASSUME NEW o \in Ops, Take(o) PROVE PlanTyped'
  BY <1>4, AgainGoes, <1>c DEF Take, Forward, Choosing
<1>5. ASSUME NEW o \in Ops, ReadOwn(o) PROVE PlanTyped'
  BY <1>5 DEF ReadOwn, Freed
<1>6. ASSUME NEW o \in Ops, ReadOwnJob(o) PROVE PlanTyped'
  BY <1>6 DEF ReadOwnJob, Freed
<1>7. ASSUME NEW o \in Ops, Vacate(o) PROVE PlanTyped'
  BY <1>7 DEF Vacate, Freed
<1>8. ASSUME NEW o \in Ops, PreflightFails(o) PROVE PlanTyped'
  BY <1>8, GiveUpGoes DEF PreflightFails, Back
<1>9. ASSUME NEW o \in Ops, Create(o) PROVE PlanTyped'
  BY <1>9, GiveUpGoes DEF Create, Back
<1>10. ASSUME NEW o \in Ops, Renew(o) PROVE PlanTyped'
  BY <1>10, GiveUpGoes DEF Renew, Back
<1>11. ASSUME NEW o \in Ops, Move(o) PROVE PlanTyped'
  BY <1>11 DEF Move
<1>12. ASSUME NEW o \in Ops, Stop(o) PROVE PlanTyped'
  BY <1>12 DEF Stop
<1>13. ASSUME NEW o \in Ops, Unfence(o) PROVE PlanTyped'
  BY <1>13 DEF Unfence
<1>14. ASSUME NEW o \in Ops, CancelMoved(o) PROVE PlanTyped'
  BY <1>14 DEF CancelMoved
<1>15. ASSUME NEW o \in Ops, CancelFinal(o) PROVE PlanTyped'
  BY <1>15 DEF CancelFinal
<1>16. ASSUME NEW o \in Ops, Release(o) PROVE PlanTyped'
  BY <1>16 DEF Release
<1>17. ASSUME NEW o \in Ops, Crash(o) PROVE PlanTyped'
  BY <1>17 DEF Crash
<1>18. ASSUME NEW o \in Ops, NEW j \in Jobs, Schedule(o, j) PROVE PlanTyped'
  BY <1>18 DEF Schedule, Try, Begin
<1>19. ASSUME NEW o \in Ops, NEW j \in Jobs, ScheduleFixed(o, j) PROVE PlanTyped'
  BY <1>19 DEF ScheduleFixed, Begin
<1>20. ASSUME NEW o \in Ops, NEW j \in Jobs, Reschedule(o, j) PROVE PlanTyped'
  BY <1>20 DEF Reschedule, NoSlot, Try, Begin
<1>21. ASSUME NEW o \in Ops, NEW j \in Jobs, Cancel(o, j) PROVE PlanTyped'
  BY <1>21 DEF Cancel, Begin
<1>22. ASSUME NEW o \in Ops, NEW j \in Jobs, Run(o, j) PROVE PlanTyped'
  BY <1>22 DEF Run, Begin
<1>23. ASSUME NEW j \in Jobs, LeaseExpires(j) PROVE PlanTyped'
  BY <1>23 DEF LeaseExpires
<1> QED
  BY <1>1, <1>2, <1>3, <1>4, <1>5, <1>6, <1>7, <1>8, <1>9, <1>10, <1>11, <1>12, <1>13, <1>14,
     <1>15, <1>16, <1>17, <1>18, <1>19, <1>20, <1>21, <1>22, <1>23 DEF Next, Step, Start

LEMMA LookTypedStep == ASSUME SteadyInv, Next PROVE LookTyped'
<1> USE DEF SteadyInv, Ledger
<1>t. LookTyped /\ SlotTyped /\ JobsTyped /\ TypeOK
  BY TypeParts
<1>c. \A o \in Ops : pc[o] \in Choosing => cand[o] # 0
  BY DEF Steady
<1>b. /\ Slots \in Nat /\ Attempts \in Nat /\ Attempts \in 0 .. Attempts
      /\ \A k \in 1 .. Slots : k \in 0 .. Slots
      /\ \A n \in 1 .. Attempts : n - 1 \in 0 .. Attempts
  BY QueueSlotsAssumption
<1> USE <1>t, <1>b DEF LookTyped, look, Outdate
<1>1. ASSUME NEW o \in Ops, ReadOwnJob(o) \/ PreflightFails(o) \/ Stop(o) \/ Crash(o)
     PROVE  LookTyped'
  <2>1. UNCHANGED <<look, reserved, fresh, current>>
    BY <1>1 DEF ReadOwnJob, PreflightFails, Stop, Crash
  <2> QED
    BY <2>1
<1>2. ASSUME NEW o \in Ops, ReadSlot(o) PROVE LookTyped'
  <2>1. cand[o] \in 1 .. Slots /\ tries[o] - 1 \in 0 .. Attempts
    BY <1>c, <1>2 DEF ReadSlot, Choosing
  <2>2. slot[cand[o]] \in Reservations \cup {NoOne}
    BY <2>1 DEF SlotTyped
  <2> QED
    BY <1>2, <2>1, <2>2 DEF ReadSlot
<1>3. ASSUME NEW o \in Ops, ReadHolder(o) PROVE LookTyped'
  BY <1>3, FollowingGoes, <1>c DEF ReadHolder, Forward, Choosing, Lease, Unlease, SetStatus
<1>4. ASSUME NEW o \in Ops, Revoke(o) PROVE LookTyped'
  <2>1. CASE current[o]
    BY <1>4, <2>1, <1>c DEF Revoke, Forward, Choosing, Lease, Unlease, SetStatus
  <2>2. CASE ~current[o]
    <3>1. Forward(o) /\ UNCHANGED <<skip, seen, reserved, fresh, current>>
      BY <1>4, <2>2, <1>c, AgainGoes DEF Revoke, Choosing
    <3> QED
      BY <3>1 DEF Forward
  <2> QED
    BY <2>1, <2>2
<1>5. ASSUME NEW o \in Ops, Take(o) PROVE LookTyped'
  <2>1. CASE TakeWins(o)
    <3>1. /\ reserved' = [reserved EXCEPT ![o] = cand[o]]
          /\ fresh' = [q \in Ops |-> fresh[q] /\ cand[q] # cand[o]]
          /\ UNCHANGED <<skip, cand, tries, seen, current>>
      BY <1>5, <2>1 DEF Take, WriteSlot
    <3> QED
      BY <3>1
  <2>2. CASE ~TakeWins(o)
    <3>1. Forward(o) /\ UNCHANGED <<skip, seen, reserved, fresh, current>>
      BY <1>5, <2>2, <1>c, AgainGoes DEF Take, Choosing
    <3> QED
      BY <3>1 DEF Forward
  <2> QED
    BY <2>1, <2>2
<1>6. ASSUME NEW o \in Ops, ReadOwn(o) PROVE LookTyped'
  <2>1. reserved[o] \in 1 .. Slots
    BY <1>6 DEF Steady, Freeing, ReadOwn
  <2>2. slot[reserved[o]] \in Reservations \cup {NoOne}
    BY <2>1 DEF SlotTyped
  <2> QED
    BY <1>6, <2>2 DEF ReadOwn, Freed
<1>7. ASSUME NEW o \in Ops, Vacate(o) PROVE LookTyped'
  BY <1>7 DEF Vacate, Freed, WriteSlot, Lease, Unlease, SetStatus
<1>8. ASSUME NEW o \in Ops, Create(o) PROVE LookTyped'
  BY <1>8 DEF Create, Lease, Unlease, SetStatus
<1>9. ASSUME NEW o \in Ops, Renew(o) PROVE LookTyped'
  BY <1>9 DEF Renew, Lease, Unlease, SetStatus
<1>10. ASSUME NEW o \in Ops, Move(o) PROVE LookTyped'
  BY <1>10 DEF Move, Lease, Unlease, SetStatus
<1>11. ASSUME NEW o \in Ops, Unfence(o) PROVE LookTyped'
  BY <1>11 DEF Unfence, Lease, Unlease, SetStatus
<1>12. ASSUME NEW o \in Ops, CancelMoved(o) PROVE LookTyped'
  BY <1>12 DEF CancelMoved, Lease, Unlease, SetStatus
<1>13. ASSUME NEW o \in Ops, CancelFinal(o) PROVE LookTyped'
  BY <1>13 DEF CancelFinal, Lease, Unlease, SetStatus
<1>14. ASSUME NEW o \in Ops, Release(o) PROVE LookTyped'
  BY <1>14 DEF Release, Lease, Unlease, SetStatus
<1>15. ASSUME NEW o \in Ops, NEW j \in Jobs, Schedule(o, j) PROVE LookTyped'
  BY <1>15 DEF Schedule, Try, SetStatus
<1>16. ASSUME NEW o \in Ops, NEW j \in Jobs, ScheduleFixed(o, j) PROVE LookTyped'
  BY <1>16 DEF ScheduleFixed, SetStatus
<1>17. ASSUME NEW o \in Ops, NEW j \in Jobs, Reschedule(o, j) PROVE LookTyped'
  <2>1. at[j] \in 0 .. Slots
    BY DEF JobsTyped
  <2> QED
    BY <1>17, <2>1 DEF Reschedule, NoSlot, Try
<1>18. ASSUME NEW o \in Ops, NEW j \in Jobs, Cancel(o, j) PROVE LookTyped'
  BY <1>18 DEF Cancel, SetStatus
<1>19. ASSUME NEW o \in Ops, NEW j \in Jobs, Run(o, j) PROVE LookTyped'
  BY <1>19 DEF Run, SetStatus
<1>20. ASSUME NEW j \in Jobs, LeaseExpires(j) PROVE LookTyped'
  BY <1>20 DEF LeaseExpires
<1> QED
  BY <1>1, <1>2, <1>3, <1>4, <1>5, <1>6, <1>7, <1>8, <1>9, <1>10, <1>11, <1>12, <1>13, <1>14,
     <1>15, <1>16, <1>17, <1>18, <1>19, <1>20 DEF Next, Step, Start

LEMMA SlotTypedStep == ASSUME SteadyInv, Next PROVE SlotTyped'
<1> USE DEF SteadyInv, Ledger
<1>t. SlotTyped
  BY TypeParts
<1> USE <1>t DEF SlotTyped
<1>1. ASSUME NEW o \in Ops, Take(o) PROVE SlotTyped'
  <2>1. <<job[o], o>> \in Reservations
    BY <1>1 DEF Take, Steady, Reservations
  <2> QED
    BY <1>1, <2>1 DEF Take, WriteSlot
<1>2. ASSUME NEW o \in Ops, Vacate(o) PROVE SlotTyped'
  BY <1>2 DEF Vacate, WriteSlot
<1>3. ASSUME NEW o \in Ops, Step(o), ~Take(o), ~Vacate(o) PROVE SlotTyped'
  <2>1. slot' = slot
    BY <1>3 DEF Step, ReadSlot, ReadHolder, Revoke, ReadOwn, ReadOwnJob, PreflightFails,
       Create, Renew, Move, Stop, Unfence, CancelMoved, CancelFinal, Release, Crash
  <2> QED
    BY <2>1
<1>4. ASSUME NEW o \in Ops, NEW j \in Jobs, Start(o, j) PROVE SlotTyped'
  <2>1. slot' = slot
    BY <1>4 DEF Start, Schedule, ScheduleFixed, Reschedule, Cancel, Run
  <2> QED
    BY <2>1
<1>5. ASSUME NEW j \in Jobs, LeaseExpires(j) PROVE SlotTyped'
  BY <1>5 DEF LeaseExpires
<1> QED
  BY <1>1, <1>2, <1>3, <1>4, <1>5 DEF Next

-----------------------------------------------------------------------------
(* What a step that writes a job, or a slot, does to the whole invariant.   *)

\* What the new record of the job may be.
Lawful(o, j) ==
  /\ status'[j] = "absent" => status[j] = "absent" /\ at'[j] = at[j] /\ owner'[j] = owner[j]
  /\ status'[j] \in Active => \/ status[j] \in Active /\ at'[j] = at[j]
                              \/ at'[j] = 0
                              \/ CanCommit(o) /\ job[o] = j /\ at'[j] = reserved[o]
  /\ status[j] \in Stopped =>
       /\ status'[j] \in Stopped
       /\ status'[j] = status[j] \/ (pc[o] = "withdraw" /\ job[o] = j)
  /\ owner'[j] \in {NoOne, owner[j], o}
  /\ owner'[j] = o /\ o # NoOne => job'[o] = j /\ kind'[o] \notin {"none", "schedule"}
  /\ owner'[j] # NoOne /\ kind'[owner'[j]] = "reschedule" => status'[j] \in {"active"} \cup Stopped

\* An operation that has reserved its slot keeps it.
Onward(o) ==
  /\ pc[o] \notin Choosing \cup {"idle"} =>
       pc'[o] \notin Choosing \cup {"idle"} /\ job'[o] = job[o] /\ reserved'[o] = reserved[o]
  /\ CanCommit(o)' => CanCommit(o) \/ reserved[o] = 0
  /\ kind[o] # "none" => job'[o] = job[o] /\ (kind'[o] = kind[o] \/ (kind[o] = "reschedule" /\ kind'[o] \notin {"none", "schedule", "reschedule"}))

LEMMA JobsStep ==
  ASSUME IInv, CancelsApart, NEW o \in Ops, NEW j \in Jobs, Writes(o, j), Lawful(o, j), Onward(o), Knows(o)'
  PROVE  RestInv'
<1> USE DEF IInv, RestInv
<1>t. TypeOK /\ slot' = slot
  BY DEF Writes
<1> USE Typed, NoOneIsNobody, SlotNumbers, <1>t
<1>1. \A q \in Ops : q # o /\ CanCommit(q)' => CanCommit(q)
  BY DEF Writes, SameOp, Lawful, CanCommit, MayMove, Stopped, Knows, LabelInv
<1>2. ASSUME NEW i \in Jobs, NEW k \in 1 .. Slots, Occupies(i, k)', ~Occupies(i, k)
      PROVE  CanCommit(o) /\ slot[k] = <<i, o>>
  <2>1. i = j
    BY <1>2 DEF Writes, Occupies
  <2>2. CanCommit(o) /\ job[o] = i /\ reserved[o] = k
    BY <1>2, <2>1 DEF Lawful, Occupies
  <2> QED
    BY <2>2 DEF Knows, CommitInv
<1>3. ASSUME NEW p \in Ops, p # o PROVE Knows(p)'
  <2> USE <1>3
  <2>1. SameOp(p)
    BY DEF Writes
  <2>2. LabelInv(p)'
    <3>1. job[p] \in Jobs => (status[job[p]] # "absent" => status'[job[p]] # "absent")
      BY DEF Writes, Lawful
    <3>2. pc[p] = "withdraw" => status'[job[p]] = "cancel-unresolved"
      BY <2>1 DEF Writes, Lawful, Stopped, CancelsApart, Knows, LabelInv
    <3> QED
      BY <2>1, <3>1, <3>2 DEF SameOp, Knows, LabelInv
  <2>3. CommitInv(p)'
    <3>1. job[p] \in Jobs => (status[job[p]] # "absent" => status'[job[p]] # "absent")
      BY DEF Writes, Lawful
    <3>2. CanCommit(p)' => slot'[reserved'[p]] = <<job'[p], p>>
      <4>1. CommitInv(p)
        BY DEF Knows
      <4> QED
        BY <2>1, <1>1, <4>1 DEF SameOp, CommitInv
    <3>3. pc[p] = "done" => job[p] \in Jobs
      BY DEF Knows, LabelInv
    <3> QED
      BY <2>1, <3>1, <3>2, <3>3 DEF SameOp, Knows, CommitInv
  <2>4. TakeInv(p)'
    <3>1. ASSUME fresh[p], pc[p] = "revoke", current'[p]
          PROVE  status'[seen[p][1]] # "absent" /\ ~Occupies(seen[p][1], cand[p])'
      BY <2>1, <3>1 DEF Writes, SameOp, Occupies, Knows, TakeInv, Lawful
    <3>2. ASSUME fresh[p], pc[p] = "take", seen[p] # NoOne
          PROVE  Spent(seen[p], cand[p])'
      <4>1. /\ Spent(seen[p], cand[p]) /\ slot[cand[p]] = seen[p] /\ cand[p] \in 1 .. Slots
            /\ seen[p][1] \in Jobs /\ seen[p][2] \in Ops
            /\ cand'[p] = cand[p] /\ seen'[p] = seen[p]
        BY <2>1, <3>2 DEF SameOp, Knows, TakeInv, LabelInv, Choosing
      <4>2. ~Occupies(seen[p][1], cand[p])'
        BY <1>2, <4>1 DEF Spent, Occupies
      <4>3. status'[seen[p][1]] # "absent"
        BY <4>1 DEF Writes, Lawful, Spent
      <4>4. ~CanCommit(seen[p][2])'
        <5>1. seen[p][2] = o => reserved[o] # 0
          BY <3>2, <4>1 DEF TokenInv
        <5> QED
          BY <1>1, <4>1, <5>1 DEF Spent, Onward
      <4> QED
        BY <4>1, <4>2, <4>3, <4>4 DEF Spent
    <3> QED
      BY <2>1, <3>1, <3>2 DEF SameOp, Knows, TakeInv
  <2>5. FreeInv(p)'
    <3>1. pc[p] \in {"keep", "vacate"} => reserved[p] \in 1 .. Slots /\ job[p] \in Jobs
      BY DEF Knows, LabelInv, Freeing
    <3>2. ASSUME pc[p] = "vacate", fresh[p] PROVE ~Occupies(job[p], reserved[p])'
      <4>1. /\ ~Occupies(job[p], reserved[p]) /\ slot[reserved[p]] = <<job[p], p>>
            /\ job'[p] = job[p] /\ reserved'[p] = reserved[p]
        BY <2>1, <3>2 DEF SameOp, Knows, FreeInv
      <4> QED
        BY <1>2, <3>1, <3>2, <4>1 DEF Occupies
    <3>3. FreeInv(p)
      BY DEF Knows
    <3> QED
      BY <2>1, <3>1, <3>2, <3>3 DEF SameOp, FreeInv
  <2> QED
    BY <2>2, <2>3, <2>4, <2>5 DEF Knows
<1>4. ASSUME NEW i \in Jobs PROVE LeaseInv(i)'
  BY DEF Writes, SameOp, Lawful, LeaseInv, Onward
<1>5. ASSUME NEW k \in 1 .. Slots PROVE TokenInv(k)'
  BY DEF Writes, SameOp, Onward, TokenInv
<1>6. OccupantHolds'
  <2>1. ASSUME NEW i \in Jobs, NEW k \in 1 .. Slots, Occupies(i, k)'
        PROVE  slot[k] # NoOne /\ slot[k][1] = i
    <3>1. CASE Occupies(i, k)
      BY <3>1 DEF OccupantHolds
    <3>2. CASE ~Occupies(i, k)
      <4>1. slot[k] = <<i, o>>
        BY <1>2, <2>1, <3>2
      <4> QED
        BY <4>1
    <3> QED
      BY <3>1, <3>2
  <2> QED
    BY <2>1 DEF OccupantHolds
<1> QED
  BY <1>3, <1>4, <1>5, <1>6

(* A step of operation o that writes slot k, whose reservation nobody uses.   *)
LEMMA SlotStep ==
  ASSUME IInv, NEW o \in Ops, NEW k \in 1 .. Slots, NEW v,
         WriteSlot(k, v), UNCHANGED jobs,
         v = NoOne \/ (v = <<job[o], o>> /\ job[o] \in Jobs /\ reserved'[o] = k /\ pc'[o] \notin Choosing \cup {"idle"}),
         \A p \in Ops : p # o => /\ pc'[p] = pc[p] /\ kind'[p] = kind[p] /\ job'[p] = job[p]
                                 /\ reserved'[p] = reserved[p] /\ cand'[p] = cand[p]
                                 /\ seen'[p] = seen[p] /\ (current'[p] => current[p]),
         job'[o] = job[o], kind'[o] = kind[o],
         slot[k] # NoOne => /\ ~Occupies(slot[k][1], k)
                            /\ slot[k][2] # o => ~CanCommit(slot[k][2]),
         pc[o] \notin Choosing \cup {"idle"} =>
           pc'[o] \notin Choosing \cup {"idle"} /\ reserved'[o] = reserved[o],
         CanCommit(o)' => pc[o] \in Choosing,
         Knows(o)'
  PROVE  RestInv'
<1> USE DEF IInv, RestInv
<1>t. /\ TypeOK /\ status' = status /\ at' = at /\ owner' = owner
      /\ slot'[k] = v /\ \A m \in 1 .. Slots : m # k => slot'[m] = slot[m]
      /\ \A p \in Ops : fresh'[p] <=> (fresh[p] /\ cand[p] # k)
  BY DEF WriteSlot, jobs, TypeOK
<1> USE Typed, NoOneIsNobody, SlotNumbers, <1>t
<1>0. \A p \in Ops : p # o /\ job[p] \in Jobs => v # <<job[p], p>>
  <2>1. \A p \in Ops : <<job[p], p>>[2] = p
    OBVIOUS
  <2> QED
    BY <2>1
<1>1. \A q \in Ops : q # o => (CanCommit(q)' <=> CanCommit(q))
  BY DEF CanCommit, MayMove
<1>2. ASSUME NEW p \in Ops, p # o PROVE Knows(p)'
  <2> USE <1>2
  <2>1. LabelInv(p)'
    BY DEF Knows, LabelInv
  <2>2. CommitInv(p)'
    <3>1. ASSUME CanCommit(p)' PROVE slot'[reserved[p]] = <<job[p], p>>
      <4>1. CanCommit(p) /\ slot[reserved[p]] = <<job[p], p>> /\ reserved[p] \in 1 .. Slots /\ job[p] \in Jobs
        BY <1>1, <3>1 DEF Knows, CommitInv, CanCommit, LabelInv
      <4> QED
        BY <4>1
    <3>2. ASSUME pc[p] = "done", reserved[p] # 0, slot'[reserved[p]] = <<job[p], p>>
          PROVE  status[job[p]] # "absent"
      <4>1. reserved[p] \in 1 .. Slots /\ job[p] \in Jobs
        BY <3>2 DEF Knows, LabelInv
      <4>2. CommitInv(p) /\ reserved[p] # k
        BY <1>0, <3>2, <4>1 DEF Knows
      <4> QED
        BY <3>2, <4>1, <4>2 DEF CommitInv
    <3> QED
      BY <3>1, <3>2 DEF CommitInv
  <2>3. TakeInv(p)'
    <3>1. ASSUME fresh'[p], pc[p] \in {"holder", "revoke", "take"}
          PROVE  slot'[cand[p]] = seen[p] /\ slot[cand[p]] = seen[p] /\ cand[p] \in 1 .. Slots
      BY <3>1 DEF Knows, TakeInv, LabelInv, Choosing
    <3>2. ASSUME fresh'[p], pc[p] = "take", seen[p] # NoOne PROVE Spent(seen[p], cand[p])'
      <4>1. /\ Spent(seen[p], cand[p]) /\ slot[cand[p]] = seen[p] /\ cand[p] \in 1 .. Slots
            /\ seen'[p] = seen[p] /\ cand'[p] = cand[p]
        BY <3>1, <3>2 DEF Knows, TakeInv
      <4>2. ~CanCommit(seen[p][2])'
        <5>1. seen[p][2] = o => pc[o] \notin Choosing
          BY <3>2, <4>1 DEF TokenInv
        <5> QED
          BY <1>1, <3>2, <4>1, <5>1 DEF Spent
      <4> QED
        BY <4>1, <4>2 DEF Spent, Occupies
    <3>3. fresh'[p] /\ pc[p] = "revoke" /\ current'[p] =>
            status[seen[p][1]] # "absent" /\ ~Occupies(seen[p][1], cand[p])'
      BY DEF Knows, TakeInv, Occupies
    <3> QED
      BY <3>1, <3>2, <3>3 DEF Knows, TakeInv
  <2>4. FreeInv(p)'
    <3>1. pc[p] \in {"keep", "vacate"} => reserved[p] \in 1 .. Slots /\ job[p] \in Jobs
      BY DEF Knows, LabelInv, Freeing
    <3>2. ASSUME pc[p] \in {"keep", "vacate"}
          PROVE  fresh'[p] <=> slot'[reserved[p]] = <<job[p], p>>
      <4>1. cand[p] = reserved[p] /\ (fresh[p] <=> slot[reserved[p]] = <<job[p], p>>)
        BY <3>2 DEF Knows, FreeInv
      <4>2. CASE reserved[p] = k
        BY <1>0, <3>1, <3>2, <4>1, <4>2
      <4>3. CASE reserved[p] # k
        BY <3>1, <3>2, <4>1, <4>3
      <4> QED
        BY <4>2, <4>3
    <3> QED
      BY <3>2 DEF Knows, FreeInv, Occupies
  <2> QED
    BY <2>1, <2>2, <2>3, <2>4 DEF Knows
<1>3. ASSUME NEW j \in Jobs PROVE LeaseInv(j)'
  <2>1. owner[j] # NoOne => kind'[owner[j]] = kind[owner[j]] \/ owner[j] = o
    OBVIOUS
  <2> QED
    BY <2>1 DEF LeaseInv
<1>4. ASSUME NEW m \in 1 .. Slots PROVE TokenInv(m)'
  BY DEF TokenInv
<1>5. OccupantHolds'
  <2>1. ASSUME NEW i \in Jobs, NEW m \in 1 .. Slots, Occupies(i, m)'
        PROVE  slot'[m] # NoOne /\ slot'[m][1] = i
    BY <2>1 DEF OccupantHolds, Occupies
  <2> QED
    BY <2>1 DEF OccupantHolds
<1> QED
  BY <1>2, <1>3, <1>4, <1>5

-----------------------------------------------------------------------------
(* The operations.                                                         *)

(* A step in which an operation only moves and reads.                       *)
LEMMA QuietStep ==
  ASSUME IInv, CancelsApart, NEW o \in Ops, pc[o] # "idle", UNCHANGED <<status, at, owner, slot>>,
         \A p \in Ops : p # o => SameOp(p),
         UNCHANGED <<kind, job, reserved>>, Onward(o), Knows(o)'
  PROVE  RestInv'
<1>1. job[o] \in Jobs
  BY DEF IInv, RestInv, Knows, LabelInv
<1>2. Writes(o, job[o])
  BY DEF Writes
<1>3. Lawful(o, job[o])
  <2>1. LeaseInv(job[o])
    BY <1>1 DEF IInv, RestInv
  <2> QED
    BY <1>1, <2>1 DEF Lawful, LeaseInv
<1> QED
  BY <1>1, <1>2, <1>3, JobsStep

LEMMA ReadSlotStep == ASSUME IInv, CancelsApart, NEW o \in Ops, ReadSlot(o) PROVE RestInv'
<1> USE Typed, NoOneIsNobody, SlotNumbers DEF IInv, RestInv
<1>0. Knows(o) /\ TypeOK
  OBVIOUS
<1>1. /\ pc[o] = "slot" /\ seen'[o] = slot[cand[o]] /\ fresh'[o] /\ cand'[o] = cand[o]
      /\ (slot[cand[o]] = NoOne /\ pc'[o] = "take") \/ (slot[cand[o]] # NoOne /\ pc'[o] = "holder")
      /\ UNCHANGED <<status, at, owner, slot, kind, job, reserved>>
      /\ \A p \in Ops : p # o => SameOp(p)
  BY KnowsEnough, ReadSlotGoes
<1>2. Knows(o)'
  <2>1. LabelInv(o)'
    BY <1>0, <1>1 DEF Knows, LabelInv, Choosing, Freeing
  <2>2. CommitInv(o)'
    BY <1>0, <1>1 DEF Knows, LabelInv, CommitInv, CanCommit, MayMove, Choosing, Freeing,
       Occupies, Active
  <2>3. TakeInv(o)'
    BY <1>0, <1>1 DEF TakeInv, Occupies, Active
  <2>4. FreeInv(o)'
    BY <1>0, <1>1 DEF Knows, LabelInv, FreeInv, Occupies, Active
  <2> QED
    BY <2>1, <2>2, <2>3, <2>4 DEF Knows
<1>3. Onward(o) /\ pc[o] # "idle"
  BY <1>0, <1>1 DEF ReadSlot, Onward, CanCommit, MayMove, Choosing, Knows, LabelInv
<1> QED
  BY <1>1, <1>2, <1>3, QuietStep

LEMMA ReadOwnStep == ASSUME IInv, CancelsApart, NEW o \in Ops, ReadOwn(o) PROVE RestInv'
<1> USE Typed, NoOneIsNobody, SlotNumbers DEF IInv, RestInv
<1>0. Knows(o) /\ TypeOK
  OBVIOUS
<1>1. /\ pc[o] = "free" /\ reserved[o] # 0
      /\ \/ /\ slot[reserved[o]] = <<job[o], o>> /\ pc'[o] = "keep" /\ fresh'[o]
            /\ seen'[o] = slot[reserved[o]] /\ cand'[o] = reserved[o]
         \/ /\ slot[reserved[o]] # <<job[o], o>>
            /\ pc'[o] = "done" \/ (pc'[o] = "unfence" /\ kind[o] \in {"reschedule", "stopping"})
      /\ UNCHANGED <<status, at, owner, slot, kind, job, reserved>>
      /\ \A p \in Ops : p # o => SameOp(p)
  BY KnowsEnough, ReadOwnGoes
<1>2. Knows(o)'
  <2>1. LabelInv(o)'
    BY <1>0, <1>1 DEF Knows, LabelInv, Choosing, Freeing
  <2>2. CommitInv(o)'
    BY <1>0, <1>1 DEF Knows, LabelInv, CommitInv, CanCommit, MayMove, Choosing, Freeing,
       Occupies, Active
  <2>3. TakeInv(o)'
    BY <1>0, <1>1 DEF TakeInv, Occupies, Active
  <2>4. FreeInv(o)'
    BY <1>0, <1>1 DEF Knows, LabelInv, FreeInv, Occupies, Active
  <2> QED
    BY <2>1, <2>2, <2>3, <2>4 DEF Knows
<1>3. Onward(o) /\ pc[o] # "idle"
  BY <1>0, <1>1 DEF ReadOwn, Onward, CanCommit, MayMove, Choosing, Knows, LabelInv
<1> QED
  BY <1>1, <1>2, <1>3, QuietStep

LEMMA ReadOwnJobStep == ASSUME IInv, CancelsApart, NEW o \in Ops, ReadOwnJob(o) PROVE RestInv'
<1> USE Typed, NoOneIsNobody, SlotNumbers DEF IInv, RestInv
<1>0. Knows(o) /\ TypeOK
  OBVIOUS
<1>1. /\ pc[o] = "keep" /\ cand'[o] = cand[o] /\ (fresh'[o] <=> fresh[o])
      /\ \/ ~Occupies(job[o], reserved[o]) /\ pc'[o] = "vacate"
         \/ /\ status[job[o]] \in Active
            /\ pc'[o] = "done" \/ (pc'[o] = "unfence" /\ kind[o] \in {"reschedule", "stopping"})
      /\ UNCHANGED <<status, at, owner, slot, kind, job, reserved>>
      /\ \A p \in Ops : p # o => SameOp(p)
  BY KnowsEnough, ReadOwnJobGoes
<1>2. Knows(o)'
  <2>1. LabelInv(o)'
    BY <1>0, <1>1 DEF Knows, LabelInv, Choosing, Freeing
  <2>2. CommitInv(o)'
    BY <1>0, <1>1 DEF Knows, LabelInv, CommitInv, CanCommit, MayMove, Choosing, Freeing,
       Occupies, Active
  <2>3. TakeInv(o)'
    BY <1>0, <1>1 DEF TakeInv, Occupies, Active
  <2>4. FreeInv(o)'
    BY <1>0, <1>1 DEF Knows, LabelInv, FreeInv, Occupies, Active
  <2> QED
    BY <2>1, <2>2, <2>3, <2>4 DEF Knows
<1>3. Onward(o) /\ pc[o] # "idle"
  BY <1>0, <1>1 DEF ReadOwnJob, Onward, CanCommit, MayMove, Choosing, Knows, LabelInv
<1> QED
  BY <1>1, <1>2, <1>3, QuietStep

LEMMA PreflightFailsStep == ASSUME IInv, CancelsApart, NEW o \in Ops, PreflightFails(o) PROVE RestInv'
<1> USE Typed, NoOneIsNobody, SlotNumbers DEF IInv, RestInv
<1>0. Knows(o) /\ TypeOK
  OBVIOUS
<1>1. /\ pc[o] = "check"
      /\ \/ pc'[o] = "free" /\ reserved[o] # 0
         \/ pc'[o] = "unfence" /\ kind[o] \in {"reschedule", "stopping"}
         \/ pc'[o] = "done" /\ reserved[o] = 0
      /\ UNCHANGED <<status, at, owner, slot, kind, job, reserved>>
      /\ \A p \in Ops : p # o => SameOp(p)
  BY KnowsEnough, PreflightFailsGoes
<1>2. Knows(o)'
  <2>1. LabelInv(o)'
    BY <1>0, <1>1 DEF Knows, LabelInv, Choosing, Freeing
  <2>2. CommitInv(o)'
    BY <1>0, <1>1 DEF Knows, LabelInv, CommitInv, CanCommit, MayMove, Choosing, Freeing,
       Occupies, Active
  <2>3. TakeInv(o)'
    BY <1>0, <1>1 DEF TakeInv, Occupies, Active
  <2>4. FreeInv(o)'
    BY <1>0, <1>1 DEF Knows, LabelInv, FreeInv, Occupies, Active
  <2> QED
    BY <2>1, <2>2, <2>3, <2>4 DEF Knows
<1>3. Onward(o) /\ pc[o] # "idle"
  BY <1>0, <1>1 DEF PreflightFails, Onward, CanCommit, MayMove, Choosing, Knows, LabelInv
<1> QED
  BY <1>1, <1>2, <1>3, QuietStep

LEMMA CrashStep == ASSUME IInv, CancelsApart, NEW o \in Ops, Crash(o) PROVE RestInv'
<1> USE Typed, NoOneIsNobody, SlotNumbers DEF IInv, RestInv
<1>0. Knows(o) /\ TypeOK
  OBVIOUS
<1>1. /\ pc[o] # "idle" /\ pc'[o] = "dead"
      /\ UNCHANGED <<status, at, owner, slot, kind, job, reserved>>
      /\ \A p \in Ops : p # o => SameOp(p)
  BY KnowsEnough, CrashGoes
<1>2. Knows(o)'
  <2>1. LabelInv(o)'
    BY <1>0, <1>1 DEF Knows, LabelInv, Choosing, Freeing
  <2>2. CommitInv(o)'
    BY <1>0, <1>1 DEF Knows, LabelInv, CommitInv, CanCommit, MayMove, Choosing, Freeing,
       Occupies, Active
  <2>3. TakeInv(o)'
    BY <1>0, <1>1 DEF TakeInv, Occupies, Active
  <2>4. FreeInv(o)'
    BY <1>0, <1>1 DEF Knows, LabelInv, FreeInv, Occupies, Active
  <2> QED
    BY <2>1, <2>2, <2>3, <2>4 DEF Knows
<1>3. Onward(o) /\ pc[o] # "idle"
  BY <1>0, <1>1 DEF Crash, Onward, CanCommit, MayMove, Choosing, Knows, LabelInv
<1> QED
  BY <1>1, <1>2, <1>3, QuietStep

LEMMA ReadHolderStep == ASSUME IInv, CancelsApart, NEW o \in Ops, ReadHolder(o) PROVE RestInv'
<1> USE Typed, NoOneIsNobody, SlotNumbers DEF IInv, RestInv
<1>0. /\ Knows(o) /\ TypeOK /\ pc[o] = "holder" /\ cand[o] \in 1 .. Slots
      /\ seen[o] # NoOne /\ seen[o][1] \in Jobs /\ seen[o][2] \in Ops
  BY DEF ReadHolder, Knows, LabelInv, TakeInv, Choosing
<1>1. /\ UNCHANGED <<status, at, owner, slot, kind, job, reserved, seen>>
      /\ fresh' = fresh /\ \A p \in Ops : p # o => current'[p] = current[p]
  BY <1>0 DEF ReadHolder, TypeOK, jobs, plan
<1>2. PICK leased \in BOOLEAN :
        IF Holds(seen[o][1], seen[o][2], cand[o], leased)
        THEN Following(o)
        ELSE /\ Goto(o, IF MustRevoke(seen[o][1], leased) THEN "revoke" ELSE "take")
             /\ UNCHANGED <<cand, tries>>
  BY <1>0 DEF ReadHolder, TypeOK
<1>3. CASE Holds(seen[o][1], seen[o][2], cand[o], leased)
  <2>1. Forward(o)
    BY <1>0, <1>2, <1>3, FollowingGoes
  <2>2. /\ pc'[o] = "slot" \/ (pc'[o] = "unfence" /\ kind[o] = "reschedule") \/ pc'[o] = "done"
        /\ cand'[o] # 0 /\ \A p \in Ops : p # o => pc'[p] = pc[p] /\ cand'[p] = cand[p]
    BY <1>0, <2>1, ForwardGoes
  <2>3. Knows(o)'
    BY <1>0, <1>1, <2>2 DEF Knows, LabelInv, CommitInv, TakeInv, FreeInv, CanCommit, Choosing,
       Freeing
  <2>4. Onward(o) /\ \A p \in Ops : p # o => SameOp(p)
    BY <1>0, <1>1, <2>2 DEF Onward, CanCommit, MayMove, Choosing, Knows, LabelInv, SameOp
  <2> QED
    BY <1>0, <1>1, <2>3, <2>4, QuietStep
<1>4. CASE ~Holds(seen[o][1], seen[o][2], cand[o], leased)
  <2>1. /\ pc'[o] = IF MustRevoke(seen[o][1], leased) THEN "revoke" ELSE "take"
        /\ cand' = cand /\ \A p \in Ops : p # o => pc'[p] = pc[p]
    BY <1>0, <1>2, <1>4 DEF Goto, TypeOK
  <2>2. status[seen[o][1]] # "absent" /\ ~Occupies(seen[o][1], cand[o])
    BY <1>0, <1>4 DEF Holds, Occupies
  <2>3. ASSUME fresh[o], pc'[o] = "take" PROVE ~CanCommit(seen[o][2])
    <3> DEFINE q == seen[o][2]
               j == seen[o][1]
    <3>1. slot[cand[o]] = seen[o]
      BY <1>0, <2>3 DEF Knows, TakeInv
    <3>2. job[q] = j /\ q \in Ops /\ j \in Jobs /\ pc[q] \notin Choosing \cup {"idle"}
      BY <1>0, <3>1 DEF TokenInv
    <3>3. SUFFICES ASSUME kind[q] = "reschedule", owner[j] = q, status[j] \notin Stopped PROVE FALSE
      BY <2>2, <3>2 DEF CanCommit, MayMove, Stopped
    <3>4. status[j] = "active" /\ owner[j] # NoOne
      BY <3>2, <3>3 DEF LeaseInv
    <3>5. ~leased
      BY <1>4, <3>3, <3>4 DEF Holds, Active
    <3> QED
      BY <2>1, <2>3, <3>4, <3>5 DEF MustRevoke
  <2>4. Knows(o)'
    <3>1. LabelInv(o)'
      BY <1>0, <1>1, <2>1 DEF Knows, LabelInv, Choosing, Freeing
    <3>2. CommitInv(o)' /\ FreeInv(o)'
      BY <1>0, <1>1, <2>1 DEF CommitInv, FreeInv, CanCommit
    <3>3. seen[o][2] # o \/ ~fresh[o]
      BY <1>0 DEF TokenInv, Knows, TakeInv, Choosing
    <3>4. fresh[o] /\ pc'[o] = "take" => ~CanCommit(seen[o][2])'
      BY <1>0, <1>1, <2>1, <2>3, <3>3 DEF CanCommit, MayMove
    <3>5. TakeInv(o)'
      BY <1>0, <1>1, <2>1, <2>2, <3>4 DEF Knows, TakeInv, Spent, Occupies
    <3> QED
      BY <3>1, <3>2, <3>5 DEF Knows
  <2>5. Onward(o) /\ \A p \in Ops : p # o => SameOp(p)
    BY <1>0, <1>1, <2>1 DEF Onward, CanCommit, MayMove, Choosing, Knows, LabelInv, SameOp
  <2> QED
    BY <1>0, <1>1, <2>4, <2>5, QuietStep
<1> QED
  BY <1>3, <1>4

\* Starting over, or giving up, with a reading that proved stale.
LEMMA AgainStep ==
  ASSUME IInv, CancelsApart, NEW o \in Ops, pc[o] \in Choosing, Again(o),
         UNCHANGED <<status, at, owner, slot, kind, job, reserved, seen, fresh, current>>
  PROVE  RestInv'
<1> USE Typed, NoOneIsNobody, SlotNumbers DEF IInv, RestInv
<1>0. Knows(o) /\ TypeOK /\ cand[o] # 0
  BY DEF Knows, LabelInv
<1>1. Forward(o)
  BY <1>0, AgainGoes
<1>2. /\ pc'[o] = "slot" \/ (pc'[o] = "unfence" /\ kind[o] = "reschedule") \/ pc'[o] = "done"
      /\ cand'[o] # 0 /\ \A p \in Ops : p # o => pc'[p] = pc[p] /\ cand'[p] = cand[p]
  BY <1>0, <1>1, ForwardGoes
<1>3. Knows(o)'
  BY <1>0, <1>2 DEF Knows, LabelInv, CommitInv, TakeInv, FreeInv, CanCommit, Choosing, Freeing
<1>4. Onward(o) /\ \A p \in Ops : p # o => SameOp(p)
  BY <1>0, <1>2 DEF Onward, CanCommit, MayMove, Choosing, Knows, LabelInv, SameOp
<1> QED
  BY <1>0, <1>3, <1>4, QuietStep DEF Choosing

LEMMA TakeStep == ASSUME IInv, CancelsApart, NEW o \in Ops, Take(o) PROVE RestInv'
<1> USE Typed, NoOneIsNobody, SlotNumbers DEF IInv, RestInv
<1>0. Knows(o) /\ TypeOK /\ pc[o] = "take" /\ cand[o] \in 1 .. Slots /\ job[o] \in Jobs
  BY DEF Take, Knows, LabelInv, Choosing
<1>1. CASE ~TakeWins(o)
  BY <1>0, <1>1, AgainStep DEF Take, Choosing, jobs, plan
<1>2. CASE TakeWins(o)
  <2> DEFINE k == cand[o]
  <2>1. /\ WriteSlot(k, <<job[o], o>>) /\ UNCHANGED <<jobs, kind, job, cand, seen, current>>
        /\ pc'[o] = "check" /\ reserved'[o] = k /\ fresh[o]
        /\ \A p \in Ops : p # o => pc'[p] = pc[p] /\ reserved'[p] = reserved[p]
        /\ slot'[k] = <<job[o], o>>
    BY <1>0, <1>2 DEF Take, TakeWins, WriteSlot, Goto, TypeOK, plan
  <2>2. slot[k] # NoOne => Spent(slot[k], k)
    BY <1>0, <2>1 DEF Knows, TakeInv
  <2>3. Knows(o)'
    BY <1>0, <2>1 DEF Knows, LabelInv, CommitInv, TakeInv, FreeInv, CanCommit, Choosing,
       Freeing, jobs
  <2> HIDE DEF k
  <2> QED
    BY <1>0, <2>1, <2>2, <2>3, SlotStep DEF Choosing, Spent, k
<1> QED
  BY <1>1, <1>2

LEMMA VacateStep == ASSUME IInv, CancelsApart, NEW o \in Ops, Vacate(o) PROVE RestInv'
<1> USE Typed, NoOneIsNobody, SlotNumbers DEF IInv, RestInv
<1>0. /\ Knows(o) /\ TypeOK /\ pc[o] = "vacate" /\ reserved[o] \in 1 .. Slots
      /\ cand[o] = reserved[o] /\ (fresh[o] <=> slot[reserved[o]] = <<job[o], o>>)
  BY DEF Vacate, Knows, LabelInv, FreeInv, Freeing
<1>1. /\ UNCHANGED <<status, at, owner, live, kind, job, reserved, cand, seen, current>>
      /\ pc'[o] = "done" \/ (pc'[o] = "unfence" /\ kind[o] \in {"reschedule", "stopping"})
      /\ \A p \in Ops : p # o => pc'[p] = pc[p]
  BY <1>0 DEF Vacate, Freed, Goto, TypeOK, jobs, plan, look
<1>2. CASE ~fresh[o]
  <2>1. UNCHANGED <<slot, fresh>>
    BY <1>2 DEF Vacate
  <2>2. Knows(o)'
    BY <1>0, <1>1, <1>2, <2>1 DEF Knows, LabelInv, CommitInv, TakeInv, FreeInv, CanCommit,
       Choosing, Freeing
  <2>3. Onward(o) /\ \A p \in Ops : p # o => SameOp(p)
    BY <1>0, <1>1, <2>1 DEF Onward, CanCommit, MayMove, Choosing, Knows, LabelInv, SameOp
  <2> QED
    BY <1>0, <1>1, <2>1, <2>2, <2>3, QuietStep
<1>3. CASE fresh[o]
  <2> DEFINE k == reserved[o]
  <2>1. WriteSlot(k, NoOne) /\ slot'[k] = NoOne /\ slot[k] = <<job[o], o>>
    BY <1>0, <1>3 DEF Vacate, WriteSlot, TypeOK
  <2>2. slot[k][1] = job[o] /\ slot[k][2] = o /\ ~Occupies(job[o], k)
    BY <1>0, <1>3, <2>1 DEF Knows, FreeInv
  <2>3. job[o] \in Jobs /\ slot'[k] # <<job[o], o>>
    BY <1>0, <2>1 DEF Knows, LabelInv
  <2>4. Knows(o)'
    BY <1>0, <1>1, <2>1, <2>3 DEF Knows, LabelInv, CommitInv, TakeInv, FreeInv, CanCommit,
       Choosing, Freeing
  <2>5. pc'[o] \notin Choosing \cup {"idle"} /\ ~CanCommit(o)' /\ UNCHANGED jobs
    BY <1>0, <1>1 DEF Choosing, CanCommit, jobs
  <2> HIDE DEF k
  <2> QED
    BY <1>0, <1>1, <2>1, <2>2, <2>4, <2>5, SlotStep DEF k
<1> QED
  BY <1>2, <1>3

LEMMA ScheduleStep == ASSUME IInv, CancelsApart, NEW o \in Ops, NEW j \in Jobs, Schedule(o, j) PROVE RestInv'
<1> USE Typed, NoOneIsNobody, SlotNumbers DEF IInv, RestInv
<1>0. Knows(o) /\ TypeOK /\ LeaseInv(j) /\ pc[o] = "idle" /\ kind[o] = "none" /\ reserved[o] = 0
  BY DEF Schedule, Begin, Knows, LabelInv
<1>1. /\ Writes(o, j) /\ UNCHANGED reserved
      /\ pc'[o] = "slot" /\ kind'[o] = "schedule" /\ job'[o] = j /\ cand'[o] # 0
      /\ UNCHANGED <<status, at, owner>>
  BY KnowsEnough, ScheduleGoes
<1>2. Lawful(o, j)
  BY <1>0, <1>1 DEF Lawful, LeaseInv, Knows, LabelInv,
     CanCommit, MayMove, Stopped, Active, Writes, SameOp
<1>3. Onward(o)
  BY <1>0, <1>1 DEF Onward, CanCommit, MayMove, Choosing, Knows, LabelInv
<1>4. Knows(o)'
  BY <1>0, <1>1 DEF Writes, Knows, LabelInv, CommitInv, TakeInv, FreeInv, CanCommit, MayMove, Choosing,
     Freeing, LeaseInv
<1> QED
  BY <1>0, <1>1, <1>2, <1>3, <1>4, JobsStep

LEMMA ScheduleFixedStep == ASSUME IInv, CancelsApart, NEW o \in Ops, NEW j \in Jobs, ScheduleFixed(o, j) PROVE RestInv'
<1> USE Typed, NoOneIsNobody, SlotNumbers DEF IInv, RestInv
<1>0. Knows(o) /\ TypeOK /\ LeaseInv(j) /\ pc[o] = "idle" /\ kind[o] = "none" /\ reserved[o] = 0
  BY DEF ScheduleFixed, Begin, Knows, LabelInv
<1>1. /\ Writes(o, j) /\ UNCHANGED reserved
      /\ pc'[o] = "done" /\ kind'[o] = "schedule" /\ job'[o] = j
      /\ at'[j] = at[j] /\ owner'[j] = owner[j]
      /\ status'[j] = IF status[j] = "absent" THEN "active" ELSE status[j]
  BY KnowsEnough, ScheduleFixedGoes
<1>2. Lawful(o, j)
  BY <1>0, <1>1 DEF Lawful, LeaseInv, Knows, LabelInv,
     CanCommit, MayMove, Stopped, Active, Writes, SameOp
<1>3. Onward(o)
  BY <1>0, <1>1 DEF Onward, CanCommit, MayMove, Choosing, Knows, LabelInv
<1>4. Knows(o)'
  BY <1>0, <1>1 DEF Writes, Knows, LabelInv, CommitInv, TakeInv, FreeInv, CanCommit, MayMove, Choosing,
     Freeing, LeaseInv
<1> QED
  BY <1>0, <1>1, <1>2, <1>3, <1>4, JobsStep

LEMMA RescheduleStep == ASSUME IInv, CancelsApart, NEW o \in Ops, NEW j \in Jobs, Reschedule(o, j) PROVE RestInv'
<1> USE Typed, NoOneIsNobody, SlotNumbers DEF IInv, RestInv
<1>0. Knows(o) /\ TypeOK /\ LeaseInv(j) /\ pc[o] = "idle" /\ kind[o] = "none" /\ reserved[o] = 0
  BY DEF Reschedule, Begin, Knows, LabelInv
<1>1. /\ Writes(o, j) /\ UNCHANGED reserved
      /\ kind'[o] = "reschedule" /\ job'[o] = j /\ status[j] = "active"
      /\ (pc'[o] = "slot" /\ cand'[o] # 0) \/ pc'[o] \in {"unfence", "check"}
      /\ status'[j] = status[j] /\ at'[j] = at[j] /\ owner'[j] = o
  BY KnowsEnough, RescheduleGoes
<1>2. Lawful(o, j)
  BY <1>0, <1>1 DEF Lawful, LeaseInv, Knows, LabelInv,
     CanCommit, MayMove, Stopped, Active, Writes, SameOp
<1>3. Onward(o)
  BY <1>0, <1>1 DEF Onward, CanCommit, MayMove, Choosing, Knows, LabelInv
<1>4. Knows(o)'
  BY <1>0, <1>1 DEF Writes, Knows, LabelInv, CommitInv, TakeInv, FreeInv, CanCommit, MayMove, Choosing,
     Freeing, LeaseInv
<1> QED
  BY <1>0, <1>1, <1>2, <1>3, <1>4, JobsStep

LEMMA CancelStep == ASSUME IInv, CancelsApart, NEW o \in Ops, NEW j \in Jobs, Cancel(o, j) PROVE RestInv'
<1> USE Typed, NoOneIsNobody, SlotNumbers DEF IInv, RestInv
<1>0. Knows(o) /\ TypeOK /\ LeaseInv(j) /\ pc[o] = "idle" /\ kind[o] = "none" /\ reserved[o] = 0
  BY DEF Cancel, Begin, Knows, LabelInv
<1>1. /\ Writes(o, j) /\ UNCHANGED reserved
      /\ kind'[o] = "cancel" /\ job'[o] = j /\ pc'[o] = "withdraw" /\ status[j] \in Active
      /\ status'[j] = "cancel-unresolved" /\ at'[j] = at[j] /\ owner'[j] = owner[j]
  BY KnowsEnough, CancelGoes
<1>2. Lawful(o, j)
  BY <1>0, <1>1 DEF Lawful, LeaseInv, Knows, LabelInv,
     CanCommit, MayMove, Stopped, Active, Writes, SameOp
<1>3. Onward(o)
  BY <1>0, <1>1 DEF Onward, CanCommit, MayMove, Choosing, Knows, LabelInv
<1>4. Knows(o)'
  BY <1>0, <1>1 DEF Writes, Knows, LabelInv, CommitInv, TakeInv, FreeInv, CanCommit, MayMove, Choosing,
     Freeing, LeaseInv
<1> QED
  BY <1>0, <1>1, <1>2, <1>3, <1>4, JobsStep

LEMMA RunStep == ASSUME IInv, CancelsApart, NEW o \in Ops, NEW j \in Jobs, Run(o, j) PROVE RestInv'
<1> USE Typed, NoOneIsNobody, SlotNumbers DEF IInv, RestInv
<1>0. Knows(o) /\ TypeOK /\ LeaseInv(j) /\ pc[o] = "idle" /\ kind[o] = "none" /\ reserved[o] = 0
  BY DEF Run, Begin, Knows, LabelInv
<1>1. /\ Writes(o, j) /\ UNCHANGED reserved
      /\ kind'[o] = "run" /\ job'[o] = j /\ pc'[o] = "run"
      /\ status[j] \notin {"absent", "cancelled"}
      /\ status'[j] = status[j] /\ at'[j] = at[j] /\ owner'[j] = o
  BY KnowsEnough, RunGoes
<1>2. Lawful(o, j)
  BY <1>0, <1>1 DEF Lawful, LeaseInv, Knows, LabelInv,
     CanCommit, MayMove, Stopped, Active, Writes, SameOp
<1>3. Onward(o)
  BY <1>0, <1>1 DEF Onward, CanCommit, MayMove, Choosing, Knows, LabelInv
<1>4. Knows(o)'
  BY <1>0, <1>1 DEF Writes, Knows, LabelInv, CommitInv, TakeInv, FreeInv, CanCommit, MayMove, Choosing,
     Freeing, LeaseInv
<1> QED
  BY <1>0, <1>1, <1>2, <1>3, <1>4, JobsStep

LEMMA UnfenceStep == ASSUME IInv, CancelsApart, NEW o \in Ops, Unfence(o) PROVE RestInv'
<1> USE Typed, NoOneIsNobody, SlotNumbers DEF IInv, RestInv
<1> DEFINE j == job[o]
<1>0. Knows(o) /\ TypeOK /\ j \in Jobs /\ LeaseInv(j)
  BY DEF Unfence, Knows, LabelInv
<1>1. /\ Writes(o, j) /\ UNCHANGED reserved
      /\ kind'[o] = kind[o] /\ job'[o] = job[o]
      /\ pc'[o] = (IF kind[o] = "stopping" THEN "stop" ELSE "done") /\ pc[o] = "unfence"
      /\ status'[j] = status[j] /\ at'[j] = at[j]
      /\ (owner[j] = o /\ owner'[j] = NoOne) \/ (owner[j] # o /\ owner'[j] = owner[j])
  BY KnowsEnough, UnfenceGoes
<1>2. Lawful(o, j)
  BY <1>0, <1>1 DEF Lawful, LeaseInv, Knows, LabelInv,
     CanCommit, MayMove, Stopped, Active, Writes, SameOp
<1>3. Onward(o)
  BY <1>0, <1>1 DEF Onward, CanCommit, MayMove, Choosing, Knows, LabelInv
<1>4. Knows(o)'
  BY <1>0, <1>1 DEF Writes, Knows, LabelInv, CommitInv, TakeInv, FreeInv, CanCommit, MayMove, Choosing,
     Freeing, LeaseInv
<1> QED
  BY <1>0, <1>1, <1>2, <1>3, <1>4, JobsStep

LEMMA CancelFinalStep == ASSUME IInv, CancelsApart, NEW o \in Ops, CancelFinal(o) PROVE RestInv'
<1> USE Typed, NoOneIsNobody, SlotNumbers DEF IInv, RestInv
<1> DEFINE j == job[o]
<1>0. Knows(o) /\ TypeOK /\ j \in Jobs /\ LeaseInv(j)
  BY DEF CancelFinal, Knows, LabelInv
<1>1. /\ Writes(o, j) /\ UNCHANGED reserved
      /\ kind'[o] = kind[o] /\ job'[o] = job[o]
      /\ pc'[o] = "done" /\ pc[o] = "withdraw"
      /\ status'[j] \in {"cancelled", "cancel-unresolved"} /\ at'[j] = at[j] /\ owner'[j] = owner[j]
  BY KnowsEnough, CancelFinalGoes
<1>2. Lawful(o, j)
  BY <1>0, <1>1 DEF Lawful, LeaseInv, Knows, LabelInv,
     CanCommit, MayMove, Stopped, Active, Writes, SameOp
<1>3. Onward(o)
  BY <1>0, <1>1 DEF Onward, CanCommit, MayMove, Choosing, Knows, LabelInv
<1>4. Knows(o)'
  BY <1>0, <1>1 DEF Writes, Knows, LabelInv, CommitInv, TakeInv, FreeInv, CanCommit, MayMove, Choosing,
     Freeing, LeaseInv
<1> QED
  BY <1>0, <1>1, <1>2, <1>3, <1>4, JobsStep

LEMMA CancelMovedStep == ASSUME IInv, CancelsApart, NEW o \in Ops, CancelMoved(o) PROVE RestInv'
<1> USE Typed, NoOneIsNobody, SlotNumbers DEF IInv, RestInv
<1> DEFINE j == job[o]
<1>0. Knows(o) /\ TypeOK /\ j \in Jobs /\ LeaseInv(j)
  BY DEF CancelMoved, Knows, LabelInv
<1>1. /\ Writes(o, j) /\ UNCHANGED reserved
      /\ kind'[o] = kind[o] /\ job'[o] = job[o]
      /\ pc[o] = "stop" /\ at'[j] = at[j] /\ owner'[j] = owner[j]
      /\ \/ status[j] \in Active /\ status'[j] = "cancel-unresolved" /\ pc'[o] = "withdraw"
         \/ pc'[o] = "done" /\ status'[j] = status[j]
  BY KnowsEnough, CancelMovedGoes
<1>2. Lawful(o, j)
  BY <1>0, <1>1 DEF Lawful, LeaseInv, Knows, LabelInv,
     CanCommit, MayMove, Stopped, Active, Writes, SameOp
<1>3. Onward(o)
  BY <1>0, <1>1 DEF Onward, CanCommit, MayMove, Choosing, Knows, LabelInv
<1>4. Knows(o)'
  BY <1>0, <1>1 DEF Writes, Knows, LabelInv, CommitInv, TakeInv, FreeInv, CanCommit, MayMove, Choosing,
     Freeing, LeaseInv
<1> QED
  BY <1>0, <1>1, <1>2, <1>3, <1>4, JobsStep

LEMMA ReleaseStep == ASSUME IInv, CancelsApart, RetriesOpen, NEW o \in Ops, Release(o) PROVE RestInv'
<1> USE Typed, NoOneIsNobody, SlotNumbers DEF IInv, RestInv
<1> DEFINE j == job[o]
<1> DEFINE Moves == \/ status'[j] = status[j]
                    \/ status[j] = "active" /\ status'[j] = "completed"
                    \/ o \in Retries /\ status[j] = "completed" /\ status'[j] = "active"
<1>0. Knows(o) /\ TypeOK /\ j \in Jobs /\ LeaseInv(j)
  BY DEF Release, Knows, LabelInv
<1>1. /\ Writes(o, j) /\ UNCHANGED reserved
      /\ kind'[o] = kind[o] /\ job'[o] = job[o]
      /\ pc[o] = "run" /\ pc'[o] = "done" /\ at'[j] = at[j]
      /\ \/ /\ owner[j] = o /\ owner'[j] = NoOne
            /\ Moves
         \/ owner'[j] = owner[j] /\ status'[j] = status[j]
  BY KnowsEnough, ReleaseGoes
<1>r. o \in Retries /\ owner[j] = o /\ status[j] = "completed" => at[j] = 0
  BY <1>1 DEF RetriesOpen
<1>2. Lawful(o, j)
  BY <1>0, <1>1, <1>r DEF Lawful, LeaseInv, Knows, LabelInv,
     CanCommit, MayMove, Stopped, Active, Writes, SameOp
<1>3. Onward(o)
  BY <1>0, <1>1 DEF Onward, CanCommit, MayMove, Choosing, Knows, LabelInv
<1>4. Knows(o)'
  BY <1>0, <1>1 DEF Writes, Knows, LabelInv, CommitInv, TakeInv, FreeInv, CanCommit, MayMove, Choosing,
     Freeing, LeaseInv
<1> QED
  BY <1>0, <1>1, <1>2, <1>3, <1>4, JobsStep

LEMMA CreateStep == ASSUME IInv, CancelsApart, NEW o \in Ops, Create(o) PROVE RestInv'
<1> USE Typed, NoOneIsNobody, SlotNumbers DEF IInv, RestInv
<1> DEFINE j == job[o]
<1>0. Knows(o) /\ TypeOK /\ j \in Jobs /\ LeaseInv(j)
  BY DEF Create, Knows, LabelInv
<1>1. /\ Writes(o, j) /\ UNCHANGED reserved
      /\ kind'[o] = kind[o] /\ job'[o] = job[o]
      /\ pc[o] = "check" /\ kind[o] = "schedule" /\ owner'[j] = owner[j]
      /\ \/ /\ status[j] = "absent" /\ status'[j] = "active" /\ at'[j] = reserved[o]
            /\ pc'[o] = "done"
         \/ /\ status[j] # "absent" /\ status'[j] = status[j] /\ at'[j] = at[j]
            /\ (pc'[o] = "free" /\ reserved[o] # 0) \/ pc'[o] = "done"
  BY KnowsEnough, CreateGoes
<1>2. Lawful(o, j)
  BY <1>0, <1>1 DEF Lawful, LeaseInv, Knows, LabelInv,
     CanCommit, MayMove, Stopped, Active, Writes, SameOp
<1>3. Onward(o)
  BY <1>0, <1>1 DEF Onward, CanCommit, MayMove, Choosing, Knows, LabelInv
<1>4. Knows(o)'
  BY <1>0, <1>1 DEF Writes, Knows, LabelInv, CommitInv, TakeInv, FreeInv, CanCommit, MayMove, Choosing,
     Freeing, LeaseInv
<1> QED
  BY <1>0, <1>1, <1>2, <1>3, <1>4, JobsStep

LEMMA RenewStep == ASSUME IInv, CancelsApart, NEW o \in Ops, Renew(o) PROVE RestInv'
<1> USE Typed, NoOneIsNobody, SlotNumbers DEF IInv, RestInv
<1> DEFINE j == job[o]
<1>0. Knows(o) /\ TypeOK /\ j \in Jobs /\ LeaseInv(j)
  BY DEF Renew, Knows, LabelInv
<1>1. /\ Writes(o, j) /\ UNCHANGED reserved
      /\ kind'[o] = kind[o] /\ job'[o] = job[o]
      /\ pc[o] = "check" /\ kind[o] = "reschedule" /\ status'[j] = status[j] /\ at'[j] = at[j]
      /\ owner'[j] = owner[j]
      /\ \/ owner[j] = o /\ pc'[o] = "move"
         \/ (pc'[o] = "free" /\ reserved[o] # 0) \/ pc'[o] \in {"unfence", "done"}
  BY KnowsEnough, RenewGoes
<1>2. Lawful(o, j)
  BY <1>0, <1>1 DEF Lawful, LeaseInv, Knows, LabelInv,
     CanCommit, MayMove, Stopped, Active, Writes, SameOp
<1>3. Onward(o)
  BY <1>0, <1>1 DEF Onward, CanCommit, MayMove, Choosing, Knows, LabelInv
<1>4. Knows(o)'
  BY <1>0, <1>1 DEF Writes, Knows, LabelInv, CommitInv, TakeInv, FreeInv, CanCommit, MayMove, Choosing,
     Freeing, LeaseInv
<1> QED
  BY <1>0, <1>1, <1>2, <1>3, <1>4, JobsStep

LEMMA MoveStep == ASSUME IInv, CancelsApart, NEW o \in Ops, Move(o) PROVE RestInv'
<1> USE Typed, NoOneIsNobody, SlotNumbers DEF IInv, RestInv
<1> DEFINE j == job[o]
<1>0. Knows(o) /\ TypeOK /\ j \in Jobs /\ LeaseInv(j)
  BY DEF Move, Knows, LabelInv
<1>1. /\ Writes(o, j) /\ UNCHANGED reserved
      /\ job'[o] = job[o] /\ pc[o] \in {"check", "move"} /\ kind[o] = "reschedule"
      /\ \/ /\ MayMove(o) /\ status'[j] = "active" /\ at'[j] = reserved[o] /\ owner'[j] = NoOne
            /\ pc'[o] = "done" /\ kind'[o] = kind[o]
         \/ /\ status'[j] = status[j] /\ at'[j] = at[j] /\ owner'[j] = owner[j]
            /\ kind'[o] = "moved"
            /\ (pc'[o] = "free" /\ reserved[o] # 0) \/ pc'[o] = "done"
  BY KnowsEnough, MoveGoes
<1>2. Lawful(o, j)
  BY <1>0, <1>1 DEF Lawful, LeaseInv, Knows, LabelInv,
     CanCommit, MayMove, Stopped, Active, Writes, SameOp
<1>3. Onward(o)
  BY <1>0, <1>1 DEF Onward, CanCommit, MayMove, Choosing, Knows, LabelInv
<1>4. Knows(o)'
  BY <1>0, <1>1 DEF Writes, Knows, LabelInv, CommitInv, TakeInv, FreeInv, CanCommit, MayMove, Choosing,
     Freeing, LeaseInv
<1> QED
  BY <1>0, <1>1, <1>2, <1>3, <1>4, JobsStep

LEMMA StopStep == ASSUME IInv, CancelsApart, NEW o \in Ops, Stop(o) PROVE RestInv'
<1> USE Typed, NoOneIsNobody, SlotNumbers DEF IInv, RestInv
<1> DEFINE j == job[o]
<1>0. Knows(o) /\ TypeOK /\ j \in Jobs /\ LeaseInv(j)
  BY DEF Stop, Knows, LabelInv
<1>1. /\ Writes(o, j) /\ UNCHANGED reserved
      /\ job'[o] = job[o] /\ pc[o] = "move" /\ kind[o] = "reschedule"
      /\ status'[j] = status[j] /\ at'[j] = at[j] /\ owner'[j] = owner[j] /\ kind'[o] = "stopping"
      /\ (pc'[o] = "free" /\ reserved[o] # 0) \/ pc'[o] = "unfence"
  BY KnowsEnough, StopGoes
<1>2. Lawful(o, j)
  BY <1>0, <1>1 DEF Lawful, LeaseInv, Knows, LabelInv,
     CanCommit, MayMove, Stopped, Active, Writes, SameOp
<1>3. Onward(o)
  BY <1>0, <1>1 DEF Onward, CanCommit, MayMove, Choosing, Knows, LabelInv
<1>4. Knows(o)'
  BY <1>0, <1>1 DEF Writes, Knows, LabelInv, CommitInv, TakeInv, FreeInv, CanCommit, MayMove, Choosing,
     Freeing, LeaseInv
<1> QED
  BY <1>0, <1>1, <1>2, <1>3, <1>4, JobsStep

LEMMA RevokeStep == ASSUME IInv, CancelsApart, NEW o \in Ops, Revoke(o) PROVE RestInv'
<1> USE Typed, NoOneIsNobody, SlotNumbers DEF IInv, RestInv
<1> DEFINE j == seen[o][1]
<1>0. Knows(o) /\ TypeOK /\ pc[o] = "revoke" /\ seen[o] # NoOne /\ j \in Jobs /\ LeaseInv(j) /\ cand[o] \in 1 .. Slots
  BY DEF Revoke, Knows, LabelInv, TakeInv, Choosing
<1>1. CASE ~current[o]
  BY <1>0, <1>1, AgainStep DEF Revoke, Choosing, plan
<1>2. CASE current[o]
  <2>1. /\ UNCHANGED <<status, at, slot, kind, job, reserved, seen, fresh, cand>>
        /\ owner'[j] = NoOne /\ \A i \in Jobs : i # j => owner'[i] = owner[i]
        /\ pc'[o] = "take" /\ \A p \in Ops : p # o => SameOp(p)
    BY <1>0, <1>2 DEF Revoke, Goto, Outdate, TypeOK, plan, SameOp
  <2>2. Writes(o, j)
    BY <2>1 DEF Writes
  <2>3. Lawful(o, j)
    BY <1>0, <2>1 DEF Lawful, LeaseInv
  <2>4. Onward(o)
    BY <1>0, <2>1 DEF Onward, CanCommit, Choosing, Knows, LabelInv
  <2>5. Knows(o)'
    <3>1. LabelInv(o)' /\ CommitInv(o)' /\ FreeInv(o)'
      BY <1>0, <2>1 DEF Knows, LabelInv, CommitInv, FreeInv, CanCommit, Choosing, Freeing
    <3>2. ASSUME fresh[o] PROVE Spent(seen[o], cand[o])'
      <4>1. /\ slot[cand[o]] = seen[o] /\ seen'[o] = seen[o] /\ cand'[o] = cand[o]
            /\ status[j] # "absent" /\ ~Occupies(j, cand[o])
        BY <1>0, <1>2, <2>1, <3>2 DEF Knows, TakeInv
      <4>2. job[seen[o][2]] = j /\ seen[o][2] \in Ops
        BY <1>0, <4>1 DEF TokenInv
      <4> QED
        BY <2>1, <4>1, <4>2 DEF Spent, Occupies, CanCommit, MayMove
    <3>3. TakeInv(o)'
      BY <1>0, <2>1, <3>2 DEF Knows, TakeInv
    <3> QED
      BY <3>1, <3>3 DEF Knows
  <2> QED
    BY <1>0, <2>2, <2>3, <2>4, <2>5, JobsStep
<1> QED
  BY <1>1, <1>2

\* The expiry of a lease is seen by nothing the invariant speaks of.
LEMMA NothingMoves ==
  ASSUME IInv,
         UNCHANGED <<status, at, owner, slot, pc, kind, job, cand, seen, reserved, fresh, current>>
  PROVE  RestInv'
<1>1. UNCHANGED <<status, at, owner, slot, pc, kind, job, cand, seen, reserved, fresh, current>>
  OBVIOUS
<1>2. ASSUME NEW o \in Ops PROVE CanCommit(o)' <=> CanCommit(o)
  BY <1>1 DEF CanCommit, MayMove
<1>3. ASSUME NEW o \in Ops PROVE Knows(o)'
  <2>1. Knows(o)
    BY DEF IInv, RestInv
  <2>2. LabelInv(o)' /\ FreeInv(o)'
    BY <1>1, <2>1 DEF Knows, LabelInv, FreeInv, Occupies
  <2>3. CommitInv(o)'
    BY <1>1, <1>2, <2>1 DEF Knows, CommitInv
  <2>4. seen[o] # NoOne => (Spent(seen[o], cand[o])' <=> Spent(seen[o], cand[o]))
    BY <1>1, <1>2, Typed DEF IInv, Spent, Occupies
  <2>5. TakeInv(o)'
    BY <1>1, <2>1, <2>4 DEF Knows, TakeInv, Occupies
  <2> QED
    BY <2>2, <2>3, <2>5 DEF Knows
<1> QED
  BY <1>1, <1>3 DEF IInv, RestInv, LeaseInv, TokenInv, OccupantHolds, Occupies

LEMMA LeaseExpiresStep == ASSUME IInv, NEW j \in Jobs, LeaseExpires(j) PROVE RestInv'
  BY NothingMoves DEF LeaseExpires, plan, look

LEMMA RestStep == ASSUME IInv, CancelsApart, RetriesOpen, Next PROVE RestInv'
<1>1. ASSUME NEW o \in Ops, Step(o) PROVE RestInv'
  BY <1>1, ReadSlotStep, ReadHolderStep, RevokeStep, TakeStep, ReadOwnStep, ReadOwnJobStep,
     VacateStep,
     PreflightFailsStep, CreateStep, RenewStep, MoveStep, StopStep, UnfenceStep, CancelMovedStep,
     CancelFinalStep, ReleaseStep, CrashStep DEF Step
<1>2. ASSUME NEW o \in Ops, NEW j \in Jobs, Start(o, j) PROVE RestInv'
  BY <1>2, ScheduleStep, ScheduleFixedStep, RescheduleStep, CancelStep, RunStep DEF Start
<1>3. ASSUME NEW j \in Jobs, LeaseExpires(j) PROVE RestInv'
  BY <1>3, LeaseExpiresStep
<1> QED
  BY <1>1, <1>2, <1>3 DEF Next

-----------------------------------------------------------------------------
(* The theorems.                                                           *)

LEMMA InitIInv == Init => IInv
<1> SUFFICES ASSUME Init PROVE IInv
  OBVIOUS
<1>1. TypeOK
  <2>1. Slots \in Nat /\ Attempts \in Nat /\ 0 \in 0 .. Slots /\ 0 \in 0 .. Attempts
    BY QueueSlotsAssumption
  <2> QED
    BY <2>1 DEF Init, TypeOK
<1>2. RestInv
  BY QueueSlotsAssumption DEF Init, RestInv, Knows, LabelInv, CommitInv, TakeInv, FreeInv,
     CanCommit, LeaseInv, TokenInv,
     OccupantHolds, Occupies, Choosing, Freeing, Active
<1> QED
  BY <1>1, <1>2 DEF IInv

LEMMA TypeStep == ASSUME SteadyInv, [Next]_vars PROVE TypeOK'
<1>1. CASE Next
  <2>1. JobsTyped' /\ PlanTyped' /\ LookTyped' /\ SlotTyped'
    BY <1>1, JobsTypedStep, PlanTypedStep, LookTypedStep, SlotTypedStep
  <2> QED
    BY <2>1, TypeParts DEF TypeOK, JobsTyped, PlanTyped, LookTyped, SlotTyped, Labels,
       Operations, States
<1>2. CASE UNCHANGED vars
  BY <1>2 DEF vars, jobs, plan, look, SteadyInv, TypeOK
<1> QED
  BY <1>1, <1>2

LEMMA SteadyAlways == Spec => []SteadyInv
<1>1. Init => SteadyInv
  BY InitIInv, KnowsEnough
<1>2. ASSUME SteadyInv, [Next]_vars PROVE SteadyInv'
  <2>1. CASE Next
    BY <1>2, <2>1, TypeStep, LedgerStep DEF SteadyInv
  <2>2. CASE UNCHANGED vars
    BY <1>2, <2>2, TypeStep DEF vars, jobs, plan, look, SteadyInv, Ledger, Steady, TokenInv
  <2> QED
    BY <1>2, <2>1, <2>2
<1> QED
  BY <1>1, <1>2, PTL DEF Spec

LEMMA InvariantStep == ASSUME IInv, CancelsApart, RetriesOpen, [Next]_vars PROVE IInv'
<1>1. TypeOK'
  BY KnowsEnough, TypeStep
<1>2. CASE Next
  BY <1>1, <1>2, RestStep DEF IInv
<1>3. CASE UNCHANGED vars
  <2>1. UNCHANGED <<status, at, owner, slot, pc, kind, job, cand, seen, reserved, fresh, current>>
    BY <1>3 DEF vars, jobs, plan, look
  <2> QED
    BY <1>1, <2>1, NothingMoves DEF IInv
<1> QED
  BY <1>2, <1>3

LEMMA Invariance == Spec /\ []CancelsApart /\ []RetriesOpen => []IInv
<1>1. IInv /\ CancelsApart /\ RetriesOpen /\ [Next]_vars => IInv'
  BY InvariantStep
<1> QED
  BY InitIInv, <1>1, PTL DEF Spec

\* Every variable keeps its type, for any number of jobs, operations, slots and attempts, and
\* whichever of the operations cancel or retry.
THEOREM TypeCorrect == Spec => []TypeOK
<1>1. SteadyInv => TypeOK
  BY DEF SteadyInv
<1> QED
  BY <1>1, SteadyAlways, PTL

\* An operation that has ended leaves no slot reserved for a job that was never saved, whichever
\* of the operations cancel (schedule, releaseSlot).
THEOREM SlotsAreGivenBack == Spec => []NothingLeaks
<1>1. ASSUME SteadyInv PROVE NothingLeaks
  <2>1. ASSUME NEW k \in 1 .. Slots, slot[k] # NoOne, pc[slot[k][2]] = "done"
        PROVE  status[slot[k][1]] # "absent"
    <3> DEFINE o == slot[k][2]
    <3>1. o \in Ops /\ slot[k] = <<slot[k][1], o>> /\ slot[k][1] = job[o] /\ reserved[o] = k /\ k # 0
      BY <1>1, <2>1, Typed, SlotNumbers DEF SteadyInv, Ledger, TokenInv
    <3>2. Steady(o)
      BY <1>1, <3>1 DEF SteadyInv, Ledger
    <3> QED
      BY <2>1, <3>1, <3>2 DEF Steady
  <2> QED
    BY <2>1 DEF NothingLeaks
<1> QED
  BY <1>1, SteadyAlways, PTL

\* An active job in a slot owns the slot's reservation, whatever leases expire and writes come
\* late: nobody frees or retakes a slot under a job (reserveSlot, releaseSlot).  Any number of
\* operations may cancel and retry, as long as no two withdraw the copies of one job at the same
\* time and none retries a completed job that has a slot.
THEOREM OccupantsHold == Spec /\ []CancelsApart /\ []RetriesOpen => []OccupantHolds
<1>1. IInv => OccupantHolds
  BY DEF IInv, RestInv
<1> QED
  BY <1>1, Invariance, PTL

\* One slot never holds two active jobs (reserveSlot, reschedule), under the same conditions.
THEOREM SlotsAreNotShared == Spec /\ []CancelsApart /\ []RetriesOpen => []OneJobPerSlot
<1>1. IInv => OneJobPerSlot
  BY DEF IInv, RestInv, OccupantHolds, OneJobPerSlot
<1> QED
  BY <1>1, Invariance, PTL

-----------------------------------------------------------------------------
(* The conditions are met where one operation may cancel and nothing is    *)
(* retried (run slots_three).                                              *)

Cancelling ==
  \A p \in Ops : pc[p] \in {"stop", "withdraw"} \/ kind[p] = "stopping" => p \in Cancels

LEMMA CancellingStep == ASSUME SteadyInv, Cancelling, [Next]_vars PROVE Cancelling'
<1>1. ASSUME NEW o \in Ops, Step(o) PROVE Cancelling'
  <2>0. TypeOK /\ Steady(o)
    BY DEF SteadyInv, Ledger
  <2>1. CASE ReadSlot(o) \/ ReadOwn(o) \/ ReadOwnJob(o) \/ PreflightFails(o) \/ Crash(o)
    BY <2>1, ReadSlotGoes, ReadOwnGoes, ReadOwnJobGoes, PreflightFailsGoes, CrashGoes
    DEF Cancelling, SameOp
  <2>2. CASE ReadHolder(o) \/ Revoke(o) \/ Take(o)
    <3>1. cand[o] # 0
      BY <2>0, <2>2 DEF Steady, Choosing, ReadHolder, Revoke, Take
    <3>2. Forward(o) \/ Goto(o, "revoke") \/ Goto(o, "take") \/ Goto(o, "check")
      BY <2>0, <2>2, <3>1, FollowingGoes, AgainGoes DEF ReadHolder, Revoke, Take
    <3>3. /\ \A p \in Ops : p # o => pc'[p] = pc[p]
          /\ pc'[o] \notin {"stop", "withdraw"} /\ kind' = kind
      BY <2>0, <2>2, <3>2 DEF Forward, Goto, TypeOK, ReadHolder, Revoke, Take, plan
    <3> QED
      BY <3>3 DEF Cancelling
  <2>3. CASE Vacate(o)
    BY <2>0, <2>3 DEF Vacate, Freed, Goto, plan, TypeOK, Cancelling
  <2>4. CASE Create(o) \/ Renew(o) \/ Move(o) \/ Release(o)
    BY <2>0, <2>4, CreateGoes, RenewGoes, MoveGoes, ReleaseGoes DEF Writes, SameOp, Cancelling
  <2>5. CASE Stop(o)
    <3>1. o \in Cancels /\ \A p \in Ops : p # o => SameOp(p)
      BY <2>5, StopGoes DEF Stop, Writes
    <3> QED
      BY <3>1 DEF SameOp, Cancelling
  <2>6. CASE Unfence(o) \/ CancelMoved(o) \/ CancelFinal(o)
    BY <2>0, <2>6, UnfenceGoes, CancelMovedGoes, CancelFinalGoes DEF Writes, SameOp, Cancelling
  <2> QED
    BY <1>1, <2>1, <2>2, <2>3, <2>4, <2>5, <2>6 DEF Step
<1>2. ASSUME NEW o \in Ops, NEW j \in Jobs, Start(o, j) PROVE Cancelling'
  <2>1. CASE Cancel(o, j)
    BY <2>1, CancelGoes DEF Cancel, Writes, SameOp, Cancelling
  <2>2. CASE ~Cancel(o, j)
    BY <1>2, <2>2, ScheduleGoes, ScheduleFixedGoes, RescheduleGoes, RunGoes
    DEF Start, Writes, SameOp, Cancelling
  <2> QED
    BY <2>1, <2>2
<1>3. CASE UNCHANGED <<pc, kind>>
  BY <1>3 DEF Cancelling
<1> QED
  BY <1>1, <1>2, <1>3 DEF Next, LeaseExpires, vars, plan

\* With one operation that may cancel, no two withdraw the copies of one job.
LEMMA OneCancels ==
  ASSUME \A a, b \in Cancels : a = b
  PROVE  Spec => []CancelsApart
<1>1. Init => Cancelling
  BY DEF Init, Cancelling
<1>2. Cancelling => CancelsApart
  BY DEF Cancelling, CancelsApart
<1>3. SteadyInv /\ Cancelling /\ [Next]_vars => Cancelling'
  BY CancellingStep
<1> QED
  BY <1>1, <1>2, <1>3, SteadyAlways, PTL DEF Spec

\* Where one operation may cancel and none is a retry, slots are not shared, and their jobs hold
\* them (schedule, reschedule, cancel, runDue, poll).
THEOREM OneCancellationIsSafe ==
  ASSUME \A a, b \in Cancels : a = b, Retries = {}
  PROVE  Spec => [](OneJobPerSlot /\ OccupantHolds)
<1>1. RetriesOpen
  BY DEF RetriesOpen
<1>2. Spec => []RetriesOpen
  BY <1>1, PTL
<1> QED
  BY <1>2, OneCancels, OccupantsHold, SlotsAreNotShared, PTL
=============================================================================
