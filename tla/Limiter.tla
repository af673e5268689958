----------------------------- MODULE Limiter -----------------------------
(* createConcurrencyLimiter (core/concurrency.ts), through which the client *)
(* sends every call to one backend: a budget of running calls, and a FIFO   *)
(* queue in front of it that a caller's signal may leave.  Between a slot   *)
(* given and the call that takes it up, other callbacks may run.            *)
EXTENDS Naturals, Sequences, SequencesExt

CONSTANTS Calls, MaxActive, MaxQueued

ASSUME LimitsAssumption == MaxActive \in Nat \ {0} /\ MaxQueued \in Nat

VARIABLES active,   \* slots given away
          waiting,  \* calls in the queue
          pc, aborted

vars == <<active, waiting, pc, aborted>>

Init == /\ active = 0 /\ waiting = <<>>
        /\ pc = [c \in Calls |-> "idle"] /\ aborted = [c \in Calls |-> FALSE]

Becomes(c, state) == pc' = [pc EXCEPT ![c] = state]

\* Mutants: the budget or the queue takes one call more than it should.
Admit_OffByOne(c) ==
  \/ active <= MaxActive /\ active' = active + 1 /\ Becomes(c, "given") /\ UNCHANGED waiting
  \/ /\ active > MaxActive /\ UNCHANGED active
     /\ IF Len(waiting) >= MaxQueued THEN Becomes(c, "done") /\ UNCHANGED waiting
        ELSE Becomes(c, "queued") /\ waiting' = Append(waiting, c)
Admit_LongQueue(c) ==
  \/ active < MaxActive /\ active' = active + 1 /\ Becomes(c, "given") /\ UNCHANGED waiting
  \/ /\ active = MaxActive /\ UNCHANGED active
     /\ IF Len(waiting) > MaxQueued THEN Becomes(c, "done") /\ UNCHANGED waiting
        ELSE Becomes(c, "queued") /\ waiting' = Append(waiting, c)

\* A slot at once, a place in the queue, or rate_limited.
Admit(c) ==
  \/ active < MaxActive /\ active' = active + 1 /\ Becomes(c, "given") /\ UNCHANGED waiting
  \/ /\ active >= MaxActive /\ UNCHANGED active
     /\ IF Len(waiting) >= MaxQueued THEN Becomes(c, "done") /\ UNCHANGED waiting
        ELSE Becomes(c, "queued") /\ waiting' = Append(waiting, c)

Arrive(c) ==
  /\ pc[c] = "idle" /\ UNCHANGED aborted
  /\ IF aborted[c] THEN Becomes(c, "done") /\ UNCHANGED <<active, waiting>> ELSE Admit(c)

\* Mutant: the aborted waiter keeps its place in the queue.
Leave_Stays(c) == UNCHANGED waiting

Leave(c) == \E i \in 1..Len(waiting) : waiting[i] = c /\ waiting' = RemoveAt(waiting, i)

\* The caller's signal: a queued call gives up, every other one notices later or never.
Abort(c) ==
  /\ ~aborted[c] /\ aborted' = [aborted EXCEPT ![c] = TRUE] /\ UNCHANGED active
  /\ IF pc[c] = "queued" THEN Becomes(c, "done") /\ Leave(c) ELSE UNCHANGED <<pc, waiting>>

\* Resolving the promise of a waiter that was already rejected does nothing.
Handed(c) ==
  [pc EXCEPT ![c] = "done", ![Head(waiting)] = IF @ = "queued" THEN "given" ELSE @]

\* Mutant: the slot goes back to the budget and wakes nobody.
Release_Frees(c) ==
  active' = active - 1 /\ Becomes(c, "done") /\ UNCHANGED waiting

\* The slot goes to the head of the queue, and stays taken while that call wakes up.
Release(c) ==
  IF waiting = <<>>
  THEN active' = active - 1 /\ Becomes(c, "done") /\ UNCHANGED waiting
  ELSE /\ pc' = Handed(c)
       /\ waiting' = Tail(waiting) /\ UNCHANGED active

\* A call with a slot starts its work, or finds itself aborted and gives the slot back.
Resume(c) ==
  /\ pc[c] = "given" /\ UNCHANGED aborted
  /\ IF aborted[c] THEN Release(c) ELSE Becomes(c, "working") /\ UNCHANGED <<active, waiting>>

\* The work ends, well or not.
Finish(c) == pc[c] = "working" /\ Release(c) /\ UNCHANGED aborted

Next == \E c \in Calls : Arrive(c) \/ Abort(c) \/ Resume(c) \/ Finish(c)

Spec == Init /\ [][Next]_vars

\* The event loop runs what is ready, and the work of an adapter ends.
Fairness == \A c \in Calls : WF_vars(Resume(c)) /\ WF_vars(Finish(c))

LiveSpec == Spec /\ Fairness

--------------------------------------------------------------------------
Holds(c) == pc[c] \in {"given", "working"}

TypeOK ==
  /\ active \in 0..MaxActive /\ aborted \in [Calls -> BOOLEAN]
  /\ waiting \in Seq(Calls) /\ Len(waiting) <= MaxQueued
  /\ pc \in [Calls -> {"idle", "queued", "given", "working", "done"}]

\* The counter counts exactly the calls that have a slot and the queue holds exactly those
\* that wait, so none is lost when an abort, a failure or a handover meet, and neither the
\* backend's budget nor the queue's is exceeded.
SlotsAreHeld ==
  /\ active = Cardinality({c \in Calls : Holds(c)}) /\ active <= MaxActive
  /\ \A c \in Calls : pc[c] = "queued" <=> \E i \in 1..Len(waiting) : waiting[i] = c
  /\ Len(waiting) <= MaxQueued

\* No call takes a slot while others wait before it.
NoBarging ==
  [][\A c \in Calls : (~Holds(c) /\ Holds(c)') => (waiting = <<>> \/ c = Head(waiting))]_vars

\* Every queued call comes to an end: it is never left in a queue nobody serves.
QueueIsServed == \A c \in Calls : pc[c] = "queued" ~> pc[c] = "done"
==========================================================================
