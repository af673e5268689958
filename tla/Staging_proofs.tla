--------------------------- MODULE Staging_proofs ---------------------------
(* Proofs about Limiter and Staging, for any number of calls, slots, places *)
(* in the queue and sources.  The limiter: the counter and the queue say    *)
(* exactly which calls hold a slot and which wait, and nobody waits while a *)
(* slot is free.  The staging: what a call has asked for is where its       *)
(* progress says, so every copy is held when the adapter is entered.        *)
EXTENDS Staging, FiniteSetTheorems, SequenceTheorems, TLAPS

States == {"idle", "queued", "given", "working", "done"}

Holders == {c \in Calls : Holds(c)}

LimiterTyped ==
  /\ active \in Nat /\ aborted \in [Calls -> BOOLEAN]
  /\ waiting \in Seq(Calls) /\ pc \in [Calls -> States]

\* Every waiting call is in the queue, once.
QueueInv ==
  /\ \A c \in Calls : pc[c] = "queued" <=> \E i \in 1..Len(waiting) : waiting[i] = c
  /\ \A i, j \in 1..Len(waiting) : waiting[i] = waiting[j] => i = j
  /\ Len(waiting) <= MaxQueued

BudgetInv ==
  /\ IsFiniteSet(Holders) /\ active = Cardinality(Holders)
  /\ active <= MaxActive /\ (waiting # <<>> => active = MaxActive)

LimiterInv == LimiterTyped /\ QueueInv /\ BudgetInv

--------------------------------------------------------------------------
LEMMA InitLimiter == Init => LimiterInv
<1> SUFFICES ASSUME Init PROVE LimiterInv
  OBVIOUS
<1> USE DEF Init
<1>1. Holders = {}
  BY DEF Holders, Holds
<1>2. LimiterTyped
  BY DEF LimiterTyped, States
<1>3. QueueInv
  BY LimitsAssumption DEF QueueInv
<1>4. BudgetInv
  BY <1>1, FS_EmptySet, LimitsAssumption DEF BudgetInv
<1> QED
  BY <1>2, <1>3, <1>4 DEF LimiterInv

\* A call that takes a free slot, or gives one back to the budget.
LEMMA Counted ==
  ASSUME BudgetInv, NEW c \in Calls
  PROVE  /\ IsFiniteSet(Holders \cup {c}) /\ IsFiniteSet(Holders \ {c})
         /\ ~Holds(c) => Cardinality(Holders \cup {c}) = active + 1
         /\ Holds(c) => Cardinality(Holders \ {c}) = active - 1 /\ active > 0
<1>1. IsFiniteSet(Holders) /\ active = Cardinality(Holders) /\ (c \in Holders <=> Holds(c))
  BY DEF BudgetInv, Holders
<1>2. active \in Nat
  BY <1>1, FS_CardinalityType
<1>3. Holds(c) => active > 0
  BY <1>1, <1>2, FS_EmptySet
<1> QED
  BY <1>1, <1>2, <1>3, FS_AddElement, FS_RemoveElement

\* The queue after its head has left it.
LEMMA Shorter ==
  ASSUME LimiterTyped, QueueInv, waiting # <<>>
  PROVE  /\ Head(waiting) \in Calls /\ pc[Head(waiting)] = "queued"
         /\ Tail(waiting) \in Seq(Calls) /\ Len(Tail(waiting)) = Len(waiting) - 1
         /\ Len(waiting) \in Nat \ {0}
         /\ \A i \in 1..Len(waiting) - 1 : Tail(waiting)[i] = waiting[i + 1]
         /\ Head(waiting) = waiting[1]
<1>1. waiting \in Seq(Calls) /\ Len(waiting) \in Nat \ {0}
  BY EmptySeq DEF LimiterTyped
<1>2. /\ Head(waiting) \in Calls /\ Tail(waiting) \in Seq(Calls)
      /\ Len(Tail(waiting)) = Len(waiting) - 1
      /\ \A i \in 1..Len(Tail(waiting)) : Tail(waiting)[i] = waiting[i + 1]
  BY <1>1, HeadTailProperties
<1>3. Head(waiting) = waiting[1] /\ 1 \in 1..Len(waiting)
  BY <1>1
<1>4. pc[Head(waiting)] = "queued"
  BY <1>2, <1>3 DEF QueueInv
<1> QED
  BY <1>1, <1>2, <1>3, <1>4

LEMMA ReleaseStep ==
  ASSUME LimiterInv, NEW c \in Calls, Holds(c), Release(c), UNCHANGED aborted
  PROVE  /\ LimiterInv' /\ pc'[c] = "done"
         /\ \A d \in Calls : d # c => pc'[d] = pc[d] \/ (pc[d] = "queued" /\ pc'[d] = "given")
         /\ \A d \in Calls : ~Holds(d) /\ Holds(d)' => d = Head(waiting)
<1> USE DEF LimiterInv, States
<1>0. pc \in [Calls -> States] /\ aborted \in [Calls -> BOOLEAN] /\ active \in Nat /\ MaxActive \in Nat
  BY LimitsAssumption DEF LimiterTyped
<1>1. CASE waiting = <<>>
  <2>1. active' = active - 1 /\ pc' = [pc EXCEPT ![c] = "done"] /\ waiting' = waiting
    BY <1>1 DEF Release, Becomes
  <2>2. Holders' = Holders \ {c}
    BY <1>0, <2>1 DEF Holders, Holds
  <2>a. IsFiniteSet(Holders \ {c}) /\ Cardinality(Holders \ {c}) = active - 1 /\ active > 0
    BY Counted
  <2>3. LimiterTyped'
    BY <1>0, <2>1, <2>a DEF LimiterTyped
  <2>4. QueueInv'
    BY <1>0, <2>1 DEF QueueInv, Holds
  <2>5. BudgetInv'
    BY <1>0, <1>1, <2>1, <2>2, <2>a DEF BudgetInv
  <2> QED
    BY <1>0, <2>1, <2>3, <2>4, <2>5 DEF Holds
<1>2. CASE waiting # <<>>
  <2> DEFINE h == Head(waiting)
  <2>1. /\ h \in Calls /\ pc[h] = "queued" /\ h = waiting[1]
        /\ Tail(waiting) \in Seq(Calls) /\ Len(Tail(waiting)) = Len(waiting) - 1
        /\ Len(waiting) \in Nat \ {0}
        /\ \A i \in 1..Len(waiting) - 1 : Tail(waiting)[i] = waiting[i + 1]
    BY <1>2, Shorter
  <2> HIDE DEF h
  <2>2. h # c
    BY <2>1 DEF Holds
  <2>3. /\ pc' = [pc EXCEPT ![c] = "done", ![h] = "given"]
        /\ waiting' = Tail(waiting) /\ active' = active
    BY <1>0, <1>2, <2>1, <2>2 DEF Release, Handed, h
  <2>4. Holders' = (Holders \ {c}) \cup {h} /\ h \notin Holders
    BY <1>0, <2>1, <2>2, <2>3 DEF Holders, Holds
  <2>5. Cardinality(Holders') = active /\ IsFiniteSet(Holders')
    <3> DEFINE T == Holders \ {c}
    <3>1. IsFiniteSet(T) /\ Cardinality(T) = active - 1
      BY Counted
    <3>2. h \notin T /\ Holders' = T \cup {h}
      BY <2>4
    <3> HIDE DEF T
    <3>3. IsFiniteSet(T \cup {h}) /\ Cardinality(T \cup {h}) = active - 1 + 1
      BY <3>1, <3>2, FS_AddElement
    <3> QED
      BY <1>0, <3>2, <3>3
  <2>6. BudgetInv'
    BY <1>2, <2>3, <2>5 DEF BudgetInv
  <2>7. LimiterTyped'
    BY <1>0, <2>1, <2>3 DEF LimiterTyped
  <2>8. QueueInv'
    <3>1. \A i, j \in 1..Len(waiting') : waiting'[i] = waiting'[j] => i = j
      BY <2>1, <2>3 DEF QueueInv
    <3>2. ASSUME NEW d \in Calls, NEW i \in 1..Len(waiting'), waiting'[i] = d
          PROVE  pc'[d] = "queued"
      <4>1. waiting[i + 1] = d /\ i + 1 \in 1..Len(waiting) /\ i + 1 # 1 /\ 1 \in 1..Len(waiting)
        BY <2>1, <2>3, <3>2
      <4>2. pc[d] = "queued" /\ d # h
        BY <2>1, <4>1 DEF QueueInv
      <4> QED
        BY <1>0, <2>3, <4>2 DEF Holds
    <3>3. ASSUME NEW d \in Calls, pc'[d] = "queued"
          PROVE  \E i \in 1..Len(waiting') : waiting'[i] = d
      <4>1. pc[d] = "queued" /\ d # h
        BY <1>0, <2>1, <2>2, <2>3, <3>3
      <4>2. PICK i \in 1..Len(waiting) : waiting[i] = d
        BY <4>1 DEF QueueInv
      <4>3. i # 1 /\ i - 1 \in 1..Len(waiting') /\ waiting'[i - 1] = d
        BY <2>1, <2>3, <4>1, <4>2
      <4> QED
        BY <4>3
    <3>4. Len(waiting') <= MaxQueued
      BY <2>1, <2>3, LimitsAssumption DEF QueueInv
    <3> QED
      BY <3>1, <3>2, <3>3, <3>4 DEF QueueInv
  <2> QED
    BY <1>0, <2>1, <2>2, <2>3, <2>6, <2>7, <2>8 DEF Holds, h
<1> QED
  BY <1>1, <1>2

\* The queue after a waiter has left it.
LEMMA LeaveStep ==
  ASSUME LimiterInv, NEW c \in Calls, pc[c] = "queued", pc' = [pc EXCEPT ![c] = "done"],
         Leave(c), active' = active, aborted' \in [Calls -> BOOLEAN]
  PROVE  LimiterInv'
<1> USE DEF LimiterInv, States
<1>0. /\ pc \in [Calls -> States] /\ active \in Nat /\ waiting \in Seq(Calls)
      /\ Len(waiting) \in Nat /\ MaxQueued \in Nat
  BY LimitsAssumption, LenProperties DEF LimiterTyped
<1>1. PICK k \in 1..Len(waiting) :
        waiting[k] = c /\ waiting' = SubSeq(waiting, 1, k - 1) \o SubSeq(waiting, k + 1, Len(waiting))
  BY DEF Leave, RemoveAt
<1> DEFINE front == SubSeq(waiting, 1, k - 1)
           back == SubSeq(waiting, k + 1, Len(waiting))
<1>2. /\ front \in Seq(Calls) /\ Len(front) = k - 1
      /\ \A i \in 1..k - 1 : front[i] = waiting[i]
  <2>1. \A i \in 1..k - 1 : waiting[i] \in Calls
    BY <1>0, ElementOfSeq
  <2> QED
    BY <1>0, <2>1, SubSeqProperties
<1>3. /\ back \in Seq(Calls)
      /\ Len(back) = Len(waiting) - k
      /\ \A i \in 1..Len(waiting) - k : back[i] = waiting[k + i]
  <2>1. \A i \in k + 1..Len(waiting) : waiting[i] \in Calls
    BY <1>0, ElementOfSeq
  <2> QED
    BY <1>0, <2>1, SubSeqProperties
<1>4. /\ waiting' \in Seq(Calls) /\ Len(waiting') = Len(waiting) - 1
      /\ \A i \in 1..Len(waiting) - 1 : waiting'[i] = IF i < k THEN waiting[i] ELSE waiting[i + 1]
  <2>1. /\ waiting' \in Seq(Calls) /\ Len(waiting') = k - 1 + (Len(waiting) - k)
        /\ \A i \in 1..k - 1 + (Len(waiting) - k) : waiting'[i] =
              IF i <= k - 1 THEN front[i]
              ELSE back[i - (k - 1)]
    <3>1. front \in Seq(Calls) /\ back \in Seq(Calls) /\ waiting' = front \o back
      BY <1>1, <1>2, <1>3
    <3> HIDE DEF front, back
    <3>2. /\ front \o back \in Seq(Calls) /\ Len(front \o back) = Len(front) + Len(back)
          /\ \A i \in 1..Len(front) + Len(back) : (front \o back)[i] =
                IF i <= Len(front) THEN front[i] ELSE back[i - Len(front)]
      BY <3>1, ConcatProperties
    <3> QED
      BY <1>2, <1>3, <3>1, <3>2
  <2> HIDE DEF front, back
  <2>2. ASSUME NEW i \in 1..Len(waiting) - 1
        PROVE  waiting'[i] = IF i < k THEN waiting[i] ELSE waiting[i + 1]
    <3>1. CASE i < k
      BY <1>0, <1>2, <2>1, <3>1
    <3>2. CASE i >= k
      <4>1. i - (k - 1) \in 1..Len(waiting) - k /\ k + (i - (k - 1)) = i + 1
        BY <1>0, <3>2
      <4>a. i \in 1..k - 1 + (Len(waiting) - k) /\ ~(i <= k - 1)
        BY <1>0, <3>2
      <4>2. waiting'[i] = back[i - (k - 1)]
        BY <2>1, <4>a
      <4> QED
        BY <1>3, <3>2, <4>1, <4>2
    <3> QED
      BY <1>0, <3>1, <3>2
  <2> QED
    BY <1>0, <2>1, <2>2
<1>5. \A i, j \in 1..Len(waiting') : waiting'[i] = waiting'[j] => i = j
  BY <1>0, <1>4 DEF QueueInv
<1>6. ASSUME NEW d \in Calls, NEW i \in 1..Len(waiting'), waiting'[i] = d
      PROVE  pc'[d] = "queued"
  <2>a. i \in 1..Len(waiting) - 1 /\ waiting'[i] = IF i < k THEN waiting[i] ELSE waiting[i + 1]
    BY <1>4
  <2>1. PICK j \in 1..Len(waiting) : j # k /\ waiting[j] = d
    <3>1. CASE i < k
      BY <1>0, <1>6, <2>a, <3>1
    <3>2. CASE i >= k
      <4>1. i + 1 \in 1..Len(waiting) /\ i + 1 # k /\ waiting[i + 1] = d
        BY <1>0, <1>6, <2>a, <3>2
      <4> QED
        BY <4>1
    <3> QED
      BY <1>0, <3>1, <3>2
  <2>2. pc[d] = "queued" /\ d # c
    BY <1>1, <2>1 DEF QueueInv
  <2> QED
    BY <1>0, <2>2
<1>7. ASSUME NEW d \in Calls, pc'[d] = "queued"
      PROVE  \E i \in 1..Len(waiting') : waiting'[i] = d
  <2>1. pc[d] = "queued" /\ d # c
    BY <1>0, <1>7
  <2>2. PICK j \in 1..Len(waiting) : waiting[j] = d
    BY <2>1 DEF QueueInv
  <2>3. CASE j < k
    BY <1>0, <1>4, <2>2, <2>3
  <2>4. CASE j > k
    <3>1. j - 1 \in 1..Len(waiting') /\ waiting'[j - 1] = d
      BY <1>0, <1>4, <2>2, <2>4
    <3> QED
      BY <3>1
  <2>5. j # k /\ j \in Int /\ k \in Int
    BY <1>1, <2>1, <2>2
  <2> QED
    BY <2>3, <2>4, <2>5
<1>8. QueueInv'
  BY <1>0, <1>4, <1>5, <1>6, <1>7 DEF QueueInv
<1>9. Holders' = Holders
  BY <1>0 DEF Holders, Holds
<1>10. LimiterTyped'
  BY <1>0, <1>4 DEF LimiterTyped
<1>11. BudgetInv'
  BY <1>0, <1>1, <1>9 DEF BudgetInv
<1> QED
  BY <1>8, <1>10, <1>11

\* Whoever takes a slot passes nobody who waits.
Fair == \A c \in Calls : ~Holds(c) /\ Holds(c)' => waiting = <<>> \/ c = Head(waiting)

LEMMA ArriveStep == ASSUME LimiterInv, NEW c \in Calls, Arrive(c) PROVE LimiterInv' /\ Fair
<1> USE DEF LimiterInv, States
<1>0. /\ pc \in [Calls -> States] /\ aborted \in [Calls -> BOOLEAN] /\ active \in Nat
      /\ MaxActive \in Nat /\ MaxQueued \in Nat /\ waiting \in Seq(Calls)
      /\ Len(waiting) \in Nat /\ pc[c] = "idle" /\ aborted' = aborted
  BY LimitsAssumption, LenProperties DEF LimiterTyped, Arrive
<1>1. CASE UNCHANGED <<active, waiting>> /\ Becomes(c, "done")
  <2>1. pc' = [pc EXCEPT ![c] = "done"] /\ active' = active /\ waiting' = waiting
    BY <1>1 DEF Becomes
  <2>2. Holders' = Holders
    BY <1>0, <2>1 DEF Holders, Holds
  <2>3. LimiterTyped' /\ BudgetInv'
    BY <1>0, <2>1, <2>2 DEF LimiterTyped, BudgetInv
  <2>4. QueueInv'
    BY <1>0, <2>1 DEF QueueInv
  <2>5. Fair
    BY <1>0, <2>1 DEF Fair, Holds
  <2> QED
    BY <2>3, <2>4, <2>5
<1>2. CASE active < MaxActive /\ active' = active + 1 /\ Becomes(c, "given") /\ UNCHANGED waiting
  <2>1. pc' = [pc EXCEPT ![c] = "given"] /\ active' = active + 1 /\ waiting' = waiting
    BY <1>2 DEF Becomes
  <2>2. Holders' = Holders \cup {c} /\ ~Holds(c)
    BY <1>0, <2>1 DEF Holders, Holds
  <2>3. IsFiniteSet(Holders \cup {c}) /\ Cardinality(Holders \cup {c}) = active + 1
    BY <2>2, Counted
  <2>4. waiting = <<>>
    BY <1>0, <1>2 DEF BudgetInv
  <2>5. LimiterTyped' /\ BudgetInv'
    BY <1>0, <1>2, <2>1, <2>2, <2>3, <2>4 DEF LimiterTyped, BudgetInv
  <2>6. QueueInv'
    BY <1>0, <2>1 DEF QueueInv
  <2> QED
    BY <2>4, <2>5, <2>6 DEF Fair
<1>3. CASE /\ active >= MaxActive /\ Len(waiting) < MaxQueued /\ active' = active
           /\ Becomes(c, "queued") /\ waiting' = Append(waiting, c)
  <2>1. pc' = [pc EXCEPT ![c] = "queued"]
    BY <1>3 DEF Becomes
  <2>2. Holders' = Holders
    BY <1>0, <2>1 DEF Holders, Holds
  <2>3. /\ waiting' \in Seq(Calls) /\ Len(waiting') = Len(waiting) + 1
        /\ \A i \in 1..Len(waiting) : waiting'[i] = waiting[i]
        /\ waiting'[Len(waiting) + 1] = c
    BY <1>0, <1>3, AppendProperties
  <2>4. LimiterTyped'
    BY <1>0, <1>3, <2>1, <2>3 DEF LimiterTyped
  <2>5. BudgetInv'
    BY <1>0, <1>3, <2>2 DEF BudgetInv
  <2>6. \A i \in 1..Len(waiting) : waiting[i] # c
    BY <1>0 DEF QueueInv
  <2>7. \A i, j \in 1..Len(waiting') : waiting'[i] = waiting'[j] => i = j
    BY <1>0, <2>3, <2>6 DEF QueueInv
  <2>8. ASSUME NEW d \in Calls
        PROVE  pc'[d] = "queued" <=> \E i \in 1..Len(waiting') : waiting'[i] = d
    <3>1. CASE d = c
      <4>1. Len(waiting) + 1 \in 1..Len(waiting')
        BY <1>0, <2>3
      <4> QED
        BY <1>0, <2>1, <2>3, <3>1, <4>1
    <3>2. CASE d # c
      <4>1. (\E i \in 1..Len(waiting') : waiting'[i] = d) <=> \E i \in 1..Len(waiting) : waiting[i] = d
        BY <1>0, <2>3, <3>2
      <4> QED
        BY <1>0, <2>1, <3>2, <4>1 DEF QueueInv
    <3> QED
      BY <3>1, <3>2
  <2>9. QueueInv'
    BY <1>0, <1>3, <2>3, <2>7, <2>8 DEF QueueInv
  <2>10. Fair
    BY <1>0, <2>1 DEF Fair, Holds
  <2> QED
    BY <2>4, <2>5, <2>9, <2>10
<1> QED
  BY <1>0, <1>1, <1>2, <1>3 DEF Arrive, Admit

LEMMA AbortStep == ASSUME LimiterInv, NEW c \in Calls, Abort(c) PROVE LimiterInv' /\ Fair
<1> USE DEF LimiterInv
<1>0. /\ pc \in [Calls -> States] /\ aborted' \in [Calls -> BOOLEAN] /\ active' = active
  BY DEF LimiterTyped, Abort
<1>1. CASE pc[c] = "queued"
  <2>1. pc' = [pc EXCEPT ![c] = "done"] /\ Leave(c)
    BY <1>1 DEF Abort, Becomes
  <2>2. LimiterInv'
    BY <1>0, <1>1, <2>1, LeaveStep
  <2>3. Fair
    BY <1>0, <2>1 DEF Fair, Holds
  <2> QED
    BY <2>2, <2>3
<1>2. CASE UNCHANGED <<pc, waiting>>
  <2>1. Holders' = Holders
    BY <1>2 DEF Holders, Holds
  <2> QED
    BY <1>0, <1>2, <2>1 DEF LimiterTyped, QueueInv, BudgetInv, Fair, Holds
<1> QED
  BY <1>1, <1>2 DEF Abort

LEMMA ResumeStep == ASSUME LimiterInv, NEW c \in Calls, Resume(c) PROVE LimiterInv' /\ Fair
<1> USE DEF LimiterInv
<1>0. pc[c] = "given" /\ Holds(c) /\ aborted' = aborted /\ pc \in [Calls -> States]
  BY DEF Resume, Holds, LimiterTyped
<1>1. CASE aborted[c]
  <2>1. Release(c)
    BY <1>1 DEF Resume
  <2> QED
    BY <1>0, <2>1, ReleaseStep DEF Fair
<1>2. CASE ~aborted[c]
  <2>1. pc' = [pc EXCEPT ![c] = "working"] /\ active' = active /\ waiting' = waiting
    BY <1>2 DEF Resume, Becomes
  <2>2. Holders' = Holders
    BY <1>0, <2>1 DEF Holders, Holds
  <2>3. LimiterTyped' /\ BudgetInv'
    BY <1>0, <2>1, <2>2 DEF LimiterTyped, BudgetInv, States
  <2>4. QueueInv'
    BY <1>0, <2>1 DEF QueueInv
  <2>5. Fair
    BY <1>0, <2>1 DEF Fair, Holds
  <2> QED
    BY <2>3, <2>4, <2>5
<1> QED
  BY <1>1, <1>2

LEMMA FinishStep == ASSUME LimiterInv, NEW c \in Calls, Finish(c) PROVE LimiterInv' /\ Fair
<1>1. Holds(c) /\ Release(c) /\ aborted' = aborted
  BY DEF Finish, Holds
<1> QED
  BY <1>1, ReleaseStep DEF Fair

LEMMA LimiterStep == LimiterInv /\ [Next]_vars => LimiterInv' /\ Fair
<1> SUFFICES ASSUME LimiterInv, [Next]_vars PROVE LimiterInv' /\ Fair
  OBVIOUS
<1>1. CASE UNCHANGED vars
  <2>1. Holders' = Holders
    BY <1>1 DEF Holders, Holds, vars
  <2> QED
    BY <1>1, <2>1 DEF vars, LimiterInv, LimiterTyped, QueueInv, BudgetInv, Fair, Holds
<1>2. ASSUME NEW c \in Calls, Arrive(c) \/ Abort(c) \/ Resume(c) \/ Finish(c)
      PROVE  LimiterInv' /\ Fair
  BY <1>2, ArriveStep, AbortStep, ResumeStep, FinishStep
<1> QED
  BY <1>1, <1>2 DEF Next

--------------------------------------------------------------------------
\* Every step of a call with media is a step of the limiter, or none.
LEMMA CallRefines == [CallNext]_callVars => [Next]_vars
<1> SUFFICES ASSUME [CallNext]_callVars PROVE [Next]_vars
  OBVIOUS
<1>1. CASE UNCHANGED callVars
  BY <1>1 DEF callVars
<1>2. ASSUME NEW c \in Calls,
             \/ Waits(c) \/ Work(c) \/ Expire(c) \/ Answer(c) \/ Refuse(c) \/ Revalidate(c)
             \/ \E i \in 1 .. Items[c] : AnswerLate(c, i)
      PROVE  [Next]_vars
  <2>1. Arrive(c) \/ Abort(c) \/ Resume(c) \/ Finish(c) \/ UNCHANGED vars
    BY <1>2 DEF Waits, Work, Expire, Answer, Refuse, Revalidate, AnswerLate, Begin, Ask,
       StagingStops, Enter, AdapterAnswers, Settle, Ends
  <2> QED
    BY <2>1 DEF Next
<1> QED
  BY <1>1, <1>2 DEF CallNext

LEMMA CallInvariance == CallSpec => [](LimiterInv) /\ [][Fair]_vars
<1>1. CallInit => LimiterInv
  BY InitLimiter DEF CallInit
<1>2. LimiterInv /\ [CallNext]_callVars => LimiterInv' /\ [Fair]_vars
  BY CallRefines, LimiterStep
<1> QED
  BY <1>1, <1>2, PTL DEF CallSpec

\* No slot is lost or given twice and no waiting call is forgotten, whatever calls are aborted,
\* fail or are handed a slot at the same time.
THEOREM LimiterCounts == CallSpec => []SlotsAreHeld
<1>1. LimiterInv => SlotsAreHeld
  BY DEF LimiterInv, QueueInv, BudgetInv, SlotsAreHeld, Holders
<1> QED
  BY <1>1, CallInvariance, PTL

\* No call overtakes those that wait before it.
THEOREM LimiterIsFair == CallSpec => NoBarging
<1>1. [Fair]_vars => [\A c \in Calls : (~Holds(c) /\ Holds(c)') =>
                                      (waiting = <<>> \/ c = Head(waiting))]_vars
  BY DEF Fair
<1> QED
  BY <1>1, CallInvariance, PTL DEF NoBarging

--------------------------------------------------------------------------
\* How far a call is says which of its copies are there.
Staged(c) ==
  /\ pc[c] \in {"idle", "queued", "given"} => step[c] = "idle"
  /\ step[c] = "idle" => item[c] = 1
  /\ step[c] = "staging" => \A i \in 1 .. Items[c] : i < item[c] => copy[c][i] = "held"
  /\ step[c] = "adapter" => \A i \in 1 .. Items[c] : copy[c][i] = "held"

\* While the platform may fetch them the copies stay, and nothing removable is left.
Kept(c) ==
  /\ step[c] \in {"idle", "staging"} => ~entered[c] /\ ~fetching[c]
  /\ step[c] = "adapter" => entered[c]
  /\ fetching[c] => /\ entered[c]
                    /\ step[c] # "adapter" => verdict[c] = "open"
                    /\ \A i \in 1 .. Items[c] : copy[c][i] \notin {"asked", "gone"}
  /\ step[c] = "end" /\ Removable(c) => \A i \in 1 .. Items[c] : copy[c][i] # "held"

CopiesInv ==
  /\ copy = [c \in Calls |-> copy[c]]
  /\ \A c \in Calls : copy[c] = [i \in 1 .. Items[c] |-> copy[c][i]]

Steps == {"idle", "staging", "adapter", "settle", "end"}

MediaTyped ==
  /\ step \in [Calls -> Steps] /\ item \in [Calls -> Nat \ {0}]
  /\ entered \in [Calls -> BOOLEAN] /\ fetching \in [Calls -> BOOLEAN]
  /\ verdict \in [Calls -> {"none", "not-submitted", "published", "open"}]
  /\ CopiesInv

MediaInv == MediaTyped /\ \A c \in Calls : Staged(c) /\ Kept(c)

CallInv == LimiterInv /\ MediaInv

\* A step of c leaves the copies and results of the others alone.
Aside(c) ==
  \A d \in Calls : d # c =>
    /\ step'[d] = step[d] /\ item'[d] = item[d] /\ copy'[d] = copy[d] /\ entered'[d] = entered[d]
    /\ fetching'[d] = fetching[d] /\ verdict'[d] = verdict[d]
    /\ pc'[d] = pc[d] \/ (pc[d] = "queued" /\ pc'[d] = "given")

LEMMA OneCall ==
  ASSUME MediaInv, NEW c \in Calls, Aside(c), MediaTyped', Staged(c)', Kept(c)'
  PROVE  MediaInv'
<1>1. ASSUME NEW d \in Calls, d # c PROVE Staged(d)' /\ Kept(d)'
  BY <1>1 DEF MediaInv, Aside, Staged, Kept, Removable
<1> QED
  BY <1>1 DEF MediaInv

LEMMA SetCopyMoves ==
  ASSUME MediaInv, NEW c \in Calls, NEW k \in 1 .. Items[c], NEW x, SetCopy(c, k, x)
  PROVE  /\ CopiesInv' /\ \A d \in Calls : d # c => copy'[d] = copy[d]
         /\ \A i \in 1 .. Items[c] : copy'[c][i] = IF i = k THEN x ELSE copy[c][i]
<1>1. copy' = [copy EXCEPT ![c] = [copy[c] EXCEPT ![k] = x]]
  BY DEF SetCopy
<1>2. /\ copy = [d \in Calls |-> copy[d]]
      /\ \A d \in Calls : copy[d] = [i \in 1 .. Items[d] |-> copy[d][i]]
  BY DEF MediaInv, MediaTyped, CopiesInv
<1>3. copy'[c] = [copy[c] EXCEPT ![k] = x] /\ \A d \in Calls : d # c => copy'[d] = copy[d]
  BY <1>1, <1>2
<1>4. \A i \in 1 .. Items[c] : copy'[c][i] = IF i = k THEN x ELSE copy[c][i]
  BY <1>2, <1>3
<1>5. copy'[c] = [i \in 1 .. Items[c] |-> copy'[c][i]]
  BY <1>2, <1>3
<1>6. copy' = [d \in Calls |-> copy'[d]]
  BY <1>1, <1>2
<1> QED
  BY <1>2, <1>3, <1>4, <1>5, <1>6 DEF CopiesInv

\* The end of a call's work: the slot is given back, and the call settles.
LEMMA EndsMoves ==
  ASSUME CallInv, NEW c \in Calls, NEW outcome \in {"not-submitted", "published", "open"},
         Ends(c, outcome)
  PROVE  /\ pc'[c] = "done" /\ step'[c] = "settle" /\ verdict'[c] = outcome
         /\ step' \in [Calls -> Steps] /\ item' \in [Calls -> Nat \ {0}]
         /\ verdict' \in [Calls -> {"none", "not-submitted", "published", "open"}]
         /\ \A d \in Calls : d # c =>
              /\ pc'[d] = pc[d] \/ (pc[d] = "queued" /\ pc'[d] = "given")
              /\ step'[d] = step[d] /\ item'[d] = item[d] /\ verdict'[d] = verdict[d]
<1>1. Holds(c) /\ Release(c) /\ aborted' = aborted
  BY DEF Ends, Finish, Holds
<1>2. /\ pc'[c] = "done"
      /\ \A d \in Calls : d # c => pc'[d] = pc[d] \/ (pc[d] = "queued" /\ pc'[d] = "given")
  BY <1>1, ReleaseStep DEF CallInv
<1> QED
  BY <1>2 DEF CallInv, MediaInv, MediaTyped, Steps, Ends

LEMMA InitCalls == CallInit => CallInv
<1> SUFFICES ASSUME CallInit PROVE CallInv
  OBVIOUS
<1>1. LimiterInv
  BY InitLimiter DEF CallInit
<1>2. CopiesInv
  BY DEF CallInit, CopiesInv
<1>3. \A c \in Calls : Staged(c) /\ Kept(c)
  BY DEF CallInit, Init, Staged, Kept
<1> QED
  BY <1>1, <1>2, <1>3 DEF CallInit, MediaInv, MediaTyped, CallInv, Steps

LEMMA WaitsStep == ASSUME CallInv, NEW c \in Calls, Waits(c) \/ Begin(c) PROVE MediaInv'
<1> USE DEF CallInv, MediaInv
<1>0. pc \in [Calls -> States] /\ step \in [Calls -> Steps]
  BY DEF LimiterInv, LimiterTyped, MediaTyped
<1>a. UNCHANGED <<media, result>>
  BY DEF Waits, Begin
<1>1. UNCHANGED <<item, copy, entered, fetching, verdict>> /\ CopiesInv'
  <2>1. UNCHANGED <<item, copy, entered, fetching, verdict>>
    BY <1>a DEF media, result
  <2> QED
    BY <2>1 DEF MediaTyped, CopiesInv
<1>2. CASE Waits(c)
  <2>1. step' = step /\ pc[c] # "done"
    BY <1>2 DEF Waits
  <2>2. /\ \A d \in Calls : d # c => pc'[d] = pc[d]
        /\ pc[c] \in {"idle", "queued"} \/ pc'[c] = pc[c]
    BY <1>0, <1>2 DEF Waits, Arrive, Admit, Abort, Becomes
  <2>3. Aside(c)
    BY <1>1, <2>1, <2>2 DEF Aside
  <2>4. Staged(c)' /\ Kept(c)'
    BY <1>1, <2>1, <2>2 DEF Staged, Kept, Removable
  <2> QED
    BY <1>1, <2>1, <2>3, <2>4, OneCall DEF MediaTyped
<1>3. CASE Begin(c)
  <2>1. pc[c] = "given" /\ Holds(c) /\ step[c] = "idle"
    BY <1>3 DEF Begin, Resume, Holds, Staged
  <2>2. CASE aborted[c]
    <3>1. Release(c) /\ aborted' = aborted /\ step' = step
      BY <1>3, <2>2 DEF Begin, Resume
    <3>2. /\ pc'[c] = "done"
          /\ \A d \in Calls : d # c => pc'[d] = pc[d] \/ (pc[d] = "queued" /\ pc'[d] = "given")
      BY <2>1, <3>1, ReleaseStep
    <3>3. Aside(c)
      BY <1>1, <3>1, <3>2 DEF Aside
    <3>4. Staged(c)' /\ Kept(c)'
      BY <1>1, <3>1, <3>2 DEF Staged, Kept, Removable
    <3> QED
      BY <1>1, <3>1, <3>3, <3>4, OneCall DEF MediaTyped
  <2>3. CASE ~aborted[c]
    <3>1. pc' = [pc EXCEPT ![c] = "working"] /\ step' = [step EXCEPT ![c] = "staging"]
      BY <1>3, <2>3 DEF Begin, Resume, Becomes
    <3>2. Aside(c)
      BY <1>0, <1>1, <3>1 DEF Aside
    <3>3. Staged(c)' /\ Kept(c)'
      BY <1>0, <1>1, <2>1, <3>1 DEF Staged, Kept, Removable
    <3> QED
      BY <1>0, <1>1, <3>1, <3>2, <3>3, OneCall DEF MediaTyped, Steps
  <2> QED
    BY <2>2, <2>3
<1> QED
  BY <1>2, <1>3

LEMMA AskStep == ASSUME CallInv, NEW c \in Calls, Ask(c) PROVE MediaInv'
<1> USE DEF CallInv, MediaInv
<1>0. item[c] \in 1 .. Items[c] /\ step[c] = "staging"
  BY ItemsAssumption DEF MediaTyped, Ask
<1>1. UNCHANGED <<pc, step, item, entered, fetching, verdict>>
  BY DEF Ask, vars, result
<1>2. /\ CopiesInv' /\ \A d \in Calls : d # c => copy'[d] = copy[d]
      /\ \A i \in 1 .. Items[c] : copy'[c][i] = IF i = item[c] THEN "asked" ELSE copy[c][i]
  BY <1>0, SetCopyMoves DEF Ask
<1>3. Aside(c)
  BY <1>1, <1>2 DEF Aside
<1>4. Staged(c)'
  BY <1>0, <1>1, <1>2 DEF Staged, MediaTyped
<1>5. Kept(c)'
  BY <1>0, <1>1 DEF Kept
<1> QED
  BY <1>1, <1>2, <1>3, <1>4, <1>5, OneCall DEF MediaTyped

LEMMA AnswerStep == ASSUME CallInv, NEW c \in Calls, Answer(c) PROVE MediaInv'
<1> USE DEF CallInv, MediaInv
<1>0. item[c] \in 1 .. Items[c] /\ step[c] = "staging" /\ item \in [Calls -> Nat \ {0}]
  BY ItemsAssumption DEF MediaTyped, Answer, Waiting
<1>1. UNCHANGED <<entered, fetching>>
  BY DEF Answer
<1>2. /\ CopiesInv' /\ \A d \in Calls : d # c => copy'[d] = copy[d]
      /\ \A i \in 1 .. Items[c] : copy'[c][i] = IF i = item[c] THEN "held" ELSE copy[c][i]
  BY <1>0, SetCopyMoves DEF Answer
<1>3. CASE item' = [item EXCEPT ![c] = @ + 1] /\ UNCHANGED <<vars, step, expired, verdict>>
  <2>1. Aside(c)
    BY <1>0, <1>1, <1>2, <1>3 DEF Aside, vars
  <2>2. Staged(c)'
    BY <1>0, <1>2, <1>3 DEF Staged, vars
  <2>3. Kept(c)'
    BY <1>0, <1>1, <1>3 DEF Kept
  <2> QED
    BY <1>0, <1>1, <1>2, <1>3, <2>1, <2>2, <2>3, OneCall DEF MediaTyped
<1>4. CASE Ends(c, "not-submitted")
  <2>1. Aside(c)
    BY <1>1, <1>2, <1>4, EndsMoves DEF Aside
  <2>2. Staged(c)' /\ Kept(c)'
    BY <1>0, <1>1, <1>4, EndsMoves DEF Staged, Kept
  <2> QED
    BY <1>1, <1>2, <1>4, <2>1, <2>2, EndsMoves, OneCall DEF MediaTyped
<1> QED
  BY <1>3, <1>4 DEF Answer

\* The work ends before the adapter was entered.
LEMMA StopsStep ==
  ASSUME CallInv, NEW c \in Calls, StagingStops(c) \/ Revalidate(c) \/ Refuse(c)
  PROVE  MediaInv'
<1> USE DEF CallInv, MediaInv
<1>0. Ends(c, "not-submitted") /\ step[c] = "staging" /\ UNCHANGED <<entered, fetching>>
  BY DEF StagingStops, Revalidate, Refuse, Abandoned
<1>1. CopiesInv' /\ \A d \in Calls : d # c => copy'[d] = copy[d]
  <2>1. CASE StagingStops(c) \/ Revalidate(c)
    BY <2>1 DEF StagingStops, Revalidate, MediaTyped, CopiesInv
  <2>2. CASE Refuse(c)
    <3>1. item[c] \in 1 .. Items[c]
      BY <2>2, ItemsAssumption DEF MediaTyped, Refuse, Waiting
    <3> QED
      BY <2>2, <3>1, SetCopyMoves DEF Refuse
  <2> QED
    BY <2>1, <2>2
<1>2. Aside(c)
  BY <1>0, <1>1, EndsMoves DEF Aside
<1>3. Staged(c)' /\ Kept(c)'
  BY <1>0, EndsMoves DEF Staged, Kept
<1> QED
  BY <1>0, <1>1, <1>2, <1>3, EndsMoves, OneCall DEF MediaTyped

LEMMA LateStep ==
  ASSUME CallInv, NEW c \in Calls, NEW k \in 1 .. Items[c], AnswerLate(c, k)
  PROVE  MediaInv'
<1> USE DEF CallInv, MediaInv
<1>0. copy[c][k] = "asked"
  BY DEF AnswerLate
<1>1. UNCHANGED <<pc, step, item, entered, fetching, verdict>>
  BY DEF AnswerLate, vars, result
<1>2. /\ CopiesInv' /\ \A d \in Calls : d # c => copy'[d] = copy[d]
      /\ \A i \in 1 .. Items[c] : copy'[c][i] = IF i = k THEN "gone" ELSE copy[c][i]
  BY SetCopyMoves DEF AnswerLate, Late
<1>3. Aside(c)
  BY <1>1, <1>2 DEF Aside
<1>4. Staged(c)'
  BY <1>0, <1>1, <1>2 DEF Staged
<1>5. Kept(c)'
  BY <1>0, <1>1, <1>2 DEF Kept, Removable
<1> QED
  BY <1>1, <1>2, <1>3, <1>4, <1>5, OneCall DEF MediaTyped

LEMMA AdapterStep ==
  ASSUME CallInv, NEW c \in Calls, Enter(c) \/ AdapterAnswers(c)
  PROVE  MediaInv'
<1> USE DEF CallInv, MediaInv
<1>a. copy' = copy
  BY DEF Enter, AdapterAnswers, media
<1>0. UNCHANGED copy /\ CopiesInv'
  BY <1>a DEF MediaTyped, CopiesInv
<1>1. CASE Enter(c)
  <2>1. /\ UNCHANGED <<pc, item, verdict>>
        /\ step' = [step EXCEPT ![c] = "adapter"] /\ entered' = [entered EXCEPT ![c] = TRUE]
        /\ fetching' = [fetching EXCEPT ![c] = TRUE]
        /\ step[c] = "staging" /\ item[c] > Items[c]
    BY <1>1 DEF Enter, vars, media
  <2>2. step' \in [Calls -> Steps] /\ entered' \in [Calls -> BOOLEAN]
        /\ fetching' \in [Calls -> BOOLEAN] /\ Aside(c)
    BY <1>0, <2>1 DEF MediaTyped, Steps, Aside
  <2>3. step'[c] = "adapter" /\ entered'[c] /\ fetching'[c]
    BY <2>1 DEF MediaTyped
  <2>4. \A i \in 1 .. Items[c] : copy'[c][i] = "held"
    <3>1. Items[c] \in Nat /\ item[c] \in Nat
      BY ItemsAssumption DEF MediaTyped
    <3>2. \A i \in 1 .. Items[c] : i < item[c]
      BY <2>1, <3>1
    <3> QED
      BY <1>0, <2>1, <3>2 DEF Staged
  <2>5. Staged(c)' /\ Kept(c)'
    BY <2>1, <2>3, <2>4 DEF Staged, Kept
  <2> QED
    BY <1>0, <2>1, <2>2, <2>5, OneCall DEF MediaTyped
<1>2. CASE AdapterAnswers(c)
  <2>1. PICK outcome \in {"published", "not-submitted", "open"} :
          Ends(c, outcome) /\ fetching' = [fetching EXCEPT ![c] = outcome = "open"]
    BY <1>2 DEF AdapterAnswers
  <2>2. step[c] = "adapter" /\ UNCHANGED entered
    BY <1>2 DEF AdapterAnswers
  <2>3. /\ fetching' \in [Calls -> BOOLEAN] /\ fetching'[c] = (outcome = "open")
        /\ \A d \in Calls : d # c => fetching'[d] = fetching[d]
    BY <2>1 DEF MediaTyped
  <2>4. pc'[c] = "done" /\ step'[c] = "settle" /\ verdict'[c] = outcome
    BY <2>1, EndsMoves
  <2>5. Aside(c)
    BY <1>0, <2>1, <2>2, <2>3, EndsMoves DEF Aside
  <2>7. Staged(c)' /\ Kept(c)'
    BY <1>0, <2>2, <2>3, <2>4 DEF Staged, Kept
  <2> QED
    BY <1>0, <2>1, <2>2, <2>3, <2>5, <2>7, EndsMoves, OneCall DEF MediaTyped
<1> QED
  BY <1>1, <1>2

LEMMA SettleStep == ASSUME CallInv, NEW c \in Calls, Settle(c) PROVE MediaInv'
<1> USE DEF CallInv, MediaInv
<1> DEFINE settled == [i \in 1 .. Items[c] |->
                         IF Removable(c) /\ copy[c][i] = "held" THEN "gone" ELSE copy[c][i]]
<1>0. /\ UNCHANGED <<pc, item, entered, fetching, verdict>>
      /\ step[c] = "settle" /\ step' = [step EXCEPT ![c] = "end"]
  BY DEF Settle, vars, result
<1>1. copy' = [copy EXCEPT ![c] = settled]
  BY DEF Settle
<1>2. CopiesInv'
  BY <1>1 DEF MediaTyped, CopiesInv
<1>3. copy'[c] = settled /\ \A d \in Calls : d # c => copy'[d] = copy[d]
  BY <1>1 DEF MediaTyped, CopiesInv
<1>4. Aside(c)
  BY <1>0, <1>3 DEF Aside
<1>5. step' \in [Calls -> Steps] /\ step'[c] = "end"
  BY <1>0 DEF MediaTyped, Steps
<1>6. Staged(c)'
  BY <1>0, <1>5 DEF Staged
<1>7. Removable(c)' <=> Removable(c)
  BY <1>0 DEF Removable
<1>8. fetching[c] => ~Removable(c)
  BY <1>0 DEF Kept, Removable
<1>9. Kept(c)'
  BY <1>0, <1>3, <1>5, <1>7, <1>8 DEF Kept
<1> QED
  BY <1>0, <1>2, <1>4, <1>5, <1>6, <1>9, OneCall DEF MediaTyped

LEMMA CallStep == CallInv /\ [CallNext]_callVars => CallInv'
<1> SUFFICES ASSUME CallInv, [CallNext]_callVars PROVE CallInv'
  OBVIOUS
<1>1. LimiterInv'
  BY CallRefines, LimiterStep DEF CallInv
<1>2. ASSUME UNCHANGED <<pc, step, item, copy, entered, fetching, verdict>> PROVE MediaInv'
  BY <1>2 DEF CallInv, MediaInv, MediaTyped, CopiesInv, Staged, Kept, Removable
<1>3. ASSUME UNCHANGED callVars PROVE MediaInv'
  <2>1. UNCHANGED <<vars, step, media, result>>
    BY <1>3 DEF callVars
  <2>2. UNCHANGED <<pc, step, item, copy, entered, fetching, verdict>>
    BY <2>1 DEF vars, media, result
  <2> QED
    BY <1>2, <2>2
<1>4. ASSUME NEW c \in Calls,
             \/ Waits(c) \/ Work(c) \/ Expire(c) \/ Answer(c) \/ Refuse(c) \/ Revalidate(c)
             \/ \E i \in 1 .. Items[c] : AnswerLate(c, i)
      PROVE  MediaInv'
  <2>1. CASE Expire(c)
    BY <1>2, <2>1 DEF Expire, vars, result
  <2> QED
    BY <1>4, <2>1, WaitsStep, AskStep, AnswerStep, StopsStep, LateStep, AdapterStep, SettleStep
       DEF Work
<1> QED
  BY <1>1, <1>3, <1>4 DEF CallNext, CallInv

LEMMA MediaInvariance == CallSpec => []CallInv
BY InitCalls, CallStep, PTL DEF CallSpec

\* No staged copy is removed while a platform may still fetch it, whenever the call is stopped
\* and whichever results of the storage provider come late.
THEOREM CopiesAreKept == CallSpec => []KeptWhileFetched
<1>1. CallInv => KeptWhileFetched
  BY DEF CallInv, MediaInv, Kept, KeptWhileFetched
<1> QED
  BY <1>1, MediaInvariance, PTL

\* Nothing is left at the storage provider by a call whose copies nobody can need.
THEOREM CopiesAreRemoved == CallSpec => []NothingLeftBehind
<1>1. CallInv => NothingLeftBehind
  BY DEF CallInv, MediaInv, Kept, NothingLeftBehind
<1> QED
  BY <1>1, MediaInvariance, PTL
=============================================================================
