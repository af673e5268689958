------------------------ MODULE Connections_proofs ------------------------
(* Proofs about Connections, and about ConnectHandlers, which extends it,  *)
(* for any number of calls, accounts and failures.  The argument: what a   *)
(* call, or a write in doubt, is about to write over the stored revision   *)
(* is a legal next document; and at most one call holds the code, from its *)
(* claim to the accounts it keeps, while no write in doubt can take        *)
(* effect.                                                                 *)
EXTENDS ConnectHandlers, FiniteSetTheorems, TLAPS

\* The call has claimed the code and has not ended.
Holding(o) == pc[o] = "exchange" \/ (job[o] = "keep" /\ pc[o] \in {"decide", "write"})

\* The documents that may follow the stored one.
Legal(d) ==
  \/ doc.phase = "unclaimed" /\ d = Document("claimed", doc.accounts, doc.grants, doc.revoked)
  \/ /\ doc.phase = "claimed" /\ exchanges = 1
     /\ \E A \in Sets \ {{}} : d = Document("discovered", A, doc.grants, doc.revoked)
  \/ /\ doc.phase = "discovered"
     /\ \E S \in (SUBSET doc.accounts) \ {{}} : d = Document("completed", {}, S, doc.revoked)
  \/ /\ doc.phase = "completed"
     /\ \E g \in doc.grants \ doc.revoked :
          d = Document("completed", doc.accounts, doc.grants, doc.revoked \cup {g})

CodeInv ==
  /\ exchanges \in {0, 1}
  /\ doc.phase \in {"absent", "unclaimed"} => exchanges = 0
  /\ doc.phase \in {"discovered", "completed"} => exchanges = 1

DoubtInv == \A w \in doubt : w.seen <= rev /\ (w.seen = rev => Legal(w.doc))

\* What a call on its way to an update has made sure of.
Ready(o) ==
  /\ pc[o] = "exchange" => job[o] = "keep"
  /\ pc[o] \in {"decide", "write"} =>
       \/ job[o] = "claim"
       \/ job[o] = "keep" /\ found[o] # {}
       \/ job[o] = "take" /\ pick[o] # {} /\ pick[o] \subseteq found[o]
       \/ job[o] = "revoke" /\ doc.phase = "completed" /\ \E g \in doc.grants : pick[o] = {g}

\* A decision is still right while the revision is the same.
Decided(o) ==
  pc[o] = "write" =>
    /\ seen[o] <= rev
    /\ seen[o] = rev =>
         /\ copy[o] = doc
         /\ job[o] = "claim" => doc.phase = "unclaimed"
         /\ job[o] = "take" => doc.phase = "discovered" /\ doc.accounts = found[o]
         /\ job[o] = "revoke" => pick[o] \cap doc.revoked = {}

Held(o) ==
  Holding(o) => /\ doc.phase = "claimed"
                /\ exchanges = IF pc[o] = "exchange" THEN 0 ELSE 1
                /\ \A w \in doubt : w.seen # rev

Reported(o) ==
  /\ pc[o] # "done" => outcome[o] = "none"
  /\ outcome[o] = "accounts" => /\ doc.phase \in {"discovered", "completed"}
                                /\ doc.phase = "discovered" => doc.accounts = found[o]
  /\ outcome[o] = "grants" => doc.phase = "completed" /\ doc.grants = pick[o]
  /\ outcome[o] = "revoked" => /\ doc.phase = "completed" /\ pick[o] # {}
                               /\ pick[o] \subseteq doc.revoked

Alone(o, p) ==
  /\ Holding(o) /\ Holding(p) => o = p
  /\ outcome[o] = "accounts" /\ outcome[p] = "accounts" => found[o] = found[p]
  /\ outcome[o] = "grants" /\ outcome[p] = "grants" => o = p
  /\ outcome[o] = "revoked" /\ outcome[p] = "revoked" /\ pick[o] = pick[p] => o = p

Local(o) == Ready(o) /\ Decided(o) /\ Held(o) /\ Reported(o)

RestInv == /\ CodeInv /\ DoubtInv
           /\ \A o \in Ops : Local(o)
           /\ \A o, p \in Ops : Alone(o, p)

IInv == TypeOK /\ RestInv

Labels == {"idle", "get", "look", "relook", "decide", "write", "exchange", "done"}
Jobs == {"none", "claim", "keep", "take", "revoke"}
Results == {"none", "error", "accounts", "grants", "revoked", "unrevoked", "contended"}

\* A step of o leaves the other calls alone.
Others(o) ==
  \A p \in Ops : p # o =>
    /\ pc'[p] = pc[p] /\ job'[p] = job[p] /\ outcome'[p] = outcome[p]
    /\ seen'[p] = seen[p] /\ copy'[p] = copy[p] /\ found'[p] = found[p] /\ pick'[p] = pick[p]

--------------------------------------------------------------------------
LEMMA GoMoves ==
  ASSUME TypeOK, NEW o \in Ops, NEW at \in Labels, NEW j \in Jobs, Go(o, at, j)
  PROVE  /\ pc'[o] = at /\ job'[o] = j /\ outcome' = outcome
         /\ \A p \in Ops : p # o => pc'[p] = pc[p] /\ job'[p] = job[p]
         /\ pc' \in [Ops -> Labels] /\ job' \in [Ops -> Jobs]
         /\ tries' \in [Ops -> 0..Tries - 1]
<1>1. tries' \in [Ops -> 0..Tries - 1]
  BY TriesAssumption DEF Go, TypeOK
<1> QED
  BY <1>1 DEF Go, TypeOK, Labels, Jobs

LEMMA EndMoves ==
  ASSUME TypeOK, NEW o \in Ops, NEW r \in Results, End(o, r)
  PROVE  /\ pc'[o] = "done" /\ outcome'[o] = r
         /\ \A p \in Ops : p # o => pc'[p] = pc[p] /\ outcome'[p] = outcome[p]
         /\ pc' \in [Ops -> Labels] /\ outcome' \in [Ops -> Results]
         /\ job' = job /\ tries' = tries
BY DEF End, TypeOK, Labels, Results

\* What follows legally is well formed.
LEMMA LegalWellFormed ==
  ASSUME WellFormed(doc), NEW d, Legal(d)
  PROVE  WellFormed(d)
BY DEF WellFormed, Legal, Documents, Document, Phases, Sets

LEMMA WrittenLegal ==
  ASSUME IInv, NEW o \in Ops, pc[o] = "write", seen[o] = rev
  PROVE  Legal(Written(o))
<1> DEFINE c == copy[o]
<1>1. c = doc /\ WellFormed(doc) /\ Ready(o) /\ Decided(o) /\ Held(o)
  BY DEF IInv, RestInv, TypeOK, Local, Decided
<1>2. found[o] \in Sets
  BY DEF IInv, TypeOK
<1>3. CASE job[o] = "claim"
  BY <1>1, <1>3 DEF Written, Legal, Decided
<1>4. CASE job[o] = "keep"
  <2>1. doc.phase = "claimed" /\ exchanges = 1 /\ found[o] # {}
    BY <1>1, <1>4 DEF Held, Holding, Ready
  <2> QED
    BY <2>1, <1>1, <1>2, <1>4 DEF Written, Legal
<1>5. CASE job[o] = "take"
  <2>1. doc.phase = "discovered" /\ pick[o] \in (SUBSET doc.accounts) \ {{}}
    BY <1>1, <1>5 DEF Ready, Decided
  <2> QED
    BY <2>1, <1>1, <1>5 DEF Written, Legal
<1>6. CASE job[o] = "revoke"
  <2>1. doc.phase = "completed" /\ \E g \in doc.grants \ doc.revoked : pick[o] = {g}
    BY <1>1, <1>6 DEF Ready, Decided
  <2> QED
    BY <2>1, <1>1, <1>6 DEF Written, Legal
<1> QED
  BY <1>1, <1>3, <1>4, <1>5, <1>6 DEF Ready

LEMMA WrittenTyped ==
  ASSUME TypeOK, NEW o \in Ops
  PROVE  Written(o) \in Documents
BY DEF TypeOK, Written, Document, Documents, Phases, Sets

--------------------------------------------------------------------------
\* A step that leaves the document alone.
LEMMA Quiet ==
  ASSUME IInv, NEW o \in Ops, Others(o), UNCHANGED <<doc, rev, doubt, exchanges>>,
         Local(o)', Holding(o)' => Holding(o),
         \/ outcome'[o] \in {"none", "error", "contended", "unrevoked"}
         \/ outcome'[o] = "accounts" /\ doc.phase = "discovered" /\ found'[o] = doc.accounts
  PROVE  RestInv'
<1> USE DEF IInv, RestInv
<1>1. \A p \in Ops : Local(p)'
  BY DEF Local, Ready, Decided, Held, Reported, Holding, Others
<1>2. \A p \in Ops : Holding(p)' => Holding(p)
  BY DEF Holding, Others
<1>3. \A p, q \in Ops : Alone(p, q)'
  BY <1>2 DEF Alone, Local, Reported, Others
<1>4. CodeInv' /\ DoubtInv'
  BY DEF CodeInv, DoubtInv, Legal
<1> QED
  BY <1>1, <1>3, <1>4

\* What a legal next document means for the calls that do not write it.
LEMMA Advance ==
  ASSUME IInv, Legal(doc'), rev' = rev + 1, doubt' \subseteq doubt, exchanges' = exchanges,
         NEW M \in SUBSET Ops,
         \A p \in Ops \ M : /\ ~Holding(p)
                           /\ pc'[p] = pc[p] /\ job'[p] = job[p] /\ outcome'[p] = outcome[p]
                           /\ seen'[p] = seen[p] /\ found'[p] = found[p] /\ pick'[p] = pick[p]
  PROVE  /\ WellFormed(doc)' /\ CodeInv' /\ DoubtInv'
         /\ \A p \in Ops \ M : Local(p)' /\ ~Holding(p)'
<1> USE DEF IInv, RestInv
<1>0. WellFormed(doc)' /\ WellFormed(doc) /\ rev \in Nat /\ seen \in [Ops -> Nat]
  BY LegalWellFormed DEF TypeOK, WellFormed
<1>1. CodeInv'
  BY DEF CodeInv, Legal, Document
<1>2. \A w \in doubt : w.seen \in Nat
  BY DEF TypeOK
<1>3. DoubtInv'
  BY <1>0, <1>2 DEF DoubtInv
<1>4. /\ doc.phase = "completed" => /\ doc'.phase = "completed" /\ doc'.grants = doc.grants
                                   /\ doc.revoked \subseteq doc'.revoked
      /\ doc.phase = "discovered" => doc'.phase = "completed"
  BY DEF Legal, Document
<1>5. ASSUME NEW p \in Ops \ M
      PROVE  Local(p)' /\ ~Holding(p)'
  <2>1. ~Holding(p)' /\ Local(p)
    BY DEF Holding
  <2>2. Held(p)'
    BY <2>1 DEF Held
  <2>3. Ready(p)'
    BY <2>1, <1>4 DEF Ready, Local
  <2>4. Reported(p)'
    BY <2>1, <1>4 DEF Reported, Local
  <2>5. Decided(p)'
    <3>1. SUFFICES ASSUME pc'[p] = "write" PROVE seen'[p] <= rev' /\ seen'[p] # rev'
      BY DEF Decided
    <3>2. seen[p] <= rev /\ seen'[p] = seen[p]
      BY <2>1, <3>1 DEF Local, Decided
    <3> QED
      BY <3>2, <1>0
  <2> QED
    BY <2>1, <2>2, <2>3, <2>4, <2>5 DEF Local
<1> QED
  BY <1>0, <1>1, <1>3, <1>5
--------------------------------------------------------------------------
LEMMA InitIInv == Init => IInv
<1> SUFFICES ASSUME Init PROVE IInv
  OBVIOUS
<1>1. doc \in Documents /\ WellFormed(doc)
  BY DEF Init, Document, Documents, WellFormed, Phases, Sets
<1>a. 0 \in 0..Tries - 1 /\ 0 \in 0..Faults
  BY TriesAssumption, FaultsAssumption
<1>b. rev \in Nat /\ exchanges \in Nat /\ doubt = {} /\ expired \in BOOLEAN
  BY DEF Init
<1>c. seen \in [Ops -> Nat] /\ copy \in [Ops -> Documents] /\ tries \in [Ops -> 0..Tries - 1]
  BY <1>1, <1>a DEF Init
<1>d. found \in [Ops -> Sets] /\ pick \in [Ops -> Sets]
  BY DEF Init, Sets
<1>2. TypeOK
  BY <1>1, <1>a, <1>b, <1>c, <1>d DEF Init, TypeOK
<1>3. \A o \in Ops : Local(o)
  BY DEF Init, Local, Ready, Decided, Held, Reported, Holding
<1>4. \A o, p \in Ops : Alone(o, p)
  BY DEF Init, Alone, Holding
<1>5. CodeInv /\ DoubtInv
  BY DEF Init, CodeInv, DoubtInv, Document
<1> QED
  BY <1>2, <1>3, <1>4, <1>5 DEF IInv, RestInv

LEMMA BeginStep == IInv /\ Begin => IInv'
<1> SUFFICES ASSUME IInv, Begin PROVE IInv'
  OBVIOUS
<1> USE DEF IInv, RestInv
<1>1. /\ doc.phase = "absent" /\ doc'.phase = "unclaimed" /\ rev' = rev + 1 /\ rev \in Nat
      /\ UNCHANGED <<doubt, faults, expired, exchanges, kind, pc, job, seen, copy, tries>>
      /\ UNCHANGED <<found, pick, outcome>>
  BY DEF Begin, calls, Document, TypeOK
<1>2. doc' \in Documents /\ WellFormed(doc)'
  BY DEF Begin, Document, Documents, WellFormed, Phases, Sets
<1>3. TypeOK'
  BY <1>1, <1>2 DEF TypeOK
<1>4. \A o \in Ops : seen[o] \in Nat
  BY DEF TypeOK
<1>5. \A o \in Ops : Local(o)'
  BY <1>1, <1>4 DEF Local, Ready, Decided, Held, Reported, Holding
<1>6. \A o, p \in Ops : Alone(o, p)'
  BY <1>1 DEF Alone, Holding
<1>7. \A w \in doubt : w.seen \in Nat
  BY DEF TypeOK
<1>8. CodeInv' /\ DoubtInv'
  BY <1>1, <1>7 DEF CodeInv, DoubtInv
<1> QED
  BY <1>3, <1>5, <1>6, <1>8

LEMMA ExpireStep == IInv /\ Expire => IInv'
<1> SUFFICES ASSUME IInv, Expire PROVE IInv'
  OBVIOUS
<1>1. UNCHANGED <<doc, rev, doubt, faults, exchanges, kind, pc, job, seen, copy, tries, found, pick, outcome>>
  BY DEF Expire, calls
<1>2. TypeOK'
  BY <1>1 DEF IInv, TypeOK, Expire
<1>3. RestInv'
  BY <1>1 DEF IInv, RestInv, CodeInv, DoubtInv, Legal, Local, Ready, Decided, Held, Reported,
     Alone, Holding
<1> QED
  BY <1>2, <1>3 DEF IInv

LEMMA CallStep == ASSUME IInv, NEW o \in Ops, Call(o) PROVE IInv'
<1> USE DEF IInv
<1>1. /\ UNCHANGED <<doc, rev, doubt, faults, expired, exchanges, seen, copy, found>>
      /\ pc[o] = "idle" /\ doc.phase # "absent"
  BY DEF Call
<1>2. PICK k \in Kinds :
        /\ kind' = [kind EXCEPT ![o] = k]
        /\ \/ Go(o, "get", "claim") /\ UNCHANGED pick
           \/ Go(o, "get", "take") /\ UNCHANGED pick
           \/ \E g \in doc.grants : pick' = [pick EXCEPT ![o] = {g}] /\ Go(o, "decide", "revoke")
  BY DEF Call
<1>3. PICK at \in {"get", "decide"}, j \in {"claim", "take", "revoke"} :
        /\ Go(o, at, j)
        /\ \/ at = "get" /\ UNCHANGED pick
           \/ at = "decide" /\ j = "revoke" /\ \E g \in doc.grants : pick' = [pick EXCEPT ![o] = {g}]
  BY <1>2
<1>4. at \in Labels /\ j \in Jobs
  BY DEF Labels, Jobs
<1>5. /\ pc'[o] = at /\ job'[o] = j /\ outcome' = outcome
      /\ \A p \in Ops : p # o => pc'[p] = pc[p] /\ job'[p] = job[p]
      /\ pc' \in [Ops -> Labels] /\ job' \in [Ops -> Jobs] /\ tries' \in [Ops -> 0..Tries - 1]
  BY <1>3, <1>4, GoMoves
<1>6. /\ pick' \in [Ops -> Sets] /\ \A p \in Ops : p # o => pick'[p] = pick[p]
      /\ at = "decide" => \E g \in doc.grants : pick'[o] = {g}
  <2>1. doc.grants \in SUBSET Accounts /\ pick \in [Ops -> Sets]
    BY DEF TypeOK, WellFormed, Documents, Sets
  <2>2. CASE at = "decide"
    <3>1. PICK g \in doc.grants : pick' = [pick EXCEPT ![o] = {g}]
      BY <1>3, <2>2
    <3> QED
      BY <2>1, <3>1 DEF Sets
  <2>3. CASE UNCHANGED pick /\ at # "decide"
    BY <2>1, <2>3
  <2> QED
    BY <1>3, <2>2, <2>3
<1>7. doc' = doc /\ kind' \in [Ops -> Kinds \cup {"none"}]
  BY <1>1, <1>2 DEF TypeOK
<1>8. TypeOK'
  BY <1>1, <1>5, <1>6, <1>7 DEF TypeOK, Labels, Jobs, WellFormed
<1>9. at = "decide" => doc.phase = "completed"
  BY <1>3 DEF TypeOK, WellFormed
<1>10. outcome[o] = "none"
  BY <1>1 DEF RestInv, Local, Reported
<1>11. Local(o)'
  BY <1>1, <1>3, <1>5, <1>6, <1>9, <1>10 DEF Local, Ready, Decided, Held, Reported, Holding
<1>12. Others(o)
  BY <1>1, <1>5, <1>6 DEF Others
<1>13. ~Holding(o)'
  BY <1>3, <1>5 DEF Holding
<1> QED
  BY <1>1, <1>5, <1>8, <1>10, <1>11, <1>12, <1>13, Quiet

\* A call that ends without anything to show.
LEMMA EndStep ==
  ASSUME IInv, NEW o \in Ops, NEW r \in {"error", "contended", "unrevoked"}, End(o, r),
         UNCHANGED <<doc, rev, doubt, faults, expired, exchanges, kind, seen, copy, found, pick>>
  PROVE  IInv'
<1> USE DEF IInv
<1>0. r \in Results
  BY DEF Results
<1>1. /\ pc'[o] = "done" /\ outcome'[o] = r
      /\ \A p \in Ops : p # o => pc'[p] = pc[p] /\ outcome'[p] = outcome[p]
      /\ pc' \in [Ops -> Labels] /\ outcome' \in [Ops -> Results] /\ job' = job /\ tries' = tries
  BY <1>0, EndMoves
<1>2. TypeOK'
  BY <1>1 DEF TypeOK, WellFormed, Labels, Results
<1>3. Local(o)' /\ Others(o) /\ ~Holding(o)'
  BY <1>1 DEF Local, Ready, Decided, Held, Reported, Holding, Others
<1> QED
  BY <1>1, <1>2, <1>3, Quiet

\* A call that goes on, the document and the code untouched.
LEMMA GoStep ==
  ASSUME IInv, NEW o \in Ops, NEW at \in Labels \ {"done"}, NEW j \in Jobs, Go(o, at, j),
         pc[o] # "done", UNCHANGED <<doc, rev, doubt, faults, expired, exchanges, kind, outcome>>,
         seen' \in [Ops -> Nat], copy' \in [Ops -> Documents],
         found' \in [Ops -> Sets], pick' \in [Ops -> Sets],
         \A p \in Ops : p # o => /\ seen'[p] = seen[p] /\ copy'[p] = copy[p]
                              /\ found'[p] = found[p] /\ pick'[p] = pick[p],
         Ready(o)', Decided(o)',
         Holding(o)' => Holding(o) /\ pc[o] # "exchange" /\ at # "exchange"
  PROVE  IInv'
<1> USE DEF IInv
<1>1. /\ pc'[o] = at /\ job'[o] = j
      /\ \A p \in Ops : p # o => pc'[p] = pc[p] /\ job'[p] = job[p]
      /\ pc' \in [Ops -> Labels] /\ job' \in [Ops -> Jobs] /\ tries' \in [Ops -> 0..Tries - 1]
  BY GoMoves
<1>2. TypeOK'
  BY <1>1 DEF TypeOK, WellFormed, Labels, Jobs
<1>3. outcome'[o] = "none"
  BY DEF RestInv, Local, Reported
<1>4. Held(o)'
  BY <1>1 DEF RestInv, Local, Held
<1>5. Local(o)' /\ Others(o)
  BY <1>1, <1>3, <1>4 DEF Local, Reported, Others
<1> QED
  BY <1>2, <1>3, <1>5, Quiet

LEMMA GetStep == ASSUME IInv, NEW o \in Ops, Get(o) PROVE IInv'
<1> USE DEF IInv
<1>1. /\ UNCHANGED <<doc, rev, doubt, faults, expired, exchanges, kind, seen, copy, found, pick>>
      /\ pc[o] = "get"
  BY DEF Get
<1>2. CASE End(o, "error")
  BY <1>1, <1>2, EndStep
<1>3. CASE Go(o, "look", job[o])
  <2>1. "look" \in Labels \ {"done"} /\ job[o] \in Jobs
    BY DEF Labels, Jobs, TypeOK
  <2>2. pc'[o] = "look" /\ outcome' = outcome
    BY <1>3, <2>1, GoMoves
  <2>3. Ready(o)' /\ Decided(o)' /\ ~Holding(o)'
    BY <2>2 DEF Ready, Decided, Holding
  <2> QED
    BY <1>1, <1>3, <2>1, <2>2, <2>3, GoStep DEF TypeOK
<1> QED
  BY <1>2, <1>3 DEF Get

\* A discover that returns the accounts it has read, or a complete that goes on.
LEMMA LearnStep ==
  ASSUME IInv, NEW o \in Ops, pc[o] \in {"look", "relook"}, Learned(o),
         doc.phase = "discovered", found' = [found EXCEPT ![o] = doc.accounts],
         UNCHANGED <<doc, rev, doubt, faults, expired, exchanges, kind, seen, copy, pick>>
  PROVE  IInv'
<1> USE DEF IInv
<1>1. doc.accounts \in Sets
  BY DEF TypeOK, WellFormed, Documents
<1>2. found' \in [Ops -> Sets] /\ found'[o] = doc.accounts /\ \A p \in Ops : p # o => found'[p] = found[p]
  BY <1>1 DEF TypeOK
<1>3. CASE Go(o, "get", "take")
  <2>1. "get" \in Labels \ {"done"} /\ "take" \in Jobs
    BY DEF Labels, Jobs
  <2>2. pc'[o] = "get" /\ outcome' = outcome
    BY <1>3, <2>1, GoMoves
  <2>3. Ready(o)' /\ Decided(o)' /\ ~Holding(o)'
    BY <2>2 DEF Ready, Decided, Holding
  <2> QED
    BY <1>2, <1>3, <2>1, <2>2, <2>3, GoStep DEF TypeOK
<1>4. CASE End(o, "accounts")
  <2>1. "accounts" \in Results
    BY DEF Results
  <2>2. /\ pc'[o] = "done" /\ outcome'[o] = "accounts"
        /\ \A p \in Ops : p # o => pc'[p] = pc[p] /\ outcome'[p] = outcome[p]
        /\ pc' \in [Ops -> Labels] /\ outcome' \in [Ops -> Results] /\ job' = job /\ tries' = tries
    BY <1>4, <2>1, EndMoves
  <2>3. TypeOK'
    BY <1>2, <2>2 DEF TypeOK, WellFormed, Labels, Results
  <2>4. Local(o)' /\ Others(o) /\ ~Holding(o)'
    BY <1>2, <2>2 DEF Local, Ready, Decided, Held, Reported, Holding, Others
  <2> QED
    BY <1>2, <2>2, <2>3, <2>4, Quiet
<1> QED
  BY <1>3, <1>4 DEF Learned

LEMMA LookStep == ASSUME IInv, NEW o \in Ops, Look(o) PROVE IInv'
<1> USE DEF IInv
<1>1. /\ UNCHANGED <<doc, rev, doubt, faults, expired, exchanges, kind, seen, copy, pick>>
      /\ pc[o] \in {"look", "relook"}
  BY DEF Look
<1>2. CASE doc.phase = "discovered"
  BY <1>1, <1>2, LearnStep DEF Look
<1>3. CASE End(o, "error") /\ UNCHANGED found
  BY <1>1, <1>3, EndStep
<1>4. CASE Go(o, "decide", "claim") /\ UNCHANGED found
  <2>1. "decide" \in Labels \ {"done"} /\ "claim" \in Jobs
    BY DEF Labels, Jobs
  <2>2. pc'[o] = "decide" /\ job'[o] = "claim" /\ outcome' = outcome
    BY <1>4, <2>1, GoMoves
  <2>3. Ready(o)' /\ Decided(o)' /\ ~Holding(o)'
    BY <2>2 DEF Ready, Decided, Holding
  <2> QED
    BY <1>1, <1>4, <2>1, <2>2, <2>3, GoStep DEF TypeOK
<1> QED
  BY <1>2, <1>3, <1>4 DEF Look

LEMMA ChooseStep == ASSUME IInv, NEW o \in Ops, Choose(o) PROVE IInv'
<1> USE DEF IInv
<1>1. /\ UNCHANGED <<doc, rev, doubt, faults, expired, exchanges, kind, seen, copy>>
      /\ pc[o] = "look" /\ found' = [found EXCEPT ![o] = doc.accounts] /\ Go(o, "decide", "take")
  BY DEF Choose
<1>2. PICK S \in (SUBSET doc.accounts) \ {{}} : pick' = [pick EXCEPT ![o] = S]
  BY DEF Choose
<1>3. doc.accounts \in Sets /\ S \in Sets
  BY DEF TypeOK, WellFormed, Documents, Sets
<1>4. /\ found' \in [Ops -> Sets] /\ pick' \in [Ops -> Sets]
      /\ found'[o] = doc.accounts /\ pick'[o] = S
      /\ \A p \in Ops : p # o => found'[p] = found[p] /\ pick'[p] = pick[p]
  BY <1>1, <1>2, <1>3 DEF TypeOK
<1>5. "decide" \in Labels \ {"done"} /\ "take" \in Jobs
  BY DEF Labels, Jobs
<1>6. pc'[o] = "decide" /\ job'[o] = "take" /\ outcome' = outcome
  BY <1>1, <1>5, GoMoves
<1>7. Ready(o)' /\ Decided(o)' /\ ~Holding(o)'
  BY <1>4, <1>6 DEF Ready, Decided, Holding
<1> QED
  BY <1>1, <1>4, <1>5, <1>6, <1>7, GoStep DEF TypeOK
LEMMA FailStep == ASSUME IInv, NEW o \in Ops, Fail(o) PROVE IInv'
BY EndStep DEF Fail

LEMMA DecideStep == ASSUME IInv, NEW o \in Ops, Decide(o) PROVE IInv'
<1> USE DEF IInv
<1>1. /\ UNCHANGED <<doc, rev, doubt, faults, expired, exchanges, kind, found, pick>>
      /\ pc[o] = "decide" /\ Ready(o)
  BY DEF Decide, RestInv, Local
<1>2. CASE /\ Accepts(o) /\ Go(o, "write", job[o])
           /\ seen' = [seen EXCEPT ![o] = rev] /\ copy' = [copy EXCEPT ![o] = doc]
  <2>1. "write" \in Labels \ {"done"} /\ job[o] \in Jobs
    BY DEF Labels, Jobs, TypeOK
  <2>2. pc'[o] = "write" /\ job'[o] = job[o] /\ outcome' = outcome
    BY <1>2, <2>1, GoMoves
  <2>3. /\ seen' \in [Ops -> Nat] /\ copy' \in [Ops -> Documents]
        /\ seen'[o] = rev /\ copy'[o] = doc
        /\ \A p \in Ops : p # o => seen'[p] = seen[p] /\ copy'[p] = copy[p]
    BY <1>2 DEF TypeOK, WellFormed
  <2>4. Ready(o)'
    BY <1>1, <2>2 DEF Ready
  <2>5. Decided(o)'
    BY <1>1, <1>2, <2>2, <2>3 DEF Decided, Accepts, TypeOK
  <2>6. Holding(o)' => Holding(o)
    BY <1>1, <2>2 DEF Holding
  <2> QED
    BY <1>1, <1>2, <2>1, <2>2, <2>3, <2>4, <2>5, <2>6, GoStep DEF TypeOK
<1>3. CASE Go(o, "relook", "claim") /\ UNCHANGED <<seen, copy>>
  <2>1. "relook" \in Labels \ {"done"} /\ "claim" \in Jobs
    BY DEF Labels, Jobs
  <2>2. pc'[o] = "relook" /\ outcome' = outcome
    BY <1>3, <2>1, GoMoves
  <2>3. Ready(o)' /\ Decided(o)' /\ ~Holding(o)'
    BY <2>2 DEF Ready, Decided, Holding
  <2> QED
    BY <1>1, <1>3, <2>1, <2>2, <2>3, GoStep DEF TypeOK
<1>4. CASE (End(o, "unrevoked") \/ End(o, "error")) /\ UNCHANGED <<seen, copy>>
  BY <1>1, <1>4, EndStep
<1> QED
  BY <1>2, <1>3, <1>4 DEF Decide

LEMMA LoseStep == ASSUME IInv, NEW o \in Ops, Lose(o) PROVE IInv'
<1> USE DEF IInv
<1>1. /\ UNCHANGED <<doc, rev, doubt, faults, expired, exchanges, kind, seen, copy, found, pick>>
      /\ pc[o] = "write" /\ Local(o)
  BY DEF Lose, RestInv
<1>2. CASE End(o, "contended")
  BY <1>1, <1>2, EndStep
<1>3. CASE /\ tries[o] + 1 < Tries /\ UNCHANGED <<job, outcome>>
           /\ pc' = [pc EXCEPT ![o] = "decide"] /\ tries' = [tries EXCEPT ![o] = @ + 1]
  <2>1. tries' \in [Ops -> 0..Tries - 1]
    <3>1. tries[o] + 1 \in 0..Tries - 1
      BY <1>3, TriesAssumption DEF TypeOK
    <3> QED
      BY <1>3, <3>1 DEF TypeOK
  <2>2. pc' \in [Ops -> Labels] /\ pc'[o] = "decide" /\ \A p \in Ops : p # o => pc'[p] = pc[p]
    BY <1>3 DEF TypeOK, Labels
  <2>3. TypeOK'
    BY <1>1, <1>3, <2>1, <2>2 DEF TypeOK, WellFormed, Labels
  <2>4. Local(o)' /\ (Holding(o)' => Holding(o)) /\ Others(o) /\ outcome'[o] = "none"
    BY <1>1, <1>3, <2>2 DEF Local, Ready, Decided, Held, Reported, Holding, Others
  <2> QED
    BY <1>1, <2>3, <2>4, Quiet
<1> QED
  BY <1>2, <1>3 DEF Lose

LEMMA ThrowStep == ASSUME IInv, NEW o \in Ops, Throw(o) PROVE IInv'
<1> USE DEF IInv
<1> DEFINE w == [seen |-> seen[o], doc |-> Written(o)]
<1>1. /\ UNCHANGED <<doc, rev, expired, exchanges, kind, seen, copy, found, pick>>
      /\ pc[o] = "write" /\ Local(o) /\ doubt' = doubt \cup {w}
      /\ faults' = faults + 1 /\ faults < Faults /\ End(o, "error")
  BY DEF Throw, RestInv
<1>2. "error" \in Results
  BY DEF Results
<1>3. /\ pc'[o] = "done" /\ outcome'[o] = "error"
      /\ \A p \in Ops : p # o => pc'[p] = pc[p] /\ outcome'[p] = outcome[p]
      /\ pc' \in [Ops -> Labels] /\ outcome' \in [Ops -> Results] /\ job' = job /\ tries' = tries
  BY <1>1, <1>2, EndMoves
<1>4. w \in [seen : Nat, doc : Documents]
  BY WrittenTyped DEF TypeOK
<1>5. faults' \in 0..Faults
  BY <1>1, FaultsAssumption DEF TypeOK
<1>6. TypeOK'
  BY <1>1, <1>3, <1>4, <1>5 DEF TypeOK, WellFormed, Labels, Results
<1>7. w.seen <= rev /\ (w.seen = rev => Legal(w.doc))
  BY <1>1, WrittenLegal DEF Local, Decided
<1>8. DoubtInv'
  BY <1>1, <1>7 DEF RestInv, DoubtInv, Legal
<1>9. CodeInv'
  BY <1>1 DEF RestInv, CodeInv
<1>10. ASSUME NEW p \in Ops, Holding(p)'
       PROVE  Holding(p) /\ w.seen # rev
  <2>1. p # o /\ Holding(p)
    BY <1>3, <1>10 DEF Holding
  <2>2. ~Holding(o) /\ doc.phase = "claimed"
    BY <2>1 DEF RestInv, Alone, Local, Held
  <2>3. ASSUME seen[o] = rev PROVE FALSE
    <3>1. job[o] \in {"claim", "take", "revoke"}
      BY <1>1, <2>2 DEF Local, Ready, Holding
    <3> QED
      BY <1>1, <2>2, <2>3, <3>1 DEF Local, Ready, Decided
  <2> QED
    BY <2>1, <2>3
<1>11. ASSUME NEW p \in Ops PROVE Local(p)'
  <2>1. CASE p = o
    BY <1>3, <2>1, <1>1 DEF Local, Ready, Decided, Held, Reported, Holding
  <2>2. CASE p # o
    <3>1. Local(p) /\ pc'[p] = pc[p] /\ outcome'[p] = outcome[p] /\ job'[p] = job[p]
      BY <1>3, <2>2 DEF RestInv
    <3>2. Held(p)'
      BY <1>1, <1>10, <3>1 DEF Local, Held
    <3> QED
      BY <1>1, <3>1, <3>2 DEF Local, Ready, Decided, Reported
  <2> QED
    BY <2>1, <2>2
<1>12. \A p, q \in Ops : Alone(p, q)'
  BY <1>1, <1>3, <1>10 DEF RestInv, Alone
<1> QED
  BY <1>6, <1>8, <1>9, <1>11, <1>12 DEF RestInv

\* The holder presents the code: no other call holds it, and no write in doubt can land.
LEMMA ExchangeStep == ASSUME IInv, NEW o \in Ops, Exchange(o) PROVE IInv'
<1> USE DEF IInv
<1>1. /\ UNCHANGED <<doc, rev, doubt, faults, expired, kind, seen, copy, pick>>
      /\ pc[o] = "exchange" /\ Local(o) /\ exchanges' = exchanges + 1
  BY DEF Exchange, RestInv
<1>2. /\ exchanges' = 1 /\ doc.phase = "claimed" /\ job[o] = "keep"
      /\ \A w \in doubt : w.seen # rev
      /\ \A p \in Ops : p # o => ~Holding(p)
  <2>1. Holding(o)
    BY <1>1 DEF Holding
  <2> QED
    BY <1>1, <2>1 DEF RestInv, Local, Held, Ready, Alone
<1> DEFINE Leads(at) ==
        /\ pc'[o] = at /\ pc' \in [Ops -> Labels] /\ \A p \in Ops : p # o => pc'[p] = pc[p]
        /\ job' \in [Ops -> Jobs] /\ job'[o] = "keep"
        /\ \A p \in Ops : job'[p] = job[p]
        /\ tries' \in [Ops -> 0..Tries - 1]
        /\ found' \in [Ops -> Sets] /\ (at = "decide" => found'[o] # {})
        /\ \A p \in Ops : p # o => found'[p] = found[p] /\ outcome'[p] = outcome[p]
        /\ outcome' \in [Ops -> Results]
        /\ outcome'[o] = IF at = "done" THEN "error" ELSE "none"
<1>3. PICK at \in {"decide", "done"} : Leads(at)
  <2>1. CASE End(o, "error") /\ UNCHANGED found
    <3>1. "error" \in Results
      BY DEF Results
    <3> QED
      BY <1>2, <2>1, <3>1, EndMoves DEF TypeOK, Jobs
  <2>2. ASSUME NEW A \in (SUBSET Accounts) \ {{}}, found' = [found EXCEPT ![o] = A],
               Go(o, "decide", "keep")
        PROVE  Leads("decide")
    <3>1. "decide" \in Labels /\ "keep" \in Jobs
      BY DEF Labels, Jobs
    <3>2. found' \in [Ops -> Sets] /\ found'[o] = A /\ \A p \in Ops : p # o => found'[p] = found[p]
      BY <2>2 DEF TypeOK, Sets
    <3>3. outcome[o] = "none" /\ outcome \in [Ops -> Results]
      BY <1>1 DEF Local, Reported, TypeOK, Results
    <3> QED
      BY <1>2, <2>2, <3>1, <3>2, <3>3, GoMoves
  <2> QED
    BY <2>1, <2>2 DEF Exchange
<1>4. TypeOK'
  BY <1>1, <1>2, <1>3 DEF TypeOK, WellFormed, Labels, Jobs, Results
<1>5. CodeInv' /\ DoubtInv'
  BY <1>1, <1>2 DEF RestInv, CodeInv, DoubtInv
<1>6. ASSUME NEW p \in Ops PROVE Local(p)' /\ (Holding(p)' => p = o)
  <2>1. CASE p = o
    BY <1>1, <1>2, <1>3, <2>1 DEF Local, Ready, Decided, Held, Reported, Holding
  <2>2. CASE p # o
    BY <1>1, <1>2, <1>3, <2>2 DEF RestInv, Local, Ready, Decided, Held, Reported, Holding
  <2> QED
    BY <2>1, <2>2
<1>7. \A p, q \in Ops : Alone(p, q)'
  BY <1>1, <1>3, <1>6 DEF RestInv, Alone
<1> QED
  BY <1>4, <1>5, <1>6, <1>7 DEF RestInv
\* Who commits: the holder if it keeps accounts, and otherwise there is none.
LEMMA CommitAlone ==
  ASSUME IInv, NEW o \in Ops, pc[o] = "write", seen[o] = rev
  PROVE  \A p \in Ops : p # o => ~Holding(p)
<1> USE DEF IInv, RestInv
<1>1. CASE job[o] = "keep"
  BY <1>1 DEF Alone, Holding
<1>2. CASE job[o] # "keep"
  <2>1. doc.phase # "claimed"
    BY <1>2 DEF Local, Ready, Decided
  <2> QED
    BY <2>1 DEF Local, Held
<1> QED
  BY <1>1, <1>2

LEMMA CommitStep == ASSUME IInv, NEW o \in Ops, Commit(o) PROVE IInv'
<1> USE DEF IInv
<1>1. /\ UNCHANGED <<doubt, faults, expired, exchanges, kind, seen, copy, found, pick>>
      /\ pc[o] = "write" /\ seen[o] = rev /\ Local(o) /\ doc' = Written(o) /\ rev' = rev + 1
      /\ \/ job[o] = "claim" /\ Go(o, "exchange", "keep")
         \/ job[o] = "keep" /\ Go(o, "get", "take")
         \/ job[o] = "keep" /\ End(o, "accounts")
         \/ job[o] = "take" /\ End(o, "grants")
         \/ job[o] = "revoke" /\ End(o, "revoked")
  BY DEF Commit, Fits, Learned, RestInv
<1> DEFINE Leads(at, j, r) ==
        /\ pc'[o] = at /\ pc' \in [Ops -> Labels] /\ \A p \in Ops : p # o => pc'[p] = pc[p]
        /\ job' \in [Ops -> Jobs] /\ job'[o] = j
        /\ \A p \in Ops : p # o => job'[p] = job[p] /\ outcome'[p] = outcome[p]
        /\ tries' \in [Ops -> 0..Tries - 1]
        /\ outcome' \in [Ops -> Results] /\ outcome'[o] = r
<1>2. /\ outcome[o] = "none" /\ outcome \in [Ops -> Results] /\ copy[o] = doc
      /\ job \in [Ops -> Jobs] /\ tries \in [Ops -> 0..Tries - 1]
      /\ {"exchange", "get"} \subseteq Labels /\ {"keep", "take"} \subseteq Jobs
      /\ {"accounts", "grants", "revoked"} \subseteq Results
  BY <1>1 DEF Local, Reported, Decided, TypeOK, Labels, Jobs, Results
<1>3. \/ job[o] = "claim" /\ Leads("exchange", "keep", "none")
      \/ job[o] = "keep" /\ Leads("get", "take", "none")
      \/ job[o] = "keep" /\ Leads("done", "keep", "accounts")
      \/ job[o] = "take" /\ Leads("done", "take", "grants")
      \/ job[o] = "revoke" /\ Leads("done", "revoke", "revoked")
  <2>1. ASSUME NEW at \in {"exchange", "get"}, NEW j \in {"keep", "take"}, Go(o, at, j)
        PROVE  Leads(at, j, "none")
    BY <1>2, <2>1, GoMoves
  <2>2. ASSUME NEW r \in {"accounts", "grants", "revoked"}, End(o, r)
        PROVE  Leads("done", job[o], r)
    BY <1>2, <2>2, EndMoves
  <2> QED
    BY <1>1, <2>1, <2>2
<1>4. Legal(doc') /\ \A p \in Ops : p # o => ~Holding(p)
  BY <1>1, WrittenLegal, CommitAlone
<1>5. /\ pc'[o] # "write" /\ \A p \in Ops : p # o => pc'[p] = pc[p] /\ job'[p] = job[p] /\ outcome'[p] = outcome[p]
  BY <1>3
<1>6. /\ WellFormed(doc)' /\ CodeInv' /\ DoubtInv'
      /\ \A p \in Ops \ {o} : Local(p)' /\ ~Holding(p)'
  <2> DEFINE M == {o}
  <2>1. \A p \in Ops \ M : /\ ~Holding(p)
                         /\ pc'[p] = pc[p] /\ job'[p] = job[p] /\ outcome'[p] = outcome[p]
                         /\ seen'[p] = seen[p] /\ found'[p] = found[p] /\ pick'[p] = pick[p]
    BY <1>1, <1>4, <1>5
  <2>2. M \in SUBSET Ops
    OBVIOUS
  <2> HIDE DEF M
  <2>3. /\ WellFormed(doc)' /\ CodeInv' /\ DoubtInv'
        /\ \A p \in Ops \ M : Local(p)' /\ ~Holding(p)'
    BY <1>1, <1>4, <2>1, <2>2, Advance
  <2> QED
    BY <2>3 DEF M
<1>7. TypeOK'
  <2>1. pc' \in [Ops -> Labels] /\ job' \in [Ops -> Jobs] /\ outcome' \in [Ops -> Results]
        /\ tries' \in [Ops -> 0..Tries - 1] /\ rev' \in Nat
    BY <1>1, <1>3 DEF TypeOK
  <2> QED
    BY <1>1, <1>6, <2>1 DEF TypeOK, Labels, Jobs, Results
<1>8. \A w \in doubt' : w.seen \in Nat /\ w.seen # rev'
  <2>1. \A w \in doubt : w.seen \in Nat /\ w.seen <= rev
    BY DEF RestInv, DoubtInv, TypeOK
  <2>2. rev \in Nat
    BY DEF TypeOK
  <2> QED
    BY <1>1, <2>1, <2>2
<1>9. Local(o)' /\ \A p \in Ops : Alone(o, p)' /\ Alone(p, o)'
  <2>1. CASE job[o] = "claim" /\ Leads("exchange", "keep", "none")
    <3>1. doc.phase = "unclaimed" /\ exchanges = 0 /\ doc'.phase = "claimed"
      BY <1>1, <2>1 DEF Local, Decided, RestInv, CodeInv, Written, Document
    <3>2. Local(o)'
      BY <1>1, <1>8, <2>1, <3>1 DEF Local, Ready, Decided, Held, Reported, Holding
    <3> QED
      BY <1>6, <2>1, <3>2 DEF Alone
  <2>2. CASE job[o] = "keep" /\ Leads("get", "take", "none")
    <3>1. Local(o)' /\ ~Holding(o)'
      BY <2>2 DEF Local, Ready, Decided, Held, Reported, Holding
    <3> QED
      BY <2>2, <3>1 DEF Alone
  <2>3. CASE job[o] = "keep" /\ Leads("done", "keep", "accounts")
    <3>1. doc.phase = "claimed" /\ doc'.phase = "discovered" /\ doc'.accounts = found[o]
      BY <1>1, <2>3 DEF Local, Held, Holding, Written, Document
    <3>2. Local(o)' /\ ~Holding(o)'
      BY <1>1, <2>3, <3>1 DEF Local, Ready, Decided, Held, Reported, Holding
    <3>3. \A p \in Ops : p # o => outcome'[p] # "accounts"
      BY <2>3, <3>1 DEF RestInv, Local, Reported
    <3> QED
      BY <2>3, <3>2, <3>3 DEF Alone
  <2>4. CASE job[o] = "take" /\ Leads("done", "take", "grants")
    <3>1. doc.phase = "discovered" /\ doc'.phase = "completed" /\ doc'.grants = pick[o]
      BY <1>1, <2>4 DEF Local, Decided, Written, Document
    <3>2. Local(o)' /\ ~Holding(o)'
      BY <1>1, <2>4, <3>1 DEF Local, Ready, Decided, Held, Reported, Holding
    <3>3. \A p \in Ops : p # o => outcome'[p] # "grants"
      BY <2>4, <3>1 DEF RestInv, Local, Reported
    <3> QED
      BY <2>4, <3>2, <3>3 DEF Alone
  <2>5. CASE job[o] = "revoke" /\ Leads("done", "revoke", "revoked")
    <3>1. /\ doc.phase = "completed" /\ pick[o] # {} /\ pick[o] \cap doc.revoked = {}
          /\ doc'.phase = "completed" /\ doc'.revoked = doc.revoked \cup pick[o]
      BY <1>1, <2>5 DEF Local, Decided, Ready, Written, Document
    <3>2. Local(o)' /\ ~Holding(o)'
      BY <1>1, <2>5, <3>1 DEF Local, Ready, Decided, Held, Reported, Holding
    <3>3. \A p \in Ops : p # o /\ outcome'[p] = "revoked" => pick[p] # pick[o]
      BY <2>5, <3>1 DEF RestInv, Local, Reported
    <3> QED
      BY <1>1, <2>5, <3>2, <3>3 DEF Alone
  <2> QED
    BY <1>3, <2>1, <2>2, <2>3, <2>4, <2>5
<1>10. \A p, q \in Ops : Alone(p, q)'
  <2>1. ASSUME NEW p \in Ops, NEW q \in Ops, p # o, q # o PROVE Alone(p, q)'
    BY <1>1, <1>5, <1>6, <2>1 DEF RestInv, Alone
  <2> QED
    BY <1>9, <2>1
<1> QED
  BY <1>6, <1>7, <1>9, <1>10 DEF RestInv

LEMMA LandStep == ASSUME IInv, Land PROVE IInv'
<1> USE DEF IInv
<1>1. PICK w \in doubt : w.seen = rev /\ doubt' = doubt \ {w} /\ doc' = w.doc /\ rev' = rev + 1
  BY DEF Land, Fits
<1>2. UNCHANGED <<faults, expired, exchanges, kind, pc, job, seen, copy, tries, found, pick, outcome>>
  BY DEF Land, calls
<1>3. Legal(doc') /\ \A p \in Ops : ~Holding(p)
  BY <1>1 DEF RestInv, DoubtInv, Local, Held
<1>4. /\ WellFormed(doc)' /\ CodeInv' /\ DoubtInv'
      /\ \A p \in Ops : Local(p)' /\ ~Holding(p)'
  <2> DEFINE M == {}
  <2>1. M \in SUBSET Ops
    OBVIOUS
  <2>2. \A p \in Ops \ M : /\ ~Holding(p)
                         /\ pc'[p] = pc[p] /\ job'[p] = job[p] /\ outcome'[p] = outcome[p]
                         /\ seen'[p] = seen[p] /\ found'[p] = found[p] /\ pick'[p] = pick[p]
    BY <1>2, <1>3
  <2>3. \A p \in Ops : p \in Ops \ M
    OBVIOUS
  <2> HIDE DEF M
  <2>4. doubt' \subseteq doubt
    BY <1>1
  <2>5. /\ WellFormed(doc)' /\ CodeInv' /\ DoubtInv'
        /\ \A p \in Ops \ M : Local(p)' /\ ~Holding(p)'
    BY <1>1, <1>2, <1>3, <2>1, <2>2, <2>4, Advance
  <2> QED
    BY <2>3, <2>5
<1>5. TypeOK'
  BY <1>1, <1>2, <1>4 DEF TypeOK
<1>6. \A p, q \in Ops : Alone(p, q)'
  BY <1>2, <1>4 DEF RestInv, Alone
<1> QED
  BY <1>4, <1>5, <1>6 DEF RestInv

LEMMA NextIInv == IInv /\ [Next]_vars => IInv'
<1> SUFFICES ASSUME IInv, [Next]_vars PROVE IInv'
  OBVIOUS
<1>1. CASE Begin
  BY <1>1, BeginStep
<1>2. CASE Expire
  BY <1>2, ExpireStep
<1>3. CASE Land
  BY <1>3, LandStep
<1>4. ASSUME NEW o \in Ops, Step(o) PROVE IInv'
  BY <1>4, CallStep, GetStep, LookStep, ChooseStep, DecideStep, CommitStep, LoseStep, ThrowStep,
     ExchangeStep, FailStep DEF Step
<1>5. CASE UNCHANGED vars
  <2>1. UNCHANGED <<doc, rev, doubt, faults, expired, exchanges>>
    BY <1>5 DEF vars
  <2>2. UNCHANGED <<kind, pc, job, seen, copy, tries, found, pick, outcome>>
    BY <1>5 DEF vars, calls
  <2>3. TypeOK'
    BY <2>1, <2>2 DEF IInv, TypeOK
  <2>4. RestInv'
    BY <2>1, <2>2 DEF IInv, RestInv, CodeInv, DoubtInv, Legal, Local, Ready, Decided, Held,
       Reported, Alone, Holding
  <2> QED
    BY <2>3, <2>4 DEF IInv
<1> QED
  BY <1>1, <1>2, <1>3, <1>4, <1>5 DEF Next

LEMMA Invariance == Spec => []IInv
BY InitIInv, NextIInv, PTL DEF Spec

--------------------------------------------------------------------------
\* The typing invariant: the stored document is always a well-formed ConnectionRecord.
THEOREM TypeCorrect == Spec => []TypeOK
<1>1. IInv => TypeOK
  BY DEF IInv
<1> QED
  BY <1>1, Invariance, PTL

\* Two account pickers of one attempt show the same accounts, and they are the stored ones.
THEOREM PickersAlwaysAgree == Spec => []PickersAgree
<1>1. IInv => PickersAgree
  BY DEF IInv, RestInv, Local, Reported, Alone, PickersAgree
<1> QED
  BY <1>1, Invariance, PTL

\* An attempt is consumed by one select, with all the grants it picked and no other.
THEOREM AttemptHasOneWinner == Spec => []OneWinner
<1>1. IInv => OneWinner
  BY DEF IInv, RestInv, Local, Reported, Alone, OneWinner
<1> QED
  BY <1>1, Invariance, PTL

\* Two racing revokes of a grant report success once, and no later write brings it back.
THEOREM GrantRevokedOnce == Spec => []RevokedOnce
<1>1. IInv => RevokedOnce
  BY DEF IInv, RestInv, Local, Reported, Alone, RevokedOnce
<1> QED
  BY <1>1, Invariance, PTL

\* A legal next document is a step of the abstract attempt.
LEMMA LegalImplements ==
  ASSUME Legal(doc'), exchanges' = exchanges PROVE Attempt!Next
BY DEF Legal, Document, Sets, Attempt!Next, Attempt!Claim, Attempt!Discover, Attempt!Complete,
   Attempt!Revoke

LEMMA StepImplements == IInv /\ [Next]_vars => [Attempt!Next]_Attempt!vars
<1> SUFFICES ASSUME IInv, [Next]_vars PROVE [Attempt!Next]_Attempt!vars
  OBVIOUS
<1>1. CASE UNCHANGED <<doc, exchanges>>
  BY <1>1 DEF Attempt!vars
<1>2. CASE Begin
  <2>1. WellFormed(doc)
    BY DEF IInv, TypeOK
  <2> QED
    BY <1>2, <2>1 DEF Begin, WellFormed, Document, Attempt!Next, Attempt!Begin
<1>3. CASE Land
  <2>1. Legal(doc') /\ exchanges' = exchanges
    BY <1>3 DEF Land, Fits, IInv, RestInv, DoubtInv
  <2> QED
    BY <2>1, LegalImplements
<1>4. ASSUME NEW o \in Ops, Commit(o) PROVE Attempt!Next
  <2>1. Legal(doc') /\ exchanges' = exchanges
    BY <1>4, WrittenLegal DEF Commit, Fits
  <2> QED
    BY <2>1, LegalImplements
<1>5. ASSUME NEW o \in Ops, Exchange(o) PROVE Attempt!Next
  <2>1. doc.phase = "claimed" /\ exchanges = 0 /\ exchanges' = 1 /\ doc' = doc
    BY <1>5 DEF IInv, RestInv, Local, Held, Holding, Exchange
  <2> QED
    BY <2>1 DEF Attempt!Next, Attempt!Exchange
<1>6. ASSUME NEW o \in Ops,
             Call(o) \/ Get(o) \/ Look(o) \/ Choose(o) \/ Decide(o) \/ Lose(o) \/ Throw(o) \/ Fail(o)
      PROVE  UNCHANGED <<doc, exchanges>>
  BY <1>6 DEF Call, Get, Look, Choose, Decide, Lose, Throw, Fail
<1>7. Expire => UNCHANGED <<doc, exchanges>>
  BY DEF Expire
<1>8. UNCHANGED vars => UNCHANGED <<doc, exchanges>>
  BY DEF vars
<1> QED
  BY <1>1, <1>2, <1>3, <1>4, <1>5, <1>6, <1>7, <1>8 DEF Next, Step

\* The store, with its races, its writes in doubt and the calls that die, keeps what the
\* ConnectionStore interface promises: one exchange, one set of accounts, one completion.
THEOREM Implementation == Spec => OneUseAttempt
<1>1. Init => Attempt!Init
  BY DEF Init, Document, Attempt!Init
<1> QED
  BY <1>1, StepImplements, Invariance, PTL DEF Spec, OneUseAttempt, Attempt!Spec

--------------------------------------------------------------------------
(* Contention.  A call that lost a check has seen the document move on: an  *)
(* update other than a revocation is then refused by its next decision, and *)
(* a revocation counts one more revoked grant for each check it loses.      *)

\* The document is past what an update j could still do to it.
Passed(j) == \/ j = "claim" /\ doc.phase \in {"claimed", "discovered", "completed"}
             \/ j = "take" /\ doc.phase = "completed"

\* The revoked grants that a call knows of.
Known(o) == IF pc[o] = "decide" THEN doc.revoked ELSE copy[o].revoked

\* A check that will be lost will be lost to progress.
Overtaken(o) ==
  pc[o] = "write" /\ seen[o] # rev =>
    \/ Passed(job[o])
    \/ job[o] = "revoke" /\ copy[o].revoked \subseteq doc.revoked /\ copy[o].revoked # doc.revoked

Counted(o) ==
  /\ pc[o] \in {"idle", "get", "look", "exchange"} => tries[o] = 0
  /\ pc[o] \in {"decide", "write"} /\ job[o] = "revoke" => tries[o] <= Cardinality(Known(o))
  /\ pc[o] \in {"decide", "write"} /\ job[o] # "revoke" =>
       tries[o] = 0 \/ (pc[o] = "decide" /\ Passed(job[o]))
  /\ Tries > 1 /\ outcome[o] = "contended" => Cardinality(doc.revoked) >= Tries

CountInv == IsFiniteSet(doc.revoked) /\ \A o \in Ops : Overtaken(o) /\ Counted(o)

LEMMA InitCount == Init => CountInv
<1> SUFFICES ASSUME Init PROVE CountInv
  OBVIOUS
<1>1. IsFiniteSet(doc.revoked)
  BY FS_EmptySet DEF Init, Document
<1> QED
  BY <1>1 DEF Init, CountInv, Overtaken, Counted

\* The revoked grants only grow, and they do when the attempt is completed.
LEMMA LegalGrows ==
  ASSUME IsFiniteSet(doc.revoked), Legal(doc')
  PROVE  /\ IsFiniteSet(doc.revoked)' /\ doc.revoked \subseteq doc'.revoked
         /\ Cardinality(doc.revoked) <= Cardinality(doc'.revoked)
         /\ doc.phase = "completed" => doc'.revoked # doc.revoked
         /\ \A j : Passed(j) => Passed(j)'
<1>1. \/ doc'.revoked = doc.revoked /\ doc.phase # "completed"
      \/ doc.phase = "completed" /\ \E g \in doc.grants \ doc.revoked : doc'.revoked = doc.revoked \cup {g}
  BY DEF Legal, Document
<1>2. IsFiniteSet(doc'.revoked)
  BY <1>1, FS_AddElement
<1>3. doc.revoked \subseteq doc'.revoked
  BY <1>1
<1>4. Cardinality(doc.revoked) <= Cardinality(doc'.revoked)
  BY <1>2, <1>3, FS_Subset
<1>5. \A j : Passed(j) => Passed(j)'
  BY DEF Passed, Legal, Document
<1> QED
  BY <1>1, <1>2, <1>3, <1>4, <1>5

\* What the next document means for a call that does not write it.
LEMMA CountAdvance ==
  ASSUME IInv, CountInv, Legal(doc'), rev' = rev + 1, NEW p \in Ops, ~Holding(p),
         pc'[p] = pc[p], job'[p] = job[p], outcome'[p] = outcome[p], tries'[p] = tries[p],
         seen'[p] = seen[p], copy'[p] = copy[p]
  PROVE  Overtaken(p)' /\ Counted(p)'
<1>1. Overtaken(p) /\ Counted(p) /\ Local(p) /\ IsFiniteSet(doc.revoked)
  BY DEF CountInv, IInv, RestInv
<1>2. /\ IsFiniteSet(doc.revoked)' /\ doc.revoked \subseteq doc'.revoked
      /\ Cardinality(doc.revoked) <= Cardinality(doc'.revoked)
      /\ doc.phase = "completed" => doc'.revoked # doc.revoked
      /\ \A j : Passed(j) => Passed(j)'
  BY <1>1, LegalGrows
<1>3. /\ Cardinality(doc.revoked) \in Nat /\ Cardinality(doc'.revoked) \in Nat
      /\ tries[p] \in Nat /\ Tries \in Nat /\ job[p] \in Jobs
  BY <1>1, <1>2, FS_CardinalityType, TriesAssumption DEF IInv, TypeOK, Jobs
<1>4. Overtaken(p)'
  <2>1. SUFFICES ASSUME pc[p] = "write"
                 PROVE  \/ Passed(job[p])'
                        \/ /\ job[p] = "revoke" /\ copy[p].revoked \subseteq doc'.revoked
                           /\ copy[p].revoked # doc'.revoked
    BY DEF Overtaken
  <2>2. CASE seen[p] # rev
    BY <1>1, <1>2, <2>1, <2>2 DEF Overtaken
  <2>3. CASE seen[p] = rev
    <3>1. copy[p] = doc /\ job[p] # "keep"
      BY <1>1, <2>1, <2>3 DEF Local, Decided, Holding
    <3>2. CASE job[p] \in {"claim", "take"}
      <4>1. \/ job[p] = "claim" /\ doc.phase = "unclaimed"
            \/ job[p] = "take" /\ doc.phase = "discovered"
        BY <1>1, <2>1, <2>3, <3>2 DEF Local, Decided
      <4> QED
        BY <4>1 DEF Legal, Document, Passed
    <3>3. CASE job[p] = "revoke"
      BY <1>1, <1>2, <2>1, <3>1, <3>3 DEF Local, Ready
    <3>4. job[p] \in {"claim", "keep", "take", "revoke"}
      BY <1>1, <2>1 DEF Local, Ready
    <3> QED
      BY <3>1, <3>2, <3>3, <3>4
  <2> QED
    BY <2>2, <2>3
<1>5. Counted(p)'
  <2>1. pc[p] \in {"decide", "write"} /\ job[p] = "revoke" => tries[p] <= Cardinality(Known(p))'
    <3>1. CASE pc[p] = "decide"
      BY <1>1, <1>2, <1>3, <3>1 DEF Counted, Known
    <3>2. CASE pc[p] = "write"
      BY <1>1, <3>2 DEF Counted, Known
    <3> QED
      BY <3>1, <3>2
  <2>2. Tries > 1 /\ outcome[p] = "contended" => Cardinality(doc'.revoked) >= Tries
    BY <1>1, <1>2, <1>3 DEF Counted
  <2>3. pc[p] \in {"decide", "write"} /\ job[p] # "revoke" =>
          tries[p] = 0 \/ (pc[p] = "decide" /\ Passed(job[p])')
    BY <1>1, <1>2 DEF Counted
  <2> QED
    BY <1>1, <2>1, <2>2, <2>3 DEF Counted
<1> QED
  BY <1>4, <1>5

\* What a step of o that leaves the document alone means for the other calls.
LEMMA CountElse ==
  ASSUME CountInv, UNCHANGED <<doc, rev>>, NEW p \in Ops,
         pc'[p] = pc[p], job'[p] = job[p], outcome'[p] = outcome[p], tries'[p] = tries[p],
         seen'[p] = seen[p], copy'[p] = copy[p]
  PROVE  Overtaken(p)' /\ Counted(p)'
BY DEF CountInv, Overtaken, Counted, Known, Passed

\* A step of o that leaves the document alone.
LEMMA CountQuiet ==
  ASSUME IInv, CountInv, UNCHANGED <<doc, rev>>, NEW o \in Ops, Overtaken(o)', Counted(o)',
         \A p \in Ops : p # o => /\ pc'[p] = pc[p] /\ job'[p] = job[p] /\ outcome'[p] = outcome[p]
                              /\ tries'[p] = tries[p] /\ seen'[p] = seen[p] /\ copy'[p] = copy[p]
  PROVE  CountInv'
<1>1. ASSUME NEW p \in Ops, p # o PROVE Overtaken(p)' /\ Counted(p)'
  BY <1>1, CountElse
<1> QED
  BY <1>1 DEF CountInv

LEMMA GoCounts ==
  ASSUME IInv, NEW o \in Ops, NEW at, NEW j, Go(o, at, j)
  PROVE  /\ pc'[o] = at /\ job'[o] = j /\ outcome' = outcome
         /\ tries'[o] = IF j = job[o] THEN tries[o] ELSE 0
         /\ \A p \in Ops : p # o => pc'[p] = pc[p] /\ job'[p] = job[p] /\ tries'[p] = tries[p]
BY DEF IInv, TypeOK, Go

LEMMA EndCounts ==
  ASSUME IInv, NEW o \in Ops, NEW r, End(o, r)
  PROVE  /\ pc'[o] = "done" /\ outcome'[o] = r /\ job' = job /\ tries' = tries
         /\ \A p \in Ops : p # o => pc'[p] = pc[p] /\ outcome'[p] = outcome[p]
BY DEF IInv, TypeOK, End

\* A call that ends for another reason than contention.
LEMMA CountEnd ==
  ASSUME IInv, CountInv, NEW o \in Ops, NEW r, End(o, r), UNCHANGED <<doc, rev, seen, copy>>,
         r = "contended" /\ Tries > 1 => Cardinality(doc.revoked) >= Tries
  PROVE  CountInv'
<1>1. /\ pc'[o] = "done" /\ outcome'[o] = r /\ job' = job /\ tries' = tries
      /\ \A p \in Ops : p # o => pc'[p] = pc[p] /\ outcome'[p] = outcome[p]
  BY EndCounts
<1>2. Overtaken(o)' /\ Counted(o)'
  BY <1>1 DEF Overtaken, Counted
<1> QED
  BY <1>1, <1>2, CountQuiet

\* A call that goes on with all its tries.
LEMMA CountGo ==
  ASSUME IInv, CountInv, NEW o \in Ops, NEW at \in {"get", "look", "relook", "decide"}, NEW j, Go(o, at, j),
         UNCHANGED <<doc, rev, seen, copy>>, pc[o] # "done", at = "relook" \/ j # job[o] \/ tries[o] = 0
  PROVE  CountInv'
<1>1. /\ pc'[o] = at /\ job'[o] = j /\ outcome' = outcome
      /\ at # "relook" => tries'[o] = 0
      /\ \A p \in Ops : p # o => pc'[p] = pc[p] /\ job'[p] = job[p] /\ tries'[p] = tries[p]
  BY GoCounts
<1>2. outcome'[o] = "none"
  BY <1>1 DEF IInv, RestInv, Local, Reported
<1>3. Cardinality(doc.revoked) \in Nat
  BY FS_CardinalityType DEF CountInv
<1>4. Overtaken(o)' /\ Counted(o)'
  BY <1>1, <1>2, <1>3 DEF Overtaken, Counted, Known
<1> QED
  BY <1>1, <1>4, CountQuiet

LEMMA DecideCounts == ASSUME IInv, CountInv, NEW o \in Ops, Decide(o) PROVE CountInv'
<1>1. pc[o] = "decide" /\ UNCHANGED <<doc, rev>> /\ Counted(o) /\ outcome[o] = "none"
  BY DEF Decide, CountInv, IInv, RestInv, Local, Reported
<1>2. CASE /\ Accepts(o) /\ Go(o, "write", job[o])
           /\ seen' = [seen EXCEPT ![o] = rev] /\ copy' = [copy EXCEPT ![o] = doc]
  <2>1. /\ pc'[o] = "write" /\ job'[o] = job[o] /\ outcome' = outcome /\ tries'[o] = tries[o]
        /\ \A p \in Ops : p # o => pc'[p] = pc[p] /\ job'[p] = job[p] /\ tries'[p] = tries[p]
    BY <1>2, GoCounts
  <2>2. /\ seen'[o] = rev /\ copy'[o] = doc
        /\ \A p \in Ops : p # o => seen'[p] = seen[p] /\ copy'[p] = copy[p]
    BY <1>2 DEF IInv, TypeOK
  <2>3. ~Passed(job[o])
    BY <1>2 DEF Accepts, Passed
  <2>4. Overtaken(o)' /\ Counted(o)'
    BY <1>1, <2>1, <2>2, <2>3 DEF Overtaken, Counted, Known
  <2> QED
    BY <1>1, <2>1, <2>2, <2>4, CountQuiet
<1>3. CASE Go(o, "relook", "claim") /\ UNCHANGED <<seen, copy>>
  BY <1>1, <1>3, CountGo
<1>4. CASE (End(o, "unrevoked") \/ End(o, "error")) /\ UNCHANGED <<seen, copy>>
  BY <1>1, <1>4, CountEnd
<1> QED
  BY <1>2, <1>3, <1>4 DEF Decide

LEMMA LoseCounts == ASSUME IInv, CountInv, NEW o \in Ops, Lose(o) PROVE CountInv'
<1>1. /\ pc[o] = "write" /\ seen[o] # rev /\ UNCHANGED <<doc, rev, seen, copy>>
      /\ Overtaken(o) /\ Counted(o) /\ outcome[o] = "none" /\ IsFiniteSet(doc.revoked)
  BY DEF Lose, Fits, CountInv, IInv, RestInv, Local, Reported
<1>2. \/ Passed(job[o]) /\ job[o] # "revoke" /\ tries[o] = 0
      \/ job[o] = "revoke" /\ tries[o] + 1 <= Cardinality(doc.revoked)
  <2>1. CASE job[o] # "revoke"
    BY <1>1, <2>1 DEF Overtaken, Counted
  <2>2. CASE job[o] = "revoke"
    <3>1. /\ copy[o].revoked \subseteq doc.revoked /\ copy[o].revoked # doc.revoked
          /\ tries[o] <= Cardinality(copy[o].revoked)
      BY <1>1, <2>2 DEF Overtaken, Counted, Known, Passed
    <3>2. /\ Cardinality(copy[o].revoked) <= Cardinality(doc.revoked)
          /\ Cardinality(copy[o].revoked) # Cardinality(doc.revoked)
          /\ IsFiniteSet(copy[o].revoked)
      BY <1>1, <3>1, FS_Subset
    <3>3. /\ Cardinality(copy[o].revoked) \in Nat /\ Cardinality(doc.revoked) \in Nat
          /\ tries[o] \in Nat
      BY <1>1, <3>2, FS_CardinalityType DEF IInv, TypeOK
    <3> QED
      BY <2>2, <3>1, <3>2, <3>3
  <2> QED
    BY <2>1, <2>2
<1>3. CASE tries[o] + 1 >= Tries /\ End(o, "contended")
  <2>1. Tries > 1 => Cardinality(doc.revoked) >= Tries
    <3>1. Tries \in Nat /\ tries[o] \in Nat /\ Cardinality(doc.revoked) \in Nat
      BY <1>1, TriesAssumption, FS_CardinalityType DEF IInv, TypeOK
    <3> QED
      BY <1>2, <1>3, <3>1
  <2> QED
    BY <1>1, <1>3, <2>1, CountEnd
<1>4. CASE /\ UNCHANGED <<job, outcome>>
           /\ pc' = [pc EXCEPT ![o] = "decide"] /\ tries' = [tries EXCEPT ![o] = @ + 1]
  <2>1. /\ pc'[o] = "decide" /\ tries'[o] = tries[o] + 1
        /\ \A p \in Ops : p # o => pc'[p] = pc[p] /\ tries'[p] = tries[p]
    BY <1>4 DEF IInv, TypeOK
  <2>2. Passed(job[o])' <=> Passed(job[o])
    BY <1>1, <1>4 DEF Passed
  <2>3. Overtaken(o)' /\ Counted(o)'
    BY <1>1, <1>2, <1>4, <2>1, <2>2 DEF Overtaken, Counted, Known
  <2> QED
    BY <1>1, <1>4, <2>1, <2>3, CountQuiet
<1>5. tries[o] + 1 < Tries \/ tries[o] + 1 >= Tries
  BY TriesAssumption DEF IInv, TypeOK
<1> QED
  BY <1>3, <1>4, <1>5 DEF Lose

LEMMA CommitCounts == ASSUME IInv, CountInv, NEW o \in Ops, Commit(o) PROVE CountInv'
<1>1. /\ UNCHANGED <<seen, copy>> /\ rev' = rev + 1 /\ pc[o] = "write" /\ outcome[o] = "none"
      /\ \/ job[o] = "claim" /\ Go(o, "exchange", "keep")
         \/ job[o] = "keep" /\ Go(o, "get", "take")
         \/ End(o, "accounts") \/ End(o, "grants") \/ End(o, "revoked")
  BY DEF Commit, Learned, IInv, RestInv, Local, Reported
<1>2. Legal(doc') /\ \A p \in Ops : p # o => ~Holding(p)
  BY WrittenLegal, CommitAlone DEF Commit, Fits
<1>3. /\ \/ pc'[o] \in {"exchange", "get"} /\ tries'[o] = 0 /\ outcome'[o] = "none"
         \/ pc'[o] = "done" /\ outcome'[o] # "contended"
      /\ \A p \in Ops : p # o => /\ pc'[p] = pc[p] /\ job'[p] = job[p]
                              /\ outcome'[p] = outcome[p] /\ tries'[p] = tries[p]
  <2>1. ASSUME NEW at \in {"exchange", "get"}, NEW j, j # job[o], Go(o, at, j)
        PROVE  /\ pc'[o] = at /\ tries'[o] = 0 /\ outcome'[o] = "none"
               /\ \A p \in Ops : p # o => /\ pc'[p] = pc[p] /\ job'[p] = job[p]
                                       /\ outcome'[p] = outcome[p] /\ tries'[p] = tries[p]
    BY <1>1, <2>1, GoCounts
  <2>2. ASSUME NEW r, r # "contended", End(o, r)
        PROVE  /\ pc'[o] = "done" /\ outcome'[o] # "contended"
               /\ \A p \in Ops : p # o => /\ pc'[p] = pc[p] /\ job'[p] = job[p]
                                       /\ outcome'[p] = outcome[p] /\ tries'[p] = tries[p]
    BY <2>2, EndCounts
  <2> QED
    BY <1>1, <2>1, <2>2
<1>4. Overtaken(o)' /\ Counted(o)'
  BY <1>3 DEF Overtaken, Counted
<1>5. ASSUME NEW p \in Ops, p # o PROVE Overtaken(p)' /\ Counted(p)'
  BY <1>1, <1>2, <1>3, <1>5, CountAdvance
<1>6. IsFiniteSet(doc.revoked)'
  BY <1>2, LegalGrows DEF CountInv
<1> QED
  BY <1>4, <1>5, <1>6 DEF CountInv

LEMMA LandCounts == ASSUME IInv, CountInv, Land PROVE CountInv'
<1>1. Legal(doc') /\ rev' = rev + 1 /\ \A p \in Ops : ~Holding(p)
  BY DEF Land, Fits, IInv, RestInv, DoubtInv, Local, Held
<1>2. UNCHANGED <<pc, job, outcome, tries, seen, copy>>
  BY DEF Land, calls
<1>3. ASSUME NEW p \in Ops PROVE Overtaken(p)' /\ Counted(p)'
  BY <1>1, <1>2, CountAdvance
<1>4. IsFiniteSet(doc.revoked)'
  BY <1>1, LegalGrows DEF CountInv
<1> QED
  BY <1>3, <1>4 DEF CountInv

\* Nobody is about to write an attempt that has not begun.
LEMMA BeginCounts == ASSUME IInv, CountInv, Begin PROVE CountInv'
<1>1. /\ doc.phase = "absent" /\ doc'.revoked = {} /\ doc.revoked = {}
      /\ UNCHANGED <<pc, job, outcome, tries, seen, copy>>
  BY DEF Begin, calls, Document, IInv, TypeOK, WellFormed
<1>2. IsFiniteSet(doc.revoked)'
  BY <1>1, FS_EmptySet
<1>3. ASSUME NEW p \in Ops PROVE Overtaken(p)' /\ Counted(p)'
  <2>1. Overtaken(p) /\ Counted(p) /\ Local(p) /\ ~Passed(job[p])
    BY <1>1 DEF CountInv, IInv, RestInv, Passed
  <2>2. pc[p] # "write"
    BY <1>1, <2>1 DEF Overtaken, Local, Ready, Decided, Held, Holding
  <2>3. Known(p)' = Known(p)
    BY <1>1 DEF Known
  <2> QED
    BY <1>1, <2>1, <2>2, <2>3 DEF Overtaken, Counted
<1> QED
  BY <1>2, <1>3 DEF CountInv

LEMMA NextCount == IInv /\ CountInv /\ [Next]_vars => CountInv'
<1> SUFFICES ASSUME IInv, CountInv, [Next]_vars PROVE CountInv'
  OBVIOUS
<1>1. CASE Begin
  BY <1>1, BeginCounts
<1>2. CASE Expire \/ UNCHANGED vars
  <2>1. UNCHANGED <<doc, rev, pc, job, outcome, tries, seen, copy>>
    BY <1>2 DEF Expire, calls, vars
  <2>2. ASSUME NEW p \in Ops PROVE Overtaken(p)' /\ Counted(p)'
    BY <2>1, CountElse
  <2> QED
    BY <2>1, <2>2 DEF CountInv
<1>3. CASE Land
  BY <1>3, LandCounts
<1>4. ASSUME NEW o \in Ops, Step(o) PROVE CountInv'
  <2>0. Counted(o) /\ Local(o)
    BY DEF CountInv, IInv, RestInv
  <2>1. CASE Call(o)
    <3>1. PICK at \in {"get", "decide"}, j \in {"claim", "take", "revoke"} : Go(o, at, j)
      BY <2>1 DEF Call
    <3>2. UNCHANGED <<doc, rev, seen, copy>> /\ tries[o] = 0 /\ pc[o] # "done"
      BY <2>0, <2>1 DEF Call, Counted
    <3> QED
      BY <3>1, <3>2, CountGo
  <2>2. CASE Get(o)
    <3>1. UNCHANGED <<doc, rev, seen, copy>> /\ tries[o] = 0 /\ pc[o] # "done"
      BY <2>0, <2>2 DEF Get, Counted
    <3> QED
      BY <2>2, <3>1, CountGo, CountEnd DEF Get
  <2>3. CASE Look(o)
    <3>1. /\ UNCHANGED <<doc, rev, seen, copy>> /\ pc[o] \in {"look", "relook"} /\ job[o] = "claim"
          /\ pc[o] = "look" => tries[o] = 0
      BY <2>0, <2>3 DEF Look, Counted
    <3>2. \/ Go(o, "get", "take") \/ End(o, "accounts") \/ End(o, "error")
          \/ pc[o] = "look" /\ Go(o, "decide", "claim")
      BY <2>3 DEF Look, Learned
    <3> QED
      BY <3>1, <3>2, CountGo, CountEnd
  <2>4. CASE Choose(o)
    <3>1. /\ UNCHANGED <<doc, rev, seen, copy>> /\ tries[o] = 0 /\ pc[o] # "done"
          /\ Go(o, "decide", "take")
      BY <2>0, <2>4 DEF Choose, Counted
    <3> QED
      BY <3>1, CountGo
  <2>5. CASE Exchange(o)
    <3>1. /\ UNCHANGED <<doc, rev, seen, copy>> /\ tries[o] = 0 /\ pc[o] # "done"
          /\ Go(o, "decide", "keep") \/ End(o, "error")
      BY <2>0, <2>5 DEF Exchange, Counted
    <3> QED
      BY <3>1, CountGo, CountEnd
  <2>6. CASE Throw(o) \/ Fail(o)
    BY <2>6, CountEnd DEF Throw, Fail
  <2> QED
    BY <1>4, <2>1, <2>2, <2>3, <2>4, <2>5, <2>6, DecideCounts, CommitCounts, LoseCounts DEF Step
<1> QED
  BY <1>1, <1>2, <1>3, <1>4 DEF Next

\* A call gives up on contention only after as many revocations as it had tries: it never
\* does before the attempt is completed, and an attempt with fewer grants never makes it.
THEOREM ContentionIsRevocation == Spec => []ContentionIsProgress
<1>1. CountInv => ContentionIsProgress
  BY DEF CountInv, Counted, ContentionIsProgress
<1>2. Init => IInv /\ CountInv
  BY InitIInv, InitCount
<1>3. IInv /\ CountInv /\ [Next]_vars => IInv' /\ CountInv'
  BY NextIInv, NextCount
<1> QED
  BY <1>1, <1>2, <1>3, PTL DEF Spec

\* With fewer accounts than tries no call of the store ever reports contention.
THEOREM FewAccountsNeverContend ==
  ASSUME IsFiniteSet(Accounts), Tries > 1, Cardinality(Accounts) < Tries
  PROVE  Spec => [](\A o \in Ops : outcome[o] # "contended")
<1>1. TypeOK /\ ContentionIsProgress => \A o \in Ops : outcome[o] # "contended"
  <2> SUFFICES ASSUME TypeOK, ContentionIsProgress, NEW o \in Ops, outcome[o] = "contended" PROVE FALSE
    OBVIOUS
  <2>1. Cardinality(doc.revoked) >= Tries
    BY DEF ContentionIsProgress
  <2>2. doc.revoked \in SUBSET Accounts
    BY DEF TypeOK, WellFormed, Documents, Sets
  <2>3. IsFiniteSet(doc.revoked) /\ Cardinality(doc.revoked) <= Cardinality(Accounts)
    BY <2>2, FS_Subset
  <2> QED
    BY <2>1, <2>3, FS_CardinalityType, TriesAssumption
<1> QED
  BY <1>1, TypeCorrect, ContentionIsRevocation, PTL

--------------------------------------------------------------------------
(* The routes of ConnectHandlers, for any number of requests, accounts and  *)
(* failures.  They take the steps of Connections and no other, so they      *)
(* keep whatever is proved of it; and what a request, or a write in doubt,  *)
(* removes has a token that is dead.                                        *)

\* The revoked grants of a set have tokens that are dead, or cannot be revoked.
Buried(grants) == grants \cap Revocable \subseteq dead

\* Whatever is removed, or will be, is buried: in the store, in the copies the calls decided
\* on, in the writes in doubt, and in what a disconnect or its revoke names.
RevokeInv ==
  /\ Buried(doc.revoked)
  /\ \A w \in doubt : Buried(w.doc.revoked)
  /\ \A o \in Ops : /\ Buried(copy[o].revoked)
                    /\ route[o] = "remove" => Buried(target[o])
                    /\ job[o] = "revoke" => Buried(pick[o])

\* A route that activates or clears its cookie has been given the grants.
ActivateInv ==
  /\ \A o \in Ops : route[o] = "activate" => outcome[o] = "grants"
  /\ ForgottenIsConsumed /\ ActiveIsGranted

HInv == IInv /\ HandlersTypeOK /\ RevokeInv /\ ActivateInv

--------------------------------------------------------------------------
\* Every step of the routes is a step of the manager and its store, or none.
LEMMA StepRefines == [HandlersNext]_handlerVars => [Next]_vars
<1> SUFFICES ASSUME [HandlersNext]_handlerVars PROVE [Next]_vars
  OBVIOUS
<1>1. CASE UNCHANGED handlerVars
  BY <1>1 DEF handlerVars
<1>2. CASE Begin \/ Expire \/ Land
  BY <1>2 DEF Next
<1>3. CASE Remember
  BY <1>3 DEF Remember
<1>4. ASSUME NEW o \in Ops, Handler(o) PROVE [Next]_vars
  <2>1. CASE Recall(o) \/ Manager(o) \/ Remove(o)
    BY <2>1 DEF Recall, Manager, Remove, Next, Step
  <2>2. CASE Forget(o) \/ Activate(o) \/ Find(o) \/ Revocation(o) \/ Removed(o)
    BY <2>2 DEF Forget, Activate, Find, Revocation, Removed
  <2> QED
    BY <1>4, <2>1, <2>2 DEF Handler
<1> QED
  BY <1>1, <1>2, <1>3, <1>4 DEF HandlersNext

LEMMA Refines == HandlersSpec => Spec
<1>1. HandlersInit => Init
  BY DEF HandlersInit
<1> QED
  BY <1>1, StepRefines, PTL DEF HandlersSpec, Spec

--------------------------------------------------------------------------
\* A step of the store or the manager: what happens to the revocations of the documents.
LEMMA ManagerRevokes ==
  ASSUME IInv, RevokeInv, NEW o \in Ops, Manager(o)
  PROVE  RevokeInv'
<1> USE DEF RevokeInv, Buried
<1>1. UNCHANGED <<cookie, route, target, active, dead>>
  BY DEF Manager, hooks
<1>2. /\ pc \in [Ops -> Labels] /\ job \in [Ops -> Jobs] /\ pick \in [Ops -> Sets]
      /\ copy \in [Ops -> Documents] /\ TypeOK
  BY DEF IInv, TypeOK, Labels, Jobs
<1>3. CASE Get(o) \/ Look(o) \/ Lose(o) \/ Exchange(o) \/ Fail(o)
  <2>1. doc' = doc /\ doubt' = doubt /\ copy' = copy /\ pick' = pick
    BY <1>3 DEF Get, Look, Lose, Exchange, Fail
  <2>2. \A p \in Ops : job'[p] = "revoke" => job[p] = "revoke"
    BY <1>2, <1>3 DEF Get, Look, Lose, Exchange, Fail, Go, End, Learned
  <2> QED
    BY <1>1, <2>1, <2>2
<1>4. CASE Choose(o)
  <2>1. doc' = doc /\ doubt' = doubt /\ copy' = copy /\ job' = job /\ job[o] = "take"
    BY <1>2, <1>4 DEF Choose, Go
  <2>2. \A p \in Ops : p # o => pick'[p] = pick[p]
    BY <1>2, <1>4 DEF Choose
  <2> QED
    BY <1>1, <2>1, <2>2
<1>5. CASE Decide(o)
  <2>1. doc' = doc /\ doubt' = doubt /\ pick' = pick
    BY <1>5 DEF Decide
  <2>2. \A p \in Ops : copy'[p] \in {copy[p], doc}
    BY <1>2, <1>5 DEF Decide
  <2>3. job' = job
    BY <1>2, <1>5 DEF Decide, Go, End
  <2> QED
    BY <1>1, <2>1, <2>2, <2>3
<1>6. CASE Commit(o) \/ Throw(o)
  <2>1. job[o] \in {"claim", "keep", "take", "revoke"}
    BY <1>6 DEF IInv, RestInv, Local, Ready, Commit, Throw
  <2>2. Buried(Written(o).revoked)
    BY <2>1 DEF Written, Document
  <2>3. copy' = copy /\ pick' = pick
    BY <1>6 DEF Commit, Throw
  <2>4. \A p \in Ops : job'[p] = "revoke" => job[p] = "revoke"
    BY <1>2, <1>6 DEF Commit, Throw, Go, End, Learned
  <2>5. /\ doc' = doc \/ doc' = Written(o)
        /\ doubt' = doubt \/ \E n : doubt' = doubt \cup {[seen |-> n, doc |-> Written(o)]}
    BY <1>6 DEF Commit, Throw
  <2>6. Buried(doc'.revoked) /\ \A w \in doubt' : Buried(w.doc.revoked)
    BY <2>2, <2>5
  <2> QED
    BY <1>1, <2>3, <2>4, <2>6
<1> QED
  BY <1>3, <1>4, <1>5, <1>6 DEF Manager

\* A disconnect removes only what it has found dead; no other route takes a revoke.
LEMMA RoutesRevoke ==
  ASSUME IInv, HandlersTypeOK, RevokeInv, NEW o \in Ops, Handler(o)
  PROVE  RevokeInv'
<1> USE DEF RevokeInv, Buried
<1>1. /\ pc \in [Ops -> Labels] /\ job \in [Ops -> Jobs] /\ pick \in [Ops -> Sets]
      /\ kind \in [Ops -> Kinds \cup {"none"}]
      /\ target \in [Ops -> Sets] /\ DOMAIN route = Ops
  BY DEF IInv, TypeOK, HandlersTypeOK, Labels, Jobs
<1>2. CASE Recall(o)
  <2>1. UNCHANGED <<doc, doubt, copy, route, target, dead>>
    BY <1>2 DEF Recall, Call, hooks
  <2>2. job'[o] \in {"claim", "take"} /\ \A p \in Ops : p # o => job'[p] = job[p]
    BY <1>1, <1>2 DEF Recall, Call, Go
  <2>3. pick' = pick
    BY <1>1, <1>2 DEF Recall, Call
  <2> QED
    BY <2>1, <2>2, <2>3
<1>3. CASE Manager(o)
  BY <1>3, ManagerRevokes
<1>4. CASE Forget(o) \/ Activate(o) \/ Find(o) \/ Removed(o)
  <2>1. UNCHANGED <<doc, doubt, copy, job, pick, dead>>
    BY <1>4 DEF Forget, Activate, Find, Removed, vars, calls, hooks
  <2>2. \A p \in Ops : route'[p] = "remove" => route[p] = "remove" /\ target'[p] = target[p]
    BY <1>1, <1>4 DEF Forget, Activate, Find, Removed, Route, hooks
  <2> QED
    BY <2>1, <2>2
<1>5. CASE Revocation(o)
  <2>1. UNCHANGED <<doc, doubt, copy, job, pick, target>>
    BY <1>5 DEF Revocation, vars, calls
  <2>2. dead \subseteq dead'
    BY <1>5 DEF Revocation
  <2>3. /\ \A p \in Ops : p # o => route'[p] = route[p]
        /\ route'[o] = "remove" => dead' = dead \cup (target[o] \cap Revocable)
    BY <1>1, <1>5 DEF Revocation, Route, Uncertain
  <2> QED
    BY <2>1, <2>2, <2>3
<1>6. CASE Remove(o)
  <2>1. UNCHANGED <<doc, doubt, copy, target, dead>>
    BY <1>6 DEF Remove, Call, hooks
  <2>2. route[o] = "remove" /\ pick'[o] = target[o]
    BY <1>6 DEF Remove
  <2>3. \A p \in Ops : /\ p # o => job'[p] = job[p] /\ pick'[p] = pick[p]
                       /\ route'[p] = "remove" => route[p] = "remove"
    BY <1>1, <1>6 DEF Remove, Call, Go, Route
  <2> QED
    BY <2>1, <2>2, <2>3
<1> QED
  BY <1>2, <1>3, <1>4, <1>5, <1>6 DEF Handler

--------------------------------------------------------------------------
\* The grants of a completed attempt are never changed, whoever writes the document.
LEMMA GrantsStay ==
  ASSUME IInv, [Next]_vars
  PROVE  /\ doc.phase = "completed" => doc'.phase = "completed"
         /\ doc.grants \subseteq doc'.grants
<1>1. ASSUME Legal(doc') PROVE /\ doc.phase = "completed" => doc'.phase = "completed"
                              /\ doc.grants \subseteq doc'.grants
  BY <1>1 DEF Legal, Document, IInv, TypeOK, WellFormed
<1>2. CASE Begin
  BY <1>2 DEF Begin, IInv, TypeOK, WellFormed, Document
<1>3. CASE Land
  BY <1>1, <1>3 DEF Land, Fits, IInv, RestInv, DoubtInv
<1>4. ASSUME NEW o \in Ops, Commit(o)
      PROVE  /\ doc.phase = "completed" => doc'.phase = "completed"
             /\ doc.grants \subseteq doc'.grants
  BY <1>1, <1>4, WrittenLegal DEF Commit, Fits
<1>5. ASSUME NEW o \in Ops,
             \/ Call(o) \/ Get(o) \/ Look(o) \/ Choose(o) \/ Decide(o) \/ Lose(o) \/ Throw(o)
             \/ Exchange(o) \/ Fail(o)
      PROVE  doc' = doc
  BY <1>5 DEF Call, Get, Look, Choose, Decide, Lose, Throw, Exchange, Fail
<1>6. Expire \/ UNCHANGED vars => doc' = doc
  BY DEF Expire, vars
<1> QED
  BY <1>2, <1>3, <1>4, <1>5, <1>6 DEF Next, Step

\* A call that was given the grants has ended: no step of the manager takes them back.
LEMMA GrantedIsOver ==
  ASSUME IInv, NEW o \in Ops, Recall(o) \/ Manager(o) \/ Remove(o)
  PROVE  \A p \in Ops : outcome[p] = "grants" => outcome'[p] = "grants"
<1>1. outcome \in [Ops -> Results] /\ (outcome[o] = "grants" => pc[o] = "done")
  BY DEF IInv, TypeOK, Results, RestInv, Local, Reported
<1>2. outcome[o] # "grants"
  BY <1>1 DEF Recall, Manager, Remove, Call, Get, Look, Choose, Decide, Commit, Lose, Throw,
     Exchange, Fail
<1>3. \A p \in Ops : p # o => outcome'[p] = outcome[p]
  BY <1>1 DEF Recall, Manager, Remove, Call, Get, Look, Choose, Decide, Commit, Lose, Throw,
     Exchange, Fail, Go, End, Learned
<1> QED
  BY <1>2, <1>3

LEMMA RoutesActivate ==
  ASSUME IInv, HandlersTypeOK, ActivateInv, NEW o \in Ops, Handler(o)
  PROVE  ActivateInv'
<1> USE DEF ActivateInv, ForgottenIsConsumed, ActiveIsGranted
<1>0. DOMAIN route = Ops
  BY DEF HandlersTypeOK
<1>1. /\ doc.phase = "completed" => doc'.phase = "completed"
      /\ doc.grants \subseteq doc'.grants
  <2>1. [Next]_vars
    BY StepRefines DEF HandlersNext
  <2> QED
    BY <2>1, GrantsStay
<1>2. \A p \in Ops : outcome[p] = "grants" => doc.phase = "completed" /\ doc.grants = pick[p]
  BY DEF IInv, RestInv, Local, Reported
<1>3. CASE Recall(o) \/ Manager(o) \/ Remove(o)
  <2>1. UNCHANGED <<cookie, active>>
    BY <1>3 DEF Recall, Manager, Remove, hooks
  <2>2. \A p \in Ops : route'[p] = "activate" => route[p] = "activate"
    BY <1>0, <1>3 DEF Recall, Manager, Remove, Route
  <2> QED
    BY <1>1, <1>3, <2>1, <2>2, GrantedIsOver
<1>4. CASE Forget(o)
  <2>1. outcome[o] = "grants" /\ outcome' = outcome /\ doc' = doc /\ active' = active
    BY <1>4 DEF Forget, Consumed, vars, calls, hooks
  <2>2. \A p \in Ops : route'[p] = "activate" => p = o \/ route[p] = "activate"
    BY <1>0, <1>4 DEF Forget, Route
  <2> QED
    BY <1>2, <2>1, <2>2
<1>5. CASE Activate(o)
  <2>1. outcome[o] = "grants" /\ outcome' = outcome /\ doc' = doc /\ cookie' = cookie
    BY <1>5 DEF Activate, vars, calls
  <2>2. \A p \in Ops : route'[p] = "activate" => route[p] = "activate"
    BY <1>0, <1>5 DEF Activate, Route
  <2>3. active' \subseteq active \cup pick[o]
    BY <1>5 DEF Activate, Promoted
  <2> QED
    BY <1>2, <2>1, <2>2, <2>3
<1>6. CASE Find(o) \/ Revocation(o) \/ Removed(o)
  <2>1. outcome' = outcome /\ doc' = doc /\ cookie' = cookie /\ active' \subseteq active
    BY <1>6 DEF Find, Revocation, Removed, vars, calls
  <2>2. \A p \in Ops : route'[p] = "activate" => route[p] = "activate"
    BY <1>0, <1>6 DEF Find, Revocation, Removed, Route, Uncertain
  <2> QED
    BY <2>1, <2>2
<1> QED
  BY <1>3, <1>4, <1>5, <1>6 DEF Handler

\* The variables of the routes keep their types.
LEMMA RoutesTyped ==
  ASSUME IInv, TypeOK', HandlersTypeOK, NEW o \in Ops, Handler(o)
  PROVE  HandlersTypeOK'
<1> DEFINE Places == Answers \cup {"none", "activate", "revoking", "remove", "removing"}
<1>0. /\ route \in [Ops -> Places] /\ target \in [Ops -> Sets]
      /\ active \in Sets /\ dead \in Sets /\ pick \in [Ops -> Sets]
      /\ doc.grants \in Sets /\ cookie \in {"none", "held", "cleared"}
  BY DEF HandlersTypeOK, IInv, TypeOK, WellFormed, Documents
<1>1. route' \in [Ops -> Places]
  <2>1. route' = route \/ \E at \in Places : Route(o, at)
    BY DEF Handler, Recall, Manager, Forget, Activate, Find, Revocation, Remove, Removed, hooks,
       Uncertain, Answers
  <2> QED
    BY <1>0, <2>1 DEF Route
<1>2. target' \in [Ops -> Sets]
  <2>1. target' = target \/ \E g \in doc.grants : target' = [target EXCEPT ![o] = {g}]
    BY DEF Handler, Recall, Manager, Forget, Activate, Find, Revocation, Remove, Removed, hooks
  <2> QED
    BY <1>0, <2>1 DEF Sets
<1>3. active' \in Sets
  <2>1. active' \subseteq active \cup pick[o]
    BY DEF Handler, Recall, Manager, Forget, Activate, Find, Revocation, Remove, Removed, hooks,
       Promoted
  <2> QED
    BY <1>0, <2>1 DEF Sets
<1>4. dead' \in Sets
  <2>1. dead' \subseteq dead \cup target[o]
    BY DEF Handler, Recall, Manager, Forget, Activate, Find, Revocation, Remove, Removed, hooks
  <2> QED
    BY <1>0, <2>1 DEF Sets
<1>5. cookie' \in {"none", "held", "cleared"}
  BY <1>0 DEF Handler, Recall, Manager, Forget, Activate, Find, Revocation, Remove, Removed
<1> QED
  BY <1>1, <1>2, <1>3, <1>4, <1>5 DEF HandlersTypeOK

--------------------------------------------------------------------------
LEMMA HandlersInitInv == HandlersInit => HInv
<1> SUFFICES ASSUME HandlersInit PROVE HInv
  OBVIOUS
<1>1. IInv
  BY InitIInv DEF HandlersInit
<1>2. HandlersTypeOK
  BY <1>1 DEF HandlersInit, HandlersTypeOK, IInv, Sets
<1>3. RevokeInv
  BY DEF HandlersInit, Init, RevokeInv, Buried, Document
<1>4. ActivateInv
  BY DEF HandlersInit, ActivateInv, ForgottenIsConsumed, ActiveIsGranted
<1> QED
  BY <1>1, <1>2, <1>3, <1>4 DEF HInv

LEMMA HandlersNextInv == HInv /\ [HandlersNext]_handlerVars => HInv'
<1> SUFFICES ASSUME HInv, [HandlersNext]_handlerVars PROVE HInv'
  OBVIOUS
<1> USE DEF HInv
<1>1. [Next]_vars
  BY StepRefines
<1>2. IInv' /\ TypeOK'
  <2>1. IInv'
    BY <1>1, NextIInv
  <2> QED
    BY <2>1 DEF IInv
<1>3. ASSUME NEW o \in Ops, Handler(o) PROVE HInv'
  BY <1>2, <1>3, RoutesTyped, RoutesRevoke, RoutesActivate
<1>4. CASE /\ Begin \/ Expire \/ Land \/ Remember \/ UNCHANGED handlerVars
           /\ UNCHANGED <<route, hooks>> /\ cookie' \in {cookie, "held"}
  <2>1. /\ UNCHANGED <<route, target, active, dead, job, pick, copy, outcome>>
        /\ cookie' = cookie \/ cookie' = "held"
    BY <1>4 DEF Begin, Expire, Land, Remember, handlerVars, hooks, vars, calls
  <2>2. /\ doubt' \subseteq doubt
        /\ doc' = doc \/ doc'.revoked = {} \/ \E w \in doubt : doc' = w.doc
    BY <1>4 DEF Begin, Expire, Land, Remember, handlerVars, vars, Document
  <2>3. HandlersTypeOK'
    BY <1>2, <2>1 DEF HandlersTypeOK
  <2>4. RevokeInv'
    BY <2>1, <2>2 DEF RevokeInv, Buried
  <2>5. ActivateInv'
    BY <1>1, <2>1, GrantsStay DEF ActivateInv, ForgottenIsConsumed, ActiveIsGranted
  <2> QED
    BY <1>2, <2>3, <2>4, <2>5
<1>5. CASE (Begin \/ Expire \/ Land) /\ UNCHANGED <<cookie, route, hooks>>
  BY <1>4, <1>5
<1>6. CASE Remember
  BY <1>4, <1>6 DEF Remember
<1>7. CASE UNCHANGED handlerVars
  BY <1>4, <1>7 DEF handlerVars
<1> QED
  BY <1>3, <1>5, <1>6, <1>7 DEF HandlersNext

LEMMA HandlersInvariance == HandlersSpec => []HInv
BY HandlersInitInv, HandlersNextInv, PTL DEF HandlersSpec

--------------------------------------------------------------------------
\* Through the routes the attempt is what the ConnectionStore promises: its code is exchanged
\* once, its accounts are stored once and it is completed once.
THEOREM RoutesKeepTheAttempt == HandlersSpec => OneUseAttempt
BY Refines, Implementation

\* However many requests race, at most one selection is answered with grants, and they are
\* those that are stored.
THEOREM RoutesHaveOneWinner == HandlersSpec => []OneWinner
BY Refines, AttemptHasOneWinner

\* The routes give up on contention no earlier than the calls they are made of.
THEOREM RoutesContendLate == HandlersSpec => []ContentionIsProgress
BY Refines, ContentionIsRevocation

\* A browser keeps its attempt until the grants are committed, whatever fails before that.
THEOREM CookieOutlivesTheAttempt == HandlersSpec => []ForgottenIsConsumed
<1>1. HInv => ForgottenIsConsumed
  BY DEF HInv, ActivateInv
<1> QED
  BY <1>1, HandlersInvariance, PTL

\* No credential is active without a committed grant, whichever selection wins.
THEOREM OnlyGrantsAreActive == HandlersSpec => []ActiveIsGranted
<1>1. HInv => ActiveIsGranted
  BY DEF HInv, ActivateInv
<1> QED
  BY <1>1, HandlersInvariance, PTL

\* No live token is left behind without its grant, whichever answers and writes are lost.
THEOREM TokensDieFirst == HandlersSpec => []RevokedBeforeRemoved
<1>1. HInv => RevokedBeforeRemoved
  BY DEF HInv, RevokeInv, Buried, RevokedBeforeRemoved
<1> QED
  BY <1>1, HandlersInvariance, PTL
==========================================================================
