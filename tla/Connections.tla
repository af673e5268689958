--------------------------- MODULE Connections ---------------------------
(* ConnectionManager (server/connections.ts) over DurableConnectionStore    *)
(* (server/durable-stores.ts) and updateRecord (server/durable-driver.ts):  *)
(* one attempt, stored as one document under a revision, worked on by any   *)
(* number of calls in any number of processes.  Every store update reads    *)
(* the document, decides, and writes it back if the revision is the same.   *)
(* A call may end at any step: its process dies, a read fails, the caller   *)
(* is not the one who began, the provider refuses.                          *)
EXTENDS Naturals, FiniteSets

CONSTANTS Ops,       \* the calls
          Accounts,  \* what the provider may return
          Kinds,     \* which calls there are
          Tries,     \* MAX_CAS_ATTEMPTS
          Faults     \* bound on writes that throw

ASSUME KindsAssumption == Kinds \subseteq {"discover", "select", "complete", "revoke"}
ASSUME TriesAssumption == Tries \in Nat \ {0}
ASSUME FaultsAssumption == Faults \in Nat

VARIABLES doc,        \* the stored document
          rev,        \* its revision, fresh for every write
          doubt,      \* writes whose call threw and which may still take effect
          faults,
          expired,    \* the clock has passed expiresAt
          exchanges,  \* how often the code was presented to the provider
          kind, pc,
          job,        \* the update a call is on its way to
          seen, copy, \* revision and document its last decision was made on
          tries,      \* writes of this update that lost the revision check
          found,      \* accounts a call was given, by the provider or the store
          pick,       \* accounts a select takes, or the grant a revoke names
          outcome

calls == <<kind, pc, job, seen, copy, tries, found, pick, outcome>>
vars == <<doc, rev, doubt, faults, expired, exchanges, calls>>

Phases == {"absent", "unclaimed", "claimed", "discovered", "completed"}

Document(p, a, g, r) == [phase |-> p, accounts |-> a, grants |-> g, revoked |-> r]

Pending == doc.phase \in {"unclaimed", "claimed", "discovered"}

Init ==
  /\ doc = Document("absent", {}, {}, {}) /\ rev = 0 /\ doubt = {} /\ faults = 0
  /\ expired = FALSE /\ exchanges = 0
  /\ kind = [o \in Ops |-> "none"] /\ pc = [o \in Ops |-> "idle"]
  /\ job = [o \in Ops |-> "none"]
  /\ seen = [o \in Ops |-> 0] /\ copy = [o \in Ops |-> doc]
  /\ tries = [o \in Ops |-> 0] /\ found = [o \in Ops |-> {}]
  /\ pick = [o \in Ops |-> {}] /\ outcome = [o \in Ops |-> "none"]

--------------------------------------------------------------------------
\* begin saves the attempt under an identifier nobody knows before it returns.
Begin ==
  /\ doc.phase = "absent"
  /\ doc' = Document("unclaimed", {}, {}, {}) /\ rev' = rev + 1
  /\ UNCHANGED <<doubt, faults, expired, exchanges, calls>>

Expire ==
  /\ ~expired /\ expired' = TRUE
  /\ UNCHANGED <<doc, rev, doubt, faults, exchanges, calls>>

\* A call goes to step at of update j; a new update has all its tries.
Go(o, at, j) ==
  /\ pc' = [pc EXCEPT ![o] = at] /\ job' = [job EXCEPT ![o] = j]
  /\ tries' = [tries EXCEPT ![o] = IF j = job[o] THEN @ ELSE 0]
  /\ UNCHANGED outcome

End(o, result) ==
  /\ pc' = [pc EXCEPT ![o] = "done"] /\ outcome' = [outcome EXCEPT ![o] = result]
  /\ UNCHANGED <<job, tries>>

Call(o) ==
  /\ pc[o] = "idle" /\ doc.phase # "absent"
  /\ \E k \in Kinds :
       /\ kind' = [kind EXCEPT ![o] = k]
       /\ \/ k \in {"discover", "complete"} /\ Go(o, "get", "claim") /\ UNCHANGED pick
          \/ k = "select" /\ Go(o, "get", "take") /\ UNCHANGED pick
          \/ k = "revoke" /\ \E g \in doc.grants : /\ pick' = [pick EXCEPT ![o] = {g}]
                                                  /\ Go(o, "decide", "revoke")
  /\ UNCHANGED <<doc, rev, doubt, faults, expired, exchanges, seen, copy, found>>

\* The store's get, and the manager's own look at the clock.
Get(o) ==
  /\ pc[o] = "get"
  /\ IF Pending /\ ~expired THEN Go(o, "look", job[o]) ELSE End(o, "error")
  /\ UNCHANGED <<doc, rev, doubt, faults, expired, exchanges, kind, seen, copy, found, pick>>

\* discover has its accounts: it returns them, or complete goes on to select.
Learned(o) == IF kind[o] = "complete" THEN Go(o, "get", "take") ELSE End(o, "accounts")

\* getDiscoveredAccounts, before the claim and again when the claim was refused.
Look(o) ==
  /\ pc[o] \in {"look", "relook"} /\ job[o] = "claim"
  /\ IF doc.phase = "discovered"
     THEN found' = [found EXCEPT ![o] = doc.accounts] /\ Learned(o)
     ELSE /\ IF pc[o] = "look" THEN Go(o, "decide", "claim") ELSE End(o, "error")
          /\ UNCHANGED found
  /\ UNCHANGED <<doc, rev, doubt, faults, expired, exchanges, kind, seen, copy, pick>>

\* select reads the accounts; picking one the provider did not return is an error.
Choose(o) ==
  /\ pc[o] = "look" /\ job[o] = "take" /\ doc.phase = "discovered"
  /\ found' = [found EXCEPT ![o] = doc.accounts]
  /\ \E S \in (SUBSET doc.accounts) \ {{}} : pick' = [pick EXCEPT ![o] = S]
  /\ Go(o, "decide", "take")
  /\ UNCHANGED <<doc, rev, doubt, faults, expired, exchanges, kind, seen, copy>>

--------------------------------------------------------------------------
\* Mutants: a claim that may be taken over, and a revoke that ignores revokedAt.
Accepts_Reclaims(o) ==
  \/ job[o] = "claim" /\ doc.phase \in {"unclaimed", "claimed"} /\ ~expired
  \/ job[o] = "keep" /\ doc.phase = "claimed"
  \/ job[o] = "take" /\ doc.phase = "discovered" /\ ~expired /\ doc.accounts = found[o]
  \/ job[o] = "revoke" /\ doc.phase = "completed" /\ pick[o] \cap doc.revoked = {}
Accepts_Revoked(o) ==
  \/ job[o] = "claim" /\ doc.phase = "unclaimed" /\ ~expired
  \/ job[o] = "keep" /\ doc.phase = "claimed"
  \/ job[o] = "take" /\ doc.phase = "discovered" /\ ~expired /\ doc.accounts = found[o]
  \/ job[o] = "revoke" /\ doc.phase = "completed"

\* What an update's decision accepts.
Accepts(o) ==
  \/ job[o] = "claim" /\ doc.phase = "unclaimed" /\ ~expired
  \/ job[o] = "keep" /\ doc.phase = "claimed"
  \/ job[o] = "take" /\ doc.phase = "discovered" /\ ~expired /\ doc.accounts = found[o]
  \/ job[o] = "revoke" /\ doc.phase = "completed" /\ pick[o] \cap doc.revoked = {}

Decide(o) ==
  /\ pc[o] = "decide"
  /\ IF Accepts(o)
     THEN /\ seen' = [seen EXCEPT ![o] = rev] /\ copy' = [copy EXCEPT ![o] = doc]
          /\ Go(o, "write", job[o])
     ELSE /\ UNCHANGED <<seen, copy>>
          /\ IF job[o] = "claim" THEN Go(o, "relook", "claim")
             ELSE End(o, IF job[o] = "revoke" THEN "unrevoked" ELSE "error")
  /\ UNCHANGED <<doc, rev, doubt, faults, expired, exchanges, kind, found, pick>>

\* Mutant: a completed document keeps the accounts of the pending one.
Written_Spreads(o) ==
  LET c == copy[o]
  IN  IF job[o] = "claim" THEN Document("claimed", c.accounts, c.grants, c.revoked)
      ELSE IF job[o] = "keep" THEN Document("discovered", found[o], c.grants, c.revoked)
      ELSE IF job[o] = "take" THEN Document("completed", c.accounts, pick[o], c.revoked)
      ELSE Document(c.phase, c.accounts, c.grants, c.revoked \cup pick[o])

\* The document an update writes, made from the copy it read.
Written(o) ==
  LET c == copy[o]
  IN  IF job[o] = "claim" THEN Document("claimed", c.accounts, c.grants, c.revoked)
      ELSE IF job[o] = "keep" THEN Document("discovered", found[o], c.grants, c.revoked)
      ELSE IF job[o] = "take" THEN Document("completed", {}, pick[o], c.revoked)
      ELSE Document(c.phase, c.accounts, c.grants, c.revoked \cup pick[o])

\* Mutant: the driver overwrites whatever is stored.
Fits_Any(expected) == expected \in Nat

\* The driver writes only over the revision the caller expects.
Fits(expected) == rev = expected

Commit(o) ==
  /\ pc[o] = "write" /\ Fits(seen[o])
  /\ doc' = Written(o) /\ rev' = rev + 1
  /\ \/ job[o] = "claim" /\ Go(o, "exchange", "keep")
     \/ job[o] = "keep" /\ Learned(o)
     \/ job[o] = "take" /\ End(o, "grants")
     \/ job[o] = "revoke" /\ End(o, "revoked")
  /\ UNCHANGED <<doubt, faults, expired, exchanges, kind, seen, copy, found, pick>>

\* Mutant: losing is taken for success.
Lose_Succeeds(o) ==
  /\ pc[o] = "write" /\ ~Fits(seen[o])
  /\ End(o, IF job[o] = "take" THEN "grants" ELSE "error")
  /\ UNCHANGED <<doc, rev, doubt, faults, expired, exchanges, kind, seen, copy, found, pick>>

\* The write lost the revision check: read and decide again, so many times.
Lose(o) ==
  /\ pc[o] = "write" /\ ~Fits(seen[o])
  /\ IF tries[o] + 1 < Tries
     THEN /\ pc' = [pc EXCEPT ![o] = "decide"] /\ tries' = [tries EXCEPT ![o] = @ + 1]
          /\ UNCHANGED <<job, outcome>>
     ELSE End(o, "contended")
  /\ UNCHANGED <<doc, rev, doubt, faults, expired, exchanges, kind, seen, copy, found, pick>>

\* The write throws: the call ends, and the write may or may not have reached the database.
Throw(o) ==
  /\ pc[o] = "write" /\ faults < Faults /\ faults' = faults + 1
  /\ doubt' = doubt \cup {[seen |-> seen[o], doc |-> Written(o)]}
  /\ End(o, "error")
  /\ UNCHANGED <<doc, rev, expired, exchanges, kind, seen, copy, found, pick>>

Land ==
  /\ \E w \in doubt : /\ Fits(w.seen) /\ doubt' = doubt \ {w}
                      /\ doc' = w.doc /\ rev' = rev + 1
  /\ UNCHANGED <<faults, expired, exchanges, calls>>

--------------------------------------------------------------------------
\* provider.complete presents the code; an answer that is empty or foreign is an error.
Exchange(o) ==
  /\ pc[o] = "exchange" /\ exchanges' = exchanges + 1
  /\ \/ /\ \E A \in (SUBSET Accounts) \ {{}} : found' = [found EXCEPT ![o] = A]
        /\ Go(o, "decide", "keep")
     \/ End(o, "error") /\ UNCHANGED found
  /\ UNCHANGED <<doc, rev, doubt, faults, expired, kind, seen, copy, pick>>

\* A call that ends with nothing more done: see the head of the module.
Fail(o) ==
  /\ pc[o] \notin {"idle", "done"} /\ End(o, "error")
  /\ UNCHANGED <<doc, rev, doubt, faults, expired, exchanges, kind, seen, copy, found, pick>>

Step(o) == \/ Call(o) \/ Get(o) \/ Look(o) \/ Choose(o) \/ Decide(o) \/ Commit(o)
           \/ Lose(o) \/ Throw(o) \/ Exchange(o) \/ Fail(o)

Next == Begin \/ Expire \/ Land \/ \E o \in Ops : Step(o)

Spec == Init /\ [][Next]_vars

--------------------------------------------------------------------------
Sets == SUBSET Accounts
Documents == [phase : Phases, accounts : Sets, grants : Sets, revoked : Sets]

\* A pending document has accounts once they are discovered, a completed one has its grants.
WellFormed(d) ==
  /\ d \in Documents
  /\ d.accounts # {} <=> d.phase = "discovered"
  /\ d.grants # {} <=> d.phase = "completed"
  /\ d.revoked \subseteq d.grants

TypeOK ==
  /\ WellFormed(doc) /\ rev \in Nat /\ faults \in 0..Faults
  /\ doubt \subseteq [seen : Nat, doc : Documents]
  /\ expired \in BOOLEAN /\ exchanges \in Nat
  /\ kind \in [Ops -> Kinds \cup {"none"}]
  /\ pc \in [Ops -> {"idle", "get", "look", "relook", "decide", "write", "exchange", "done"}]
  /\ job \in [Ops -> {"none", "claim", "keep", "take", "revoke"}]
  /\ seen \in [Ops -> Nat] /\ copy \in [Ops -> Documents] /\ tries \in [Ops -> 0..Tries - 1]
  /\ found \in [Ops -> Sets] /\ pick \in [Ops -> Sets]
  /\ outcome \in [Ops -> {"none", "error", "accounts", "grants", "revoked", "unrevoked",
                          "contended"}]

\* The document, whichever calls race on it, die or land late, goes through the steps the
\* ConnectionStore interface promises, and the code is presented once, after the claim.
Attempt == INSTANCE ConnectionAttempt
             WITH phase <- doc.phase, accounts <- doc.accounts, grants <- doc.grants,
                  revoked <- doc.revoked
OneUseAttempt == Attempt!Spec

\* Every discover that returns accounts returns those that are stored: two pickers of one
\* attempt never show different accounts, and none shows accounts that were not kept.
PickersAgree ==
  \A o \in Ops : outcome[o] = "accounts" =>
    /\ doc.phase \in {"discovered", "completed"}
    /\ doc.phase = "discovered" => doc.accounts = found[o]
    /\ \A p \in Ops : outcome[p] = "accounts" => found[p] = found[o]

\* At most one select returns grants, and the stored grants are exactly the ones it picked.
OneWinner ==
  \A o \in Ops : outcome[o] = "grants" =>
    /\ doc.phase = "completed" /\ doc.grants = pick[o]
    /\ \A p \in Ops : outcome[p] = "grants" => p = o

\* A grant is reported as revoked by one call only, and what was reported stays.
RevokedOnce ==
  \A o \in Ops : outcome[o] = "revoked" =>
    /\ pick[o] \subseteq doc.revoked
    /\ \A p \in Ops : outcome[p] = "revoked" /\ pick[p] = pick[o] => p = o

\* A call gives up on contention only if as many grants were revoked as it had tries: every
\* check that it loses is lost to a step of the attempt, and only revocations are many
\* (updateRecord, MAX_CAS_ATTEMPTS).
ContentionIsProgress ==
  Tries > 1 => \A o \in Ops : outcome[o] = "contended" => Cardinality(doc.revoked) >= Tries
==========================================================================
