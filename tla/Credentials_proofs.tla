-------------------------- MODULE Credentials_proofs --------------------------
(***************************************************************************)
(* Proofs about Credentials, for any number of operations and failures.    *)
(*                                                                         *)
(* Whatever the refresh hook reports: an operation writes the record only  *)
(* where it still is what that operation read, and the writes in doubt     *)
(* replace what they were meant for.  Types and lawful writes follow.      *)
(*                                                                         *)
(* With a hook that keeps its contract, also: a token set is in one place  *)
(* only.  Either the stored record, or a write in doubt, offers it without *)
(* a marker; or one operation has it in hand, because its marker is        *)
(* written and its request not yet decided.  The marker's revision moves   *)
(* it from the first place to the second and back.                         *)
(***************************************************************************)
EXTENDS Credentials, TLAPS

Working == {"marked", "calling", "store", "restore", "doubt"}

(* The operation may still present the token it read, or put it back.      *)
Bears(o) ==
    \/ pc[o] = "marked"
    \/ marker[o] = rev /\ pc[o] = "restore"
    \/ marker[o] = rev /\ pc[o] = "calling" /\ request[o] = "refused"

Engaged(o) == Bears(o) \/ request[o] = "sent"

(* The operation holds a token set that was never stored.                  *)
Brings(o) ==
    \/ pc[o] \in {"store", "write"}
    \/ pc[o] = "calling" /\ request[o] = "applied"

Clear(t) == t \notin spent /\ \A o \in Ops : Engaged(o) => seenToken[o] # t

Fresh(t) ==
    /\ t # 0 /\ t # token /\ t \notin spent
    /\ \A w \in doubt : w.token # t
    /\ \A o \in Ops : seenToken[o] # t

(* What was read is what is stored, as long as the revision is the same.   *)
SeenInv ==
    \A o \in Ops :
        /\ pc[o] = "mark" => /\ seenRev[o] # 0 /\ seenToken[o] # 0
                             /\ rev = seenRev[o] => token = seenToken[o] /\ mark = "none"
        /\ pc[o] \in {"revoking", "delete"} =>
              seenRev[o] # 0 /\ seenToken[o] # 0 /\ (rev = seenRev[o] => token = seenToken[o])
        /\ pc[o] = "write" => (rev # 0 /\ rev = seenRev[o] => token = seenToken[o])
        /\ pc[o] \in {"revoking", "delete"} => kind[o] = "revoke"
        /\ pc[o] = "delete" /\ o \in Revokers => seenToken[o] \in revoked
        /\ pc[o] \in {"remove", "adrift"} => kind[o] = "delete"
        /\ pc[o] \in {"read", "lock", "held"} => seenToken[o] = 0

MarkerInv ==
    /\ \A o \in Ops : pc[o] \in Working =>
          /\ marker[o] # 0 /\ seenToken[o] # 0
          /\ rev = marker[o] => token = seenToken[o] /\ mark = "inFlight"
    /\ \A o \in Ops : request[o] # "none" => seenToken[o] # 0
    /\ \A o, p \in Ops : marker[o] # 0 /\ marker[o] = marker[p] => o = p

GivenInv ==
    /\ \A o \in Ops :
          /\ pc[o] \in {"read", "lock", "held", "mark", "marked"} =>
                given[o] = 0 /\ request[o] = "none"
          /\ request[o] \in {"sent", "refused"} => given[o] = 0
          /\ request[o] = "applied" => given[o] # 0
          /\ pc[o] = "store" => request[o] = "applied"
          /\ pc[o] = "write" => given[o] # 0
          /\ Hook = "contract" /\ pc[o] = "restore" => request[o] \in {"none", "refused"}
    /\ \A o, p \in Ops : given[o] # 0 /\ given[o] = given[p] => o = p

FreshInv == \A o \in Ops : Brings(o) => Fresh(given[o])

RecordInv == Hook = "contract" /\ rev # 0 /\ mark = "none" => Clear(token)

(* Writes in doubt would replace the stored revision, and lawfully.        *)
DoubtInv ==
    \A w \in doubt :
        /\ w.mark = "gone" => rev # 0 /\ \E o \in Ops : Revoker(o)
        /\ w.mark # "gone" =>
              /\ w.token # 0
              /\ rev # 0 => \/ w.token = token
                            \/ \E o \in Ops : given[o] = w.token /\ seenToken[o] = token
        /\ Hook = "contract" /\ w.mark = "none" => Clear(w.token)

EngagedInv ==
    Hook = "contract" => \A o \in Ops : Engaged(o) =>
        /\ seenToken[o] \notin spent
        /\ \A p \in Ops : p # o /\ Engaged(p) => seenToken[p] # seenToken[o]

RestInv ==
    /\ SeenInv /\ MarkerInv /\ GivenInv /\ FreshInv
    /\ RecordInv /\ DoubtInv /\ EngagedInv

IInv == TypeOK /\ RestInv

-----------------------------------------------------------------------------
LEMMA Moves ==
    ASSUME TypeOK, NEW o \in Ops, NEW l, Goto(o, l)
    PROVE  /\ pc'[o] = l
           /\ \A p \in Ops : p # o => pc'[p] = pc[p]
           /\ l \in Labels => pc' \in [Ops -> Labels]
BY DEF Goto, TypeOK

LEMMA InitIInv == Init => IInv
<1> SUFFICES ASSUME Init PROVE IInv
  OBVIOUS
<1>1. TypeOK
  BY FaultsAssumption, OpsAssumption DEF Init, TypeOK, Marks, Labels, First
<1>2. \A o \in Ops : pc[o] \in {"read", "lock", "remove"} /\ (pc[o] = "remove" => kind[o] = "delete")
  BY DEF Init, First
<1>3. RestInv
  BY <1>2 DEF Init, RestInv, SeenInv, MarkerInv, GivenInv, FreshInv, RecordInv, DoubtInv, Revoker,
     EngagedInv, Working, Bears, Engaged, Brings, Clear
<1> QED
  BY <1>1, <1>3 DEF IInv

(* A step that only moves an operation, to where it holds nothing new.     *)
LEMMA QuietStep ==
    ASSUME IInv, NEW o \in Ops, NEW l, Goto(o, l),
           l \in {"lock", "held", "release", "recheck", "restore", "doubt", "adrift", "done"},
           l = "adrift" => pc[o] = "remove",
           l \in {"lock", "held"} => pc[o] \in {"read", "lock"},
           l \in {"restore", "doubt"} => pc[o] \in Working,
           Hook = "contract" => l # "restore",
           UNCHANGED <<rev, token, mark, doubt, kind, seenRev, seenToken, marker>>,
           UNCHANGED <<request, given, spent, revoked>>
    PROVE  RestInv'
<1> USE DEF IInv, RestInv
<1>1. pc'[o] = l /\ \A p \in Ops : p # o => pc'[p] = pc[p]
  BY Moves
<1>2. Hook = "contract" => \A p \in Ops : Engaged(p)' => Engaged(p)
  BY <1>1 DEF Engaged, Bears
<1>3. \A p \in Ops : Brings(p)' => Brings(p)
  BY <1>1 DEF Brings
<1>4. Hook = "contract" => \A t : Clear(t) => Clear(t)'
  BY <1>2 DEF Clear
<1>5. SeenInv'
  BY <1>1 DEF SeenInv
<1>6. MarkerInv'
  BY <1>1 DEF MarkerInv, Working
<1>7. GivenInv'
  BY <1>1 DEF GivenInv
<1>8. FreshInv'
  BY <1>3 DEF FreshInv, Fresh
<1>9. RecordInv' /\ DoubtInv'
  BY <1>4 DEF RecordInv, DoubtInv, Revoker
<1>10. EngagedInv'
  BY <1>2 DEF EngagedInv
<1> QED
  BY <1>5, <1>6, <1>7, <1>8, <1>9, <1>10

Settles(o) == pc'[o] = pc[o] \/ pc'[o] \in {"release", "done"} \/ (pc'[o] = "doubt" /\ pc[o] \in Working)

(* A write of the record, by an operation that ends with it or by nobody.  *)
LEMMA WriteStep ==
    ASSUME IInv, NEW t \in 1..issued, NEW m \in Marks, Write(t, m),
           \A o \in Ops : Settles(o),
           UNCHANGED <<kind, seenRev, seenToken, marker>>,
           UNCHANGED <<request, given, spent, revoked>>,
           Hook = "contract" /\ m = "none" => Clear(t)',
           \A o \in Ops : Brings(o)' => given[o] # t
    PROVE  RestInv'
<1> USE DEF IInv, RestInv
<1>1. /\ rev' = lastRev + 1 /\ token' = t /\ mark' = m /\ doubt' = {}
      /\ rev' # 0 /\ \A o \in Ops : seenRev[o] # rev' /\ marker[o] # rev'
  BY DEF Write, TypeOK
<1>2. \A o \in Ops : Engaged(o)' => Engaged(o)
  BY <1>1 DEF Engaged, Bears, Settles
<1>3. \A o \in Ops : Brings(o)' => Brings(o)
  BY DEF Brings, Settles
<1>4. SeenInv'
  BY <1>1 DEF SeenInv, Settles
<1>5. MarkerInv'
  BY <1>1 DEF MarkerInv, Settles, Working
<1>6. GivenInv'
  BY DEF GivenInv, Settles
<1>7. FreshInv'
  BY <1>1, <1>3 DEF FreshInv, Fresh
<1>8. RecordInv' /\ DoubtInv'
  BY <1>1 DEF RecordInv, DoubtInv, Revoker
<1>9. EngagedInv'
  BY <1>2 DEF EngagedInv
<1> QED
  BY <1>4, <1>5, <1>6, <1>7, <1>8, <1>9

(* A write that throws, by an operation that ends with it or marks next.   *)
LEMMA ThrowsStep ==
    ASSUME IInv, NEW r, NEW t, NEW m, Throws(r, Settled(t, m)),
           \A o \in Ops : Settles(o),
           UNCHANGED <<kind, seenRev, seenToken, marker>>,
           UNCHANGED <<request, given, spent, revoked>>,
           rev = r => /\ m = "gone" => rev # 0 /\ \E o \in Ops : Revoker(o)
                      /\ m # "gone" =>
                            /\ t # 0
                            /\ rev # 0 => \/ t = token
                                          \/ \E o \in Ops : given[o] = t /\ seenToken[o] = token
                      /\ Hook = "contract" /\ m = "none" => Clear(t)'
                      /\ \A o \in Ops : Brings(o)' => given[o] # t
    PROVE  RestInv'
<1> USE DEF IInv, RestInv
<1>1. /\ UNCHANGED <<rev, token, mark>>
      /\ \A w \in doubt' : w \in doubt \/ (rev = r /\ w.token = t /\ w.mark = m)
  BY DEF Throws, Settled
<1>2. \A o \in Ops : Engaged(o)' => Engaged(o)
  BY <1>1 DEF Engaged, Bears, Settles
<1>3. \A o \in Ops : Brings(o)' => Brings(o)
  BY DEF Brings, Settles
<1>4. \A x : Clear(x) => Clear(x)'
  BY <1>2 DEF Clear
<1>5. SeenInv'
  BY <1>1 DEF SeenInv, Settles
<1>6. MarkerInv'
  BY <1>1 DEF MarkerInv, Settles, Working
<1>7. GivenInv'
  BY DEF GivenInv, Settles
<1>8. FreshInv'
  BY <1>1, <1>3 DEF FreshInv, Fresh
<1>9. RecordInv'
  BY <1>1, <1>4 DEF RecordInv
<1>10. DoubtInv'
  BY <1>1, <1>4 DEF DoubtInv, Revoker
<1>11. EngagedInv'
  BY <1>2 DEF EngagedInv
<1> QED
  BY <1>5, <1>6, <1>7, <1>8, <1>9, <1>10, <1>11

(* The record goes, and with it the writes in doubt.                       *)
LEMMA EraseStep ==
    ASSUME IInv, Erase,
           \A o \in Ops : Settles(o),
           UNCHANGED <<kind, seenRev, seenToken, marker>>,
           UNCHANGED <<request, given, spent, revoked>>
    PROVE  RestInv'
<1> USE DEF IInv, RestInv
<1>1. rev' = 0 /\ doubt' = {} /\ UNCHANGED <<token, mark>>
  BY DEF Erase
<1>2. \A o \in Ops : Engaged(o)' => Engaged(o)
  BY <1>1 DEF Engaged, Bears, Settles, MarkerInv, Working
<1>3. \A o \in Ops : Brings(o)' => Brings(o)
  BY DEF Brings, Settles
<1>4. SeenInv'
  BY <1>1 DEF SeenInv, Settles
<1>5. MarkerInv'
  BY <1>1 DEF MarkerInv, Settles, Working
<1>6. GivenInv'
  BY DEF GivenInv, Settles
<1>7. FreshInv'
  BY <1>1, <1>3 DEF FreshInv, Fresh
<1>8. RecordInv' /\ DoubtInv'
  BY <1>1 DEF RecordInv, DoubtInv, Revoker
<1>9. EngagedInv'
  BY <1>2 DEF EngagedInv
<1> QED
  BY <1>4, <1>5, <1>6, <1>7, <1>8, <1>9

-----------------------------------------------------------------------------
(* The operations.                                                         *)

LEMMA ReadStep == ASSUME IInv, NEW o \in Ops, Read(o) PROVE RestInv'
BY QuietStep DEF Read, store, locals, provider

LEMMA AcquireStep == ASSUME IInv, NEW o \in Ops, Acquire(o) PROVE RestInv'
BY QuietStep DEF Acquire, store, locals, provider

LEMMA ReleaseStep == ASSUME IInv, NEW o \in Ops, Release(o) PROVE RestInv'
BY QuietStep DEF Release, store, locals, provider

LEMMA RecheckStep == ASSUME IInv, NEW o \in Ops, Recheck(o) PROVE RestInv'
BY QuietStep DEF Recheck, store, provider

LEMMA CrashStep == ASSUME IInv, NEW o \in Ops, Crash(o) PROVE RestInv'
BY QuietStep DEF Crash, store, locals, provider

LEMMA GivesUpStep ==
    ASSUME IInv, NEW o \in Ops, Cancelled(o) \/ TimesOut(o) \/ AnswerLost(o)
    PROVE  RestInv'
BY QuietStep DEF Cancelled, TimesOut, AnswerLost, AfterLost, Working, store, locals, provider

(* Reading under the lock gives an operation no token in hand.             *)
LEMMA SeesStep ==
    ASSUME IInv, NEW o \in Ops, pc[o] = "held", NEW l, Goto(o, l), rev # 0,
           \/ l = "mark" /\ mark = "none"
           \/ l \in {"revoking", "delete"} /\ kind[o] = "revoke" /\ (l = "delete" => o \notin Revokers),
           seenRev' = [seenRev EXCEPT ![o] = rev],
           seenToken' = [seenToken EXCEPT ![o] = token],
           UNCHANGED <<rev, token, mark, doubt, kind, marker>>,
           UNCHANGED <<request, given, spent, revoked>>
    PROVE  RestInv'
<1> USE DEF IInv, RestInv
<1>1. /\ pc'[o] = l /\ \A p \in Ops : p # o => pc'[p] = pc[p]
      /\ seenRev'[o] = rev /\ \A p \in Ops : p # o => seenRev'[p] = seenRev[p]
      /\ seenToken'[o] = token /\ \A p \in Ops : p # o => seenToken'[p] = seenToken[p]
      /\ token # 0
  BY Moves DEF TypeOK
<1>2. \A p \in Ops : Engaged(p)' => Engaged(p) /\ p # o
  BY <1>1 DEF Engaged, Bears, GivenInv
<1>3. \A p \in Ops : Brings(p)' => Brings(p)
  BY <1>1 DEF Brings
<1>4. \A t : Clear(t) => Clear(t)'
  BY <1>1, <1>2 DEF Clear
<1>5. SeenInv'
  BY <1>1 DEF SeenInv
<1>6. MarkerInv'
  BY <1>1 DEF MarkerInv, Working
<1>7. GivenInv'
  BY <1>1 DEF GivenInv
<1>8. FreshInv'
  BY <1>1, <1>3 DEF FreshInv, Fresh
<1>9. RecordInv' /\ DoubtInv'
  BY <1>1, <1>4 DEF RecordInv, DoubtInv, Revoker, GivenInv, SeenInv
<1>10. EngagedInv'
  BY <1>1, <1>2 DEF EngagedInv
<1> QED
  BY <1>5, <1>6, <1>7, <1>8, <1>9, <1>10

LEMMA ReadHeldStep == ASSUME IInv, NEW o \in Ops, ReadHeld(o) PROVE RestInv'
BY QuietStep, SeesStep DEF ReadHeld, MayRefresh, Fenced, store, provider

LEMMA ReadToRevokeStep == ASSUME IInv, NEW o \in Ops, ReadToRevoke(o) PROVE RestInv'
BY QuietStep, SeesStep DEF ReadToRevoke, store, provider

(* The marker takes the token out of the record and into the hand.         *)
LEMMA MarkStep == ASSUME IInv, NEW o \in Ops, Mark(o) PROVE RestInv'
<1> USE DEF IInv, RestInv
<1>1. CASE NotUpdated(seenRev[o]) /\ Goto(o, "release") /\ UNCHANGED marker
  BY <1>1, QuietStep DEF Mark, NotUpdated, store, provider
<1>2. CASE /\ Throws(seenRev[o], Settled(seenToken[o], "inFlight"))
           /\ Goto(o, "release") /\ UNCHANGED marker
  <2>1. \A p \in Ops : Settles(p) /\ (Brings(p)' => Brings(p))
    BY <1>2, Moves DEF Settles, Brings, Mark, provider
  <2>2. \A p \in Ops : Brings(p)' => given[p] # seenToken[o]
    BY <2>1 DEF FreshInv, Fresh
  <2> QED
    BY <1>2, <2>1, <2>2, ThrowsStep DEF Mark, SeenInv, provider
<1>3. CASE /\ Updated(seenRev[o], seenToken[o], "inFlight")
           /\ marker' = [marker EXCEPT ![o] = rev'] /\ Goto(o, "marked")
  <2>1. /\ pc'[o] = "marked" /\ \A p \in Ops : p # o => pc'[p] = pc[p]
        /\ marker'[o] = rev' /\ \A p \in Ops : p # o => marker'[p] = marker[p]
        /\ rev' = lastRev + 1 /\ token' = token /\ mark' = "inFlight" /\ doubt' = {}
        /\ rev' # 0 /\ \A p \in Ops : seenRev[p] # rev' /\ marker[p] # rev'
        /\ rev # 0 /\ mark = "none" /\ token = seenToken[o]
        /\ UNCHANGED <<kind, seenRev, seenToken, request, given, spent, revoked>>
        /\ pc[o] = "mark"
    BY <1>3, Moves DEF Mark, Updated, Write, TypeOK, SeenInv, provider
  <2>2. (Hook = "contract" => Clear(seenToken[o])) /\ request[o] = "none" /\ given[o] = 0
    BY <2>1 DEF RecordInv, GivenInv
  <2>3. \A p \in Ops : Engaged(p)' => Engaged(p) \/ p = o
    BY <2>1 DEF Engaged, Bears
  <2>4. \A p \in Ops : Brings(p)' => Brings(p)
    BY <2>1 DEF Brings
  <2>5. SeenInv'
    BY <2>1 DEF SeenInv
  <2>6. MarkerInv'
    BY <2>1 DEF MarkerInv, SeenInv, Working
  <2>7. GivenInv'
    BY <2>1, <2>2 DEF GivenInv
  <2>8. FreshInv'
    BY <2>1, <2>4 DEF FreshInv, Fresh
  <2>9. RecordInv' /\ DoubtInv'
    BY <2>1 DEF RecordInv, DoubtInv, Revoker
  <2>10. EngagedInv'
    BY <2>1, <2>2, <2>3 DEF EngagedInv, Clear
  <2> QED
    BY <2>5, <2>6, <2>7, <2>8, <2>9, <2>10
<1> QED
  BY <1>1, <1>2, <1>3 DEF Mark

(* The request leaves, or the token goes back without one.                 *)
LEMMA CallStep == ASSUME IInv, NEW o \in Ops, Call(o) PROVE RestInv'
<1> USE DEF IInv, RestInv
<1>1. /\ pc[o] = "marked" /\ pc'[o] \in {"calling", "restore"}
      /\ \A p \in Ops : p # o => pc'[p] = pc[p] /\ request'[p] = request[p]
      /\ request'[o] \in {"none", "sent"} /\ (pc'[o] = "restore" => request'[o] = "none")
      /\ UNCHANGED <<rev, token, mark, doubt, kind, seenRev, seenToken, marker>>
      /\ UNCHANGED <<given, spent, revoked>>
  BY Moves DEF Call, TypeOK, GivenInv, store, locals
<1>2. \A p \in Ops : Engaged(p)' => Engaged(p)
  BY <1>1 DEF Engaged, Bears
<1>3. \A p \in Ops : Brings(p)' => Brings(p)
  BY <1>1 DEF Brings
<1>4. \A t : Clear(t) => Clear(t)'
  BY <1>1, <1>2 DEF Clear
<1>5. SeenInv'
  BY <1>1 DEF SeenInv
<1>6. MarkerInv'
  BY <1>1 DEF MarkerInv, Working
<1>7. GivenInv'
  BY <1>1 DEF GivenInv
<1>8. FreshInv'
  BY <1>1, <1>3 DEF FreshInv, Fresh
<1>9. RecordInv' /\ DoubtInv'
  BY <1>1, <1>4 DEF RecordInv, DoubtInv, Revoker
<1>10. EngagedInv'
  BY <1>1, <1>2 DEF EngagedInv
<1> QED
  BY <1>5, <1>6, <1>7, <1>8, <1>9, <1>10

LEMMA AnsweredStep == ASSUME IInv, NEW o \in Ops, Answered(o) PROVE RestInv'
<1> USE DEF IInv, RestInv
<1>1. CASE Goto(o, "doubt")
  BY <1>1, QuietStep DEF Answered, Working, store, locals, provider
<1>2. CASE \/ request[o] = "applied" /\ Goto(o, "store")
           \/ request[o] = "refused" /\ Goto(o, "restore")
  <2>1. /\ pc[o] = "calling"
        /\ \/ request[o] = "applied" /\ pc'[o] = "store"
           \/ request[o] = "refused" /\ pc'[o] = "restore"
        /\ \A p \in Ops : p # o => pc'[p] = pc[p]
        /\ UNCHANGED <<rev, token, mark, doubt, kind, seenRev, seenToken, marker>>
        /\ UNCHANGED <<request, given, spent, revoked>>
    BY <1>2, Moves DEF Answered, store, locals, provider
  <2>2. \A p \in Ops : Engaged(p)' => Engaged(p)
    BY <2>1 DEF Engaged, Bears
  <2>3. \A p \in Ops : Brings(p)' => Brings(p)
    BY <2>1 DEF Brings
  <2>4. \A t : Clear(t) => Clear(t)'
    BY <2>1, <2>2 DEF Clear
  <2>5. SeenInv'
    BY <2>1 DEF SeenInv
  <2>6. MarkerInv'
    BY <2>1 DEF MarkerInv, Working
  <2>7. GivenInv'
    BY <2>1 DEF GivenInv
  <2>8. FreshInv'
    BY <2>1, <2>3 DEF FreshInv, Fresh
  <2>9. RecordInv' /\ DoubtInv'
    BY <2>1, <2>4 DEF RecordInv, DoubtInv, Revoker
  <2>10. EngagedInv'
    BY <2>1, <2>2 DEF EngagedInv
  <2> QED
    BY <2>5, <2>6, <2>7, <2>8, <2>9, <2>10
<1> QED
  BY <1>1, <1>2 DEF Answered

LEMMA StoreStep == ASSUME IInv, NEW o \in Ops, Store(o) PROVE RestInv'
<1> USE DEF IInv, RestInv
<1> DEFINE t == given[o]
<1>1. /\ pc[o] = "store" /\ pc'[o] \in {"release", "doubt"}
      /\ \A p \in Ops : p # o => pc'[p] = pc[p]
      /\ UNCHANGED <<kind, seenRev, seenToken, marker>>
      /\ UNCHANGED <<request, given, spent, revoked>>
      /\ t # 0 /\ t \in 1..issued /\ Fresh(t)
      /\ rev = marker[o] => token = seenToken[o]
  BY Moves DEF Store, TypeOK, GivenInv, FreshInv, Brings, MarkerInv, Working, locals, provider
<1>2. \A p \in Ops : Settles(p) /\ (Brings(p)' => given[p] # t)
  BY <1>1 DEF Settles, Brings, Working, GivenInv
<1>3. Clear(t)'
  BY <1>1 DEF Fresh, Clear
<1>4. CASE Updated(marker[o], t, "none")
  BY <1>1, <1>2, <1>3, <1>4, WriteStep DEF Updated, Marks
<1>5. CASE Throws(marker[o], Settled(t, "none"))
  BY <1>1, <1>2, <1>3, <1>5, ThrowsStep
<1>6. CASE NotUpdated(marker[o]) /\ Goto(o, "release")
  BY <1>1, <1>6, QuietStep DEF NotUpdated, store
<1> QED
  BY <1>4, <1>5, <1>6 DEF Store

(* Putting back the token that was read, or marking it uncertain.          *)
LEMMA RestoreStep ==
    ASSUME IInv, NEW o \in Ops, Restore(o) \/ Doubt(o) PROVE RestInv'
<1> USE DEF IInv, RestInv
<1> DEFINE t == seenToken[o]
           m == IF pc[o] = "restore" THEN "none" ELSE "uncertain"
<1>1. /\ pc[o] \in {"restore", "doubt"} /\ pc'[o] = "release"
      /\ \A p \in Ops : p # o => pc'[p] = pc[p]
      /\ UNCHANGED <<kind, seenRev, seenToken, marker>>
      /\ UNCHANGED <<request, given, spent, revoked>>
      /\ t # 0 /\ t \in 1..issued /\ m \in Marks /\ m # "gone" /\ marker[o] # 0
      /\ rev = marker[o] => token = t
      /\ Hook = "contract" /\ pc[o] = "restore" => request[o] # "sent"
      /\ Quietly(marker[o], t, m) /\ Goto(o, "release")
  BY Moves DEF Restore, Doubt, TypeOK, MarkerInv, GivenInv, Working, Marks, locals, provider
<1>2. \A p \in Ops : Settles(p) /\ (Brings(p)' => given[p] # t)
  BY <1>1 DEF Settles, Brings, FreshInv, Fresh
<1>3. Hook = "contract" /\ rev = marker[o] /\ m = "none" =>
          t \notin spent /\ \A p \in Ops : p # o /\ Engaged(p) => seenToken[p] # t
  BY <1>1 DEF EngagedInv, Engaged, Bears
<1>4. CASE rev = marker[o] /\ (Updated(marker[o], t, m) \/ Throws(marker[o], Settled(t, m)))
  <2>1. \A p \in Ops : Engaged(p)' => Engaged(p) /\ (Hook = "contract" /\ m = "none" => p # o)
    <3>1. rev' = rev \/ \A p \in Ops : marker[p] # rev'
      BY <1>1, <1>4 DEF Updated, Write, Throws, TypeOK
    <3> QED
      BY <1>1, <3>1 DEF Engaged, Bears
  <2>2. Hook = "contract" /\ m = "none" => Clear(t)'
    BY <1>1, <1>3, <1>4, <2>1 DEF Clear
  <2>3. CASE Updated(marker[o], t, m)
    BY <1>1, <1>2, <2>2, <2>3, WriteStep DEF Updated
  <2>4. CASE Throws(marker[o], Settled(t, m))
    BY <1>1, <1>2, <1>4, <2>2, <2>4, ThrowsStep
  <2> QED
    BY <1>4, <2>3, <2>4
<1>5. CASE rev # marker[o] /\ Throws(marker[o], Settled(t, m))
  BY <1>1, <1>2, <1>5, ThrowsStep
<1>6. CASE NotUpdated(marker[o])
  BY <1>1, <1>6, QuietStep DEF NotUpdated, store
<1> QED
  BY <1>1, <1>4, <1>5, <1>6 DEF Quietly, Updated

LEMMA RevokeStep == ASSUME IInv, NEW o \in Ops, Revoke(o) PROVE RestInv'
<1> USE DEF IInv, RestInv
<1>1. /\ pc[o] = "revoking" /\ pc'[o] \in {"delete", "release"}
      /\ pc'[o] = "delete" => seenToken[o] \in revoked'
      /\ \A p \in Ops : p # o => pc'[p] = pc[p]
      /\ UNCHANGED <<rev, token, mark, doubt, kind, seenRev, seenToken, marker>>
      /\ UNCHANGED <<request, given, spent>> /\ revoked \subseteq revoked'
  BY Moves DEF Revoke, store, locals
<1>2. \A p \in Ops : Engaged(p)' => Engaged(p)
  BY <1>1 DEF Engaged, Bears
<1>3. \A p \in Ops : Brings(p)' => Brings(p)
  BY <1>1 DEF Brings
<1>4. \A t : Clear(t) => Clear(t)'
  BY <1>1, <1>2 DEF Clear
<1>5. SeenInv'
  BY <1>1 DEF SeenInv
<1>6. MarkerInv'
  BY <1>1 DEF MarkerInv, Working
<1>7. GivenInv'
  BY <1>1 DEF GivenInv
<1>8. FreshInv'
  BY <1>1, <1>3 DEF FreshInv, Fresh
<1>9. RecordInv' /\ DoubtInv'
  BY <1>1, <1>4 DEF RecordInv, DoubtInv, Revoker
<1>10. EngagedInv'
  BY <1>1, <1>2 DEF EngagedInv
<1> QED
  BY <1>5, <1>6, <1>7, <1>8, <1>9, <1>10

LEMMA DeleteStep == ASSUME IInv, NEW o \in Ops, Delete(o) PROVE RestInv'
<1> USE DEF IInv, RestInv
<1>1. /\ pc[o] = "delete" /\ pc'[o] \in {"release", "recheck"}
      /\ \A p \in Ops : p # o => pc'[p] = pc[p]
      /\ UNCHANGED <<kind, seenRev, seenToken, marker>>
      /\ UNCHANGED <<request, given, spent, revoked>>
      /\ seenRev[o] # 0 /\ (rev = seenRev[o] => Revoker(o))
  BY Moves DEF Delete, SeenInv, Revoker, locals, provider
<1>2. CASE Erase /\ Goto(o, "release")
  BY <1>1, <1>2, EraseStep, Moves DEF Settles
<1>3. CASE NotUpdated(seenRev[o]) /\ Goto(o, "recheck")
  BY <1>1, <1>3, QuietStep DEF NotUpdated, store
<1>4. CASE Throws(seenRev[o], Erased) /\ Goto(o, "release")
  <2>1. \A p \in Ops : Settles(p) /\ (Brings(p)' => given[p] # 0)
    BY <1>1, <1>4, Moves DEF Settles, Brings, GivenInv
  <2> QED
    BY <1>1, <1>4, <2>1, ThrowsStep DEF Erased
<1> QED
  BY <1>2, <1>3, <1>4 DEF Delete

LEMMA RemoveStep == ASSUME IInv, NEW o \in Ops, Remove(o) \/ RemoveLands(o) PROVE RestInv'
<1>1. CASE Erase /\ Goto(o, "done") /\ UNCHANGED <<locals, kind, provider>>
  BY <1>1, EraseStep, Moves DEF Settles, IInv, locals, provider
<1>2. CASE UNCHANGED store /\ Goto(o, "adrift") /\ pc[o] = "remove" /\ UNCHANGED <<locals, kind, provider>>
  BY <1>2, QuietStep DEF store, locals, provider
<1> QED
  BY <1>1, <1>2 DEF Remove, RemoveLands

(* The application's new token set is unlike any other.                    *)
LEMMA AuthorizeStep == ASSUME IInv, NEW o \in Ops, Authorize(o) PROVE RestInv'
<1> USE DEF IInv, RestInv
<1>1. /\ pc[o] = "read" /\ pc'[o] = "write"
      /\ \A p \in Ops : p # o => pc'[p] = pc[p]
      /\ seenRev'[o] = rev /\ \A p \in Ops : p # o => seenRev'[p] = seenRev[p]
      /\ seenToken'[o] = token /\ \A p \in Ops : p # o => seenToken'[p] = seenToken[p]
      /\ given'[o] = issued + 1 /\ \A p \in Ops : p # o => given'[p] = given[p]
      /\ UNCHANGED <<rev, token, mark, doubt, kind, marker, request, spent, revoked>>
  BY Moves DEF Authorize, TypeOK, store
<1>2. /\ \A t \in spent : t # issued + 1
      /\ \A w \in doubt : w.token # issued + 1
      /\ \A p \in Ops : seenToken[p] # issued + 1 /\ given[p] # issued + 1
      /\ token # issued + 1 /\ issued + 1 # 0 /\ token # 0
  BY DEF TypeOK
<1>3. \A p \in Ops : Engaged(p)' => Engaged(p) /\ p # o
  BY <1>1 DEF Engaged, Bears, GivenInv
<1>4. \A p \in Ops : Brings(p)' => Brings(p) \/ p = o
  BY <1>1 DEF Brings
<1>5. \A t : Clear(t) => Clear(t)'
  BY <1>1, <1>3 DEF Clear
<1>6. SeenInv'
  BY <1>1 DEF SeenInv
<1>7. MarkerInv'
  BY <1>1, <1>2 DEF MarkerInv, Working
<1>8. GivenInv'
  BY <1>1, <1>2 DEF GivenInv
<1>9. FreshInv'
  BY <1>1, <1>2, <1>4 DEF FreshInv, Fresh
<1>10. RecordInv' /\ DoubtInv'
  BY <1>1, <1>5 DEF RecordInv, DoubtInv, Revoker, GivenInv, SeenInv
<1>11. EngagedInv'
  BY <1>1, <1>3 DEF EngagedInv
<1> QED
  BY <1>6, <1>7, <1>8, <1>9, <1>10, <1>11

LEMMA SaveStep == ASSUME IInv, NEW o \in Ops, Save(o) PROVE RestInv'
<1> USE DEF IInv, RestInv
<1> DEFINE t == given[o]
<1>1. /\ pc[o] = "write" /\ pc'[o] = "done"
      /\ \A p \in Ops : p # o => pc'[p] = pc[p]
      /\ UNCHANGED <<kind, seenRev, seenToken, marker>>
      /\ UNCHANGED <<request, given, spent, revoked>>
      /\ t # 0 /\ t \in 1..issued /\ Fresh(t)
      /\ rev # 0 /\ rev = seenRev[o] => token = seenToken[o]
      /\ Quietly(seenRev[o], t, "none") /\ Goto(o, "done")
  BY Moves DEF Save, TypeOK, GivenInv, FreshInv, Brings, SeenInv, locals, provider
<1>2. \A p \in Ops : Settles(p) /\ (Brings(p)' => given[p] # t)
  BY <1>1 DEF Settles, Brings, GivenInv
<1>3. Clear(t)'
  BY <1>1 DEF Fresh, Clear
<1>4. CASE Updated(seenRev[o], t, "none")
  BY <1>1, <1>2, <1>3, <1>4, WriteStep DEF Updated, Marks
<1>5. CASE Throws(seenRev[o], Settled(t, "none"))
  BY <1>1, <1>2, <1>3, <1>5, ThrowsStep
<1>6. CASE NotUpdated(seenRev[o])
  BY <1>1, <1>6, QuietStep DEF NotUpdated, store
<1> QED
  BY <1>1, <1>4, <1>5, <1>6 DEF Quietly

(* A write in doubt lands.                                                 *)
LEMMA LandsStep == ASSUME IInv, Lands PROVE RestInv'
<1> USE DEF IInv, RestInv
<1>1. PICK w \in doubt : IF w.mark = "gone" THEN Erase ELSE Write(w.token, w.mark)
  BY DEF Lands
<1>2. /\ UNCHANGED <<kind, seenRev, seenToken, marker>>
      /\ UNCHANGED <<pc, request, given, spent, revoked>>
  BY DEF Lands, locals, provider
<1>3. \A o \in Ops : Settles(o)
  BY <1>2 DEF Settles
<1>4. CASE w.mark = "gone"
  BY <1>1, <1>2, <1>3, <1>4, EraseStep
<1>5. CASE w.mark # "gone"
  <2>1. w.token \in 1..issued /\ w.mark \in Marks
    BY <1>5 DEF DoubtInv, TypeOK
  <2>2. \A o \in Ops : Engaged(o)' => Engaged(o)
    BY <1>1, <1>2, <1>5 DEF Write, TypeOK, Engaged, Bears
  <2>3. Hook = "contract" /\ w.mark = "none" => Clear(w.token)'
    BY <1>2, <2>2 DEF DoubtInv, Clear
  <2>4. \A o \in Ops : Brings(o)' => given[o] # w.token
    BY <1>2 DEF Brings, FreshInv, Fresh
  <2> QED
    BY <1>1, <1>2, <1>3, <1>5, <2>1, <2>3, <2>4, WriteStep
<1> QED
  BY <1>4, <1>5

-----------------------------------------------------------------------------
(* The provider.                                                           *)

LEMMA ProviderAppliesStep == ASSUME IInv, NEW o \in Ops, ProviderApplies(o) PROVE RestInv'
<1> USE DEF IInv, RestInv
<1>1. /\ request[o] = "sent" /\ request'[o] = "applied"
      /\ \A p \in Ops : p # o => request'[p] = request[p]
      /\ given'[o] = issued + 1 /\ \A p \in Ops : p # o => given'[p] = given[p]
      /\ spent' = spent \cup {seenToken[o]}
      /\ UNCHANGED <<rev, token, mark, doubt, kind, pc, seenRev, seenToken, marker, revoked>>
  BY DEF ProviderApplies, TypeOK, store, locals
<1>2. /\ \A t \in spent : t # issued + 1
      /\ \A w \in doubt : w.token # issued + 1
      /\ \A p \in Ops : seenToken[p] # issued + 1 /\ given[p] # issued + 1
      /\ token # issued + 1 /\ issued + 1 # 0
  BY DEF TypeOK
<1>3. Hook = "contract" => \A p \in Ops : Engaged(p)' => Engaged(p) /\ p # o
  BY <1>1 DEF Engaged, Bears, GivenInv
<1>4. \A p \in Ops : Brings(p)' => Brings(p) \/ p = o
  BY <1>1 DEF Brings
<1>5. Hook = "contract" => \A t : Clear(t) => Clear(t)'
  BY <1>1, <1>3 DEF Clear, Engaged
<1>6. SeenInv' /\ MarkerInv'
  BY <1>1 DEF SeenInv, MarkerInv
<1>7. GivenInv'
  BY <1>1, <1>2 DEF GivenInv
<1>8. FreshInv'
  BY <1>1, <1>2, <1>4 DEF FreshInv, Fresh
<1>9. RecordInv'
  BY <1>1, <1>5 DEF RecordInv
<1>10. DoubtInv'
  BY <1>1, <1>5 DEF DoubtInv, GivenInv, Revoker
<1>11. EngagedInv'
  BY <1>1, <1>3 DEF EngagedInv, Engaged
<1> QED
  BY <1>6, <1>7, <1>8, <1>9, <1>10, <1>11

LEMMA ProviderRefusesStep == ASSUME IInv, NEW o \in Ops, ProviderRefuses(o) PROVE RestInv'
<1> USE DEF IInv, RestInv
<1>1. /\ request[o] = "sent" /\ request'[o] = "refused"
      /\ \A p \in Ops : p # o => request'[p] = request[p]
      /\ UNCHANGED <<rev, token, mark, doubt, kind, pc, seenRev, seenToken, marker, revoked>>
      /\ UNCHANGED <<given, spent>>
  BY DEF ProviderRefuses, TypeOK, store, locals
<1>2. \A p \in Ops : Engaged(p)' => Engaged(p)
  BY <1>1 DEF Engaged, Bears
<1>3. \A p \in Ops : Brings(p)' => Brings(p)
  BY <1>1 DEF Brings
<1>4. \A t : Clear(t) => Clear(t)'
  BY <1>1, <1>2 DEF Clear
<1>5. SeenInv' /\ MarkerInv'
  BY <1>1 DEF SeenInv, MarkerInv
<1>6. GivenInv'
  BY <1>1 DEF GivenInv
<1>7. FreshInv'
  BY <1>1, <1>3 DEF FreshInv, Fresh
<1>8. RecordInv' /\ DoubtInv'
  BY <1>1, <1>4 DEF RecordInv, DoubtInv, Revoker
<1>9. EngagedInv'
  BY <1>1, <1>2 DEF EngagedInv
<1> QED
  BY <1>5, <1>6, <1>7, <1>8, <1>9

-----------------------------------------------------------------------------
(* Types: the store's part, then every operation's.                        *)

StoreTypes ==
    /\ rev \in 0..lastRev /\ token \in 1..issued /\ mark \in Marks /\ lastRev \in Nat
    /\ doubt \subseteq [token : 0..issued, mark : Marks \cup {"gone"}]
    /\ faults \in 0..Faults

LEMMA StoreTyped ==
    ASSUME TypeOK, NEW r, NEW t \in 1..issued, NEW m \in Marks, UNCHANGED issued,
           Quietly(r, t, m) \/ Throws(r, Erased) \/ (Erase /\ UNCHANGED faults)
    PROVE  StoreTypes' /\ lastRev' >= lastRev
<1>1. CASE Updated(r, t, m)
  BY <1>1 DEF TypeOK, StoreTypes, Updated, Write
<1>2. CASE NotUpdated(r)
  BY <1>2 DEF TypeOK, StoreTypes, NotUpdated, store
<1>3. CASE Throws(r, Settled(t, m)) \/ Throws(r, Erased)
  <2>1. Settled(t, m) \in [token : 0..issued, mark : Marks \cup {"gone"}]
    BY DEF Settled, TypeOK
  <2>2. Erased \in [token : 0..issued, mark : Marks \cup {"gone"}]
    BY DEF Erased, Settled, TypeOK
  <2>3. doubt' \subseteq [token : 0..issued, mark : Marks \cup {"gone"}]
    BY <1>3, <2>1, <2>2 DEF Throws, TypeOK
  <2> QED
    BY <1>3, <2>3, FaultsAssumption DEF TypeOK, StoreTypes, Throws
<1>4. CASE Erase /\ UNCHANGED faults
  BY <1>4 DEF TypeOK, StoreTypes, Erase
<1> QED
  BY <1>1, <1>2, <1>3, <1>4 DEF Quietly

(* A step that changes no more than the store, the markers and a place.    *)
LEMMA RestTyped ==
    ASSUME TypeOK, StoreTypes', lastRev' >= lastRev, pc' \in [Ops -> Labels],
           marker' \in [Ops -> 0..lastRev'],
           \A o \in Ops : request[o] # "none" => marker'[o] # 0,
           UNCHANGED <<lease, late, due, kind, seenRev, seenToken, verdict>>,
           UNCHANGED <<request, given, issued, spent, revoked>>
    PROVE  TypeOK'
<1>1. lastRev \in Nat /\ lastRev' \in Nat /\ 1..lastRev \subseteq 1..lastRev' /\ 0..lastRev \subseteq 0..lastRev'
  BY DEF TypeOK, StoreTypes
<1>2. late' \subseteq 1..lastRev' /\ seenRev' \in [Ops -> 0..lastRev']
  BY <1>1 DEF TypeOK
<1> QED
  BY <1>2 DEF TypeOK, StoreTypes

LEMMA MarkTyped == ASSUME IInv, NEW o \in Ops, Mark(o) PROVE TypeOK'
<1> USE DEF IInv, RestInv
<1>1. /\ Quietly(seenRev[o], seenToken[o], "inFlight")
      /\ seenToken[o] \in 1..issued /\ UNCHANGED issued
      /\ pc' \in [Ops -> Labels]
  BY Moves DEF Mark, Quietly, SeenInv, TypeOK, Labels, provider
<1>2. StoreTypes' /\ lastRev' >= lastRev /\ lastRev' \in Nat /\ lastRev \in Nat
  BY <1>1, StoreTyped DEF Marks, StoreTypes, TypeOK
<1>3. /\ marker' \in [Ops -> 0..lastRev']
      /\ \A p \in Ops : request[p] # "none" => marker'[p] # 0
  <2>1. marker \in [Ops -> 0..lastRev']
    BY <1>2 DEF TypeOK
  <2>2. CASE UNCHANGED marker
    BY <2>1, <2>2 DEF TypeOK
  <2>3. CASE Updated(seenRev[o], seenToken[o], "inFlight") /\ marker' = [marker EXCEPT ![o] = rev']
    <3>1. rev' = lastRev' /\ rev' # 0
      BY <1>2, <2>3 DEF Updated, Write
    <3> QED
      BY <1>2, <2>1, <2>3, <3>1 DEF TypeOK
  <2> QED
    BY <2>2, <2>3 DEF Mark
<1> QED
  BY <1>1, <1>2, <1>3, RestTyped DEF Mark, clocks, provider

LEMMA WritesTyped ==
    ASSUME IInv, NEW o \in Ops,
           Store(o) \/ Restore(o) \/ Doubt(o) \/ Delete(o) \/ Save(o) \/ Remove(o) \/ RemoveLands(o)
    PROVE  TypeOK'
<1> USE DEF IInv, RestInv
<1>1. /\ pc' \in [Ops -> Labels]
      /\ UNCHANGED <<lease, late, due, kind, seenRev, seenToken, verdict, marker>>
      /\ UNCHANGED <<request, given, issued, spent, revoked>>
  BY Moves DEF Store, Restore, Doubt, Delete, Save, Remove, RemoveLands, Labels, clocks, locals, provider
<1>2. given[o] \in 0..issued /\ seenToken[o] \in 0..issued /\ issued \in Nat /\ token \in 1..issued
  BY DEF TypeOK
<1>3. StoreTypes' /\ lastRev' >= lastRev
  <2>1. CASE Store(o)
    <3>1. given[o] \in 1..issued /\ Quietly(marker[o], given[o], "none")
      BY <1>2, <2>1 DEF Store, Quietly, GivenInv
    <3> QED
      BY <1>1, <3>1, StoreTyped DEF Marks
  <2>2. CASE Restore(o)
    <3>1. seenToken[o] \in 1..issued /\ Quietly(marker[o], seenToken[o], "none")
      BY <1>2, <2>2 DEF Restore, MarkerInv, Working
    <3> QED
      BY <1>1, <3>1, StoreTyped DEF Marks
  <2>3. CASE Doubt(o)
    <3>1. seenToken[o] \in 1..issued /\ Quietly(marker[o], seenToken[o], "uncertain")
      BY <1>2, <2>3 DEF Doubt, MarkerInv, Working
    <3> QED
      BY <1>1, <3>1, StoreTyped DEF Marks
  <2>4. CASE Delete(o)
    <3>1. \/ Erase /\ UNCHANGED faults
          \/ Quietly(seenRev[o], token, "none")
          \/ Throws(seenRev[o], Erased)
      BY <2>4 DEF Delete, Quietly
    <3> QED
      BY <1>1, <1>2, <3>1, StoreTyped DEF Marks
  <2>5. CASE Save(o)
    <3>1. given[o] \in 1..issued /\ Quietly(seenRev[o], given[o], "none")
      BY <1>2, <2>5 DEF Save, GivenInv
    <3> QED
      BY <1>1, <3>1, StoreTyped DEF Marks
  <2>6. CASE Remove(o) \/ RemoveLands(o)
    <3>1. CASE Erase /\ UNCHANGED faults
      BY <1>1, <1>2, <3>1, StoreTyped DEF Marks
    <3>2. CASE faults > 0 /\ faults' = faults - 1 /\ UNCHANGED store
      BY <3>2, <1>1, FaultsAssumption DEF TypeOK, StoreTypes, store
    <3> QED
      BY <2>6, <3>1, <3>2 DEF Remove, RemoveLands
  <2> QED
    BY <2>1, <2>2, <2>3, <2>4, <2>5, <2>6
<1>4. /\ marker' \in [Ops -> 0..lastRev']
      /\ \A p \in Ops : request[p] # "none" => marker'[p] # 0
  BY <1>1, <1>3 DEF TypeOK, StoreTypes
<1> QED
  BY <1>1, <1>3, <1>4, RestTyped

LEMMA LandsTyped == ASSUME IInv, Lands PROVE TypeOK'
<1> USE DEF IInv, RestInv
<1>1. PICK w \in doubt : IF w.mark = "gone" THEN Erase ELSE Write(w.token, w.mark)
  BY DEF Lands
<1>2. /\ UNCHANGED <<pc, lease, late, due, kind, seenRev, seenToken, verdict, marker, faults>>
      /\ UNCHANGED <<request, given, issued, spent, revoked>>
  BY DEF Lands, clocks, locals, provider
<1>3. CASE w.mark = "gone"
  <2>1. StoreTypes' /\ lastRev' = lastRev
    BY <1>1, <1>2, <1>3 DEF Erase, StoreTypes, TypeOK
  <2> QED
    BY <1>2, <2>1, RestTyped DEF TypeOK
<1>4. CASE w.mark # "gone"
  <2>1. w.token \in 1..issued /\ w.mark \in Marks
    BY <1>4 DEF DoubtInv, TypeOK
  <2>2. StoreTypes' /\ lastRev' = lastRev + 1 /\ lastRev \in Nat
    BY <1>1, <1>2, <1>4, <2>1 DEF Write, StoreTypes, TypeOK
  <2>3. marker' \in [Ops -> 0..lastRev'] /\ pc' \in [Ops -> Labels]
    BY <1>2, <2>2 DEF TypeOK
  <2> QED
    BY <1>2, <2>2, <2>3, RestTyped DEF TypeOK
<1> QED
  BY <1>3, <1>4

LEMMA TypeStep == ASSUME IInv, Next PROVE TypeOK'
<1> USE DEF IInv
<1>1. ASSUME NEW o \in Ops, Read(o) PROVE TypeOK'
  BY <1>1, Moves, OpsAssumption DEF TypeOK, Read, Labels, store, locals, provider, clocks
<1>2. ASSUME NEW o \in Ops, Acquire(o) PROVE TypeOK'
  BY <1>2, Moves, OpsAssumption DEF TypeOK, Acquire, Labels, store, locals, provider, clocks
<1>3. ASSUME NEW o \in Ops, ReadHeld(o) PROVE TypeOK'
  BY <1>3, Moves, OpsAssumption DEF TypeOK, ReadHeld, Labels, store, locals, provider, clocks
<1>4. ASSUME NEW o \in Ops, Release(o) PROVE TypeOK'
  BY <1>4, Moves, OpsAssumption DEF TypeOK, Release, Labels, store, locals, provider, clocks
<1>5. ASSUME NEW o \in Ops, ReadToRevoke(o) PROVE TypeOK'
  BY <1>5, Moves, OpsAssumption DEF TypeOK, ReadToRevoke, Labels, store, locals, provider, clocks
<1>6. ASSUME NEW o \in Ops, Recheck(o) PROVE TypeOK'
  BY <1>6, Moves, OpsAssumption DEF TypeOK, Recheck, Labels, store, locals, provider, clocks
<1>7. ASSUME NEW o \in Ops, Authorize(o) PROVE TypeOK'
  BY <1>7, Moves, OpsAssumption DEF TypeOK, Authorize, Labels, store, locals, provider, clocks
<1>8. ASSUME NEW o \in Ops, Answered(o) PROVE TypeOK'
  BY <1>8, Moves, OpsAssumption DEF TypeOK, Answered, Labels, store, locals, provider, clocks
<1>9. ASSUME NEW o \in Ops, Cancelled(o) PROVE TypeOK'
  BY <1>9, Moves, OpsAssumption DEF TypeOK, Cancelled, Labels, store, locals, provider, clocks
<1>10. ASSUME NEW o \in Ops, TimesOut(o) PROVE TypeOK'
  BY <1>10, Moves, OpsAssumption DEF TypeOK, TimesOut, Labels, store, locals, provider, clocks
<1>11. ASSUME NEW o \in Ops, ProviderRefuses(o) PROVE TypeOK'
  BY <1>11, Moves, OpsAssumption DEF TypeOK, ProviderRefuses, Labels, store, locals, provider,
     clocks
<1>12. ASSUME NEW o \in Ops, Crash(o) PROVE TypeOK'
  BY <1>12, Moves, OpsAssumption DEF TypeOK, Crash, Labels, store, locals, provider, clocks
<1>13. ASSUME NEW o \in Ops, Call(o) PROVE TypeOK'
  BY <1>13, Moves DEF TypeOK, Call, RestInv, MarkerInv, Working, Labels, store, locals, clocks
<1>14. ASSUME NEW o \in Ops, AnswerLost(o) PROVE TypeOK'
  BY <1>14, Moves DEF TypeOK, AnswerLost, AfterLost, Labels, store, locals, provider, clocks
<1>15. ASSUME NEW o \in Ops, Revoke(o) PROVE TypeOK'
  <2>1. seenToken[o] \in 1..issued /\ pc' \in [Ops -> Labels]
    BY <1>15, Moves DEF Revoke, RestInv, SeenInv, TypeOK, Labels
  <2> QED
    BY <1>15, <2>1 DEF TypeOK, Revoke, store, locals, clocks
<1>16. ASSUME NEW o \in Ops, ProviderApplies(o) PROVE TypeOK'
  <2>1. /\ seenToken[o] \in 1..issued' /\ issued' = issued + 1 /\ issued \in Nat
        /\ 0..issued \subseteq 0..issued' /\ 1..issued \subseteq 1..issued'
        /\ spent' = spent \cup {seenToken[o]}
        /\ given' = [given EXCEPT ![o] = issued'] /\ request' = [request EXCEPT ![o] = "applied"]
    BY <1>16 DEF ProviderApplies, RestInv, MarkerInv, TypeOK
  <2>2. /\ spent' \subseteq 1..issued' /\ revoked \subseteq 1..issued' /\ due \subseteq 1..issued'
        /\ doubt \subseteq [token : 0..issued', mark : Marks \cup {"gone"}]
        /\ seenToken \in [Ops -> 0..issued'] /\ token \in 1..issued' /\ given' \in [Ops -> 0..issued']
    <3>1. given \in [Ops -> 0..issued'] /\ issued' \in 0..issued'
      BY <2>1 DEF TypeOK
    <3>2. given' \in [Ops -> 0..issued']
      BY <2>1, <3>1
    <3>3. seenToken \in [Ops -> 0..issued'] /\ token \in 1..issued'
      BY <2>1 DEF TypeOK
    <3>4. doubt \subseteq [token : 0..issued', mark : Marks \cup {"gone"}]
      BY <2>1 DEF TypeOK
    <3>5. spent' \subseteq 1..issued' /\ revoked \subseteq 1..issued' /\ due \subseteq 1..issued'
      BY <2>1 DEF TypeOK
    <3> QED
      BY <3>2, <3>3, <3>4, <3>5
  <2>3. \A p \in Ops : request'[p] # "none" => marker[p] # 0
    BY <1>16, <2>1 DEF ProviderApplies, TypeOK
  <2> QED
    BY <1>16, <2>1, <2>2, <2>3 DEF TypeOK, ProviderApplies, store, locals, clocks
<1>17. ASSUME TokenDue \/ LeaseExpires PROVE TypeOK'
  BY <1>17 DEF TypeOK, TokenDue, LeaseExpires, store, locals, provider, clocks
<1>18. ASSUME SomeDeadlinePasses PROVE TypeOK'
  <2>1. PICK r \in 1..lastRev : DeadlinePasses(r)
    BY <1>18 DEF SomeDeadlinePasses, RestInv, MarkerInv, Working, TypeOK
  <2> QED
    BY <2>1 DEF DeadlinePasses, TypeOK, store, locals, provider
<1> QED
  BY <1>1, <1>2, <1>3, <1>4, <1>5, <1>6, <1>7, <1>8, <1>9, <1>10, <1>11, <1>12, <1>13, <1>14,
     <1>15, <1>16, <1>17, <1>18, MarkTyped, WritesTyped, LandsTyped DEF Next, Proceeds

-----------------------------------------------------------------------------
(* Clocks and leases are no part of the argument.                          *)
Idle ==
    /\ UNCHANGED <<rev, token, mark, doubt, kind, pc, seenRev, seenToken, marker>>
    /\ UNCHANGED <<request, given, spent, revoked>>

LEMMA IdleStep == ASSUME IInv, Idle PROVE RestInv'
<1> USE DEF IInv, RestInv, Idle
<1>1. \A o \in Ops : (Engaged(o)' => Engaged(o)) /\ (Brings(o)' => Brings(o))
  BY DEF Engaged, Bears, Brings
<1>2. \A t : Clear(t) => Clear(t)'
  BY <1>1 DEF Clear
<1>3. SeenInv' /\ MarkerInv' /\ GivenInv'
  BY DEF SeenInv, MarkerInv, GivenInv
<1>4. FreshInv'
  BY <1>1 DEF FreshInv, Fresh
<1>5. RecordInv' /\ DoubtInv'
  BY <1>2 DEF RecordInv, DoubtInv, Revoker
<1>6. EngagedInv'
  BY <1>1 DEF EngagedInv
<1> QED
  BY <1>3, <1>4, <1>5, <1>6

LEMMA InvariantStep == ASSUME IInv, [Next]_vars PROVE IInv'
<1>1. ASSUME NEW o \in Ops, Proceeds(o) PROVE RestInv'
  BY <1>1, ReadStep, AcquireStep, ReadHeldStep, MarkStep, CallStep, StoreStep, RestoreStep,
     ReleaseStep,
     ReadToRevokeStep, DeleteStep, RecheckStep, AuthorizeStep, SaveStep, RemoveStep DEF Proceeds
<1>2. ASSUME NEW o \in Ops, Answered(o) \/ AnswerLost(o) \/ Cancelled(o) \/ TimesOut(o) PROVE RestInv'
  BY <1>2, AnsweredStep, GivesUpStep
<1>3. ASSUME NEW o \in Ops,
             Revoke(o) \/ RemoveLands(o) \/ ProviderApplies(o) \/ ProviderRefuses(o) \/ Crash(o)
      PROVE  RestInv'
  BY <1>3, RevokeStep, RemoveStep, ProviderAppliesStep, ProviderRefusesStep, CrashStep
<1>4. ASSUME Lands PROVE RestInv'
  BY <1>4, LandsStep
<1>5. ASSUME TokenDue \/ SomeDeadlinePasses \/ LeaseExpires PROVE RestInv'
  <2>1. Idle
    BY <1>5 DEF TokenDue, SomeDeadlinePasses, DeadlinePasses, LeaseExpires, Idle, store,
       locals, provider
  <2> QED
    BY <2>1, IdleStep
<1>6. CASE UNCHANGED vars
  <2>1. Idle /\ UNCHANGED <<lastRev, faults, lease, late, due, verdict, issued>>
    BY <1>6 DEF vars, Idle, store, locals, provider, clocks
  <2> QED
    BY <2>1, IdleStep DEF IInv, TypeOK, Idle
<1>7. CASE Next
  <2>1. RestInv'
    BY <1>1, <1>2, <1>3, <1>4, <1>5, <1>7 DEF Next
  <2> QED
    BY <1>7, <2>1, TypeStep DEF IInv
<1> QED
  BY <1>6, <1>7

LEMMA Invariance == Spec => []IInv
<1>1. IInv /\ [Next]_vars => IInv'
  BY InvariantStep
<1> QED
  BY <1>1, InitIInv, PTL DEF Spec

\* Whatever the hook reports, every variable keeps its type for any number of operations, and a
\* request was sent only under a marker of its own.
THEOREM TypeCorrect == Spec => []TypeOK
<1>1. IInv => TypeOK
  BY DEF IInv
<1> QED
  BY <1>1, Invariance, PTL

\* With a hook that keeps its contract, for any number of workers, crashes, expired leases and
\* failing writes, no refresh presents a token that another one spent or may yet spend.
THEOREM NeverPresentedTwice == ASSUME Hook = "contract" PROVE Spec => []PresentedOnce
<1>1. IInv /\ Hook = "contract" => PresentedOnce
  BY DEF IInv, RestInv, EngagedInv, Engaged, PresentedOnce
<1> QED
  BY <1>1, Invariance, PTL

\* With a hook that keeps its contract, for any number of workers, what the store offers without a
\* marker is not spent and will not be.
THEOREM UnmarkedStaysLive == ASSUME Hook = "contract" PROVE Spec => []UnmarkedIsLive
<1>1. IInv /\ Hook = "contract" => UnmarkedIsLive
  BY DEF IInv, RestInv, RecordInv, Clear, Engaged, UnmarkedIsLive
<1> QED
  BY <1>1, Invariance, PTL

-----------------------------------------------------------------------------
(* Every change of the record is by somebody who read what it replaces.    *)
Lawful ==
    /\ rev # 0 /\ rev' # 0 /\ token' # token => \E o \in Ops : Writer(o)
    /\ rev # 0 /\ rev' = 0 => \E o \in Ops : Revoker(o) \/ Remover(o)

LEMMA KeepsRecord == ASSUME UNCHANGED <<rev, token>> PROVE Lawful
BY DEF Lawful

LEMMA WritesLawful ==
    ASSUME IInv, NEW o \in Ops, NEW r, NEW t, NEW m, Quietly(r, t, m),
           rev = r /\ rev # 0 => t = token \/ (given[o] = t /\ t # 0 /\ seenToken[o] = token)
    PROVE  Lawful
<1>1. CASE Updated(r, t, m)
  BY <1>1 DEF Updated, Write, IInv, TypeOK, Lawful, Writer
<1>2. CASE NotUpdated(r) \/ Throws(r, Settled(t, m))
  BY <1>2, KeepsRecord DEF NotUpdated, Throws, store
<1> QED
  BY <1>1, <1>2 DEF Quietly

LEMMA LawfulStep == ASSUME IInv, Next PROVE Lawful
<1> USE DEF IInv, RestInv
<1>1. ASSUME NEW o \in Ops, Mark(o) PROVE Lawful
  <2>1. Quietly(seenRev[o], seenToken[o], "inFlight")
    BY <1>1 DEF Mark, Quietly
  <2> QED
    BY <1>1, <2>1, WritesLawful DEF Mark, SeenInv
<1>2. ASSUME NEW o \in Ops, Store(o) PROVE Lawful
  <2>1. Quietly(marker[o], given[o], "none")
    BY <1>2 DEF Store, Quietly
  <2> QED
    BY <1>2, <2>1, WritesLawful DEF Store, MarkerInv, GivenInv, Working
<1>3. ASSUME NEW o \in Ops, Restore(o) \/ Doubt(o) PROVE Lawful
  BY <1>3, WritesLawful DEF Restore, Doubt, MarkerInv, Working
<1>4. ASSUME NEW o \in Ops, Save(o) PROVE Lawful
  BY <1>4, WritesLawful DEF Save, SeenInv, GivenInv
<1>5. ASSUME NEW o \in Ops, Delete(o) PROVE Lawful
  <2>1. CASE rev = seenRev[o] /\ Erase
    BY <1>5, <2>1 DEF Delete, Erase, SeenInv, Revoker, Lawful
  <2>2. CASE NotUpdated(seenRev[o]) \/ Throws(seenRev[o], Erased)
    BY <2>2, KeepsRecord DEF NotUpdated, Throws, store
  <2> QED
    BY <1>5, <2>1, <2>2 DEF Delete
<1>6. ASSUME NEW o \in Ops, Remove(o) \/ RemoveLands(o) PROVE Lawful
  <2>1. CASE Erase /\ Goto(o, "done") /\ pc[o] \in {"remove", "adrift"}
    BY <2>1, Moves DEF Erase, SeenInv, Remover, Lawful
  <2>2. CASE UNCHANGED store
    BY <2>2, KeepsRecord DEF store
  <2> QED
    BY <1>6, <2>1, <2>2 DEF Remove, RemoveLands
<1>7. ASSUME Lands PROVE Lawful
  <2>1. PICK w \in doubt : IF w.mark = "gone" THEN Erase ELSE Write(w.token, w.mark)
    BY <1>7 DEF Lands
  <2>2. CASE w.mark = "gone"
    BY <2>1, <2>2 DEF Erase, DoubtInv, Lawful
  <2>3. CASE w.mark # "gone"
    BY <2>1, <2>3 DEF Write, DoubtInv, Lawful, Writer, TypeOK
  <2> QED
    BY <2>2, <2>3
<1>8. ASSUME NEW o \in Ops,
             \/ Read(o) \/ Acquire(o) \/ ReadHeld(o) \/ Call(o) \/ Release(o) \/ ReadToRevoke(o)
             \/ Recheck(o) \/ Authorize(o) \/ Answered(o) \/ AnswerLost(o) \/ Cancelled(o) \/ TimesOut(o)
             \/ Revoke(o) \/ ProviderApplies(o) \/ ProviderRefuses(o) \/ Crash(o)
      PROVE  Lawful
  BY <1>8, KeepsRecord DEF Read, Acquire, ReadHeld, Call, Release, ReadToRevoke, Recheck,
     Authorize, Answered,
     AnswerLost, Cancelled, TimesOut, Revoke, ProviderApplies, ProviderRefuses, Crash, store
<1>9. ASSUME TokenDue \/ SomeDeadlinePasses \/ LeaseExpires PROVE Lawful
  BY <1>9, KeepsRecord DEF TokenDue, SomeDeadlinePasses, DeadlinePasses, LeaseExpires, store
<1> QED
  BY <1>1, <1>2, <1>3, <1>4, <1>5, <1>6, <1>7, <1>8, <1>9 DEF Next, Proceeds

\* Whatever the hook reports, for any number of workers and failing writes, a late refresh, save or
\* revoke never replaces or erases a credential other than the one it read, and a revoke with a
\* hook erases none the provider has not revoked.
THEOREM NeverOverwritten == Spec => NothingOverwritten
<1>1. IInv /\ [Next]_vars => [Lawful]_vars
  BY LawfulStep
<1>2. Spec => [][Lawful]_vars
  BY <1>1, Invariance, PTL DEF Spec
<1>3. NothingOverwritten <=> [][Lawful]_vars
  BY PTL DEF NothingOverwritten, Lawful
<1> QED
  BY <1>2, <1>3
=============================================================================
