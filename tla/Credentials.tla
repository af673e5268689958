----------------------------- MODULE Credentials -----------------------------
(***************************************************************************)
(* The stored credential of one account under CredentialManager            *)
(* (server/credentials.ts): resolve, rotate, revoke, save and delete run   *)
(* by several workers against one store, one lock and one provider whose   *)
(* refresh tokens rotate: a token that bought a new one is spent.          *)
(*                                                                         *)
(* A worker's step is what it does between two awaits.  The store compares *)
(* revisions, which it never uses twice; a write may throw and land later, *)
(* or never; the lock is a lease that may expire under its holder; the     *)
(* provider acts on a request whenever it likes, also after the worker     *)
(* that sent it gave up or died.                                           *)
(***************************************************************************)
EXTENDS Naturals

CONSTANTS Ops,      \* the operations, each run once by some worker
          NoOp,     \* nobody: the lock is free
          Kinds,    \* the kinds of operation that may run
          Revokers, \* the operations whose manager has a revoke hook
          Faults,   \* how many store writes may throw
          Hook      \* how the refresh hook reports a request it has no answer to

ASSUME OpsAssumption == NoOp \notin Ops
ASSUME KindsAssumption == Kinds \subseteq {"resolve", "rotate", "revoke", "save", "delete"}
ASSUME RevokersAssumption == Revokers \subseteq Ops
ASSUME FaultsAssumption == Faults \in Nat
\* "contract": with an error that leaves the outcome open, as CredentialRefresher asks.
\* "refreshOAuthToken": as the helper of server/oauth.ts does.
ASSUME HookAssumption == Hook \in {"contract", "refreshOAuthToken"}

VARIABLES
  rev,        \* revision of the stored record, 0 when there is none
  token,      \* the token set it holds, named by the order of issue
  mark,       \* its refreshState
  lastRev,    \* the last revision the store gave out
  doubt,      \* writes on this revision that threw and may still land
  faults,     \* store writes that may still throw
  lease,      \* the operation whose lease holds the lock
  late,       \* revisions of in-flight markers whose deadline has passed
  due,        \* token sets within refreshSkewMs of their expiry
  kind, pc,   \* of each operation
  seenRev, seenToken,   \* what the operation read
  marker,     \* revision of the in-flight marker it wrote, 0 before
  verdict,    \* how a revoke found the record after its conditional delete
  request,    \* its refresh request at the provider
  given,      \* the token set the provider issued to it, 0 before
  issued, spent, revoked   \* the provider's token sets

store == <<rev, token, mark, lastRev, doubt>>
locals == <<seenRev, seenToken, marker, verdict>>
provider == <<request, given, issued, spent, revoked>>
clocks == <<late, due>>
vars == <<store, faults, lease, clocks, kind, pc, locals, provider>>

Refreshes == {"resolve", "rotate"}

First(k) == IF k = "delete" THEN "remove" ELSE IF k \in {"rotate", "revoke"} THEN "lock" ELSE "read"

Init ==
  /\ rev = 1 /\ token = 1 /\ mark = "none" /\ lastRev = 1 /\ doubt = {}
  /\ faults = Faults /\ lease = NoOp /\ late = {} /\ due = {}
  /\ kind \in [Ops -> Kinds]
  /\ pc = [o \in Ops |-> First(kind[o])]
  /\ seenRev = [o \in Ops |-> 0] /\ seenToken = [o \in Ops |-> 0]
  /\ marker = [o \in Ops |-> 0] /\ verdict = [o \in Ops |-> "none"]
  /\ request = [o \in Ops |-> "none"] /\ given = [o \in Ops |-> 0]
  /\ issued = 1 /\ spent = {} /\ revoked = {}

Goto(o, l) == pc' = [pc EXCEPT ![o] = l]

-----------------------------------------------------------------------------
(* The store.                                                              *)

\* A write takes a revision no record ever had; writes still in doubt have lost.
Write(t, m) ==
  /\ lastRev' = lastRev + 1 /\ rev' = lastRev + 1
  /\ token' = t /\ mark' = m /\ doubt' = {}

Erase == rev' = 0 /\ doubt' = {} /\ UNCHANGED <<token, mark, lastRev>>

Updated(r, t, m) == rev = r /\ Write(t, m) /\ UNCHANGED faults

NotUpdated(r) == rev # r /\ UNCHANGED <<store, faults>>

\* The call throws; the write is not known to have failed.
Throws(r, w) ==
  /\ faults > 0 /\ faults' = faults - 1
  /\ doubt' = IF rev = r THEN doubt \cup {w} ELSE doubt
  /\ UNCHANGED <<rev, token, mark, lastRev>>

Settled(t, m) == [token |-> t, mark |-> m]
Erased == Settled(0, "gone")

\* compareAndSetQuietly: whatever becomes of it, the operation goes on.
Quietly(r, t, m) == Updated(r, t, m) \/ NotUpdated(r) \/ Throws(r, Settled(t, m))

\* A write that threw lands after all.
Lands ==
  \E w \in doubt :
    /\ IF w.mark = "gone" THEN Erase ELSE Write(w.token, w.mark)
    /\ UNCHANGED <<faults, lease, clocks, kind, pc, locals, provider>>

-----------------------------------------------------------------------------
(* What a stored credential allows.                                        *)

\* An in-flight marker blocks until its deadline and is uncertain after it;
\* neither lets another refresh start.
Fenced == mark # "none"

Usable == ~Fenced /\ token \notin due

InFlight == mark = "inFlight" /\ rev \notin late

-----------------------------------------------------------------------------
(* resolve and rotate.                                                     *)

\* resolve's first read: missing, usable or blocked ends it, and so do a store that throws and
\* the abort signal.
Read(o) ==
  /\ kind[o] = "resolve" /\ pc[o] = "read"
  /\ \/ (rev # 0 /\ ~Fenced /\ token \in due) /\ Goto(o, "lock")
     \/ Goto(o, "done")
  /\ UNCHANGED <<store, faults, lease, clocks, kind, locals, provider>>

\* The lock is free, or its lease has expired; otherwise the operation is busy.  A lock that
\* throws may have given the lease away.
Acquire(o) ==
  /\ pc[o] = "lock"
  /\ \/ lease = NoOp /\ lease' = o /\ (Goto(o, "held") \/ Goto(o, "done"))
     \/ UNCHANGED lease /\ Goto(o, "done")
  /\ UNCHANGED <<store, faults, clocks, kind, locals, provider>>

\* Mutant: the decision under the lock does not look at the marker.
MayRefresh_Unfenced(o) == rev # 0 /\ (kind[o] = "resolve" => token \in due)

MayRefresh(o) == rev # 0 /\ ~Fenced /\ (kind[o] = "resolve" => ~Usable)

\* Read again under the lock, and judge what is there now; the read may throw.
ReadHeld(o) ==
  /\ kind[o] \in Refreshes /\ pc[o] = "held"
  /\ \/ /\ MayRefresh(o)
        /\ seenRev' = [seenRev EXCEPT ![o] = rev]
        /\ seenToken' = [seenToken EXCEPT ![o] = token]
        /\ Goto(o, "mark")
     \/ Goto(o, "release") /\ UNCHANGED <<seenRev, seenToken>>
  /\ UNCHANGED <<store, faults, lease, clocks, kind, marker, verdict, provider>>

\* Mutant: the result of the marker's compare-and-set is not looked at.
Mark_Ignored(o) ==
  /\ pc[o] = "mark"
  /\ \/ Updated(seenRev[o], seenToken[o], "inFlight") /\ marker' = [marker EXCEPT ![o] = rev']
     \/ NotUpdated(seenRev[o]) /\ UNCHANGED marker
  /\ Goto(o, "marked")
  /\ UNCHANGED <<lease, clocks, kind, seenRev, seenToken, verdict, provider>>

\* The in-flight marker is written before the provider is called.
Mark(o) ==
  /\ pc[o] = "mark"
  /\ \/ /\ Updated(seenRev[o], seenToken[o], "inFlight")
        /\ marker' = [marker EXCEPT ![o] = rev']
        /\ Goto(o, "marked")
     \/ /\ NotUpdated(seenRev[o]) \/ Throws(seenRev[o], Settled(seenToken[o], "inFlight"))
        /\ Goto(o, "release") /\ UNCHANGED marker
  /\ UNCHANGED <<lease, clocks, kind, seenRev, seenToken, verdict, provider>>

\* The hook sends its request, unless the caller or the timer aborted before it ran.
Call(o) ==
  /\ pc[o] = "marked"
  /\ \/ request' = [request EXCEPT ![o] = "sent"] /\ Goto(o, "calling")
     \/ Goto(o, "restore") /\ UNCHANGED request
  /\ UNCHANGED <<store, faults, lease, clocks, kind, locals, given, issued, spent, revoked>>

\* Mutant: an answer that cannot be parsed counts as a refusal.
Answered_Malformed(o) ==
  /\ pc[o] = "calling" /\ request[o] \in {"applied", "refused"}
  /\ Goto(o, "restore") \/ (request[o] = "applied" /\ Goto(o, "store"))
  /\ UNCHANGED <<store, faults, lease, clocks, kind, locals, provider>>

\* A new token set, a malformed one, or a definite refusal.
Answered(o) ==
  /\ pc[o] = "calling"
  /\ \/ request[o] = "applied" /\ (Goto(o, "store") \/ Goto(o, "doubt"))
     \/ request[o] = "refused" /\ Goto(o, "restore")
  /\ UNCHANGED <<store, faults, lease, clocks, kind, locals, provider>>

\* The hook has no answer: what it throws then decides what the manager believes.
AfterLost == IF Hook = "contract" THEN "doubt" ELSE "restore"

AnswerLost(o) ==
  /\ pc[o] = "calling"
  /\ Goto(o, AfterLost)
  /\ UNCHANGED <<store, faults, lease, clocks, kind, locals, provider>>

\* The caller of resolve aborts after the request was started; rotate takes no signal.
Cancelled(o) ==
  /\ kind[o] = "resolve" /\ pc[o] = "calling"
  /\ Goto(o, "doubt")
  /\ UNCHANGED <<store, faults, lease, clocks, kind, locals, provider>>

\* Mutant: the timer is not part of the race.
TimesOut_Never(o) == FALSE /\ UNCHANGED vars

\* The timer was started after the deadline of the marker was fixed.
TimesOut(o) ==
  /\ pc[o] = "calling" /\ marker[o] \in late
  /\ Goto(o, "doubt")
  /\ UNCHANGED <<store, faults, lease, clocks, kind, locals, provider>>

\* Mutant: the new credential replaces whatever is there.
Store_Unfenced(o) ==
  /\ pc[o] = "store"
  /\ Updated(rev, given[o], "none") /\ Goto(o, "release")
  /\ UNCHANGED <<lease, clocks, kind, locals, provider>>

\* The new credential replaces the marker, and only the marker.
Store(o) ==
  /\ pc[o] = "store"
  /\ \/ Updated(marker[o], given[o], "none") /\ Goto(o, "release")
     \/ NotUpdated(marker[o]) /\ Goto(o, "release")
     \/ Throws(marker[o], Settled(given[o], "none")) /\ Goto(o, "doubt")
  /\ UNCHANGED <<lease, clocks, kind, locals, provider>>

\* The provider was not called, or refused: the previous credential comes back.
Restore(o) ==
  /\ pc[o] = "restore"
  /\ Quietly(marker[o], seenToken[o], "none")
  /\ Goto(o, "release")
  /\ UNCHANGED <<lease, clocks, kind, locals, provider>>

\* failUncertain: the previous credential stays, marked.
Doubt(o) ==
  /\ pc[o] = "doubt"
  /\ Quietly(marker[o], seenToken[o], "uncertain")
  /\ Goto(o, "release")
  /\ UNCHANGED <<lease, clocks, kind, locals, provider>>

\* A release that fails, or comes after the lease was taken over, frees nothing.
Release(o) ==
  /\ pc[o] = "release"
  /\ \/ lease = o /\ lease' = NoOp
     \/ UNCHANGED lease
  /\ Goto(o, "done")
  /\ UNCHANGED <<store, faults, clocks, kind, locals, provider>>

-----------------------------------------------------------------------------
(* revoke, save and delete.                                                *)

\* Nothing stored, a refresh in flight or a read that throws ends a revoke.  A manager without
\* the hook has nothing to call at the provider: it deletes the record right away.
ReadToRevoke(o) ==
  /\ kind[o] = "revoke" /\ pc[o] = "held"
  /\ \/ /\ rev # 0 /\ ~InFlight
        /\ seenRev' = [seenRev EXCEPT ![o] = rev]
        /\ seenToken' = [seenToken EXCEPT ![o] = token]
        /\ Goto(o, IF o \in Revokers THEN "revoking" ELSE "delete")
     \/ Goto(o, "release") /\ UNCHANGED <<seenRev, seenToken>>
  /\ UNCHANGED <<store, faults, lease, clocks, kind, marker, verdict, provider>>

\* The provider confirms; or the hook throws, whatever the provider did.
Revoke(o) ==
  /\ pc[o] = "revoking"
  /\ \/ revoked' = revoked \cup {seenToken[o]} /\ (Goto(o, "delete") \/ Goto(o, "release"))
     \/ Goto(o, "release") /\ UNCHANGED revoked
  /\ UNCHANGED <<store, faults, lease, clocks, kind, locals, request, given, issued, spent>>

\* deleteIfRevision.
Delete(o) ==
  /\ pc[o] = "delete"
  /\ \/ rev = seenRev[o] /\ Erase /\ UNCHANGED faults /\ Goto(o, "release")
     \/ NotUpdated(seenRev[o]) /\ Goto(o, "recheck")
     \/ Throws(seenRev[o], Erased) /\ Goto(o, "release")
  /\ UNCHANGED <<lease, clocks, kind, locals, provider>>

\* A record that is still there is reported as a replacement.
Recheck(o) ==
  /\ pc[o] = "recheck"
  /\ verdict' = [verdict EXCEPT ![o] = IF rev = 0 THEN "gone" ELSE "replaced"]
  /\ Goto(o, "release")
  /\ UNCHANGED <<store, faults, lease, clocks, kind, seenRev, seenToken, marker, provider>>

\* The application reads the revision and authorizes the account anew, then saves.
Authorize(o) ==
  /\ kind[o] = "save" /\ pc[o] = "read"
  /\ seenRev' = [seenRev EXCEPT ![o] = rev]
  /\ seenToken' = [seenToken EXCEPT ![o] = token]
  /\ issued' = issued + 1 /\ given' = [given EXCEPT ![o] = issued']
  /\ Goto(o, "write")
  /\ UNCHANGED <<store, faults, lease, clocks, kind, marker, verdict, request, spent, revoked>>

Save(o) ==
  /\ pc[o] = "write"
  /\ Quietly(seenRev[o], given[o], "none")
  /\ Goto(o, "done")
  /\ UNCHANGED <<lease, clocks, kind, locals, provider>>

\* delete compares nothing; it may throw, and then erases whatever is there when it lands.
Remove(o) ==
  /\ pc[o] = "remove"
  /\ \/ Erase /\ UNCHANGED faults /\ Goto(o, "done")
     \/ faults > 0 /\ faults' = faults - 1 /\ UNCHANGED store /\ Goto(o, "adrift")
  /\ UNCHANGED <<lease, clocks, kind, locals, provider>>

\* One that never lands is a crash.
RemoveLands(o) ==
  /\ pc[o] = "adrift"
  /\ Erase /\ UNCHANGED faults
  /\ Goto(o, "done")
  /\ UNCHANGED <<lease, clocks, kind, locals, provider>>

-----------------------------------------------------------------------------
(* The provider, the clocks and the workers' deaths.                       *)

\* A request buys a new token set and spends the one it presents.
ProviderApplies(o) ==
  /\ request[o] = "sent" /\ seenToken[o] \notin spent \cup revoked
  /\ request' = [request EXCEPT ![o] = "applied"]
  /\ issued' = issued + 1 /\ given' = [given EXCEPT ![o] = issued']
  /\ spent' = spent \cup {seenToken[o]}
  /\ UNCHANGED <<store, faults, lease, clocks, kind, pc, locals, revoked>>

ProviderRefuses(o) ==
  /\ request[o] = "sent"
  /\ request' = [request EXCEPT ![o] = "refused"]
  /\ UNCHANGED <<store, faults, lease, clocks, kind, pc, locals, given, issued, spent, revoked>>

TokenDue ==
  /\ rev # 0 /\ token \notin due /\ due' = due \cup {token}
  /\ UNCHANGED <<store, faults, lease, late, kind, pc, locals, provider>>

DeadlinePasses(r) ==
  /\ r \notin late /\ late' = late \cup {r}
  /\ UNCHANGED <<store, faults, lease, due, kind, pc, locals, provider>>

SomeDeadlinePasses ==
  \/ rev # 0 /\ mark = "inFlight" /\ DeadlinePasses(rev)
  \/ \E o \in Ops : pc[o] = "calling" /\ DeadlinePasses(marker[o])

LeaseExpires ==
  /\ lease # NoOp /\ lease' = NoOp
  /\ UNCHANGED <<store, faults, clocks, kind, pc, locals, provider>>

Crash(o) ==
  /\ pc[o] # "done" /\ Goto(o, "done")
  /\ UNCHANGED <<store, faults, lease, clocks, kind, locals, provider>>

-----------------------------------------------------------------------------

\* What an operation does without waiting for the provider.
Proceeds(o) ==
  \/ Read(o) \/ Acquire(o) \/ ReadHeld(o) \/ Mark(o) \/ Call(o)
  \/ Store(o) \/ Restore(o) \/ Doubt(o) \/ Release(o)
  \/ ReadToRevoke(o) \/ Delete(o) \/ Recheck(o) \/ Authorize(o) \/ Save(o) \/ Remove(o)

Next ==
  \/ \E o \in Ops :
       \/ Proceeds(o)
       \/ Answered(o) \/ AnswerLost(o) \/ Cancelled(o) \/ TimesOut(o)
       \/ Revoke(o) \/ RemoveLands(o) \/ ProviderApplies(o) \/ ProviderRefuses(o) \/ Crash(o)
  \/ TokenDue \/ SomeDeadlinePasses \/ LeaseExpires \/ Lands

Spec == Init /\ [][Next]_vars

LiveSpec ==
  /\ Spec
  /\ \A o \in Ops : WF_vars(Proceeds(o)) /\ WF_vars(TimesOut(o))
  /\ WF_vars(SomeDeadlinePasses)

-----------------------------------------------------------------------------

Marks == {"none", "inFlight", "uncertain"}
Labels == {"read", "lock", "held", "mark", "marked", "calling", "store", "restore", "doubt",
           "release", "revoking", "delete", "recheck", "write", "remove", "adrift", "done"}

\* Every variable has its type; a request was sent only under a marker of its own.
TypeOK ==
  /\ rev \in 0..lastRev /\ token \in 1..issued /\ mark \in Marks /\ lastRev \in Nat
  /\ doubt \subseteq [token : 0..issued, mark : Marks \cup {"gone"}]
  /\ faults \in 0..Faults /\ lease \in Ops \cup {NoOp}
  /\ late \subseteq 1..lastRev /\ due \subseteq 1..issued
  /\ kind \in [Ops -> Kinds] /\ pc \in [Ops -> Labels]
  /\ seenRev \in [Ops -> 0..lastRev] /\ seenToken \in [Ops -> 0..issued]
  /\ marker \in [Ops -> 0..lastRev]
  /\ verdict \in [Ops -> {"none", "gone", "replaced"}]
  /\ request \in [Ops -> {"none", "sent", "applied", "refused"}]
  /\ given \in [Ops -> 0..issued] /\ issued \in Nat
  /\ spent \subseteq 1..issued /\ revoked \subseteq 1..issued
  /\ \A o \in Ops : request[o] # "none" => marker[o] # 0

\* No refresh ever presents a token that another one spent or may yet spend: not after a crash,
\* an expired lease, a timeout or a lost write (refreshHeld, fence).
PresentedOnce ==
  \A o, p \in Ops :
    request[o] = "sent" => /\ seenToken[o] \notin spent
                           /\ o # p /\ request[p] = "sent" => seenToken[p] # seenToken[o]

\* A stored credential without a marker, which is what resolve hands out and refreshes again, is
\* not spent, and no request that still may spend it is on its way (failUncertain, attempt).
UnmarkedIsLive ==
  rev # 0 /\ mark = "none" =>
    /\ token \notin spent
    /\ \A o \in Ops : request[o] = "sent" => seenToken[o] # token

Writer(o) == given[o] # 0 /\ given[o] = token' /\ seenToken[o] = token

Revoker(o) == kind[o] = "revoke" /\ seenToken[o] = token /\ (o \in Revokers => token \in revoked)

Remover(o) == kind[o] = "delete" /\ pc[o] \in {"remove", "adrift"} /\ pc'[o] = "done"

\* A credential is replaced only by an operation that read that very credential, and erased only
\* by delete, or by a revoke that read it and, where there is a hook, had it revoked at the
\* provider: a late refresh, save or revoke never destroys what was saved meanwhile
\* (refreshHeld, save, revoke).
NothingOverwritten ==
  [][/\ rev # 0 /\ rev' # 0 /\ token' # token => \E o \in Ops : Writer(o)
     /\ rev # 0 /\ rev' = 0 => \E o \in Ops : Revoker(o) \/ Remover(o)]_vars

\* A resolve or a rotation that has begun ends, even when the provider never answers (attempt).
RefreshEnds ==
  \A o \in Ops : kind[o] \in Refreshes /\ pc[o] # "done" ~> pc[o] = "done"
=============================================================================
