------------------------- MODULE ConnectHandlers -------------------------
(* createOAuthConnectHandlers (server/oauth-connect.ts) over one attempt of *)
(* Connections: the routes begin, callback, select and disconnect.  A       *)
(* cookie of the browser names the attempt; select activates the            *)
(* credentials of the grants after they are committed, and disconnect       *)
(* revokes the token at the provider before it removes the grant.  The      *)
(* hooks of the application are its own code: the grants' removal is taken  *)
(* to be revokeGrant of the store.                                          *)
EXTENDS Connections

CONSTANT Revocable  \* accounts whose provider can revoke a token

ASSUME RevocableAssumption == Revocable \subseteq Accounts

VARIABLES cookie,   \* the browser's correlation with the attempt
          route,    \* where the handler of a call is, or its answer
          target,   \* the grant a disconnect is about
          active,   \* grants whose credentials were activated
          dead      \* grants whose token the provider has revoked

hooks == <<target, active, dead>>
handlerVars == <<vars, cookie, route, hooks>>

Answers == {"connected", "activation_failed", "disconnected", "revocation_failed",
            "revocation_uncertain", "removal_failed"}

HandlersInit ==
  /\ Init /\ cookie = "none" /\ route = [o \in Ops |-> "none"]
  /\ target = [o \in Ops |-> {}] /\ active = {} /\ dead = {}

Route(o, at) == route' = [route EXCEPT ![o] = at]

--------------------------------------------------------------------------
\* begin: the attempt is saved, then the browser is given its cookie.
Remember ==
  /\ cookie = "none" /\ doc.phase # "absent" /\ cookie' = "held"
  /\ UNCHANGED <<vars, route, hooks>>

\* callback and select find the attempt by the cookie; complete is the application's own call.
Recall(o) ==
  /\ route[o] = "none" /\ Call(o) /\ kind'[o] # "revoke"
  /\ kind'[o] = "complete" \/ cookie = "held"
  /\ UNCHANGED <<cookie, route, hooks>>

--------------------------------------------------------------------------
\* Mutant: the cookie is cleared before the grants are committed.
Consumed_Early(o) == kind[o] = "select"

\* The manager has committed the grants.
Consumed(o) == kind[o] = "select" /\ outcome[o] = "grants"

Forget(o) ==
  /\ route[o] = "none" /\ Consumed(o)
  /\ cookie' = "cleared" /\ Route(o, "activate")
  /\ UNCHANGED <<vars, hooks>>

\* Mutant: the credentials of every account that was found are activated.
Promoted_All(o) == found[o]

\* The credentials that are promoted: those of the grants.
Promoted(o) == pick[o]

\* The hook throws, before or after it did its work, or returns.
Activate(o) ==
  /\ route[o] = "activate"
  /\ \/ active' = active \cup Promoted(o) /\ Route(o, "connected")
     \/ active' \in {active, active \cup Promoted(o)} /\ Route(o, "activation_failed")
  /\ UNCHANGED <<vars, cookie, target, dead>>

--------------------------------------------------------------------------
\* grants.find: only a grant that is there.
Find(o) ==
  /\ "revoke" \in Kinds /\ pc[o] = "idle" /\ route[o] = "none"
  /\ \E g \in doc.grants \ doc.revoked : target' = [target EXCEPT ![o] = {g}]
  /\ Route(o, "revoking")
  /\ UNCHANGED <<vars, cookie, active, dead>>

\* Mutant: a revocation whose answer was lost counts as done.
Uncertain_Proceeds == "remove"

Uncertain == "revocation_uncertain"

\* grants.revoke: "revoked" or "already_revoked", "not_supported", a refusal, or no answer.
Revocation(o) ==
  /\ route[o] = "revoking"
  /\ \/ /\ Route(o, "remove")
        /\ dead' = dead \cup (target[o] \cap Revocable)
     \/ Route(o, "revocation_failed") /\ UNCHANGED dead
     \/ Route(o, Uncertain) /\ dead' \in {dead, dead \cup (target[o] \cap Revocable)}
  /\ UNCHANGED <<vars, cookie, target, active>>

\* grants.remove: the grant is revoked in the store, then its credential is deleted.
Remove(o) ==
  /\ route[o] = "remove" /\ Call(o) /\ kind'[o] = "revoke" /\ pick'[o] = target[o]
  /\ Route(o, "removing")
  /\ UNCHANGED <<cookie, hooks>>

\* The store's answer: a grant that was revoked before is no error.
Removed(o) ==
  /\ route[o] = "removing" /\ pc[o] = "done"
  /\ IF outcome[o] \in {"revoked", "unrevoked"}
     THEN Route(o, "disconnected") /\ active' = active \ target[o]
     ELSE Route(o, "removal_failed") /\ UNCHANGED active
  /\ UNCHANGED <<vars, cookie, target, dead>>

--------------------------------------------------------------------------
\* The manager and its store go on; a handler whose process dies takes no more steps.
Manager(o) ==
  /\ \/ Get(o) \/ Look(o) \/ Choose(o) \/ Decide(o) \/ Commit(o)
     \/ Lose(o) \/ Throw(o) \/ Exchange(o) \/ Fail(o)
  /\ UNCHANGED <<cookie, route, hooks>>

Handler(o) ==
  \/ Recall(o) \/ Manager(o) \/ Forget(o) \/ Activate(o)
  \/ Find(o) \/ Revocation(o) \/ Remove(o) \/ Removed(o)

HandlersNext ==
  \/ (Begin \/ Expire \/ Land) /\ UNCHANGED <<cookie, route, hooks>>
  \/ Remember
  \/ \E o \in Ops : Handler(o)

HandlersSpec == HandlersInit /\ [][HandlersNext]_handlerVars

--------------------------------------------------------------------------
HandlersTypeOK ==
  /\ TypeOK
  /\ cookie \in {"none", "held", "cleared"}
  /\ route \in [Ops -> Answers \cup {"none", "activate", "revoking", "remove", "removing"}]
  /\ target \in [Ops -> Sets] /\ active \in Sets /\ dead \in Sets

\* The browser loses its attempt only when the grants are committed: whatever fails before
\* leaves it a flow it can finish (select, correlation.forget).
ForgottenIsConsumed == cookie = "cleared" => doc.phase = "completed"

\* Credentials are active only for grants that were committed, however many selections race
\* and whichever of their writes is lost, lands late or fails (select, credentials.activate).
ActiveIsGranted == active \subseteq doc.grants

\* A grant is removed only when its token is dead, or cannot be revoked: no failed, lost or
\* concurrent revocation leaves a live token nobody can revoke any more (disconnect).
RevokedBeforeRemoved == doc.revoked \cap Revocable \subseteq dead
==========================================================================
