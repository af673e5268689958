------------------------------ MODULE Staging ------------------------------
(***************************************************************************)
(* dispatchTarget (core/client.ts) with local media: a call takes its slot *)
(* from the backend's limiter, stages its media one by one at a storage    *)
(* provider (stageContent, core/staging.ts), enters the adapter, gives the *)
(* slot back and then settles the copies (localMediaStaging,               *)
(* media-staging.ts).  The storage provider may answer late or never: the  *)
(* caller's signal and the deadline of the retry budget stop the wait, not *)
(* the upload.                                                             *)
(***************************************************************************)
EXTENDS Limiter

CONSTANT Items      \* how many sources of each call its target cannot take as they are

ASSUME ItemsAssumption == Items \in [Calls -> Nat]

VARIABLES
    step,       \* where the work of a call is
    item,       \* the source being staged; above Items[c] there is none left
    expired,    \* the deadline of the staging has passed
    copy,       \* the copies: asked of the provider, held under a lease, gone
    entered,    \* enteredAdapter
    verdict,    \* the outcome; "not-submitted" also stands for cancelled
    fetching    \* the platform may still fetch the copies

media == <<item, expired, copy>>
result == <<entered, verdict, fetching>>
callVars == <<vars, step, media, result>>

CallTypeOK ==
    /\ TypeOK
    /\ step \in [Calls -> {"idle", "staging", "adapter", "settle", "end"}]
    /\ expired \in [Calls -> BOOLEAN]
    /\ item \in [Calls -> Nat] /\ \A c \in Calls : item[c] \in 1 .. Items[c] + 1
    /\ \A c \in Calls : copy[c] \in [1 .. Items[c] -> {"none", "asked", "held", "gone"}]
    /\ entered \in [Calls -> BOOLEAN] /\ fetching \in [Calls -> BOOLEAN]
    /\ verdict \in [Calls -> {"none", "not-submitted", "published", "open"}]

CallInit ==
    /\ Init
    /\ step = [c \in Calls |-> "idle"]
    /\ item = [c \in Calls |-> 1] /\ expired = [c \in Calls |-> FALSE]
    /\ copy = [c \in Calls |-> [i \in 1 .. Items[c] |-> "none"]]
    /\ entered = [c \in Calls |-> FALSE] /\ fetching = [c \in Calls |-> FALSE]
    /\ verdict = [c \in Calls |-> "none"]

-----------------------------------------------------------------------------
(* The limiter                                                             *)

(* After a call has given its slot back, its signal stops nothing.         *)
Waits(c) ==
    /\ pc[c] # "done" /\ (Arrive(c) \/ Abort(c))
    /\ UNCHANGED <<step, media, result>>

(* A call with a slot begins to stage what its target cannot take as it is. *)
Begin(c) ==
    /\ Resume(c)
    /\ IF aborted[c] THEN UNCHANGED step
       ELSE step' = [step EXCEPT ![c] = "staging"]
    /\ UNCHANGED <<media, result>>

(* The work ends with an outcome: its timer is cleared, and the slot is    *)
(* given back before it settles.                                           *)
Ends(c, outcome) ==
    /\ Finish(c)
    /\ step' = [step EXCEPT ![c] = "settle"]
    /\ item' = [item EXCEPT ![c] = 1] /\ expired' = [expired EXCEPT ![c] = FALSE]
    /\ verdict' = [verdict EXCEPT ![c] = outcome]

-----------------------------------------------------------------------------
(* stageContent                                                            *)

(* A target that takes everything as it is has no staging to stop.         *)
HasLocalMedia(c) == Items[c] > 0

Stopped(c) == HasLocalMedia(c) /\ (aborted[c] \/ expired[c])

SetCopy(c, i, x) == copy' = [copy EXCEPT ![c][i] = x]

Waiting(c) == item[c] <= Items[c] /\ copy[c][item[c]] = "asked"

Abandoned(c) == step[c] # "staging" \/ Stopped(c)

Ask(c) ==
    /\ step[c] = "staging" /\ item[c] <= Items[c] /\ ~Waiting(c) /\ ~Stopped(c)
    /\ SetCopy(c, item[c], "asked")
    /\ UNCHANGED <<vars, step, item, expired, result>>

(* The timer of the retry budget. *)
Expire(c) ==
    /\ step[c] = "staging" /\ HasLocalMedia(c) /\ ~expired[c]
    /\ expired' = [expired EXCEPT ![c] = TRUE]
    /\ UNCHANGED <<vars, step, item, copy, result>>

(* Mutant: a wait for the provider is not given up. *)
GivesUp_Waits(c) == Stopped(c) /\ ~Waiting(c)

GivesUp(c) == Stopped(c)

(* The signal or the deadline stops the staging, before, in or after a wait. *)
StagingStops(c) ==
    /\ step[c] = "staging" /\ GivesUp(c)
    /\ Ends(c, "not-submitted")
    /\ UNCHANGED <<copy, entered, fetching>>

(* A result in time: a lease, and a URL the target may be given or not. *)
Answer(c) ==
    /\ step[c] = "staging" /\ Waiting(c) /\ ~Stopped(c)
    /\ SetCopy(c, item[c], "held")
    /\ \/ item' = [item EXCEPT ![c] = @ + 1] /\ UNCHANGED <<vars, step, expired, verdict>>
       \/ Ends(c, "not-submitted")
    /\ UNCHANGED <<entered, fetching>>

(* Mutant: the copy of a late result stays. *)
Late_Kept(c, i) == SetCopy(c, i, "held")

(* The copy of a late result has reached no platform and is removed. *)
Late(c, i) == SetCopy(c, i, "gone")

AnswerLate(c, i) ==
    /\ copy[c][i] = "asked" /\ Abandoned(c)
    /\ Late(c, i)
    /\ UNCHANGED <<vars, step, item, expired, result>>

(* The provider fails, or returns nothing that is a copy.  When the wait is *)
(* over this changes nothing, as an answer that never comes.               *)
Refuse(c) ==
    /\ Waiting(c) /\ ~Abandoned(c)
    /\ SetCopy(c, item[c], "none")
    /\ Ends(c, "not-submitted")
    /\ UNCHANGED <<entered, fetching>>

-----------------------------------------------------------------------------
(* The adapter and what happens to the copies                              *)

(* The target with its staged URLs does not pass the adapter's checks, or  *)
(* no budget is left.                                                      *)
Revalidate(c) ==
    /\ step[c] = "staging" /\ HasLocalMedia(c) /\ item[c] > Items[c]
    /\ Ends(c, "not-submitted")
    /\ UNCHANGED <<copy, entered, fetching>>

Enter(c) ==
    /\ step[c] = "staging" /\ item[c] > Items[c] /\ ~Stopped(c)
    /\ step' = [step EXCEPT ![c] = "adapter"]
    /\ entered' = [entered EXCEPT ![c] = TRUE]
    /\ fetching' = [fetching EXCEPT ![c] = TRUE]
    /\ UNCHANGED <<vars, media, verdict>>

(* A published post has its media, and what was not submitted needs none.  *)
(* Any other outcome, or an error, leaves open whether they are fetched.   *)
AdapterAnswers(c) ==
    /\ step[c] = "adapter"
    /\ \E outcome \in {"published", "not-submitted", "open"} :
          /\ Ends(c, outcome)
          /\ fetching' = [fetching EXCEPT ![c] = outcome = "open"]
    /\ UNCHANGED <<copy, entered>>

(* Mutant: every copy of a call that has ended is removed. *)
Removable_Always(c) == TRUE

Removable(c) == ~entered[c] \/ verdict[c] \in {"published", "not-submitted"}

(* settle and releaseLeases: the cleanup of every lease is called. *)
Settle(c) ==
    /\ step[c] = "settle"
    /\ step' = [step EXCEPT ![c] = "end"]
    /\ copy' = [copy EXCEPT ![c] = [i \in 1 .. Items[c] |->
                   IF Removable(c) /\ @[i] = "held" THEN "gone" ELSE @[i]]]
    /\ UNCHANGED <<vars, item, expired, result>>

Work(c) ==
    \/ Begin(c) \/ Ask(c) \/ StagingStops(c) \/ Enter(c) \/ AdapterAnswers(c) \/ Settle(c)

CallNext ==
    \E c \in Calls :
        \/ Waits(c) \/ Work(c) \/ Expire(c) \/ Answer(c) \/ Refuse(c) \/ Revalidate(c)
        \/ \E i \in 1 .. Items[c] : AnswerLate(c, i)

CallSpec == CallInit /\ [][CallNext]_callVars

(* The event loop runs what is ready, the timer fires and an adapter's own *)
(* deadlines end its work.  Nothing is assumed of the storage provider.    *)
CallFairness == \A c \in Calls : WF_callVars(Work(c)) /\ WF_callVars(Expire(c))

CallLiveSpec == CallSpec /\ CallFairness

-----------------------------------------------------------------------------
(* Properties                                                              *)

(* The platform never holds the URL of a copy that was removed or that is  *)
(* not there: copies go only when no platform can fetch them (settle,      *)
(* stageBeforeAbort).                                                      *)
KeptWhileFetched ==
    \A c \in Calls : \A i \in 1 .. Items[c] : fetching[c] => copy[c][i] \notin {"asked", "gone"}

(* A call that has ended without reaching the platform, or with a          *)
(* published post, leaves no copy behind, not even one that the provider   *)
(* delivers after the call gave up (releaseLeases, stageBeforeAbort).      *)
NothingLeftBehind ==
    \A c \in Calls : \A i \in 1 .. Items[c] : step[c] = "end" /\ Removable(c) => copy[c][i] # "held"
=============================================================================
