------------------------- MODULE ContainerWorkflow -------------------------
(***************************************************************************)
(* Publishing through media containers: the workflow of the Threads and    *)
(* Instagram adapters (platforms/threads.ts, platforms/instagram.ts).      *)
(* publishTarget creates the containers of the children and of the parent  *)
(* and publishes the parent; when the platform is still processing them it *)
(* returns "processing", and later calls of getDelivery or                 *)
(* resumePublication go on with the stored workflow.  Calls run in         *)
(* different processes, which may die, over a durable workflow store.      *)
(***************************************************************************)
EXTENDS Naturals, Submission

CONSTANTS
    Publisher,  \* the call of publishTarget
    Pollers,    \* the callers of getDelivery and resumePublication
    NoOne,      \* nobody has claimed the workflow
    Orphan,     \* the claim of a call that died or could not release it
    Shapes,     \* platform, containers before the parent, autoPublishText
    Faults      \* deaths, refusals, failed reads and failed writes

Calls == {Publisher} \cup Pollers

ASSUME NamesAssumption ==
    /\ Publisher \notin Pollers
    /\ NoOne \notin Calls /\ Orphan \notin Calls /\ NoOne # Orphan

ASSUME ShapesAssumption ==
    Shapes \subseteq [platform : {"threads", "instagram"}, items : Nat, auto : BOOLEAN]

ASSUME FaultsAssumption == Faults \in Nat

VARIABLES
    shape,      \* what is published and where
    row,        \* the stored workflow
    known,      \* an outcome with the workflow's id has been returned
    claim,      \* who has claimed the workflow
    pc, mine,   \* where a call is, and the workflow as it knows it
    what,       \* the write a call makes next: child, parent, publish
    request,    \* that write, until the call stops waiting for it
    late,       \* writes on their way that nobody waits for
    children, parent,   \* the platform's state of the containers
    faults

local == <<pc, mine, what>>
platform == <<children, parent, posts>>
cvars == <<shape, row, known, claim, local, request, late, platform, said, faults>>

Rows == [stage : {"children", "parent", "published", "unknown"},
         childIds : Nat, parentId : BOOLEAN, nativeId : BOOLEAN]

NewRow == [stage |-> "children", childIds |-> 0, parentId |-> FALSE, nativeId |-> FALSE]

Working == {"read", "children", "adopt", "parent", "mark", "send", "wait", "record", "reopen",
            "release"}

Fresh ==
    /\ row = NewRow /\ known = FALSE /\ claim = NoOne
    /\ pc = [c \in Calls |-> "idle"] /\ mine = [c \in Calls |-> NewRow]
    /\ what = [c \in Calls |-> "child"] /\ request = [c \in Calls |-> "none"] /\ late = {}
    /\ children = "working" /\ parent = "working"
    /\ faults = Faults

ContainerInit == SubmissionInit /\ shape \in Shapes /\ Fresh

Threads == shape.platform = "threads"

SingleContainer == ~Threads /\ shape.items = 1

Goto(c, label) == pc' = [pc EXCEPT ![c] = label]

Fault == faults > 0 /\ faults' = faults - 1

(* The ways a call ends.  An outcome of the adapter carries the workflow's *)
(* id as its delivery, which is what is polled; an error has it in its     *)
(* details at most, and one of a poll decides nothing (recovery.ts).       *)
Says(verdict) == said' = said \cup verdict

Returns(c, verdict) == Goto(c, "release") /\ known' = TRUE /\ Says(verdict)

Throws(c, verdict) ==
    /\ Goto(c, "release") /\ UNCHANGED known
    /\ IF c = Publisher THEN Says(verdict) ELSE UNCHANGED said

Continues(c, label) == Goto(c, label) /\ UNCHANGED <<known, said>>

-----------------------------------------------------------------------------
(* The workflow is created, found and claimed.                             *)

(* publishTarget: on Threads the new workflow is claimed before anything   *)
(* else; on Instagram the containers of the media are created first.       *)
Start ==
    /\ pc[Publisher] = "idle"
    /\ Goto(Publisher, IF Threads THEN "claim" ELSE "children")
    /\ UNCHANGED <<shape, row, known, claim, mine, what, request, late, platform, said, faults>>

(* getDelivery: what is stored may decide without a claim.                 *)
Poll(c) ==
    /\ c \in Pollers /\ pc[c] = "idle" /\ known
    /\ IF row.nativeId THEN Says({"published"}) /\ UNCHANGED pc
       ELSE /\ UNCHANGED said
            /\ IF Threads /\ row.stage = "unknown" THEN UNCHANGED pc ELSE Goto(c, "claim")
    /\ UNCHANGED <<shape, row, known, claim, mine, what, request, late, platform, faults>>

Ended(c) == IF c = Publisher THEN "done" ELSE "idle"

(* Mutant: a claim that somebody holds is given away.                      *)
Free_Always == TRUE

Free == claim = NoOne

(* A workflow that is claimed is processing.                               *)
Claim(c) ==
    /\ pc[c] = "claim"
    /\ IF Free
       THEN claim' = c /\ Goto(c, "read") /\ UNCHANGED known
       ELSE Goto(c, Ended(c)) /\ known' = TRUE /\ UNCHANGED claim
    /\ UNCHANGED <<shape, row, mine, what, request, late, platform, said, faults>>

(* Mutant: the workflow is not read again under the claim: the call goes   *)
(* on although the stage is unknown.                                       *)
InDoubt_Ignored == FALSE

InDoubt == row.stage = "unknown"

(* Read again under the claim; a write whose fate is unknown is not made   *)
(* again.                                                                  *)
Read(c) ==
    /\ pc[c] = "read"
    /\ mine' = [mine EXCEPT ![c] = row]
    /\ IF row.nativeId THEN Returns(c, {"published"})
       ELSE IF InDoubt THEN Returns(c, {})
       ELSE Continues(c, IF row.parentId /\ ~Threads THEN "parent" ELSE "children")
    /\ UNCHANGED <<shape, row, claim, what, request, late, platform, faults>>

-----------------------------------------------------------------------------
(* What to do next.                                                        *)

Writes(c, w) == what' = [what EXCEPT ![c] = w] /\ Continues(c, "mark")

MoreChildren(c) == mine[c].childIds < shape.items

NextChild(c) ==
    /\ pc[c] = "children" /\ MoreChildren(c)
    /\ Writes(c, "child")
    /\ UNCHANGED <<shape, row, claim, mine, request, late, platform, faults>>

(* The publisher of an Instagram carousel claims the workflow only now,    *)
(* and that of a single container not at all.                              *)
Unclaimed(c) == ~Threads /\ c = Publisher /\ claim # c

LeaveChildren(c) ==
    /\ pc[c] = "children" /\ ~MoreChildren(c) /\ Unclaimed(c)
    /\ Continues(c, IF SingleContainer THEN "adopt" ELSE "claim")
    /\ UNCHANGED <<shape, row, claim, mine, what, request, late, platform, faults>>

(* A rejected child fails a Threads workflow; on Instagram it is one that  *)
(* is not finished.                                                        *)
CheckChildren(c) ==
    /\ pc[c] = "children" /\ ~MoreChildren(c) /\ ~Unclaimed(c)
    /\ \/ shape.items > 0 /\ children = "working" /\ Returns(c, {}) /\ UNCHANGED what
       \/ /\ shape.items > 0 /\ children = "error" /\ UNCHANGED what
          /\ Returns(c, IF Threads THEN {"failed"} ELSE {})
       \/ /\ shape.items = 0 \/ children = "ready"
          /\ IF mine[c].parentId THEN Continues(c, "parent") /\ UNCHANGED what
             ELSE Writes(c, "parent")
    /\ UNCHANGED <<shape, row, claim, mine, request, late, platform, faults>>

CheckParent(c) ==
    /\ pc[c] = "parent"
    /\ \/ parent = "working" /\ Returns(c, {}) /\ UNCHANGED <<row, what>>
       \/ parent = "error" /\ Returns(c, {"failed"}) /\ UNCHANGED <<row, what>>
       \/ /\ parent = "published" /\ Returns(c, {}) /\ UNCHANGED what
          /\ row' = IF Threads THEN [row EXCEPT !.stage = "unknown"] ELSE row
       \/ parent = "ready" /\ Writes(c, "publish") /\ UNCHANGED row
    /\ UNCHANGED <<shape, claim, mine, request, late, platform, faults>>

(* Reading a status may fail; that is a refusal, or a timeout.             *)
StatusFails(c) ==
    /\ \/ pc[c] = "parent"
       \/ pc[c] = "children" /\ ~MoreChildren(c) /\ ~Unclaimed(c)
    /\ Fault /\ (Throws(c, {"failed"}) \/ Throws(c, {}))
    /\ UNCHANGED <<shape, row, claim, mine, what, request, late, platform>>

-----------------------------------------------------------------------------
(* A write at the platform.                                                *)

(* A change of the stored workflow; a call that throws may have made it.   *)
Saved(r) == row' = r /\ UNCHANGED faults

NotSaved(r) == Fault /\ (row' = r \/ UNCHANGED row)

(* Mutant: the doubt is not written down before the write.                 *)
Doubted_Not == row

Doubted == [row EXCEPT !.stage = "unknown"]

Mark(c) ==
    /\ pc[c] = "mark"
    /\ \/ Saved(Doubted) /\ Continues(c, "send")
       \/ NotSaved(Doubted) /\ Throws(c, {})
    /\ UNCHANGED <<shape, claim, mine, what, request, late, platform>>

Send(c) ==
    /\ pc[c] = "send"
    /\ Continues(c, "wait")
    /\ request' = [request EXCEPT ![c] = "sent"]
    /\ UNCHANGED <<shape, row, claim, mine, what, late, platform, faults>>

Forget(c) == request' = [request EXCEPT ![c] = "none"]

Abandon(c) ==
    /\ Forget(c)
    /\ late' = IF request[c] = "sent" THEN late \cup {what[c]} ELSE late

Created(c) ==
    /\ pc[c] = "wait" /\ request[c] = "applied"
    /\ Forget(c) /\ Continues(c, "record")
    /\ UNCHANGED <<shape, row, claim, mine, what, late, platform, faults>>

(* Mutant: a write without an answer counts as refused.                    *)
LostMeans_Failed == {"failed"}

LostMeans == {}

(* No answer, one that cannot be read or one without an id.  Threads       *)
(* returns this as an outcome, Instagram throws it.                        *)
Lost(c) ==
    /\ pc[c] = "wait" /\ Abandon(c)
    /\ IF Threads /\ (c = Publisher \/ what[c] = "publish")
       THEN Returns(c, LostMeans) ELSE Throws(c, LostMeans)
    /\ UNCHANGED <<shape, row, claim, mine, what, platform, faults>>

(* The platform refused: the token, which Meta rejects before anything     *)
(* else, or what was asked.                                                *)
Refused(c) ==
    /\ pc[c] = "wait" /\ request[c] \in {"token", "refused"} /\ Forget(c)
    /\ CASE what[c] = "child" /\ ~Threads ->
              Throws(c, IF request[c] = "token" THEN {"failed"} ELSE {})
         [] what[c] = "publish" /\ Threads ->
              IF request[c] = "token" THEN Continues(c, "reopen") ELSE Returns(c, {})
         [] OTHER -> Throws(c, {"failed"})
    /\ UNCHANGED <<shape, row, claim, mine, what, late, platform, faults>>

(* The result is stored; autoPublishText leaves the workflow in doubt.     *)
Recorded(c) ==
    CASE what[c] = "child" -> [row EXCEPT !.childIds = @ + 1, !.stage = "children"]
      [] what[c] = "parent" ->
           [row EXCEPT !.parentId = TRUE, !.stage = IF shape.auto THEN "unknown" ELSE "parent"]
      [] what[c] = "publish" -> [row EXCEPT !.nativeId = TRUE, !.stage = "published"]

Record(c) ==
    /\ pc[c] = "record" /\ Saved(Recorded(c))
    /\ mine' = [mine EXCEPT ![c] = row']
    /\ CASE what[c] = "publish" -> Returns(c, {"published"})
         [] what[c] = "parent" /\ shape.auto -> Returns(c, {})
         [] OTHER -> Continues(c, IF what[c] = "child" THEN "children" ELSE "parent")
    /\ UNCHANGED <<shape, claim, what, request, late, platform>>

(* Of a post that exists Instagram says so; Threads writes down its doubt. *)
RecordFails(c) ==
    /\ pc[c] = "record" /\ Fault
    /\ \E r \in {row, Recorded(c)} :
          IF what[c] = "publish" /\ Threads THEN row' = [r EXCEPT !.stage = "unknown"]
          ELSE row' = r
    /\ IF what[c] = "publish" /\ ~Threads THEN Returns(c, {"published"}) ELSE Throws(c, {})
    /\ UNCHANGED <<shape, claim, mine, what, request, late, platform>>

(* The container of a single image or reel is the parent.                  *)
Adopt(c) ==
    /\ pc[c] = "adopt"
    /\ LET r == [row EXCEPT !.parentId = TRUE, !.stage = "parent"] IN
          \/ Saved(r) /\ mine' = [mine EXCEPT ![c] = r] /\ Continues(c, "parent")
          \/ NotSaved(r) /\ Throws(c, {}) /\ UNCHANGED mine
    /\ UNCHANGED <<shape, claim, what, request, late, platform>>

(* After a rejected token the container can still be published.            *)
Reopen(c) ==
    /\ pc[c] = "reopen"
    /\ LET r == [row EXCEPT !.stage = "parent"] IN
          \/ Saved(r) /\ Throws(c, {"failed"})
          \/ NotSaved(r) /\ Throws(c, {})
    /\ UNCHANGED <<shape, claim, mine, what, request, late, platform>>

(* Mutant: only a call that ends well releases its claim.                  *)
Releases_Published(c) == IF claim = c /\ row.nativeId THEN NoOne ELSE claim

Releases(c) == IF claim = c THEN NoOne ELSE claim

(* The claim is released however the call ended; the release may fail.     *)
Release(c) ==
    /\ pc[c] = "release" /\ Goto(c, Ended(c))
    /\ \/ claim' = Releases(c) /\ UNCHANGED faults
       \/ claim = c /\ claim' = Orphan /\ Fault
    /\ UNCHANGED <<shape, row, known, mine, what, request, late, platform, said>>

(* The process of a call dies.                                             *)
Dies(c) ==
    /\ pc[c] \in Working \cup {"claim"} /\ Fault
    /\ Abandon(c) /\ Goto(c, Ended(c))
    /\ claim' = IF claim = c THEN Orphan ELSE claim
    /\ UNCHANGED <<shape, row, known, mine, what, platform, said>>

(* The lease of a claim nobody holds any more.                             *)
ClaimExpires ==
    /\ claim = Orphan /\ claim' = NoOne
    /\ UNCHANGED <<shape, row, known, local, request, late, platform, said, faults>>

-----------------------------------------------------------------------------
(* The platform.                                                           *)

(* The containers of the children are processed, or rejected.              *)
ChildrenProcessed ==
    /\ children = "working" /\ row.childIds > 0 /\ children' \in {"ready", "error"}
    /\ UNCHANGED <<shape, row, known, claim, local, request, late, parent, posts, said, faults>>

ParentProcessed ==
    /\ parent = "working" /\ row.parentId /\ parent' \in {"ready", "error"}
    /\ UNCHANGED <<shape, row, known, claim, local, request, late, children, posts, said, faults>>

(* Every publication of a container makes a post, and with autoPublishText *)
(* its creation does.                                                      *)
Happens(w) ==
    /\ posts' = IF w = "publish" \/ (w = "parent" /\ shape.auto) THEN posts + 1 ELSE posts
    /\ parent' = IF w = "publish" THEN "published" ELSE parent
    /\ UNCHANGED children

Applies(c) ==
    /\ request[c] = "sent" /\ request' = [request EXCEPT ![c] = "applied"]
    /\ Happens(what[c])
    /\ UNCHANGED <<shape, row, known, claim, local, late, said, faults>>

AppliesLate(w) ==
    /\ w \in late /\ late' = late \ {w}
    /\ Happens(w)
    /\ UNCHANGED <<shape, row, known, claim, local, request, said, faults>>

Refuses(c) ==
    /\ request[c] = "sent" /\ Fault
    /\ \E answer \in {"token", "refused"} : request' = [request EXCEPT ![c] = answer]
    /\ UNCHANGED <<shape, row, known, claim, local, late, platform, said>>

Step(c) ==
    \/ Claim(c) \/ Read(c) \/ NextChild(c) \/ LeaveChildren(c) \/ CheckChildren(c)
    \/ CheckParent(c) \/ Mark(c) \/ Send(c) \/ Created(c) \/ Lost(c) \/ Refused(c)
    \/ Record(c) \/ Adopt(c) \/ Reopen(c) \/ Release(c)

ContainerNext ==
    \/ Start \/ ClaimExpires \/ ChildrenProcessed \/ ParentProcessed
    \/ \E c \in Calls :
          \/ Poll(c) \/ Step(c) \/ StatusFails(c) \/ RecordFails(c) \/ Dies(c)
          \/ Applies(c) \/ Refuses(c)
    \/ \E w \in {"child", "parent", "publish"} : AppliesLate(w)

ContainerSpec == ContainerInit /\ [][ContainerNext]_cvars

(* A call that lives goes on, somebody polls again and again, containers   *)
(* are processed in the end and the claim of a dead call expires.          *)
ContainerFairness ==
    /\ \A c \in Calls : WF_cvars(Step(c))
    /\ \E c \in Pollers : WF_cvars(Poll(c))
    /\ WF_cvars(ChildrenProcessed) /\ WF_cvars(ParentProcessed) /\ WF_cvars(ClaimExpires)

ContainerLiveSpec == ContainerSpec /\ ContainerFairness

-----------------------------------------------------------------------------
(* Properties                                                              *)

(* A workflow makes one post at most, although publishTarget and any       *)
(* number of polls go on with it from different processes, claims expire,  *)
(* and a write may take effect long after its call gave up on it.          *)
OnePost == posts <= 1

ContainerRejected == parent = "error" \/ children = "error"

(* The caller can tell how the workflow ended: its post is recorded, it    *)
(* was said that the platform rejected a container, or its fate is unknown *)
(* and no call is going on.                                                *)
Decided ==
    \/ row.nativeId
    \/ ContainerRejected /\ "failed" \in said
    \/ row.stage = "unknown" /\ \A c \in Calls : pc[c] \notin Working

(* The exception: of a carousel with a rejected child, continueWorkflow of *)
(* Instagram says at every poll that it is processing.                     *)
StuckCarousel == ~Threads /\ shape.items > 1 /\ children = "error"

(* A workflow that the caller knows about comes to an end when it is       *)
(* polled, and the caller is told: no claim that was left behind keeps it  *)
(* processing for ever (getDelivery, resumePublication).                   *)
Settles == known ~> Decided \/ StuckCarousel

(* The same without the exception, which the code does not keep: a rejected *)
(* child of an Instagram carousel is never reported (continueWorkflow).    *)
CarouselsSettle == known ~> Decided
=============================================================================
