---------------------- MODULE ContainerWorkflow_proofs ----------------------
(***************************************************************************)
(* Proofs about ContainerWorkflow, for any set of pollers, any number of   *)
(* containers and any number of faults.  The argument: one call at a time  *)
(* works on the workflow, because it holds the claim or nobody else knows  *)
(* of the workflow yet; a call makes a write that can become a post only   *)
(* after it stored its doubt; and a workflow in doubt is not gone on with. *)
(* So as long as a call may still post, nothing was posted and no post is  *)
(* on its way.                                                             *)
(***************************************************************************)
EXTENDS ContainerWorkflow, TLAPS

Holding == Working \ {"release"}

Typed ==
    /\ row \in Rows /\ known \in BOOLEAN
    /\ pc \in [Calls -> {"idle", "claim", "done"} \cup Working]
    /\ mine \in [Calls -> Rows] /\ what \in [Calls -> {"child", "parent", "publish"}]
    /\ request \in [Calls -> {"none", "sent", "applied", "token", "refused"}]
    /\ late \subseteq {"child", "parent", "publish"}
    /\ children \in {"working", "ready", "error"}
    /\ parent \in {"working", "ready", "error", "published"}
    /\ said \subseteq {"published", "failed"}

(* A write that makes a post.                                              *)
Posting(w) == w = "publish" \/ (w = "parent" /\ shape.auto)

NoneLate == \A w \in late : ~Posting(w)

Unspent == posts = 0 /\ NoneLate

Closed == row.stage = "unknown" \/ row.nativeId

(* Until the publisher ends nobody else knows of the workflow.             *)
KnownInv ==
    /\ known => pc[Publisher] \in {"release", "done"}
    /\ ~known => \A c \in Pollers : pc[c] = "idle"
    /\ pc[Publisher] = "idle" => Unspent /\ row = NewRow /\ mine[Publisher] = NewRow

PostInv ==
    /\ posts \in {0, 1}
    /\ ~NoneLate => posts = 0 /\ ~(shape.auto /\ {"parent", "publish"} \subseteq late)
    /\ ~Unspent => Closed
    /\ row.nativeId => posts = 1
    /\ parent = "error" => row.parentId
    /\ "published" \in said => posts = 1

(* Nothing that is still to come makes a post.                             *)
Settled ==
    \/ Threads /\ shape.items > 0 /\ children = "error"
    \/ parent = "error"
    \/ ~known /\ pc[Publisher] \in {"release", "done"}

FailInv == "failed" \in said => Unspent /\ Settled

(* A call, by where it is.                                                 *)
HoldsIt(c) ==
    /\ pc[c] \in Holding => claim = c \/ (c = Publisher /\ ~known)
    /\ request[c] # "none" => pc[c] = "wait"

MayPost(c) ==
    /\ pc[c] \in {"children", "adopt", "parent", "mark", "send", "reopen"} => Unspent
    /\ pc[c] = "wait" /\ request[c] \in {"sent", "token", "refused"} => Unspent
    /\ (pc[c] = "wait" /\ request[c] = "applied") \/ pc[c] = "record" =>
          IF Posting(what[c]) THEN posts = 1 /\ NoneLate ELSE Unspent
    /\ pc[c] \in {"send", "wait", "record", "reopen"} => row.stage = "unknown"

Prepared(c) ==
    /\ pc[c] \in {"children", "parent", "mark", "send", "wait", "record"} =>
          mine[c].parentId = row.parentId
    /\ pc[c] \in {"mark", "send"} \/ (pc[c] = "wait" /\ request[c] = "sent") =>
          (what[c] = "parent" => ~row.parentId) /\ (what[c] = "publish" => parent = "ready")
    /\ \/ pc[c] = "parent"
       \/ pc[c] \in {"mark", "send", "wait", "record"} /\ what[c] # "child"
       => (Threads /\ shape.items > 0 => children = "ready")
    /\ pc[c] = "adopt" => ~Threads

CallInv(c) == HoldsIt(c) /\ MayPost(c) /\ Prepared(c)

ContainerInv == Typed /\ KnownInv /\ PostInv /\ FailInv /\ \A c \in Calls : CallInv(c)

-----------------------------------------------------------------------------
(* One call at a time                                                      *)

LEMMA Publishes == Publisher \in Calls /\ Pollers \subseteq Calls /\ Publisher \notin Pollers
BY NamesAssumption DEF Calls

(* While c works nobody else does.                                         *)
LEMMA OneHolder ==
    ASSUME ContainerInv, NEW c \in Calls, pc[c] \in Holding, NEW d \in Calls, d # c
    PROVE  /\ pc[d] \notin Holding /\ request[d] = "none"
           /\ pc[Publisher] # "idle"
           /\ d = Publisher => pc[d] \in {"release", "done"}
BY Publishes DEF ContainerInv, CallInv, HoldsIt, KnownInv, Calls, Holding, Working

(* Who does not work notices nothing of a step of c.                       *)
LEMMA OthersStep ==
    ASSUME ContainerInv, NEW c \in Calls, pc[c] \in Holding, NEW d \in Calls, d # c,
           pc'[d] = pc[d], request'[d] = request[d]
    PROVE  CallInv(d)'
<1>1. pc'[d] \notin Holding /\ request'[d] = "none"
  BY OneHolder
<1> QED
  BY <1>1 DEF CallInv, HoldsIt, MayPost, Prepared, Holding, Working

(* A step of a call that works: what is to be shown of it.                 *)
LEMMA HolderStep ==
    ASSUME ContainerInv, NEW c \in Calls, pc[c] \in Holding, NEW label \in Working,
           pc' = [pc EXCEPT ![c] = label], UNCHANGED <<shape, claim>>,
           \A d \in Calls : d # c => request'[d] = request[d],
           known' = known \/ (known' = TRUE /\ label = "release"),
           Typed', CallInv(c)', PostInv', FailInv'
    PROVE  ContainerInv'
<1>1. Typed /\ pc'[c] = label /\ \A d \in Calls : d # c => pc'[d] = pc[d]
  BY DEF ContainerInv, Typed
<1>2. \A d \in Calls : CallInv(d)'
  <2>1. SUFFICES ASSUME NEW d \in Calls, d # c PROVE CallInv(d)'
    OBVIOUS
  <2> QED
    BY <1>1, <2>1, OthersStep DEF Working
<1>3. KnownInv'
  <2>0. pc'[Publisher] # "idle"
    BY <1>1, OneHolder, Publishes DEF Working
  <2>1. CASE c = Publisher
    BY <1>1, <2>0, <2>1, Publishes DEF ContainerInv, KnownInv, Holding, Working
  <2>2. CASE c # Publisher
    <3>1. known /\ pc[Publisher] \in {"release", "done"}
      BY <2>2, Publishes DEF ContainerInv, KnownInv, Calls, Holding, Working
    <3> QED
      BY <1>1, <2>0, <2>2, <3>1, Publishes DEF KnownInv
  <2> QED
    BY <2>1, <2>2
<1> QED
  BY <1>2, <1>3 DEF ContainerInv

(* A step that changes neither what is posted nor what is known of it.     *)
LEMMA FailKept ==
    ASSUME ContainerInv, NEW c \in Calls, pc[c] \in Holding, UNCHANGED <<shape, posts, said>>,
           \A w \in late' : w \in late \/ ~Posting(w),
           children = "error" => children' = "error", parent = "error" => parent' = "error"
    PROVE  FailInv'
<1>1. "failed" \in said => Unspent /\ ((Threads /\ shape.items > 0 /\ children = "error") \/ parent = "error")
  BY Publishes DEF ContainerInv, FailInv, Settled, KnownInv, Calls, Holding, Working
<1> QED
  BY <1>1 DEF FailInv, Settled, Unspent, NoneLate, Posting, Threads

(* A call that ends.                                                       *)
LEMMA LeaveStep ==
    ASSUME ContainerInv, NEW c \in Calls, pc[c] \in Holding,
           pc' = [pc EXCEPT ![c] = "release"],
           (request' = request /\ request[c] = "none") \/ request' = [request EXCEPT ![c] = "none"],
           known' = known \/ known' = TRUE,
           NEW verdict \in SUBSET {"published", "failed"},
           said' = said \cup verdict \/ said' = said,
           "failed" \in verdict /\ said' # said => Unspent /\ Settled',
           "published" \in verdict => posts = 1,
           row' \in Rows, ~Unspent => Closed', row'.nativeId => posts = 1,
           parent = "error" => row'.parentId,
           mine' \in [Calls -> Rows], what' = what,
           UNCHANGED <<shape, claim, late, children, parent, posts>>
    PROVE  ContainerInv'
<1>1. Typed /\ pc'[c] = "release" /\ request'[c] = "none"
  BY DEF ContainerInv, Typed
<1>2. \A d \in Calls : d # c => request'[d] = request[d]
  BY <1>1 DEF Typed
<1>3. Typed'
  BY <1>1 DEF Typed, Working
<1>4. CallInv(c)'
  BY <1>1 DEF CallInv, HoldsIt, MayPost, Prepared, Holding, Working
<1>5. PostInv'
  BY DEF ContainerInv, PostInv, Closed, Unspent, NoneLate, Posting
<1>6. FailInv'
  <2>1. "failed" \in said => Unspent /\ ((Threads /\ shape.items > 0 /\ children = "error") \/ parent = "error")
    BY Publishes DEF ContainerInv, FailInv, Settled, KnownInv, Calls, Holding, Working
  <2>2. "failed" \in said => Unspent' /\ Settled'
    BY <2>1 DEF Settled, Unspent, NoneLate, Posting, Threads
  <2>3. "failed" \in verdict /\ said' # said => Unspent' /\ Settled'
    BY DEF Unspent, NoneLate, Posting
  <2> QED
    BY <2>2, <2>3 DEF FailInv
<1> QED
  BY <1>2, <1>3, <1>4, <1>5, <1>6, HolderStep DEF Working

(* A write that may make a post goes on its way only if no failure was said. *)
LEMMA Poised ==
    ASSUME ContainerInv, NEW c \in Calls, Posting(what[c]),
           pc[c] \in {"mark", "send"} \/ (pc[c] = "wait" /\ request[c] = "sent")
    PROVE  Unspent /\ "failed" \notin said
<1>1. Unspent /\ pc[c] \in Holding
  BY DEF ContainerInv, CallInv, MayPost, Holding, Working
<1>2. (what[c] = "parent" => ~row.parentId) /\ (what[c] = "publish" => parent = "ready")
  BY DEF ContainerInv, CallInv, Prepared
<1>3. parent # "error"
  BY <1>2 DEF Posting, ContainerInv, PostInv
<1>4. Threads /\ shape.items > 0 => children = "ready"
  BY DEF Posting, ContainerInv, CallInv, Prepared
<1>5. ~(~known /\ pc[Publisher] \in {"release", "done"})
  BY <1>1, Publishes DEF ContainerInv, KnownInv, Calls, Holding, Working
<1> QED
  BY <1>1, <1>3, <1>4, <1>5 DEF ContainerInv, FailInv, Settled

-----------------------------------------------------------------------------
(* The steps of a call that works                                          *)

(* What is known of a call.                                                *)
LEMMA CallTyped ==
    ASSUME ContainerInv, NEW c \in Calls
    PROVE  /\ Typed /\ PostInv /\ HoldsIt(c) /\ MayPost(c) /\ Prepared(c)
           /\ mine[c] \in Rows /\ row \in Rows
           /\ what[c] \in {"child", "parent", "publish"}
           /\ request[c] \in {"none", "sent", "applied", "token", "refused"}
BY DEF ContainerInv, CallInv, Typed

(* A step to a place where a call still may post, or not.                  *)
LEMMA InnerStep ==
    ASSUME ContainerInv, NEW c \in Calls, pc[c] \in Holding,
           NEW label \in {"children", "adopt", "parent", "mark", "send"},
           Unspent, pc' = [pc EXCEPT ![c] = label],
           request[c] = "none", UNCHANGED <<shape, claim, request, late, children, parent, posts, known, said>>,
           Typed', ~row'.nativeId, row.parentId => row'.parentId,
           label \in {"children", "parent", "mark", "send"} => mine'[c].parentId = row'.parentId,
           label = "adopt" => ~Threads, label = "send" => row'.stage = "unknown",
           label \in {"mark", "send"} =>
              (what'[c] = "parent" => ~row'.parentId) /\ (what'[c] = "publish" => parent = "ready"),
           label = "parent" \/ (label \in {"mark", "send"} /\ what'[c] # "child") =>
              (Threads /\ shape.items > 0 => children = "ready")
    PROVE  ContainerInv'
<1>1. pc'[c] = label /\ request'[c] = "none" /\ Unspent' /\ NoneLate'
  BY DEF ContainerInv, Typed, Unspent, NoneLate, Posting
<1>2. CallInv(c)'
  <2>1. HoldsIt(c)'
    BY <1>1 DEF ContainerInv, CallInv, HoldsIt
  <2>2. MayPost(c)'
    BY <1>1 DEF MayPost
  <2>3. Prepared(c)'
    BY <1>1 DEF Prepared, Threads
  <2> QED
    BY <2>1, <2>2, <2>3 DEF CallInv
<1>3. PostInv'
  BY <1>1 DEF ContainerInv, PostInv
<1>4. FailInv'
  BY FailKept
<1> QED
  BY <1>2, <1>3, <1>4, HolderStep DEF Working

LEMMA ReadStep == ASSUME ContainerInv, NEW c \in Calls, Read(c) PROVE ContainerInv'
<1>0. /\ pc[c] = "read" /\ pc[c] \in Holding /\ mine' = [mine EXCEPT ![c] = row]
      /\ UNCHANGED <<shape, row, claim, what, request, late, platform, faults>>
  BY DEF Read, Holding, Working
<1>1. Typed /\ PostInv /\ HoldsIt(c) /\ row \in Rows /\ mine' \in [Calls -> Rows] /\ request[c] = "none"
  BY <1>0, CallTyped DEF Typed, HoldsIt
<1>2. ASSUME NEW verdict \in {{}, {"published"}}, verdict # {} => row.nativeId, Returns(c, verdict)
      PROVE  ContainerInv'
  BY <1>0, <1>1, <1>2, LeaveStep DEF Returns, Goto, Says, PostInv, Closed, platform
<1>3. CASE ~row.nativeId /\ ~InDoubt /\
           Continues(c, IF row.parentId /\ ~Threads THEN "parent" ELSE "children")
  <2> DEFINE label == IF row.parentId /\ ~Threads THEN "parent" ELSE "children"
  <2>1. Unspent
    BY <1>1, <1>3 DEF PostInv, Closed, InDoubt
  <2>2. pc' = [pc EXCEPT ![c] = label] /\ UNCHANGED <<known, said>>
    BY <1>3 DEF Continues, Goto
  <2>3. label \in {"children", "parent"} /\ (label = "parent" => ~Threads)
    OBVIOUS
  <2> HIDE DEF label
  <2>4. mine'[c] = row
    BY <1>0, <1>1 DEF Typed
  <2>5. Typed'
    BY <1>0, <1>1, <2>2, <2>3 DEF Typed, Working, platform
  <2> QED
    BY <1>0, <1>1, <1>3, <2>1, <2>2, <2>3, <2>4, <2>5, InnerStep DEF platform
<1> QED
  BY <1>2, <1>3 DEF Read

LEMMA NextChildStep == ASSUME ContainerInv, NEW c \in Calls, NextChild(c) PROVE ContainerInv'
<1>0. /\ pc[c] = "children" /\ pc[c] \in Holding /\ what' = [what EXCEPT ![c] = "child"]
      /\ pc' = [pc EXCEPT ![c] = "mark"] /\ UNCHANGED <<known, said>>
      /\ UNCHANGED <<shape, row, claim, mine, request, late, platform, faults>>
  BY DEF NextChild, Writes, Continues, Goto, Holding, Working
<1>1. Typed /\ Unspent /\ ~row.nativeId /\ request[c] = "none" /\ mine[c].parentId = row.parentId
  BY <1>0, CallTyped DEF HoldsIt, MayPost, Prepared, PostInv, Unspent
<1>2. what'[c] = "child" /\ Typed'
  BY <1>0, <1>1 DEF Typed, Working, platform
<1> QED
  BY <1>0, <1>1, <1>2, InnerStep DEF platform

LEMMA CheckChildrenStep == ASSUME ContainerInv, NEW c \in Calls, CheckChildren(c) PROVE ContainerInv'
<1>0. /\ pc[c] = "children" /\ pc[c] \in Holding
      /\ UNCHANGED <<shape, row, claim, mine, request, late, platform, faults>>
  BY DEF CheckChildren, Holding, Working
<1>1. Typed /\ PostInv /\ Unspent /\ ~row.nativeId /\ request[c] = "none" /\ mine[c].parentId = row.parentId
  BY <1>0, CallTyped DEF HoldsIt, MayPost, Prepared, PostInv, Unspent
<1>2. ASSUME NEW verdict \in {{}, {"failed"}}, UNCHANGED what, Returns(c, verdict),
             verdict # {} => Threads /\ shape.items > 0 /\ children = "error"
      PROVE  ContainerInv'
  <2>1. verdict # {} => Settled'
    BY <1>0, <1>2 DEF Settled, Threads, platform
  <2> QED
    BY <1>0, <1>1, <1>2, <2>1, LeaveStep DEF Returns, Goto, Says, PostInv, Closed, platform, Typed
<1>3. CASE (shape.items = 0 \/ children = "ready") /\ mine[c].parentId /\ Continues(c, "parent") /\ UNCHANGED what
  <2>1. pc' = [pc EXCEPT ![c] = "parent"] /\ UNCHANGED <<known, said>>
    BY <1>3 DEF Continues, Goto
  <2>2. Typed'
    BY <1>0, <1>1, <1>3, <2>1 DEF Typed, Working, platform
  <2>3. Threads /\ shape.items > 0 => children = "ready"
    BY <1>3
  <2> QED
    BY <1>0, <1>1, <1>3, <2>1, <2>2, <2>3, InnerStep DEF platform
<1>4. CASE (shape.items = 0 \/ children = "ready") /\ ~mine[c].parentId /\ Writes(c, "parent")
  <2>1. /\ pc' = [pc EXCEPT ![c] = "mark"] /\ UNCHANGED <<known, said>>
        /\ what' = [what EXCEPT ![c] = "parent"]
    BY <1>4 DEF Writes, Continues, Goto
  <2>2. what'[c] = "parent" /\ Typed'
    BY <1>0, <1>1, <2>1 DEF Typed, Working, platform
  <2>3. Threads /\ shape.items > 0 => children = "ready"
    BY <1>4
  <2> QED
    BY <1>0, <1>1, <1>4, <2>1, <2>2, <2>3, InnerStep DEF platform
<1> QED
  <2>1. \/ \E verdict \in {{}, {"failed"}} :
              /\ UNCHANGED what /\ Returns(c, verdict)
              /\ verdict # {} => Threads /\ shape.items > 0 /\ children = "error"
        \/ (shape.items = 0 \/ children = "ready") /\ mine[c].parentId /\ Continues(c, "parent") /\ UNCHANGED what
        \/ (shape.items = 0 \/ children = "ready") /\ ~mine[c].parentId /\ Writes(c, "parent")
    BY DEF CheckChildren
  <2> QED
    BY <1>2, <1>3, <1>4, <2>1

LEMMA LeaveChildrenStep == ASSUME ContainerInv, NEW c \in Calls, LeaveChildren(c) PROVE ContainerInv'
<1>0. /\ pc[c] = "children" /\ pc[c] \in Holding /\ c = Publisher /\ claim # c /\ ~Threads
      /\ UNCHANGED <<shape, row, claim, mine, what, request, late, platform, known, said, faults>>
  BY DEF LeaveChildren, Unclaimed, Continues, Holding, Working
<1>1. Typed /\ PostInv /\ Unspent /\ ~row.nativeId /\ request[c] = "none" /\ mine[c].parentId = row.parentId
  BY <1>0, CallTyped DEF HoldsIt, MayPost, Prepared, PostInv, Unspent
<1>2. CASE pc' = [pc EXCEPT ![c] = "adopt"]
  <2>1. Typed'
    BY <1>0, <1>1, <1>2 DEF Typed, Working, platform
  <2> QED
    BY <1>0, <1>1, <1>2, <2>1, InnerStep DEF platform
<1>3. CASE pc' = [pc EXCEPT ![c] = "claim"]
  <2>1. Typed' /\ pc'[c] = "claim" /\ \A d \in Calls : d # c => pc'[d] = pc[d]
    BY <1>0, <1>1, <1>3 DEF Typed, Working, platform
  <2>2. \A d \in Calls : CallInv(d)'
    <3>1. CallInv(c)'
      BY <1>0, <1>1, <2>1 DEF CallInv, HoldsIt, MayPost, Prepared, Holding, Working
    <3> QED
      BY <1>0, <2>1, <3>1, OthersStep
  <2>3. KnownInv'
    BY <1>0, <2>1, Publishes DEF ContainerInv, KnownInv
  <2>4. PostInv' /\ FailInv'
    <3>1. FailInv'
      BY <1>0, FailKept DEF platform
    <3> QED
      BY <1>0, <1>1, <3>1 DEF PostInv, Unspent, NoneLate, Posting, Closed, platform
  <2> QED
    BY <2>1, <2>2, <2>3, <2>4 DEF ContainerInv
<1> QED
  BY <1>2, <1>3 DEF LeaveChildren, Continues, Goto

LEMMA CheckParentStep == ASSUME ContainerInv, NEW c \in Calls, CheckParent(c) PROVE ContainerInv'
<1>0. /\ pc[c] = "parent" /\ pc[c] \in Holding
      /\ UNCHANGED <<shape, claim, mine, request, late, platform, faults>>
  BY DEF CheckParent, Holding, Working
<1>1. /\ Typed /\ PostInv /\ Unspent /\ ~row.nativeId /\ request[c] = "none" /\ row \in Rows
      /\ mine[c].parentId = row.parentId /\ (Threads /\ shape.items > 0 => children = "ready")
  BY <1>0, CallTyped DEF HoldsIt, MayPost, Prepared, PostInv, Unspent
<1>2. ASSUME NEW verdict \in {{}, {"failed"}}, UNCHANGED what, Returns(c, verdict),
             verdict # {} => parent = "error",
             row' = row \/ row' = [row EXCEPT !.stage = "unknown"]
      PROVE  ContainerInv'
  <2>1. verdict # {} => Settled'
    BY <1>0, <1>2 DEF Settled, platform
  <2>2. row' \in Rows /\ row'.nativeId = row.nativeId /\ row'.parentId = row.parentId
    BY <1>1, <1>2 DEF Rows
  <2> QED
    BY <1>0, <1>1, <1>2, <2>1, <2>2, LeaveStep DEF Returns, Goto, Says, PostInv, Closed,
       platform, Typed
<1>3. CASE parent = "ready" /\ Writes(c, "publish") /\ UNCHANGED row
  <2>1. /\ pc' = [pc EXCEPT ![c] = "mark"] /\ UNCHANGED <<known, said>>
        /\ what' = [what EXCEPT ![c] = "publish"]
    BY <1>3 DEF Writes, Continues, Goto
  <2>2. what'[c] = "publish" /\ Typed'
    BY <1>0, <1>1, <1>3, <2>1 DEF Typed, Working, platform
  <2> QED
    BY <1>0, <1>1, <1>3, <2>1, <2>2, InnerStep DEF platform
<1> QED
  <2>1. \/ \E verdict \in {{}, {"failed"}} :
              /\ UNCHANGED what /\ Returns(c, verdict) /\ (verdict # {} => parent = "error")
              /\ row' = row \/ row' = [row EXCEPT !.stage = "unknown"]
        \/ parent = "ready" /\ Writes(c, "publish") /\ UNCHANGED row
    BY DEF CheckParent
  <2> QED
    BY <1>2, <1>3, <2>1

(* An error ends the publication for ever if the publisher throws it: it   *)
(* carries no id.                                                          *)
LEMMA ThrowsStep ==
    ASSUME ContainerInv, NEW c \in Calls, pc[c] \in Holding,
           NEW verdict \in {{}, {"failed"}}, Throws(c, verdict),
           (request' = request /\ request[c] = "none") \/ request' = [request EXCEPT ![c] = "none"],
           verdict # {} => Unspent, row' \in Rows, ~Unspent => Closed', row'.nativeId => posts = 1,
           parent = "error" => row'.parentId,
           UNCHANGED <<shape, claim, mine, what, late, children, parent, posts>>
    PROVE  ContainerInv'
<1>1. /\ Typed /\ pc' = [pc EXCEPT ![c] = "release"] /\ known' = known
      /\ said' = IF c = Publisher THEN said \cup verdict ELSE said
  BY DEF ContainerInv, Throws, Goto, Says
<1>2. "failed" \in verdict /\ said' # said => Unspent /\ Settled'
  <2>1. SUFFICES ASSUME "failed" \in verdict, c = Publisher PROVE Unspent /\ Settled'
    BY <1>1
  <2>2. ~known /\ pc'[Publisher] = "release"
    BY <1>1, <2>1, Publishes DEF ContainerInv, KnownInv, Holding, Working, Typed
  <2> QED
    BY <1>1, <2>1, <2>2 DEF Settled
<1> QED
  BY <1>1, <1>2, LeaveStep DEF Typed

LEMMA StatusFailsStep == ASSUME ContainerInv, NEW c \in Calls, StatusFails(c) PROVE ContainerInv'
<1>0. /\ pc[c] \in {"children", "parent"} /\ pc[c] \in Holding
      /\ UNCHANGED <<shape, row, claim, mine, what, request, late, platform>>
      /\ Throws(c, {"failed"}) \/ Throws(c, {})
  BY DEF StatusFails, Holding, Working
<1>1. PostInv /\ Unspent /\ row \in Rows /\ request[c] = "none"
  BY <1>0, CallTyped DEF HoldsIt, MayPost
<1> QED
  BY <1>0, <1>1, ThrowsStep DEF PostInv, platform

LEMMA MarkStep == ASSUME ContainerInv, NEW c \in Calls, Mark(c) PROVE ContainerInv'
<1>0. /\ pc[c] = "mark" /\ pc[c] \in Holding
      /\ UNCHANGED <<shape, claim, mine, what, request, late, platform>>
  BY DEF Mark, Holding, Working
<1>1. /\ Typed /\ PostInv /\ Unspent /\ request[c] = "none" /\ row \in Rows /\ ~row.nativeId
      /\ mine[c].parentId = row.parentId
      /\ (what[c] = "parent" => ~row.parentId) /\ (what[c] = "publish" => parent = "ready")
      /\ (what[c] # "child" => (Threads /\ shape.items > 0 => children = "ready"))
  BY <1>0, CallTyped DEF HoldsIt, MayPost, Prepared, PostInv, Unspent
<1>2. /\ Doubted \in Rows /\ Doubted.stage = "unknown" /\ ~Doubted.nativeId
      /\ Doubted.parentId = row.parentId
  BY <1>1 DEF Doubted, Rows
<1>3. CASE row' = Doubted /\ Continues(c, "send")
  <2>1. pc' = [pc EXCEPT ![c] = "send"] /\ UNCHANGED <<known, said>>
    BY <1>3 DEF Continues, Goto
  <2>2. Typed'
    BY <1>0, <1>1, <1>2, <1>3, <2>1 DEF Typed, Working, platform
  <2> QED
    BY <1>0, <1>1, <1>2, <1>3, <2>1, <2>2, InnerStep DEF platform
<1>4. CASE (row' = Doubted \/ row' = row) /\ Throws(c, {})
  BY <1>0, <1>1, <1>2, <1>4, ThrowsStep DEF PostInv, platform
<1> QED
  BY <1>3, <1>4 DEF Mark, Saved, NotSaved

LEMMA AdoptStep == ASSUME ContainerInv, NEW c \in Calls, Adopt(c) PROVE ContainerInv'
<1> DEFINE r == [row EXCEPT !.parentId = TRUE, !.stage = "parent"]
<1>0. /\ pc[c] = "adopt" /\ pc[c] \in Holding
      /\ UNCHANGED <<shape, claim, what, request, late, platform>>
  BY DEF Adopt, Holding, Working
<1>1. /\ Typed /\ PostInv /\ Unspent /\ request[c] = "none" /\ row \in Rows /\ ~row.nativeId
  BY <1>0, CallTyped DEF HoldsIt, MayPost, PostInv, Unspent
<1>2. r \in Rows /\ ~r.nativeId /\ r.parentId
  BY <1>1 DEF Rows
<1>3. ~Threads
  BY <1>0, CallTyped DEF Prepared
<1> HIDE DEF r
<1>4. CASE row' = r /\ mine' = [mine EXCEPT ![c] = r] /\ Continues(c, "parent")
  <2>1. pc' = [pc EXCEPT ![c] = "parent"] /\ UNCHANGED <<known, said>>
    BY <1>4 DEF Continues, Goto
  <2>2. Typed' /\ mine'[c] = r
    BY <1>0, <1>1, <1>2, <1>4, <2>1 DEF Typed, Working, platform
  <2> QED
    BY <1>0, <1>1, <1>2, <1>3, <1>4, <2>1, <2>2, InnerStep DEF platform
<1>5. CASE (row' = r \/ row' = row) /\ Throws(c, {}) /\ UNCHANGED mine
  BY <1>0, <1>1, <1>2, <1>5, ThrowsStep DEF PostInv, platform
<1> QED
  BY <1>4, <1>5 DEF Adopt, Saved, NotSaved, r

LEMMA ReopenStep == ASSUME ContainerInv, NEW c \in Calls, Reopen(c) PROVE ContainerInv'
<1> DEFINE r == [row EXCEPT !.stage = "parent"]
<1>0. /\ pc[c] = "reopen" /\ pc[c] \in Holding /\ (row' = r \/ row' = row)
      /\ UNCHANGED <<shape, claim, mine, what, request, late, platform>>
      /\ Throws(c, {"failed"}) \/ Throws(c, {})
  BY DEF Reopen, Holding, Working, Saved, NotSaved
<1>1. PostInv /\ Unspent /\ request[c] = "none" /\ row \in Rows /\ ~row.nativeId
  BY <1>0, CallTyped DEF HoldsIt, MayPost, PostInv, Unspent
<1>2. r \in Rows /\ ~r.nativeId /\ r.parentId = row.parentId
  BY <1>1 DEF Rows
<1> QED
  BY <1>0, <1>1, <1>2, ThrowsStep DEF PostInv, platform

-----------------------------------------------------------------------------
(* A write on its way                                                      *)

(* A step of a call that waits, or is about to.                            *)
LEMMA WaitStep ==
    ASSUME ContainerInv, NEW c \in Calls, pc[c] \in Holding,
           NEW label \in {"wait", "record", "reopen"},
           pc' = [pc EXCEPT ![c] = label], row.stage = "unknown",
           NEW answer \in {"none", "sent", "applied", "token", "refused"},
           request' = [request EXCEPT ![c] = answer], answer # "none" => label = "wait",
           UNCHANGED <<shape, row, known, claim, mine, what, late, children, said>>,
           parent' \in {"working", "ready", "error", "published"},
           answer = "sent" \/ answer = "token" \/ answer = "refused" \/ label = "reopen" => Unspent',
           answer = "applied" \/ label = "record" =>
              IF Posting(what[c]) THEN posts' = 1 /\ NoneLate ELSE Unspent',
           label \in {"wait", "record"} => mine[c].parentId = row.parentId,
           answer = "sent" =>
              (what[c] = "parent" => ~row.parentId) /\ (what[c] = "publish" => parent' = "ready"),
           label \in {"wait", "record"} /\ what[c] # "child" =>
              (Threads /\ shape.items > 0 => children = "ready"),
           PostInv', FailInv'
    PROVE  ContainerInv'
<1>0. Typed /\ pc'[c] = label /\ request'[c] = answer
  BY DEF ContainerInv, Typed
<1>1. Typed'
  BY <1>0 DEF Typed, Working
<1>2. \A d \in Calls : d # c => request'[d] = request[d]
  BY <1>0 DEF Typed
<1>3. HoldsIt(c)'
  BY <1>0 DEF ContainerInv, CallInv, HoldsIt
<1>4. MayPost(c)'
  BY <1>0 DEF MayPost, Posting, NoneLate, Unspent
<1>5. Prepared(c)'
  BY <1>0 DEF Prepared, Threads
<1> QED
  BY <1>1, <1>2, <1>3, <1>4, <1>5, HolderStep DEF CallInv, Working

LEMMA SendStep == ASSUME ContainerInv, NEW c \in Calls, Send(c) PROVE ContainerInv'
<1>0. /\ pc[c] = "send" /\ pc[c] \in Holding /\ request' = [request EXCEPT ![c] = "sent"]
      /\ pc' = [pc EXCEPT ![c] = "wait"]
      /\ UNCHANGED <<shape, row, known, claim, mine, what, late, children, parent, posts, said, faults>>
  BY DEF Send, Continues, Goto, Holding, Working, platform
<1>1. /\ Typed /\ PostInv /\ Unspent /\ row.stage = "unknown" /\ mine[c].parentId = row.parentId
      /\ (what[c] = "parent" => ~row.parentId) /\ (what[c] = "publish" => parent = "ready")
      /\ (what[c] # "child" => (Threads /\ shape.items > 0 => children = "ready"))
  BY <1>0, CallTyped DEF MayPost, Prepared
<1>2. PostInv' /\ Unspent' /\ FailInv'
  <2>1. FailInv'
    BY <1>0, FailKept
  <2> QED
    BY <1>0, <1>1, <2>1 DEF PostInv, Unspent, NoneLate, Posting, Closed
<1>3. parent' \in {"working", "ready", "error", "published"}
  BY <1>0, <1>1 DEF Typed
<1> QED
  BY <1>0, <1>1, <1>2, <1>3, WaitStep

LEMMA CreatedStep == ASSUME ContainerInv, NEW c \in Calls, Created(c) PROVE ContainerInv'
<1>0. /\ pc[c] = "wait" /\ request[c] = "applied" /\ pc[c] \in Holding
      /\ request' = [request EXCEPT ![c] = "none"] /\ pc' = [pc EXCEPT ![c] = "record"]
      /\ UNCHANGED <<shape, row, known, claim, mine, what, late, children, parent, posts, said, faults>>
  BY DEF Created, Forget, Continues, Goto, Holding, Working, platform
<1>1. /\ Typed /\ PostInv /\ row.stage = "unknown" /\ mine[c].parentId = row.parentId
      /\ IF Posting(what[c]) THEN posts = 1 /\ NoneLate ELSE Unspent
      /\ (what[c] # "child" => (Threads /\ shape.items > 0 => children = "ready"))
  BY <1>0, CallTyped DEF MayPost, Prepared
<1>2. PostInv' /\ FailInv' /\ (Unspent => Unspent')
  <2>1. FailInv'
    BY <1>0, FailKept
  <2> QED
    BY <1>0, <1>1, <2>1 DEF PostInv, Unspent, NoneLate, Posting, Closed
<1>3. parent' \in {"working", "ready", "error", "published"}
  BY <1>0, <1>1 DEF Typed
<1> QED
  BY <1>0, <1>1, <1>2, <1>3, WaitStep

LEMMA RefusesStep == ASSUME ContainerInv, NEW c \in Calls, Refuses(c) PROVE ContainerInv'
<1>0. /\ request[c] = "sent"
      /\ UNCHANGED <<shape, row, known, claim, pc, mine, what, late, children, parent, posts, said>>
  BY DEF Refuses, local, platform
<1>1. PICK answer \in {"token", "refused"} : request' = [request EXCEPT ![c] = answer]
  BY DEF Refuses
<1>2. /\ Typed /\ PostInv /\ pc[c] = "wait" /\ pc[c] \in Holding /\ Unspent /\ row.stage = "unknown"
      /\ mine[c].parentId = row.parentId
      /\ (what[c] # "child" => (Threads /\ shape.items > 0 => children = "ready"))
  BY <1>0, CallTyped DEF HoldsIt, MayPost, Prepared, Holding, Working
<1>3. PostInv' /\ FailInv' /\ Unspent'
  <2>1. FailInv'
    BY <1>0, <1>2, FailKept
  <2> QED
    BY <1>0, <1>2, <2>1 DEF PostInv, Unspent, NoneLate, Posting, Closed
<1>4. pc' = [pc EXCEPT ![c] = "wait"] /\ parent' \in {"working", "ready", "error", "published"}
  BY <1>0, <1>2 DEF Typed
<1> QED
  BY <1>0, <1>1, <1>2, <1>3, <1>4, WaitStep

LEMMA AppliesStep == ASSUME ContainerInv, NEW c \in Calls, Applies(c) PROVE ContainerInv'
<1>0. /\ request[c] = "sent" /\ request' = [request EXCEPT ![c] = "applied"]
      /\ UNCHANGED <<shape, row, known, claim, pc, mine, what, late, children, said, faults>>
      /\ posts' = IF Posting(what[c]) THEN posts + 1 ELSE posts
      /\ parent' = IF what[c] = "publish" THEN "published" ELSE parent
  BY DEF Applies, Happens, local, Posting
<1>2. /\ Typed /\ PostInv /\ pc[c] = "wait" /\ pc[c] \in Holding /\ Unspent /\ row.stage = "unknown"
      /\ mine[c].parentId = row.parentId
      /\ (what[c] # "child" => (Threads /\ shape.items > 0 => children = "ready"))
  BY <1>0, CallTyped DEF HoldsIt, MayPost, Prepared, Holding, Working
<1>3. IF Posting(what[c]) THEN posts' = 1 /\ NoneLate ELSE Unspent'
  BY <1>0, <1>2 DEF Unspent, NoneLate, Posting
<1>4. PostInv'
  BY <1>0, <1>2, <1>3 DEF PostInv, Unspent, NoneLate, Posting, Closed
<1>5. FailInv'
  <2>1. CASE Posting(what[c])
    BY <1>0, <1>2, <2>1, Poised DEF FailInv
  <2>2. CASE ~Posting(what[c])
    BY <1>0, <1>2, <2>2, FailKept DEF Posting
  <2> QED
    BY <2>1, <2>2
<1>6. pc' = [pc EXCEPT ![c] = "wait"] /\ parent' \in {"working", "ready", "error", "published"}
  BY <1>0, <1>2 DEF Typed
<1> QED
  BY <1>0, <1>2, <1>3, <1>4, <1>5, <1>6, WaitStep

(* A call gives up on its write.                                           *)
LEMMA AbandonKeeps ==
    ASSUME ContainerInv, NEW c \in Calls, pc[c] \in Holding, Abandon(c),
           UNCHANGED <<shape, row, posts, children, parent, said>>
    PROVE  /\ late' \subseteq {"child", "parent", "publish"}
           /\ request' = [request EXCEPT ![c] = "none"] /\ PostInv' /\ FailInv'
<1>0. /\ Typed /\ PostInv /\ request' = [request EXCEPT ![c] = "none"]
      /\ late' = IF request[c] = "sent" THEN late \cup {what[c]} ELSE late
  BY CallTyped DEF Abandon, Forget
<1>1. request[c] = "sent" => pc[c] = "wait" /\ Unspent /\ row.stage = "unknown"
  BY CallTyped DEF HoldsIt, MayPost
<1>2. late' \subseteq {"child", "parent", "publish"}
  BY <1>0 DEF Typed
<1>3. PostInv'
  <2>1. CASE late' = late
    BY <1>0, <2>1 DEF PostInv, Unspent, NoneLate, Posting, Closed
  <2>2. CASE request[c] = "sent" /\ late' = late \cup {what[c]}
    BY <1>0, <1>1, <2>2 DEF PostInv, Unspent, NoneLate, Posting, Closed
  <2> QED
    BY <1>0, <2>1, <2>2
<1>4. FailInv'
  <2>1. CASE request[c] = "sent" /\ Posting(what[c])
    BY <1>1, <2>1, Poised DEF FailInv
  <2>2. CASE ~(request[c] = "sent" /\ Posting(what[c]))
    BY <1>0, <2>2, FailKept
  <2> QED
    BY <2>1, <2>2
<1> QED
  BY <1>0, <1>2, <1>3, <1>4

LEMMA LostStep == ASSUME ContainerInv, NEW c \in Calls, Lost(c) PROVE ContainerInv'
<1>0. /\ pc[c] = "wait" /\ pc[c] \in Holding /\ Abandon(c)
      /\ pc' = [pc EXCEPT ![c] = "release"] /\ (known' = known \/ known' = TRUE)
      /\ UNCHANGED <<shape, row, claim, mine, what, children, parent, posts, said, faults>>
  BY DEF Lost, Returns, Throws, Says, LostMeans, Goto, Holding, Working, platform
<1>1. /\ late' \subseteq {"child", "parent", "publish"}
      /\ request' = [request EXCEPT ![c] = "none"] /\ PostInv' /\ FailInv'
  BY <1>0, AbandonKeeps
<1>2. Typed /\ pc'[c] = "release" /\ request'[c] = "none"
  BY <1>0, <1>1 DEF ContainerInv, Typed
<1>3. Typed' /\ \A d \in Calls : d # c => request'[d] = request[d]
  BY <1>0, <1>1, <1>2 DEF Typed, Working
<1>4. CallInv(c)'
  BY <1>2 DEF CallInv, HoldsIt, MayPost, Prepared, Holding, Working
<1> QED
  BY <1>0, <1>1, <1>3, <1>4, HolderStep DEF Working

LEMMA RefusedStep == ASSUME ContainerInv, NEW c \in Calls, Refused(c) PROVE ContainerInv'
<1>0. /\ pc[c] = "wait" /\ request[c] \in {"token", "refused"} /\ pc[c] \in Holding
      /\ request' = [request EXCEPT ![c] = "none"]
      /\ UNCHANGED <<shape, row, claim, mine, what, late, children, parent, posts, faults>>
  BY DEF Refused, Forget, Holding, Working, platform
<1>1. Typed /\ PostInv /\ Unspent /\ row.stage = "unknown" /\ row \in Rows
  BY <1>0, CallTyped DEF MayPost
<1>2. \/ Throws(c, {"failed"}) \/ Throws(c, {})
      \/ Continues(c, "reopen")
      \/ Returns(c, {})
  BY DEF Refused
<1>3. CASE Throws(c, {"failed"}) \/ Throws(c, {})
  BY <1>0, <1>1, <1>3, ThrowsStep DEF PostInv
<1>4. CASE Returns(c, {})
  BY <1>0, <1>1, <1>4, LeaveStep DEF Returns, Goto, Says, PostInv, Typed
<1>5. CASE Continues(c, "reopen")
  <2>1. pc' = [pc EXCEPT ![c] = "reopen"] /\ UNCHANGED <<known, said>>
    BY <1>5 DEF Continues, Goto
  <2>2. PostInv' /\ FailInv' /\ Unspent'
    <3>1. FailInv'
      BY <1>0, <2>1, FailKept
    <3> QED
      BY <1>0, <1>1, <2>1, <3>1 DEF PostInv, Unspent, NoneLate, Posting, Closed
  <2>3. parent' \in {"working", "ready", "error", "published"}
    BY <1>0, <1>1 DEF Typed
  <2> QED
    BY <1>0, <1>1, <2>1, <2>2, <2>3, WaitStep
<1> QED
  BY <1>2, <1>3, <1>4, <1>5

(* What is recorded of a write that happened.                              *)
LEMMA RecordedRight ==
    ASSUME ContainerInv, NEW c \in Calls, pc[c] = "record"
    PROVE  /\ Recorded(c) \in Rows /\ row \in Rows /\ row.stage = "unknown" /\ request[c] = "none"
           /\ IF Posting(what[c]) THEN posts = 1 /\ NoneLate ELSE Unspent
           /\ Posting(what[c]) => Recorded(c).nativeId \/ Recorded(c).stage = "unknown"
           /\ Recorded(c).nativeId => posts = 1
           /\ row.parentId => Recorded(c).parentId
           /\ what[c] = "publish" => posts = 1
<1>1. /\ row \in Rows /\ what[c] \in {"child", "parent", "publish"} /\ PostInv
      /\ row.stage = "unknown" /\ request[c] = "none"
      /\ IF Posting(what[c]) THEN posts = 1 /\ NoneLate ELSE Unspent
  BY CallTyped DEF HoldsIt, MayPost
<1>2. CASE what[c] = "child"
  <2>1. Recorded(c) = [row EXCEPT !.childIds = row.childIds + 1, !.stage = "children"]
    BY <1>2 DEF Recorded
  <2>2. /\ Recorded(c) \in Rows /\ Recorded(c).nativeId = row.nativeId
        /\ Recorded(c).parentId = row.parentId
    <3>1. row.childIds + 1 \in Nat
      BY <1>1 DEF Rows
    <3> QED
      BY <1>1, <2>1, <3>1 DEF Rows
  <2> QED
    BY <1>1, <1>2, <2>2 DEF Posting, PostInv
<1>3. CASE what[c] = "parent"
  BY <1>1, <1>3 DEF Recorded, Rows, Posting, PostInv
<1>4. CASE what[c] = "publish"
  BY <1>1, <1>4 DEF Recorded, Rows, Posting, PostInv
<1> QED
  BY <1>1, <1>2, <1>3, <1>4

LEMMA RecordStep == ASSUME ContainerInv, NEW c \in Calls, Record(c) PROVE ContainerInv'
<1>0. /\ pc[c] = "record" /\ pc[c] \in Holding /\ row' = Recorded(c)
      /\ mine' = [mine EXCEPT ![c] = row']
      /\ UNCHANGED <<shape, claim, what, request, late, children, parent, posts, faults>>
  BY DEF Record, Saved, Holding, Working, platform
<1>1. /\ Recorded(c) \in Rows /\ row \in Rows /\ row.stage = "unknown" /\ request[c] = "none"
      /\ IF Posting(what[c]) THEN posts = 1 /\ NoneLate ELSE Unspent
      /\ Posting(what[c]) => Recorded(c).nativeId \/ Recorded(c).stage = "unknown"
      /\ Recorded(c).nativeId => posts = 1
      /\ row.parentId => Recorded(c).parentId
      /\ what[c] = "publish" => posts = 1
  BY <1>0, RecordedRight
<1>2. /\ Typed /\ PostInv /\ mine' \in [Calls -> Rows] /\ mine'[c] = row'
      /\ (what[c] # "child" => (Threads /\ shape.items > 0 => children = "ready"))
  BY <1>0, <1>1, CallTyped DEF Typed, Prepared
<1>3. ~Unspent => Posting(what[c])
  BY <1>1
<1>4. CASE \E verdict \in {{}, {"published"}} :
              Returns(c, verdict) /\ (verdict # {} => what[c] = "publish")
  BY <1>0, <1>1, <1>2, <1>3, <1>4, LeaveStep DEF Returns, Goto, Says, PostInv, Closed, Typed
<1>5. CASE ~Posting(what[c]) /\ Continues(c, IF what[c] = "child" THEN "children" ELSE "parent")
  <2> DEFINE label == IF what[c] = "child" THEN "children" ELSE "parent"
  <2>1. pc' = [pc EXCEPT ![c] = label] /\ UNCHANGED <<known, said>>
    BY <1>5 DEF Continues, Goto
  <2>2. label \in {"children", "parent"} /\ (label = "parent" => what[c] # "child")
    OBVIOUS
  <2> HIDE DEF label
  <2>3. Typed' /\ Unspent /\ ~row'.nativeId
    BY <1>0, <1>1, <1>2, <1>5, <2>1, <2>2 DEF Typed, Working, platform, Unspent
  <2> QED
    BY <1>0, <1>1, <1>2, <1>5, <2>1, <2>2, <2>3, InnerStep
<1> QED
  <2>1. \/ \E verdict \in {{}, {"published"}} :
              Returns(c, verdict) /\ (verdict # {} => what[c] = "publish")
        \/ ~Posting(what[c]) /\ Continues(c, IF what[c] = "child" THEN "children" ELSE "parent")
    <3>1. CASE what[c] = "publish"
      BY <3>1 DEF Record
    <3>2. CASE what[c] = "parent" /\ shape.auto
      BY <3>2 DEF Record
    <3>3. CASE what[c] = "child" \/ (what[c] = "parent" /\ ~shape.auto)
      BY <3>3 DEF Record, Posting
    <3> QED
      BY <1>2, <3>1, <3>2, <3>3, CallTyped
  <2> QED
    BY <1>4, <1>5, <2>1

LEMMA RecordFailsStep == ASSUME ContainerInv, NEW c \in Calls, RecordFails(c) PROVE ContainerInv'
<1>0. /\ pc[c] = "record" /\ pc[c] \in Holding
      /\ UNCHANGED <<shape, claim, mine, what, request, late, children, parent, posts>>
  BY DEF RecordFails, Holding, Working, platform
<1>1. /\ Recorded(c) \in Rows /\ row \in Rows /\ row.stage = "unknown" /\ request[c] = "none"
      /\ IF Posting(what[c]) THEN posts = 1 /\ NoneLate ELSE Unspent
      /\ Posting(what[c]) => Recorded(c).nativeId \/ Recorded(c).stage = "unknown"
      /\ Recorded(c).nativeId => posts = 1
      /\ row.parentId => Recorded(c).parentId
      /\ what[c] = "publish" => posts = 1
  BY <1>0, RecordedRight
<1>2. Typed /\ PostInv
  BY CallTyped
<1>3. PICK r \in {row, Recorded(c)} : row' = r \/ row' = [r EXCEPT !.stage = "unknown"]
  BY DEF RecordFails
<1>4. /\ row' \in Rows /\ row'.nativeId = r.nativeId /\ row'.parentId = r.parentId
      /\ row'.stage \in {r.stage, "unknown"}
  BY <1>1, <1>3 DEF Rows
<1>5. /\ ~Unspent => Closed'
      /\ row'.nativeId => posts = 1
      /\ parent = "error" => row'.parentId
  BY <1>1, <1>2, <1>3, <1>4 DEF Closed, PostInv
<1>6. CASE what[c] = "publish" /\ Returns(c, {"published"})
  <2>1. /\ pc' = [pc EXCEPT ![c] = "release"] /\ known' = TRUE /\ said' = said \cup {"published"}
        /\ posts = 1 /\ row' \in Rows /\ mine' \in [Calls -> Rows] /\ request' = request
    BY <1>0, <1>1, <1>2, <1>4, <1>6 DEF Returns, Goto, Says, Typed
  <2> DEFINE verdict == {"published"}
  <2>2. verdict \in SUBSET {"published", "failed"} /\ "failed" \notin verdict
    OBVIOUS
  <2>3. said' = said \cup verdict
    BY <2>1
  <2> HIDE DEF verdict
  <2> QED
    BY <1>0, <1>1, <1>5, <2>1, <2>2, <2>3, LeaveStep
<1>7. CASE Throws(c, {})
  BY <1>0, <1>1, <1>4, <1>5, <1>7, ThrowsStep
<1> QED
  BY <1>6, <1>7 DEF RecordFails

-----------------------------------------------------------------------------
(* The other steps                                                         *)

(* A step after which every call is where it was.                          *)
LEMMA StillStep ==
    ASSUME ContainerInv,
           UNCHANGED <<shape, row, known, claim, pc, mine, what, request, late, posts, said>>,
           children' = children \/ (children = "working" /\ children' \in {"ready", "error"}),
           parent' = parent \/ (parent = "working" /\ row.parentId /\ parent' \in {"ready", "error"})
    PROVE  ContainerInv'
<1>1. Typed'
  BY DEF ContainerInv, Typed
<1>2. KnownInv' /\ PostInv'
  BY DEF ContainerInv, KnownInv, PostInv, Unspent, NoneLate, Posting, Closed
<1>3. FailInv'
  BY DEF ContainerInv, FailInv, Settled, Unspent, NoneLate, Posting, Threads
<1>4. \A d \in Calls : CallInv(d)'
  BY DEF ContainerInv, CallInv, HoldsIt, MayPost, Prepared, Unspent, NoneLate, Posting, Threads
<1> QED
  BY <1>1, <1>2, <1>3, <1>4 DEF ContainerInv

(* A step of a call that does not work, which changes only who does.       *)
LEMMA IdleStep ==
    ASSUME ContainerInv, NEW c \in Calls, pc[c] \notin Holding,
           NEW label \in {"idle", "claim", "done", "read"}, pc' = [pc EXCEPT ![c] = label],
           UNCHANGED <<shape, row, mine, what, request, late, children, parent, posts>>,
           known' \in BOOLEAN, said' = said \/ (said' = said \cup {"published"} /\ posts = 1),
           KnownInv', label = "read" => claim' = c,
           \A d \in Calls : claim = d /\ d # c => claim' = d,
           pc[Publisher] \in Holding /\ ~known => ~known',
           ~known /\ pc[Publisher] \in {"release", "done"} =>
              ~known' /\ pc'[Publisher] \in {"release", "done"}
    PROVE  ContainerInv'
<1>0. Typed /\ PostInv /\ pc'[c] = label /\ request[c] = "none"
      /\ \A d \in Calls : d # c => pc'[d] = pc[d]
  BY CallTyped DEF Typed, HoldsIt, Holding, Working
<1>1. Typed'
  BY <1>0 DEF Typed, Working
<1>2. PostInv'
  BY <1>0 DEF PostInv, Unspent, NoneLate, Posting, Closed
<1>3. FailInv'
  BY DEF ContainerInv, FailInv, Settled, Unspent, NoneLate, Posting, Threads
<1>4. CallInv(c)'
  BY <1>0 DEF CallInv, HoldsIt, MayPost, Prepared, Holding, Working
<1>5. ASSUME NEW d \in Calls, d # c PROVE CallInv(d)'
  <2>1. HoldsIt(d)'
    BY <1>0, <1>5, CallTyped DEF HoldsIt
  <2>2. MayPost(d)' /\ Prepared(d)'
    BY <1>0, <1>5, CallTyped DEF MayPost, Prepared, Unspent, NoneLate, Posting, Threads
  <2> QED
    BY <2>1, <2>2 DEF CallInv
<1> QED
  BY <1>1, <1>2, <1>3, <1>4, <1>5 DEF ContainerInv

LEMMA StartStep == ContainerInv /\ Start => ContainerInv'
<1> SUFFICES ASSUME ContainerInv, Start PROVE ContainerInv'
  OBVIOUS
<1> DEFINE label == IF Threads THEN "claim" ELSE "children"
<1>0. /\ pc[Publisher] = "idle" /\ pc' = [pc EXCEPT ![Publisher] = label]
      /\ UNCHANGED <<shape, row, known, claim, mine, what, request, late, children, parent, posts, said>>
  BY DEF Start, Goto, platform
<1>1. /\ Typed /\ PostInv /\ ~known /\ Unspent /\ row = NewRow /\ mine[Publisher] = NewRow
      /\ \A d \in Pollers : pc[d] = "idle"
  BY <1>0 DEF ContainerInv, KnownInv
<1>2. label \in {"claim", "children"}
  OBVIOUS
<1> HIDE DEF label
<1>3. pc'[Publisher] = label /\ \A d \in Pollers : pc'[d] = "idle"
  BY <1>0, <1>1, Publishes DEF Typed
<1>4. Typed' /\ KnownInv' /\ PostInv'
  <2>1. Typed'
    BY <1>0, <1>1, <1>2 DEF Typed, Working
  <2> QED
    BY <1>0, <1>1, <1>2, <1>3, <2>1 DEF KnownInv, PostInv, Unspent, NoneLate, Posting, Closed
<1>5. FailInv'
  BY <1>0 DEF ContainerInv, FailInv, Settled, Unspent, NoneLate, Posting, Threads
<1>6. ASSUME NEW d \in Calls PROVE CallInv(d)'
  <2>1. request'[d] = "none"
    BY <1>0, <1>1, <1>6, CallTyped DEF HoldsIt, Calls
  <2>2. CASE d = Publisher
    BY <1>0, <1>1, <1>2, <1>3, <2>1, <2>2
       DEF CallInv, HoldsIt, MayPost, Prepared, Unspent, NoneLate, Posting, Holding, Working
  <2>3. CASE d # Publisher
    BY <1>3, <1>6, <2>1, <2>3
       DEF CallInv, HoldsIt, MayPost, Prepared, Holding, Working, Calls
  <2> QED
    BY <2>2, <2>3
<1> QED
  BY <1>4, <1>5, <1>6 DEF ContainerInv

LEMMA PollStep == ASSUME ContainerInv, NEW c \in Calls, Poll(c) PROVE ContainerInv'
<1>0. /\ c \in Pollers /\ c # Publisher /\ pc[c] = "idle" /\ known
      /\ UNCHANGED <<shape, row, known, claim, mine, what, request, late, children, parent, posts>>
  BY Publishes DEF Poll, platform
<1>1. Typed /\ PostInv /\ KnownInv
  BY DEF ContainerInv, Typed
<1>2. said' = said \/ (said' = said \cup {"published"} /\ posts = 1)
  BY <1>1 DEF Poll, Says, PostInv
<1>3. PICK label \in {"idle", "claim"} : pc' = [pc EXCEPT ![c] = label]
  BY <1>0, <1>1 DEF Poll, Goto, Typed
<1>4. pc'[Publisher] = pc[Publisher]
  BY <1>0, <1>1, <1>3 DEF Typed
<1>5. KnownInv'
  BY <1>0, <1>1, <1>4 DEF KnownInv
<1> QED
  BY <1>0, <1>1, <1>2, <1>3, <1>4, <1>5, IdleStep DEF Typed, Holding, Working

LEMMA ClaimStep == ASSUME ContainerInv, NEW c \in Calls, Claim(c) PROVE ContainerInv'
<1>0. /\ pc[c] = "claim" /\ pc[c] \notin Holding
      /\ UNCHANGED <<shape, row, mine, what, request, late, children, parent, posts, said>>
  BY DEF Claim, Holding, Working, platform
<1>1. Typed /\ KnownInv /\ (c = Publisher => ~known) /\ (c # Publisher => c \in Pollers /\ known)
  BY <1>0, Publishes DEF ContainerInv, KnownInv, Calls
<1>2. PICK label \in {"read", "idle", "done"} :
        /\ pc' = [pc EXCEPT ![c] = label]
        /\ label = "read" => claim = NoOne /\ claim' = c /\ known' = known
        /\ label # "read" => label = Ended(c) /\ known' = TRUE /\ claim' = claim
  BY DEF Claim, Free, Goto, Ended
<1>3. pc'[c] = label /\ \A d \in Calls : d # c => pc'[d] = pc[d]
  BY <1>1, <1>2 DEF Typed
<1>4. KnownInv'
  BY <1>1, <1>2, <1>3, Publishes DEF KnownInv, Ended
<1>5. \A d \in Calls : claim = d /\ d # c => claim' = d
  BY <1>2, NamesAssumption
<1>6. /\ pc[Publisher] \in Holding /\ ~known => ~known'
      /\ ~known /\ pc[Publisher] \in {"release", "done"} => FALSE
  BY <1>0, <1>1
<1>7. known' \in BOOLEAN
  BY <1>1, <1>2 DEF Typed
<1> QED
  BY <1>0, <1>2, <1>4, <1>5, <1>6, <1>7, IdleStep

(* A call that stops where it does not work.                               *)
LEMMA StopStep ==
    ASSUME ContainerInv, NEW c \in Calls, pc[c] \in {"claim", "release"},
           pc' = [pc EXCEPT ![c] = Ended(c)], claim' = claim \/ claim = c,
           UNCHANGED <<shape, row, known, mine, what, request, late, children, parent, posts, said>>
    PROVE  ContainerInv'
<1>1. /\ Typed /\ KnownInv /\ (c # Publisher => c \in Pollers /\ known) /\ pc[c] \notin Holding
  BY Publishes DEF ContainerInv, KnownInv, Calls, Holding, Working
<1>2. pc'[c] = Ended(c) /\ (\A d \in Calls : d # c => pc'[d] = pc[d]) /\ Ended(c) \in {"idle", "done"}
  BY <1>1 DEF Typed, Ended
<1>3. KnownInv'
  BY <1>1, <1>2, Publishes DEF KnownInv, Ended
<1>4. ~known /\ pc[Publisher] \in {"release", "done"} => pc'[Publisher] \in {"release", "done"}
  BY <1>1, <1>2, Publishes DEF Ended
<1> QED
  BY <1>1, <1>2, <1>3, <1>4, IdleStep DEF Typed

LEMMA ReleaseStep == ASSUME ContainerInv, NEW c \in Calls, Release(c) PROVE ContainerInv'
<1>1. /\ pc[c] = "release" /\ pc' = [pc EXCEPT ![c] = Ended(c)] /\ (claim' = claim \/ claim = c)
      /\ UNCHANGED <<shape, row, known, mine, what, request, late, children, parent, posts, said>>
  BY DEF Release, Goto, Releases, platform
<1> QED
  BY <1>1, StopStep

LEMMA DiesStep == ASSUME ContainerInv, NEW c \in Calls, Dies(c) PROVE ContainerInv'
<1>0. /\ pc[c] \in Working \cup {"claim"} /\ Abandon(c) /\ pc' = [pc EXCEPT ![c] = Ended(c)]
      /\ claim' = IF claim = c THEN Orphan ELSE claim
      /\ UNCHANGED <<shape, row, known, mine, what, children, parent, posts, said>>
  BY DEF Dies, Goto, platform
<1>1. CASE pc[c] \in {"claim", "release"}
  <2>1. request[c] = "none" /\ Typed
    BY <1>1, CallTyped DEF HoldsIt
  <2>2. request' = request /\ late' = late
    BY <1>0, <2>1 DEF Abandon, Forget, Typed
  <2> QED
    BY <1>0, <1>1, <2>2, StopStep
<1>2. CASE pc[c] \in Holding
  <2>1. /\ late' \subseteq {"child", "parent", "publish"}
        /\ request' = [request EXCEPT ![c] = "none"] /\ PostInv' /\ FailInv'
    BY <1>0, <1>2, AbandonKeeps
  <2>2. /\ Typed /\ pc'[c] = Ended(c) /\ request'[c] = "none" /\ Ended(c) \in {"idle", "done"}
        /\ \A d \in Calls : d # c => pc'[d] = pc[d] /\ request'[d] = request[d]
    BY <1>0, <2>1 DEF ContainerInv, Typed, Ended
  <2>3. Typed'
    BY <1>0, <2>1, <2>2 DEF Typed
  <2>4. \A d \in Calls : CallInv(d)'
    <3>1. CallInv(c)'
      BY <2>2 DEF CallInv, HoldsIt, MayPost, Prepared, Holding, Working
    <3> QED
      BY <1>2, <2>2, <3>1, OthersStep
  <2>5. KnownInv'
    <3>1. c # Publisher => c \in Pollers /\ known /\ pc[Publisher] \in {"release", "done"}
      BY <1>2, Publishes DEF ContainerInv, KnownInv, Calls, Holding, Working
    <3> QED
      BY <1>0, <2>2, <3>1, Publishes DEF ContainerInv, KnownInv, Ended
  <2> QED
    BY <2>1, <2>3, <2>4, <2>5 DEF ContainerInv
<1> QED
  BY <1>0, <1>1, <1>2 DEF Holding

LEMMA ClaimExpiresStep == ContainerInv /\ ClaimExpires => ContainerInv'
<1> SUFFICES ASSUME ContainerInv, ClaimExpires PROVE ContainerInv'
  OBVIOUS
<1>0. /\ claim = Orphan
      /\ UNCHANGED <<shape, row, known, pc, mine, what, request, late, children, parent, posts, said>>
  BY DEF ClaimExpires, local, platform
<1>1. Typed' /\ KnownInv' /\ PostInv' /\ FailInv'
  BY <1>0 DEF ContainerInv, Typed, KnownInv, PostInv, FailInv, Settled, Unspent, NoneLate, Posting,
              Closed, Threads
<1>2. \A d \in Calls : CallInv(d)'
  BY <1>0, NamesAssumption
     DEF ContainerInv, CallInv, HoldsIt, MayPost, Prepared, Unspent, NoneLate, Posting, Threads
<1> QED
  BY <1>1, <1>2 DEF ContainerInv

(* A write takes effect long after its call gave up on it.                 *)
LEMMA AppliesLateStep ==
    ASSUME ContainerInv, NEW w \in {"child", "parent", "publish"}, AppliesLate(w)
    PROVE  ContainerInv'
<1>0. /\ w \in late /\ late' = late \ {w}
      /\ UNCHANGED <<shape, row, known, claim, pc, mine, what, request, children, said>>
      /\ posts' = IF Posting(w) THEN posts + 1 ELSE posts
      /\ parent' = IF w = "publish" THEN "published" ELSE parent
  BY DEF AppliesLate, Happens, local, Posting
<1>1. Typed /\ PostInv /\ KnownInv /\ FailInv
  BY DEF ContainerInv
<1>2. Typed' /\ KnownInv'
  BY <1>0, <1>1 DEF Typed, KnownInv, Unspent, NoneLate, Posting
<1>3. CASE Posting(w)
  <2>1. posts = 0 /\ ~Unspent /\ posts' = 1
    BY <1>0, <1>1, <1>3 DEF PostInv, Unspent, NoneLate
  <2>2. NoneLate'
    BY <1>0, <1>1, <1>3 DEF PostInv, NoneLate, Posting, Typed
  <2>3. PostInv' /\ FailInv'
    BY <1>0, <1>1, <2>1, <2>2 DEF PostInv, FailInv, Unspent, Closed
  <2>4. KnownInv'
    BY <1>0, <1>1, <2>1 DEF KnownInv
  <2>5. ASSUME NEW d \in Calls PROVE CallInv(d)'
    <3>1. HoldsIt(d)'
      BY <1>0, CallTyped DEF HoldsIt
    <3>2. /\ pc[d] \notin {"children", "adopt", "parent", "mark", "send", "reopen", "record"}
          /\ pc[d] = "wait" => request[d] = "none"
      BY <1>0, <1>3, <2>1, CallTyped DEF MayPost, NoneLate
    <3>3. MayPost(d)'
      BY <1>0, <3>2, CallTyped DEF MayPost
    <3>4. Prepared(d)'
      BY <1>0, <3>2, CallTyped DEF Prepared, Threads
    <3> QED
      BY <3>1, <3>3, <3>4 DEF CallInv
  <2> QED
    BY <1>2, <2>3, <2>4, <2>5 DEF ContainerInv
<1>4. CASE ~Posting(w)
  <2>1. posts' = posts /\ parent' = parent /\ (NoneLate' <=> NoneLate) /\ (Unspent' <=> Unspent)
    BY <1>0, <1>4 DEF NoneLate, Unspent, Posting
  <2>2. PostInv' /\ KnownInv'
    BY <1>0, <1>1, <2>1 DEF PostInv, KnownInv, Closed
  <2>3. FailInv'
    BY <1>0, <1>1, <2>1 DEF FailInv, Settled, Threads
  <2>4. \A d \in Calls : CallInv(d)'
    BY <1>0, <2>1 DEF ContainerInv, CallInv, HoldsIt, MayPost, Prepared, Posting, Threads
  <2> QED
    BY <1>2, <2>2, <2>3, <2>4 DEF ContainerInv
<1> QED
  BY <1>3, <1>4

-----------------------------------------------------------------------------
(* The invariant                                                           *)

LEMMA FreshInv == SubmissionInit /\ Fresh => ContainerInv
<1> SUFFICES ASSUME SubmissionInit, Fresh PROVE ContainerInv
  OBVIOUS
<1> USE DEF SubmissionInit, Fresh
<1>1. NewRow \in Rows /\ ~NewRow.nativeId
  BY DEF NewRow, Rows
<1>2. Typed
  BY <1>1 DEF Typed
<1>3. KnownInv /\ PostInv /\ FailInv
  BY <1>1, Publishes DEF KnownInv, PostInv, FailInv, Unspent, NoneLate
<1>4. \A c \in Calls : CallInv(c)
  BY DEF CallInv, HoldsIt, MayPost, Prepared, Holding, Working
<1> QED
  BY <1>2, <1>3, <1>4 DEF ContainerInv

LEMMA ContainerStep == ContainerInv /\ ContainerNext => ContainerInv'
<1> SUFFICES ASSUME ContainerInv, ContainerNext PROVE ContainerInv'
  OBVIOUS
<1>1. CASE Start
  BY <1>1, StartStep
<1>2. CASE ClaimExpires
  BY <1>2, ClaimExpiresStep
<1>3. CASE ChildrenProcessed \/ ParentProcessed
  <2>1. /\ UNCHANGED <<shape, row, known, claim, pc, mine, what, request, late, posts, said>>
        /\ children' = children \/ (children = "working" /\ children' \in {"ready", "error"})
        /\ parent' = parent
              \/ (parent = "working" /\ row.parentId /\ parent' \in {"ready", "error"})
    BY <1>3 DEF ChildrenProcessed, ParentProcessed, local
  <2> QED
    BY <2>1, StillStep
<1>4. ASSUME NEW c \in Calls, Step(c) PROVE ContainerInv'
  BY <1>4, ClaimStep, ReadStep, NextChildStep, LeaveChildrenStep, CheckChildrenStep,
     CheckParentStep, MarkStep, SendStep, CreatedStep, LostStep, RefusedStep, RecordStep,
     AdoptStep, ReopenStep, ReleaseStep DEF Step
<1>5. ASSUME NEW c \in Calls,
             Poll(c) \/ StatusFails(c) \/ RecordFails(c) \/ Dies(c) \/ Applies(c) \/ Refuses(c)
      PROVE  ContainerInv'
  BY <1>5, PollStep, StatusFailsStep, RecordFailsStep, DiesStep, AppliesStep, RefusesStep
<1>6. ASSUME NEW w \in {"child", "parent", "publish"}, AppliesLate(w) PROVE ContainerInv'
  BY <1>6, AppliesLateStep
<1> QED
  BY <1>1, <1>2, <1>3, <1>4, <1>5, <1>6 DEF ContainerNext

LEMMA ContainerStill == ContainerInv /\ UNCHANGED cvars => ContainerInv'
BY DEF ContainerInv, cvars, local, platform, Typed, KnownInv, PostInv, FailInv, CallInv, HoldsIt,
       MayPost, Prepared, Settled, Closed, Unspent, NoneLate, Posting, Threads

(* What a workflow says and does are steps of Submission.                  *)
LEMMA ContainerPromise ==
    ContainerInv /\ ContainerInv' /\ [ContainerNext]_cvars => [SubmissionNext]_<<posts, said>>
<1> SUFFICES ASSUME ContainerInv, ContainerInv', [ContainerNext]_cvars
             PROVE  [SubmissionNext]_<<posts, said>>
  OBVIOUS
<1>1. /\ posts \in {0, 1} /\ posts' \in {0, 1}
      /\ "published" \in said' => posts' = 1
      /\ "failed" \in said' => posts' = 0
  BY DEF ContainerInv, PostInv, FailInv, Unspent
<1>2. ASSUME UNCHANGED posts, NEW v \in {"published", "failed"}, said' = said \cup {v}
      PROVE  [SubmissionNext]_<<posts, said>>
  <2>1. CASE v = "published"
    BY <1>1, <1>2, <2>1 DEF SubmissionNext, SayPublished
  <2>2. CASE v = "failed"
    BY <1>1, <1>2, <2>2 DEF SubmissionNext, SayFailed
  <2> QED
    BY <1>2, <2>1, <2>2
<1>3. ASSUME UNCHANGED posts, NEW verdict \in {{}, {"published"}, {"failed"}},
             said' = said \/ said' = said \cup verdict
      PROVE  [SubmissionNext]_<<posts, said>>
  BY <1>2, <1>3
<1>4. ASSUME NEW w, Happens(w), UNCHANGED said PROVE [SubmissionNext]_<<posts, said>>
  BY <1>1, <1>4 DEF Happens, SubmissionNext, Appear
<1>5. CASE Start \/ ClaimExpires \/ ChildrenProcessed \/ ParentProcessed
  BY <1>3, <1>5 DEF Start, ClaimExpires, ChildrenProcessed, ParentProcessed, platform
<1>6. ASSUME NEW c \in Calls,
             \/ Poll(c) \/ Claim(c) \/ NextChild(c) \/ LeaveChildren(c) \/ Mark(c) \/ Send(c)
             \/ Created(c) \/ Adopt(c) \/ Reopen(c) \/ Release(c) \/ Dies(c) \/ Refuses(c)
             \/ StatusFails(c)
      PROVE  [SubmissionNext]_<<posts, said>>
  <2>1. /\ UNCHANGED posts
        /\ \/ said' = said \/ said' = said \cup {} \/ said' = said \cup {"failed"}
           \/ said' = said \cup {"published"}
    BY <1>6 DEF Poll, Claim, NextChild, LeaveChildren, Mark, Send, Created, Adopt, Reopen, Release,
         Dies, Refuses, StatusFails, Writes, Continues, Throws, Says, platform
  <2> QED
    BY <1>2, <1>3, <2>1
<1>7. ASSUME NEW c \in Calls,
             \/ Read(c) \/ CheckChildren(c) \/ CheckParent(c) \/ Lost(c) \/ Refused(c)
             \/ Record(c) \/ RecordFails(c)
      PROVE  [SubmissionNext]_<<posts, said>>
  <2>1. /\ UNCHANGED posts
        /\ \/ said' = said \/ said' = said \cup {} \/ said' = said \cup {"failed"}
           \/ said' = said \cup {"published"}
    <3>1. CASE Read(c) \/ CheckChildren(c) \/ CheckParent(c)
      BY <3>1 DEF Read, CheckChildren, CheckParent, Writes, Continues, Returns, Says, platform
    <3>2. CASE Lost(c) \/ Refused(c)
      BY <3>2 DEF Lost, LostMeans, Refused, Continues, Returns, Throws, Says, platform
    <3>3. CASE Record(c) \/ RecordFails(c)
      BY <3>3 DEF Record, RecordFails, Continues, Returns, Throws, Says, platform
    <3> QED
      BY <1>7, <3>1, <3>2, <3>3
  <2> QED
    BY <1>2, <1>3, <2>1
<1>8. ASSUME NEW c \in Calls, Applies(c) PROVE [SubmissionNext]_<<posts, said>>
  BY <1>4, <1>8 DEF Applies
<1>9. ASSUME NEW w \in {"child", "parent", "publish"}, AppliesLate(w)
      PROVE  [SubmissionNext]_<<posts, said>>
  BY <1>4, <1>9 DEF AppliesLate
<1>10. CASE UNCHANGED cvars
  BY <1>3, <1>10 DEF cvars, platform
<1> QED
  BY <1>5, <1>6, <1>7, <1>8, <1>9, <1>10 DEF ContainerNext, Step
=============================================================================
