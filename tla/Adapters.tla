------------------------------ MODULE Adapters ------------------------------
(***************************************************************************)
(* One submission by publishTarget of the adapters that need several       *)
(* requests to make one post: the containers of Threads and Instagram, the *)
(* chunks of TikTok and YouTube, and the attachments of X, Bluesky,        *)
(* LinkedIn and Facebook.  All of them must keep the promise of            *)
(* Submission, on which recovery of outcomes (Publication) is built.       *)
(***************************************************************************)
EXTENDS ContainerWorkflow, ChunkedUpload, AttachedPost

(* The submission takes another way.                                       *)
NoShape == [platform |-> "none", items |-> 0, auto |-> FALSE]

NoFile == [host |-> "none", size |-> 1, length |-> 0]

NoDraft == [host |-> "none", parts |-> 0]

AdaptersInit ==
    /\ SubmissionInit /\ Fresh /\ Untouched /\ Unsent
    /\ \/ shape \in Shapes /\ file = NoFile /\ draft = NoDraft
       \/ shape = NoShape /\ file \in Files /\ draft = NoDraft
       \/ shape = NoShape /\ file = NoFile /\ draft \in Drafts

containerOnly == <<shape, row, known, claim, local, request, late, children, parent, faults>>
uploadOnly == <<file, stored, at, reader, sent, adrift, breaks>>
attachOnly == <<progress, stage, asked, answer, strays, held, mishaps>>

ThroughContainers == shape # NoShape /\ ContainerNext /\ UNCHANGED <<uploadOnly, attachOnly>>

ThroughUpload == file # NoFile /\ UploadNext /\ UNCHANGED <<containerOnly, attachOnly>>

ThroughAttachments == draft # NoDraft /\ AttachNext /\ UNCHANGED <<containerOnly, uploadOnly>>

AdaptersNext == ThroughContainers \/ ThroughUpload \/ ThroughAttachments

AdaptersSpec ==
    /\ AdaptersInit /\ [][AdaptersNext]_<<cvars, uvars, avars>>
    /\ ContainerFairness /\ UploadFairness

-----------------------------------------------------------------------------
(* An adapter keeps what the client relies on: a failure that may be       *)
(* retried is never followed by a post of the failed submission, late as   *)
(* it may be, and a post is never made twice (publishTarget, getDelivery). *)
Truthful == SubmissionSpec

(* Whatever a post was made of is there: every byte of its video, once and *)
(* in order, and every photo, which is removed again only when no post can *)
(* appear any more (streamChunks, sendYouTubeUpload, publishPhotos).       *)
Whole == WholeFile /\ KeepsAttachments
=============================================================================
