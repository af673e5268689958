----------------------------- MODULE Submission -----------------------------
(***************************************************************************)
(* What the client relies on when an adapter submits one target            *)
(* (dispatchTarget, retryFailed): at most one post comes of a submission,  *)
(* "published" is said of a post that exists, and a failure is said only   *)
(* when there is no post and none can appear, because a failure may be     *)
(* retried with another submission.  Every other outcome promises nothing. *)
(***************************************************************************)
EXTENDS Naturals

VARIABLES
    posts,      \* posts that came of the submission
    said        \* the definite verdicts given: "published", "failed"

SubmissionInit == posts = 0 /\ said = {}

Appear == "failed" \notin said /\ posts = 0 /\ posts' = 1 /\ UNCHANGED said

SayPublished == posts = 1 /\ said' = said \cup {"published"} /\ UNCHANGED posts

SayFailed == posts = 0 /\ said' = said \cup {"failed"} /\ UNCHANGED posts

SubmissionNext == Appear \/ SayPublished \/ SayFailed

SubmissionSpec == SubmissionInit /\ [][SubmissionNext]_<<posts, said>>
=============================================================================
