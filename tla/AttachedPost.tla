---------------------------- MODULE AttachedPost ----------------------------
(***************************************************************************)
(* Publishing with one request that refers to what was prepared before:    *)
(* publishTarget of X, Bluesky and LinkedIn, and of Facebook's photos      *)
(* ("photos") and its chunked videos and reels ("video").  An attachment   *)
(* is a photo, a blob, a medium, the container or a chunk of a video, or a *)
(* medium that is only looked up.  Every request goes through createHttp,  *)
(* which repeats reads only and may not learn what became of a write.      *)
(***************************************************************************)
EXTENDS Naturals, Submission

CONSTANTS
    Drafts,     \* host and number of attachments
    Mishaps     \* refusals, errors, unreadable or missing answers, deaths

ASSUME DraftsAssumption ==
    Drafts \subseteq [host : {"x", "bluesky", "linkedin", "photos", "video"}, parts : Nat]

ASSUME MishapsAssumption == Mishaps \in Nat

VARIABLES
    draft,      \* what is published and where
    stage,      \* where the call is
    ready,      \* attachments the call knows to be ready
    tried,      \* photos it has tried to remove again
    verdict,    \* what it says once they are removed
    asked,      \* the request it waits for
    answer,     \* what came of that request
    strays,     \* requests on their way that nobody waits for
    held,       \* attachments the platform holds
    mishaps

progress == <<draft, ready, tried, verdict>>
avars == <<progress, stage, asked, answer, strays, held, mishaps, posts, said>>

Attach(n) == [what |-> "attach", part |-> n]
Create == [what |-> "create", part |-> 0]
Detach(n) == [what |-> "remove", part |-> n]

Answers == {"none", "confirmed", "unreadable", "refused", "error"}

Unsent ==
    /\ stage = "next" /\ ready = 0 /\ tried = 0 /\ verdict = {}
    /\ asked = Create /\ answer = "none" /\ strays = {} /\ held = {} /\ mishaps = Mishaps

AttachInit == SubmissionInit /\ draft \in Drafts /\ Unsent

Mishap == mishaps > 0 /\ mishaps' = mishaps - 1

-----------------------------------------------------------------------------
(* How the errors of a request end the call.                               *)

(* Mutant: an error of the server counts as a refusal.                     *)
Definite_ServerErrors(a) == a \in {"refused", "error"}

(* A write that was sent has failed only if it was refused.                *)
Definite(a) == a = "refused"

Ends(verdicts) ==
    /\ stage' = "over" /\ said' = said \cup verdicts
    /\ UNCHANGED <<ready, tried, verdict>>

ByCode(a) == IF Definite(a) THEN {"failed"} ELSE {}

(* Unpublished photos are removed again before the error is thrown.        *)
Discard(a) ==
    /\ stage' = "discard" /\ verdict' = ByCode(a)
    /\ UNCHANGED <<ready, tried, said>>

(* X uploads media, LinkedIn looks them up, Bluesky may do either.  No     *)
(* post was made, so that everything but a timeout has failed; an answer   *)
(* that cannot be read may also be thrown as it is.                        *)
UploadFails(a) ==
    /\ draft.host \in {"x", "linkedin", "bluesky"}
    /\ \/ Ends({"failed"})
       \/ a \in {"none", "unreadable"} /\ Ends({})

BlobFails(a) == draft.host = "bluesky" /\ Ends(ByCode(a))

(* A video that exists at Facebook is returned with its delivery.          *)
VideoFails(a) == draft.host = "video" /\ Ends(ByCode(a))

PhotoFails(a) == draft.host = "photos" /\ Discard(a)

AttachFails(a) == UploadFails(a) \/ BlobFails(a) \/ VideoFails(a) \/ PhotoFails(a)

(* Mutant: photos are removed whatever became of the post.                 *)
Discards_Always(a) == draft.host = "photos"

(* A post that may have been made needs its photos.                        *)
Discards(a) == draft.host = "photos" /\ Definite(a)

CreateFails(a) == IF Discards(a) THEN Discard(a) ELSE Ends(ByCode(a))

RemoveFails == stage' = "discard" /\ tried' = tried + 1 /\ UNCHANGED <<ready, verdict, said>>

Disappointed(r, a) ==
    \/ r.what = "attach" /\ AttachFails(a)
    \/ r.what = "create" /\ CreateFails(a)
    \/ r.what = "remove" /\ RemoveFails

-----------------------------------------------------------------------------
(* The call.                                                               *)

(* One attachment after the other, then the post; or the photos that have  *)
(* to go.                                                                  *)
Upcoming ==
    IF stage = "discard" THEN Detach(tried + 1)
    ELSE IF ready < draft.parts THEN Attach(ready + 1) ELSE Create

MoreToDo == stage = "next" \/ (stage = "discard" /\ tried < ready)

Ask ==
    /\ MoreToDo
    /\ stage' = "wait" /\ asked' = Upcoming /\ answer' = "none"
    /\ UNCHANGED <<progress, strays, held, mishaps, posts, said>>

(* Cancelled, or out of its budget, before the request is sent.            *)
NotSent ==
    /\ MoreToDo /\ Mishap
    /\ Disappointed(Upcoming, "none")
    /\ UNCHANGED <<draft, asked, answer, strays, held, posts>>

Granted ==
    /\ stage = "wait" /\ answer = "confirmed"
    /\ \/ /\ asked.what = "attach" /\ stage' = "next" /\ ready' = ready + 1
          /\ UNCHANGED <<tried, verdict, said>>
       \/ /\ asked.what = "create"
          /\ Ends(IF draft.host = "video" THEN {} ELSE {"published"})
       \/ asked.what = "remove" /\ RemoveFails
    /\ UNCHANGED <<draft, asked, answer, strays, held, mishaps, posts>>

Failing ==
    /\ stage = "wait" /\ answer \in {"unreadable", "refused", "error"}
    /\ Disappointed(asked, answer)
    /\ UNCHANGED <<draft, asked, answer, strays, held, mishaps, posts>>

Abandoned == strays' = IF answer = "none" THEN strays \cup {asked} ELSE strays

(* No answer in time, or the connection breaks.                            *)
Silence ==
    /\ stage = "wait" /\ Mishap /\ Abandoned
    /\ Disappointed(asked, "none")
    /\ UNCHANGED <<draft, asked, answer, held, posts>>

(* Mutant: writes are repeated as well.                                    *)
Safe_Always(r) == TRUE

(* LinkedIn's media are looked up; all other requests write.               *)
Safe(r) == r.what = "attach" /\ draft.host = "linkedin"

(* A read that failed, or whose connection broke, is asked again.          *)
AsksAgain ==
    /\ stage = "wait" /\ Safe(asked) /\ answer' = "none"
    /\ \/ answer \in {"refused", "error"} /\ UNCHANGED <<strays, mishaps>>
       \/ answer = "none" /\ Mishap /\ Abandoned
    /\ UNCHANGED <<progress, stage, asked, held, posts, said>>

(* The photos are gone, or listed in the error, which is thrown.           *)
Concludes ==
    /\ stage = "discard" /\ tried = ready
    /\ Ends(verdict)
    /\ UNCHANGED <<draft, asked, answer, strays, held, mishaps, posts>>

Perishes ==
    /\ stage # "over" /\ Mishap
    /\ stage' = "over"
    /\ IF stage = "wait" THEN Abandoned ELSE UNCHANGED strays
    /\ UNCHANGED <<progress, asked, answer, held, posts, said>>

-----------------------------------------------------------------------------
(* The platform.                                                           *)

Effect(r) ==
    /\ held' = CASE r.what = "attach" -> held \cup {r.part}
                 [] r.what = "remove" -> held \ {r.part}
                 [] r.what = "create" -> held
    /\ posts' = IF r.what = "create" THEN posts + 1 ELSE posts

Obeys ==
    /\ stage = "wait" /\ answer = "none" /\ Effect(asked)
    /\ \/ answer' = "confirmed" /\ UNCHANGED mishaps
       \/ answer' \in {"unreadable", "error"} /\ Mishap
    /\ UNCHANGED <<progress, stage, asked, strays, said>>

Denies ==
    /\ stage = "wait" /\ answer = "none" /\ Mishap
    /\ answer' \in {"refused", "error"}
    /\ UNCHANGED <<progress, stage, asked, strays, held, posts, said>>

ObeysLate(r) ==
    /\ r \in strays /\ strays' = strays \ {r} /\ Effect(r)
    /\ UNCHANGED <<progress, stage, asked, answer, mishaps, said>>

AttachNext ==
    \/ Ask \/ NotSent \/ Granted \/ Failing \/ Silence \/ AsksAgain \/ Concludes \/ Perishes
    \/ Obeys \/ Denies
    \/ \E r \in strays : ObeysLate(r)

AttachSpec == AttachInit /\ [][AttachNext]_avars

-----------------------------------------------------------------------------
(* Properties                                                              *)

(* A post that exists has its attachments: photos are removed again only   *)
(* when no post was made of them and none can appear, however late a       *)
(* request takes effect (publishPhotos).                                   *)
KeepsAttachments == posts > 0 => 1 .. draft.parts \subseteq held

=============================================================================
