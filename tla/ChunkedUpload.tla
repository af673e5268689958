--------------------------- MODULE ChunkedUpload ---------------------------
(***************************************************************************)
(* Publishing by uploading a video in chunks: transferTikTokVideo          *)
(* (platforms/tiktok-upload.ts) and sendYouTubeUpload                      *)
(* (platforms/youtube-upload.ts) with the resumption of a saved YouTube    *)
(* session.  A call reads its source, a stream that arrives in pieces of   *)
(* any size and may be shorter or longer than declared, and sends it chunk *)
(* by chunk; the platform makes the post when it has every byte.           *)
(*                                                                         *)
(* Only an upload that was left unresolved is resumed.  That is up to the  *)
(* caller: resumeUpload looks at the session's channel alone, and would    *)
(* also go on with a session whose upload was reported as failed.          *)
(***************************************************************************)
EXTENDS Naturals, Sequences, SequencesExt, Submission

CONSTANTS
    FirstUpload,    \* the upload by publishTarget
    Resumes,        \* the callers of resumeUpload
    Chunk,          \* the size of a chunk
    Files,          \* host, declared size and actual length
    Breaks          \* deaths, refusals and answers that are lost or partial

Uploads == {FirstUpload} \cup Resumes

ASSUME UploadsAssumption == FirstUpload \notin Resumes /\ Chunk \in Nat \ {0} /\ Breaks \in Nat

ASSUME FilesAssumption ==
    Files \subseteq [host : {"tiktok", "youtube"}, size : Nat \ {0}, length : Nat]

VARIABLES
    file,       \* what is uploaded and where
    stored,     \* the bytes the platform has; a byte is its place in the source
    at,         \* where an upload is
    reader,     \* its source and the chunk being filled
    sent,       \* the chunk it waits for
    adrift,     \* chunks on their way that nobody waits for
    breaks

uvars == <<file, stored, at, reader, sent, adrift, breaks, posts, said>>

TikTok == file.host = "tiktok"

(* start: the byte to begin with; offset: the first byte of the chunk;     *)
(* got, used: bytes the source gave, bytes taken from it; skipped: bytes   *)
(* passed over; written: bytes of the chunk.                               *)
Opened(start) ==
    [start |-> start, offset |-> start, got |-> 0, used |-> 0, skipped |-> 0, written |-> 0]

NoChunk == [offset |-> 0, bytes |-> <<>>, next |-> 0, answer |-> "none"]

Untouched ==
    /\ stored = <<>> /\ at = [c \in Uploads |-> "idle"]
    /\ reader = [c \in Uploads |-> Opened(0)] /\ sent = [c \in Uploads |-> NoChunk]
    /\ adrift = {} /\ breaks = Breaks

UploadInit == SubmissionInit /\ file \in Files /\ Untouched

Breaking == breaks > 0 /\ breaks' = breaks - 1

Moves(c, label) == at' = [at EXCEPT ![c] = label]

(* The ways an upload ends.  A resumption answers its caller only; an      *)
(* unresolved session may be resumed.                                      *)
Over(c) == IF c = FirstUpload THEN "over" ELSE "idle"

Closes(c) == reader' = [reader EXCEPT ![c] = Opened(0)]

Completed(c) == Moves(c, Over(c)) /\ Closes(c)

Fails(c) ==
    /\ Completed(c)
    /\ said' = IF c = FirstUpload THEN said \cup {"failed"} ELSE said

Unresolved(c) ==
    /\ Moves(c, IF c = FirstUpload THEN "unresolved" ELSE "idle")
    /\ Closes(c) /\ UNCHANGED said

-----------------------------------------------------------------------------
(* The plan of the chunks.                                                 *)

Lesser(a, b) == IF a < b THEN a ELSE b

(* planTikTokChunks: the last chunk takes what is left over.               *)
TikTokChunk == Lesser(file.size, Chunk)

TotalChunks == IF file.size <= Chunk THEN 1 ELSE file.size \div Chunk

Wanted(c) ==
    LET offset == reader[c].offset IN
        IF ~TikTok THEN Lesser(Chunk, file.size - offset)
        ELSE IF offset = (TotalChunks - 1) * TikTokChunk THEN file.size - offset
        ELSE TikTokChunk

Final(c) == reader[c].offset + Wanted(c) = file.size

-----------------------------------------------------------------------------
(* Reading the source.                                                     *)

Begin ==
    /\ at[FirstUpload] = "idle"
    /\ Moves(FirstUpload, "fill")
    /\ UNCHANGED <<file, stored, reader, sent, adrift, breaks, posts, said>>

(* Mutant: a resumption starts over.                                       *)
Confirmed_Nothing == 0

Confirmed == Len(stored)

(* resumeUpload asks the saved session what it has; its caller is assumed  *)
(* to resume only what was left unresolved.                                *)
Resume(c) ==
    /\ c \in Resumes /\ at[c] = "idle" /\ ~TikTok /\ at[FirstUpload] = "unresolved"
    /\ posts = 0
    /\ reader' = [reader EXCEPT ![c] = Opened(Confirmed)] /\ Moves(c, "fill")
    /\ UNCHANGED <<file, stored, sent, adrift, breaks, posts, said>>

(* The next piece of the source, or its end before the chunk is full.      *)
Refill(c) ==
    /\ at[c] = "fill" /\ reader[c].written < Wanted(c) /\ reader[c].used = reader[c].got
    /\ IF reader[c].got = file.length THEN Fails(c)
       ELSE /\ \E got \in reader[c].got + 1 .. file.length :
                  reader' = [reader EXCEPT ![c].got = got]
            /\ UNCHANGED <<at, said>>
    /\ UNCHANGED <<file, stored, sent, adrift, breaks, posts>>

(* Mutant: a piece that holds the last byte to skip is skipped whole.      *)
Skip_Pieces(r) ==
    [r EXCEPT !.skipped = @ + (r.got - r.used), !.used = r.got]

Skip(r) ==
    LET n == Lesser(r.start - r.skipped, r.got - r.used) IN
        [r EXCEPT !.skipped = @ + n, !.used = @ + n]

Take(r, wanted) ==
    LET n == Lesser(wanted - r.written, r.got - r.used) IN
        [r EXCEPT !.written = @ + n, !.used = @ + n]

(* Bytes before the start are skipped, the others fill the chunk.          *)
Consume(c) ==
    LET r == reader[c] IN
        /\ at[c] = "fill" /\ r.written < Wanted(c) /\ r.used < r.got
        /\ reader' = [reader EXCEPT ![c] =
              IF r.skipped < r.start THEN Skip(r) ELSE Take(r, Wanted(c))]
        /\ UNCHANGED <<file, stored, at, sent, adrift, breaks, posts, said>>

(* Mutant: the chunk that completes the upload is sent unchecked.          *)
Exceeds_Never(c) == FALSE

Exceeds(c) == reader[c].used < file.length

(* Before the chunk that completes the upload, the source must be at its   *)
(* end.                                                                    *)
Prove(c) ==
    /\ at[c] = "fill" /\ reader[c].written = Wanted(c)
    /\ IF Final(c) /\ Exceeds(c) THEN Fails(c) ELSE Moves(c, "put") /\ UNCHANGED <<reader, said>>
    /\ UNCHANGED <<file, stored, sent, adrift, breaks, posts>>

(* Cancelled or out of time before the chunk is sent: the last chunk of a  *)
(* TikTok upload was not, so it failed; at YouTube the session remains.    *)
Interrupted(c) ==
    /\ at[c] \in {"fill", "put"} /\ Breaking
    /\ IF TikTok THEN Fails(c) ELSE Unresolved(c)
    /\ UNCHANGED <<file, stored, sent, adrift, posts>>

-----------------------------------------------------------------------------
(* Sending a chunk.                                                        *)

Put(c) ==
    LET r == reader[c] IN
        /\ at[c] = "put" /\ Moves(c, "wait")
        /\ sent' = [sent EXCEPT ![c] =
              [offset |-> r.offset, next |-> 0, answer |-> "pending",
               bytes |-> [i \in 1 .. r.written |-> r.used - r.written + i]]]
        /\ UNCHANGED <<file, stored, reader, adrift, breaks, posts, said>>

Answered(c) == sent' = [sent EXCEPT ![c] = NoChunk]

(* The platform has the chunk and said so: the next one, or the upload is  *)
(* complete.  YouTube's answer to the last chunk is the video, published,  *)
(* scheduled or still being processed; one it could not process, which is  *)
(* reported as failed for good, is left out.  A chunk it has only part of  *)
(* ends the call.                                                          *)
Accepted(c) ==
    /\ at[c] = "wait" /\ sent[c].answer = "stored" /\ Answered(c)
    /\ LET offset == reader[c].offset + reader[c].written
           next == sent[c].next
       IN  IF next = file.size
           THEN /\ Completed(c)
                /\ \/ UNCHANGED said
                   \/ ~TikTok /\ c = FirstUpload /\ said' = said \cup {"published"}
           ELSE IF next = offset
           THEN /\ Moves(c, "fill") /\ UNCHANGED said
                /\ reader' = [reader EXCEPT ![c].offset = offset, ![c].written = 0]
           ELSE Unresolved(c)
    /\ UNCHANGED <<file, stored, adrift, breaks, posts>>

Rejected(c) ==
    /\ at[c] = "wait" /\ sent[c].answer = "rejected" /\ Answered(c)
    /\ Fails(c)
    /\ UNCHANGED <<file, stored, adrift, breaks, posts>>

(* Mutant: an interruption counts as a failure whatever was sent.          *)
FinalDispatched_Never(c) == FALSE

FinalDispatched(c) == Final(c)

Abandons(c) ==
    /\ Answered(c)
    /\ adrift' = IF sent[c].answer = "pending" THEN adrift \cup {sent[c]} ELSE adrift

(* No answer, or one that confirms nothing.                                *)
LostAnswer(c) ==
    /\ at[c] = "wait" /\ Breaking /\ Abandons(c)
    /\ IF TikTok /\ ~FinalDispatched(c) THEN Fails(c) ELSE Unresolved(c)
    /\ UNCHANGED <<file, stored, posts>>

(* The process dies; its saved session can be resumed.                     *)
Vanishes(c) ==
    /\ at[c] \in {"fill", "put", "wait"} /\ Breaking
    /\ Abandons(c) /\ Unresolved(c)
    /\ UNCHANGED <<file, stored, posts>>

-----------------------------------------------------------------------------
(* The platform appends what it does not have yet.  YouTube may keep only  *)
(* a part of a chunk.                                                      *)

Appended(chunk, n) == stored \o SubSeq(chunk.bytes, Len(stored) - chunk.offset + 1, n)

Stores(chunk) ==
    /\ chunk.offset <= Len(stored)
    /\ \E n \in 0 .. Len(chunk.bytes) :
          /\ n < Len(chunk.bytes) => ~TikTok /\ Breaking
          /\ n = Len(chunk.bytes) => UNCHANGED breaks
          /\ stored' = Appended(chunk, n)
    /\ posts' = IF Len(stored') = file.size THEN 1 ELSE posts

Receives(c) ==
    /\ sent[c].answer = "pending" /\ Stores(sent[c])
    /\ sent' = [sent EXCEPT ![c].answer = "stored", ![c].next = Len(stored')]
    /\ UNCHANGED <<file, at, reader, adrift, said>>

ReceivesLate(chunk) ==
    /\ chunk \in adrift /\ Stores(chunk) /\ adrift' = adrift \ {chunk}
    /\ UNCHANGED <<file, at, reader, sent, said>>

Rejects(c) ==
    /\ sent[c].answer = "pending" /\ Breaking
    /\ sent' = [sent EXCEPT ![c].answer = "rejected"]
    /\ UNCHANGED <<file, stored, at, reader, adrift, posts, said>>

Upload(c) ==
    \/ Refill(c) \/ Consume(c) \/ Prove(c) \/ Put(c) \/ Accepted(c) \/ Rejected(c)

UploadNext ==
    \/ Begin
    \/ \E c \in Uploads :
          \/ Resume(c) \/ Upload(c) \/ Interrupted(c) \/ LostAnswer(c) \/ Vanishes(c)
          \/ Receives(c) \/ Rejects(c)
    \/ \E chunk \in adrift : ReceivesLate(chunk)

UploadSpec == UploadInit /\ [][UploadNext]_uvars

(* Calls go on, requests reach the platform, and somebody resumes.         *)
UploadFairness ==
    /\ \A c \in Uploads : WF_uvars(Upload(c)) /\ WF_uvars(Receives(c))
    /\ \E c \in Resumes : WF_uvars(Resume(c))

-----------------------------------------------------------------------------
(* Properties                                                              *)

(* The platform makes a post only of the whole file: it got every byte     *)
(* once and in order, whatever pieces the source arrived in, whoever       *)
(* resumed the upload from where, and whatever was sent late; a source     *)
(* that is longer or shorter than declared never becomes a post            *)
(* (streamChunks, uploadRequest, sendYouTubeUpload).                       *)
WholeFile ==
    Len(stored) >= file.size =>
        file.length = file.size /\ stored = [i \in 1 .. file.size |-> i]

(* An upload to YouTube that was left unresolved becomes a post when it is *)
(* resumed until it does, however often the session is interrupted or      *)
(* keeps only part of a chunk (resumeUpload).                              *)
Completes ==
    ~TikTok /\ file.length = file.size /\ at[FirstUpload] = "unresolved" ~> posts = 1
=============================================================================
