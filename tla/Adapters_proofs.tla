-------------------------- MODULE Adapters_proofs --------------------------
(***************************************************************************)
(* Proofs about Adapters, for any shapes, files, drafts, callers and       *)
(* faults.  A submission takes one of three ways, and the invariant of     *)
(* that way holds while the others are not touched.  The first way's is in *)
(* ContainerWorkflow_proofs; the other two are here.                       *)
(***************************************************************************)
EXTENDS Adapters, ContainerWorkflow_proofs, SequenceTheorems

-----------------------------------------------------------------------------
(* The second way: a resumable upload (ChunkedUpload), for any file, chunk *)
(* size, number of resumptions and interruptions.  A chunk that is sent,   *)
(* or is on its way, holds the bytes of its place in the source, and it    *)
(* can reach the end of the file only if the source was found to end       *)
(* there; so whatever order the chunks arrive in, what the platform has is *)
(* the beginning of the source, and all of it when it is complete.  And    *)
(* until the first upload ends it knows how much the platform has.         *)


Labels == {"idle", "fill", "put", "wait", "unresolved", "over"}

Readers == [start : Nat, offset : Nat, got : Nat, used : Nat, skipped : Nat, written : Nat]

Chunks == [offset : Nat, bytes : Seq(Nat), next : Nat,
           answer : {"none", "pending", "stored", "rejected"}]

UploadTyped ==
    /\ file.size \in Nat \ {0} /\ file.length \in Nat
    /\ stored \in Seq(Nat) /\ at \in [Uploads -> Labels]
    /\ reader \in [Uploads -> Readers] /\ sent \in [Uploads -> Chunks]
    /\ adrift \subseteq Chunks /\ posts \in {0, 1} /\ said \subseteq {"published", "failed"}

(* Where a chunk ends.                                                     *)
End(chunk) == chunk.offset + Len(chunk.bytes)

(* A chunk of the file; the one that reaches its end proves its length.    *)
Genuine(chunk) ==
    /\ \A i \in 1 .. Len(chunk.bytes) : chunk.bytes[i] = chunk.offset + i
    /\ End(chunk) <= file.size
    /\ End(chunk) = file.size => file.length = file.size

(* The chunk being filled lies in the file, and begins where the plan says. *)
Planned(c) ==
    /\ reader[c].offset < file.size
    /\ TikTok => \E k \in 0 .. TotalChunks - 1 : reader[c].offset = k * TikTokChunk

(* Every byte that was taken from the source was skipped or is in a chunk. *)
Counted(r) ==
    /\ r.used <= r.got /\ r.got <= file.length /\ r.start <= r.offset
    /\ r.used = r.skipped + (r.offset - r.start) + r.written
    /\ r.skipped <= r.start /\ (r.written > 0 \/ r.offset > r.start => r.skipped = r.start)

Reading(c) ==
    /\ at[c] \notin {"fill", "put", "wait"} => reader[c] = Opened(0)
    /\ at[c] \in {"fill", "put", "wait"} =>
          Planned(c) /\ Counted(reader[c]) /\ reader[c].written <= Wanted(c)
    /\ at[c] \in {"put", "wait"} =>
          reader[c].written = Wanted(c) /\ (Final(c) => reader[c].used = file.length)

StoredInv ==
    /\ \A i \in 1 .. Len(stored) : stored[i] = i
    /\ Len(stored) <= file.size
    /\ posts = 1 <=> Len(stored) = file.size
    /\ posts = 1 => file.length = file.size

(* Chunks on their way, and the answers to them.                           *)
SentInv ==
    /\ \A c \in Uploads : /\ sent[c].answer = "pending" => Genuine(sent[c])
                          /\ sent[c].answer # "none" <=> at[c] = "wait"
                          /\ at[c] = "wait" => End(sent[c]) = reader[c].offset + reader[c].written
    /\ \A chunk \in adrift : Genuine(chunk)

(* While the first upload goes on, nobody else does, and it knows what the *)
(* platform has; when it is over, what is on its way completes nothing.    *)
Knows ==
    LET r == reader[FirstUpload]
        x == sent[FirstUpload]
    IN  /\ at[FirstUpload] # "unresolved" => \A c \in Resumes : at[c] = "idle"
        /\ at[FirstUpload] \in {"idle", "fill", "put", "wait"} => adrift = {}
        /\ at[FirstUpload] \in {"idle", "fill", "put"} => Len(stored) = r.offset
        /\ at[FirstUpload] = "wait" =>
              /\ x.answer \in {"pending", "rejected"} => Len(stored) = r.offset
              /\ x.answer = "stored" => Len(stored) = x.next /\ x.next <= r.offset + r.written
        /\ at[FirstUpload] = "over" => \A chunk \in adrift : End(chunk) < file.size

VerdictInv ==
    /\ "failed" \in said => at[FirstUpload] = "over" /\ posts = 0
    /\ "published" \in said => posts = 1

UploadInv ==
    UploadTyped /\ StoredInv /\ SentInv /\ Knows /\ VerdictInv /\ \A c \in Uploads : Reading(c)

-----------------------------------------------------------------------------
(* The plan of the chunks                                                  *)

LEMMA Times ==
    ASSUME NEW a \in Nat, NEW b \in Nat, NEW c \in Nat, a < b
    PROVE  a * c + c <= b * c
<1>1. (a + 1) * c <= b * c
  OBVIOUS
<1> QED
  BY <1>1

LEMMA Division ==
    ASSUME NEW n \in Nat, NEW d \in Nat \ {0}, n > d
    PROVE  n \div d \in Nat \ {0} /\ (n \div d) * d <= n
<1>1. n \div d \in Int /\ d * (n \div d) <= n /\ n < d * (n \div d) + d
  OBVIOUS
<1>2. n \div d > 0
  BY <1>1
<1> QED
  BY <1>1, <1>2

(* A chunk is not empty, stays in the file, and the next one begins where  *)
(* the plan says.                                                          *)
LEMMA PlanHolds ==
    ASSUME NEW c \in Uploads, UploadTyped, Planned(c)
    PROVE  /\ Wanted(c) \in Nat \ {0} /\ reader[c].offset + Wanted(c) <= file.size
           /\ TikTok /\ ~Final(c) =>
                 \E k \in 0 .. TotalChunks - 1 : reader[c].offset + Wanted(c) = k * TikTokChunk
<1> DEFINE o == reader[c].offset
<1>0. o \in Nat /\ o < file.size /\ file.size \in Nat \ {0} /\ Chunk \in Nat \ {0}
  BY UploadsAssumption DEF UploadTyped, Readers, Planned
<1>1. CASE ~TikTok
  BY <1>0, <1>1 DEF Wanted, Lesser
<1>2. CASE TikTok
  <2>1. PICK k \in 0 .. TotalChunks - 1 : o = k * TikTokChunk
    BY <1>2 DEF Planned
  <2>2. /\ TotalChunks \in Nat \ {0} /\ TikTokChunk \in Nat \ {0}
        /\ TotalChunks * TikTokChunk <= file.size
    <3>1. CASE file.size <= Chunk
      BY <1>0, <3>1 DEF TotalChunks, TikTokChunk, Lesser
    <3>2. CASE file.size > Chunk
      BY <1>0, <3>2, Division DEF TotalChunks, TikTokChunk, Lesser
    <3> QED
      BY <1>0, <3>1, <3>2
  <2> HIDE DEF o
  <2>3. CASE o = (TotalChunks - 1) * TikTokChunk
    <3>1. Wanted(c) = file.size - o
      BY <1>2, <2>3 DEF Wanted, o
    <3> QED
      BY <1>0, <3>1 DEF Final, o
  <2>4. CASE o # (TotalChunks - 1) * TikTokChunk
    <3>1. Wanted(c) = TikTokChunk
      BY <1>2, <2>4 DEF Wanted, o
    <3>2. k \in Nat /\ k + 1 \in 0 .. TotalChunks - 1
      BY <2>1, <2>2, <2>4
    <3>3. k * TikTokChunk + TikTokChunk <= TotalChunks * TikTokChunk
      BY <2>2, <3>2, Times
    <3>4. o + TikTokChunk = (k + 1) * TikTokChunk
      BY <2>1, <2>2, <3>2
    <3> QED
      BY <1>0, <2>1, <2>2, <3>1, <3>2, <3>3, <3>4 DEF o
  <2> QED
    BY <2>3, <2>4
<1> QED
  BY <1>1, <1>2

-----------------------------------------------------------------------------
(* The chunk of a call                                                     *)

(* A step of c, which leaves alone what the platform has.                  *)
Aside(c) ==
    /\ UNCHANGED <<file, stored, posts>>
    /\ \A d \in Uploads : d # c => at'[d] = at[d] /\ reader'[d] = reader[d] /\ sent'[d] = sent[d]
    /\ at' \in [Uploads -> Labels] /\ reader' \in [Uploads -> Readers]
    /\ sent' \in [Uploads -> Chunks] /\ said' \subseteq {"published", "failed"}
    /\ adrift' \subseteq adrift \cup {sent[c]}
    /\ sent[c] \in adrift' => sent[c] \in adrift \/ sent[c].answer = "pending"

Sending(c) ==
    /\ sent[c].answer = "pending" => Genuine(sent[c])
    /\ sent[c].answer # "none" <=> at[c] = "wait"
    /\ at[c] = "wait" => End(sent[c]) = reader[c].offset + reader[c].written

LEMMA AsideStep ==
    ASSUME UploadInv, NEW c \in Uploads, Aside(c), Reading(c)', Sending(c)', Knows', VerdictInv'
    PROVE  UploadInv'
<1> USE DEF UploadInv
<1>1. UploadTyped'
  <2>1. sent[c] \in Chunks
    BY DEF UploadTyped
  <2> QED
    BY <2>1 DEF UploadTyped, Aside
<1>2. StoredInv'
  BY DEF StoredInv, Aside
<1>3. \A d \in Uploads : Sending(d)'
  BY DEF SentInv, Sending, Genuine, End, Aside
<1>4. \A chunk \in adrift' : Genuine(chunk)'
  BY DEF SentInv, Genuine, End, Aside
<1>5. \A d \in Uploads : Reading(d)'
  BY DEF Reading, Planned, Counted, Wanted, Final, TikTok, TotalChunks, TikTokChunk, Aside
<1> QED
  BY <1>1, <1>2, <1>3, <1>4, <1>5 DEF SentInv, Sending

(* Who is not the first upload goes on only when that is unresolved.       *)
LEMMA ResumesWait ==
    ASSUME UploadInv, NEW c \in Uploads, c # FirstUpload, at[c] # "idle"
    PROVE  at[FirstUpload] = "unresolved" /\ FirstUpload \in Uploads
BY DEF UploadInv, Knows, Uploads

LEMMA UnresolvedKnows ==
    ASSUME UploadInv, NEW c \in Uploads, Aside(c), at'[FirstUpload] = "unresolved", said' = said,
           at[FirstUpload] # "over"
    PROVE  Knows' /\ VerdictInv'
BY DEF UploadInv, Knows, VerdictInv, Aside

LEMMA ReaderTyped ==
    ASSUME UploadTyped, NEW c \in Uploads
    PROVE  reader[c] \in Readers /\ sent[c] \in Chunks /\ at[c] \in Labels
BY DEF UploadTyped

LEMMA OpenedTyped == ASSUME NEW n \in Nat PROVE Opened(n) \in Readers
BY DEF Opened, Readers

(* A call that ends, with nothing on its way that is not written down.     *)
LEMMA EndStep ==
    ASSUME UploadInv, NEW c \in Uploads, at[c] \in {"fill", "put", "wait"},
           NEW label \in {"idle", "unresolved", "over"},
           at' = [at EXCEPT ![c] = label], Closes(c), sent'[c].answer = "none",
           sent' = sent \/ sent' = [sent EXCEPT ![c] = NoChunk],
           UNCHANGED <<file, stored, posts>>,
           said' \subseteq {"published", "failed"},
           adrift' = adrift \/ (sent[c].answer = "pending" /\ adrift' = adrift \cup {sent[c]}),
           Knows', VerdictInv'
    PROVE  UploadInv'
<1>1. /\ UploadTyped /\ reader[c] \in Readers /\ NoChunk \in Chunks /\ Opened(0) \in Readers
  <2>1. NoChunk \in Chunks
    BY EmptySeq DEF NoChunk, Chunks
  <2> QED
    BY <2>1, OpenedTyped, ReaderTyped DEF UploadInv
<1>2. Aside(c)
  BY <1>1 DEF Aside, UploadTyped, Closes, Labels
<1>3. at'[c] = label /\ reader'[c] = Opened(0)
  BY <1>1 DEF UploadTyped, Closes
<1>4. Reading(c)'
  BY <1>3 DEF Reading
<1>5. Sending(c)'
  BY <1>3 DEF Sending
<1> QED
  BY <1>2, <1>4, <1>5, AsideStep

LEMMA BeginStep == UploadInv /\ Begin => UploadInv'
<1> SUFFICES ASSUME UploadInv, Begin PROVE UploadInv'
  OBVIOUS
<1> DEFINE c == FirstUpload
<1>0. UploadTyped /\ c \in Uploads /\ at[c] = "idle" /\ at' = [at EXCEPT ![c] = "fill"]
  BY DEF UploadInv, Begin, Moves, Uploads
<1>1. UNCHANGED <<file, stored, reader, sent, adrift, posts, said>>
  BY DEF Begin
<1>2. Aside(c)
  BY <1>0, <1>1 DEF Aside, UploadTyped, Labels
<1>3. reader'[c] = Opened(0) /\ at'[c] = "fill" /\ file.size \in Nat \ {0} /\ file.length \in Nat
  BY <1>0, <1>1 DEF UploadInv, Reading, UploadTyped
<1>4. Planned(c)'
  <2>1. TikTok => 0 \in 0 .. TotalChunks - 1 /\ TikTokChunk \in Nat
    <3>1. CASE file.size <= Chunk
      BY <1>3, <3>1, UploadsAssumption DEF TotalChunks, TikTokChunk, Lesser
    <3>2. CASE file.size > Chunk
      BY <1>3, <3>2, UploadsAssumption, Division DEF TotalChunks, TikTokChunk, Lesser
    <3> QED
      BY <1>3, <3>1, <3>2, UploadsAssumption
  <2>2. TikTok => 0 = 0 * TikTokChunk
    BY <2>1
  <2> QED
    BY <1>1, <1>3, <2>1, <2>2 DEF Planned, Opened, TikTok, TotalChunks, TikTokChunk
<1>5. Wanted(c)' \in Nat
  BY <1>1, <1>3, UploadsAssumption DEF Wanted, Lesser, Opened, TikTok, TikTokChunk
<1>6. Reading(c)'
  BY <1>3, <1>1, <1>4, <1>5 DEF Reading, Counted, Opened
<1>7. Sending(c)'
  BY <1>0, <1>1, <1>3 DEF UploadInv, SentInv, Sending
<1>8. Knows'
  BY <1>0, <1>1, <1>2, <1>3, UploadsAssumption DEF UploadInv, Knows, Aside, Uploads, Opened
<1>9. VerdictInv'
  BY <1>0, <1>1 DEF UploadInv, VerdictInv
<1> QED
  BY <1>0, <1>2, <1>6, <1>7, <1>8, <1>9, AsideStep

LEMMA ResumeStep == ASSUME UploadInv, NEW c \in Uploads, Resume(c) PROVE UploadInv'
<1>0. /\ UploadTyped /\ at[c] = "idle" /\ at[FirstUpload] = "unresolved" /\ ~TikTok /\ posts = 0
      /\ c # FirstUpload /\ FirstUpload \in Uploads
      /\ at' = [at EXCEPT ![c] = "fill"]
      /\ reader' = [reader EXCEPT ![c] = Opened(Len(stored))]
  BY UploadsAssumption DEF UploadInv, Resume, Moves, Uploads, Confirmed
<1>1. UNCHANGED <<file, stored, sent, adrift, posts, said>>
  BY DEF Resume
<1>2. Len(stored) \in Nat /\ Len(stored) < file.size /\ file.size \in Nat /\ file.length \in Nat
  BY <1>0, LenProperties DEF UploadInv, UploadTyped, StoredInv
<1>3. Opened(Len(stored)) \in Readers
  BY <1>2, OpenedTyped
<1>4. Aside(c)
  BY <1>0, <1>1, <1>3 DEF Aside, UploadTyped, Labels
<1>5. reader'[c] = Opened(Len(stored)) /\ at'[c] = "fill" /\ at'[FirstUpload] = "unresolved"
  BY <1>0 DEF UploadTyped
<1>6. Planned(c)' /\ Wanted(c)' \in Nat
  BY <1>0, <1>1, <1>2, <1>5, UploadsAssumption DEF Planned, Opened, TikTok, Wanted, Lesser
<1>7. Reading(c)'
  BY <1>1, <1>2, <1>5, <1>6 DEF Reading, Counted, Opened
<1>8. Sending(c)'
  BY <1>0, <1>1, <1>5 DEF UploadInv, SentInv, Sending
<1>9. Knows' /\ VerdictInv'
  BY <1>0, <1>1, <1>4, <1>5, UnresolvedKnows
<1> QED
  BY <1>4, <1>7, <1>8, <1>9, AsideStep

(* Filling the chunk.                                                      *)
LEMMA FillStep ==
    ASSUME UploadInv, NEW c \in Uploads, at[c] = "fill", NEW r \in Readers,
           r.offset = reader[c].offset, Counted(r), r.written <= Wanted(c),
           reader' = [reader EXCEPT ![c] = r],
           UNCHANGED <<file, stored, at, sent, adrift, posts, said>>
    PROVE  UploadInv'
<1>0. UploadTyped /\ reader'[c] = r /\ at'[c] = "fill"
  BY DEF UploadInv, UploadTyped
<1>1. Aside(c)
  BY <1>0 DEF Aside, UploadTyped
<1>2. Planned(c)' /\ Wanted(c)' = Wanted(c)
  BY <1>0 DEF UploadInv, Reading, Planned, TikTok, TotalChunks, TikTokChunk, Wanted
<1>3. Counted(reader[c])'
  BY <1>0 DEF Counted
<1>4. Reading(c)'
  BY <1>0, <1>2, <1>3 DEF Reading
<1>5. Sending(c)'
  BY <1>0 DEF UploadInv, SentInv, Sending
<1>6. VerdictInv'
  BY DEF UploadInv, VerdictInv
<1>7. Knows'
  <2>1. CASE c = FirstUpload
    BY <1>0, <2>1 DEF UploadInv, Knows
  <2>2. CASE c # FirstUpload
    BY <1>1, <2>2, ResumesWait, UnresolvedKnows
  <2> QED
    BY <2>1, <2>2
<1> QED
  BY <1>1, <1>4, <1>5, <1>6, <1>7, AsideStep

(* A failure of c says so of the first upload only, which nothing completes. *)
LEMMA FailsStep ==
    ASSUME UploadInv, NEW c \in Uploads, at[c] \in {"fill", "put", "wait"}, Fails(c),
           sent'[c].answer = "none", sent' = sent \/ sent' = [sent EXCEPT ![c] = NoChunk],
           UNCHANGED <<file, stored, posts>>,
           adrift' = adrift \/ (sent[c].answer = "pending" /\ adrift' = adrift \cup {sent[c]}),
           c = FirstUpload =>
              Len(stored) < file.size /\ \A chunk \in adrift' : End(chunk) < file.size
    PROVE  UploadInv'
<1>0. /\ UploadTyped /\ at' = [at EXCEPT ![c] = Over(c)] /\ Closes(c)
      /\ said' = IF c = FirstUpload THEN said \cup {"failed"} ELSE said
  BY DEF UploadInv, Fails, Completed, Moves
<1>1. Over(c) \in {"idle", "over"} /\ said' \subseteq {"published", "failed"}
  BY <1>0 DEF Over, UploadTyped
<1>2. Knows' /\ VerdictInv'
  <2>1. CASE c = FirstUpload
    <3>1. at'[c] = "over" /\ \A d \in Resumes : at'[d] = at[d] /\ at[d] = "idle"
      BY <1>0, <2>1, UploadsAssumption DEF Over, UploadTyped, UploadInv, Knows
    <3>2. posts = 0
      BY <1>0, <2>1 DEF UploadInv, UploadTyped, StoredInv
    <3> QED
      BY <1>0, <2>1, <3>1, <3>2 DEF Knows, VerdictInv, UploadInv, End
  <2>2. CASE c # FirstUpload
    <3>1. at[FirstUpload] = "unresolved" /\ at'[FirstUpload] = "unresolved"
      BY <1>0, <2>2, ResumesWait DEF UploadTyped
    <3> QED
      BY <1>0, <2>2, <3>1 DEF UploadInv, Knows, VerdictInv
  <2> QED
    BY <2>1, <2>2
<1> QED
  BY <1>0, <1>1, <1>2, EndStep

LEMMA UnresolvedStep ==
    ASSUME UploadInv, NEW c \in Uploads, at[c] \in {"fill", "put", "wait"}, Unresolved(c),
           sent'[c].answer = "none", sent' = sent \/ sent' = [sent EXCEPT ![c] = NoChunk],
           UNCHANGED <<file, stored, posts>>,
           adrift' = adrift \/ (sent[c].answer = "pending" /\ adrift' = adrift \cup {sent[c]})
    PROVE  UploadInv'
<1> DEFINE label == IF c = FirstUpload THEN "unresolved" ELSE "idle"
<1>0. UploadTyped /\ at' = [at EXCEPT ![c] = label] /\ Closes(c) /\ said' = said
  BY DEF UploadInv, Unresolved, Moves
<1>1. at'[FirstUpload] = "unresolved" /\ at[FirstUpload] # "over"
  BY <1>0, ResumesWait DEF UploadTyped, Uploads
<1>2. Knows' /\ VerdictInv'
  BY <1>0, <1>1 DEF UploadInv, Knows, VerdictInv
<1>3. label \in {"idle", "unresolved", "over"} /\ said' \subseteq {"published", "failed"}
  BY <1>0 DEF UploadTyped
<1> HIDE DEF label
<1> QED
  BY <1>0, <1>2, <1>3, EndStep

LEMMA RefillStep == ASSUME UploadInv, NEW c \in Uploads, Refill(c) PROVE UploadInv'
<1>0. /\ UploadTyped /\ at[c] = "fill" /\ UNCHANGED <<file, stored, sent, adrift, posts>>
      /\ reader[c] \in Readers /\ Counted(reader[c]) /\ Planned(c)
      /\ reader[c].written <= Wanted(c) /\ file.length \in Nat
  BY ReaderTyped DEF Refill, UploadInv, Reading, UploadTyped
<1>1. CASE Fails(c)
  <2>1. sent[c].answer = "none"
    BY <1>0 DEF UploadInv, SentInv, UploadTyped, Chunks
  <2>2. c = FirstUpload => Len(stored) < file.size /\ adrift = {}
    BY <1>0 DEF UploadInv, Knows, Planned
  <2> QED
    BY <1>0, <1>1, <2>1, <2>2, FailsStep
<1>2. CASE /\ \E got \in reader[c].got + 1 .. file.length :
                reader' = [reader EXCEPT ![c].got = got]
           /\ UNCHANGED <<at, said>>
  <2>1. PICK got \in reader[c].got + 1 .. file.length :
          reader' = [reader EXCEPT ![c] = [reader[c] EXCEPT !.got = got]]
    BY <1>2
  <2> DEFINE r == [reader[c] EXCEPT !.got = got]
  <2>2. r \in Readers /\ r.offset = reader[c].offset /\ Counted(r) /\ r.written <= Wanted(c)
    BY <1>0 DEF Readers, Counted
  <2> HIDE DEF r
  <2>3. reader' = [reader EXCEPT ![c] = r]
    BY <2>1 DEF r
  <2> QED
    BY <1>0, <1>2, <2>2, <2>3, FillStep
<1> QED
  BY <1>1, <1>2 DEF Refill

LEMMA SkipCounts ==
    ASSUME file.length \in Nat, NEW o \in Readers, Counted(o), o.skipped < o.start, o.used < o.got
    PROVE  /\ Skip(o) \in Readers /\ Counted(Skip(o))
           /\ Skip(o).offset = o.offset /\ Skip(o).written = o.written
<1>1. PICK n \in Nat : /\ n = Lesser(o.start - o.skipped, o.got - o.used)
                       /\ n <= o.start - o.skipped /\ n <= o.got - o.used
  BY DEF Lesser, Readers
<1>2. Skip(o) = [o EXCEPT !.skipped = o.skipped + n, !.used = o.used + n]
  BY <1>1 DEF Skip
<1>3. Skip(o) = [start |-> o.start, offset |-> o.offset, got |-> o.got, used |-> o.used + n,
                 skipped |-> o.skipped + n, written |-> o.written]
  BY <1>2 DEF Readers
<1> QED
  BY <1>1, <1>3 DEF Readers, Counted

LEMMA TakeCounts ==
    ASSUME file.length \in Nat, NEW o \in Readers, Counted(o), o.skipped >= o.start,
           o.used < o.got, NEW wanted \in Nat, o.written < wanted
    PROVE  /\ Take(o, wanted) \in Readers /\ Counted(Take(o, wanted))
           /\ Take(o, wanted).offset = o.offset /\ Take(o, wanted).written <= wanted
<1>1. PICK n \in Nat : /\ n = Lesser(wanted - o.written, o.got - o.used)
                       /\ n <= wanted - o.written /\ n <= o.got - o.used
  BY DEF Lesser, Readers
<1>2. Take(o, wanted) = [o EXCEPT !.written = o.written + n, !.used = o.used + n]
  BY <1>1 DEF Take
<1>3. Take(o, wanted) = [start |-> o.start, offset |-> o.offset, got |-> o.got,
                         used |-> o.used + n, skipped |-> o.skipped, written |-> o.written + n]
  BY <1>2 DEF Readers
<1> QED
  BY <1>1, <1>3 DEF Readers, Counted

LEMMA ConsumeStep == ASSUME UploadInv, NEW c \in Uploads, Consume(c) PROVE UploadInv'
<1>0. /\ UploadTyped /\ at[c] = "fill" /\ reader[c].written < Wanted(c)
      /\ reader[c].used < reader[c].got
      /\ UNCHANGED <<file, stored, at, sent, adrift, posts, said>>
      /\ reader[c] \in Readers /\ Counted(reader[c]) /\ Planned(c)
  BY ReaderTyped DEF Consume, UploadInv, Reading
<1>1. Wanted(c) \in Nat /\ file.length \in Nat
  BY <1>0, PlanHolds DEF UploadTyped
<1>2. PICK o \in Readers : o = reader[c]
  BY <1>0
<1>3. CASE o.skipped < o.start
  <2>1. /\ Skip(o) \in Readers /\ Counted(Skip(o)) /\ Skip(o).offset = o.offset
        /\ Skip(o).written <= Wanted(c)
    BY <1>0, <1>1, <1>2, <1>3, SkipCounts DEF Readers
  <2>2. reader' = [reader EXCEPT ![c] = Skip(o)]
    BY <1>2, <1>3 DEF Consume
  <2> QED
    BY <1>0, <1>2, <2>1, <2>2, FillStep
<1>4. CASE o.skipped >= o.start
  <2>1. /\ Take(o, Wanted(c)) \in Readers /\ Counted(Take(o, Wanted(c)))
        /\ Take(o, Wanted(c)).offset = o.offset /\ Take(o, Wanted(c)).written <= Wanted(c)
    BY <1>0, <1>1, <1>2, <1>4, TakeCounts
  <2>2. reader' = [reader EXCEPT ![c] = Take(o, Wanted(c))]
    <3>1. ~(o.skipped < o.start)
      BY <1>4 DEF Readers
    <3> QED
      BY <1>2, <3>1 DEF Consume
  <2> QED
    BY <1>0, <1>2, <2>1, <2>2, FillStep
<1> QED
  BY <1>3, <1>4 DEF Readers

(* What is known of a call that fills or sends its chunk.                  *)
LEMMA Filling ==
    ASSUME UploadInv, NEW c \in Uploads, at[c] \in {"fill", "put", "wait"}
    PROVE  /\ UploadTyped /\ reader[c] \in Readers /\ sent[c] \in Chunks /\ c \in DOMAIN at
           /\ Planned(c) /\ Counted(reader[c]) /\ Wanted(c) \in Nat \ {0}
           /\ reader[c].written <= Wanted(c) /\ reader[c].offset + Wanted(c) <= file.size
           /\ at[c] # "wait" => sent[c].answer = "none"
           /\ c = FirstUpload => adrift = {} /\ \A d \in Resumes : at[d] = "idle"
           /\ c = FirstUpload /\ at[c] # "wait" => Len(stored) < file.size
<1>1. UploadTyped /\ reader[c] \in Readers /\ sent[c] \in Chunks /\ c \in DOMAIN at
  BY DEF UploadInv, UploadTyped
<1>2. Planned(c) /\ Counted(reader[c]) /\ reader[c].written <= Wanted(c)
  BY DEF UploadInv, Reading
<1>3. Wanted(c) \in Nat \ {0} /\ reader[c].offset + Wanted(c) <= file.size
  BY <1>1, <1>2, PlanHolds
<1>4. at[c] # "wait" => sent[c].answer = "none"
  BY <1>1 DEF UploadInv, SentInv, Chunks
<1>5. c = FirstUpload => adrift = {} /\ \A d \in Resumes : at[d] = "idle"
  BY DEF UploadInv, Knows
<1>6. c = FirstUpload /\ at[c] # "wait" => Len(stored) < file.size
  BY <1>2 DEF UploadInv, Knows, Planned
<1> QED
  BY <1>1, <1>2, <1>3, <1>4, <1>5, <1>6

LEMMA InterruptedStep == ASSUME UploadInv, NEW c \in Uploads, Interrupted(c) PROVE UploadInv'
<1>1. at[c] \in {"fill", "put", "wait"} /\ at[c] # "wait" /\ UNCHANGED <<file, stored, sent, adrift, posts>>
  BY DEF Interrupted
<1>2. /\ sent'[c].answer = "none"
      /\ c = FirstUpload => Len(stored) < file.size /\ \A chunk \in adrift' : End(chunk) < file.size
  BY <1>1, Filling
<1>3. Fails(c) \/ Unresolved(c)
  BY DEF Interrupted
<1> QED
  BY <1>1, <1>2, <1>3, FailsStep, UnresolvedStep

LEMMA ProveStep == ASSUME UploadInv, NEW c \in Uploads, Prove(c) PROVE UploadInv'
<1>0. at[c] = "fill" /\ UNCHANGED <<file, stored, sent, adrift, posts>> /\ reader[c].written = Wanted(c)
  BY DEF Prove
<1>1. CASE Fails(c)
  <2>1. sent'[c].answer = "none" /\ (c = FirstUpload => Len(stored) < file.size /\ adrift' = {})
    BY <1>0, Filling
  <2> QED
    BY <1>0, <1>1, <2>1, FailsStep
<1>2. CASE ~(Final(c) /\ Exceeds(c)) /\ Moves(c, "put") /\ UNCHANGED <<reader, said>>
  <2>0. UploadTyped /\ reader[c] \in Readers /\ Counted(reader[c]) /\ Planned(c)
    BY <1>0, Filling
  <2>1. at' = [at EXCEPT ![c] = "put"] /\ at'[c] = "put"
    BY <1>2, <2>0 DEF Moves, UploadTyped
  <2>2. Aside(c)
    BY <1>0, <1>2, <2>0, <2>1 DEF Aside, UploadTyped, Labels
  <2>3. Final(c) => reader[c].used = file.length
    BY <1>2, <2>0 DEF Exceeds, Counted, Readers, UploadTyped
  <2>4. Wanted(c)' = Wanted(c) /\ (Final(c)' <=> Final(c)) /\ Planned(c)' /\ Counted(reader[c])'
    BY <1>0, <1>2, <2>0 DEF Wanted, Final, TikTok, TotalChunks, TikTokChunk, Planned, Counted
  <2>5. Reading(c)'
    BY <1>0, <1>2, <2>1, <2>3, <2>4, Filling DEF Reading
  <2>6. Sending(c)'
    BY <1>0, <2>1, Filling DEF Sending
  <2>7. Knows' /\ VerdictInv'
    <3>1. CASE c = FirstUpload
      BY <1>0, <1>2, <2>1, <3>1, UploadsAssumption DEF UploadInv, Knows, VerdictInv, Moves
    <3>2. CASE c # FirstUpload
      <4>1. at[FirstUpload] = "unresolved" /\ at'[FirstUpload] = "unresolved"
        BY <1>0, <2>1, <3>2, ResumesWait
      <4> QED
        BY <1>2, <2>2, <4>1, UnresolvedKnows
    <3> QED
      BY <3>1, <3>2
  <2> QED
    BY <2>2, <2>5, <2>6, <2>7, AsideStep
<1> QED
  BY <1>1, <1>2 DEF Prove

LEMMA PutStep == ASSUME UploadInv, NEW c \in Uploads, Put(c) PROVE UploadInv'
<1>0. /\ at[c] = "put" /\ UNCHANGED <<file, stored, reader, adrift, posts, said>>
      /\ at' = [at EXCEPT ![c] = "wait"]
  BY DEF Put, Moves
<1> DEFINE o == reader[c]
           chunk == [offset |-> o.offset, next |-> 0, answer |-> "pending",
                     bytes |-> [i \in 1 .. o.written |-> o.used - o.written + i]]
<1>1. sent' = [sent EXCEPT ![c] = chunk]
  BY DEF Put
<1>2. /\ UploadTyped /\ o \in Readers /\ Planned(c) /\ Counted(o) /\ Wanted(c) \in Nat \ {0}
      /\ o.written = Wanted(c) /\ o.offset + Wanted(c) <= file.size
      /\ Final(c) => o.used = file.length
  BY <1>0, Filling DEF UploadInv, Reading
<1>3. o.used - o.written = o.offset /\ o.written \in Nat /\ o.offset \in Nat
  BY <1>2 DEF Counted, Readers
<1>4. /\ chunk.bytes \in Seq(Nat) /\ Len(chunk.bytes) = o.written
      /\ \A i \in 1 .. o.written : chunk.bytes[i] = o.offset + i
  BY <1>3
<1>5. chunk \in Chunks /\ chunk.offset = o.offset /\ chunk.answer = "pending"
  BY <1>3, <1>4 DEF Chunks
<1>6. o.offset + o.written = file.size => file.length = file.size
  <2>1. SUFFICES ASSUME o.offset + o.written = file.size PROVE file.length = file.size
    OBVIOUS
  <2>2. o.used = file.length
    BY <1>2, <2>1 DEF Final
  <2>3. o.used \in Nat
    BY <1>2 DEF Readers
  <2> QED
    BY <1>3, <2>1, <2>2, <2>3
<1> HIDE DEF chunk
<1>7. sent'[c] = chunk /\ at'[c] = "wait" /\ reader'[c] = o
  BY <1>0, <1>1, <1>2 DEF UploadTyped
<1>8. Aside(c)
  <2>1. \A d \in Uploads : d # c => at'[d] = at[d] /\ reader'[d] = reader[d] /\ sent'[d] = sent[d]
    BY <1>0, <1>1, <1>2 DEF UploadTyped
  <2>2. at' \in [Uploads -> Labels] /\ sent' \in [Uploads -> Chunks]
    BY <1>0, <1>1, <1>2, <1>5 DEF UploadTyped, Labels
  <2> QED
    BY <1>0, <1>2, <2>1, <2>2 DEF Aside, UploadTyped
<1>9. Sending(c)'
  BY <1>0, <1>2, <1>4, <1>5, <1>6, <1>7 DEF Sending, Genuine, End
<1>10. Reading(c)'
  <2>1. Wanted(c)' = Wanted(c) /\ (Final(c)' <=> Final(c)) /\ Planned(c)' /\ Counted(reader[c])'
    BY <1>0, <1>2 DEF Wanted, Final, TikTok, TotalChunks, TikTokChunk, Planned, Counted
  <2> QED
    BY <1>0, <1>2, <1>3, <1>7, <2>1 DEF Reading
<1>11. Knows' /\ VerdictInv'
  <2>1. CASE c = FirstUpload
    BY <1>0, <1>5, <1>7, <2>1, UploadsAssumption DEF UploadInv, Knows, VerdictInv
  <2>2. CASE c # FirstUpload
    <3>1. at[FirstUpload] = "unresolved" /\ at'[FirstUpload] = "unresolved"
      BY <1>0, <2>2, ResumesWait
    <3> QED
      BY <1>0, <1>8, <3>1, UnresolvedKnows
  <2> QED
    BY <2>1, <2>2
<1> QED
  BY <1>8, <1>9, <1>10, <1>11, AsideStep

-----------------------------------------------------------------------------
(* Answers                                                                 *)

LEMMA RejectedStep == ASSUME UploadInv, NEW c \in Uploads, Rejected(c) PROVE UploadInv'
<1>1. /\ at[c] = "wait" /\ sent[c].answer = "rejected" /\ Fails(c)
      /\ sent' = [sent EXCEPT ![c] = NoChunk] /\ UNCHANGED <<file, stored, adrift, posts>>
  BY DEF Rejected, Answered
<1>2. UploadTyped /\ sent'[c].answer = "none"
  BY <1>1 DEF UploadInv, UploadTyped, NoChunk
<1>3. c = FirstUpload => Len(stored) < file.size /\ \A chunk \in adrift' : End(chunk) < file.size
  <2>1. SUFFICES ASSUME c = FirstUpload PROVE Len(stored) < file.size /\ adrift' = {}
    OBVIOUS
  <2>2. Len(stored) = reader[c].offset
    BY <1>1, <2>1 DEF UploadInv, Knows
  <2> QED
    BY <1>1, <2>1, <2>2, Filling DEF Planned
<1> QED
  BY <1>1, <1>2, <1>3, FailsStep

LEMMA LostAnswerStep == ASSUME UploadInv, NEW c \in Uploads, LostAnswer(c) PROVE UploadInv'
<1>1. /\ at[c] = "wait" /\ sent' = [sent EXCEPT ![c] = NoChunk] /\ UNCHANGED <<file, stored, posts>>
      /\ adrift' = adrift \/ (sent[c].answer = "pending" /\ adrift' = adrift \cup {sent[c]})
  BY DEF LostAnswer, Abandons, Answered
<1>2. UploadTyped /\ sent'[c].answer = "none"
  BY <1>1 DEF UploadInv, UploadTyped, NoChunk
<1>3. CASE Unresolved(c)
  BY <1>1, <1>2, <1>3, UnresolvedStep
<1>4. CASE ~Final(c) /\ Fails(c)
  <2>1. c = FirstUpload => Len(stored) < file.size /\ \A chunk \in adrift' : End(chunk) < file.size
    <3>1. SUFFICES ASSUME c = FirstUpload
                   PROVE  Len(stored) < file.size /\ \A chunk \in adrift' : End(chunk) < file.size
      OBVIOUS
    <3>2. reader[c].written = Wanted(c) /\ End(sent[c]) = reader[c].offset + reader[c].written
      BY <1>1 DEF UploadInv, Reading, SentInv
    <3>3. /\ reader[c].offset + reader[c].written < file.size /\ reader[c].offset < file.size
          /\ reader[c].offset \in Nat /\ reader[c].written \in Nat /\ file.size \in Nat
      <4>1. /\ UploadTyped /\ reader[c] \in Readers /\ Planned(c)
            /\ Wanted(c) \in Nat \ {0} /\ reader[c].offset + Wanted(c) <= file.size
        BY <1>1, Filling
      <4>2. reader[c].offset \in Nat /\ reader[c].written \in Nat /\ file.size \in Nat
        BY <4>1 DEF Readers, UploadTyped
      <4>3. reader[c].offset < file.size
        BY <4>1 DEF Planned
      <4> QED
        BY <1>4, <3>2, <4>1, <4>2, <4>3 DEF Final
    <3>4. adrift = {}
      BY <1>1, <3>1, Filling
    <3>5. Len(stored) < file.size
      <4>1. sent[c].answer \in {"pending", "rejected", "stored"} /\ sent[c].next \in Nat
        BY <1>1, <1>2 DEF UploadInv, SentInv, UploadTyped, Chunks
      <4>2. \/ Len(stored) = reader[c].offset
            \/ Len(stored) = sent[c].next /\ sent[c].next <= reader[c].offset + reader[c].written
        BY <1>1, <3>1, <4>1 DEF UploadInv, Knows
      <4> QED
        BY <3>3, <4>1, <4>2
    <3> QED
      BY <1>1, <3>2, <3>3, <3>4, <3>5
  <2> QED
    BY <1>1, <1>2, <1>4, <2>1, FailsStep
<1> QED
  BY <1>3, <1>4 DEF LostAnswer, FinalDispatched

LEMMA VanishesStep == ASSUME UploadInv, NEW c \in Uploads, Vanishes(c) PROVE UploadInv'
<1>1. /\ at[c] \in {"fill", "put", "wait"} /\ Unresolved(c)
      /\ sent' = [sent EXCEPT ![c] = NoChunk] /\ UNCHANGED <<file, stored, posts>>
      /\ adrift' = adrift \/ (sent[c].answer = "pending" /\ adrift' = adrift \cup {sent[c]})
  BY DEF Vanishes, Abandons, Answered
<1>2. sent'[c].answer = "none"
  BY <1>1 DEF UploadInv, UploadTyped, NoChunk
<1> QED
  BY <1>1, <1>2, UnresolvedStep

LEMMA AcceptedStep == ASSUME UploadInv, NEW c \in Uploads, Accepted(c) PROVE UploadInv'
<1> DEFINE o == reader[c]
           next == sent[c].next
<1>0. /\ at[c] = "wait" /\ sent[c].answer = "stored" /\ sent' = [sent EXCEPT ![c] = NoChunk]
      /\ UNCHANGED <<file, stored, adrift, posts>>
  BY DEF Accepted, Answered
<1>1. /\ UploadTyped /\ sent'[c] = NoChunk /\ sent'[c].answer = "none"
      /\ o \in Readers /\ Counted(o) /\ Planned(c) /\ Wanted(c) \in Nat \ {0}
      /\ o.offset + Wanted(c) <= file.size /\ o.written = Wanted(c)
      /\ NoChunk \in Chunks
  <2>1. NoChunk \in Chunks
    BY EmptySeq DEF NoChunk, Chunks
  <2> QED
    BY <1>0, <2>1, Filling DEF UploadInv, UploadTyped, NoChunk, Reading
<1>2. CASE next = file.size
  <2>1. /\ at' = [at EXCEPT ![c] = Over(c)] /\ Closes(c)
        /\ said' = said \/ (c = FirstUpload /\ said' = said \cup {"published"})
    BY <1>2 DEF Accepted, Completed, Moves
  <2>2. Over(c) \in {"idle", "over"} /\ said' \subseteq {"published", "failed"}
    BY <1>1, <2>1 DEF Over, UploadTyped
  <2>3. CASE c = FirstUpload
    <3>1. posts = 1 /\ adrift = {} /\ \A d \in Resumes : at[d] = "idle" /\ d # c
      BY <1>0, <1>2, <2>3, Filling, UploadsAssumption DEF UploadInv, Knows, StoredInv
    <3>2. at'[c] = "over" /\ \A d \in Resumes : at'[d] = "idle"
      BY <1>1, <2>1, <2>3, <3>1 DEF Over, UploadTyped
    <3>3. Knows' /\ VerdictInv'
      BY <1>0, <2>1, <2>3, <3>1, <3>2 DEF Knows, VerdictInv, UploadInv
    <3> QED
      BY <1>0, <1>1, <2>1, <2>2, <3>3, EndStep
  <2>4. CASE c # FirstUpload
    <3>1. at[FirstUpload] = "unresolved" /\ at'[FirstUpload] = "unresolved"
      BY <1>0, <1>1, <2>1, <2>4, ResumesWait DEF UploadTyped
    <3>2. Knows' /\ VerdictInv'
      BY <1>0, <2>1, <2>4, <3>1 DEF UploadInv, Knows, VerdictInv
    <3> QED
      BY <1>0, <1>1, <2>1, <2>2, <3>2, EndStep
  <2> QED
    BY <2>3, <2>4
<1>3. CASE next # file.size /\ next = o.offset + o.written
  <2> DEFINE r == [o EXCEPT !.offset = next, !.written = 0]
  <2>1. at' = [at EXCEPT ![c] = "fill"] /\ UNCHANGED said /\ reader' = [reader EXCEPT ![c] = r]
    BY <1>3 DEF Accepted, Moves
  <2>2. r \in Readers /\ r.offset = next /\ r.written = 0 /\ next \in Nat /\ next < file.size
    <3>1. PICK q \in Readers : q = o
      BY <1>1
    <3>2. next = q.offset + q.written /\ q.offset + q.written <= file.size /\ file.size \in Nat
      BY <1>1, <1>3, <3>1 DEF UploadTyped
    <3>3. next \in Nat /\ next < file.size
      BY <1>3, <3>2 DEF Readers
    <3>4. r = [q EXCEPT !.offset = next, !.written = 0]
      BY <3>1
    <3> QED
      BY <3>3, <3>4 DEF Readers
  <2>3. Counted(r)
    BY <1>1, <1>3 DEF Counted, Readers
  <2>4. at'[c] = "fill" /\ reader'[c] = r
    BY <1>1, <2>1 DEF UploadTyped
  <2>5. Aside(c)
    BY <1>0, <1>1, <2>1, <2>2 DEF Aside, UploadTyped, Labels
  <2>6. TikTok => \E k \in 0 .. TotalChunks - 1 : next = k * TikTokChunk
    <3>1. ~Final(c)
      BY <1>1, <1>3 DEF Final
    <3> QED
      BY <1>1, <1>3, <3>1, PlanHolds
  <2> HIDE DEF r
  <2>7. Planned(c)'
    BY <1>0, <2>2, <2>4, <2>6 DEF Planned, TikTok, TotalChunks, TikTokChunk
  <2>8. Counted(reader[c])' /\ Wanted(c)' \in Nat
    <3>1. Counted(reader[c])'
      BY <1>0, <2>3, <2>4 DEF Counted
    <3>2. TikTok => TikTokChunk \in Nat
      BY <1>1, UploadsAssumption DEF TikTokChunk, Lesser, UploadTyped
    <3>3. Wanted(c)' \in Nat
      BY <1>0, <1>1, <2>2, <2>4, <3>2, UploadsAssumption
         DEF Wanted, Lesser, UploadTyped, TikTok, TotalChunks, TikTokChunk
    <3> QED
      BY <3>1, <3>3
  <2>9. Reading(c)' /\ Sending(c)'
    BY <1>1, <2>2, <2>4, <2>7, <2>8 DEF Reading, Sending
  <2>10. Knows' /\ VerdictInv'
    <3>1. CASE c = FirstUpload
      BY <1>0, <1>3, <2>1, <2>2, <2>4, <2>5, <3>1, UploadsAssumption
         DEF UploadInv, Knows, VerdictInv, Aside, Uploads
    <3>2. CASE c # FirstUpload
      <4>1. at[FirstUpload] = "unresolved" /\ at'[FirstUpload] = "unresolved"
        BY <1>0, <2>1, <3>2, ResumesWait
      <4> QED
        BY <2>1, <2>5, <4>1, UnresolvedKnows
    <3> QED
      BY <3>1, <3>2
  <2> QED
    BY <2>5, <2>9, <2>10, AsideStep
<1>4. CASE next # file.size /\ next # o.offset + o.written
  <2>1. Unresolved(c)
    BY <1>4 DEF Accepted
  <2> QED
    BY <1>0, <1>1, <2>1, UnresolvedStep
<1> QED
  BY <1>2, <1>3, <1>4

-----------------------------------------------------------------------------
(* The platform                                                            *)

(* A chunk of the file leaves the platform with the beginning of it.       *)
LEMMA StoresMoves ==
    ASSUME UploadInv, NEW chunk \in Chunks, Genuine(chunk), Stores(chunk)
    PROVE  /\ stored' \in Seq(Nat) /\ \A i \in 1 .. Len(stored') : stored'[i] = i
           /\ Len(stored) <= Len(stored')
           /\ Len(stored') <= End(chunk) \/ Len(stored') = Len(stored)
           /\ posts' = IF Len(stored') = file.size THEN 1 ELSE posts
<1>0. /\ stored \in Seq(Nat) /\ chunk.bytes \in Seq(Nat)
      /\ \A i \in 1 .. Len(stored) : stored[i] = i
      /\ \A i \in 1 .. Len(chunk.bytes) : chunk.bytes[i] = chunk.offset + i
  BY DEF UploadInv, UploadTyped, StoredInv, Chunks, Genuine
<1>1. PICK has \in Nat, o \in Nat, b \in Nat :
        has = Len(stored) /\ o = chunk.offset /\ b = Len(chunk.bytes) /\ o <= has
  BY <1>0, LenProperties DEF Chunks, Stores
<1>2. PICK n \in 0 .. b : stored' = stored \o SubSeq(chunk.bytes, has - o + 1, n)
  BY <1>1 DEF Stores, Appended
<1>3. PICK m \in Nat \ {0} : m = has - o + 1
  BY <1>1
<1> DEFINE new == SubSeq(chunk.bytes, m, n)
<1>4. \A i \in m .. n : chunk.bytes[i] \in Nat
  <2>1. \A i \in 1 .. b : chunk.bytes[i] = o + i
    BY <1>0, <1>1
  <2> QED
    BY <2>1
<1>5. /\ new \in Seq(Nat) /\ Len(new) = (IF m <= n THEN n - m + 1 ELSE 0)
      /\ \A i \in 1 .. n - m + 1 : new[i] = chunk.bytes[m + i - 1]
  BY <1>4, SubSeqProperties
<1> HIDE DEF new
<1>6. PICK more \in Nat : more = Len(new)
  BY <1>5
<1>7. stored' = stored \o new
  BY <1>2, <1>3 DEF new
<1>8. /\ stored' \in Seq(Nat) /\ Len(stored') = has + more
      /\ \A i \in 1 .. has + more : stored'[i] = IF i <= has THEN stored[i] ELSE new[i - has]
  BY <1>0, <1>1, <1>5, <1>6, <1>7, ConcatProperties
<1>9. \A i \in 1 .. has + more : stored'[i] = i
  <2>1. SUFFICES ASSUME NEW i \in 1 .. has + more PROVE stored'[i] = i
    OBVIOUS
  <2>2. CASE i <= has
    <3>1. stored[i] = i
      BY <1>0, <1>1, <2>2
    <3> QED
      BY <1>8, <2>2, <3>1
  <2>3. CASE i > has
    <3>1. PICK k \in 1 .. more : i = has + k
      <4>1. i - has \in 1 .. more /\ i = has + (i - has)
        BY <2>3
      <4> QED
        BY <4>1
    <3>2. k \in 1 .. n - m + 1 /\ m + k - 1 \in 1 .. b
      BY <1>5, <1>6
    <3>3. new[k] = chunk.bytes[m + k - 1]
      BY <1>5, <3>2
    <3>4. chunk.bytes[m + k - 1] = o + (m + k - 1)
      BY <1>0, <1>1, <3>2
    <3>5. stored'[i] = new[k]
      BY <1>8, <2>3, <3>1
    <3>6. o + (m + k - 1) = i
      BY <1>3, <3>1
    <3> QED
      BY <3>3, <3>4, <3>5, <3>6
  <2> QED
    BY <2>2, <2>3
<1>10. has + more <= o + b \/ more = 0
  BY <1>3, <1>5, <1>6
<1>11. posts' = IF Len(stored') = file.size THEN 1 ELSE posts
  BY DEF Stores
<1>12. has <= has + more /\ (more = 0 => has + more = has)
  OBVIOUS
<1> QED
  BY <1>1, <1>8, <1>9, <1>10, <1>11, <1>12 DEF End

(* What the platform has is still right afterwards.                        *)
LEMMA StoresKeeps ==
    ASSUME UploadInv, NEW chunk \in Chunks, Genuine(chunk), Stores(chunk), UNCHANGED file
    PROVE  /\ StoredInv' /\ stored' \in Seq(Nat) /\ posts' \in {0, 1} /\ posts <= posts'
           /\ Len(stored') <= End(chunk) \/ posts' = posts
<1>1. /\ file.size \in Nat \ {0} /\ Len(stored) \in Nat /\ Len(stored) <= file.size
      /\ (posts = 1 <=> Len(stored) = file.size) /\ posts \in {0, 1}
      /\ posts = 1 => file.length = file.size
      /\ End(chunk) \in Nat /\ End(chunk) <= file.size
      /\ End(chunk) = file.size => file.length = file.size
  BY LenProperties DEF UploadInv, UploadTyped, StoredInv, Genuine, End, Chunks
<1>2. /\ stored' \in Seq(Nat) /\ \A i \in 1 .. Len(stored') : stored'[i] = i
      /\ Len(stored) <= Len(stored') /\ Len(stored') \in Nat
      /\ Len(stored') <= End(chunk) \/ Len(stored') = Len(stored)
      /\ posts' = IF Len(stored') = file.size THEN 1 ELSE posts
  BY StoresMoves, LenProperties
<1>3. Len(stored') <= file.size /\ (posts' = 1 <=> Len(stored') = file.size)
  BY <1>1, <1>2
<1>4. posts' = 1 => file.length = file.size
  BY <1>1, <1>2
<1> QED
  BY <1>1, <1>2, <1>3, <1>4 DEF StoredInv

LEMMA ReceivesStep == ASSUME UploadInv, NEW c \in Uploads, Receives(c) PROVE UploadInv'
<1>0. /\ UploadTyped /\ sent[c] \in Chunks /\ sent[c].answer = "pending" /\ Stores(sent[c])
      /\ UNCHANGED <<file, at, reader, adrift, said>>
  BY DEF UploadInv, UploadTyped, Receives
<1>1. Genuine(sent[c]) /\ at[c] = "wait" /\ End(sent[c]) = reader[c].offset + reader[c].written
  BY <1>0 DEF UploadInv, SentInv
<1>2. /\ StoredInv' /\ stored' \in Seq(Nat) /\ posts' \in {0, 1} /\ posts <= posts'
      /\ Len(stored') <= End(sent[c]) \/ posts' = posts
  BY <1>0, <1>1, StoresKeeps
<1> DEFINE chunk == [sent[c] EXCEPT !.answer = "stored", !.next = Len(stored')]
<1>3. sent' = [sent EXCEPT ![c] = chunk]
  BY DEF Receives
<1>4. /\ Len(stored') \in Nat /\ chunk \in Chunks /\ chunk.answer = "stored"
      /\ chunk.next = Len(stored') /\ chunk.offset = sent[c].offset /\ chunk.bytes = sent[c].bytes
  BY <1>0, <1>2, LenProperties DEF Chunks
<1> HIDE DEF chunk
<1>5. sent'[c] = chunk /\ \A d \in Uploads : d # c => sent'[d] = sent[d]
  BY <1>0, <1>3 DEF UploadTyped
<1>6. UploadTyped'
  BY <1>0, <1>2, <1>3, <1>4 DEF UploadTyped
<1>7. SentInv'
  BY <1>0, <1>1, <1>4, <1>5 DEF UploadInv, SentInv, Genuine, End
<1>8. \A d \in Uploads : Reading(d)'
  BY <1>0 DEF UploadInv, Reading, Planned, Counted, Wanted, Final, TikTok, TotalChunks, TikTokChunk
<1>9. Knows' /\ VerdictInv'
  <2>1. CASE c = FirstUpload
    <3>1. /\ Len(stored) = reader[c].offset /\ reader[c].offset <= reader[c].offset + reader[c].written
          /\ adrift = {} /\ \A d \in Resumes : at[d] = "idle"
      <4>1. reader[c].offset \in Nat /\ reader[c].written \in Nat
        BY <1>1, Filling DEF Readers
      <4> QED
        BY <1>0, <1>1, <2>1, <4>1 DEF UploadInv, Knows
    <3>2. Len(stored') <= reader[c].offset + reader[c].written
      BY <1>0, <1>1, <3>1, StoresMoves
    <3>3. Knows'
      BY <1>0, <1>1, <1>4, <1>5, <2>1, <3>1, <3>2 DEF Knows
    <3>4. VerdictInv'
      BY <1>0, <1>1, <1>2, <2>1 DEF UploadInv, VerdictInv
    <3> QED
      BY <3>3, <3>4
  <2>2. CASE c # FirstUpload
    <3>1. at[FirstUpload] = "unresolved"
      BY <1>1, <2>2, ResumesWait
    <3> QED
      BY <1>0, <1>2, <3>1 DEF UploadInv, Knows, VerdictInv
  <2> QED
    BY <2>1, <2>2
<1> QED
  BY <1>2, <1>6, <1>7, <1>8, <1>9 DEF UploadInv

LEMMA ReceivesLateStep ==
    ASSUME UploadInv, NEW chunk \in adrift, ReceivesLate(chunk) PROVE UploadInv'
<1>0. /\ UploadTyped /\ chunk \in Chunks /\ Genuine(chunk) /\ Stores(chunk)
      /\ UNCHANGED <<file, at, reader, sent, said>> /\ adrift' = adrift \ {chunk}
  BY DEF UploadInv, UploadTyped, SentInv, ReceivesLate
<1>1. /\ StoredInv' /\ stored' \in Seq(Nat) /\ posts' \in {0, 1} /\ posts <= posts'
      /\ Len(stored') <= End(chunk) \/ posts' = posts
  BY <1>0, StoresKeeps
<1>2. UploadTyped' /\ SentInv'
  BY <1>0, <1>1 DEF UploadInv, UploadTyped, SentInv, Genuine, End
<1>3. \A d \in Uploads : Reading(d)'
  BY <1>0 DEF UploadInv, Reading, Planned, Counted, Wanted, Final, TikTok, TotalChunks, TikTokChunk
<1>4. at[FirstUpload] \in {"over", "unresolved"}
  BY <1>0 DEF UploadInv, Knows, UploadTyped, Labels, Uploads
<1>5. Knows'
  BY <1>0, <1>4 DEF UploadInv, Knows, End
<1>6. VerdictInv'
  <2>1. at[FirstUpload] = "over" => Len(stored') < file.size \/ posts' = posts
    BY <1>0, <1>1, LenProperties DEF UploadInv, Knows, UploadTyped, End, Chunks
  <2>2. posts = 0 /\ Len(stored') < file.size => posts' = 0
    BY <1>0 DEF Stores
  <2> QED
    BY <1>0, <1>1, <2>1, <2>2 DEF UploadInv, VerdictInv, UploadTyped
<1> QED
  BY <1>1, <1>2, <1>3, <1>5, <1>6 DEF UploadInv

LEMMA RejectsStep == ASSUME UploadInv, NEW c \in Uploads, Rejects(c) PROVE UploadInv'
<1>0. /\ UploadTyped /\ sent[c] \in Chunks /\ sent[c].answer = "pending"
      /\ UNCHANGED <<file, stored, at, reader, adrift, posts, said>>
  BY DEF UploadInv, UploadTyped, Rejects
<1> DEFINE chunk == [sent[c] EXCEPT !.answer = "rejected"]
<1>1. sent' = [sent EXCEPT ![c] = chunk]
  BY DEF Rejects
<1>2. /\ chunk \in Chunks /\ chunk.answer = "rejected"
      /\ chunk.offset = sent[c].offset /\ chunk.bytes = sent[c].bytes
  BY <1>0 DEF Chunks
<1> HIDE DEF chunk
<1>3. sent'[c] = chunk /\ \A d \in Uploads : d # c => sent'[d] = sent[d]
  BY <1>0, <1>1 DEF UploadTyped
<1>4. UploadTyped' /\ SentInv' /\ StoredInv'
  BY <1>0, <1>1, <1>2, <1>3 DEF UploadInv, UploadTyped, SentInv, StoredInv, Genuine, End
<1>5. \A d \in Uploads : Reading(d)'
  BY <1>0 DEF UploadInv, Reading, Planned, Counted, Wanted, Final, TikTok, TotalChunks, TikTokChunk
<1>6. Knows' /\ VerdictInv'
  BY <1>0, <1>2, <1>3 DEF UploadInv, Knows, VerdictInv, Uploads
<1> QED
  BY <1>4, <1>5, <1>6 DEF UploadInv

-----------------------------------------------------------------------------
(* The invariant                                                           *)

LEMMA InitInv == UploadInit => UploadInv
<1> SUFFICES ASSUME UploadInit PROVE UploadInv
  OBVIOUS
<1> USE FilesAssumption, UploadsAssumption DEF UploadInit, Untouched, SubmissionInit
<1>1. UploadTyped /\ StoredInv
  <2>1. Len(stored) = 0 /\ stored \in Seq(Nat)
    BY EmptySeq
  <2>2. NoChunk \in Chunks /\ Opened(0) \in Readers
    BY EmptySeq, OpenedTyped DEF NoChunk, Chunks
  <2>3. file.size \in Nat \ {0} /\ file.length \in Nat
    OBVIOUS
  <2> QED
    BY <2>1, <2>2, <2>3 DEF UploadTyped, StoredInv, Labels
<1>2. SentInv
  BY DEF SentInv, NoChunk
<1>3. Knows /\ VerdictInv
  BY EmptySeq DEF Knows, VerdictInv, Uploads, Opened
<1>4. \A c \in Uploads : Reading(c)
  BY DEF Reading
<1> QED
  BY <1>1, <1>2, <1>3, <1>4 DEF UploadInv

LEMMA NextInv == UploadInv /\ [UploadNext]_uvars => UploadInv'
<1> SUFFICES ASSUME UploadInv, [UploadNext]_uvars PROVE UploadInv'
  OBVIOUS
<1>1. CASE Begin
  BY <1>1, BeginStep
<1>2. ASSUME NEW c \in Uploads, Resume(c) PROVE UploadInv'
  BY <1>2, ResumeStep
<1>3. ASSUME NEW c \in Uploads, Upload(c) PROVE UploadInv'
  BY <1>3, RefillStep, ConsumeStep, ProveStep, PutStep, AcceptedStep, RejectedStep DEF Upload
<1>4. ASSUME NEW c \in Uploads, Interrupted(c) \/ LostAnswer(c) \/ Vanishes(c) PROVE UploadInv'
  BY <1>4, InterruptedStep, LostAnswerStep, VanishesStep
<1>5. ASSUME NEW c \in Uploads, Receives(c) \/ Rejects(c) PROVE UploadInv'
  BY <1>5, ReceivesStep, RejectsStep
<1>6. ASSUME NEW chunk \in adrift, ReceivesLate(chunk) PROVE UploadInv'
  BY <1>6, ReceivesLateStep
<1>7. CASE UNCHANGED uvars
  BY <1>7 DEF uvars, UploadInv, UploadTyped, StoredInv, SentInv, Knows, VerdictInv, Reading,
              Genuine, End, Planned, Counted, Wanted, Final, TikTok, TotalChunks, TikTokChunk
<1> QED
  BY <1>1, <1>2, <1>3, <1>4, <1>5, <1>6, <1>7 DEF UploadNext

LEMMA Invariance == UploadSpec => []UploadInv
BY InitInv, NextInv, PTL DEF UploadSpec

LEMMA UploadWhole == UploadInv => WholeFile
<1> SUFFICES ASSUME UploadInv, Len(stored) >= file.size
             PROVE  file.length = file.size /\ stored = [i \in 1 .. file.size |-> i]
  BY DEF WholeFile
<1>1. /\ Len(stored) = file.size /\ stored \in Seq(Nat) /\ file.length = file.size
      /\ \A i \in 1 .. Len(stored) : stored[i] = i
  BY LenProperties DEF UploadInv, UploadTyped, StoredInv
<1>2. stored = [i \in 1 .. Len(stored) |-> stored[i]]
  BY <1>1, LenProperties
<1> QED
  BY <1>1, <1>2

(* What an upload says and does are steps of Submission.                   *)
LEMMA UploadPromise ==
    UploadInv /\ UploadInv' /\ [UploadNext]_uvars => [SubmissionNext]_<<posts, said>>
<1> SUFFICES ASSUME UploadInv, UploadInv', [UploadNext]_uvars
             PROVE  [SubmissionNext]_<<posts, said>>
  OBVIOUS
<1>0. posts \in {0, 1} /\ posts' \in {0, 1}
  BY DEF UploadInv, UploadTyped
<1>1. CASE UNCHANGED <<posts, said>>
  BY <1>1
<1>2. ASSUME NEW c \in Uploads, Fails(c), UNCHANGED posts PROVE [SubmissionNext]_<<posts, said>>
  <2>1. said' = said \/ (said' = said \cup {"failed"} /\ "failed" \in said')
    BY <1>2 DEF Fails
  <2>2. "failed" \in said' => posts' = 0
    BY DEF UploadInv, VerdictInv
  <2> QED
    BY <1>2, <2>1, <2>2 DEF SubmissionNext, SayFailed
<1>3. ASSUME NEW c \in Uploads, Accepted(c) PROVE [SubmissionNext]_<<posts, said>>
  <2>1. UNCHANGED posts /\ (said' = said \/ said' = said \cup {"published"})
    BY <1>3 DEF Accepted, Unresolved
  <2>2. "published" \in said' => posts' = 1
    BY DEF UploadInv, VerdictInv
  <2> QED
    BY <2>1, <2>2 DEF SubmissionNext, SayPublished
<1>4. ASSUME NEW chunk \in Chunks, Stores(chunk), UNCHANGED said
      PROVE  [SubmissionNext]_<<posts, said>>
  <2>1. posts' = 1 \/ posts' = posts
    BY <1>4 DEF Stores
  <2>2. "failed" \in said' => posts' = 0
    BY DEF UploadInv, VerdictInv
  <2> QED
    BY <1>0, <1>4, <2>1, <2>2 DEF SubmissionNext, Appear
<1>5. ASSUME NEW c \in Uploads, Refill(c) \/ Prove(c) \/ Rejected(c) \/ Interrupted(c) \/ LostAnswer(c)
      PROVE  [SubmissionNext]_<<posts, said>>
  <2>1. (Fails(c) /\ UNCHANGED posts) \/ UNCHANGED <<posts, said>>
    BY <1>5 DEF Refill, Prove, Rejected, Interrupted, LostAnswer, Unresolved
  <2> QED
    BY <1>1, <1>2, <2>1
<1>6. ASSUME NEW c \in Uploads, Resume(c) \/ Consume(c) \/ Put(c) \/ Vanishes(c) \/ Rejects(c)
      PROVE  UNCHANGED <<posts, said>>
  BY <1>6 DEF Resume, Consume, Put, Vanishes, Unresolved, Rejects
<1>7. ASSUME NEW c \in Uploads, Receives(c) PROVE [SubmissionNext]_<<posts, said>>
  BY <1>4, <1>7, ReaderTyped DEF Receives, UploadInv
<1>8. ASSUME NEW chunk \in adrift, ReceivesLate(chunk) PROVE [SubmissionNext]_<<posts, said>>
  BY <1>4, <1>8 DEF ReceivesLate, UploadInv, UploadTyped
<1>9. CASE Begin
  BY <1>9 DEF Begin
<1>10. CASE UNCHANGED uvars
  BY <1>10 DEF uvars
<1>11. ASSUME NEW c \in Uploads, Upload(c) PROVE [SubmissionNext]_<<posts, said>>
  BY <1>1, <1>3, <1>5, <1>6, <1>11 DEF Upload
<1> QED
  BY <1>1, <1>5, <1>6, <1>7, <1>8, <1>9, <1>10, <1>11 DEF UploadNext

-----------------------------------------------------------------------------
(* Results                                                                 *)

(* The platform makes a post only of the whole file, in whatever pieces    *)
(* the source arrives, whoever resumes and whatever is sent late           *)
(* (streamChunks, uploadRequest, sendYouTubeUpload).                       *)
THEOREM UploadsAreWhole == UploadSpec => []WholeFile
BY UploadWhole, Invariance, PTL

(* What an upload says and does keeps the promise of a submission          *)
(* (transferTikTokVideo, sendYouTubeUpload).                               *)
THEOREM UploadsKeepThePromise == UploadSpec => SubmissionSpec
<1>1. UploadInit => SubmissionInit
  BY DEF UploadInit
<1> QED
  BY <1>1, UploadPromise, Invariance, PTL DEF UploadSpec, SubmissionSpec

-----------------------------------------------------------------------------
(* The third way: one request after its attachments.  Before that request  *)
(* and from the first removal on, nothing that could make the post is on   *)
(* its way; in between, every photo stays.                                 *)

Dismissed == posts = 0 /\ Create \notin strays

NoRemoval == \A s \in strays : s.what # "remove"

Waits(w) == stage = "wait" /\ asked.what = w

AttachTyped ==
    /\ draft.parts \in Nat /\ stage \in {"next", "wait", "discard", "over"}
    /\ ready \in Nat /\ ready <= draft.parts /\ tried \in Nat /\ verdict \subseteq {"failed"}
    /\ asked.what \in {"attach", "create", "remove"} /\ answer \in Answers
    /\ \A s \in strays : s.what \in {"attach", "remove"} \/ s = Create
    /\ posts \in {0, 1}

PreparingInv ==
    stage = "next" \/ Waits("attach") =>
        /\ Dismissed /\ NoRemoval /\ \A n \in 1 .. ready : n \in held
        /\ stage = "wait" =>
              /\ asked = Attach(ready + 1) /\ ready < draft.parts
              /\ answer = "confirmed" => ready + 1 \in held

CreatingInv ==
    Waits("create") =>
        /\ asked = Create /\ Create \notin strays
        /\ NoRemoval /\ \A n \in 1 .. draft.parts : n \in held
        /\ answer \in {"none", "refused"} => posts = 0
        /\ answer = "confirmed" => posts = 1

RemovingInv == stage = "discard" \/ Waits("remove") => Dismissed

OverInv ==
    /\ stage = "over" /\ ~Dismissed => NoRemoval /\ \A n \in 1 .. draft.parts : n \in held
    /\ Create \in strays => stage = "over" /\ posts = 0
    /\ "failed" \in said => stage = "over" /\ Dismissed

AttachInv == AttachTyped /\ PreparingInv /\ CreatingInv /\ RemovingInv /\ OverInv

LEMMA AttachStart == ASSUME SubmissionInit, draft.parts \in Nat, Unsent PROVE AttachInv
BY DEF AttachInv, AttachTyped, PreparingInv, CreatingInv, RemovingInv, OverInv, SubmissionInit,
       Unsent, Dismissed, NoRemoval, Waits, Create, Answers

LEMMA AskStep == AttachInv /\ Ask => AttachInv'
<1> SUFFICES ASSUME AttachInv, Ask PROVE AttachInv'
  OBVIOUS
<1> USE DEF Attach, Create, Detach
<1>1. asked'.what \in {"attach", "create", "remove"}
  BY DEF Ask, Upcoming
<1>2. AttachTyped'
  BY <1>1 DEF AttachInv, AttachTyped, Ask, progress, Answers
<1>3. CASE stage = "discard"
  BY <1>2, <1>3 DEF AttachInv, AttachTyped, PreparingInv, CreatingInv, RemovingInv, OverInv,
                    Ask, Upcoming, Waits, Dismissed, NoRemoval, progress
<1>4. CASE stage = "next"
  BY <1>2, <1>4 DEF AttachInv, AttachTyped, PreparingInv, CreatingInv, RemovingInv, OverInv,
                    Ask, Upcoming, Waits, Dismissed, NoRemoval, progress
<1> QED
  BY <1>3, <1>4 DEF Ask, MoreToDo

(* A call that ends, however it ends.                                      *)
LEMMA EndingStep ==
    ASSUME AttachInv, stage # "over", stage' = "over",
           UNCHANGED <<draft, ready, tried, verdict, asked, answer, held, posts>>,
           strays' = strays \/ (stage = "wait" /\ answer = "none" /\ strays' = strays \cup {asked}),
           "failed" \in said' => "failed" \in said \/ Dismissed'
    PROVE  AttachInv'
<1> USE DEF Waits, Create
<1>1. AttachTyped'
  BY DEF AttachInv, AttachTyped, CreatingInv
<1>2. asked.what \in {"attach", "create", "remove"} /\ "failed" \notin said
  BY DEF AttachInv, AttachTyped, OverInv
<1>3. stage' = "over" /\ ~Dismissed' => NoRemoval' /\ \A n \in 1 .. draft'.parts : n \in held'
  BY <1>2 DEF AttachInv, AttachTyped, PreparingInv, CreatingInv, RemovingInv, OverInv,
     Dismissed, NoRemoval
<1>4. Create \in strays' => posts' = 0
  BY <1>2 DEF AttachInv, AttachTyped, PreparingInv, CreatingInv, RemovingInv, OverInv,
     Dismissed, Attach
<1> QED
  BY <1>1, <1>2, <1>3, <1>4 DEF AttachInv, PreparingInv, CreatingInv, RemovingInv, OverInv

(* Unpublished photos are removed only after Dismissed.                    *)
LEMMA DiscardStep ==
    ASSUME AttachInv, stage \in {"next", "wait", "discard"}, stage' = "discard", Dismissed',
           UNCHANGED <<draft, ready, asked, answer, posts, said>>,
           tried' \in Nat, verdict' \subseteq {"failed"},
           strays' = strays \/ (stage = "wait" /\ answer = "none" /\ strays' = strays \cup {asked})
    PROVE  AttachInv'
<1>1. AttachTyped'
  BY DEF AttachInv, AttachTyped, CreatingInv, Waits
<1>2. "failed" \notin said
  BY DEF AttachInv, OverInv
<1> QED
  BY <1>1, <1>2 DEF AttachInv, PreparingInv, CreatingInv, RemovingInv, OverInv, Waits, Dismissed

LEMMA DisappointedStep ==
    ASSUME AttachInv, NEW r, NEW a, Disappointed(r, a), stage # "over",
           UNCHANGED <<draft, asked, answer, held, posts>>,
           strays' = strays \/ (stage = "wait" /\ answer = "none" /\ strays' = strays \cup {asked}),
           r.what = "attach" => stage = "next" \/ Waits("attach"),
           r.what = "create" => (a = "refused" => Dismissed /\ strays' = strays),
           r.what = "remove" => stage = "discard" \/ Waits("remove")
    PROVE  AttachInv'
<1>0. stage \in {"next", "wait", "discard"} /\ ByCode(a) \subseteq {"failed"} /\ tried \in Nat
  BY DEF AttachInv, AttachTyped, ByCode
<1>1. CASE r.what = "attach" /\ AttachFails(a)
  <2>1. Dismissed'
    BY <1>1 DEF AttachInv, PreparingInv, Dismissed, Waits, Create
  <2>2. CASE Discard(a)
    BY <1>0, <2>1, <2>2, DiscardStep DEF Discard
  <2>3. CASE Ends({}) \/ Ends({"failed"}) \/ Ends(ByCode(a))
    BY <2>1, <2>3, EndingStep DEF Ends
  <2> QED
    BY <1>1, <2>2, <2>3 DEF AttachFails, UploadFails, BlobFails, VideoFails, PhotoFails
<1>2. CASE r.what = "create" /\ CreateFails(a)
  <2>1. a = "refused" => Dismissed'
    BY <1>2 DEF Dismissed
  <2>2. CASE Discards(a) /\ Discard(a)
    BY <1>0, <2>1, <2>2, DiscardStep DEF Discard, Discards, Definite
  <2>3. CASE Ends(ByCode(a))
    <3>1. "failed" \in said' => "failed" \in said \/ Dismissed'
      BY <2>1, <2>3 DEF Ends, ByCode, Definite
    <3> QED
      BY <2>3, <3>1, EndingStep DEF Ends
  <2> QED
    BY <1>2, <2>2, <2>3 DEF CreateFails
<1>3. CASE r.what = "remove" /\ RemoveFails
  <2>1. Dismissed'
    BY <1>3 DEF AttachInv, RemovingInv, Dismissed, Waits, Create
  <2> QED
    BY <1>0, <1>3, <2>1, DiscardStep DEF RemoveFails, AttachInv, AttachTyped
<1> QED
  BY <1>1, <1>2, <1>3 DEF Disappointed

LEMMA GrantedStep == AttachInv /\ Granted => AttachInv'
<1> SUFFICES ASSUME AttachInv, Granted PROVE AttachInv'
  OBVIOUS
<1>0. stage = "wait" /\ answer = "confirmed" /\ UNCHANGED <<draft, asked, answer, strays, held, posts>>
  BY DEF Granted
<1>1. CASE asked.what = "attach" /\ stage' = "next" /\ ready' = ready + 1 /\ UNCHANGED <<tried, verdict, said>>
  <2>1. AttachTyped'
    BY <1>0, <1>1 DEF AttachInv, AttachTyped, PreparingInv, Waits
  <2>2. "failed" \notin said /\ Dismissed /\ NoRemoval /\ \A n \in 1 .. ready + 1 : n \in held
    BY <1>0, <1>1 DEF AttachInv, AttachTyped, PreparingInv, OverInv, Waits
  <2> QED
    BY <1>0, <1>1, <2>1, <2>2 DEF AttachInv, PreparingInv, CreatingInv, RemovingInv, OverInv,
       Waits, Dismissed, NoRemoval
<1>2. CASE asked.what = "create" /\ (Ends({}) \/ Ends({"published"}))
  BY <1>0, <1>2, EndingStep DEF Ends
<1>3. CASE asked.what = "remove" /\ RemoveFails
  BY <1>0, <1>3, DisappointedStep DEF Disappointed, Waits
<1> QED
  BY <1>1, <1>2, <1>3 DEF Granted

LEMMA FailingStep == AttachInv /\ Failing => AttachInv'
<1> SUFFICES ASSUME AttachInv, Failing PROVE AttachInv'
  OBVIOUS
<1>1. stage = "wait" /\ Disappointed(asked, answer) /\ UNCHANGED <<draft, asked, answer, strays, held, posts>>
  BY DEF Failing
<1>2. asked.what = "create" => (answer = "refused" => Dismissed)
  BY <1>1 DEF AttachInv, CreatingInv, Waits, Dismissed
<1> QED
  BY <1>1, <1>2, DisappointedStep DEF Waits

LEMMA SilenceStep == AttachInv /\ Silence => AttachInv'
<1> SUFFICES ASSUME AttachInv, Silence PROVE AttachInv'
  OBVIOUS
<1>1. /\ stage = "wait" /\ Disappointed(asked, "none") /\ UNCHANGED <<draft, asked, answer, held, posts>>
      /\ strays' = strays \/ (answer = "none" /\ strays' = strays \cup {asked})
  BY DEF Silence, Abandoned
<1> QED
  BY <1>1, DisappointedStep DEF Waits

LEMMA NotSentStep == AttachInv /\ NotSent => AttachInv'
<1> SUFFICES ASSUME AttachInv, NotSent PROVE AttachInv'
  OBVIOUS
<1>1. /\ stage \in {"next", "discard"} /\ Disappointed(Upcoming, "none")
      /\ UNCHANGED <<draft, asked, answer, strays, held, posts>>
  BY DEF NotSent, MoreToDo
<1>2. /\ Upcoming.what = "attach" => stage = "next"
      /\ Upcoming.what = "remove" => stage = "discard"
  BY <1>1 DEF Upcoming, Attach, Create, Detach
<1> QED
  BY <1>1, <1>2, DisappointedStep

(* Only a request that cannot make the post is sent a second time.         *)
LEMMA AsksAgainStep == AttachInv /\ AsksAgain => AttachInv'
<1> SUFFICES ASSUME AttachInv, AsksAgain PROVE AttachInv'
  OBVIOUS
<1> USE DEF Attach, Create
<1>1. /\ stage = "wait" /\ asked.what = "attach" /\ answer' = "none"
      /\ UNCHANGED <<draft, ready, tried, verdict, stage, asked, held, posts, said>>
      /\ strays' = strays \/ strays' = strays \cup {asked}
  BY DEF AsksAgain, Safe, Abandoned, progress
<1>2. AttachTyped'
  BY <1>1 DEF AttachInv, AttachTyped, Answers
<1>3. Dismissed' /\ NoRemoval'
  BY <1>1 DEF AttachInv, PreparingInv, Waits, Dismissed, NoRemoval
<1> QED
  BY <1>1, <1>2, <1>3 DEF AttachInv, PreparingInv, CreatingInv, RemovingInv, OverInv, Waits, Dismissed

LEMMA ConcludesStep == AttachInv /\ Concludes => AttachInv'
BY EndingStep DEF Concludes, Ends, AttachInv, RemovingInv, Dismissed

LEMMA PerishesStep == AttachInv /\ Perishes => AttachInv'
BY EndingStep DEF Perishes, Abandoned, progress

LEMMA ObeysStep == AttachInv /\ Obeys => AttachInv'
<1> SUFFICES ASSUME AttachInv, Obeys PROVE AttachInv'
  OBVIOUS
<1> USE DEF Attach, Create, Detach
<1>1. /\ stage = "wait" /\ answer = "none" /\ answer' \in {"confirmed", "unreadable", "error"}
      /\ UNCHANGED <<draft, ready, tried, verdict, stage, asked, strays, said>> /\ Effect(asked)
  BY DEF Obeys, progress
<1>2. CASE asked.what = "attach"
  BY <1>1, <1>2 DEF AttachInv, AttachTyped, PreparingInv, CreatingInv, RemovingInv, OverInv,
                    Effect, Waits, Dismissed, NoRemoval, Answers
<1>3. CASE asked.what = "create"
  BY <1>1, <1>3 DEF AttachInv, AttachTyped, PreparingInv, CreatingInv, RemovingInv, OverInv,
                    Effect, Waits, Dismissed, NoRemoval, Answers
<1>4. CASE asked.what = "remove"
  BY <1>1, <1>4 DEF AttachInv, AttachTyped, PreparingInv, CreatingInv, RemovingInv, OverInv,
                    Effect, Waits, Dismissed, NoRemoval, Answers
<1> QED
  BY <1>2, <1>3, <1>4 DEF AttachInv, AttachTyped

LEMMA DeniesStep == AttachInv /\ Denies => AttachInv'
BY DEF Denies, progress, AttachInv, AttachTyped, PreparingInv, CreatingInv, RemovingInv, OverInv,
       Waits, Dismissed, NoRemoval, Answers

LEMMA ObeysLateStep == ASSUME AttachInv, NEW r \in strays, ObeysLate(r) PROVE AttachInv'
<1> USE DEF Attach, Create, Detach
<1>1. /\ strays' = strays \ {r} /\ Effect(r)
      /\ UNCHANGED <<draft, ready, tried, verdict, stage, asked, answer, said>>
  BY DEF ObeysLate, progress
<1>2. CASE r.what = "create"
  BY <1>1, <1>2 DEF AttachInv, AttachTyped, PreparingInv, CreatingInv, RemovingInv, OverInv,
                    Effect, Waits, Dismissed, NoRemoval
<1>3. CASE r.what # "create"
  BY <1>1, <1>3 DEF AttachInv, AttachTyped, PreparingInv, CreatingInv, RemovingInv, OverInv,
                    Effect, Waits, Dismissed, NoRemoval
<1> QED
  BY <1>2, <1>3

LEMMA AttachStep == AttachInv /\ [AttachNext]_avars => AttachInv'
<1>1. AttachInv /\ UNCHANGED avars => AttachInv'
  BY DEF avars, progress, AttachInv, AttachTyped, PreparingInv, CreatingInv, RemovingInv, OverInv,
         Waits, Dismissed, NoRemoval
<1> QED
  BY <1>1, AskStep, NotSentStep, GrantedStep, FailingStep, SilenceStep, AsksAgainStep,
     ConcludesStep, PerishesStep,
     ObeysStep, DeniesStep, ObeysLateStep DEF AttachNext

LEMMA AttachKeeps == AttachInv => KeepsAttachments
BY DEF AttachInv, AttachTyped, PreparingInv, CreatingInv, RemovingInv, OverInv, KeepsAttachments,
       Waits, Dismissed

LEMMA AttachPromise ==
    ASSUME AttachInv, AttachInv', [AttachNext]_avars PROVE [SubmissionNext]_<<posts, said>>
<1>1. CASE posts' = posts /\ \E v \in SUBSET {"failed"} : said' = said \cup v
  <2>1. said' = said \/ said' = said \cup {"failed"}
    <3>1. PICK v \in SUBSET {"failed"} : said' = said \cup v
      BY <1>1
    <3>2. v = {} \/ v = {"failed"}
      OBVIOUS
    <3> QED
      BY <3>1, <3>2
  <2>2. said' = said \cup {"failed"} => posts = 0
    BY <1>1 DEF AttachInv, OverInv, Dismissed
  <2> QED
    BY <1>1, <2>1, <2>2 DEF SubmissionNext, SayFailed
<1>2. ASSUME NEW r, NEW a, Disappointed(r, a), posts' = posts
      PROVE  [SubmissionNext]_<<posts, said>>
  <2>1. said' = said \/ said' = said \cup {"failed"}
    BY <1>2 DEF Disappointed, AttachFails, UploadFails, BlobFails, VideoFails, PhotoFails,
       CreateFails,
                RemoveFails, Discard, Ends, ByCode
  <2>2. said = said \cup {}
    OBVIOUS
  <2> QED
    BY <1>1, <1>2, <2>1, <2>2
<1>3. ASSUME NEW r, Effect(r), said' = said
      PROVE  [SubmissionNext]_<<posts, said>>
  <2>1. posts' = posts \/ (posts' = 1 /\ posts = 0)
    BY <1>3 DEF Effect, AttachInv, AttachTyped
  <2>2. "failed" \in said' => posts' = 0
    BY DEF AttachInv, OverInv, Dismissed
  <2> QED
    BY <1>3, <2>1, <2>2 DEF SubmissionNext, Appear
<1>4. CASE NotSent \/ Failing \/ Silence
  BY <1>2, <1>4 DEF NotSent, Failing, Silence
<1>5. CASE Granted
  <2>1. CASE asked.what = "create" /\ (Ends({}) \/ Ends({"published"}))
    <3>1. posts = 1 /\ posts' = posts
      BY <1>5, <2>1 DEF Granted, AttachInv, CreatingInv, Waits
    <3> QED
      BY <2>1, <3>1 DEF Ends, SubmissionNext, SayPublished
  <2>2. CASE UNCHANGED said
    BY <1>5, <2>2 DEF Granted
  <2> QED
    BY <1>5, <2>1, <2>2 DEF Granted, RemoveFails
<1>6. CASE Concludes
  BY <1>1, <1>6 DEF Concludes, Ends, AttachInv, AttachTyped
<1>7. CASE Obeys
  BY <1>3, <1>7 DEF Obeys
<1>8. CASE \E r \in strays : ObeysLate(r)
  BY <1>3, <1>8 DEF ObeysLate
<1>9. CASE Ask \/ AsksAgain \/ Perishes \/ Denies \/ UNCHANGED avars
  BY <1>9 DEF Ask, AsksAgain, Perishes, Denies, avars
<1> QED
  BY <1>4, <1>5, <1>6, <1>7, <1>8, <1>9 DEF AttachNext

-----------------------------------------------------------------------------
(* The three ways together.                                                *)

SubmissionInv ==
    \/ file = NoFile /\ stored = <<>> /\ draft = NoDraft /\ ContainerInv
    \/ shape = NoShape /\ draft = NoDraft /\ UploadInv
    \/ shape = NoShape /\ file = NoFile /\ stored = <<>> /\ AttachInv

LEMMA Elsewhere ==
    /\ NoFile.host = "none" /\ NoFile.size = 1 /\ NoDraft.parts = 0
    /\ \A d \in Drafts : d.parts \in Nat
BY DraftsAssumption DEF NoFile, NoDraft

LEMMA AdaptersStart == AdaptersInit => SubmissionInv
<1>1. CASE SubmissionInit /\ Fresh /\ Untouched /\ file = NoFile /\ draft = NoDraft
  BY <1>1, FreshInv DEF SubmissionInv, Untouched
<1>2. CASE SubmissionInit /\ Untouched /\ shape = NoShape /\ file \in Files /\ draft = NoDraft
  BY <1>2, InitInv DEF SubmissionInv, UploadInit
<1>3. CASE SubmissionInit /\ Unsent /\ Untouched /\ shape = NoShape /\ file = NoFile /\ draft \in Drafts
  BY <1>3, AttachStart, Elsewhere DEF SubmissionInv, Untouched
<1> QED
  BY <1>1, <1>2, <1>3 DEF AdaptersInit

LEMMA AdaptersStep ==
    SubmissionInv /\ [AdaptersNext]_<<cvars, uvars, avars>> =>
        SubmissionInv' /\ [SubmissionNext]_<<posts, said>>
<1> SUFFICES ASSUME SubmissionInv, [AdaptersNext]_<<cvars, uvars, avars>>
             PROVE  SubmissionInv' /\ [SubmissionNext]_<<posts, said>>
  OBVIOUS
<1> USE DEF containerOnly, uploadOnly, attachOnly, progress
<1>1. CASE ThroughContainers
  <2>1. ContainerInv /\ file = NoFile /\ stored = <<>> /\ draft = NoDraft
    BY <1>1 DEF SubmissionInv, ThroughContainers
  <2>2. ContainerNext /\ UNCHANGED <<file, stored, draft>>
    BY <1>1 DEF ThroughContainers
  <2>3. ContainerInv'
    BY <2>1, <2>2, ContainerStep
  <2> QED
    BY <2>1, <2>2, <2>3, ContainerPromise DEF SubmissionInv
<1>2. CASE ThroughUpload
  <2>1. UploadInv /\ shape = NoShape /\ draft = NoDraft
    BY <1>2 DEF SubmissionInv, ThroughUpload
  <2>2. UploadNext /\ UNCHANGED <<shape, draft>>
    BY <1>2 DEF ThroughUpload
  <2>3. UploadInv'
    BY <2>1, <2>2, NextInv
  <2> QED
    BY <2>1, <2>2, <2>3, UploadPromise DEF SubmissionInv
<1>3. CASE ThroughAttachments
  <2>1. AttachInv /\ shape = NoShape /\ file = NoFile /\ stored = <<>>
    BY <1>3 DEF SubmissionInv, ThroughAttachments
  <2>2. AttachNext /\ UNCHANGED <<shape, file, stored>>
    BY <1>3 DEF ThroughAttachments
  <2>3. AttachInv'
    BY <2>1, <2>2, AttachStep
  <2> QED
    BY <2>1, <2>2, <2>3, AttachPromise DEF SubmissionInv
<1>4. CASE UNCHANGED <<cvars, uvars, avars>>
  <2>1. UNCHANGED cvars /\ UNCHANGED uvars /\ UNCHANGED avars
    BY <1>4
  <2>2. UNCHANGED <<shape, file, stored, draft, posts, said>>
    BY <2>1 DEF cvars, uvars, avars, platform
  <2>3. /\ ContainerInv => ContainerInv'
        /\ UploadInv => UploadInv'
        /\ AttachInv => AttachInv'
    BY <2>1, ContainerStill, NextInv, AttachStep
  <2> QED
    BY <2>2, <2>3 DEF SubmissionInv
<1> QED
  BY <1>1, <1>2, <1>3, <1>4 DEF AdaptersNext

LEMMA AdaptersInvariance == AdaptersSpec => []SubmissionInv
BY AdaptersStart, AdaptersStep, PTL DEF AdaptersSpec

(* A submission makes one post at most, whoever goes on with it and        *)
(* however late its requests take effect (publishTarget, getDelivery).     *)
THEOREM SubmissionsPostOnce == AdaptersSpec => []OnePost
<1>1. SubmissionInv => OnePost
  BY DEF SubmissionInv, ContainerInv, PostInv, UploadInv, UploadTyped, AttachInv, AttachTyped,
     OnePost
<1> QED
  BY <1>1, AdaptersInvariance, PTL

(* What a post was made of is there: the whole file, and every photo       *)
(* (streamChunks, uploadRequest, publishPhotos).                           *)
THEOREM SubmissionsAreWhole == AdaptersSpec => []Whole
<1>1. SubmissionInv => WholeFile
  <2>1. file = NoFile /\ stored = <<>> => WholeFile
    BY DEF WholeFile, NoFile
  <2> QED
    BY <2>1, UploadWhole DEF SubmissionInv
<1>2. SubmissionInv => KeepsAttachments
  <2>1. draft = NoDraft => KeepsAttachments
    BY Elsewhere DEF KeepsAttachments
  <2> QED
    BY <2>1, AttachKeeps DEF SubmissionInv
<1> QED
  BY <1>1, <1>2, AdaptersInvariance, PTL DEF Whole

(* The adapters implement what the client relies on: a failure that may be *)
(* retried is never followed by a post, and "published" is said of a post  *)
(* that exists (publishTarget, getDelivery).                               *)
THEOREM SubmissionsAreTruthful == AdaptersSpec => Truthful
<1>1. AdaptersInit => SubmissionInit
  BY DEF AdaptersInit
<1> QED
  BY <1>1, AdaptersStep, AdaptersInvariance, PTL DEF AdaptersSpec, Truthful, SubmissionSpec
=============================================================================
