------------------------------ MODULE Chunking ------------------------------
(***************************************************************************)
(* chunk_segments of transcribe/transcribe_audio.py: the transcript of a   *)
(* long meeting is cut into chunks for the map step of the summary, each   *)
(* chunk repeating the end of the one before it.                           *)
(*                                                                         *)
(* Only the lengths of the segments matter.  A chunk is the interval of    *)
(* the segments it joins, and the length of an interval is the difference  *)
(* of two positions in the text.  The loop reads the segments one by one,  *)
(* so a step may as well choose the length of the next one.                *)
(***************************************************************************)
EXTENDS Integers, Sequences

CONSTANTS
  MaxSegments,   \* bound: segments of a transcript
  MaxLength,     \* bound: characters of a segment
  Settings       \* values of CHUNK_MAX_CHARS and CHUNK_OVERLAP_CHARS

ASSUME ChunkingAssumption ==
  /\ MaxSegments \in Nat
  /\ MaxLength \in Nat
  /\ Settings \subseteq Int

VARIABLES
  maxChars, overlapChars,   \* the settings, which nothing validates
  read,         \* segments read so far
  end,          \* where each segment ends in the text
  first,        \* current = the segments first .. read
  currentLen,
  newSinceFlush,
  chunks,
  returned

settings == <<maxChars, overlapChars>>
vars == <<settings, read, end, first, currentLen, newSinceFlush, chunks, returned>>

(* The characters of segments a .. b. *)
Length(a, b) == end[b] - end[a - 1]

Chunk == [from : 1 .. MaxSegments, to : 1 .. MaxSegments]

(* Chunks are intervals of segments that were read; the text only grows.    *)
TypeOK ==
  /\ maxChars \in Settings
  /\ overlapChars \in Settings
  /\ read \in 0 .. MaxSegments
  /\ end \in [0 .. read -> Nat]
  /\ first \in 1 .. MaxSegments + 1
  /\ currentLen \in Nat
  /\ newSinceFlush \in BOOLEAN
  /\ chunks \in Seq(Chunk)
  /\ returned \in BOOLEAN

Init ==
  /\ maxChars \in Settings
  /\ overlapChars \in Settings
  /\ read = 0
  /\ end = [i \in {0} |-> 0]
  /\ first = 1
  /\ currentLen = 0
  /\ newSinceFlush = FALSE
  /\ chunks = <<>>
  /\ returned = FALSE

-----------------------------------------------------------------------------
(* Faulty variants, for showing that a property can fail.                   *)

(* The limit is compared before the segment is counted. *)
FitsBefore(len) == currentLen < maxChars

(* The inner loop stops before the overlap is exceeded. *)
SeedStartShort(s) ==
  /\ s \in first .. read' + 1
  /\ end'[read'] - end'[s - 1] <= overlapChars
  /\ s > first => end'[read'] - end'[s - 2] > overlapChars

(* An interval that does not contain its end. *)
ReturnHalfOpen ==
  /\ ~returned
  /\ returned' = TRUE
  /\ chunks' = Append(chunks, [from |-> first, to |-> read + 1])
  /\ UNCHANGED <<settings, read, end, first, currentLen, newSinceFlush>>

(* The last chunk is made whenever something is in current. *)
ReturnCurrent ==
  /\ ~returned
  /\ returned' = TRUE
  /\ chunks' = IF first <= read
               THEN Append(chunks, [from |-> first, to |-> read])
               ELSE chunks
  /\ UNCHANGED <<settings, read, end, first, currentLen, newSinceFlush>>

(* What has not filled a chunk is not one. *)
ReturnFlushed ==
  /\ ~returned
  /\ returned' = TRUE
  /\ UNCHANGED <<settings, read, end, first, currentLen, newSinceFlush, chunks>>

-----------------------------------------------------------------------------
(* The inner loop goes back from the last segment until it has              *)
(* overlapChars characters or has taken the whole chunk: s is where it      *)
(* stops, s = read' + 1 when nothing is carried.                            *)
SeedStart(s) ==
  /\ s \in first .. read' + 1
  /\ s > first => end'[read'] - end'[s - 1] >= overlapChars
  /\ s <= read' => end'[read'] - end'[s] < overlapChars

-----------------------------------------------------------------------------
(* The condition under which the loop only goes on. *)
Fits(len) == currentLen + len < maxChars

(* current.append(segment) *)
ReadSegment(len) ==
  /\ ~returned
  /\ read < MaxSegments
  /\ read' = read + 1
  /\ end' = [i \in 0 .. read + 1 |-> IF i <= read THEN end[i] ELSE end[read] + len]
  /\ UNCHANGED <<settings, returned>>

Accumulate(len) ==
  /\ Fits(len)
  /\ ReadSegment(len)
  /\ currentLen' = currentLen + len
  /\ newSinceFlush' = TRUE
  /\ UNCHANGED <<first, chunks>>

Flush(len) ==
  /\ ~Fits(len)
  /\ ReadSegment(len)
  /\ chunks' = Append(chunks, [from |-> first, to |-> read'])
  /\ newSinceFlush' = FALSE
  /\ \E s \in 1 .. MaxSegments + 1 :
       /\ SeedStart(s)
       /\ first' = s
       /\ currentLen' = end'[read'] - end'[s - 1]

(* After the loop: what was read since the last chunk is the last one. *)
Return ==
  /\ ~returned
  /\ returned' = TRUE
  /\ chunks' = IF first <= read /\ newSinceFlush
               THEN Append(chunks, [from |-> first, to |-> read])
               ELSE chunks
  /\ UNCHANGED <<settings, read, end, first, currentLen, newSinceFlush>>

(* transcribe drops blank segments, so none is empty. *)
Next == Return \/ \E len \in 1 .. MaxLength : Accumulate(len) \/ Flush(len)

Spec == Init /\ [][Next]_vars

-----------------------------------------------------------------------------
(* No part of the transcript is missing from the chunks the map step sees.  *)
NothingLost ==
  returned =>
    \A i \in 1 .. read :
      \E k \in 1 .. Len(chunks) : i \in chunks[k].from .. chunks[k].to

(* No chunk is a mere repetition: each ends later than the one before it,   *)
(* and starts neither before it nor after a gap.                            *)
EachChunkAdvances ==
  \A k \in 2 .. Len(chunks) :
    /\ chunks[k - 1].to < chunks[k].to
    /\ chunks[k].from \in chunks[k - 1].from .. chunks[k - 1].to + 1

(* "Carrying ~chunk_overlap_chars of trailing segments into the next chunk  *)
(* so facts on a boundary are not lost" (docstring): enough is carried, or  *)
(* the whole chunk, and no segment more than enough.                        *)
OverlapCarried ==
  \A k \in 2 .. Len(chunks) :
    LET c == chunks[k - 1]
        d == chunks[k]
    IN  /\ Length(d.from, c.to) >= overlapChars \/ d.from = c.from
        /\ d.from <= c.to => end[c.to] - end[d.from] < overlapChars

(* How large a chunk gets: below the limit but for its last segment, unless *)
(* the overlap it repeats reaches the limit by itself.                      *)
OverLimitByOneSegment ==
  \A k \in 1 .. Len(chunks) :
    LET c == chunks[k]
    IN  \/ c.from = c.to
        \/ Length(c.from, c.to - 1) < maxChars
        \/ k > 1 /\ chunks[k - 1].to = c.to - 1
=============================================================================
