------------------------ MODULE TranscriptionProofs -------------------------
(***************************************************************************)
(* Chunking is correct for transcripts of every length and for every value *)
(* of the two settings, an overlap above the limit included.  Pieces are   *)
(* transcribed in playback order, however many there are up to the         *)
(* capacity of their names, and what is made of the transcript is a        *)
(* behaviour of Chunking, to which the theorems about chunking apply.      *)
(***************************************************************************)
EXTENDS Transcription, TLAPS

-----------------------------------------------------------------------------
(* Chunking                                                                 *)

(* Where the last chunk made ends. *)
Flushed == IF chunks = <<>> THEN 0 ELSE chunks[Len(chunks)].to

(* The segments follow one another in the text. *)
TextInv ==
  /\ end[0] = 0
  /\ \A a, b \in 0 .. read : a < b => end[a] < end[b]

ChunksInv ==
  \A k \in 1 .. Len(chunks) : 1 <= chunks[k].from /\ chunks[k].from <= chunks[k].to
                              /\ chunks[k].to <= read

CoverInv ==
  \A i \in 1 .. Flushed :
    \E k \in 1 .. Len(chunks) : i \in chunks[k].from .. chunks[k].to

(* What current holds: it begins with the seed left by the last chunk, and  *)
(* stays below the limit once a segment has been added to the seed.         *)
CurrentInv ==
  /\ first <= Flushed + 1
  /\ Flushed <= read
  /\ chunks = <<>> => first = 1
  /\ chunks # <<>> =>
       LET c == chunks[Len(chunks)]
       IN  /\ c.from <= first
           /\ Length(first, c.to) >= overlapChars \/ first = c.from
           /\ first <= c.to => end[c.to] - end[first] < overlapChars
  /\ currentLen = Length(first, read)
  /\ newSinceFlush <=> Flushed < read
  /\ newSinceFlush => currentLen < maxChars

Inv ==
  /\ TypeOK /\ TextInv /\ ChunksInv /\ CoverInv
  /\ EachChunkAdvances /\ OverlapCarried /\ OverLimitByOneSegment
  /\ ~returned => CurrentInv
  /\ returned => Flushed = read

USE ChunkingAssumption

-----------------------------------------------------------------------------
LEMMA InvInit == Init => Inv
  BY DEF Init, Inv, TypeOK, TextInv, ChunksInv, CoverInv, CurrentInv, Flushed, Length,
     EachChunkAdvances, OverlapCarried, OverLimitByOneSegment, Chunk

LEMMA TextGrows ==
  ASSUME Inv, NEW len \in 1 .. MaxLength, ReadSegment(len)
  PROVE  /\ read' = read + 1 /\ read \in Nat /\ read' \in 0 .. MaxSegments
         /\ end' \in [0 .. read' -> Nat]
         /\ TextInv'
         /\ \A i \in 0 .. read : end'[i] = end[i]
         /\ end'[read'] = end[read] + len
<1>1. read \in 0 .. MaxSegments /\ end \in [0 .. read -> Nat]
  BY DEF Inv, TypeOK
<1>2. /\ read' = read + 1 /\ read \in Nat /\ read' \in 0 .. MaxSegments
      /\ end' = [i \in 0 .. read + 1 |-> IF i <= read THEN end[i] ELSE end[read] + len]
  BY <1>1 DEF ReadSegment
<1>3. end' \in [0 .. read' -> Nat]
  BY <1>1, <1>2
<1>4. (\A i \in 0 .. read : end'[i] = end[i]) /\ end'[read'] = end[read] + len
  BY <1>1, <1>2
<1>5. TextInv'
  <2>1. end'[0] = 0
    BY <1>1, <1>4 DEF Inv, TextInv
  <2>2. ASSUME NEW a \in 0 .. read', NEW b \in 0 .. read', a < b
        PROVE  end'[a] < end'[b]
    <3>1. a \in 0 .. read /\ (b \in 0 .. read \/ b = read')
      BY <2>2, <1>2
    <3>2. a = read \/ end[a] < end[read]
      BY <3>1, <1>1 DEF Inv, TextInv
    <3> QED BY <3>1, <3>2, <2>2, <1>1, <1>4 DEF Inv, TextInv
  <2> QED BY <2>1, <2>2 DEF TextInv
<1> QED BY <1>2, <1>3, <1>4, <1>5

-----------------------------------------------------------------------------
(* What a step does to the text and the settings, whichever step it is.     *)
Extends ==
  /\ UNCHANGED settings
  /\ read' \in Nat /\ read <= read'
  /\ \A i \in 0 .. read : end'[i] = end[i]

LEMMA ChunkFacts ==
  ASSUME Inv
  PROVE  /\ read \in Nat /\ end \in [0 .. read -> Nat]
         /\ chunks \in Seq(Chunk) /\ Len(chunks) \in Nat
         /\ \A k \in 1 .. Len(chunks) :
              /\ chunks[k].from \in 1 .. read /\ chunks[k].to \in 1 .. read
              /\ chunks[k].from <= chunks[k].to
         /\ chunks # <<>> => Len(chunks) \in 1 .. Len(chunks)
         /\ Flushed \in 0 .. read
         /\ maxChars \in Int /\ overlapChars \in Int
<1>1. read \in Nat /\ end \in [0 .. read -> Nat] /\ chunks \in Seq(Chunk)
      /\ maxChars \in Int /\ overlapChars \in Int
  BY DEF Inv, TypeOK
<1>2. Len(chunks) \in Nat /\ (chunks # <<>> => Len(chunks) \in 1 .. Len(chunks))
  BY <1>1
<1>3. \A k \in 1 .. Len(chunks) :
              /\ chunks[k].from \in 1 .. read /\ chunks[k].to \in 1 .. read
              /\ chunks[k].from <= chunks[k].to
  <2> SUFFICES ASSUME NEW k \in 1 .. Len(chunks)
      PROVE  /\ chunks[k].from \in 1 .. read /\ chunks[k].to \in 1 .. read
             /\ chunks[k].from <= chunks[k].to
    OBVIOUS
  <2>1. chunks[k] \in Chunk
    BY <1>1
  <2>2. chunks[k].from \in Int /\ chunks[k].to \in Int
    BY <2>1 DEF Chunk
  <2> QED BY <2>2, <1>1 DEF Inv, ChunksInv
<1>4. Flushed \in 0 .. read
  BY <1>1, <1>2, <1>3 DEF Flushed
<1> QED BY <1>1, <1>2, <1>3, <1>4

(* The properties of the chunks at one place. *)
LEMMA PairFacts ==
  ASSUME Inv, NEW k \in 2 .. Len(chunks)
  PROVE  /\ end[chunks[k - 1].to] - end[chunks[k].from - 1] >= overlapChars
            \/ chunks[k].from = chunks[k - 1].from
         /\ chunks[k].from <= chunks[k - 1].to
              => end[chunks[k - 1].to] - end[chunks[k].from] < overlapChars
         /\ chunks[k - 1].to < chunks[k].to
         /\ chunks[k].from \in chunks[k - 1].from .. chunks[k - 1].to + 1
<1>1. Length(chunks[k].from, chunks[k - 1].to) >= overlapChars
      \/ chunks[k].from = chunks[k - 1].from
  BY DEF Inv, OverlapCarried
<1>2. chunks[k].from <= chunks[k - 1].to
        => end[chunks[k - 1].to] - end[chunks[k].from] < overlapChars
  BY DEF Inv, OverlapCarried
<1>3. chunks[k - 1].to < chunks[k].to
      /\ chunks[k].from \in chunks[k - 1].from .. chunks[k - 1].to + 1
  BY DEF Inv, EachChunkAdvances
<1> QED BY <1>1, <1>2, <1>3 DEF Length

LEMMA LimitFacts ==
  ASSUME Inv, NEW k \in 1 .. Len(chunks)
  PROVE  \/ chunks[k].from = chunks[k].to
         \/ end[chunks[k].to - 1] - end[chunks[k].from - 1] < maxChars
         \/ k > 1 /\ chunks[k - 1].to = chunks[k].to - 1
<1>1. \/ chunks[k].from = chunks[k].to
      \/ Length(chunks[k].from, chunks[k].to - 1) < maxChars
      \/ k > 1 /\ chunks[k - 1].to = chunks[k].to - 1
  BY DEF Inv, OverLimitByOneSegment
<1> QED BY <1>1 DEF Length

LEMMA TextKept ==
  ASSUME Inv, Extends, NEW i \in 1 .. read
  PROVE  end'[i] = end[i] /\ end'[i - 1] = end[i - 1]
<1>1. i \in 0 .. read /\ i - 1 \in 0 .. read
  BY ChunkFacts
<1> QED BY <1>1 DEF Extends

(* Of numbers alone: neighbouring places, and positions in the text.        *)
LEMMA Neighbours ==
  ASSUME NEW m \in Nat, NEW k \in 2 .. m
  PROVE  k \in 1 .. m /\ k - 1 \in 1 .. m
  OBVIOUS

LEMMA Starts ==
  ASSUME NEW r \in Nat, NEW f \in 1 .. r + 1, NEW c \in 1 .. r, c <= f, NEW g \in 0 .. r
  PROVE  c \in 1 .. f /\ f - 1 \in 0 .. r /\ (f <= g => f \in 0 .. r)
  OBVIOUS

LEMMA PlacesBefore ==
  ASSUME NEW r \in Nat, NEW s \in 1 .. r
  PROVE  s \in 0 .. r /\ s - 1 \in 0 .. r
  OBVIOUS

(* A step that makes no chunk leaves the properties of the chunks alone.    *)
LEMMA ChunksKept ==
  ASSUME Inv, Extends, chunks' = chunks
  PROVE  /\ ChunksInv' /\ CoverInv' /\ Flushed' = Flushed
         /\ EachChunkAdvances' /\ OverlapCarried' /\ OverLimitByOneSegment'
<1>0. /\ read \in Nat /\ end \in [0 .. read -> Nat]
      /\ chunks \in Seq(Chunk) /\ Len(chunks) \in Nat
      /\ \A k \in 1 .. Len(chunks) :
           /\ chunks[k].from \in 1 .. read /\ chunks[k].to \in 1 .. read
           /\ chunks[k].from <= chunks[k].to
      /\ maxChars \in Int /\ overlapChars \in Int
  BY ChunkFacts
<1>1. maxChars' = maxChars /\ overlapChars' = overlapChars
  BY DEF Extends, settings
<1>2. Flushed' = Flushed
  BY DEF Flushed
<1>4. ChunksInv'
  BY <1>0 DEF ChunksInv, Extends
<1>5. CoverInv'
  BY <1>2 DEF CoverInv, Inv
<1>6. EachChunkAdvances'
  BY DEF EachChunkAdvances, Inv
<1>7. OverlapCarried'
  <2> SUFFICES ASSUME NEW k \in 2 .. Len(chunks)
      PROVE  LET p == chunks[k - 1]
                 d == chunks[k]
             IN  /\ end'[p.to] - end'[d.from - 1] >= overlapChars \/ d.from = p.from
                 /\ d.from <= p.to => end'[p.to] - end'[d.from] < overlapChars
    BY <1>1, <1>0 DEF OverlapCarried, Length
  <2>0. /\ k \in 1 .. Len(chunks) /\ k - 1 \in 1 .. Len(chunks)
        /\ chunks[k - 1].to \in 0 .. read
        /\ chunks[k].from \in 0 .. read /\ chunks[k].from - 1 \in 0 .. read
    <3>1. k \in 1 .. Len(chunks) /\ k - 1 \in 1 .. Len(chunks)
      BY <1>0
    <3> QED BY <3>1, <1>0
  <2>1. end'[chunks[k - 1].to] = end[chunks[k - 1].to]
        /\ end'[chunks[k].from - 1] = end[chunks[k].from - 1]
        /\ end'[chunks[k].from] = end[chunks[k].from]
    BY <2>0 DEF Extends
  <2>2. /\ end[chunks[k - 1].to] - end[chunks[k].from - 1] >= overlapChars
           \/ chunks[k].from = chunks[k - 1].from
        /\ chunks[k].from <= chunks[k - 1].to
             => end[chunks[k - 1].to] - end[chunks[k].from] < overlapChars
    BY PairFacts
  <2> QED BY <2>1, <2>2
<1>8. OverLimitByOneSegment'
  <2> SUFFICES ASSUME NEW k \in 1 .. Len(chunks)
      PROVE  LET d == chunks[k]
             IN  \/ d.from = d.to
                 \/ end'[d.to - 1] - end'[d.from - 1] < maxChars
                 \/ k > 1 /\ chunks[k - 1].to = d.to - 1
    BY <1>1 DEF OverLimitByOneSegment, Length
  <2>0. chunks[k].to - 1 \in 0 .. read /\ chunks[k].from - 1 \in 0 .. read
    <3>1. read \in Nat /\ chunks[k].to \in 1 .. read /\ chunks[k].from \in 1 .. read
      BY <1>0
    <3> QED BY <3>1, PlacesBefore, Zenon
  <2>1. end'[chunks[k].to - 1] = end[chunks[k].to - 1]
        /\ end'[chunks[k].from - 1] = end[chunks[k].from - 1]
    BY <2>0 DEF Extends
  <2> QED BY <2>1, LimitFacts
<1> QED BY <1>2, <1>4, <1>5, <1>6, <1>7, <1>8

(* Appending, seen from the places of the sequence. *)
LEMMA Appended ==
  ASSUME Inv, NEW c \in Chunk, chunks' = Append(chunks, c)
  PROVE  /\ chunks' \in Seq(Chunk) /\ Len(chunks') = Len(chunks) + 1
         /\ chunks'[Len(chunks) + 1] = c
         /\ \A k \in 1 .. Len(chunks) : chunks'[k] = chunks[k]
BY ChunkFacts

(* A chunk made of current keeps them, and takes in all that was read.      *)
LEMMA ChunkAdded ==
  ASSUME Inv, CurrentInv, Extends,
         NEW m \in Nat, m = Len(chunks), Len(chunks') = m + 1,
         chunks'[m + 1].from = first, chunks'[m + 1].to = read',
         \A k \in 1 .. m : chunks'[k] = chunks[k],
         read' \in 1 .. MaxSegments, Flushed < read',
         end' \in [0 .. read' -> Nat],
         \/ first = read'
         \/ end'[read' - 1] - end'[first - 1] < maxChars
         \/ chunks # <<>> /\ Flushed = read' - 1
  PROVE  /\ Flushed' = read' /\ ChunksInv' /\ CoverInv'
         /\ EachChunkAdvances' /\ OverlapCarried' /\ OverLimitByOneSegment'
<1>0. /\ read \in Nat /\ read' \in Nat /\ read <= read' /\ m \in Nat
      /\ \A k \in 1 .. m :
           /\ chunks[k].from \in 1 .. read /\ chunks[k].to \in 1 .. read
           /\ chunks[k].from <= chunks[k].to
      /\ Flushed \in 0 .. read
      /\ maxChars \in Int /\ overlapChars \in Int
      /\ end' \in [0 .. read' -> Nat]
      /\ \A i \in 0 .. read : end'[i] = end[i]
  BY ChunkFacts DEF Extends
<1>1. maxChars' = maxChars /\ overlapChars' = overlapChars
  BY DEF Extends, settings
<1>2. first \in 1 .. read' /\ first <= Flushed + 1
  BY <1>0 DEF CurrentInv, Inv, TypeOK
<1>4. /\ Len(chunks') = m + 1
      /\ chunks'[m + 1].from = first /\ chunks'[m + 1].to = read'
      /\ \A k \in 1 .. m : chunks'[k] = chunks[k]
  OBVIOUS
<1>5. Flushed' = read'
  <2>1. chunks' # <<>>
    BY <1>0, <1>4
  <2> QED BY <2>1, <1>4 DEF Flushed
<1>a. read \in Nat /\ read' \in Nat /\ m \in Nat /\ Flushed \in 0 .. read /\ read <= read'
      /\ Flushed < read'
  BY <1>0
<1>b. m = Len(chunks)
  OBVIOUS
<1>6. ASSUME NEW k \in 1 .. m + 1
      PROVE  /\ k \in 1 .. m \/ k = m + 1
             /\ chunks'[k].from \in 1 .. read' /\ chunks'[k].to \in 1 .. read'
             /\ chunks'[k].from <= chunks'[k].to
  <2>1. CASE k \in 1 .. m
    BY <2>1, <1>0, <1>4
  <2>2. CASE k = m + 1
    BY <2>2, <1>0, <1>2, <1>4
  <2> QED BY <2>1, <2>2, <1>0
<1>7. ChunksInv'
  BY <1>0, <1>4, <1>6 DEF ChunksInv
<1>8. CoverInv'
  <2> SUFFICES ASSUME NEW i \in 1 .. read'
      PROVE  \E k \in 1 .. m + 1 : i \in chunks'[k].from .. chunks'[k].to
    BY <1>4, <1>5 DEF CoverInv
  <2>1. CASE i <= Flushed
    <3>1. i \in 1 .. Flushed
      BY <2>1, <1>0
    <3>2. PICK k \in 1 .. m : i \in chunks[k].from .. chunks[k].to
      BY <3>1 DEF Inv, CoverInv
    <3> QED BY <3>2, <1>0, <1>4
  <2>2. CASE i > Flushed
    <3>1. i \in chunks'[m + 1].from .. chunks'[m + 1].to
      BY <2>2, <1>0, <1>2, <1>4
    <3>2. m + 1 \in 1 .. m + 1
      BY <1>a
    <3> QED BY <3>1, <3>2
  <2> QED BY <2>1, <2>2, <1>0
<1>9. ASSUME chunks # <<>>
      PROVE  /\ m \in 1 .. m /\ chunks'[m].to = Flushed
             /\ chunks'[m].from \in 1 .. first
             /\ end'[Flushed] - end'[first - 1] >= overlapChars \/ first = chunks'[m].from
             /\ first <= Flushed => end'[Flushed] - end'[first] < overlapChars
  <2>1. m \in 1 .. m /\ chunks[m].to = Flushed /\ chunks[m].from <= first
        /\ (Length(first, Flushed) >= overlapChars \/ first = chunks[m].from)
        /\ (first <= Flushed => end[Flushed] - end[first] < overlapChars)
    BY <1>9, ChunkFacts DEF CurrentInv, Flushed
  <2>2. /\ chunks'[m] = chunks[m] /\ chunks[m].from \in 1 .. first
        /\ first - 1 \in 0 .. read
        /\ first <= Flushed => first \in 0 .. read
    <3>1. chunks'[m] = chunks[m] /\ chunks[m].from \in 1 .. read
      BY <2>1, <1>0, <1>4
    <3>2. first \in 1 .. read + 1
      BY <1>a, <1>2
    <3>3. read \in Nat /\ Flushed \in 0 .. read /\ chunks[m].from <= first
      BY <2>1, <1>a
    <3> QED BY <3>1, <3>2, <3>3, Starts
  <2>3. /\ end'[Flushed] = end[Flushed] /\ end'[first - 1] = end[first - 1]
        /\ first <= Flushed => end'[first] = end[first]
    BY <2>2, <1>0
  <2>4. end[Flushed] - end[first - 1] >= overlapChars \/ first = chunks[m].from
    BY <2>1 DEF Length
  <2>5. first <= Flushed => end[Flushed] - end[first] < overlapChars
    BY <2>1, <2>2 DEF Length
  <2> QED BY <2>1, <2>2, <2>3, <2>4, <2>5
<1>10. ASSUME NEW k \in 2 .. m + 1
       PROVE  /\ chunks'[k - 1].to < chunks'[k].to
              /\ chunks'[k].from \in chunks'[k - 1].from .. chunks'[k - 1].to + 1
              /\ end'[chunks'[k - 1].to] - end'[chunks'[k].from - 1] >= overlapChars
                 \/ chunks'[k].from = chunks'[k - 1].from
              /\ chunks'[k].from <= chunks'[k - 1].to
                   => end'[chunks'[k - 1].to] - end'[chunks'[k].from] < overlapChars
  <2>1. CASE k \in 2 .. m
    <3>1. k \in 1 .. m /\ k - 1 \in 1 .. m
      BY <2>1, Neighbours, Zenon
    <3>2. chunks'[k] = chunks[k] /\ chunks'[k - 1] = chunks[k - 1]
      BY <3>1, <1>4
    <3>3. chunks[k - 1].to \in 1 .. read /\ chunks[k].from \in 1 .. read
      BY <3>1, <1>0
    <3>4. /\ end'[chunks[k - 1].to] = end[chunks[k - 1].to]
          /\ end'[chunks[k].from - 1] = end[chunks[k].from - 1]
          /\ end'[chunks[k].from] = end[chunks[k].from]
      BY <3>3, TextKept
    <3> QED BY <2>1, <3>2, <3>4, <1>b, PairFacts
  <2>2. CASE k = m + 1
    <3>1. m # 0 /\ k - 1 = m
      BY <2>2, <1>0
    <3>2. chunks # <<>>
      BY <3>1, <1>b
    <3>3. /\ chunks'[k - 1].to = Flushed
          /\ chunks'[k].from = first /\ chunks'[k].to = read'
          /\ chunks'[k - 1].from \in 1 .. first
      BY <2>2, <3>1, <3>2, <1>4, <1>9
    <3>4. /\ end'[Flushed] - end'[first - 1] >= overlapChars \/ first = chunks'[k - 1].from
          /\ first <= Flushed => end'[Flushed] - end'[first] < overlapChars
      BY <3>1, <3>2, <1>9
    <3>5. first \in chunks'[k - 1].from .. Flushed + 1
      <4>1. first \in Int /\ Flushed \in Int /\ first <= Flushed + 1
        BY <1>2, <1>a
      <4>2. chunks'[k - 1].from \in Int /\ chunks'[k - 1].from <= first
        BY <3>3, <4>1
      <4> QED BY <4>1, <4>2
    <3> QED BY <3>3, <3>4, <3>5, <1>a
  <2> QED BY <2>1, <2>2, <1>0
<1>11. EachChunkAdvances'
  BY <1>4, <1>10 DEF EachChunkAdvances
<1>12. OverlapCarried'
  <2>1. ASSUME NEW k \in 2 .. m + 1
        PROVE  Length(chunks[k].from, chunks[k - 1].to)' >= overlapChars'
               \/ chunks'[k].from = chunks'[k - 1].from
    BY <1>1, <1>10 DEF Length
  <2> QED BY <2>1, <1>1, <1>4, <1>10 DEF OverlapCarried
<1>13. OverLimitByOneSegment'
  <2> SUFFICES ASSUME NEW k \in 1 .. m + 1
      PROVE  \/ chunks'[k].from = chunks'[k].to
             \/ end'[chunks'[k].to - 1] - end'[chunks'[k].from - 1] < maxChars
             \/ k > 1 /\ chunks'[k - 1].to = chunks'[k].to - 1
    BY <1>1, <1>4 DEF OverLimitByOneSegment, Length
  <2>1. CASE k \in 1 .. m
    <3>1. k > 1 => k - 1 \in 1 .. m
      BY <2>1, <1>0
    <3>2. chunks'[k] = chunks[k] /\ (k > 1 => chunks'[k - 1] = chunks[k - 1])
      BY <2>1, <3>1, <1>4
    <3>3. chunks[k].to \in 1 .. read /\ chunks[k].from \in 1 .. read
      BY <2>1, <1>0
    <3>4. /\ end'[chunks[k].to - 1] = end[chunks[k].to - 1]
          /\ end'[chunks[k].from - 1] = end[chunks[k].from - 1]
      BY <3>3, TextKept
    <3> QED BY <2>1, <3>2, <3>4, <1>b, LimitFacts
  <2>2. CASE k = m + 1
    <3>1. chunks # <<>> => k > 1 /\ k - 1 = m
      BY <2>2, <1>0, <1>9
    <3> QED BY <2>2, <3>1, <1>4, <1>9
  <2> QED BY <2>1, <2>2, <1>6
<1> QED BY <1>5, <1>7, <1>8, <1>11, <1>12, <1>13

-----------------------------------------------------------------------------
(* The steps of the loop                                                    *)

LEMMA LoopFacts ==
  ASSUME Inv, ~returned, NEW len \in 1 .. MaxLength, ReadSegment(len)
  PROVE  /\ CurrentInv /\ Extends /\ TextInv' /\ ~returned'
         /\ read \in Nat /\ read' = read + 1 /\ read' \in 1 .. MaxSegments
         /\ end' \in [0 .. read' -> Nat]
         /\ end'[read'] = end[read] + len
         /\ first \in 1 .. read + 1 /\ end'[first - 1] = end[first - 1]
         /\ currentLen = end[read] - end[first - 1]
         /\ currentLen + len = end'[read'] - end'[first - 1]
         /\ end[first - 1] \in Nat /\ end[read] \in Nat
         /\ maxChars' = maxChars /\ overlapChars' = overlapChars
         /\ maxChars \in Settings /\ overlapChars \in Settings
<1>1. CurrentInv
  BY DEF Inv
<1>2. UNCHANGED settings /\ ~returned'
  BY DEF ReadSegment
<1>3. maxChars' = maxChars /\ overlapChars' = overlapChars
  BY <1>2 DEF settings
<1>4. Extends
  BY <1>2, TextGrows DEF Extends
<1>5. first \in 1 .. read + 1
  <2>1. Flushed \in 0 .. read /\ read \in Nat
    BY ChunkFacts
  <2>2. first \in 1 .. MaxSegments + 1 /\ first <= Flushed + 1
    BY <1>1 DEF CurrentInv, Inv, TypeOK
  <2> QED BY <2>1, <2>2
<1>6. currentLen = end[read] - end[first - 1] /\ end[first - 1] \in Nat /\ end[read] \in Nat
  <2>1. currentLen = Length(first, read)
    BY <1>1 DEF CurrentInv
  <2>2. first - 1 \in 0 .. read /\ read \in 0 .. read /\ end \in [0 .. read -> Nat]
    BY <1>5, ChunkFacts
  <2> QED BY <2>1, <2>2 DEF Length
<1>7. end'[first - 1] = end[first - 1]
  <2>1. first - 1 \in 0 .. read
    BY <1>5, ChunkFacts
  <2> QED BY <2>1, TextGrows
<1>8. maxChars \in Settings /\ overlapChars \in Settings
  BY DEF Inv, TypeOK
<1>9. /\ read \in Nat /\ read' = read + 1 /\ read' \in 1 .. MaxSegments
      /\ end' \in [0 .. read' -> Nat] /\ end'[read'] = end[read] + len /\ TextInv'
  BY TextGrows
<1>10. currentLen + len = end'[read'] - end'[first - 1]
  BY <1>6, <1>7, <1>9
<1> QED BY <1>1, <1>2, <1>3, <1>4, <1>5, <1>6, <1>7, <1>8, <1>9, <1>10

LEMMA AccumulateInv ==
  ASSUME Inv, NEW len \in 1 .. MaxLength, Accumulate(len)
  PROVE  Inv'
<1>1. ~returned /\ ReadSegment(len) /\ chunks' = chunks /\ first' = first
      /\ currentLen' = currentLen + len /\ newSinceFlush' = TRUE
      /\ currentLen + len < maxChars
  BY DEF Accumulate, ReadSegment, Fits
<1>2. /\ ChunksInv' /\ CoverInv' /\ Flushed' = Flushed
      /\ EachChunkAdvances' /\ OverlapCarried' /\ OverLimitByOneSegment'
  BY <1>1, LoopFacts, ChunksKept
<1>3. TypeOK'
  <2>1. /\ first \in 1 .. MaxSegments + 1 /\ currentLen \in Nat
        /\ chunks \in Seq(Chunk) /\ returned' \in BOOLEAN
    BY <1>1 DEF TypeOK, Inv, ReadSegment
  <2>2. currentLen + len \in Nat
    BY <2>1
  <2>3. read' \in 0 .. MaxSegments /\ read' \in Nat
    BY LoopFacts, <1>1
  <2> QED BY <1>1, <2>1, <2>2, <2>3, LoopFacts DEF TypeOK
<1>4. CurrentInv'
  <2>1. first' <= Flushed' + 1 /\ Flushed' <= read' /\ (chunks' = <<>> => first' = 1)
        /\ Flushed' < read'
    <3>1. read \in Nat /\ read' = read + 1 /\ first' = first /\ chunks' = chunks
      BY <1>1, LoopFacts
    <3>2. first <= Flushed + 1 /\ (chunks = <<>> => first = 1) /\ Flushed \in 0 .. read
      BY <1>1, LoopFacts, ChunkFacts DEF CurrentInv
    <3>3. Flushed <= read' /\ Flushed < read'
      BY <3>1, <3>2
    <3> QED BY <1>2, <3>1, <3>2, <3>3
  <2>2. currentLen' = Length(first, read)'
    BY <1>1, LoopFacts DEF Length
  <2>3. ASSUME chunks' # <<>>
        PROVE  LET c == chunks[Len(chunks)]
               IN  /\ c.from <= first
                   /\ end'[c.to] - end'[first - 1] >= overlapChars \/ first = c.from
                   /\ first <= c.to => end'[c.to] - end'[first] < overlapChars
    <3>1. /\ chunks[Len(chunks)].from <= first
          /\ Length(first, chunks[Len(chunks)].to) >= overlapChars
             \/ first = chunks[Len(chunks)].from
      BY <2>3, <1>1, LoopFacts DEF CurrentInv
    <3>a. first <= chunks[Len(chunks)].to
            => end[chunks[Len(chunks)].to] - end[first] < overlapChars
      BY <2>3, <1>1, LoopFacts DEF CurrentInv
    <3>2. chunks[Len(chunks)].to \in 1 .. read
      BY <2>3, <1>1, ChunkFacts
    <3>3. end'[chunks[Len(chunks)].to] = end[chunks[Len(chunks)].to]
      BY <1>1, <3>2, LoopFacts, TextKept
    <3>4. first <= chunks[Len(chunks)].to => first \in 1 .. read
      BY <1>1, <3>2, LoopFacts
    <3>5. first <= chunks[Len(chunks)].to => end'[first] = end[first]
      BY <1>1, <3>4, LoopFacts, TextKept
    <3>6. end'[first - 1] = end[first - 1]
      BY <1>1, LoopFacts
    <3>7. end[chunks[Len(chunks)].to] - end[first - 1] >= overlapChars
          \/ first = chunks[Len(chunks)].from
      BY <3>1 DEF Length
    <3> QED BY <3>1, <3>3, <3>5, <3>6, <3>7, <3>a
  <2> QED BY <1>1, <2>1, <2>2, <2>3, LoopFacts DEF CurrentInv, Length
<1> QED BY <1>1, <1>2, <1>3, <1>4, LoopFacts DEF Inv

(* Positions just before and at a segment. *)
LEMMA Positions ==
  ASSUME NEW r \in Nat, NEW s \in Nat, 1 <= s, s <= r + 1
  PROVE  s - 1 \in 0 .. r /\ r \in 0 .. r
  OBVIOUS

LEMMA AllFlushed ==
  ASSUME NEW r \in Nat, NEW s \in Nat, NEW f, NEW p, s <= r + 1, f = r, p = s
  PROVE  p <= f + 1 /\ f <= r /\ ~(f < r)
  OBVIOUS

LEMMA FlushInv ==
  ASSUME Inv, NEW len \in 1 .. MaxLength, Flush(len)
  PROVE  Inv'
<1>1. /\ ~returned /\ ReadSegment(len) /\ ~(currentLen + len < maxChars)
      /\ chunks' = Append(chunks, [from |-> first, to |-> read']) /\ newSinceFlush' = FALSE
  BY DEF Flush, ReadSegment, Fits
<1>2. PICK s \in 1 .. MaxSegments + 1 :
        /\ SeedStart(s) /\ first' = s /\ currentLen' = end'[read'] - end'[s - 1]
  BY DEF Flush
<1>a. s \in first .. read' + 1 /\ first \in 1 .. read + 1 /\ read \in Nat /\ read' = read + 1
  BY <1>1, <1>2, LoopFacts DEF SeedStart
<1>b. /\ first \in Nat /\ 1 <= first /\ read' \in Nat
      /\ s \in Nat /\ 1 <= s /\ s <= read' + 1 /\ first <= s
  BY <1>a
<1>3. /\ s > first => end'[read'] - end'[s - 1] >= overlapChars
      /\ s <= read' => end'[read'] - end'[s] < overlapChars
  BY <1>1, <1>2, LoopFacts DEF SeedStart
<1>4. Flushed \in 0 .. read /\ Flushed < read'
  BY <1>1, ChunkFacts, LoopFacts
<1>5. [from |-> first, to |-> read'] \in Chunk
  BY <1>1, LoopFacts DEF Chunk
<1>6. PICK m \in Nat :
        /\ m = Len(chunks) /\ Len(chunks') = m + 1 /\ chunks' \in Seq(Chunk)
        /\ chunks'[m + 1].from = first /\ chunks'[m + 1].to = read'
        /\ \A k \in 1 .. m : chunks'[k] = chunks[k]
  BY <1>1, <1>5, Appended, ChunkFacts
<1>7. \/ first = read'
      \/ end'[read' - 1] - end'[first - 1] < maxChars
      \/ chunks # <<>> /\ Flushed = read' - 1
  <2>1. end'[read' - 1] - end'[first - 1] = currentLen
    <3>1. read' - 1 = read /\ end'[first - 1] = end[first - 1]
          /\ currentLen = end[read] - end[first - 1] /\ read \in 0 .. read
      BY <1>1, LoopFacts
    <3>2. end'[read] = end[read]
      BY <1>1, <3>1, TextGrows
    <3> QED BY <3>1, <3>2
  <2>2. CASE newSinceFlush
    BY <1>1, <2>1, <2>2, LoopFacts DEF CurrentInv
  <2>3. CASE ~newSinceFlush
    <3>1. Flushed = read /\ (chunks = <<>> => Flushed = 0 /\ first = 1)
      BY <1>1, <1>4, <2>3, LoopFacts DEF CurrentInv, Flushed
    <3> QED BY <1>1, <3>1, LoopFacts
  <2> QED BY <2>2, <2>3
<1>8. /\ Flushed' = read' /\ ChunksInv' /\ CoverInv'
      /\ EachChunkAdvances' /\ OverlapCarried' /\ OverLimitByOneSegment'
  BY <1>1, <1>4, <1>6, <1>7, LoopFacts, ChunkAdded
<1>9. currentLen' \in Nat
  <2>1. s - 1 \in 0 .. read' /\ read' \in 0 .. read'
    BY <1>b, Positions
  <2>2. end'[s - 1] \in Nat /\ end'[read'] \in Nat
    BY <1>1, <2>1, LoopFacts
  <2>3. s - 1 = read' \/ end'[s - 1] < end'[read']
    BY <1>1, <2>1, LoopFacts DEF TextInv
  <2> QED BY <1>2, <2>1, <2>2, <2>3
<1>10. TypeOK'
  <2>1. returned' \in BOOLEAN
    BY <1>1 DEF TypeOK, Inv, ReadSegment
  <2>2. read' \in 0 .. MaxSegments
    BY <1>1, LoopFacts
  <2> QED BY <1>1, <1>2, <1>6, <1>9, <2>1, <2>2, LoopFacts DEF TypeOK
<1>11. CurrentInv'
  <2>1. first' <= Flushed' + 1 /\ Flushed' <= read' /\ chunks' # <<>> /\ ~(Flushed' < read')
    <3>1. read' \in Nat
      BY <1>b
    <3>2. chunks' # <<>>
      BY <1>6
    <3>3. s <= read' + 1 /\ s \in Nat
      BY <1>b
    <3>4. Flushed' = read' /\ first' = s
      BY <1>2, <1>8
    <3>5. first' <= Flushed' + 1 /\ Flushed' <= read' /\ ~(Flushed' < read')
      BY <3>1, <3>3, <3>4, AllFlushed
    <3> QED BY <3>2, <3>5
  <2>2. currentLen' = Length(first, read)'
    BY <1>2 DEF Length
  <2>3. LET c == chunks'[Len(chunks')]
        IN  /\ c.from <= first'
            /\ end'[c.to] - end'[first' - 1] >= overlapChars' \/ first' = c.from
            /\ first' <= c.to => end'[c.to] - end'[first'] < overlapChars'
    <3>1. first <= s /\ (s > first \/ s = first)
      BY <1>a, <1>b
    <3> QED BY <1>1, <1>2, <1>3, <1>6, <3>1, LoopFacts
  <2>4. Length(first, chunks[Len(chunks)].to)' >= overlapChars'
        \/ first' = chunks'[Len(chunks')].from
    BY <2>3 DEF Length
  <2> QED BY <1>1, <2>1, <2>2, <2>3, <2>4 DEF CurrentInv
<1> QED BY <1>1, <1>8, <1>10, <1>11, LoopFacts DEF Inv

LEMMA ReturnInv ==
  ASSUME Inv, Return
  PROVE  Inv'
<1>1. /\ ~returned /\ returned' = TRUE /\ settings' = settings /\ read' = read
      /\ end' = end /\ first' = first /\ currentLen' = currentLen
      /\ newSinceFlush' = newSinceFlush
  BY DEF Return
<1>2. CurrentInv /\ read \in 0 .. MaxSegments /\ end \in [0 .. read -> Nat]
      /\ first \in 1 .. MaxSegments + 1 /\ Flushed \in 0 .. read
  BY <1>1, ChunkFacts DEF Inv, TypeOK
<1>3. Extends
  BY <1>1, <1>2 DEF Extends
<1>4. TextInv'
  BY <1>1 DEF TextInv, Inv
<1>5. CASE newSinceFlush
  <2>1. Flushed < read /\ first \in 1 .. read /\ currentLen < maxChars
        /\ currentLen = end[read] - end[first - 1]
    BY <1>2, <1>5 DEF CurrentInv, Length
  <2>2. chunks' = Append(chunks, [from |-> first, to |-> read])
    BY <1>2, <1>5, <2>1 DEF Return
  <2>3. [from |-> first, to |-> read] \in Chunk
    BY <1>2, <2>1 DEF Chunk
  <2>4. PICK m \in Nat :
          /\ m = Len(chunks) /\ Len(chunks') = m + 1 /\ chunks' \in Seq(Chunk)
          /\ chunks'[m + 1].from = first /\ chunks'[m + 1].to = read'
          /\ \A k \in 1 .. m : chunks'[k] = chunks[k]
    BY <1>1, <2>2, <2>3, Appended, ChunkFacts
  <2>5. first = read' \/ end'[read' - 1] - end'[first - 1] < maxChars
    <3>1. read - 1 \in 0 .. read /\ first - 1 \in 0 .. read
      BY <1>2, <2>1
    <3>2. end[read - 1] < end[read]
      BY <1>2, <2>1, <3>1 DEF Inv, TextInv
    <3>3. end[read - 1] \in Nat /\ end[read] \in Nat /\ end[first - 1] \in Nat
          /\ maxChars \in Int
      BY <1>2, <3>1, ChunkFacts
    <3> QED BY <1>1, <2>1, <3>2, <3>3
  <2>6. /\ Flushed' = read' /\ ChunksInv' /\ CoverInv'
        /\ EachChunkAdvances' /\ OverlapCarried' /\ OverLimitByOneSegment'
    <3>1. read' \in 1 .. MaxSegments /\ Flushed < read' /\ end' \in [0 .. read' -> Nat]
      BY <1>1, <1>2, <2>1
    <3> QED BY <1>2, <1>3, <2>4, <2>5, <3>1, ChunkAdded
  <2>7. TypeOK'
    BY <1>1, <2>4 DEF TypeOK, Inv, settings
  <2> QED BY <1>1, <1>4, <2>6, <2>7 DEF Inv
<1>6. CASE ~newSinceFlush
  <2>1. chunks' = chunks
    BY <1>6 DEF Return
  <2>2. Flushed = read
    BY <1>2, <1>6 DEF CurrentInv
  <2>3. TypeOK'
    BY <1>1, <2>1 DEF TypeOK, Inv, settings
  <2>4. /\ ChunksInv' /\ CoverInv' /\ Flushed' = Flushed
        /\ EachChunkAdvances' /\ OverlapCarried' /\ OverLimitByOneSegment'
    BY <1>3, <2>1, ChunksKept
  <2> QED BY <1>1, <1>4, <2>2, <2>3, <2>4 DEF Inv
<1> QED BY <1>5, <1>6

THEOREM Invariance == Spec => []Inv
<1>1. Init => Inv
  BY InvInit
<1>2. Inv /\ [Next]_vars => Inv'
  <2> SUFFICES ASSUME Inv, [Next]_vars
      PROVE  Inv'
    OBVIOUS
  <2>1. ASSUME NEW len \in 1 .. MaxLength, Accumulate(len)
        PROVE  Inv'
    BY <2>1, AccumulateInv
  <2>2. ASSUME NEW len \in 1 .. MaxLength, Flush(len)
        PROVE  Inv'
    BY <2>2, FlushInv
  <2>3. CASE Return
    BY <2>3, ReturnInv
  <2>4. CASE UNCHANGED vars
    BY <2>4 DEF vars, settings, Inv, TypeOK, TextInv, ChunksInv, CoverInv, CurrentInv,
       Flushed, Length, EachChunkAdvances, OverlapCarried, OverLimitByOneSegment
  <2> QED BY <2>1, <2>2, <2>3, <2>4 DEF Next
<1> QED BY <1>1, <1>2, PTL DEF Spec

(* Chunks stay intervals of segments that were read, whatever the settings. *)
THEOREM TypeCorrect == Spec => []TypeOK
BY Invariance, PTL DEF Inv

(* When chunk_segments returns, every segment of the transcript is in a     *)
(* chunk, for a transcript of any length and settings of any value: zero    *)
(* and negative ones too, which the configuration accepts.                  *)
THEOREM NothingIsLost == Spec => []NothingLost
<1>1. Inv => NothingLost
  <2> SUFFICES ASSUME Inv, returned
               PROVE  Flushed = read /\ CoverInv
    BY DEF NothingLost, CoverInv
  <2> QED BY DEF Inv
<1> QED BY <1>1, Invariance, PTL

(* Each chunk has a segment the one before it lacks and starts within it or *)
(* right behind it: the loop cannot emit one chunk twice.                   *)
THEOREM ChunksAdvance == Spec => []EachChunkAdvances
BY Invariance, PTL DEF Inv

(* What a chunk repeats is the shortest tail with chunk_overlap_chars.      *)
THEOREM OverlapIsCarried == Spec => []OverlapCarried
BY Invariance, PTL DEF Inv

(* Without its last segment a chunk is below the limit, unless the overlap  *)
(* fills the limit by itself.                                               *)
THEOREM LimitIsPassedOnce == Spec => []OverLimitByOneSegment
BY Invariance, PTL DEF Inv

-----------------------------------------------------------------------------
(* Transcription, and the two together                                      *)

(* Among names of one length the loop takes the pieces as they were cut. *)
TakenInOrder ==
  pieces <= Capacity => \A i \in taken, j \in Piece : j < i => j \in taken

(* Segments and languages are of pieces already transcribed. *)
OrderTypeOK ==
  /\ pieces \in Nat
  /\ taken \subseteq Piece
  /\ transcript \in Seq(taken)
  /\ recognised \subseteq taken
  /\ detected \in recognised \cup {NoPiece}
  /\ detected = NoPiece => recognised = {}

OrderInv == OrderTypeOK /\ TakenInOrder /\ PlaybackOrder

USE TranscriptionAssumption

-----------------------------------------------------------------------------
LEMMA OrderInit == TranscriptionInit => OrderInv
BY DEF TranscriptionInit, AsrInit, OrderInv, OrderTypeOK, TakenInOrder, PlaybackOrder, Piece

(* The next piece was cut right behind the last one taken. *)
LEMMA NextIsLater ==
  ASSUME OrderInv, pieces <= Capacity, NEW i, IsNext(i)
  PROVE  /\ i \in Nat
         /\ \A j \in taken : j < i
         /\ \A j \in Piece : j < i => j \in taken
<1>1. i \in Piece \ taken /\ pieces \in Nat /\ taken \subseteq Piece
  BY DEF IsNext, OrderInv, OrderTypeOK
<1>2. i \in Nat
  BY <1>1 DEF Piece
<1>3. \A j \in taken : j < i
  BY <1>1 DEF OrderInv, TakenInOrder, Piece
<1>4. ASSUME NEW j \in Piece, j < i, j \notin taken
      PROVE  FALSE
  <2>1. Precedes(i, j)
    BY <1>1, <1>4 DEF IsNext, Piece
  <2>2. Lead(i) = i /\ Lead(j) = j
    BY <1>1, <1>4 DEF Lead, Piece
  <2> QED BY <1>1, <1>4, <2>1, <2>2 DEF Precedes, Piece
<1> QED BY <1>2, <1>3, <1>4

LEMMA TranscribeFileOrder ==
  ASSUME OrderInv, NEW i, TranscribeFile(i)
  PROVE  OrderInv'
<1>1. PICK n \in 0 .. MaxAnswer : transcript' = transcript \o [k \in 1 .. n |-> i]
  BY DEF TranscribeFile
<1>2. /\ IsNext(i) /\ i \in Piece \ taken /\ pieces' = pieces /\ pieces \in Nat
      /\ taken' = taken \cup {i} /\ taken \subseteq Piece /\ Piece' = Piece
  BY DEF TranscribeFile, IsNext, OrderInv, OrderTypeOK, Piece
<1>3. /\ transcript \in Seq(taken') /\ [k \in 1 .. n |-> i] \in Seq(taken')
      /\ transcript' \in Seq(taken')
      /\ Len(transcript') = Len(transcript) + n
      /\ \A a \in 1 .. Len(transcript') :
           transcript'[a] = IF a <= Len(transcript) THEN transcript[a] ELSE i
  <2>1. transcript \in Seq(taken') /\ n \in Nat
    BY <1>2 DEF OrderInv, OrderTypeOK
  <2>2. [k \in 1 .. n |-> i] \in Seq(taken') /\ Len([k \in 1 .. n |-> i]) = n
    BY <1>2, <2>1
  <2>3. /\ transcript' \in Seq(taken')
        /\ Len(transcript') = Len(transcript) + n
    BY <1>1, <2>1, <2>2
  <2>4. \A a \in 1 .. Len(transcript') :
          transcript'[a] = IF a <= Len(transcript) THEN transcript[a]
                           ELSE [k \in 1 .. n |-> i][a - Len(transcript)]
    BY <1>1, <2>1, <2>2, <2>3
  <2> QED BY <2>1, <2>2, <2>3, <2>4
<1>4. /\ recognised' \subseteq taken'
      /\ detected' \in recognised' \cup {NoPiece}
      /\ detected' = NoPiece => recognised' = {}
  <2>1. i # NoPiece
    BY <1>2 DEF NoPiece, Piece
  <2>2. /\ recognised \subseteq taken /\ detected \in recognised \cup {NoPiece}
        /\ detected = NoPiece => recognised = {}
    BY DEF OrderInv, OrderTypeOK
  <2>3. CASE recognised' = recognised /\ detected' = detected
    BY <1>2, <2>2, <2>3
  <2>4. CASE /\ recognised' = recognised \cup {i}
             /\ detected' = IF detected = NoPiece THEN i ELSE detected
    BY <1>2, <2>1, <2>2, <2>4
  <2> QED BY <2>3, <2>4 DEF TranscribeFile
<1>5. OrderTypeOK'
  BY <1>2, <1>3, <1>4 DEF OrderTypeOK
<1>6. CASE pieces <= Capacity
  <2>1. /\ i \in Nat /\ \A j \in taken : j < i
        /\ \A j \in Piece : j < i => j \in taken
    BY <1>2, <1>6, NextIsLater
  <2>2. TakenInOrder'
    BY <1>2, <2>1 DEF OrderInv, TakenInOrder, Piece
  <2>3. ASSUME NEW a \in 1 .. Len(transcript'), NEW b \in 1 .. Len(transcript'), a <= b
        PROVE  transcript'[a] <= transcript'[b]
    <3>1. /\ Len(transcript) \in Nat
          /\ \A c \in 1 .. Len(transcript) : transcript[c] \in taken
      BY DEF OrderInv, OrderTypeOK
    <3>2. CASE b <= Len(transcript)
      <4>1. a \in 1 .. Len(transcript) /\ b \in 1 .. Len(transcript)
        BY <2>3, <3>1, <3>2
      <4>2. transcript[a] <= transcript[b]
        BY <1>6, <2>3, <4>1 DEF OrderInv, PlaybackOrder
      <4> QED BY <1>3, <2>3, <3>1, <4>1, <4>2
    <3>3. CASE a <= Len(transcript) /\ ~(b <= Len(transcript))
      <4>1. a \in 1 .. Len(transcript)
        BY <2>3, <3>1, <3>3
      <4>2. transcript[a] \in Int /\ transcript[a] < i
        <5>1. transcript[a] \in taken
          BY <3>1, <4>1
        <5>2. taken \subseteq 0 .. pieces - 1
          BY <1>2 DEF Piece
        <5>3. transcript[a] \in 0 .. pieces - 1
          BY <5>1, <5>2
        <5>4. transcript[a] < i
          BY <2>1, <5>1
        <5> QED BY <5>3, <5>4
      <4>3. transcript'[a] = transcript[a] /\ transcript'[b] = i
        BY <1>3, <2>3, <3>3
      <4> QED BY <2>1, <4>2, <4>3
    <3>4. CASE ~(a <= Len(transcript))
      BY <1>3, <2>1, <2>3, <3>4 DEF OrderInv, OrderTypeOK
    <3> QED BY <3>2, <3>3, <3>4
  <2>4. \A k \in recognised' : detected' \in recognised' /\ detected' <= k
    <3>1. /\ \A k \in recognised : detected \in recognised /\ detected <= k
          /\ detected \in recognised \cup {NoPiece} /\ recognised \subseteq taken
          /\ detected = NoPiece => recognised = {}
      BY <1>6 DEF OrderInv, OrderTypeOK, PlaybackOrder
    <3>2. CASE recognised' = recognised /\ detected' = detected
      BY <3>1, <3>2
    <3>3. CASE /\ recognised' = recognised \cup {i}
               /\ detected' = IF detected = NoPiece THEN i ELSE detected
      BY <2>1, <3>1, <3>3
    <3> QED BY <3>2, <3>3 DEF TranscribeFile
  <2> QED BY <1>5, <2>2, <2>3, <2>4 DEF OrderInv, PlaybackOrder
<1>7. CASE ~(pieces <= Capacity)
  BY <1>2, <1>5, <1>7 DEF OrderInv, TakenInOrder, PlaybackOrder
<1> QED BY <1>6, <1>7

-----------------------------------------------------------------------------
(* Up to the capacity of the names (1000 pieces in the code) the segments   *)
(* are in playback order, and the language is the first one recognised.     *)
THEOREM PlaybackIsKept == TranscriptionSpec => []PlaybackOrder
<1>1. TranscriptionInit => OrderInv
  BY OrderInit
<1>2. OrderInv /\ [TranscriptionNext]_transcriptionVars => OrderInv'
  <2> SUFFICES ASSUME OrderInv, [TranscriptionNext]_transcriptionVars
               PROVE  OrderInv'
    OBVIOUS
  <2>1. CASE \E i \in Piece : TranscribeFile(i)
    BY <2>1, TranscribeFileOrder
  <2>2. CASE UNCHANGED <<pieces, taken, transcript, recognised, detected>>
    BY <2>2 DEF OrderInv, OrderTypeOK, TakenInOrder, PlaybackOrder, Piece
  <2> QED BY <2>1, <2>2 DEF TranscriptionNext, Fail, Transcribed, ChunkSegments, asrVars,
                            transcriptionVars
<1>3. OrderInv => PlaybackOrder
  BY DEF OrderInv
<1> QED BY <1>1, <1>2, <1>3, PTL DEF TranscriptionSpec

(* Whatever the transcription yields, the loop over it runs as Chunking     *)
(* says: its theorems hold of the composition.                              *)
THEOREM ChunkingIsComposed == TranscriptionSpec => Spec
<1>1. TranscriptionInit => Init
  BY DEF TranscriptionInit
<1>2. [TranscriptionNext]_transcriptionVars => [Next]_vars
  BY DEF TranscriptionNext, transcriptionVars, TranscribeFile, Fail, Transcribed,
         ChunkSegments, Next
<1> QED BY <1>1, <1>2, PTL DEF TranscriptionSpec, Spec

(* So the chunks made of a recording lose none of its segments, each brings *)
(* some of its own, neighbours share the overlap asked for, and a chunk     *)
(* passes the limit by its last segment only.                               *)
THEOREM RecordingIsCovered ==
  TranscriptionSpec =>
    [](TypeOK /\ NothingLost /\ EachChunkAdvances /\ OverlapCarried /\ OverLimitByOneSegment)
BY ChunkingIsComposed, TypeCorrect, NothingIsLost, ChunksAdvance, OverlapIsCarried,
   LimitIsPassedOnce, PTL
=============================================================================
