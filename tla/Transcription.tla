--------------------------- MODULE Transcription ----------------------------
(***************************************************************************)
(* From the audio to the chunks of the map step: split_audio of            *)
(* transcribe/audio.py, transcribe of transcribe/transcribe_audio.py, what *)
(* pipeline.process_job makes of its outcome, and then Chunking.           *)
(*                                                                         *)
(* ffmpeg names the pieces chunk_000.wav, chunk_001.wav ...; they are      *)
(* transcribed in the order in which sorted() puts the names.  Of a        *)
(* segment this keeps the piece it was heard in, of the detected language  *)
(* the piece it was detected in.  A recording short enough to be sent as   *)
(* it is counts as one piece.                                              *)
(***************************************************************************)
EXTENDS Chunking

CONSTANTS
  Radix,         \* 10: numbers are written in decimal
  Capacity,      \* 1000, a power of Radix: the numbers %03d writes in one length
  MaxPieces,     \* bound: pieces of a recording
  MaxAnswer      \* bound: segments heard in a piece

(* The last is a bound too: names are at most one digit longer than padded. *)
ASSUME TranscriptionAssumption ==
  /\ Radix \in Nat \ {0}
  /\ Capacity \in Nat \ {0}
  /\ MaxPieces \in Nat
  /\ MaxAnswer \in Nat
  /\ MaxPieces <= Capacity * Radix

VARIABLES
  pieces,       \* how many there are
  taken,        \* those that were transcribed
  transcript,   \* segments: the piece each comes from
  recognised,   \* the pieces whose language the provider reported
  detected,     \* the language of the whole: the piece it is from, or NoPiece
  phase

asrVars == <<pieces, taken, transcript, recognised, detected, phase>>
transcriptionVars == <<vars, asrVars>>

Piece == 0 .. pieces - 1
NoPiece == -1

AsrInit ==
  /\ pieces \in 1 .. MaxPieces
  /\ taken = {}
  /\ transcript = <<>>
  /\ recognised = {}
  /\ detected = NoPiece
  /\ phase = "asr"

TranscriptionInit == Init /\ AsrInit

-----------------------------------------------------------------------------
(* A longer name is sorted among the shorter ones, behind the one that is   *)
(* its beginning: chunk_1000.wav between chunk_100.wav and chunk_101.wav.   *)
Lead(i) == IF i < Capacity THEN i ELSE i \div Radix

(* The order of the names as strings. *)
Precedes(i, j) == Lead(i) < Lead(j) \/ (Lead(i) = Lead(j) /\ i < j)

-----------------------------------------------------------------------------
(* Faulty variants, for showing that a property can fail.                   *)

(* The glob's own order. *)
IsNextUnsorted(i) == i \in Piece \ taken

-----------------------------------------------------------------------------
(* The loop over split_audio's result comes to piece i. *)
IsNext(i) == i \in Piece \ taken /\ \A j \in (Piece \ taken) \ {i} : Precedes(i, j)

(* _transcribe_file: any number of segments that are not blank, and a       *)
(* language the provider names and _BCP47_MAP knows, or none.               *)
TranscribeFile(i) ==
  /\ phase = "asr"
  /\ IsNext(i)
  /\ taken' = taken \cup {i}
  /\ \E n \in 0 .. MaxAnswer :
       /\ Len(transcript) + n <= MaxSegments
       /\ transcript' = transcript \o [k \in 1 .. n |-> i]
  /\ \/ /\ recognised' = recognised \cup {i}
        /\ detected' = IF detected = NoPiece THEN i ELSE detected
     \/ UNCHANGED <<recognised, detected>>
  /\ UNCHANGED <<vars, pieces, phase>>

(* ffmpeg, ffprobe or a request raises, or there is no segment at all.      *)
Fail ==
  /\ phase = "asr"
  /\ phase' = "failed"
  /\ UNCHANGED <<vars, pieces, taken, transcript, recognised, detected>>

(* Not empty: summarize_transcript takes it whole when it is within         *)
(* single_pass_token_limit, and the limit may be anything.                  *)
Transcribed ==
  /\ phase = "asr"
  /\ taken = Piece
  /\ transcript # <<>>
  /\ phase' \in {"single_pass", "chunking"}
  /\ UNCHANGED <<vars, pieces, taken, transcript, recognised, detected>>

(* chunk_segments over this transcript.  Segments are not blank. *)
ChunkSegments ==
  /\ phase = "chunking"
  /\ \/ /\ read < Len(transcript)
        /\ \E len \in 1 .. MaxLength : Accumulate(len) \/ Flush(len)
     \/ /\ read = Len(transcript)
        /\ Return
  /\ UNCHANGED asrVars

TranscriptionNext ==
  \/ \E i \in Piece : TranscribeFile(i)
  \/ Fail
  \/ Transcribed
  \/ ChunkSegments

TranscriptionSpec == TranscriptionInit /\ [][TranscriptionNext]_transcriptionVars

-----------------------------------------------------------------------------
(* "Returns chunk paths in playback order" (split_audio), "concatenated in  *)
(* order" (transcribe): as long as all names have one length, no segment is *)
(* put before one that was spoken earlier, and the language is the one      *)
(* heard first.                                                             *)
PlaybackOrder ==
  pieces <= Capacity =>
    /\ \A a, b \in 1 .. Len(transcript) : a <= b => transcript[a] <= transcript[b]
    /\ \A i \in recognised : detected \in recognised /\ detected <= i
=============================================================================
