\* Settings on both sides of each other and of zero: nothing validates them.
\* Four pieces, of which three have names of one length.
CONSTANTS
  MaxSegments = 5
  MaxLength = 2
  Settings = {0, 1, 3, 4}
  Radix = 3
  Capacity = 3
  MaxPieces = 4
  MaxAnswer = 2
SPECIFICATION TranscriptionSpec
INVARIANTS
  TypeOK
  NothingLost
  EachChunkAdvances
  OverlapCarried
  OverLimitByOneSegment
  PlaybackOrder
CHECK_DEADLOCK FALSE
