SPECIFICATION ChunkingSpec
CONSTANTS
  Bytes = {x, y}
  MaxLength = 6
  Sizes = {1, 2, 3, 4, 7}
INVARIANTS
  ChunkingTypeOK
  StreamsAsBytes
  ReceivedIsPrefix
  OnlyConfigurationTruncates
\* A download ends.
CHECK_DEADLOCK FALSE
