\* The inputs of a pure function have no successors.
SPECIFICATION ParsersSpec
CONSTANTS
  Opcodes = {1, 2, 8, 9, 10}
  PayloadLens = {0, 1, 125, 126, 127, 128, 255, 256, 65535, 65536, 16777217}
  Chunk = 5
  value_buf_size = 4
  host_len = 3
  path_len = 4
  PortLen = 2
  P99Num = 3
  P99Den = 4
  MaxTokens = 6
  MaxPart = 3
  MaxSamples = 5
  numer = 7
  denom = 3
  Micro = 5
  MaxTicks = 24
  Offsets = {0, 3, 100}
INVARIANTS
  RoundTrip
  JsonVersionsAgree
  JsonValueExact
  UrlSplitsBack
  PercentilesRanked
  StampFormsAgree
CHECK_DEADLOCK FALSE
