SPECIFICATION Spec
CONSTANTS
  ByteBits = 4
  MAXBITS = 7
  LenBits = 4
  MAX_MATCH = 13
  NUM_D = 10
  ChunkLL = 3
  ChunkD = 2
  FixedLL <- MC_FixedLL
  FixedD <- MC_FixedD
  SmallStore = 12
  Inputs <- MC_Inputs
  MaxBlocks = {0, 3}
  WINDOW = 16
  MASTER = 40
  MinSplit = 5
  FewPositions = 12
  NUM = 3
  Parses <- EitherParse
  SizeOfBlock <- ZopfliCalculateBlockSizeAutoType
  AddBlock <- AddLZ77BlockAutoType
  Header <- ZlibHeader
  Checksummed <- WithAdler32
INVARIANTS
  RoundTrip
  TruncationDetected
  SizesMatch
  HistogramsMatch
  SplitPointsSound
CHECK_DEADLOCK FALSE
