SPECIFICATION Spec
CONSTANTS
  ByteBits = 8
  MAXBITS = 15
  LenBits = 16
  MAX_MATCH = 258
  NUM_D = 32
  ChunkLL = 288
  ChunkD = 32
  FixedLL <- MC_FixedLL
  FixedD <- MC_FixedD
  SmallStore = 1000
  Bytes = {0, 9, 10, 32, 33, 40, 44, 99, 101, 102}
  Weights <- MC_Weights
  Lengths <- MC_Lengths
  Half = 32
  DictBits = 4
  INITIAL_ADPCM_STEP_INDEX = 44
  LowestSample <- MC_LowestSample
  HighestSample = 32767
  Sectors <- MC_Sectors
  Behind = {0, 129, 255}
INVARIANTS
  SectorRestored
  TreeSound
CHECK_DEADLOCK FALSE
