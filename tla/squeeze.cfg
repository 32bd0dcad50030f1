SPECIFICATION Spec
CONSTANTS
  ByteBits = 2
  MAXBITS = 6
  LenBits = 4
  MAX_MATCH = 6
  NUM_D = 8
  ChunkLL = 3
  ChunkD = 2
  FixedLL <- MC_FixedLL
  FixedD <- MC_FixedD
  SmallStore = 12
  WINDOW = 8
  HASH_SHIFT = 1
  HASH_SIZE = 8
  SAME_SIZE = 4
  MAX_SAME = 20
  CACHE_LENGTH = 2
  MAX_CHAIN_HITS = 3
  Inputs <- MC_Inputs
  FarDist = 5
  Iterations = 4
  RandomAfter = 1
  Random <- MC_Random
  XorOf <- MC_XorOf
  BlockSize <- MC_BlockSize
INVARIANTS
  StoreReproduces
  CostOfPath
  CacheAgrees
  ShortestFound
CHECK_DEADLOCK FALSE
