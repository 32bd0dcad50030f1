CONSTANTS
    Word = 16
    Half = 4
    Rows = 4
    HighFactor = 8
    LowDivisor = 2
    Increment = 1
    Spread = 2
    InitSeed = 14
    HashSeed = 7
    CryptTable <- PrepareCryptTable
    XorOf <- MCXorOf
    OrOf <- MCOrOf
    Blocks <- MCBlocks
    Commands <- MCCommands
    Atoi <- MCAtoi
    SizeWord = 32
    Paths <- MCPaths
    Listfiles <- MCListfiles
    Archive = "a"
    Shifts <- MCShifts
    Leads <- MCLeads
    EntryWords = 1
    MaxEntries = 2
    MaxRuns = 3
    PieceWords = 9
    Magic = 9
    Strays <- MCStrays
    HashTableName <- MCHashTableName
    BlockTableName <- MCBlockTableName
    NoFile = NoFile
    NoHeader = NoHeader
SPECIFICATION Spec
INVARIANTS
    BlockRestored
    Reopened
    OutputWholeOrHeaderless
CHECK_DEADLOCK FALSE
