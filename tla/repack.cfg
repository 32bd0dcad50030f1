CONSTANTS
    NumThreads = 3
    QueueSize = 3
    HtSize = 4
    NumEntries = 3
    Names <- MCNames
    Key <- MCKey
    Start <- MCStart
    NoKey <- MCNoKey
    NameOf <- MCNameOf
    NormalSize <- MCNormalSize
    PackedSizes <- MCPackedSizes
    Encrypted <- MCEncrypted
    Corrupt <- MCCorrupt
    Offset = 512
    Word = 256
    None = None
    Listfiles <- MCListfiles
    Unpublished = Unpublished
SPECIFICATION Spec
INVARIANTS
    TypeOK
    EachInOnePlace
    DecryptedOnce
    Consistent
    BlocksHoldTheirFiles
PROPERTIES
    SealedLast
    ImplementsArchive
CHECK_DEADLOCK FALSE
