CONSTANTS
    Chars <- MCChars
    KeyOf <- MCKeyOf
    HtSize = 4
    Delim = ";"
    ListName <- MCListName
    AttrName <- MCAttrName
    Archives <- MCArchives
    Externals <- MCExternals
    Internals <- MCInternals
    NoText = NoText
    NoPath = NoPath
SPECIFICATION Spec
INVARIANTS
    ListfileTypeOK
    TokensAreWords
    NamesRemembered
    QueueComplete
PROPERTY
    Decides
CHECK_DEADLOCK FALSE
