CONSTANTS
    yaml = yaml
    other = other
    json = json
    blank = blank
    yml = yml
    js = js
    p1 = p1
    p2 = p2
    NoDecoder = NoDecoder
    NoProc = NoProc
    NoWord = NoWord
    Decoder <- MCDecoder
    Word <- MCWord
    FormatOf <- MCFormatOf
    ExtensionsOf <- MCExtensionsOf
    Constructions <- MCConstructions
    LookupNames <- MCLookupNames
    Proc <- Two
SPECIFICATION FairSpec
INVARIANTS
    TypeOK
    SnapshotsWhole
    AnswersStandForever
PROPERTIES
    NothingLost
    EveryCallReturns
    ImplementsAtomic
CHECK_DEADLOCK TRUE
