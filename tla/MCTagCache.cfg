CONSTANTS
    Proc = {p1, p2, p3}
    NoProc = NoProc
    Key = {good, bad}
    NoKey = NoKey
    NoEntry = NoEntry
    Malformed = {bad}
SPECIFICATION FairSpec
INVARIANTS
    TypeOK
    ParsedOnce
    AnswersShared
PROPERTIES
    EntriesKept
    EveryLookupReturns
    ImplementsMemo
