CONSTANTS
    good = good
    bad = bad
    host = host
    port = port
    name = name
    Proc = {p1, p2}
    NoProc = NoProc
    Key = {good, bad}
    NoKey = NoKey
    NoEntry = NoEntry
    Malformed = {bad}
    Struct <- MCStruct
    Fields <- MCFields
    NoStruct = NoStruct
    NoPath = NoPath
SPECIFICATION FairBindSpec
INVARIANTS
    PathsOfTheTag
    VerdictIsTheTags
PROPERTIES
    EveryBindEnds
