CONSTANTS
    Nil = Nil
    One = 4
    NaN = 10000
    Infinity = 1000
    MaxInt64 = 124
    MaxUint64 = 252
    MaxFloat32 = 448
    Number <- MCNumber
    Float64 <- MCFloat64
    Float32 <- MCFloat32
    IntMax <- MCIntMax
    UintMax <- MCUintMax
    Given <- MCGiven
    Ranges <- MCRanges
    Symbol <- MCSymbol
    Letter <- MCLetter
    Digit <- MCDigit
    NumberOf <- MCNumberOf
    DefaultRegistry = "NewDefaultRegistry"
    DefaultMatcher = "CaseInsensitiveKey"
    DefaultKey = "json"
    Terms <- MCTerms
    Strings <- MCStrings
    Environments <- MCEnvironments
    Fresh = "*"
    Fields <- MCFields
    RawTags <- MCRawTags
    OptionLists <- MCOptionLists
    Registrations <- MCRegistrations
    Failures <- MCFailures
    InnerClosesAt <- ClosesAtWithin
    InnerExpandVariables <- ExpandVariablesWithin
    InnerWritten <- WrittenWithin
    InnerMeaning <- MeaningWithin
    InnerReaches <- ReachesWithin
    InnerIsError <- IsErrorWithin
    InnerFieldOf <- FieldOfWithin
    InnerSetField <- SetFieldWithin
    InnerUnwrap <- UnwrapWithin
SPECIFICATION Spec
INVARIANTS
    ExpansionIsTheMeaning
    StrictOnlyRefuses
    TagIsTheOptions
    SplitIsAtTopLevel
    IntegersAreExactOrRefused
    RangeIsTheInterval
    OptionsAreSettings
    RegisteredOptionsAreReadBack
    ErrorsLeadBack
CHECK_DEADLOCK FALSE
