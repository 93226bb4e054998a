CONSTANTS
    json = json
    own = own
    late = late
    l1 = l1
    l2 = l2
    r1 = r1
    file = file
    stream = stream
    yml = yml
    js = js
    cf = cf
    NoDecoder = NoDecoder
    NoSource = NoSource
    NoWord = NoWord
    Decoder <- MCDecoder
    Word <- MCWord
    FormatOf <- DocumentsFormatOf
    ExtensionsOf <- MCExtensionsOf
    Constructions <- MCConstructions
    Loader <- OneLoader
    Registrar <- NoRegistrars
    Extra <- OwnIsExtra
    Sources <- MCSources
    Kind <- PipeKind
    FormatName <- MCFormatName
    Content <- MCContent
    Fresh <- MCFresh
    Parsed <- MCParsed
    Family <- DocumentsFamily
    StructType <- MCStruct
    Normal <- normalizeValue
    Expansion <- Chain
    Filled <- BindTree
    ZeroTarget <- MCTarget
    Envs <- MCEnvs
    Reference <- MCReference
    Expanders <- Strict
    Prefix <- AppDB
    Canon <- MCCanon
    KeyOrder <- MCKeyOrder
    IntOf <- MCNone
    BoolOf <- MCNone
    ItemsOf <- MCNone
    Readable <- MCReadable
    Accepts <- MCAccepts
    Handled <- MCHandled
    InnerZero <- ZeroWithin
    InnerBehind <- BehindWithin
    InnerBindable <- BindableWithin
    InnerHasType <- HasTypeWithin
    InnerAssign <- AssignWithin
    InnerAssignString <- AssignStringWithin
    InnerBindStruct <- BindStructWithin
    InnerRunCustom <- RunCustomWithin
    Types <- MCTypes
    Depth <- MCDepth
    Node <- MCNode
    InnerNormalize <- NormalizeWithin
    InnerCanonical <- CanonicalWithin
    InnerHasReference <- HasReferenceWithin
    InnerExpand <- ExpandWithin
    InnerVariables <- VariablesWithin
    InnerTexts <- TextsWithin
SPECIFICATION Spec
INVARIANTS
    TreesHaveTypes
    NarrowedLoadsAreNotEmpty
    NoReferenceIsBound
PROPERTIES
    SectionIsUnambiguous
    StrictSeesTheWholeDocument
