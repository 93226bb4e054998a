CONSTANTS
    json = json
    own = own
    late = late
    l1 = l1
    l2 = l2
    r1 = r1
    file = file
    stream = stream
    yml = yml
    js = js
    cf = cf
    NoDecoder = NoDecoder
    NoSource = NoSource
    NoWord = NoWord
    Decoder <- MCDecoder
    Word <- MCWord
    FormatOf <- MCFormatOf
    ExtensionsOf <- MCExtensionsOf
    Constructions <- MCConstructions
    Loader <- TwoLoaders
    Registrar <- Registrars
    Extra <- OwnIsExtra
    Sources <- MCSources
    Kind <- MCKind
    FormatName <- MCFormatName
    Content <- MCContent
    Fresh <- FineFresh
    Parsed <- MCParsed
    Family <- FormatsFamily
    StructType <- MCStruct
    Normal <- normalizeValue
    Expansion <- Chain
    Filled <- BindTree
    ZeroTarget <- MCTarget
    Envs <- OneEnv
    Reference <- MCReference
    Expanders <- Strict
    Prefix <- AppDB
    Canon <- MCCanon
    KeyOrder <- MCKeyOrder
    IntOf <- MCNone
    BoolOf <- MCNone
    ItemsOf <- MCNone
    Readable <- MCReadable
    Accepts <- MCAccepts
    Handled <- MCHandled
    InnerZero <- ZeroWithin
    InnerBehind <- BehindWithin
    InnerBindable <- BindableWithin
    InnerHasType <- HasTypeWithin
    InnerAssign <- AssignWithin
    InnerAssignString <- AssignStringWithin
    InnerBindStruct <- BindStructWithin
    InnerRunCustom <- RunCustomWithin
    Types <- MCTypes
    Depth <- MCDepth
    Node <- MCNode
    InnerNormalize <- NormalizeWithin
    InnerCanonical <- CanonicalWithin
    InnerHasReference <- HasReferenceWithin
    InnerExpand <- ExpandWithin
    InnerVariables <- VariablesWithin
    InnerTexts <- TextsWithin
SPECIFICATION Spec
INVARIANT
    OneDecoderPerFormat
