CONSTANTS
    Canon <- MCCanon
    KeyOrder <- MCKeyOrder
    IntOf <- MCIntOf
    BoolOf <- MCBoolOf
    ItemsOf <- MCItemsOf
    Readable <- MCReadable
    Accepts <- MCAccepts
    Handled <- MCHandled
    Schema <- ListsOnly
    TypeOf <- MCTypeOf
    Trees <- MCTrees
    Envs <- MCEnvs
    Types <- MCTypes
    Depth <- MCDepth
    Node <- MCNode
    InnerZero <- ZeroWithin
    InnerBehind <- BehindWithin
    InnerBindable <- BindableWithin
    InnerHasType <- HasTypeWithin
    InnerAssign <- AssignWithin
    InnerAssignString <- AssignStringWithin
    InnerBindStruct <- BindStructWithin
    InnerRunCustom <- RunCustomWithin
    InnerLeaves <- LeavesWithin
    InnerRuled <- RuledWithin
    InnerFilled <- FilledWithin
    InnerFilledStruct <- FilledStructWithin
SPECIFICATION Spec
PROPERTY
    ElementsGetDefaults
