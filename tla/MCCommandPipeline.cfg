SPECIFICATION FairSpec
CONSTANTS
    customer = customer
    order = order
    NoKey = NoKey
    Keys <- MCKeys
    plain = plain
    stopping = stopping
    RuleTypes <- MCRuleTypes
    amount = amount
    lines = lines
    tags = tags
    Members <- MCMembers
    Arrays <- MCArrays
    Collections <- MCCollections
    uiAmount = uiAmount
    uiLines = uiLines
    Fields <- MCFields
    SameName <- MCSameName
    Itself = Itself
    None = None
    Definitions <- MCDefinitions
    MaxItems = 3
INVARIANTS
    TypeOK
    InvalidatedIffRejected
    ContextIsLatest
    MessagesInOrder
    ConfiguredAsWritten
PROPERTY ImplementsMessageProcessing
