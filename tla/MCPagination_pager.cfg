SPECIFICATION PagingSpec
CONSTANTS
    Ids <- MCIds
    InitialRows <- MCInitialRows
    Kinds <- MCKinds
    Numbers <- MCNumbers
    Sizes <- MCSizes
    Columns <- MCColumns
    MaxInt = 7
    MaxRows = 6
    NoValue = NoValue
    NoItem = NoItem
    OutOfRange = OutOfRange
    MaxChanges = 2
INVARIANT
    PagerFindsItems
