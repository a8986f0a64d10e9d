SPECIFICATION PagesSpec
CONSTANTS
    quick = quick
    quicklinks = quicklinks
    forum = forum
    quickMap = quickMap
    Areas <- MCAreas
    AreaName <- MCAreaName
    AreaNamespace <- MCAreaNamespace
    Embedded <- MCEmbedded
    MapType <- MCMapType
    MapTypes = {quickMap}
    NoMap = NoMap
    Paths <- MCPaths
    OnDisk <- MCOnDisk
    Files <- MCFiles
    Masters = {"host.master"}
    Placeholders = {"head", "maincontent"}
    MaxSettings = 3
    r1 = r1
    r2 = r2
    Requests <- MCRequests
    main = main
    office = office
    more = more
    Lists <- MCLists
    home = home
    users = users
    help = help
    Links <- MCLinks
    Actions <- MCActions
    Secure = {users}
    Root = main
    Tree <- MCTree
    ShowWhenDisabled = {help}
    p1 = p1
    p2 = p2
    Urls <- MCUrls
    Address <- MCAddress
    Build <- MCBuild
    None = None
    MaxRequests = 3
    MaxEdits = 2
    Ids <- MCIds
    InitialRows <- MCInitialRows
    Kinds <- MCKinds
    Numbers <- MCNumbers
    Sizes <- MCSizes
    Columns <- MCColumns
    MaxInt = 7
    MaxRows = 6
    NoValue = NoValue
    NoItem = NoItem
    OutOfRange = OutOfRange
    MaxChanges = 2
INVARIANTS
    TypeOK
    OwnAreaServes
    PagesShowSettings
    MenuTypeOK
    ShowsWhatIsVisible
    
    PagingTypeOK
    PageIsSlice
    LinksReachRows
    LaysOutPage
SYMMETRY MCSymmetry
CHECK_DEADLOCK FALSE
