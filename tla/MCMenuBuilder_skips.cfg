SPECIFICATION MenuSpec
CONSTANTS
    r1 = r1
    r2 = r2
    Requests <- MCRequests
    main = main
    office = office
    more = more
    Lists <- MCLists
    home = home
    users = users
    help = help
    Links <- MCLinks
    Actions <- MCActions
    Secure = {users}
    Root = main
    Tree <- MCTree
    ShowWhenDisabled = {help}
    p1 = p1
    p2 = p2
    Urls <- MCUrls
    Address <- MCAddress
    Build <- MCBuild
    None = None
    MaxRequests = 3
    MaxEdits = 2
INVARIANTS
    SkipsToTheItem
SYMMETRY MCSymmetry
CHECK_DEADLOCK FALSE
