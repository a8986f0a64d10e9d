SPECIFICATION StaticsSpec
CONSTANTS
    t1 = t1
    t2 = t2
    Threads <- MCThreads
    EngineThreads = {t1, t2}
    NoThread = NoThread
    login = login
    search = search
    unmapped = unmapped
    MessageTypes <- MCMessageTypes
    Assembly <- MCAssembly
    EngineCalls = 3
    content = content
    person = person
    address = address
    user = user
    salt0 = salt0
    salt1 = salt1
    Bases <- MCBases
    Types <- MCTypes
    Derived <- MCDerived
    Salts = {salt0, salt1}
    OriginalSalt = salt0
    None = None
    OwnBinders = {person}
    MaxCalls = 5
INVARIANTS
    EngineTypeOK
    OneConfiguration
    MapperVouches
    InitializedIsUsable
    TypeOK
    StampsBind
    BinderIsCached
SYMMETRY MCSymmetry
