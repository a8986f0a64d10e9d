SPECIFICATION FairSpec
CONSTANTS
    NoThread = NoThread
    NoType = NoType
    h1 = h1
    h2 = h2
    plain = plain
    abstractHandler = abstractHandler
    m1 = m1
    m2 = m2
    Types <- MCTypes
    Messages <- MCMessages
    LoadedTypes <- MCLoadedTypes
    Handles <- MCHandles
    Interfaces <- MCInterfaces
    Abstracts <- MCAbstracts
    NestedPrivates <- MCNestedPrivates
    Implementors <- MCImplementors
    NoDefaultCtor <- MCNoDefaultCtor
    Threads = {t1, t2}
    Ops = {"send", "add", "addall", "get", "set", "setfactory"}
    MaxCalls = 1
INVARIANTS
    TypeOK
    OneDefaultBus
    HandlersRegistered
PROPERTIES
    EveryCallReturns
    ImplementsEventBus
