SPECIFICATION Spec
CONSTANTS
    NoThread = NoThread
    NoType = NoType
    h1 = h1
    h2 = h2
    plain = plain
    abstractHandler = abstractHandler
    m1 = m1
    m2 = m2
    Types <- MCTypes
    Messages <- MCMessages
    LoadedTypes <- MCLoadedTypes
    Handles <- MCHandles
    Interfaces <- MCInterfaces
    Abstracts <- MCAbstracts
    NestedPrivates <- MCNestedPrivates
    Implementors <- MCImplementors
    NoDefaultCtor <- MCNoNoDefaultCtor
    Threads = {t1, t2}
    Ops = {"get"}
    MaxCalls = 1
INVARIANT InstanceIsFull
