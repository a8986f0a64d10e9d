----------------------------- MODULE RulesEngine -----------------------------
(***************************************************************************)
(* The static state of the rules engine                                    *)
(* (src/CommandProcessor/CommandProcessor/RulesEngine.cs): Initialize      *)
(* creates the CommandEngineConfiguration under a double-checked lock,     *)
(* registers the message definitions of an assembly in it and stores the   *)
(* mapper; Process reads both without the lock.  Request threads call them *)
(* concurrently; a definition's constructor, application code, may throw.  *)
(* What Process does with the message is module CommandPipeline.           *)
(***************************************************************************)
EXTENDS Naturals, Sequences

CONSTANTS
    EngineThreads,
    NoThread,       \* owner of a free lock
    MessageTypes,   \* types of messages
    Assembly,       \* message types of the assembly's definitions, in order
    EngineCalls     \* bound: calls per thread

ASSUME ThreadAssumption == NoThread \notin EngineThreads
ASSUME AssemblyAssumption == Assembly \in Seq(MessageTypes) /\ MessageTypes # {}
ASSUME EngineBoundAssumption == EngineCalls \in Nat

VARIABLES
    configuration,  \* RulesEngine._configuration is set
    registered,     \* keys of _messageConfigurations
    mappingEngine,  \* RulesEngine._mappingEngine is set
    lock,           \* owner of RulesEngine._lock
    at, engineCalls, \* where each thread is, and how many calls it made
    next,           \* its position in Assembly
    message,        \* the type of the message it processes
    mapper,         \* whether the MappingEngine that Process read was set
    created,        \* history: configurations created
    failed,         \* history: an Initialize threw while holding the lock
    initialized,    \* history: threads to which Initialize has returned
    result          \* how each thread's last call ended

engine == <<configuration, registered, mappingEngine>>
engineVars == <<engine, lock, at, engineCalls, next, message, mapper, created, failed, initialized,
                result>>

EnginePCs == {"idle", "check", "lock", "recheck", "register", "store", "process", "lookup", "map"}
Results == {"none", "ok", "threw", "unknown", "null"}

EngineTypeOK ==
    /\ configuration \in BOOLEAN /\ mappingEngine \in BOOLEAN
    /\ registered \subseteq MessageTypes
    /\ lock \in EngineThreads \cup {NoThread}
    /\ at \in [EngineThreads -> EnginePCs] /\ engineCalls \in [EngineThreads -> 0..EngineCalls]
    /\ next \in [EngineThreads -> 1..Len(Assembly) + 1]
    /\ message \in [EngineThreads -> MessageTypes]
    /\ mapper \in [EngineThreads -> BOOLEAN]
    /\ created \in Nat /\ failed \in BOOLEAN
    /\ initialized \subseteq EngineThreads
    /\ result \in [EngineThreads -> Results]

EngineInit ==
    /\ configuration = FALSE /\ mappingEngine = FALSE /\ registered = {}
    /\ lock = NoThread
    /\ at = [t \in EngineThreads |-> "idle"] /\ engineCalls = [t \in EngineThreads |-> 0]
    /\ next = [t \in EngineThreads |-> 1]
    /\ message = [t \in EngineThreads |-> CHOOSE m \in MessageTypes : TRUE]
    /\ mapper = [t \in EngineThreads |-> FALSE]
    /\ created = 0 /\ failed = FALSE /\ initialized = {}
    /\ result = [t \in EngineThreads |-> "none"]

EngineGoto(t, to) == at' = [at EXCEPT ![t] = to]

EngineReturn(t, how) ==
    /\ EngineGoto(t, "idle")
    /\ result' = [result EXCEPT ![t] = how]

-----------------------------------------------------------------------------
(* RulesEngine.Initialize *)

CallInitialize(t) ==
    /\ at[t] = "idle" /\ engineCalls[t] < EngineCalls
    /\ engineCalls' = [engineCalls EXCEPT ![t] = @ + 1]
    /\ EngineGoto(t, "check")
    /\ UNCHANGED <<engine, lock, next, message, mapper, created, failed, initialized, result>>

InitializeReturns(t) ==
    /\ EngineReturn(t, "ok")
    /\ initialized' = initialized \cup {t}

\* The unlocked test is of the mapper, the last thing Initialize stores.
Check(t) ==
    /\ at[t] = "check"
    /\ IF mappingEngine THEN InitializeReturns(t)
       ELSE EngineGoto(t, "lock") /\ UNCHANGED <<initialized, result>>
    /\ UNCHANGED <<engine, lock, engineCalls, next, message, mapper, created, failed>>

Lock(t) ==
    /\ at[t] = "lock" /\ lock = NoThread
    /\ lock' = t
    /\ EngineGoto(t, "recheck")
    /\ UNCHANGED <<engine, engineCalls, next, message, mapper, created, failed, initialized,
                   result>>

\* Variant of Recheck: the second test is of the mapper, too.
RecheckMapper(t) ==
    /\ at[t] = "recheck"
    /\ IF mappingEngine
       THEN /\ InitializeReturns(t)
            /\ lock' = NoThread
            /\ UNCHANGED <<configuration, registered, next, created>>
       ELSE /\ configuration' = TRUE /\ registered' = {}
            /\ created' = created + 1
            /\ next' = [next EXCEPT ![t] = 1]
            /\ EngineGoto(t, "register")
            /\ UNCHANGED <<lock, initialized, result>>
    /\ UNCHANGED <<mappingEngine, engineCalls, message, mapper, failed>>

\* Variant of Recheck: the mapper is stored before the definitions are registered.
RecheckStoring(t) ==
    /\ at[t] = "recheck"
    /\ IF configuration
       THEN /\ InitializeReturns(t)
            /\ lock' = NoThread
            /\ UNCHANGED <<engine, next, created>>
       ELSE /\ configuration' = TRUE /\ mappingEngine' = TRUE
            /\ created' = created + 1
            /\ next' = [next EXCEPT ![t] = 1]
            /\ EngineGoto(t, "register")
            /\ UNCHANGED <<registered, lock, initialized, result>>
    /\ UNCHANGED <<engineCalls, message, mapper, failed>>

\* The locked test is of the configuration, the first thing Initialize stores.
Recheck(t) ==
    /\ at[t] = "recheck"
    /\ IF configuration
       THEN /\ InitializeReturns(t)
            /\ lock' = NoThread
            /\ UNCHANGED <<configuration, next, created>>
       ELSE /\ configuration' = TRUE
            /\ created' = created + 1
            /\ next' = [next EXCEPT ![t] = 1]
            /\ EngineGoto(t, "register")
            /\ UNCHANGED <<lock, initialized, result>>
    /\ UNCHANGED <<registered, mappingEngine, engineCalls, message, mapper, failed>>

\* Variant of RegisterDefinition: the enumerator moves past the end.
RegisterPastEnd(t) ==
    /\ at[t] = "register"
    /\ next' = [next EXCEPT ![t] = @ + 1]
    /\ IF next[t] > Len(Assembly)
       THEN EngineGoto(t, "store") /\ UNCHANGED registered
       ELSE /\ registered' = registered \cup {Assembly[next[t]]}
            /\ UNCHANGED at
    /\ UNCHANGED <<configuration, mappingEngine, lock, engineCalls, message, mapper, created,
                   failed, initialized, result>>

\* CommandEngineConfiguration.Initialize registers the next definition, which
\* is in sight of the other threads.
RegisterDefinition(t) ==
    /\ at[t] = "register"
    /\ IF next[t] > Len(Assembly)
       THEN EngineGoto(t, "store") /\ UNCHANGED <<registered, next>>
       ELSE /\ Assembly[next[t]] \notin registered
            /\ registered' = registered \cup {Assembly[next[t]]}
            /\ next' = [next EXCEPT ![t] = @ + 1]
            /\ UNCHANGED at
    /\ UNCHANGED <<configuration, mappingEngine, lock, engineCalls, message, mapper, created,
                   failed, initialized, result>>

\* The definition's constructor throws, or its message type has a definition
\* already; the exception releases the lock and leaves everything else.
RegisterThrows(t) ==
    /\ at[t] = "register" /\ next[t] <= Len(Assembly)
    /\ failed' = TRUE
    /\ lock' = NoThread
    /\ EngineReturn(t, "threw")
    /\ UNCHANGED <<engine, engineCalls, next, message, mapper, created, initialized>>

Store(t) ==
    /\ at[t] = "store"
    /\ mappingEngine' = TRUE
    /\ lock' = NoThread
    /\ InitializeReturns(t)
    /\ UNCHANGED <<configuration, registered, engineCalls, next, message, mapper, created, failed>>

-----------------------------------------------------------------------------
(* RulesEngine.Process, up to the loop over the commands *)

\* The mapper is read first, then the configuration.
CallProcess(t) ==
    /\ at[t] = "idle" /\ engineCalls[t] < EngineCalls
    /\ engineCalls' = [engineCalls EXCEPT ![t] = @ + 1]
    /\ \E m \in MessageTypes : message' = [message EXCEPT ![t] = m]
    /\ EngineGoto(t, "process")
    /\ UNCHANGED <<engine, lock, next, mapper, created, failed, initialized, result>>

ReadMapper(t) ==
    /\ at[t] = "process"
    /\ mapper' = [mapper EXCEPT ![t] = mappingEngine]
    /\ EngineGoto(t, "lookup")
    /\ UNCHANGED <<engine, lock, engineCalls, next, message, created, failed, initialized, result>>

\* The dictionary is unsynchronised: a reader may miss a key while another
\* thread adds one.
Filling == \E t \in EngineThreads : at[t] = "register"

\* A null configuration is dereferenced; an unknown message type is reported
\* by GetMessageConfiguration.
Lookup(t) ==
    /\ at[t] = "lookup"
    /\ \/ ~configuration /\ EngineReturn(t, "null")
       \/ /\ configuration /\ message[t] \in registered
          /\ EngineGoto(t, "map") /\ UNCHANGED result
       \/ /\ configuration /\ (message[t] \notin registered \/ Filling)
          /\ EngineReturn(t, "unknown")
    /\ UNCHANGED <<engine, lock, engineCalls, next, message, mapper, created, failed, initialized>>

\* The first applicable command dereferences the mapper; there may be none.
Map(t) ==
    /\ at[t] = "map"
    /\ \/ mapper[t] /\ EngineReturn(t, "ok")
       \/ ~mapper[t] /\ \E how \in {"ok", "null"} : EngineReturn(t, how)
    /\ UNCHANGED <<engine, lock, engineCalls, next, message, mapper, created, failed, initialized>>

EngineFinished ==
    /\ \A t \in EngineThreads : at[t] = "idle" /\ engineCalls[t] = EngineCalls
    /\ UNCHANGED engineVars

EngineStep(t) ==
    \/ Check(t) \/ Lock(t) \/ Recheck(t) \/ RegisterDefinition(t) \/ RegisterThrows(t) \/ Store(t)
    \/ ReadMapper(t) \/ Lookup(t) \/ Map(t)

EngineNext ==
    \/ \E t \in EngineThreads : CallInitialize(t) \/ CallProcess(t) \/ EngineStep(t)
    \/ EngineFinished

EngineSpec == EngineInit /\ [][EngineNext]_engineVars

-----------------------------------------------------------------------------
(* Properties *)

\* However the threads interleave, and even if an Initialize throws, at most
\* one configuration is ever created, and one thread at a time fills it.
OneConfiguration ==
    /\ created <= 1
    /\ \A t, u \in EngineThreads : at[t] = "register" /\ at[u] = "register" => t = u

AllRegistered == {Assembly[i] : i \in DOMAIN Assembly} \subseteq registered

\* The mapper vouches for the configuration: whoever finds it set, without the
\* lock, finds every message definition registered (the order of the stores in
\* RulesEngine.Initialize).
MapperVouches == mappingEngine => configuration /\ AllRegistered

\* Unless some Initialize failed, a Process that begins after Initialize has
\* returned to its thread meets no null and finds the definition of its message,
\* if the assembly has one, even while other threads still call Initialize.
InitializedIsUsable ==
    \A t \in initialized : ~failed /\ at[t] = "idle" =>
        /\ result[t] # "null"
        /\ result[t] = "unknown" => message[t] \notin {Assembly[i] : i \in DOMAIN Assembly}
=============================================================================
