-------------------------- MODULE RulesEngineProofs --------------------------
(***************************************************************************)
(* Proofs about RulesEngine, for every set of threads, every assembly and  *)
(* every bound: one configuration is created, and a mapper that is set     *)
(* vouches for a configuration with every message definition.              *)
(***************************************************************************)
EXTENDS RulesEngine, TLAPS

\* Only the owner of the lock is between Lock and the release.
LockDiscipline ==
    \A t \in EngineThreads : at[t] \in {"recheck", "register", "store"} => lock = t

\* How far the thread that fills the configuration has come.
Filled(t) ==
    /\ at[t] = "register" =>
        /\ configuration
        /\ \A i \in 1..Len(Assembly) : i < next[t] => Assembly[i] \in registered
    /\ at[t] = "store" => configuration /\ AllRegistered

CreatedOnce == created = IF configuration THEN 1 ELSE 0

IInv ==
    /\ EngineTypeOK
    /\ LockDiscipline
    /\ \A t \in EngineThreads : Filled(t)
    /\ CreatedOnce
    /\ MapperVouches

Known == {Assembly[i] : i \in DOMAIN Assembly}

\* Without a failure, a configuration without a mapper is one that the owner of
\* the lock is filling; with the mapper nobody fills it.  So Initialize returns
\* only when the mapper is set, and a thread it returned to reads it.
Usable ==
    ~failed =>
        /\ configuration /\ ~mappingEngine =>
            \E t \in EngineThreads : at[t] \in {"register", "store"}
        /\ mappingEngine => \A t \in EngineThreads : at[t] \notin {"register", "store"}
        /\ \A t \in initialized :
            /\ mappingEngine
            /\ at[t] \in {"lookup", "map"} => mapper[t]
            /\ at[t] = "idle" =>
                result[t] # "null" /\ (result[t] = "unknown" => message[t] \notin Known)

-----------------------------------------------------------------------------

LEMMA AssemblyDomain ==
    /\ Len(Assembly) \in Nat /\ DOMAIN Assembly = 1..Len(Assembly)
    /\ \A i \in 1..Len(Assembly) : Assembly[i] \in MessageTypes
BY AssemblyAssumption

LEMMA InitHolds == EngineInit => IInv
<1> SUFFICES ASSUME EngineInit PROVE IInv
  OBVIOUS
<1>1. EngineTypeOK
  <2>1. (CHOOSE m \in MessageTypes : TRUE) \in MessageTypes
    BY AssemblyAssumption
  <2>2. message \in [EngineThreads -> MessageTypes]
    BY <2>1 DEF EngineInit
  <2>3. engineCalls \in [EngineThreads -> 0..EngineCalls] /\ next \in [EngineThreads -> 1..Len(Assembly) + 1]
    BY EngineBoundAssumption, AssemblyDomain DEF EngineInit
  <2>4. at \in [EngineThreads -> EnginePCs] /\ result \in [EngineThreads -> Results]
    BY DEF EngineInit, EnginePCs, Results
  <2> QED
    BY <2>2, <2>3, <2>4 DEF EngineInit, EngineTypeOK
<1>2. LockDiscipline /\ (\A t \in EngineThreads : Filled(t)) /\ CreatedOnce /\ MapperVouches
  BY DEF EngineInit, LockDiscipline, Filled, CreatedOnce, MapperVouches
<1> QED
  BY <1>1, <1>2 DEF IInv

\* A step of another kind than Recheck, RegisterDefinition and Store changes none of the
\* engine's state and moves no thread into the filling of the configuration.
LEMMA OutsideKeeps ==
    ASSUME EngineTypeOK, NEW t \in EngineThreads,
           CallInitialize(t) \/ Check(t) \/ CallProcess(t) \/ ReadMapper(t) \/ Lookup(t) \/ Map(t)
    PROVE  /\ EngineTypeOK'
           /\ UNCHANGED <<configuration, registered, mappingEngine, lock, next, created>>
           /\ \A u \in EngineThreads : at'[u] \in {"recheck", "register", "store"} => at'[u] = at[u]
<1> USE DEF engine, EngineGoto, EngineReturn, EngineTypeOK, EnginePCs, Results
<1>1. CASE CallInitialize(t)
  BY <1>1, EngineBoundAssumption DEF CallInitialize
<1>2. CASE Check(t)
  BY <1>2 DEF Check, InitializeReturns
<1>3. CASE CallProcess(t)
  BY <1>3, EngineBoundAssumption DEF CallProcess
<1>4. CASE ReadMapper(t)
  BY <1>4 DEF ReadMapper
<1>5. CASE Lookup(t)
  BY <1>5 DEF Lookup
<1>6. CASE Map(t)
  BY <1>6 DEF Map
<1> QED
  BY <1>1, <1>2, <1>3, <1>4, <1>5, <1>6

LEMMA LockKeeps == ASSUME IInv, NEW t \in EngineThreads, Lock(t) PROVE IInv'
<1>1. EngineTypeOK'
  BY DEF IInv, EngineTypeOK, Lock, EngineGoto, EnginePCs, engine
<1>2. LockDiscipline'
  BY ThreadAssumption DEF IInv, EngineTypeOK, LockDiscipline, Lock, EngineGoto
<1>3. (\A u \in EngineThreads : Filled(u)') /\ CreatedOnce' /\ MapperVouches'
  BY DEF IInv, EngineTypeOK, Lock, EngineGoto, engine, Filled, CreatedOnce, MapperVouches, AllRegistered
<1> QED
  BY <1>1, <1>2, <1>3 DEF IInv

LEMMA RecheckKeeps == ASSUME IInv, NEW t \in EngineThreads, Recheck(t) PROVE IInv'
<1>1. lock = t /\ at \in [EngineThreads -> EnginePCs]
  BY DEF Recheck, IInv, LockDiscipline, EngineTypeOK
<1>2. EngineTypeOK'
  <2>1. next' \in [EngineThreads -> 1..Len(Assembly) + 1] /\ created' \in Nat
    <3>1. next \in [EngineThreads -> 1..Len(Assembly) + 1] /\ created \in Nat /\ 1 \in 1..Len(Assembly) + 1
      BY AssemblyDomain DEF IInv, EngineTypeOK
    <3> QED
      BY <3>1 DEF Recheck
  <2>2. at' \in [EngineThreads -> EnginePCs] /\ result' \in [EngineThreads -> Results]
    BY <1>1 DEF IInv, EngineTypeOK, Recheck, InitializeReturns, EngineReturn, EngineGoto, EnginePCs, Results
  <2>3. initialized' \subseteq EngineThreads /\ lock' \in EngineThreads \cup {NoThread} /\ configuration' \in BOOLEAN
    BY DEF IInv, EngineTypeOK, Recheck, InitializeReturns
  <2> QED
    BY <2>1, <2>2, <2>3 DEF IInv, EngineTypeOK, Recheck
<1>3. \A u \in EngineThreads : u # t => at'[u] = at[u] /\ at[u] \notin {"recheck", "register", "store"}
  BY <1>1 DEF Recheck, InitializeReturns, EngineReturn, EngineGoto, IInv, LockDiscipline
<1>4. LockDiscipline'
  BY <1>1, <1>3 DEF Recheck, InitializeReturns, EngineReturn, EngineGoto, LockDiscipline, EnginePCs
<1>5. CASE configuration
  <2>1. \A u \in EngineThreads : at'[u] \notin {"recheck", "register", "store"}
    BY <1>1, <1>3, <1>5 DEF Recheck, InitializeReturns, EngineReturn, EngineGoto
  <2>2. (\A u \in EngineThreads : Filled(u)') /\ CreatedOnce' /\ MapperVouches'
    BY <1>5, <2>1 DEF Recheck, IInv, Filled, CreatedOnce, MapperVouches, AllRegistered
  <2> QED
    BY <1>2, <1>4, <2>2 DEF IInv
<1>6. CASE ~configuration
  <2>1. at'[t] = "register" /\ next'[t] = 1 /\ configuration'
    BY <1>1, <1>6 DEF Recheck, EngineGoto, IInv, EngineTypeOK
  <2>2. CreatedOnce' /\ MapperVouches'
    BY <1>6 DEF Recheck, IInv, CreatedOnce, MapperVouches
  <2>3. \A u \in EngineThreads : Filled(u)'
    BY <1>3, <2>1 DEF Filled
  <2> QED
    BY <1>2, <1>4, <2>2, <2>3 DEF IInv
<1> QED
  BY <1>5, <1>6

LEMMA RegisterKeeps == ASSUME IInv, NEW t \in EngineThreads, RegisterDefinition(t) PROVE IInv'
<1>1. lock = t /\ at \in [EngineThreads -> EnginePCs] /\ next \in [EngineThreads -> 1..Len(Assembly) + 1] /\ configuration
  BY DEF RegisterDefinition, IInv, LockDiscipline, EngineTypeOK, Filled
<1>2. \A u \in EngineThreads : u # t => at'[u] = at[u] /\ at[u] \notin {"recheck", "register", "store"}
  BY <1>1 DEF RegisterDefinition, EngineGoto, IInv, LockDiscipline
<1>3. CASE next[t] > Len(Assembly)
  <2>1. EngineTypeOK'
    BY <1>3 DEF IInv, EngineTypeOK, RegisterDefinition, EngineGoto, EnginePCs
  <2>2. AllRegistered
    BY <1>1, <1>3, AssemblyDomain DEF RegisterDefinition, IInv, Filled, AllRegistered
  <2>3. LockDiscipline'
    BY <1>1, <1>2, <1>3 DEF RegisterDefinition, EngineGoto, LockDiscipline
  <2>4. (\A u \in EngineThreads : Filled(u)') /\ CreatedOnce' /\ MapperVouches'
    BY <1>1, <1>2, <1>3, <2>2 DEF RegisterDefinition, EngineGoto, IInv, Filled, CreatedOnce, MapperVouches, AllRegistered
  <2> QED
    BY <2>1, <2>3, <2>4 DEF IInv
<1>4. CASE next[t] <= Len(Assembly)
  <2>1. next[t] \in 1..Len(Assembly) /\ Assembly[next[t]] \in MessageTypes
    BY <1>1, <1>4, AssemblyDomain
  <2>2. EngineTypeOK'
    BY <1>1, <1>4, <2>1, AssemblyDomain DEF IInv, EngineTypeOK, RegisterDefinition
  <2>3. LockDiscipline'
    BY <1>1, <1>4, AssemblyDomain DEF RegisterDefinition, IInv, LockDiscipline
  <2>4. Filled(t)'
    BY <1>1, <1>4, AssemblyDomain DEF RegisterDefinition, IInv, Filled
  <2>5. (\A u \in EngineThreads : Filled(u)') /\ CreatedOnce'
    BY <1>2, <2>4 DEF RegisterDefinition, IInv, Filled, CreatedOnce
  <2>6. MapperVouches'
    BY <1>1, <1>4, AssemblyDomain DEF RegisterDefinition, IInv, MapperVouches, AllRegistered
  <2> QED
    BY <2>2, <2>3, <2>5, <2>6 DEF IInv
<1> QED
  BY <1>1, <1>3, <1>4, AssemblyDomain

LEMMA RegisterThrowsKeeps == ASSUME IInv, NEW t \in EngineThreads, RegisterThrows(t) PROVE IInv'
<1>1. lock = t /\ at \in [EngineThreads -> EnginePCs]
  BY DEF RegisterThrows, IInv, LockDiscipline, EngineTypeOK
<1>2. EngineTypeOK'
  BY DEF IInv, EngineTypeOK, RegisterThrows, EngineReturn, EngineGoto, EnginePCs, Results, engine
<1>3. \A u \in EngineThreads : at'[u] \notin {"recheck", "register", "store"}
  BY <1>1 DEF RegisterThrows, EngineReturn, EngineGoto, IInv, LockDiscipline
<1>4. LockDiscipline' /\ (\A u \in EngineThreads : Filled(u)')
  BY <1>3 DEF LockDiscipline, Filled
<1>5. CreatedOnce' /\ MapperVouches'
  BY DEF RegisterThrows, IInv, CreatedOnce, MapperVouches, AllRegistered, engine
<1> QED
  BY <1>2, <1>4, <1>5 DEF IInv

LEMMA StoreKeeps == ASSUME IInv, NEW t \in EngineThreads, Store(t) PROVE IInv'
<1>1. lock = t /\ at \in [EngineThreads -> EnginePCs] /\ configuration /\ AllRegistered
  BY DEF Store, IInv, LockDiscipline, EngineTypeOK, Filled
<1>2. EngineTypeOK'
  BY DEF IInv, EngineTypeOK, Store, InitializeReturns, EngineReturn, EngineGoto, EnginePCs, Results
<1>3. \A u \in EngineThreads : at'[u] \notin {"recheck", "register", "store"}
  BY <1>1 DEF Store, InitializeReturns, EngineReturn, EngineGoto, IInv, LockDiscipline
<1>4. LockDiscipline' /\ (\A u \in EngineThreads : Filled(u)')
  BY <1>3 DEF LockDiscipline, Filled
<1>5. CreatedOnce' /\ MapperVouches'
  BY <1>1 DEF Store, IInv, CreatedOnce, MapperVouches, AllRegistered
<1> QED
  BY <1>2, <1>4, <1>5 DEF IInv

LEMMA NextKeeps == IInv /\ [EngineNext]_engineVars => IInv'
<1> SUFFICES ASSUME IInv, [EngineNext]_engineVars PROVE IInv'
  OBVIOUS
<1>1. ASSUME NEW t \in EngineThreads,
             CallInitialize(t) \/ Check(t) \/ CallProcess(t) \/ ReadMapper(t) \/ Lookup(t) \/ Map(t)
      PROVE  IInv'
  <2>1. EngineTypeOK
    BY DEF IInv
  <2>2. /\ EngineTypeOK'
        /\ UNCHANGED <<configuration, registered, mappingEngine, lock, next, created>>
        /\ \A u \in EngineThreads : at'[u] \in {"recheck", "register", "store"} => at'[u] = at[u]
    BY <1>1, <2>1, OutsideKeeps
  <2> QED
    BY <2>2 DEF IInv, LockDiscipline, Filled, CreatedOnce, MapperVouches, AllRegistered
<1>2. CASE UNCHANGED engineVars
  BY <1>2 DEF engineVars, engine, IInv, EngineTypeOK, LockDiscipline, Filled, CreatedOnce, MapperVouches, AllRegistered
<1> QED
  BY <1>1, <1>2, LockKeeps, RecheckKeeps, RegisterKeeps, RegisterThrowsKeeps, StoreKeeps
  DEF EngineNext, EngineStep, EngineFinished

LEMMA Invariant == EngineSpec => []IInv
BY InitHolds, NextKeeps, PTL DEF EngineSpec

-----------------------------------------------------------------------------

\* The variables of the engine keep their types.
THEOREM TypeCorrect == EngineSpec => []EngineTypeOK
<1>1. IInv => EngineTypeOK
  BY DEF IInv
<1> QED
  BY <1>1, Invariant, PTL

\* However many threads initialise the engine, and whichever of them fail, one
\* configuration is created and one thread at a time fills it.
THEOREM ConfigurationIsUnique == EngineSpec => []OneConfiguration
<1>1. IInv => OneConfiguration
  BY DEF IInv, CreatedOnce, LockDiscipline, OneConfiguration
<1> QED
  BY <1>1, Invariant, PTL

\* A thread that finds the mapper set finds every definition registered.
THEOREM MapperImpliesDefinitions == EngineSpec => []MapperVouches
<1>1. IInv => MapperVouches
  BY DEF IInv
<1> QED
  BY <1>1, Invariant, PTL

-----------------------------------------------------------------------------
(* What Initialize promises to the thread that called it *)

\* What Usable says of a thread to which Initialize has returned.
Served(t) ==
    /\ mappingEngine
    /\ at[t] \in {"lookup", "map"} => mapper[t]
    /\ at[t] = "idle" =>
        result[t] # "null" /\ (result[t] = "unknown" => message[t] \notin Known)

LEMMA UsableKeeps == IInv /\ Usable /\ [EngineNext]_engineVars => Usable'
<1> SUFFICES ASSUME IInv, Usable, [EngineNext]_engineVars, ~failed' PROVE Usable'
  BY DEF Usable
<1>1. EngineTypeOK /\ LockDiscipline /\ CreatedOnce /\ MapperVouches
  BY DEF IInv
<1>2. ~failed
  BY DEF EngineNext, EngineStep, CallInitialize, Check, Lock, Recheck, RegisterDefinition, RegisterThrows, Store,
         CallProcess, ReadMapper, Lookup, Map, EngineFinished, engineVars
<1>3. /\ configuration /\ ~mappingEngine => \E t \in EngineThreads : at[t] \in {"register", "store"}
      /\ mappingEngine => \A t \in EngineThreads : at[t] \notin {"register", "store"}
      /\ \A t \in initialized : Served(t)
  BY <1>2 DEF Usable, Served
<1> USE DEF engine
<1>4. CASE UNCHANGED engineVars
  BY <1>4 DEF engineVars, Usable
\* Steps outside of the lock.
<1>5. ASSUME NEW t \in EngineThreads, UNCHANGED <<configuration, mappingEngine>>,
             \A u \in EngineThreads : u # t => at'[u] = at[u] /\ mapper'[u] = mapper[u]
                                         /\ result'[u] = result[u] /\ message'[u] = message[u],
             at[t] \notin {"register", "store"}, at'[t] \notin {"register", "store"},
             initialized' \subseteq initialized \cup {t},
             t \in initialized' => Served(t)'
      PROVE  Usable'
  <2>1. configuration' /\ ~mappingEngine' => \E u \in EngineThreads : at'[u] \in {"register", "store"}
    BY <1>3, <1>5
  <2>2. mappingEngine' => \A u \in EngineThreads : at'[u] \notin {"register", "store"}
    BY <1>3, <1>5
  <2>3. ASSUME NEW u \in initialized' PROVE Served(u)'
    <3>1. CASE u = t
      BY <1>5, <2>3, <3>1
    <3>2. CASE u # t
      <4>1. u \in initialized /\ u \in EngineThreads
        BY <1>1, <1>5, <2>3, <3>2 DEF EngineTypeOK
      <4> QED
        BY <1>3, <1>5, <3>2, <4>1 DEF Served
    <3> QED
      BY <3>1, <3>2
  <2> QED
    BY <2>1, <2>2, <2>3 DEF Usable, Served
<1>6. ASSUME NEW t \in EngineThreads, CallInitialize(t) \/ Lock(t) PROVE Usable'
  <2>1. /\ UNCHANGED <<configuration, mappingEngine, initialized, message, mapper, result>>
        /\ \A u \in EngineThreads : u # t => at'[u] = at[u]
        /\ at[t] \in {"idle", "lock"} /\ at'[t] \in {"check", "recheck"}
    BY <1>1, <1>6 DEF CallInitialize, Lock, EngineGoto, EngineTypeOK
  <2>2. t \in initialized' => Served(t)'
    BY <1>3, <2>1 DEF Served
  <2> QED
    BY <1>5, <2>1, <2>2
<1>7. ASSUME NEW t \in EngineThreads, Check(t) PROVE Usable'
  <2>1. /\ UNCHANGED <<configuration, mappingEngine, message, mapper>>
        /\ \A u \in EngineThreads : u # t => at'[u] = at[u] /\ result'[u] = result[u]
        /\ at[t] = "check" /\ at'[t] \in {"lock", "idle"}
        /\ \/ mappingEngine /\ result'[t] = "ok" /\ initialized' = initialized \cup {t}
           \/ at'[t] = "lock" /\ initialized' = initialized
    BY <1>1, <1>7 DEF Check, InitializeReturns, EngineReturn, EngineGoto, EngineTypeOK
  <2>2. t \in initialized' => Served(t)'
    BY <1>3, <2>1 DEF Served
  <2> QED
    BY <1>5, <2>1, <2>2
<1>8. ASSUME NEW t \in EngineThreads, CallProcess(t) \/ ReadMapper(t) PROVE Usable'
  <2>1. /\ UNCHANGED <<configuration, mappingEngine, initialized>>
        /\ \A u \in EngineThreads : u # t => at'[u] = at[u] /\ mapper'[u] = mapper[u]
                                       /\ message'[u] = message[u]
        /\ at[t] \in {"idle", "process"}
        /\ result' = result
        /\ \/ at'[t] = "process"
           \/ at'[t] = "lookup" /\ mapper'[t] = mappingEngine /\ message' = message
    BY <1>1, <1>8 DEF CallProcess, ReadMapper, EngineGoto, EngineTypeOK
  <2>2. t \in initialized' => Served(t)'
    BY <1>3, <2>1 DEF Served
  <2> QED
    BY <1>5, <2>1, <2>2
<1>9. ASSUME NEW t \in EngineThreads, Lookup(t) \/ Map(t) PROVE Usable'
  <2>1. /\ UNCHANGED <<configuration, mappingEngine, initialized, message, mapper>>
        /\ \A u \in EngineThreads : u # t => at'[u] = at[u] /\ result'[u] = result[u]
        /\ at[t] \in {"lookup", "map"} /\ at'[t] \in {"map", "idle"}
    BY <1>1, <1>9 DEF Lookup, Map, EngineReturn, EngineGoto, EngineTypeOK
  <2>2. ASSUME t \in initialized PROVE Served(t)'
    <3>1. Served(t) /\ mappingEngine /\ mapper[t]
      BY <1>3, <2>1, <2>2 DEF Served
    <3>2. configuration /\ Known \subseteq registered /\ ~Filling
      BY <1>1, <1>3, <3>1 DEF MapperVouches, AllRegistered, Known, Filling
    <3>3. \/ at'[t] = "map"
          \/ result'[t] = "ok"
          \/ result'[t] = "unknown" /\ message[t] \notin registered
      BY <1>1, <1>9, <3>1, <3>2 DEF Lookup, Map, EngineReturn, EngineGoto, EngineTypeOK
    <3> QED
      BY <2>1, <3>1, <3>2, <3>3 DEF Served
  <2> QED
    BY <1>5, <2>1, <2>2
\* Steps under the lock.
<1>10. ASSUME NEW t \in EngineThreads, Recheck(t) PROVE Usable'
  <2>1. \A u \in EngineThreads : u # t => at[u] \notin {"register", "store"}
    BY <1>1, <1>10 DEF Recheck, LockDiscipline
  <2>2. CASE configuration
    <3>1. mappingEngine
      BY <1>3, <1>10, <2>1, <2>2 DEF Recheck
    <3>2. /\ UNCHANGED <<configuration, mappingEngine, message, mapper>>
          /\ \A u \in EngineThreads : u # t => at'[u] = at[u] /\ result'[u] = result[u]
          /\ at[t] = "recheck" /\ at'[t] = "idle" /\ result'[t] = "ok"
          /\ initialized' = initialized \cup {t}
      BY <1>1, <1>10, <2>2 DEF Recheck, InitializeReturns, EngineReturn, EngineGoto, EngineTypeOK
    <3>3. Served(t)'
      BY <3>1, <3>2 DEF Served
    <3> QED
      BY <1>5, <3>2, <3>3
  <2>3. CASE ~configuration
    <3>1. ~mappingEngine /\ initialized = {}
      BY <1>1, <1>3, <2>3 DEF MapperVouches, Served
    <3>2. UNCHANGED <<mappingEngine, initialized>> /\ at'[t] = "register"
      BY <1>1, <1>10, <2>3 DEF Recheck, EngineGoto, EngineTypeOK
    <3> QED
      BY <3>1, <3>2 DEF Usable
  <2> QED
    BY <2>2, <2>3
<1>11. ASSUME NEW t \in EngineThreads, RegisterDefinition(t) PROVE Usable'
  <2>1. /\ UNCHANGED <<configuration, mappingEngine, initialized>>
        /\ at[t] = "register" /\ at'[t] \in {"register", "store"}
    BY <1>1, <1>11 DEF RegisterDefinition, EngineGoto, EngineTypeOK
  <2>2. ~mappingEngine /\ initialized = {}
    BY <1>3, <2>1 DEF Served
  <2> QED
    BY <2>1, <2>2 DEF Usable
<1>12. ASSUME NEW t \in EngineThreads, RegisterThrows(t) PROVE Usable'
  BY <1>12 DEF RegisterThrows
<1>13. ASSUME NEW t \in EngineThreads, Store(t) PROVE Usable'
  <2>1. /\ mappingEngine' /\ at[t] = "store" /\ at'[t] = "idle" /\ result'[t] = "ok"
        /\ initialized' = initialized \cup {t}
        /\ \A u \in EngineThreads : u # t => at'[u] = at[u]
    BY <1>1, <1>13 DEF Store, InitializeReturns, EngineReturn, EngineGoto, EngineTypeOK
  <2>2. initialized = {}
    BY <1>3, <2>1 DEF Served
  <2>3. \A u \in EngineThreads : at'[u] \notin {"register", "store"}
    BY <1>1, <2>1 DEF LockDiscipline
  <2> QED
    BY <2>1, <2>2, <2>3 DEF Usable
<1> QED
  BY <1>4, <1>6, <1>7, <1>8, <1>9, <1>10, <1>11, <1>12, <1>13 DEF EngineNext, EngineStep, EngineFinished

\* Unless an Initialize failed, a Process that a thread calls after Initialize
\* has returned to it meets no null and finds every definition of the assembly
\* (RulesEngine.cs: Initialize, Process).
THEOREM InitializedWorks == EngineSpec => []InitializedIsUsable
<1>1. EngineInit => Usable
  BY DEF EngineInit, Usable
<1>2. Usable => InitializedIsUsable
  BY DEF Usable, InitializedIsUsable, Known
<1> QED
  BY <1>1, <1>2, UsableKeeps, Invariant, PTL DEF EngineSpec

=============================================================================
