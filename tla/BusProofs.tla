------------------------------ MODULE BusProofs ------------------------------
(***************************************************************************)
(* Proofs about Bus, for every set of threads and every list of types: the *)
(* types of its variables, that at most one default bus is ever created,   *)
(* that the getter never returns null, that the initialiser registers every *)
(* handler type, and that Send keeps the promise of EventBus, unless Adds  *)
(* overlap.                                                                *)
(***************************************************************************)
EXTENDS Bus, SequenceTheorems, TLAPS

\* The indices a thread holds stay within what they index.
Located(t) ==
    /\ pc[t] \in {"add", "grow", "store", "version", "bump",
              "enum", "move", "current", "rare", "handle", "setfactory"}
          => bus[t] \in DOMAIN buses
    /\ pc[t] = "grow" => slot[t] <= Len(buses[bus[t]].array)
    /\ pos[t] # 0 /\ j[t] # 0 /\ k[t] # 0
    /\ busLock = t /\ pc[t] \in {"check", "fetch", "add", "grow", "store", "version", "bump"}
          => /\ j[t] - 1 \in DOMAIN LoadedTypes
             /\ IsValidType(LoadedTypes[j[t] - 1])
    /\ pc[t] \in {"grow", "store"} /\ busLock # t /\ op[t] # "addall"
          => type[t] \in Implementors
    /\ op[t] = "addall" /\ pc[t] \notin {"idle", "loop"}
          => /\ k[t] - 1 \in DOMAIN LoadedTypes
             /\ IsValidType(LoadedTypes[k[t] - 1])

InBounds ==
    /\ instance \in 0..Len(buses)
    /\ \A b \in DOMAIN buses : buses[b].size <= Len(buses[b].array)
    /\ \A t \in Threads : Located(t)

\* Who holds the lock is where the lock is held.
LockDiscipline ==
    \A t \in Threads :
        /\ pc[t] \in {"recheck", "create", "initloop", "unlock"} => busLock = t
        /\ pc[t] \in {"idle", "lock", "loop", "enum", "move", "current", "rare", "handle",
                     "set", "setfactory"}
              => busLock # t

\* The initialiser creates a bus only while none is set, and none is unset.
CreatedOnce ==
    /\ OneDefaultBus
    /\ \A b \in DOMAIN buses : buses[b].default => instance # NoBus
    /\ \A t \in Threads :
          /\ pc[t] = "create" => \A b \in DOMAIN buses : ~buses[b].default
          /\ pc[t] \in {"unlock", "initloop", "fetch"} => instance # NoBus
          /\ busLock = t /\ pc[t] \in {"check", "add", "grow", "store", "version", "bump"} => instance # NoBus

IInv == TypeOK /\ InBounds /\ LockDiscipline /\ CreatedOnce

\* A thread inside List.Add has the last cell to itself, the next or an empty one,
\* and the version is behind the size until it has stored it.
Reserved(t) ==
    /\ ~overlap[t]
    /\ pc[t] = "grow" => buses[bus[t]].size = slot[t]
    /\ pc[t] = "store" => /\ buses[bus[t]].size = slot[t] + 1
                          /\ buses[bus[t]].array[slot[t] + 1] = NoType
    /\ pc[t] \in {"store", "version", "bump"} => buses[bus[t]].version < buses[bus[t]].size
    /\ pc[t] = "bump" => slot[t] = buses[bus[t]].version

\* Adds that do not overlap: one thread at a time extends a list.
OneByOne ==
    /\ \A b \in DOMAIN buses : /\ buses[b].size = Len(buses[b].array)
                              /\ buses[b].version <= buses[b].size
    /\ \A t, u \in Threads : Appending(t) /\ Appending(u) /\ bus[t] = bus[u] => t = u
    /\ \A t \in Threads : Appending(t) => Reserved(t)

\* Some bus holds type c, one that the initialiser should register.
Holds(c) == \E b \in DOMAIN buses : \E p \in 1..buses[b].size : buses[b].array[p] = c
Registered(i) == IsValidType(LoadedTypes[i]) => Holds(LoadedTypes[i])

\* The initialiser has registered what its loop has passed.
Passed(t) ==
    busLock = t =>
        /\ pc[t] \in {"initloop", "version", "bump"} =>
            \A i \in DOMAIN LoadedTypes : i < j[t] => Registered(i)
        /\ pc[t] \in {"check", "fetch", "add", "grow", "store"} =>
            \A i \in DOMAIN LoadedTypes : i < j[t] - 1 => Registered(i)

NoneLost == ~raced => OneByOne /\ (\A t \in Threads : Passed(t)) /\ HandlersRegistered

\* What a thread is doing belongs to the call it has made.
Purpose(t) ==
    /\ pc[t] \in {"enum", "move", "current", "rare", "handle"} => op[t] = "send"
    /\ pc[t] \in {"add", "grow", "store", "version", "bump"} /\ busLock # t => op[t] \in {"add", "addall"}
    /\ pc[t] = "loop" => op[t] = "addall"
    /\ pc[t] = "set" => op[t] = "set"
    /\ pc[t] = "setfactory" => op[t] = "setfactory"
    /\ sent[t] # <<>> =>
        Sending(t) \/ (pc[t] = "idle" /\ op[t] = "send" /\ result[t] # "none")

\* Only the last cell of a list may be empty, while its item is being stored.
Solid ==
    \A b \in DOMAIN buses : \A p \in 1..buses[b].size :
        buses[b].array[p] = NoType =>
            /\ p = buses[b].size
            /\ \E t \in Threads : pc[t] = "store" /\ bus[t] = b

\* The list still begins with the handlers that were registered when Send began,
\* and what Send has called, or is calling, comes from it in order.
Watching(t) ==
    Sending(t) =>
        LET b == buses[bus[t]] IN
        /\ expected[t] <= b.version
        /\ Len(seen[t]) <= b.size
        /\ \A p \in DOMAIN seen[t] : seen[t][p] = NoType => p = Len(seen[t])
        /\ \A p \in DOMAIN seen[t] : seen[t][p] = NoType \/ seen[t][p] = b.array[p]
        /\ pc[t] = "rare" => expected[t] # b.version \/ pos[t] > Len(seen[t])
        /\ \A i \in DOMAIN sent[t] : sent[t][i][1] < Place(t)
        /\ pc[t] = "handle" =>
            /\ pos[t] - 1 \in 1..b.size /\ handler[t] = b.array[pos[t] - 1]
            /\ handler[t] # NoType /\ CanHandle(handler[t], msg[t])

Steady ==
    /\ \A t \in Threads : Purpose(t)
    /\ ~raced => Solid /\ \A t \in Threads : Watching(t)

-----------------------------------------------------------------------------

LEMMA BusFields ==
    ASSUME NEW b \in BusRecords
    PROVE  /\ b.array \in Seq(Cells) /\ b.size \in Nat /\ b.version \in Nat
           /\ b.factory \in Factories /\ b.default \in BOOLEAN
BY DEF BusRecords

LEMMA NewBusType ==
    /\ NewBus(TRUE) \in BusRecords /\ NewBus(TRUE).default = TRUE
    /\ NewBus(FALSE) \in BusRecords /\ NewBus(FALSE).default = FALSE
    /\ NewBus(TRUE).size <= Len(NewBus(TRUE).array)
    /\ NewBus(FALSE).size <= Len(NewBus(FALSE).array)
BY DEF NewBus, BusRecords, Factories

LEMMA LoadedDomain == Len(LoadedTypes) \in Nat /\ DOMAIN LoadedTypes = 1..Len(LoadedTypes)
BY TypeAssumption

LEMMA InitHolds == Init => IInv
<1> SUFFICES ASSUME Init PROVE IInv
  OBVIOUS
<1>1. TypeOK
  <2>1. (CHOOSE m \in Messages : TRUE) \in Messages /\ (CHOOSE c \in Types : TRUE) \in Types
    BY TypeAssumption
  <2>2. /\ instance \in Nat /\ busLock \in Threads \cup {NoThread} /\ raced \in BOOLEAN
        /\ pc \in [Threads -> PCs] /\ op \in [Threads -> AllOps]
        /\ result \in [Threads -> Results]
        /\ overlap \in [Threads -> BOOLEAN]
    BY DEF Init, NoBus, PCs, Results, AllOps
  <2>3. /\ msg \in [Threads -> Messages] /\ type \in [Threads -> Types]
        /\ handler \in [Threads -> Cells]
    BY <2>1, TypeAssumption DEF Init, Cells
  <2>4. /\ k \in [Threads -> Nat] /\ j \in [Threads -> Nat] /\ bus \in [Threads -> Nat]
        /\ slot \in [Threads -> Nat] /\ expected \in [Threads -> Nat]
        /\ pos \in [Threads -> Nat] /\ calls \in [Threads -> 0..MaxCalls]
    BY BoundAssumption DEF Init, NoBus
  <2>5. /\ buses \in Seq(BusRecords)
        /\ seen \in [Threads -> Seq(Cells)] /\ sent \in [Threads -> Seq(Nat \X Cells)]
    BY DEF Init
  <2> QED
    BY <2>2, <2>3, <2>4, <2>5 DEF TypeOK
<1>2. InBounds
  BY TypeAssumption DEF Init, InBounds, Located, NoBus
<1>3. LockDiscipline
  <2> SUFFICES ASSUME NEW t \in Threads
               PROVE  /\ pc[t] \notin {"recheck", "create", "initloop", "unlock"}
                      /\ busLock # t
    BY Zenon DEF LockDiscipline
  <2>1. pc[t] = "idle"
    BY DEF Init
  <2>2. busLock # t
    BY ThreadAssumption DEF Init
  <2> QED
    BY <2>1, <2>2
<1>4. CreatedOnce
  BY DEF Init, CreatedOnce, OneDefaultBus
<1> QED
  BY <1>1, <1>2, <1>3, <1>4 DEF IInv

LEMMA CallKeeps == ASSUME IInv, NEW t \in Threads, Call(t) PROVE IInv'
<1> USE TypeAssumption, ThreadAssumption, BoundAssumption
<1>1. TypeOK'
  <2>1. /\ op' \in [Threads -> AllOps] /\ pc' \in [Threads -> PCs]
        /\ result' \in [Threads -> Results]
    BY DEF Call, IInv, TypeOK, PCs, Results, AllOps, Goto, Entry
  <2>2. calls' \in [Threads -> 0..MaxCalls] /\ k' \in [Threads -> Nat]
    BY DEF Call, IInv, TypeOK
  <2>3. msg' \in [Threads -> Messages] /\ type' \in [Threads -> Types]
    <3>1. msg \in [Threads -> Messages] /\ type \in [Threads -> Types]
      BY DEF IInv, TypeOK
    <3> QED
      BY <3>1 DEF Call
  <2>4. seen' \in [Threads -> Seq(Cells)] /\ sent' \in [Threads -> Seq(Nat \X Cells)]
    <3>1. <<>> \in Seq(Cells) /\ <<>> \in Seq(Nat \X Cells)
      OBVIOUS
    <3> QED
      BY <3>1 DEF Call, IInv, TypeOK
  <2> QED
    BY <2>1, <2>2, <2>3, <2>4 DEF Call, IInv, TypeOK, shared
<1>2. InBounds'
  <2> SUFFICES ASSUME NEW u \in Threads PROVE Located(u)'
    BY DEF Call, IInv, InBounds, shared, callVars, addVars, sendVars
  <2>1. CASE u = t
    <3>1. pc'[t] \in {"loop", "set", "check"} /\ (op'[t] = "addall" => pc'[t] = "loop")
      BY DEF Call, IInv, TypeOK, Goto, Entry
    <3>2. busLock' # t
      BY DEF Call, IInv, LockDiscipline, shared
    <3>3. pos'[t] # 0 /\ j'[t] # 0 /\ k'[t] # 0
      BY DEF Call, IInv, TypeOK, InBounds, Located
    <3> QED
      BY <2>1, <3>1, <3>2, <3>3 DEF Located
  <2>2. CASE u # t
    BY <2>2 DEF Call, IInv, TypeOK, InBounds, Located, Goto, shared, callVars, addVars, sendVars
  <2> QED
    BY <2>1, <2>2
<1>3. LockDiscipline'
  BY DEF Call, IInv, TypeOK, LockDiscipline, PCs, Goto, Entry, shared, callVars, addVars, sendVars
<1>4. CreatedOnce'
  <2>1. /\ UNCHANGED <<instance, busLock, buses>> /\ busLock # t
        /\ pc'[t] \in {"loop", "set", "check"}
        /\ \A u \in Threads : u # t => pc'[u] = pc[u]
    BY DEF Call, IInv, TypeOK, LockDiscipline, Goto, Entry, shared
  <2> QED
    BY <2>1 DEF IInv, CreatedOnce, OneDefaultBus
<1> QED
  BY <1>1, <1>2, <1>3, <1>4 DEF IInv

LEMMA CheckKeeps == ASSUME IInv, NEW t \in Threads, Check(t) PROVE IInv'
<1> USE TypeAssumption, ThreadAssumption, BoundAssumption
<1>1. TypeOK'
  BY DEF Check, IInv, TypeOK, PCs, Results, AllOps, Goto, Return, shared, callVars, addVars, sendVars
<1>2. InBounds'
  <2> SUFFICES ASSUME NEW u \in Threads PROVE Located(u)'
    BY DEF Check, IInv, InBounds, shared, callVars, addVars, sendVars
  <2> QED
    BY DEF Check, IInv, TypeOK, InBounds, Located, LockDiscipline, CreatedOnce, PCs, Goto, Return, NoBus, shared, callVars, addVars, sendVars
<1>3. LockDiscipline'
  BY DEF Check, IInv, TypeOK, LockDiscipline, CreatedOnce, PCs, Goto, Return, shared, callVars, addVars, sendVars
<1>4. CreatedOnce'
  BY DEF Check, IInv, TypeOK, LockDiscipline, CreatedOnce, OneDefaultBus, PCs, Goto, Return, NoBus, shared, callVars, addVars, sendVars
<1> QED
  BY <1>1, <1>2, <1>3, <1>4 DEF IInv

LEMMA LockKeeps == ASSUME IInv, NEW t \in Threads, Lock(t) PROVE IInv'
<1> USE TypeAssumption, ThreadAssumption, BoundAssumption
<1>1. TypeOK'
  BY DEF Lock, IInv, TypeOK, PCs, Results, AllOps, Goto, Return, shared, callVars, addVars, sendVars
<1>2. InBounds'
  <2> SUFFICES ASSUME NEW u \in Threads PROVE Located(u)'
    BY DEF Lock, IInv, InBounds, shared, callVars, addVars, sendVars
  <2> QED
    BY DEF Lock, IInv, TypeOK, InBounds, Located, LockDiscipline, CreatedOnce, PCs, Goto, Return, NoBus, shared, callVars, addVars, sendVars
<1>3. LockDiscipline'
  BY DEF Lock, IInv, TypeOK, LockDiscipline, CreatedOnce, PCs, Goto, Return, shared, callVars, addVars, sendVars
<1>4. CreatedOnce'
  BY DEF Lock, IInv, TypeOK, LockDiscipline, CreatedOnce, OneDefaultBus, PCs, Goto, Return, NoBus, shared, callVars, addVars, sendVars
<1> QED
  BY <1>1, <1>2, <1>3, <1>4 DEF IInv

LEMMA RecheckKeeps == ASSUME IInv, NEW t \in Threads, Recheck(t) PROVE IInv'
<1> USE TypeAssumption, ThreadAssumption, BoundAssumption
<1>1. TypeOK'
  BY DEF Recheck, IInv, TypeOK, PCs, Results, AllOps, Goto, Return, shared, callVars, addVars, sendVars
<1>2. InBounds'
  <2> SUFFICES ASSUME NEW u \in Threads PROVE Located(u)'
    BY DEF Recheck, IInv, InBounds, shared, callVars, addVars, sendVars
  <2> QED
    BY DEF Recheck, IInv, TypeOK, InBounds, Located, LockDiscipline, CreatedOnce, PCs, Goto, Return, NoBus, shared, callVars, addVars, sendVars
<1>3. LockDiscipline'
  BY DEF Recheck, IInv, TypeOK, LockDiscipline, CreatedOnce, PCs, Goto, Return, shared, callVars, addVars, sendVars
<1>4. CreatedOnce'
  BY DEF Recheck, IInv, TypeOK, LockDiscipline, CreatedOnce, OneDefaultBus, PCs, Goto, Return, NoBus, shared, callVars, addVars, sendVars
<1> QED
  BY <1>1, <1>2, <1>3, <1>4 DEF IInv

LEMMA InitLoopKeeps == ASSUME IInv, NEW t \in Threads, InitLoop(t) PROVE IInv'
<1> USE TypeAssumption, ThreadAssumption, BoundAssumption
<1>a. j \in [Threads -> Nat]
  BY DEF IInv, TypeOK
<1>b. j' = j \/ j' = [j EXCEPT ![t] = @ + 1]
  BY DEF InitLoop
<1>1. TypeOK'
  <2>1. j' \in [Threads -> Nat]
    BY <1>a, <1>b
  <2>2. pc' \in [Threads -> PCs] /\ result' \in [Threads -> Results]
    BY DEF InitLoop, IInv, TypeOK, PCs, Results, Goto, Return
  <2> QED
    BY <2>1, <2>2 DEF InitLoop, IInv, TypeOK, shared, callVars, addVars, sendVars
<1>2. InBounds'
  <2> SUFFICES ASSUME NEW u \in Threads PROVE Located(u)'
    BY DEF InitLoop, IInv, InBounds, shared, callVars, addVars, sendVars
  <2>1. CASE u = t
    <3>1. CASE j[t] > Len(LoadedTypes)
      BY <2>1, <3>1 DEF InitLoop, IInv, TypeOK, InBounds, Located, Goto, shared, callVars, addVars, sendVars
    <3>2. CASE ~(j[t] > Len(LoadedTypes))
      <4>1. j[t] \in DOMAIN LoadedTypes /\ j'[t] - 1 = j[t] /\ j'[t] # 0
        <5>1. j'[t] = j[t] + 1
          BY <1>a, <3>2 DEF InitLoop
        <5>2. j[t] # 0
          BY DEF IInv, InBounds, Located
        <5> QED
          BY <1>a, <3>2, <5>1, <5>2, LoadedDomain
      <4> QED
        BY <2>1, <3>2, <4>1 DEF InitLoop, IInv, TypeOK, InBounds, Located, Goto, shared, callVars, addVars, sendVars
    <3> QED
      BY <3>1, <3>2
  <2>2. CASE u # t
    BY <2>2 DEF InitLoop, IInv, TypeOK, InBounds, Located, Goto, Return, shared, callVars, addVars, sendVars
  <2> QED
    BY <2>1, <2>2
<1>3. LockDiscipline'
  BY DEF InitLoop, IInv, TypeOK, LockDiscipline, CreatedOnce, PCs, Goto, Return, shared, callVars, addVars, sendVars
<1>4. CreatedOnce'
  BY DEF InitLoop, IInv, TypeOK, LockDiscipline, CreatedOnce, OneDefaultBus, PCs, Goto, Return, NoBus, shared, callVars, addVars, sendVars
<1> QED
  BY <1>1, <1>2, <1>3, <1>4 DEF IInv

LEMMA UnlockKeeps == ASSUME IInv, NEW t \in Threads, Unlock(t) PROVE IInv'
<1> USE TypeAssumption, ThreadAssumption, BoundAssumption
<1>1. TypeOK'
  BY DEF Unlock, IInv, TypeOK, PCs, Results, AllOps, Goto, Return, shared, callVars, addVars, sendVars
<1>2. InBounds'
  <2> SUFFICES ASSUME NEW u \in Threads PROVE Located(u)'
    BY DEF Unlock, IInv, InBounds, shared, callVars, addVars, sendVars
  <2> QED
    BY DEF Unlock, IInv, TypeOK, InBounds, Located, LockDiscipline, CreatedOnce, PCs, Goto, Return, NoBus, shared, callVars, addVars, sendVars
<1>3. LockDiscipline'
  BY DEF Unlock, IInv, TypeOK, LockDiscipline, CreatedOnce, PCs, Goto, Return, shared, callVars, addVars, sendVars
<1>4. CreatedOnce'
  BY DEF Unlock, IInv, TypeOK, LockDiscipline, CreatedOnce, OneDefaultBus, PCs, Goto, Return, NoBus, shared, callVars, addVars, sendVars
<1> QED
  BY <1>1, <1>2, <1>3, <1>4 DEF IInv

LEMMA FetchKeeps == ASSUME IInv, NEW t \in Threads, Fetch(t) PROVE IInv'
<1> USE TypeAssumption, ThreadAssumption, BoundAssumption
<1>1. TypeOK'
  BY DEF Fetch, IInv, TypeOK, PCs, Results, AllOps, Goto, Return, shared, callVars, addVars, sendVars
<1>2. InBounds'
  <2> SUFFICES ASSUME NEW u \in Threads PROVE Located(u)'
    BY DEF Fetch, IInv, InBounds, shared, callVars, addVars, sendVars
  <2>1. CASE u = t
    <3>1. instance # NoBus
      BY DEF Fetch, IInv, CreatedOnce
    <3>2. instance \in DOMAIN buses
      <4>1. instance \in 0..Len(buses) /\ buses \in Seq(BusRecords)
        BY DEF IInv, TypeOK, InBounds
      <4>2. Len(buses) \in Nat /\ DOMAIN buses = 1..Len(buses)
        BY <4>1
      <4> QED
        BY <4>1, <4>2, <3>1 DEF NoBus
    <3>3. bus'[t] \in DOMAIN buses
      BY <3>2 DEF Fetch, IInv, TypeOK
    <3>4. pc'[t] \in {"add", "enum", "setfactory", "idle"}
      BY DEF Fetch, IInv, TypeOK, Goto, Return
    <3> QED
      BY <2>1, <3>3, <3>4 DEF Fetch, IInv, TypeOK, InBounds, Located, shared, callVars, addVars, sendVars
  <2>2. CASE u # t
    BY <2>2 DEF Fetch, IInv, TypeOK, InBounds, Located, Goto, Return, shared, callVars, addVars, sendVars
  <2> QED
    BY <2>1, <2>2
<1>3. LockDiscipline'
  BY DEF Fetch, IInv, TypeOK, LockDiscipline, CreatedOnce, PCs, Goto, Return, shared, callVars, addVars, sendVars
<1>4. CreatedOnce'
  <2>1. pc' \in [Threads -> PCs] /\ pc'[t] \in {"add", "enum", "setfactory", "idle"}
        /\ \A u \in Threads : u # t => pc'[u] = pc[u]
    <3>1. pc \in [Threads -> PCs]
      BY DEF IInv, TypeOK
    <3>2. pc' \in [Threads -> PCs]
      BY <1>1 DEF TypeOK
    <3>3. \E to \in {"add", "enum", "setfactory", "idle"} : pc' = [pc EXCEPT ![t] = to]
      BY DEF Fetch, Goto, Return
    <3> QED
      BY <3>1, <3>2, <3>3
  <2>2. UNCHANGED <<instance, busLock, buses>>
    BY DEF Fetch, shared
  <2> QED
    BY <2>1, <2>2 DEF Fetch, IInv, CreatedOnce, OneDefaultBus
<1> QED
  BY <1>1, <1>2, <1>3, <1>4 DEF IInv

LEMMA LoopKeeps == ASSUME IInv, NEW t \in Threads, Loop(t) PROVE IInv'
<1> USE TypeAssumption, ThreadAssumption, BoundAssumption
<1>a. k \in [Threads -> Nat]
  BY DEF IInv, TypeOK
<1>b. k' = k \/ k' = [k EXCEPT ![t] = @ + 1]
  BY DEF Loop
<1>1. TypeOK'
  <2>1. k' \in [Threads -> Nat]
    BY <1>a, <1>b
  <2>2. pc' \in [Threads -> PCs] /\ result' \in [Threads -> Results]
    BY DEF Loop, IInv, TypeOK, PCs, Results, Goto, Return
  <2> QED
    BY <2>1, <2>2 DEF Loop, IInv, TypeOK, shared, callVars, addVars, sendVars
<1>2. InBounds'
  <2> SUFFICES ASSUME NEW u \in Threads PROVE Located(u)'
    BY DEF Loop, IInv, InBounds, shared, callVars, addVars, sendVars
  <2>1. CASE u = t
    <3>1. CASE k[t] > Len(LoadedTypes)
      BY <2>1, <3>1 DEF Loop, IInv, TypeOK, InBounds, Located, Goto, Return, shared, callVars, addVars, sendVars
    <3>2. CASE ~(k[t] > Len(LoadedTypes))
      <4>1. k[t] \in DOMAIN LoadedTypes /\ k'[t] - 1 = k[t] /\ k'[t] # 0
        <5>1. k'[t] = k[t] + 1
          BY <1>a, <3>2 DEF Loop
        <5>2. k[t] # 0
          BY DEF IInv, InBounds, Located
        <5> QED
          BY <1>a, <3>2, <5>1, <5>2, LoadedDomain
      <4>2. busLock # t
        BY DEF Loop, IInv, LockDiscipline
      <4> QED
        BY <2>1, <3>2, <4>1, <4>2 DEF Loop, IInv, TypeOK, InBounds, Located, Goto, shared, callVars, addVars, sendVars
    <3> QED
      BY <3>1, <3>2
  <2>2. CASE u # t
    BY <2>2 DEF Loop, IInv, TypeOK, InBounds, Located, Goto, Return, shared, callVars, addVars, sendVars
  <2> QED
    BY <2>1, <2>2
<1>3. LockDiscipline'
  BY DEF Loop, IInv, TypeOK, LockDiscipline, CreatedOnce, PCs, Goto, Return, shared, callVars, addVars, sendVars
<1>4. CreatedOnce'
  <2>1. /\ UNCHANGED <<instance, busLock, buses>> /\ busLock # t
        /\ pc'[t] \in {"idle", "check", "loop"}
        /\ \A u \in Threads : u # t => pc'[u] = pc[u]
    BY DEF Loop, IInv, TypeOK, LockDiscipline, Goto, Return, shared
  <2> QED
    BY <2>1 DEF IInv, CreatedOnce, OneDefaultBus
<1> QED
  BY <1>1, <1>2, <1>3, <1>4 DEF IInv

\* The list a thread works on, and its fields.
LEMMA BusOf ==
    ASSUME IInv, NEW t \in Threads,
           pc[t] \in {"add", "grow", "store", "version", "bump",
              "enum", "move", "current", "rare", "handle", "setfactory"}
    PROVE  /\ bus[t] \in DOMAIN buses
           /\ buses[bus[t]] \in BusRecords
           /\ buses[bus[t]].array \in Seq(Cells) /\ buses[bus[t]].size \in Nat
           /\ buses[bus[t]].version \in Nat
           /\ buses[bus[t]].size <= Len(buses[bus[t]].array)
<1>1. bus[t] \in DOMAIN buses
  BY DEF IInv, InBounds, Located
<1>2. buses[bus[t]] \in BusRecords
  BY <1>1 DEF IInv, TypeOK
<1> QED
  BY <1>1, <1>2, BusFields DEF IInv, InBounds

\* A type that FindAllMessageHandlers kept passes the check in Add, so only
\* AddMessageHandler can fail there, and it holds no lock.
LEMMA OnlyAddFails ==
    ASSUME IInv, NEW t \in Threads, pc[t] = "add", Argument(t) \notin Implementors
    PROVE  busLock # t /\ op[t] # "addall"
BY DEF IInv, InBounds, Located, Argument, IsValidType

LEMMA AddKeeps == ASSUME IInv, NEW t \in Threads, Add(t) PROVE IInv'
<1>p. pc[t] = "add"
  BY DEF Add
<1>s. slot \in [Threads -> Nat] /\ buses[bus[t]].size \in Nat
  BY <1>p, BusOf DEF IInv, TypeOK
<1>f. \/ /\ pc' = [pc EXCEPT ![t] = "grow"] /\ UNCHANGED result
         /\ slot' = [slot EXCEPT ![t] = buses[bus[t]].size]
         /\ Argument(t) \in Implementors
      \/ /\ pc' = [pc EXCEPT ![t] = "idle"] /\ result' = [result EXCEPT ![t] = "failed"]
         /\ UNCHANGED <<slot, overlap, raced>>
         /\ busLock # t /\ op[t] # "addall"
  BY <1>p, OnlyAddFails DEF Add, Goto, Return
<1>q. UNCHANGED <<instance, busLock, buses, op, type, bus, k, j, pos>>
  BY DEF Add, shared, callVars, sendVars
<1>1. TypeOK'
  <2>1. slot' \in [Threads -> Nat]
    BY <1>s, <1>f
  <2>2. overlap' \in [Threads -> BOOLEAN] /\ raced' \in BOOLEAN
    BY DEF Add, IInv, TypeOK, Goto, Return
  <2>3. pc' \in [Threads -> PCs] /\ result' \in [Threads -> Results]
    BY <1>f DEF IInv, TypeOK, PCs, Results
  <2> QED
    BY <2>1, <2>2, <2>3 DEF Add, IInv, TypeOK, shared, callVars, sendVars
<1>2. InBounds'
  <2> SUFFICES ASSUME NEW u \in Threads PROVE Located(u)'
    BY <1>q DEF IInv, InBounds
  <2>1. CASE u = t
    <3>1. /\ pc'[t] \in {"grow", "idle"}
          /\ pc'[t] = "grow" => slot'[t] = buses[bus[t]].size /\ Argument(t) \in Implementors
      BY <1>f, <1>s DEF IInv, TypeOK
    <3>2. pc'[t] = "grow" /\ busLock # t /\ op[t] # "addall" => type[t] \in Implementors
      BY <3>1 DEF Argument
    <3> QED
      BY <2>1, <1>p, <1>q, <3>1, <3>2, BusOf DEF IInv, InBounds, Located
  <2>2. CASE u # t
    <3>1. pc'[u] = pc[u] /\ slot'[u] = slot[u]
      BY <2>2, <1>f, <1>s DEF IInv, TypeOK
    <3> QED
      BY <1>q, <3>1 DEF IInv, InBounds, Located
  <2> QED
    BY <2>1, <2>2
<1>3. LockDiscipline'
  BY <1>f, <1>p, <1>q DEF IInv, TypeOK, LockDiscipline
<1>4. CreatedOnce'
  BY <1>f, <1>p, <1>q DEF IInv, TypeOK, CreatedOnce, OneDefaultBus, NoBus
<1> QED
  BY <1>1, <1>2, <1>3, <1>4 DEF IInv

LEMMA EnumKeeps == ASSUME IInv, NEW t \in Threads, Enum(t) PROVE IInv'
<1>p. pc[t] = "enum" /\ pc' = [pc EXCEPT ![t] = "move"]
  BY DEF Enum, Goto
<1>q. UNCHANGED <<instance, busLock, buses, op, type, bus, k, j, slot>>
  BY DEF Enum, shared, callVars, addVars
<1>1. TypeOK'
  <2>1. Items(bus[t]) \in Seq(Cells)
    BY <1>p, BusOf DEF Items
  <2>2. seen' \in [Threads -> Seq(Cells)]
    BY <2>1 DEF Enum, IInv, TypeOK
  <2>3. expected' \in [Threads -> Nat] /\ pos' \in [Threads -> Nat]
    BY <1>p, BusOf DEF Enum, IInv, TypeOK
  <2>4. pc' \in [Threads -> PCs]
    BY <1>p DEF IInv, TypeOK, PCs
  <2> QED
    BY <2>2, <2>3, <2>4 DEF Enum, IInv, TypeOK, shared, callVars, addVars
<1>2. InBounds'
  <2> SUFFICES ASSUME NEW u \in Threads PROVE Located(u)'
    BY <1>q DEF IInv, InBounds
  <2>1. pos'[u] # 0
    BY DEF Enum, IInv, TypeOK, InBounds, Located
  <2> QED
    BY <1>p, <1>q, <2>1 DEF IInv, TypeOK, InBounds, Located, LockDiscipline
<1>3. LockDiscipline'
  BY <1>p, <1>q DEF IInv, TypeOK, LockDiscipline
<1>4. CreatedOnce'
  BY <1>p, <1>q DEF IInv, TypeOK, CreatedOnce, OneDefaultBus, NoBus
<1> QED
  BY <1>1, <1>2, <1>3, <1>4 DEF IInv

LEMMA MoveKeeps == ASSUME IInv, NEW t \in Threads, Move(t) PROVE IInv'
<1>p. pc[t] = "move" /\ \E to \in {"current", "rare"} : pc' = [pc EXCEPT ![t] = to]
  BY DEF Move, Goto
<1>q. UNCHANGED <<instance, busLock, buses, op, type, bus, k, j, slot, pos>>
  BY DEF Move, shared, callVars, addVars, sendVars
<1>1. TypeOK'
  BY <1>p DEF Move, IInv, TypeOK, PCs, shared, callVars, addVars, sendVars
<1>2. InBounds'
  BY <1>p, <1>q DEF IInv, TypeOK, InBounds, Located, LockDiscipline
<1>3. LockDiscipline'
  BY <1>p, <1>q DEF IInv, TypeOK, LockDiscipline
<1>4. CreatedOnce'
  BY <1>p, <1>q DEF IInv, TypeOK, CreatedOnce, OneDefaultBus, NoBus
<1> QED
  BY <1>1, <1>2, <1>3, <1>4 DEF IInv

LEMMA CurrentKeeps == ASSUME IInv, NEW t \in Threads, Current(t) PROVE IInv'
<1>p. pc[t] = "current"
  BY DEF Current
<1>f. \E to \in {"idle", "move", "rare", "handle"} :
         /\ pc' = [pc EXCEPT ![t] = to]
         /\ result' = result \/ \E how \in Results : result' = [result EXCEPT ![t] = how]
  BY DEF Current, Goto, Return, Results
<1>g. \/ UNCHANGED <<pos, handler>>
      \/ /\ pos' = [pos EXCEPT ![t] = @ + 1]
         /\ pos[t] <= buses[bus[t]].size
         /\ handler' = [handler EXCEPT ![t] = buses[bus[t]].array[pos[t]]]
  BY DEF Current
<1>q. UNCHANGED <<instance, busLock, buses, op, type, bus, k, j, slot>>
  BY DEF Current, shared, callVars, addVars
<1>t. pos \in [Threads -> Nat] /\ handler \in [Threads -> Cells] /\ pos[t] # 0
  BY DEF IInv, TypeOK, InBounds, Located
<1>1. TypeOK'
  <2>1. pc' \in [Threads -> PCs] /\ result' \in [Threads -> Results]
    <3>1. pc \in [Threads -> PCs] /\ result \in [Threads -> Results]
      BY DEF IInv, TypeOK
    <3>2. PICK to \in {"idle", "move", "rare", "handle"} : pc' = [pc EXCEPT ![t] = to]
      BY <1>f
    <3>3. to \in PCs
      BY DEF PCs
    <3>4. result' = result \/ \E how \in Results : result' = [result EXCEPT ![t] = how]
      BY <1>f
    <3> QED
      BY <3>1, <3>2, <3>3, <3>4
  <2>2. pos' \in [Threads -> Nat]
    BY <1>g, <1>t
  <2>3. handler' \in [Threads -> Cells]
    <3>1. CASE pos[t] <= buses[bus[t]].size
      <4>1. pos[t] \in 1..Len(buses[bus[t]].array)
        BY <3>1, <1>p, <1>t, BusOf
      <4>2. buses[bus[t]].array[pos[t]] \in Cells
        BY <4>1, <1>p, BusOf
      <4> QED
        BY <4>2, <1>g, <1>t
    <3> QED
      BY <3>1, <1>g, <1>t
  <2> QED
    BY <2>1, <2>2, <2>3 DEF Current, IInv, TypeOK, shared, callVars, addVars
<1>2. InBounds'
  <2> SUFFICES ASSUME NEW u \in Threads PROVE Located(u)'
    BY <1>q DEF IInv, InBounds
  <2>1. pos'[u] # 0
    <3>1. pos[u] # 0
      BY DEF IInv, InBounds, Located
    <3> QED
      BY <3>1, <1>g, <1>t
  <2>2. CASE u = t
    <3>1. pc'[t] \in {"idle", "move", "rare", "handle"} /\ busLock # t
      BY <1>f, <1>p DEF IInv, TypeOK, LockDiscipline
    <3> QED
      BY <1>p, <1>q, <2>1, <2>2, <3>1 DEF IInv, InBounds, Located
  <2>3. CASE u # t
    <3>1. pc'[u] = pc[u]
      BY <1>f, <2>3 DEF IInv, TypeOK
    <3> QED
      BY <1>q, <2>1, <3>1 DEF IInv, InBounds, Located
  <2> QED
    BY <2>2, <2>3
<1>3. LockDiscipline'
  BY <1>f, <1>p, <1>q DEF IInv, TypeOK, LockDiscipline
<1>4. CreatedOnce'
  BY <1>f, <1>p, <1>q DEF IInv, TypeOK, CreatedOnce, OneDefaultBus, NoBus
<1> QED
  BY <1>1, <1>2, <1>3, <1>4 DEF IInv

LEMMA RareKeeps == ASSUME IInv, NEW t \in Threads, Rare(t) PROVE IInv'
<1>p. /\ pc[t] = "rare" /\ pc' = [pc EXCEPT ![t] = "idle"]
      /\ \E how \in Results : result' = [result EXCEPT ![t] = how]
  BY DEF Rare, Return, Goto, Results
<1>q. UNCHANGED <<instance, busLock, buses, op, type, bus, k, j, slot, pos>>
  BY DEF Rare, shared, callVars, addVars, sendVars
<1>1. TypeOK'
  BY <1>p DEF Rare, IInv, TypeOK, PCs, shared, callVars, addVars, sendVars
<1>2. InBounds'
  BY <1>p, <1>q DEF IInv, TypeOK, InBounds, Located, LockDiscipline
<1>3. LockDiscipline'
  BY <1>p, <1>q DEF IInv, TypeOK, LockDiscipline
<1>4. CreatedOnce'
  BY <1>p, <1>q DEF IInv, TypeOK, CreatedOnce, OneDefaultBus, NoBus
<1> QED
  BY <1>1, <1>2, <1>3, <1>4 DEF IInv

LEMMA HandleKeeps == ASSUME IInv, NEW t \in Threads, Handle(t) PROVE IInv'
<1>p. pc[t] = "handle"
  BY DEF Handle
<1>f. /\ pc' = [pc EXCEPT ![t] = "move"] \/ pc' = [pc EXCEPT ![t] = "idle"]
      /\ result' = result \/ result' = [result EXCEPT ![t] = "failed"]
  BY DEF Handle, Goto, Return
<1>q. UNCHANGED <<instance, busLock, buses, op, type, bus, k, j, slot, pos>>
  BY DEF Handle, shared, callVars, addVars
<1>1. TypeOK'
  <2>1. pc' \in [Threads -> PCs] /\ result' \in [Threads -> Results]
    BY <1>f DEF IInv, TypeOK, PCs, Results
  <2>2. sent' \in [Threads -> Seq(Nat \X Cells)]
    <3> DEFINE call == <<pos[t] - 1, handler[t]>>
    <3>0. pos[t] \in Nat /\ pos[t] # 0 /\ handler[t] \in Cells
      BY DEF IInv, TypeOK, InBounds, Located
    <3>1. sent \in [Threads -> Seq(Nat \X Cells)] /\ call \in Nat \X Cells
      <4>1. pos[t] - 1 \in Nat
        BY <3>0
      <4>2. sent \in [Threads -> Seq(Nat \X Cells)]
        BY DEF IInv, TypeOK
      <4> QED
        BY <3>0, <4>1, <4>2
    <3>2. sent' = sent \/ sent' = [sent EXCEPT ![t] = Append(sent[t], call)]
      BY DEF Handle
    <3> HIDE DEF call
    <3>3. Append(sent[t], call) \in Seq(Nat \X Cells)
      BY <3>1
    <3> QED
      BY <3>1, <3>2, <3>3
  <2> QED
    BY <2>1, <2>2 DEF Handle, IInv, TypeOK, shared, callVars, addVars
<1>2. InBounds'
  <2> SUFFICES ASSUME NEW u \in Threads PROVE Located(u)'
    BY <1>q DEF IInv, InBounds
  <2> QED
    BY <1>p, <1>f, <1>q DEF IInv, TypeOK, InBounds, Located, LockDiscipline
<1>3. LockDiscipline'
  BY <1>f, <1>p, <1>q DEF IInv, TypeOK, LockDiscipline
<1>4. CreatedOnce'
  BY <1>f, <1>p, <1>q DEF IInv, TypeOK, CreatedOnce, OneDefaultBus, NoBus
<1> QED
  BY <1>1, <1>2, <1>3, <1>4 DEF IInv

\* A new bus leaves the indices of the others as they are.
LEMMA AppendBus ==
    ASSUME IInv, NEW r \in BusRecords, buses' = Append(buses, r)
    PROVE  /\ buses' \in Seq(BusRecords) /\ Len(buses') = Len(buses) + 1
           /\ DOMAIN buses = 1..Len(buses) /\ DOMAIN buses' = 1..(Len(buses) + 1)
           /\ Len(buses) \in Nat
           /\ \A b \in DOMAIN buses : buses'[b] = buses[b]
           /\ buses'[Len(buses) + 1] = r
<1>1. buses \in Seq(BusRecords)
  BY DEF IInv, TypeOK
<1> QED
  BY <1>1, AppendProperties

LEMMA AppendInBounds ==
    ASSUME IInv, NEW r \in BusRecords, r.size <= Len(r.array), buses' = Append(buses, r),
           instance' = Len(buses) + 1,
           UNCHANGED <<bus, slot, pos, op, type, k>>,
           NEW t \in Threads, pc[t] \in {"create", "set"},
           pc' = [pc EXCEPT ![t] = IF pc[t] = "create" THEN "initloop" ELSE "idle"],
           j' = j \/ j' = [j EXCEPT ![t] = 1],
           busLock' = busLock
    PROVE  InBounds'
<1>1. instance' \in 0..Len(buses')
  BY AppendBus
<1>2. \A b \in DOMAIN buses' : buses'[b].size <= Len(buses'[b].array)
  BY AppendBus DEF IInv, InBounds
<1>3. ASSUME NEW u \in Threads PROVE Located(u)'
  <2>1. pos'[u] # 0 /\ j'[u] # 0 /\ k'[u] # 0
    <3>1. Located(u)
      BY DEF IInv, InBounds
    <3>2. j'[u] = j[u] \/ j'[u] = 1
      BY DEF IInv, TypeOK
    <3> QED
      BY <3>1, <3>2 DEF Located
  <2>2. CASE u = t
    BY <2>1, <2>2 DEF IInv, TypeOK, InBounds, Located, LockDiscipline
  <2>3. CASE u # t
    <3>1. pc'[u] = pc[u] /\ j'[u] = j[u]
      BY <2>3 DEF IInv, TypeOK
    <3>2. bus[u] \in DOMAIN buses => bus[u] \in DOMAIN buses' /\ buses'[bus[u]] = buses[bus[u]]
      BY AppendBus
    <3> QED
      BY <3>1, <3>2 DEF IInv, InBounds, Located
  <2> QED
    BY <2>2, <2>3
<1> QED
  BY <1>1, <1>2, <1>3 DEF InBounds

LEMMA CreateKeeps == ASSUME IInv, NEW t \in Threads, Create(t) PROVE IInv'
<1>p. /\ pc[t] = "create" /\ pc' = [pc EXCEPT ![t] = "initloop"] /\ busLock = t
      /\ buses' = Append(buses, NewBus(TRUE)) /\ instance' = Len(buses) + 1
      /\ j' = [j EXCEPT ![t] = 1]
  BY DEF Create, Goto, IInv, LockDiscipline
<1>q. UNCHANGED <<busLock, op, type, bus, k, slot, pos>>
  BY DEF Create, callVars, sendVars
<1>n. NewBus(TRUE) \in BusRecords /\ NewBus(TRUE).default = TRUE
      /\ NewBus(TRUE).size <= Len(NewBus(TRUE).array)
  BY NewBusType
<1>a. /\ buses' \in Seq(BusRecords) /\ Len(buses') = Len(buses) + 1
      /\ DOMAIN buses = 1..Len(buses) /\ DOMAIN buses' = 1..(Len(buses) + 1)
      /\ Len(buses) \in Nat
      /\ \A b \in DOMAIN buses : buses'[b] = buses[b]
      /\ buses'[Len(buses) + 1] = NewBus(TRUE)
  BY <1>p, <1>n, AppendBus
<1>1. TypeOK'
  <2>1. buses' \in Seq(BusRecords) /\ instance' \in Nat
    <3>1. instance' = Len(buses) + 1 /\ Len(buses) \in Nat
      BY <1>p, <1>a
    <3>2. instance' \in Nat
      BY <3>1
    <3> QED
      BY <3>2, <1>a
  <2>2. pc' \in [Threads -> PCs] /\ j' \in [Threads -> Nat]
    BY <1>p DEF IInv, TypeOK, PCs
  <2> QED
    BY <2>1, <2>2 DEF Create, IInv, TypeOK, callVars, sendVars
<1>2. InBounds'
  BY <1>p, <1>q, <1>n, AppendInBounds
<1>3. LockDiscipline'
  BY <1>p, <1>q DEF IInv, TypeOK, LockDiscipline
<1>4. CreatedOnce'
  <2>1. \A b \in DOMAIN buses : ~buses[b].default
    BY <1>p DEF IInv, CreatedOnce
  <2>2. OneDefaultBus'
    BY <2>1, <1>a DEF OneDefaultBus
  <2>3. instance' # NoBus
    BY <1>p, <1>a DEF NoBus
  <2>4. \A u \in Threads : pc'[u] # "create"
    BY <1>p DEF IInv, TypeOK, LockDiscipline
  <2> QED
    BY <2>2, <2>3, <2>4 DEF CreatedOnce
<1> QED
  BY <1>1, <1>2, <1>3, <1>4 DEF IInv

LEMMA SetInstanceKeeps == ASSUME IInv, NEW t \in Threads, SetInstance(t) PROVE IInv'
<1>p. /\ pc[t] = "set" /\ pc' = [pc EXCEPT ![t] = "idle"] /\ busLock # t
      /\ buses' = Append(buses, NewBus(FALSE)) /\ instance' = Len(buses) + 1
      /\ result' = [result EXCEPT ![t] = "ok"]
  BY DEF SetInstance, Goto, Return, IInv, LockDiscipline
<1>q. UNCHANGED <<busLock, op, type, bus, j, k, slot, pos>>
  BY DEF SetInstance, callVars, addVars, sendVars
<1>n. NewBus(FALSE) \in BusRecords /\ NewBus(FALSE).default = FALSE
      /\ NewBus(FALSE).size <= Len(NewBus(FALSE).array)
  BY NewBusType
<1>a. /\ buses' \in Seq(BusRecords) /\ Len(buses') = Len(buses) + 1
      /\ DOMAIN buses = 1..Len(buses) /\ DOMAIN buses' = 1..(Len(buses) + 1)
      /\ Len(buses) \in Nat
      /\ \A b \in DOMAIN buses : buses'[b] = buses[b]
      /\ buses'[Len(buses) + 1] = NewBus(FALSE)
  BY <1>p, <1>n, AppendBus
<1>1. TypeOK'
  <2>1. buses' \in Seq(BusRecords) /\ instance' \in Nat
    <3>1. instance' = Len(buses) + 1 /\ Len(buses) \in Nat
      BY <1>p, <1>a
    <3>2. instance' \in Nat
      BY <3>1
    <3> QED
      BY <3>2, <1>a
  <2>2. pc' \in [Threads -> PCs] /\ result' \in [Threads -> Results]
    BY <1>p DEF IInv, TypeOK, PCs, Results
  <2> QED
    BY <2>1, <2>2 DEF SetInstance, IInv, TypeOK, callVars, addVars, sendVars
<1>2. InBounds'
  BY <1>p, <1>q, <1>n, AppendInBounds
<1>3. LockDiscipline'
  BY <1>p, <1>q DEF IInv, TypeOK, LockDiscipline
<1>4. CreatedOnce'
  <2>1. \A b \in DOMAIN buses' : buses'[b].default => b \in DOMAIN buses /\ buses[b].default
    <3>1. ASSUME NEW b \in DOMAIN buses', buses'[b].default PROVE b # Len(buses) + 1
      BY <3>1, <1>n, <1>a
    <3> QED
      BY <3>1, <1>a
  <2>2. OneDefaultBus'
    BY <2>1 DEF IInv, CreatedOnce, OneDefaultBus
  <2>3. instance' # NoBus
    BY <1>p, <1>a DEF NoBus
  <2>4. \A u \in Threads : pc'[u] = "create" => pc[u] = "create"
    BY <1>p DEF IInv, TypeOK
  <2> QED
    BY <2>1, <2>2, <2>3, <2>4 DEF IInv, CreatedOnce
<1> QED
  BY <1>1, <1>2, <1>3, <1>4 DEF IInv

\* An update of one bus that keeps its kind and does not shrink its array.
LEMMA UpdateBus ==
    ASSUME IInv, NEW b \in DOMAIN buses, NEW r \in BusRecords,
           r.default = buses[b].default, r.size <= Len(r.array),
           Len(buses[b].array) <= Len(r.array),
           buses' = [buses EXCEPT ![b] = r]
    PROVE  /\ buses' \in Seq(BusRecords) /\ Len(buses') = Len(buses)
           /\ DOMAIN buses' = DOMAIN buses
           /\ \A c \in DOMAIN buses : /\ buses'[c].default = buses[c].default
                                      /\ buses'[c].size <= Len(buses'[c].array)
                                      /\ Len(buses[c].array) <= Len(buses'[c].array)
<1>1. buses \in Seq(BusRecords)
  BY DEF IInv, TypeOK
<1>2. buses' \in Seq(BusRecords) /\ Len(buses') = Len(buses) /\ DOMAIN buses' = DOMAIN buses
  BY <1>1, ExceptSeq
<1>3. \A c \in DOMAIN buses : Len(buses[c].array) \in Nat
  BY <1>1, BusFields
<1>4. ASSUME NEW c \in DOMAIN buses
      PROVE  /\ buses'[c].default = buses[c].default
             /\ buses'[c].size <= Len(buses'[c].array)
             /\ Len(buses[c].array) <= Len(buses'[c].array)
  BY <1>1, <1>3 DEF IInv, InBounds
<1> QED
  BY <1>2, <1>4

LEMMA SetMessageHandlerFactoryKeeps ==
    ASSUME IInv, NEW t \in Threads, SetMessageHandlerFactory(t) PROVE IInv'
<1>p. /\ pc[t] = "setfactory" /\ pc' = [pc EXCEPT ![t] = "idle"] /\ busLock # t
      /\ result' = [result EXCEPT ![t] = "ok"]
  BY DEF SetMessageHandlerFactory, Goto, Return, IInv, LockDiscipline
<1>q. UNCHANGED <<instance, busLock, op, type, bus, j, k, slot, pos>>
  BY DEF SetMessageHandlerFactory, callVars, addVars, sendVars
<1> DEFINE r == [buses[bus[t]] EXCEPT !.factory = "container"]
<1>r. /\ r \in BusRecords /\ r.default = buses[bus[t]].default
      /\ r.size = buses[bus[t]].size /\ r.array = buses[bus[t]].array
  BY <1>p, BusOf DEF BusRecords, Factories
<1>b. buses' = [buses EXCEPT ![bus[t]] = r]
  BY DEF SetMessageHandlerFactory
<1>l. Len(buses[bus[t]].array) <= Len(r.array) /\ r.size <= Len(r.array)
  BY <1>p, <1>r, BusOf
<1> HIDE DEF r
<1>a. /\ buses' \in Seq(BusRecords) /\ Len(buses') = Len(buses) /\ DOMAIN buses' = DOMAIN buses
      /\ \A c \in DOMAIN buses : /\ buses'[c].default = buses[c].default
                                 /\ buses'[c].size <= Len(buses'[c].array)
  BY <1>p, <1>r, <1>b, <1>l, BusOf, UpdateBus
<1>1. TypeOK'
  <2>1. pc' \in [Threads -> PCs] /\ result' \in [Threads -> Results]
    BY <1>p DEF IInv, TypeOK, PCs, Results
  <2> QED
    BY <2>1, <1>a DEF SetMessageHandlerFactory, IInv, TypeOK, callVars, addVars, sendVars
<1>2. InBounds'
  <2>1. ASSUME NEW u \in Threads PROVE Located(u)'
    <3>1. Len(buses'[bus[u]].array) = Len(buses[bus[u]].array) \/ pc[u] # "grow"
      BY <1>p, <1>r, <1>b, <1>a, BusOf DEF IInv, TypeOK
    <3> QED
      BY <3>1, <1>p, <1>q, <1>a DEF IInv, TypeOK, InBounds, Located
  <2> QED
    BY <2>1, <1>a, <1>q DEF IInv, InBounds
<1>3. LockDiscipline'
  BY <1>p, <1>q DEF IInv, TypeOK, LockDiscipline
<1>4. CreatedOnce'
  BY <1>p, <1>q, <1>a DEF IInv, TypeOK, CreatedOnce, OneDefaultBus
<1> QED
  BY <1>1, <1>2, <1>3, <1>4 DEF IInv

LEMMA GrowKeeps == ASSUME IInv, NEW t \in Threads, Grow(t) PROVE IInv'
<1>p. /\ pc[t] = "grow" /\ pc' = [pc EXCEPT ![t] = "store"] /\ UNCHANGED result
  BY DEF Grow, Goto
<1>q. UNCHANGED <<instance, busLock, op, type, bus, j, k, slot, pos>>
  BY DEF Grow, callVars, addVars, sendVars
<1> DEFINE old == buses[bus[t]]
           longer == IF Len(old.array) > slot[t] THEN old.array ELSE Append(old.array, NoType)
           r == [old EXCEPT !.size = slot[t] + 1, !.array = longer]
<1>o1. old \in BusRecords /\ old.array \in Seq(Cells)
  BY <1>p, BusOf
<1>o2. slot[t] \in Nat /\ NoType \in Cells /\ slot[t] <= Len(old.array)
  BY <1>p DEF IInv, TypeOK, InBounds, Located, Cells
<1>o. old \in BusRecords /\ old.array \in Seq(Cells) /\ slot[t] \in Nat /\ NoType \in Cells
      /\ slot[t] <= Len(old.array) /\ Len(old.array) \in Nat
  BY <1>o1, <1>o2
<1>g. /\ longer \in Seq(Cells) /\ Len(old.array) <= Len(longer) /\ slot[t] + 1 <= Len(longer)
  BY <1>o, AppendProperties
<1>b. buses' = [buses EXCEPT ![bus[t]] = r]
  BY DEF Grow
<1>e. slot[t] + 1 \in Nat
  BY <1>o
<1> HIDE DEF longer, old
<1>r. /\ r \in BusRecords /\ r.default = old.default
      /\ r.size = slot[t] + 1 /\ r.array = longer
  BY <1>o, <1>e, <1>g DEF BusRecords
<1>l. Len(old.array) <= Len(r.array) /\ r.size <= Len(r.array)
  BY <1>r, <1>g
<1> HIDE DEF r
<1> USE DEF old
<1>a. /\ buses' \in Seq(BusRecords) /\ Len(buses') = Len(buses) /\ DOMAIN buses' = DOMAIN buses
      /\ \A c \in DOMAIN buses : /\ buses'[c].default = buses[c].default
                                 /\ buses'[c].size <= Len(buses'[c].array)
                                 /\ Len(buses[c].array) <= Len(buses'[c].array)
  BY <1>p, <1>r, <1>b, <1>l, BusOf, UpdateBus
<1>1. TypeOK'
  <2>1. pc' \in [Threads -> PCs]
    BY <1>p DEF IInv, TypeOK, PCs
  <2> QED
    BY <2>1, <1>a DEF Grow, IInv, TypeOK, callVars, addVars, sendVars
<1>2. InBounds'
  <2>1. ASSUME NEW u \in Threads PROVE Located(u)'
    <3>1. pc[u] = "grow" => slot[u] <= Len(buses'[bus[u]].array)
      <4> SUFFICES ASSUME pc[u] = "grow" PROVE slot[u] <= Len(buses'[bus[u]].array)
        OBVIOUS
      <4>1. /\ bus[u] \in DOMAIN buses /\ slot[u] <= Len(buses[bus[u]].array) /\ slot[u] \in Nat
        BY DEF IInv, TypeOK, InBounds, Located
      <4>2. buses[bus[u]] \in BusRecords /\ buses'[bus[u]] \in BusRecords
        BY <4>1, <1>a DEF IInv, TypeOK
      <4>3. Len(buses[bus[u]].array) \in Nat /\ Len(buses'[bus[u]].array) \in Nat
        BY <4>2, BusFields
      <4> QED
        BY <4>1, <4>3, <1>a
    <3> QED
      BY <3>1, <1>p, <1>q, <1>a DEF IInv, TypeOK, InBounds, Located
  <2> QED
    BY <2>1, <1>a, <1>q DEF IInv, InBounds
<1>3. LockDiscipline'
  BY <1>p, <1>q DEF IInv, TypeOK, LockDiscipline
<1>4. CreatedOnce'
  BY <1>p, <1>q, <1>a DEF IInv, TypeOK, CreatedOnce, OneDefaultBus
<1> QED
  BY <1>1, <1>2, <1>3, <1>4 DEF IInv

LEMMA ArgumentIsCell ==
    ASSUME IInv, NEW t \in Threads, pc[t] = "store"
    PROVE  Argument(t) \in Types /\ Argument(t) \in Cells /\ Argument(t) # NoType
<1>1. busLock # t /\ op[t] # "addall" => type[t] \in Implementors
  BY DEF IInv, InBounds, Located
<1>2. Implementors \subseteq Types /\ Implementors \subseteq Cells /\ NoType \notin Types
  BY TypeAssumption DEF Cells
<1>3. busLock = t => LoadedTypes[j[t] - 1] \in Implementors
  BY DEF IInv, InBounds, Located, IsValidType
<1>4. op[t] = "addall" => LoadedTypes[k[t] - 1] \in Implementors
  BY DEF IInv, InBounds, Located, IsValidType
<1> QED
  BY <1>1, <1>2, <1>3, <1>4 DEF Argument

LEMMA StoreKeeps == ASSUME IInv, NEW t \in Threads, Store(t) PROVE IInv'
<1>p. pc[t] = "store" /\ pc' = [pc EXCEPT ![t] = "version"] /\ UNCHANGED result
  BY DEF Store, Goto
<1>q. UNCHANGED <<instance, busLock, op, type, bus, j, k, slot, pos>>
  BY DEF Store, callVars, sendVars
<1> DEFINE old == buses[bus[t]]
           stored == [old.array EXCEPT ![slot[t] + 1] = Argument(t)]
<1>o. old \in BusRecords /\ old.array \in Seq(Cells) /\ old.version \in Nat
      /\ old.size <= Len(old.array)
  BY <1>p, BusOf
<1>g. stored \in Seq(Cells) /\ Len(stored) = Len(old.array)
  <2>1. CASE slot[t] + 1 \in 1..Len(old.array)
    BY <2>1, <1>o, <1>p, ArgumentIsCell, ExceptSeq
  <2>2. CASE slot[t] + 1 \notin 1..Len(old.array)
    <3>1. stored = old.array
      BY <2>2, <1>o
    <3> QED
      BY <3>1, <1>o
  <2> QED
    BY <2>1, <2>2
<1>b. PICK array \in {stored, old.array} :
         buses' = [buses EXCEPT ![bus[t]] =
                     [old EXCEPT !.array = array]]
  BY DEF Store
<1> DEFINE r == [old EXCEPT !.array = array]
<1>c. array \in Seq(Cells) /\ Len(array) = Len(old.array)
  BY <1>o, <1>g
<1>e. Len(old.array) \in Nat
  BY <1>o
<1> HIDE DEF stored, old
<1>r. r \in BusRecords /\ r.default = old.default /\ r.size = old.size /\ r.array = array
  BY <1>o, <1>e, <1>c DEF BusRecords
<1> HIDE DEF r
<1>l. Len(old.array) <= Len(r.array) /\ r.size <= Len(r.array)
  BY <1>o, <1>e, <1>r, <1>c
<1>d. buses' = [buses EXCEPT ![bus[t]] = r]
  BY <1>b DEF r
<1> USE DEF old
<1>a. /\ buses' \in Seq(BusRecords) /\ Len(buses') = Len(buses) /\ DOMAIN buses' = DOMAIN buses
      /\ \A c \in DOMAIN buses : /\ buses'[c].default = buses[c].default
                                 /\ buses'[c].size <= Len(buses'[c].array)
                                 /\ Len(buses[c].array) <= Len(buses'[c].array)
  BY <1>p, <1>r, <1>d, <1>l, BusOf, UpdateBus
<1>1. TypeOK'
  <2>1. pc' \in [Threads -> PCs] /\ overlap' \in [Threads -> BOOLEAN]
    BY <1>p DEF Store, IInv, TypeOK, PCs
  <2> QED
    BY <2>1, <1>a DEF Store, IInv, TypeOK, callVars, sendVars
<1>2. InBounds'
  <2>1. ASSUME NEW u \in Threads PROVE Located(u)'
    <3>1. pc[u] = "grow" => slot[u] <= Len(buses'[bus[u]].array)
      <4> SUFFICES ASSUME pc[u] = "grow" PROVE slot[u] <= Len(buses'[bus[u]].array)
        OBVIOUS
      <4>1. /\ bus[u] \in DOMAIN buses /\ slot[u] <= Len(buses[bus[u]].array) /\ slot[u] \in Nat
        BY DEF IInv, TypeOK, InBounds, Located
      <4>2. buses[bus[u]] \in BusRecords /\ buses'[bus[u]] \in BusRecords
        BY <4>1, <1>a DEF IInv, TypeOK
      <4>3. Len(buses[bus[u]].array) \in Nat /\ Len(buses'[bus[u]].array) \in Nat
        BY <4>2, BusFields
      <4> QED
        BY <4>1, <4>3, <1>a
    <3> QED
      BY <3>1, <1>p, <1>q, <1>a DEF IInv, TypeOK, InBounds, Located
  <2> QED
    BY <2>1, <1>a, <1>q DEF IInv, InBounds
<1>3. LockDiscipline'
  BY <1>p, <1>q DEF IInv, TypeOK, LockDiscipline
<1>4. CreatedOnce'
  BY <1>p, <1>q, <1>a DEF IInv, TypeOK, CreatedOnce, OneDefaultBus
<1> QED
  BY <1>1, <1>2, <1>3, <1>4 DEF IInv

LEMMA ReadVersionKeeps == ASSUME IInv, NEW t \in Threads, ReadVersion(t) PROVE IInv'
<1>p. /\ pc[t] = "version" /\ pc' = [pc EXCEPT ![t] = "bump"]
      /\ slot' = [slot EXCEPT ![t] = buses[bus[t]].version]
  BY DEF ReadVersion, Goto
<1>v. slot' \in [Threads -> Nat]
  BY <1>p, BusOf DEF IInv, TypeOK
<1>q. UNCHANGED <<instance, busLock, buses, op, type, bus, k, j, pos>>
  BY DEF ReadVersion, shared, callVars, sendVars
<1>1. TypeOK'
  BY <1>p, <1>v DEF ReadVersion, IInv, TypeOK, PCs, shared, callVars, sendVars
<1>2. InBounds'
  BY <1>p, <1>q DEF IInv, TypeOK, InBounds, Located, LockDiscipline
<1>3. LockDiscipline'
  BY <1>p, <1>q DEF IInv, TypeOK, LockDiscipline
<1>4. CreatedOnce'
  BY <1>p, <1>q DEF IInv, TypeOK, CreatedOnce, OneDefaultBus, NoBus
<1> QED
  BY <1>1, <1>2, <1>3, <1>4 DEF IInv

LEMMA BumpKeeps == ASSUME IInv, NEW t \in Threads, Bump(t) PROVE IInv'
<1>p. /\ pc[t] = "bump" /\ slot' = [slot EXCEPT ![t] = 0]
      /\ \/ /\ busLock = t /\ pc' = [pc EXCEPT ![t] = "initloop"] /\ UNCHANGED result
         \/ /\ busLock # t /\ op[t] = "addall" /\ pc' = [pc EXCEPT ![t] = "loop"]
            /\ UNCHANGED result
         \/ /\ busLock # t /\ op[t] # "addall" /\ pc' = [pc EXCEPT ![t] = "idle"]
            /\ result' = [result EXCEPT ![t] = "ok"]
  BY DEF Bump, Goto, Return
<1>q. UNCHANGED <<instance, busLock, op, type, bus, j, k, pos>>
  BY DEF Bump, callVars, sendVars
<1> DEFINE old == buses[bus[t]]
           r == [old EXCEPT !.version = slot[t] + 1]
<1>o1. old \in BusRecords /\ old.size <= Len(old.array) /\ old.array \in Seq(Cells)
       /\ bus[t] \in DOMAIN buses
  BY <1>p, BusOf
<1>o2. slot[t] \in Nat
  BY DEF IInv, TypeOK
<1>o. old \in BusRecords /\ old.size <= Len(old.array) /\ slot[t] + 1 \in Nat
      /\ Len(old.array) \in Nat /\ bus[t] \in DOMAIN buses
  BY <1>o1, <1>o2
<1>b. buses' = [buses EXCEPT ![bus[t]] = r]
  BY DEF Bump
<1> HIDE DEF old
<1>r. r \in BusRecords /\ r.default = old.default /\ r.size = old.size /\ r.array = old.array
  BY <1>o DEF BusRecords
<1> HIDE DEF r
<1>l. Len(old.array) <= Len(r.array) /\ r.size <= Len(r.array)
  BY <1>o, <1>r
<1> USE DEF old
<1>a. /\ buses' \in Seq(BusRecords) /\ Len(buses') = Len(buses) /\ DOMAIN buses' = DOMAIN buses
      /\ \A c \in DOMAIN buses : /\ buses'[c].default = buses[c].default
                                 /\ buses'[c].size <= Len(buses'[c].array)
                                 /\ Len(buses[c].array) <= Len(buses'[c].array)
  BY <1>o, <1>r, <1>b, <1>l, UpdateBus
<1>1. TypeOK'
  <2>1. pc' \in [Threads -> PCs] /\ result' \in [Threads -> Results] /\ slot' \in [Threads -> Nat]
    BY <1>p DEF IInv, TypeOK, PCs, Results
  <2> QED
    BY <2>1, <1>a DEF Bump, IInv, TypeOK, callVars, sendVars
<1>2. InBounds'
  <2>1. ASSUME NEW u \in Threads PROVE Located(u)'
    <3>1. pc'[u] = "grow" => slot'[u] <= Len(buses'[bus[u]].array)
      <4> SUFFICES ASSUME pc'[u] = "grow" PROVE slot'[u] <= Len(buses'[bus[u]].array)
        OBVIOUS
      <4>1. /\ bus[u] \in DOMAIN buses /\ slot[u] <= Len(buses[bus[u]].array) /\ slot[u] \in Nat
            /\ slot'[u] = slot[u]
        BY <1>p DEF IInv, TypeOK, InBounds, Located
      <4>2. buses[bus[u]] \in BusRecords /\ buses'[bus[u]] \in BusRecords
        BY <4>1, <1>a DEF IInv, TypeOK
      <4>3. Len(buses[bus[u]].array) \in Nat /\ Len(buses'[bus[u]].array) \in Nat
        BY <4>2, BusFields
      <4> QED
        BY <4>1, <4>3, <1>a
    <3> QED
      BY <3>1, <1>p, <1>q, <1>a DEF IInv, TypeOK, InBounds, Located
  <2> QED
    BY <2>1, <1>a, <1>q DEF IInv, InBounds
<1>3. LockDiscipline'
  BY <1>p, <1>q DEF IInv, TypeOK, LockDiscipline
<1>4. CreatedOnce'
  <2>1. OneDefaultBus'
    BY <1>a DEF IInv, CreatedOnce, OneDefaultBus
  <2>2. \A b \in DOMAIN buses' : buses'[b].default => instance' # NoBus
    BY <1>q, <1>a DEF IInv, CreatedOnce
  <2>3. ASSUME NEW u \in Threads
        PROVE  /\ pc'[u] = "create" => pc[u] = "create"
               /\ pc'[u] \in {"unlock", "initloop", "fetch"} => instance # NoBus
               /\ busLock = u /\ pc'[u] \in {"check", "add", "grow", "store", "version", "bump"}
                     => instance # NoBus
    BY <1>p DEF IInv, TypeOK, CreatedOnce
  <2> QED
    BY <2>1, <2>2, <2>3, <1>q, <1>a DEF IInv, CreatedOnce
<1> QED
  BY <1>1, <1>2, <1>3, <1>4 DEF IInv

-----------------------------------------------------------------------------

LEMMA NextKeeps == IInv /\ [Next]_vars => IInv'
<1> SUFFICES ASSUME IInv, [Next]_vars PROVE IInv'
  OBVIOUS
<1>1. ASSUME NEW t \in Threads, Call(t) PROVE IInv'
  BY <1>1, CallKeeps
<1>2. ASSUME NEW t \in Threads, Step(t) PROVE IInv'
  BY <1>2, CheckKeeps, LockKeeps, RecheckKeeps, CreateKeeps, InitLoopKeeps, UnlockKeeps,
     FetchKeeps, LoopKeeps, AddKeeps, GrowKeeps, StoreKeeps, ReadVersionKeeps, BumpKeeps,
     EnumKeeps, MoveKeeps, CurrentKeeps, RareKeeps, HandleKeeps, SetInstanceKeeps, SetMessageHandlerFactoryKeeps DEF Step
<1>3. CASE UNCHANGED vars
  BY <1>3 DEF vars, shared, callVars, addVars, sendVars, IInv, TypeOK, InBounds, Located,
     LockDiscipline, CreatedOnce, OneDefaultBus
<1> QED
  BY <1>1, <1>2, <1>3 DEF Next, Finished

LEMMA Invariant == Spec => []IInv
<1>1. Init => IInv
  BY InitHolds
<1>2. IInv /\ [Next]_vars => IInv'
  BY NextKeeps
<1> QED
  BY <1>1, <1>2, PTL DEF Spec

\* Every variable keeps its type, for any threads and loaded types (the state
\* of Bus.cs:11-12 and ApplicationBus.cs:6-17).
THEOREM TypeCorrect == Spec => []TypeOK
<1>1. IInv => TypeOK
  BY DEF IInv
<1> QED
  BY <1>1, Invariant, PTL

\* However many threads find _instance null at once, one default bus is
\* created (Bus.cs:28-38).
THEOREM DefaultBusIsUnique == Spec => []OneDefaultBus
<1>1. IInv => OneDefaultBus
  BY DEF IInv, CreatedOnce
<1> QED
  BY <1>1, Invariant, PTL

\* The getter of Bus.Instance never returns null (Bus.cs:17-18).
THEOREM GetterIsReady == Spec => []InstanceReady
<1>1. IInv => InstanceReady
  BY DEF IInv, CreatedOnce, InstanceReady
<1> QED
  BY <1>1, Invariant, PTL

-----------------------------------------------------------------------------
(* Handlers are registered *)

\* What a step of t leaves to the other threads.
LEMMA OthersStay ==
    ASSUME IInv, NEW t \in Threads, Call(t) \/ Step(t), NEW u \in Threads, u # t
    PROVE  pc'[u] = pc[u] /\ j'[u] = j[u] /\ bus'[u] = bus[u] /\ slot'[u] = slot[u]
<1>1. /\ pc \in [Threads -> PCs] /\ j \in [Threads -> Nat] /\ bus \in [Threads -> Nat]
      /\ slot \in [Threads -> Nat]
  BY DEF IInv, TypeOK
<1> USE DEF shared, callVars, addVars, sendVars, Goto, Return
<1>2. CASE Call(t)
  BY <1>1, <1>2 DEF Call
<1>3. CASE Check(t) \/ Lock(t) \/ Recheck(t) \/ Unlock(t)
  BY <1>1, <1>3 DEF Check, Lock, Recheck, Unlock
<1>4. CASE Create(t) \/ InitLoop(t)
  BY <1>1, <1>4 DEF Create, InitLoop
<1>5. CASE Fetch(t) \/ Loop(t)
  BY <1>1, <1>5 DEF Fetch, Loop
<1>6. CASE Add(t)
  BY <1>1, <1>6 DEF Add
<1>7. CASE Grow(t) \/ Store(t) \/ SetInstance(t) \/ SetMessageHandlerFactory(t)
  BY <1>1, <1>7 DEF Grow, Store, SetInstance, SetMessageHandlerFactory
<1>8. CASE Enum(t) \/ Handle(t) \/ Move(t) \/ Rare(t)
  BY <1>1, <1>8 DEF Enum, Handle, Move, Rare
<1>9. CASE ReadVersion(t) \/ Bump(t) \/ Current(t)
  BY <1>1, <1>9 DEF ReadVersion, Bump, Current
<1> QED
  BY <1>2, <1>3, <1>4, <1>5, <1>6, <1>7, <1>8, <1>9 DEF Step

\* The lists of a bus in Seq(BusRecords).
LEMMA ListOf ==
    ASSUME IInv, NEW b \in DOMAIN buses
    PROVE  /\ buses[b].array \in Seq(Cells) /\ Len(buses[b].array) \in Nat
           /\ buses[b].size \in Nat /\ buses[b].version \in Nat
<1>1. buses[b] \in BusRecords
  BY DEF IInv, TypeOK
<1> QED
  BY <1>1, BusFields

\* A step of t that leaves every list as it is, and nobody in List.Add but
\* those who were.
LEMMA ListsStay ==
    ASSUME IInv, OneByOne, NEW t \in Threads, Call(t) \/ Step(t),
           \A b \in DOMAIN buses : /\ b \in DOMAIN buses'
                                   /\ buses'[b].array = buses[b].array
                                   /\ buses'[b].size = buses[b].size
                                   /\ buses'[b].version = buses[b].version,
           \A b \in DOMAIN buses' : \/ b \in DOMAIN buses
                                    \/ /\ buses'[b].size = Len(buses'[b].array)
                                       /\ buses'[b].version <= buses'[b].size,
           overlap' = overlap, ~Appending(t)'
    PROVE  OneByOne' /\ \A c \in Types : Holds(c) => Holds(c)'
<1>1. \A u \in Threads : u # t => pc'[u] = pc[u] /\ bus'[u] = bus[u] /\ slot'[u] = slot[u]
  BY OthersStay
<1>2. \A u \in Threads : Appending(u)' => Appending(u) /\ u # t
  BY <1>1 DEF Appending
<1>3. \A b \in DOMAIN buses' : /\ buses'[b].size = Len(buses'[b].array)
                               /\ buses'[b].version <= buses'[b].size
  BY DEF OneByOne
<1>4. \A u \in Threads : Appending(u) => bus[u] \in DOMAIN buses
  BY BusOf DEF Appending
<1>5. \A u \in Threads : Appending(u)' => Reserved(u)'
  BY <1>1, <1>2, <1>4 DEF OneByOne, Reserved
<1>6. \A u, v \in Threads : Appending(u)' /\ Appending(v)' /\ bus'[u] = bus'[v] => u = v
  BY <1>1, <1>2 DEF OneByOne
<1>7. \A c \in Types : Holds(c) => Holds(c)'
  BY DEF Holds
<1> QED
  BY <1>3, <1>5, <1>6, <1>7 DEF OneByOne

\* A new bus at the end.
LEMMA AppendedBus ==
    ASSUME IInv, NEW default \in BOOLEAN, buses' = Append(buses, NewBus(default))
    PROVE  /\ \A b \in DOMAIN buses : /\ b \in DOMAIN buses'
                                      /\ buses'[b] = buses[b]
           /\ \A b \in DOMAIN buses' : b \in DOMAIN buses \/ buses'[b] = NewBus(default)
<1>1. buses \in Seq(BusRecords)
  BY DEF IInv, TypeOK
<1> QED
  BY <1>1

\* What Grow and Store do to the list, when nobody overlaps.
LEMMA GrowsList ==
    ASSUME IInv, OneByOne, NEW t \in Threads, Grow(t)
    PROVE  /\ pc[t] = "grow" /\ pc'[t] = "store" /\ UNCHANGED <<bus, slot, overlap>>
           /\ bus[t] \in DOMAIN buses /\ DOMAIN buses' = DOMAIN buses
           /\ \A b \in DOMAIN buses : b # bus[t] => buses'[b] = buses[b]
           /\ buses[bus[t]].array \in Seq(Cells) /\ Reserved(t)
           /\ buses[bus[t]].size = slot[t] /\ Len(buses[bus[t]].array) = slot[t]
           /\ buses'[bus[t]].array = Append(buses[bus[t]].array, NoType)
           /\ buses'[bus[t]].size = slot[t] + 1
           /\ buses'[bus[t]].version = buses[bus[t]].version
<1> DEFINE old == buses[bus[t]]
<1>1. /\ pc \in [Threads -> PCs] /\ slot \in [Threads -> Nat] /\ buses \in Seq(BusRecords)
  BY DEF IInv, TypeOK
<1>2. /\ pc[t] = "grow" /\ pc'[t] = "store" /\ UNCHANGED <<bus, slot, overlap>>
  BY <1>1 DEF Grow, Goto, addVars
<1>3. /\ Reserved(t) /\ old.size = slot[t] /\ old.size = Len(old.array)
      /\ bus[t] \in DOMAIN buses /\ old \in BusRecords /\ old.array \in Seq(Cells)
  BY <1>2, BusOf DEF OneByOne, Appending, Reserved
<1>4. ~(Len(buses[bus[t]].array) > slot[t])
  BY <1>1, <1>3
<1>5. buses' = [buses EXCEPT ![bus[t]] =
                  [old EXCEPT !.size = slot[t] + 1, !.array = Append(old.array, NoType)]]
  BY <1>4 DEF Grow
<1> QED
  BY <1>1, <1>2, <1>3, <1>5 DEF BusRecords

LEMMA StoresItem ==
    ASSUME IInv, OneByOne, NEW t \in Threads, Store(t)
    PROVE  /\ pc[t] = "store" /\ pc'[t] = "version"
           /\ UNCHANGED <<bus, slot, busLock, op, j, k, type>> /\ ~overlap'[t]
           /\ \A u \in Threads : u # t => overlap'[u] = overlap[u]
           /\ bus[t] \in DOMAIN buses /\ DOMAIN buses' = DOMAIN buses
           /\ \A b \in DOMAIN buses : b # bus[t] => buses'[b] = buses[b]
           /\ buses[bus[t]].array \in Seq(Cells)
           /\ buses[bus[t]].size = slot[t] + 1 /\ Len(buses[bus[t]].array) = slot[t] + 1
           /\ buses[bus[t]].array[slot[t] + 1] = NoType
           /\ buses[bus[t]].version < buses[bus[t]].size
           /\ buses'[bus[t]].array =
                [buses[bus[t]].array EXCEPT ![slot[t] + 1] = Argument(t)]
           /\ buses'[bus[t]].size = slot[t] + 1
           /\ buses'[bus[t]].version = buses[bus[t]].version
<1> DEFINE old == buses[bus[t]]
           stored == [old.array EXCEPT ![slot[t] + 1] = Argument(t)]
<1>1. /\ pc \in [Threads -> PCs] /\ overlap \in [Threads -> BOOLEAN] /\ slot \in [Threads -> Nat] /\ buses \in Seq(BusRecords)
  BY DEF IInv, TypeOK
<1>2. /\ pc[t] = "store" /\ pc'[t] = "version"
      /\ UNCHANGED <<bus, slot, busLock, op, j, k, type>> /\ ~overlap'[t]
      /\ \A u \in Threads : u # t => overlap'[u] = overlap[u]
  BY <1>1 DEF Store, Goto, callVars
<1>3. /\ ~overlap[t] /\ old.size = slot[t] + 1 /\ old.size = Len(old.array)
      /\ old.array[slot[t] + 1] = NoType
      /\ bus[t] \in DOMAIN buses /\ old \in BusRecords /\ old.array \in Seq(Cells)
      /\ old.version < old.size
  BY <1>2, BusOf DEF OneByOne, Appending, Reserved
<1>4. buses' = [buses EXCEPT ![bus[t]] = [old EXCEPT !.array = stored]]
  BY <1>3 DEF Store
<1> QED
  BY <1>1, <1>2, <1>3, <1>4 DEF BusRecords

LEMMA BumpsVersion ==
    ASSUME IInv, OneByOne, NEW t \in Threads, Bump(t)
    PROVE  /\ pc[t] = "bump" /\ pc'[t] \in {"initloop", "loop", "idle"}
           /\ UNCHANGED <<bus, overlap, sent>>
           /\ bus[t] \in DOMAIN buses /\ DOMAIN buses' = DOMAIN buses
           /\ \A b \in DOMAIN buses : b # bus[t] => buses'[b] = buses[b]
           /\ \A b \in DOMAIN buses : /\ buses'[b].array = buses[b].array
                                      /\ buses'[b].size = buses[b].size
           /\ buses[bus[t]].version < buses[bus[t]].size
           /\ buses'[bus[t]].version = buses[bus[t]].version + 1
<1>1. /\ pc \in [Threads -> PCs] /\ buses \in Seq(BusRecords)
  BY DEF IInv, TypeOK
<1>2. /\ pc[t] = "bump" /\ pc'[t] \in {"initloop", "loop", "idle"}
      /\ UNCHANGED <<bus, overlap, sent>>
  BY <1>1 DEF Bump, Goto, Return, sendVars
<1>3. /\ bus[t] \in DOMAIN buses /\ buses[bus[t]] \in BusRecords
      /\ slot[t] = buses[bus[t]].version /\ buses[bus[t]].version < buses[bus[t]].size
  BY <1>2, BusOf DEF OneByOne, Appending, Reserved
<1>4. buses' = [buses EXCEPT ![bus[t]] = [buses[bus[t]] EXCEPT !.version = slot[t] + 1]]
  BY DEF Bump
<1> QED
  BY <1>1, <1>2, <1>3, <1>4 DEF BusRecords

LEMMA OneByOneKeeps ==
    ASSUME IInv, IInv', OneByOne, NEW t \in Threads, Call(t) \/ Step(t), ~raced'
    PROVE  /\ OneByOne' /\ \A c \in Types : Holds(c) => Holds(c)'
           /\ Store(t) => Holds(Argument(t))'
<1> USE DEF shared, callVars, addVars, sendVars
<1>1. /\ pc \in [Threads -> PCs] /\ slot \in [Threads -> Nat] /\ buses \in Seq(BusRecords)
  BY DEF IInv, TypeOK
<1>2. \A u \in Threads : u # t => pc'[u] = pc[u] /\ bus'[u] = bus[u] /\ slot'[u] = slot[u]
  BY OthersStay
<1>3. \A u \in Threads : Appending(u) => bus[u] \in DOMAIN buses
  BY BusOf DEF Appending
<1>4. CASE ~(Create(t) \/ SetInstance(t) \/ SetMessageHandlerFactory(t) \/ Add(t) \/ Grow(t)
             \/ Store(t) \/ ReadVersion(t) \/ Bump(t))
  <2>1. UNCHANGED <<buses, overlap>>
    BY <1>4 DEF Step, Call, Check, Lock, Recheck, InitLoop, Unlock, Fetch, Loop, Enum, Move,
                Current, Rare, Handle
  <2>2. ~Appending(t)'
    <3>1. CASE Call(t)
      BY <1>1, <3>1 DEF Call, Goto, Entry, Appending
    <3>2. CASE Check(t) \/ Lock(t) \/ Recheck(t) \/ InitLoop(t) \/ Unlock(t)
      BY <1>1, <3>2 DEF Check, Lock, Recheck, InitLoop, Unlock, Goto, Appending
    <3>3. CASE Fetch(t) \/ Loop(t) \/ Enum(t) \/ Move(t) \/ Current(t) \/ Rare(t) \/ Handle(t)
      BY <1>1, <3>3 DEF Fetch, Loop, Enum, Move, Current, Rare, Handle, Goto, Return, Appending
    <3> QED
      BY <1>4, <3>1, <3>2, <3>3 DEF Step
  <2> QED
    BY <1>4, <2>1, <2>2, ListsStay
<1>5. CASE Create(t) \/ SetInstance(t)
  <2>1. /\ overlap' = overlap /\ pc'[t] \in {"initloop", "idle"}
        /\ ~Store(t)
    BY <1>1, <1>5 DEF Create, SetInstance, Goto, Return, Store
  <2>2. PICK default \in BOOLEAN : buses' = Append(buses, NewBus(default))
    BY <1>5 DEF Create, SetInstance
  <2>3. /\ \A b \in DOMAIN buses : b \in DOMAIN buses' /\ buses'[b] = buses[b]
        /\ \A b \in DOMAIN buses' : b \in DOMAIN buses \/ buses'[b] = NewBus(default)
    BY <2>2, AppendedBus
  <2>4. /\ NewBus(default).size = Len(NewBus(default).array)
        /\ NewBus(default).version <= NewBus(default).size
    BY DEF NewBus
  <2> QED
    BY <2>1, <2>3, <2>4, ListsStay DEF Appending
<1>6. CASE SetMessageHandlerFactory(t)
  <2>1. /\ pc[t] = "setfactory" /\ pc'[t] = "idle" /\ overlap' = overlap /\ ~Store(t)
        /\ buses' = [buses EXCEPT ![bus[t]].factory = "container"]
    BY <1>1, <1>6 DEF SetMessageHandlerFactory, Goto, Return, Store
  <2>2. DOMAIN buses' = DOMAIN buses
        /\ \A b \in DOMAIN buses : buses'[b].array = buses[b].array
                                   /\ buses'[b].size = buses[b].size
                                   /\ buses'[b].version = buses[b].version
    <3>1. buses[bus[t]] \in BusRecords
      BY <2>1, BusOf
    <3> QED
      BY <1>1, <2>1, <3>1 DEF BusRecords
  <2> QED
    BY <2>1, <2>2, ListsStay DEF Appending
<1>7. CASE Add(t)
  <2>1. /\ pc[t] = "add" /\ buses' = buses /\ bus' = bus /\ ~Store(t)
    BY <1>7 DEF Add, Store
  <2>2. \A c \in Types : Holds(c) => Holds(c)'
    BY <2>1 DEF Holds
  <2>3. CASE Argument(t) \notin Implementors
    <3>1. pc'[t] = "idle" /\ overlap' = overlap
      BY <1>1, <1>7, <2>3 DEF Add, Goto, Return
    <3> QED
      BY <2>1, <3>1, ListsStay DEF Appending
  <2>4. CASE Argument(t) \in Implementors
    <3>1. /\ Overlapping(t) = {} /\ pc'[t] = "grow"
          /\ slot'[t] = buses[bus[t]].size
          /\ overlap' = [u \in Threads |-> IF u = t THEN Storing(t) # {}
                                           ELSE overlap[u] \/ u \in Storing(t)]
          /\ Storing(t) = {}
      BY <1>1, <1>7, <2>4 DEF Add, Goto, Storing
    <3>2. \A u \in Threads : u # t /\ Appending(u)' => Appending(u) /\ bus[u] # bus[t]
      BY <1>2, <3>1 DEF Overlapping, Appending
    <3>3. \A u, v \in Threads : Appending(u)' /\ Appending(v)' /\ bus'[u] = bus'[v] => u = v
      BY <2>1, <3>2 DEF OneByOne
    <3>4. ASSUME NEW u \in Threads, Appending(u)' PROVE Reserved(u)'
      <4>1. CASE u = t
        BY <2>1, <3>1, <4>1 DEF Reserved
      <4>2. CASE u # t
        <5>1. Reserved(u) /\ (overlap'[u] => overlap[u])
          BY <3>1, <3>2, <3>4, <4>2 DEF OneByOne
        <5> QED
          BY <1>2, <2>1, <4>2, <5>1 DEF Reserved
      <4> QED
        BY <4>1, <4>2
    <3> QED
      BY <2>1, <2>2, <3>3, <3>4 DEF OneByOne
  <2> QED
    BY <2>3, <2>4
<1>8. CASE Grow(t)
  <2> DEFINE old == buses[bus[t]]
  <2>1. /\ pc[t] = "grow" /\ pc'[t] = "store" /\ bus' = bus /\ slot' = slot /\ overlap' = overlap
        /\ ~Store(t)
    BY <1>8, GrowsList DEF Store
  <2>2. /\ Reserved(t) /\ old.size = slot[t] /\ old.size = Len(old.array)
        /\ bus[t] \in DOMAIN buses /\ old.array \in Seq(Cells)
    BY <1>8, GrowsList
  <2>4. /\ DOMAIN buses' = DOMAIN buses
        /\ \A b \in DOMAIN buses : b # bus[t] => buses'[b] = buses[b]
        /\ buses'[bus[t]].size = slot[t] + 1
        /\ buses'[bus[t]].array = Append(old.array, NoType)
    BY <1>8, GrowsList
  <2>5. /\ Len(Append(old.array, NoType)) = slot[t] + 1
        /\ Append(old.array, NoType)[slot[t] + 1] = NoType
        /\ \A p \in 1..slot[t] : Append(old.array, NoType)[p] = old.array[p]
    BY <2>2
  <2> HIDE DEF old
  <2>6. \A b \in DOMAIN buses' : /\ buses'[b].size = Len(buses'[b].array)
                                 /\ buses'[b].version <= buses'[b].size
    <3>1. /\ slot[t] \in Nat /\ buses[bus[t]].version \in Nat
          /\ buses[bus[t]].version <= slot[t] /\ buses'[bus[t]].version = buses[bus[t]].version
      BY <1>1, <1>8, <2>2, GrowsList, ListOf DEF OneByOne, old
    <3>2. buses[bus[t]].version <= slot[t] + 1
      BY <3>1
    <3> QED
      BY <2>4, <2>5, <3>1, <3>2 DEF OneByOne
  <2>7. \A u \in Threads : u # t /\ Appending(u)' => Appending(u) /\ bus[u] # bus[t]
    BY <1>2, <2>1 DEF OneByOne, Appending
  <2>8. \A u, v \in Threads : Appending(u)' /\ Appending(v)' /\ bus'[u] = bus'[v] => u = v
    BY <2>1, <2>7 DEF OneByOne
  <2>9. ASSUME NEW u \in Threads, Appending(u)' PROVE Reserved(u)'
    <3>1. CASE u = t
      <4>1. buses'[bus[t]].version < buses'[bus[t]].size
        <5>1. /\ slot[t] \in Nat /\ buses[bus[t]].version \in Nat
              /\ buses[bus[t]].version <= slot[t]
              /\ buses'[bus[t]].version = buses[bus[t]].version
          BY <1>1, <1>8, <2>2, GrowsList, ListOf DEF OneByOne, old
        <5> QED
          BY <2>4, <5>1
      <4> QED
        BY <2>1, <2>2, <2>4, <2>5, <3>1, <4>1 DEF Reserved
    <3>2. CASE u # t
      BY <1>2, <1>3, <2>1, <2>4, <2>7, <2>9, <3>2 DEF Reserved, OneByOne
    <3> QED
      BY <3>1, <3>2
  <2>10. ASSUME NEW c \in Types, Holds(c) PROVE Holds(c)'
    <3>0. PICK b \in DOMAIN buses : \E p \in 1..buses[b].size : buses[b].array[p] = c
      BY <2>10 DEF Holds
    <3>1. PICK p \in 1..buses[b].size : buses[b].array[p] = c
      BY <3>0
    <3>2. buses[b].size \in Nat /\ slot[t] \in Nat
      BY <1>1, ListOf
    <3>3. b \in DOMAIN buses' /\ p \in 1..buses'[b].size /\ buses'[b].array[p] = c
      <4>1. CASE b = bus[t]
        <5>1. p \in 1..slot[t] /\ old.array[p] = c
          BY <2>2, <3>1, <4>1 DEF old
        <5> QED
          BY <2>4, <2>5, <3>2, <4>1, <5>1
      <4>2. CASE b # bus[t]
        BY <2>4, <3>1, <4>2
      <4> QED
        BY <4>1, <4>2
    <3> QED
      BY <3>3 DEF Holds
  <2> QED
    BY <2>1, <2>6, <2>8, <2>9, <2>10 DEF OneByOne
<1>9. CASE Store(t)
  <2> DEFINE old == buses[bus[t]]
             stored == [old.array EXCEPT ![slot[t] + 1] = Argument(t)]
  <2>1. /\ pc[t] = "store" /\ pc'[t] = "version" /\ bus' = bus /\ slot' = slot
        /\ ~overlap'[t] /\ \A u \in Threads : u # t => overlap'[u] = overlap[u]
        /\ UNCHANGED <<busLock, op, j, k, type>>
    BY <1>9, StoresItem
  <2>2. /\ old.size = slot[t] + 1 /\ old.size = Len(old.array)
        /\ old.array[slot[t] + 1] = NoType
        /\ bus[t] \in DOMAIN buses /\ old.array \in Seq(Cells)
    BY <1>9, StoresItem
  <2>4. /\ DOMAIN buses' = DOMAIN buses
        /\ \A b \in DOMAIN buses : b # bus[t] => buses'[b] = buses[b]
        /\ buses'[bus[t]].size = slot[t] + 1
        /\ buses'[bus[t]].array = stored
        /\ buses'[bus[t]].version = buses[bus[t]].version
        /\ buses[bus[t]].version < slot[t] + 1
    BY <1>9, StoresItem
  <2>5. /\ Len(stored) = slot[t] + 1 /\ stored[slot[t] + 1] = Argument(t)
        /\ \A p \in 1..slot[t] + 1 : p # slot[t] + 1 => stored[p] = old.array[p]
        /\ slot[t] + 1 \in 1..slot[t] + 1
    BY <1>1, <2>2
  <2> HIDE DEF stored, old
  <2>6. \A b \in DOMAIN buses' : /\ buses'[b].size = Len(buses'[b].array)
                                 /\ buses'[b].version <= buses'[b].size
    <3>1. slot[t] + 1 \in Nat /\ buses[bus[t]].version \in Nat
      BY <1>1, <2>2, ListOf
    <3>2. buses'[bus[t]].version <= buses'[bus[t]].size
      BY <2>4, <3>1
    <3> QED
      BY <2>4, <2>5, <3>2 DEF OneByOne
  <2>7. \A u \in Threads : u # t /\ Appending(u)' => Appending(u) /\ bus[u] # bus[t]
    BY <1>2, <2>1 DEF OneByOne, Appending
  <2>8. \A u, v \in Threads : Appending(u)' /\ Appending(v)' /\ bus'[u] = bus'[v] => u = v
    BY <2>1, <2>7 DEF OneByOne
  <2>9. ASSUME NEW u \in Threads, Appending(u)' PROVE Reserved(u)'
    <3>1. CASE u = t
      BY <2>1, <2>4, <3>1 DEF Reserved
    <3>2. CASE u # t
      BY <1>2, <1>3, <2>1, <2>4, <2>7, <2>9, <3>2 DEF Reserved, OneByOne
    <3> QED
      BY <3>1, <3>2
  <2>10. Holds(Argument(t))'
    <3>1. Argument(t)' = Argument(t)
      BY <2>1 DEF Argument
    <3>2. bus[t] \in DOMAIN buses' /\ slot[t] + 1 \in 1..buses'[bus[t]].size
          /\ buses'[bus[t]].array[slot[t] + 1] = Argument(t)
      BY <2>2, <2>4, <2>5
    <3> QED
      BY <3>1, <3>2 DEF Holds
  <2>11. ASSUME NEW c \in Types, Holds(c) PROVE Holds(c)'
    <3>0. PICK b \in DOMAIN buses : \E p \in 1..buses[b].size : buses[b].array[p] = c
      BY <2>11 DEF Holds
    <3>1. PICK p \in 1..buses[b].size : buses[b].array[p] = c
      BY <3>0
    <3>2. c # NoType
      BY TypeAssumption
    <3>3. b \in DOMAIN buses' /\ p \in 1..buses'[b].size /\ buses'[b].array[p] = c
      <4>1. CASE b = bus[t]
        <5>1. p \in 1..slot[t] + 1 /\ old.array[p] = c /\ p # slot[t] + 1
          BY <2>2, <3>1, <3>2, <4>1 DEF old
        <5> QED
          BY <2>4, <2>5, <4>1, <5>1
      <4>2. CASE b # bus[t]
        BY <2>4, <3>1, <4>2
      <4> QED
        BY <4>1, <4>2
    <3> QED
      BY <3>3 DEF Holds
  <2> QED
    BY <2>6, <2>8, <2>9, <2>10, <2>11 DEF OneByOne
<1>10. CASE ReadVersion(t)
  <2>1. /\ pc[t] = "version" /\ pc'[t] = "bump" /\ buses' = buses /\ bus' = bus
        /\ slot'[t] = buses[bus[t]].version /\ overlap' = overlap /\ ~Store(t)
    BY <1>1, <1>10 DEF ReadVersion, Goto, Store
  <2>2. \A u \in Threads : Appending(u)' => Appending(u)
    BY <1>2, <2>1 DEF Appending
  <2>3. ASSUME NEW u \in Threads, Appending(u)' PROVE Reserved(u)'
    <3>1. Reserved(u)
      BY <2>2, <2>3 DEF OneByOne
    <3>2. CASE u = t
      BY <2>1, <3>1, <3>2 DEF Reserved
    <3>3. CASE u # t
      BY <1>2, <2>1, <3>1, <3>3 DEF Reserved
    <3> QED
      BY <3>2, <3>3
  <2> QED
    BY <2>1, <2>2, <2>3 DEF OneByOne, Holds
<1>11. CASE Bump(t)
  <2>1. /\ pc[t] = "bump" /\ pc'[t] \in {"initloop", "loop", "idle"}
        /\ bus' = bus /\ overlap' = overlap /\ ~Store(t)
        /\ bus[t] \in DOMAIN buses /\ DOMAIN buses' = DOMAIN buses
        /\ \A b \in DOMAIN buses : b # bus[t] => buses'[b] = buses[b]
        /\ \A b \in DOMAIN buses : /\ buses'[b].array = buses[b].array
                                   /\ buses'[b].size = buses[b].size
        /\ buses[bus[t]].version < buses[bus[t]].size
        /\ buses'[bus[t]].version = buses[bus[t]].version + 1
    BY <1>11, BumpsVersion DEF Store
  <2>2. \A b \in DOMAIN buses' : /\ buses'[b].size = Len(buses'[b].array)
                                 /\ buses'[b].version <= buses'[b].size
    <3>1. buses[bus[t]].version \in Nat /\ buses[bus[t]].size \in Nat
      BY <2>1, ListOf
    <3>2. buses'[bus[t]].version <= buses'[bus[t]].size
      BY <2>1, <3>1
    <3> QED
      BY <2>1, <3>2 DEF OneByOne
  <2>3. \A u \in Threads : Appending(u)' => u # t /\ Appending(u) /\ bus[u] # bus[t]
    BY <1>2, <2>1 DEF OneByOne, Appending
  <2>4. ASSUME NEW u \in Threads, Appending(u)' PROVE Reserved(u)'
    BY <1>2, <1>3, <2>1, <2>3, <2>4 DEF Reserved, OneByOne
  <2>5. \A u, v \in Threads : Appending(u)' /\ Appending(v)' /\ bus'[u] = bus'[v] => u = v
    BY <2>1, <2>3 DEF OneByOne
  <2>6. \A c \in Types : Holds(c) => Holds(c)'
    BY <2>1 DEF Holds
  <2> QED
    BY <2>1, <2>2, <2>4, <2>5, <2>6 DEF OneByOne
<1> QED
  BY <1>4, <1>5, <1>6, <1>7, <1>8, <1>9, <1>10, <1>11

\* The holder of the lock goes once around the initialiser's loop: the lock
\* stays with it until Unlock, and it returns to the loop only from Bump.
LEMMA HolderMoves ==
    ASSUME IInv, NEW t \in Threads, Call(t) \/ Step(t),
           NEW u \in Threads, busLock' = u, u # t \/ busLock = u
    PROVE  /\ busLock = u
           /\ u = t /\ pc[u] \in {"check", "fetch", "add", "grow"}
                => j'[u] = j[u] /\ pc'[u] \in {"fetch", "add", "grow", "store"}
           /\ u = t /\ pc[u] = "store" => j'[u] = j[u] /\ pc'[u] = "version" /\ Store(t)
           /\ u = t /\ pc[u] \in {"version", "bump"}
                => j'[u] = j[u] /\ pc'[u] \in {"bump", "initloop"}
           /\ u = t /\ pc[u] = "initloop" => InitLoop(t)
           /\ u = t /\ pc[u] = "recheck" => pc'[u] \in {"create", "unlock"}
           /\ u = t /\ pc[u] = "create" => pc'[u] = "initloop" /\ j'[u] = 1
<1>1. pc \in [Threads -> PCs] /\ j \in [Threads -> Nat]
  BY DEF IInv, TypeOK
<1>2. busLock = u
  BY ThreadAssumption DEF Call, Step, Check, Lock, Recheck, Create, InitLoop, Unlock, Fetch,
     Loop, Add, Grow, Store, ReadVersion, Bump, Enum, Move, Current, Rare, Handle, SetInstance, SetMessageHandlerFactory, shared
<1>3. ASSUME u = t
      PROVE  /\ pc[t] \notin {"idle", "lock", "loop", "enum", "move", "current", "rare", "handle",
                              "set", "setfactory"}
             /\ ~Call(t)
             /\ ~Unlock(t)
  BY <1>2, <1>3, ThreadAssumption DEF IInv, LockDiscipline, Call, Unlock
<1>4. ASSUME u = t, pc[u] = "check"
      PROVE  j'[u] = j[u] /\ pc'[u] \in {"fetch", "add", "grow", "store"}
  <2>1. Check(t)
    BY <1>3, <1>4 DEF Step, Check, Lock, Recheck, Create, InitLoop, Unlock, Fetch,
       Loop, Add, Grow, Store, ReadVersion, Bump, Enum, Move, Current, Rare, Handle, SetInstance, SetMessageHandlerFactory
  <2>2. instance # NoBus
    BY <1>2, <1>4 DEF IInv, CreatedOnce
  <2> QED
    BY <1>1, <1>4, <2>1, <2>2 DEF Check, Goto, addVars
<1>5. ASSUME u = t, pc[u] = "fetch"
      PROVE  j'[u] = j[u] /\ pc'[u] \in {"fetch", "add", "grow", "store"}
  <2>1. Fetch(t)
    BY <1>3, <1>5 DEF Step, Check, Lock, Recheck, Create, InitLoop, Unlock, Fetch,
       Loop, Add, Grow, Store, ReadVersion, Bump, Enum, Move, Current, Rare, Handle, SetInstance, SetMessageHandlerFactory
  <2> QED
    BY <1>1, <1>2, <1>5, <2>1 DEF Fetch, Goto, addVars
<1>6. ASSUME u = t, pc[u] = "add"
      PROVE  j'[u] = j[u] /\ pc'[u] \in {"fetch", "add", "grow", "store"}
  <2>1. Add(t)
    BY <1>3, <1>6 DEF Step, Check, Lock, Recheck, Create, InitLoop, Unlock, Fetch,
       Loop, Add, Grow, Store, ReadVersion, Bump, Enum, Move, Current, Rare, Handle, SetInstance, SetMessageHandlerFactory
  <2>2. Argument(t) \in Implementors
    BY <1>2, <1>6, OnlyAddFails
  <2> QED
    BY <1>1, <1>6, <2>1, <2>2 DEF Add, Goto
<1>7. ASSUME u = t, pc[u] = "grow"
      PROVE  j'[u] = j[u] /\ pc'[u] \in {"fetch", "add", "grow", "store"}
  <2>1. Grow(t)
    BY <1>3, <1>7 DEF Step, Check, Lock, Recheck, Create, InitLoop, Unlock, Fetch,
       Loop, Add, Grow, Store, ReadVersion, Bump, Enum, Move, Current, Rare, Handle, SetInstance, SetMessageHandlerFactory
  <2> QED
    BY <1>1, <1>7, <2>1 DEF Grow, Goto, addVars
<1>8. ASSUME u = t, pc[u] = "store" PROVE j'[u] = j[u] /\ pc'[u] = "version" /\ Store(t)
  <2>1. Store(t)
    BY <1>3, <1>8 DEF Step, Check, Lock, Recheck, Create, InitLoop, Unlock, Fetch,
       Loop, Add, Grow, Store, ReadVersion, Bump, Enum, Move, Current, Rare, Handle, SetInstance, SetMessageHandlerFactory
  <2> QED
    BY <1>1, <1>2, <1>8, <2>1 DEF Store, Goto
<1>12. ASSUME u = t, pc[u] = "version" PROVE j'[u] = j[u] /\ pc'[u] = "bump"
  <2>1. ReadVersion(t)
    BY <1>3, <1>12 DEF Step, Check, Lock, Recheck, Create, InitLoop, Unlock, Fetch,
       Loop, Add, Grow, Store, ReadVersion, Bump, Enum, Move, Current, Rare, Handle, SetInstance, SetMessageHandlerFactory
  <2> QED
    BY <1>1, <1>2, <1>12, <2>1 DEF ReadVersion, Goto
<1>13. ASSUME u = t, pc[u] = "bump" PROVE j'[u] = j[u] /\ pc'[u] = "initloop"
  <2>1. Bump(t)
    BY <1>3, <1>13 DEF Step, Check, Lock, Recheck, Create, InitLoop, Unlock, Fetch,
       Loop, Add, Grow, Store, ReadVersion, Bump, Enum, Move, Current, Rare, Handle, SetInstance, SetMessageHandlerFactory
  <2> QED
    BY <1>1, <1>2, <1>13, <2>1 DEF Bump, Goto
<1>9. u = t /\ pc[u] = "initloop" => InitLoop(t)
  BY <1>3 DEF Step, Check, Lock, Recheck, Create, InitLoop, Unlock, Fetch,
     Loop, Add, Grow, Store, ReadVersion, Bump, Enum, Move, Current, Rare, Handle, SetInstance, SetMessageHandlerFactory
<1>10. ASSUME u = t, pc[u] = "recheck" PROVE pc'[u] \in {"create", "unlock"}
  <2>1. Recheck(t)
    BY <1>3, <1>10 DEF Step, Check, Lock, Recheck, Create, InitLoop, Unlock, Fetch,
       Loop, Add, Grow, Store, ReadVersion, Bump, Enum, Move, Current, Rare, Handle, SetInstance, SetMessageHandlerFactory
  <2> QED
    BY <1>1, <1>10, <2>1 DEF Recheck, Goto
<1>11. ASSUME u = t, pc[u] = "create" PROVE pc'[u] = "initloop" /\ j'[u] = 1
  <2>1. Create(t)
    BY <1>3, <1>11 DEF Step, Check, Lock, Recheck, Create, InitLoop, Unlock, Fetch,
       Loop, Add, Grow, Store, ReadVersion, Bump, Enum, Move, Current, Rare, Handle, SetInstance, SetMessageHandlerFactory
  <2> QED
    BY <1>1, <1>11, <2>1 DEF Create, Goto
<1> QED
  BY <1>2, <1>4, <1>5, <1>6, <1>7, <1>8, <1>9, <1>10, <1>11, <1>12, <1>13

\* What is registered stays registered, while no two Adds have overlapped.
LEMMA RegisteredStays ==
    ASSUME IInv, IInv', OneByOne, NEW t \in Threads, Call(t) \/ Step(t), ~raced',
           NEW i \in DOMAIN LoadedTypes, Registered(i)
    PROVE  Registered(i)'
<1>1. IsValidType(LoadedTypes[i]) => LoadedTypes[i] \in Types
  BY TypeAssumption DEF IsValidType
<1> QED
  BY <1>1, OneByOneKeeps DEF Registered

LEMMA PassedKeeps ==
    ASSUME IInv, IInv', OneByOne, NEW t \in Threads, Call(t) \/ Step(t), ~raced',
           NEW u \in Threads, Passed(u)
    PROVE  Passed(u)'
<1> SUFFICES ASSUME busLock' = u PROVE Passed(u)'
  BY DEF Passed
<1>1. /\ pc \in [Threads -> PCs] /\ j \in [Threads -> Nat]
      /\ pc' \in [Threads -> PCs] /\ j' \in [Threads -> Nat]
  BY DEF IInv, TypeOK
<1>2. \A i \in DOMAIN LoadedTypes : i \in Nat /\ i >= 1
  BY LoadedDomain
<1>3. \A i \in DOMAIN LoadedTypes : Registered(i) => Registered(i)'
  BY RegisteredStays
<1>4. CASE u = t /\ busLock # t
  <2>1. Lock(t)
    BY <1>4, ThreadAssumption DEF Call, Step, Check, Lock, Recheck, Create, InitLoop, Unlock,
       Fetch, Loop, Add, Grow, Store, ReadVersion, Bump, Enum, Move, Current, Rare, Handle, SetInstance,
       SetMessageHandlerFactory, shared
  <2>2. pc'[u] = "recheck"
    BY <1>1, <1>4, <2>1 DEF Lock, Goto
  <2> QED
    BY <2>2 DEF Passed
<1>5. CASE u # t
  <2>1. busLock = u /\ pc'[u] = pc[u] /\ j'[u] = j[u]
    BY <1>5, HolderMoves, OthersStay
  <2> QED
    BY <1>3, <2>1 DEF Passed
<1>6. CASE u = t /\ busLock = t
  <2>1. CASE pc[u] \in {"check", "fetch", "add", "grow"}
    <3>1. j'[u] = j[u] /\ pc'[u] \in {"fetch", "add", "grow", "store"}
      BY <1>6, <2>1, HolderMoves
    <3> QED
      BY <1>3, <1>6, <2>1, <3>1 DEF Passed
  <2>2. CASE pc[u] = "store"
    <3>1. j'[u] = j[u] /\ pc'[u] = "version" /\ Store(t)
      BY <1>6, <2>2, HolderMoves
    <3>2. Holds(Argument(t))'
      BY <3>1, OneByOneKeeps
    <3>3. Argument(t)' = LoadedTypes[j[u] - 1]
      BY <1>6, <3>1 DEF Argument
    <3>4. ASSUME NEW i \in DOMAIN LoadedTypes, i < j[u] PROVE Registered(i)'
      <4>1. CASE i = j[u] - 1
        BY <3>2, <3>3, <4>1 DEF Registered, Holds
      <4>2. CASE i # j[u] - 1
        BY <1>1, <1>2, <1>3, <1>6, <2>2, <3>4, <4>2 DEF Passed
      <4> QED
        BY <4>1, <4>2
    <3> QED
      BY <3>1, <3>4 DEF Passed
  <2>3. CASE pc[u] = "initloop"
    <3>1. InitLoop(t)
      BY <1>6, <2>3, HolderMoves
    <3>2. CASE j[u] > Len(LoadedTypes)
      BY <1>1, <1>6, <3>1, <3>2 DEF InitLoop, Goto, Passed
    <3>3. CASE ~(j[u] > Len(LoadedTypes))
      <4>1. j'[u] = j[u] + 1
            /\ pc'[u] = IF IsValidType(LoadedTypes[j[u]]) THEN "check" ELSE "initloop"
        BY <1>1, <1>6, <3>1, <3>3 DEF InitLoop, Goto
      <4>2. ASSUME NEW i \in DOMAIN LoadedTypes, i < j[u] PROVE Registered(i)'
        BY <1>3, <1>6, <2>3, <4>2 DEF Passed
      <4>3. CASE IsValidType(LoadedTypes[j[u]])
        <5>1. pc'[u] = "check" /\ j'[u] - 1 = j[u]
          BY <1>1, <4>1, <4>3
        <5> QED
          BY <4>2, <5>1 DEF Passed
      <4>4. CASE ~IsValidType(LoadedTypes[j[u]])
        <5>1. pc'[u] = "initloop" /\ \A i \in DOMAIN LoadedTypes : i < j'[u] => i < j[u] \/ i = j[u]
          BY <1>1, <1>2, <4>1, <4>4
        <5>2. ASSUME NEW i \in DOMAIN LoadedTypes, i = j[u] PROVE Registered(i)'
          BY <4>4, <5>2 DEF Registered
        <5> QED
          BY <4>2, <5>1, <5>2 DEF Passed
      <4> QED
        BY <4>3, <4>4
    <3> QED
      BY <3>2, <3>3
  <2>4. CASE pc[u] = "create"
    <3>1. pc'[u] = "initloop" /\ j'[u] = 1
      BY <1>6, <2>4, HolderMoves
    <3> QED
      BY <1>2, <3>1 DEF Passed
  <2>5. CASE pc[u] = "recheck"
    <3>1. pc'[u] \in {"create", "unlock"}
      BY <1>6, <2>5, HolderMoves
    <3> QED
      BY <3>1 DEF Passed
  <2>6. CASE pc[u] = "unlock"
    <3>1. Unlock(t)
      BY <1>6, <2>6 DEF Step, Call, Check, Lock, Recheck, Create, InitLoop, Unlock, Fetch,
         Loop, Add, Grow, Store, ReadVersion, Bump, Enum, Move, Current, Rare, Handle, SetInstance, SetMessageHandlerFactory
    <3> QED
      BY <3>1, ThreadAssumption DEF Unlock
  <2>7. CASE pc[u] \in {"version", "bump"}
    <3>1. j'[u] = j[u] /\ pc'[u] \in {"bump", "initloop"}
      BY <1>6, <2>7, HolderMoves
    <3> QED
      BY <1>3, <1>6, <2>7, <3>1 DEF Passed
  <2>8. pc[u] \in {"check", "fetch", "add", "grow", "store", "version", "bump", "initloop",
                   "create", "recheck", "unlock"}
    BY <1>1, <1>6 DEF IInv, LockDiscipline, PCs
  <2> QED
    BY <2>1, <2>2, <2>3, <2>4, <2>5, <2>6, <2>7, <2>8
<1> QED
  BY <1>4, <1>5, <1>6

\* The initialiser leaves its loop only when it has passed every type.
LEMMA HandlersRegisteredKeeps ==
    ASSUME IInv, IInv', OneByOne, NEW t \in Threads, Call(t) \/ Step(t), ~raced',
           \A u \in Threads : Passed(u), HandlersRegistered, ~raced
    PROVE  HandlersRegistered'
<1>1. /\ pc \in [Threads -> PCs] /\ j \in [Threads -> Nat] /\ busLock \in Threads \cup {NoThread}
  BY DEF IInv, TypeOK
<1> SUFFICES ASSUME Initialised', NEW i \in DOMAIN LoadedTypes PROVE Registered(i)'
  BY DEF HandlersRegistered, Registered, Holds
<1>2. SUFFICES Registered(i)
  BY <1>2, RegisteredStays
<1>3. CASE Initialised
  BY <1>3 DEF HandlersRegistered, Registered, Holds
<1>4. CASE \A b \in DOMAIN buses : ~buses[b].default
  <2>1. PICK b \in DOMAIN buses' : buses'[b].default
    BY DEF Initialised
  <2>2. Create(t)
    <3>1. CASE SetInstance(t)
      BY <1>4, <2>1, <3>1, AppendedBus, NewBusType DEF SetInstance
    <3>2. CASE SetMessageHandlerFactory(t)
      <4>1. /\ bus[t] \in DOMAIN buses /\ buses[bus[t]] \in BusRecords
            /\ buses' = [buses EXCEPT ![bus[t]].factory = "container"]
            /\ buses \in Seq(BusRecords)
        BY <3>2, BusOf DEF SetMessageHandlerFactory, IInv, TypeOK
      <4> QED
        BY <1>4, <2>1, <4>1 DEF BusRecords
    <3>3. CASE Grow(t)
      <4>1. pc[t] = "grow"
        BY <3>3 DEF Grow
      <4>2. /\ bus[t] \in DOMAIN buses /\ buses[bus[t]] \in BusRecords
            /\ buses \in Seq(BusRecords)
        BY <4>1, BusOf DEF IInv, TypeOK
      <4> DEFINE longer == IF Len(buses[bus[t]].array) > slot[t] THEN buses[bus[t]].array
                           ELSE Append(buses[bus[t]].array, NoType)
      <4>3. buses' = [buses EXCEPT ![bus[t]] = [buses[bus[t]] EXCEPT !.size = slot[t] + 1,
                                                                     !.array = longer]]
        BY <3>3 DEF Grow
      <4> HIDE DEF longer
      <4> QED
        BY <1>4, <2>1, <4>2, <4>3 DEF BusRecords
    <3>4. CASE Store(t)
      <4>1. pc[t] = "store"
        BY <3>4 DEF Store
      <4>2. /\ bus[t] \in DOMAIN buses /\ buses[bus[t]] \in BusRecords
            /\ buses \in Seq(BusRecords)
        BY <4>1, BusOf DEF IInv, TypeOK
      <4>3. PICK array :
               buses' = [buses EXCEPT ![bus[t]] = [buses[bus[t]] EXCEPT !.array = array]]
        BY <3>4 DEF Store
      <4> QED
        BY <1>4, <2>1, <4>2, <4>3 DEF BusRecords
    <3>5. CASE Bump(t)
      <4>1. pc[t] = "bump"
        BY <3>5 DEF Bump
      <4>2. /\ bus[t] \in DOMAIN buses /\ buses[bus[t]] \in BusRecords
            /\ buses \in Seq(BusRecords)
        BY <4>1, BusOf DEF IInv, TypeOK
      <4>3. PICK version :
               buses' = [buses EXCEPT ![bus[t]] = [buses[bus[t]] EXCEPT !.version = version]]
        BY <3>5 DEF Bump
      <4> QED
        BY <1>4, <2>1, <4>2, <4>3 DEF BusRecords
    <3> QED
      BY <1>4, <2>1, <3>1, <3>2, <3>3, <3>4, <3>5 DEF Call, Step, Check, Lock, Recheck, InitLoop,
         Unlock, Fetch, Loop, Add, ReadVersion, Enum, Move, Current, Rare, Handle, shared
  <2>3. busLock' = t /\ pc'[t] = "initloop"
    BY <1>1, <2>2 DEF Create, Goto, IInv, LockDiscipline
  <2> QED
    BY <2>3 DEF Initialised
<1>5. CASE \E u \in Threads : busLock = u /\ pc[u] \notin {"recheck", "unlock"}
  <2>1. PICK u \in Threads : busLock = u /\ pc[u] \notin {"recheck", "unlock"}
    BY <1>5
  <2>2. busLock' = u
    BY <2>1, ThreadAssumption DEF IInv, LockDiscipline, Call, Step, Check, Lock, Recheck,
       Create, InitLoop, Unlock, Fetch, Loop, Add, Grow, Store, ReadVersion, Bump, Enum, Move, Current, Rare, Handle,
       SetInstance, SetMessageHandlerFactory, shared
  <2>3. pc'[u] \in {"recheck", "unlock"}
    BY <2>2 DEF Initialised
  <2>4. u = t
    BY <2>1, <2>3, OthersStay
  <2>5. pc[u] \in {"check", "fetch", "add", "grow", "store", "version", "bump", "initloop",
                   "create"}
    BY <1>1, <2>1 DEF IInv, LockDiscipline, PCs
  <2>6. pc[u] = "initloop" /\ InitLoop(t)
    BY <2>1, <2>2, <2>3, <2>4, <2>5, HolderMoves
  <2>7. j[u] > Len(LoadedTypes)
    BY <1>1, <2>3, <2>4, <2>6 DEF InitLoop, Goto
  <2>8. i < j[u]
    BY <1>1, <2>7, LoadedDomain
  <2> QED
    BY <2>1, <2>6, <2>8 DEF Passed
<1> QED
  BY <1>3, <1>4, <1>5 DEF Initialised

LEMMA RacedStays == ASSUME NEW t \in Threads, Call(t) \/ Step(t), raced PROVE raced'
BY DEF Call, Step, Check, Lock, Recheck, Create, InitLoop, Unlock, Fetch, Loop, Add, Grow, Store, ReadVersion, Bump,
   Enum, Move, Current, Rare, Handle, SetInstance, SetMessageHandlerFactory, addVars

LEMMA NoneLostKeeps == IInv /\ IInv' /\ NoneLost /\ [Next]_vars => NoneLost'
<1> SUFFICES ASSUME IInv, IInv', NoneLost, [Next]_vars, ~raced' PROVE NoneLost'
  BY DEF NoneLost
<1>1. ASSUME NEW t \in Threads, Call(t) \/ Step(t) PROVE NoneLost'
  <2>1. ~raced /\ OneByOne /\ (\A u \in Threads : Passed(u)) /\ HandlersRegistered
    BY <1>1, RacedStays DEF NoneLost
  <2>2. OneByOne'
    BY <1>1, <2>1, OneByOneKeeps
  <2>3. \A u \in Threads : Passed(u)'
    BY <1>1, <2>1, PassedKeeps
  <2>4. HandlersRegistered'
    BY <1>1, <2>1, HandlersRegisteredKeeps
  <2> QED
    BY <2>2, <2>3, <2>4 DEF NoneLost
<1>2. CASE UNCHANGED vars
  <2>1. UNCHANGED <<raced, buses, pc, bus, slot, overlap, busLock, j>>
    BY <1>2 DEF vars, shared, addVars
  <2> QED
    BY <2>1 DEF NoneLost, OneByOne, Appending, Reserved, Passed, Registered, Holds,
       HandlersRegistered, Initialised
<1> QED
  BY <1>1, <1>2 DEF Next, Finished

\* Whichever threads initialise, add and replace the bus at once, when the
\* initialiser is done every type that IsValidType accepts is registered,
\* unless two Adds have overlapped (Bus.cs:24-57).
THEOREM InitialiserRegistersAll == Spec => []HandlersRegistered
<1>1. Init => NoneLost
  BY ThreadAssumption DEF Init, NoneLost, OneByOne, Appending, Passed, HandlersRegistered,
     Initialised
<1>2. IInv /\ IInv' /\ NoneLost /\ [Next]_vars => NoneLost'
  BY NoneLostKeeps
<1>3. NoneLost => (HandlersRegistered \/ raced)
  BY DEF NoneLost
<1>4. raced => HandlersRegistered
  BY DEF HandlersRegistered
<1> QED
  BY <1>1, <1>2, <1>3, <1>4, Invariant, PTL DEF Spec

-----------------------------------------------------------------------------
(* The bus implements the promise of EventBus *)

\* An empty cell at the end of a list does not count, anything else does.
LEMMA FilledLists ==
    ASSUME NEW list \in Seq(Cells)
    PROVE  /\ Filled(Append(list, NoType)) = list
           /\ (\A p \in DOMAIN list : list[p] # NoType) => Filled(list) = list
           /\ Filled(list) \in Seq(Cells)
<1>1. NoType \in Cells
  BY DEF Cells
<1>2. Filled(Append(list, NoType)) = list
  <2> DEFINE longer == Append(list, NoType)
  <2>1. /\ longer \in Seq(Cells) /\ longer # <<>> /\ Len(longer) = Len(list) + 1
        /\ longer[Len(longer)] = NoType
        /\ \A p \in 1..Len(list) : longer[p] = list[p]
    BY <1>1, AppendProperties
  <2>2. Len(list) \in Nat /\ Len(longer) - 1 = Len(list)
    BY <2>1
  <2> HIDE DEF longer
  <2>3. SubSeq(longer, 1, Len(list)) = list
    <3>1. \A p \in 1..Len(list) : longer[p] \in Cells
      BY <2>1, ElementOfSeq
    <3>2. /\ SubSeq(longer, 1, Len(list)) \in Seq(Cells)
          /\ Len(SubSeq(longer, 1, Len(list))) = Len(list)
          /\ \A p \in 1..Len(list) : SubSeq(longer, 1, Len(list))[p] = list[p]
      BY <2>1, <2>2, <3>1, SubSeqProperties
    <3> QED
      BY <3>2, SeqEqual
  <2>4. Filled(longer) = list
    BY <2>1, <2>2, <2>3 DEF Filled
  <2> QED
    BY <2>4 DEF longer
<1>3. (\A p \in DOMAIN list : list[p] # NoType) => Filled(list) = list
  <2>1. list # <<>> => Len(list) \in DOMAIN list
    BY EmptySeq, LenProperties
  <2> QED
    BY <2>1 DEF Filled
<1>4. Filled(list) \in Seq(Cells)
  <2>1. \A p \in 1..Len(list) - 1 : list[p] \in Cells
    BY ElementOfSeq, LenProperties
  <2>2. SubSeq(list, 1, Len(list) - 1) \in Seq(Cells)
    BY <2>1, LenProperties, SubSeqProperties
  <2> QED
    BY <2>2 DEF Filled
<1> QED
  BY <1>2, <1>3, <1>4

\* A list that no Add has overlapped on is read as it is stored.
LEMMA ItemsOf ==
    ASSUME IInv, OneByOne, NEW b \in DOMAIN buses
    PROVE  Items(b) = buses[b].array /\ Items(b) \in Seq(Cells)
BY ListOf, SubSeqFull DEF Items, OneByOne

\* What a step of t leaves to the other threads, their call and their Send.
LEMMA OthersSendOn ==
    ASSUME IInv, NEW t \in Threads, Call(t) \/ Step(t), NEW u \in Threads, u # t
    PROVE  /\ pc'[u] = pc[u] /\ bus'[u] = bus[u]
           /\ op'[u] = op[u] /\ msg'[u] = msg[u] /\ result'[u] = result[u]
           /\ expected'[u] = expected[u] /\ pos'[u] = pos[u] /\ handler'[u] = handler[u]
           /\ seen'[u] = seen[u] /\ sent'[u] = sent[u]
<1>1. pc'[u] = pc[u] /\ bus'[u] = bus[u]
  BY OthersStay
<1>2. op'[u] = op[u] /\ msg'[u] = msg[u] /\ seen'[u] = seen[u]
  <2>1. op'[u] = op[u]
    BY DEF IInv, TypeOK, Call, Step, Check, Lock, Recheck, Create, InitLoop, Unlock, Fetch, Loop,
       Add, Grow, Store, ReadVersion, Bump, Enum, Move, Current, Rare, Handle, SetInstance, SetMessageHandlerFactory, callVars,
       sendVars
  <2>2. msg'[u] = msg[u]
    <3>1. CASE Call(t)
      BY <3>1 DEF IInv, TypeOK, Call
    <3>2. CASE Step(t)
      BY <3>2 DEF Step, Check, Lock, Recheck, Create, InitLoop, Unlock, Fetch, Loop, Add, Grow,
         Store, ReadVersion, Bump, Enum, Move, Current, Rare, Handle, SetInstance,
         SetMessageHandlerFactory, callVars
    <3> QED
      BY <3>1, <3>2
  <2>3. seen'[u] = seen[u]
    BY DEF IInv, TypeOK, Call, Step, Check, Lock, Recheck, Create, InitLoop, Unlock, Fetch, Loop,
       Add, Grow, Store, ReadVersion, Bump, Enum, Move, Current, Rare, Handle, SetInstance, SetMessageHandlerFactory, callVars,
       sendVars
  <2> QED
    BY <2>1, <2>2, <2>3
<1>3. result'[u] = result[u]
  BY DEF IInv, TypeOK, Call, Step, Check, Lock, Recheck, Create, InitLoop, Unlock, Fetch, Loop, Add,
     Grow, Store, ReadVersion, Bump, Enum, Move, Current, Rare, Handle, SetInstance, SetMessageHandlerFactory, Return
<1>4. expected'[u] = expected[u] /\ pos'[u] = pos[u] /\ handler'[u] = handler[u]
  <2>1. expected'[u] = expected[u]
    BY DEF IInv, TypeOK, Call, Step, Check, Lock, Recheck, Create, InitLoop, Unlock, Fetch, Loop,
       Add, Grow, Store, ReadVersion, Bump, Enum, Move, Current, Rare, Handle, SetInstance, SetMessageHandlerFactory, sendVars
  <2>2. pos'[u] = pos[u]
    BY DEF IInv, TypeOK, Call, Step, Check, Lock, Recheck, Create, InitLoop, Unlock, Fetch, Loop,
       Add, Grow, Store, ReadVersion, Bump, Enum, Move, Current, Rare, Handle, SetInstance, SetMessageHandlerFactory, sendVars
  <2>3. handler'[u] = handler[u]
    BY DEF IInv, TypeOK, Call, Step, Check, Lock, Recheck, Create, InitLoop, Unlock, Fetch, Loop,
       Add, Grow, Store, ReadVersion, Bump, Enum, Move, Current, Rare, Handle, SetInstance, SetMessageHandlerFactory, sendVars
  <2> QED
    BY <2>1, <2>2, <2>3
<1>5. sent'[u] = sent[u]
  BY DEF IInv, TypeOK, Call, Step, Check, Lock, Recheck, Create, InitLoop, Unlock, Fetch, Loop, Add,
     Grow, Store, ReadVersion, Bump, Enum, Move, Current, Rare, Handle, SetInstance, SetMessageHandlerFactory, sendVars
<1> QED
  BY <1>1, <1>2, <1>3, <1>4, <1>5

\* Where the lists change: at the end in Grow and Store, their version in Bump,
\* and a new one.
LEMMA ListSteps ==
    ASSUME IInv, NEW t \in Threads, Call(t) \/ Step(t)
    PROVE  /\ ~(\/ Create(t) \/ SetInstance(t) \/ SetMessageHandlerFactory(t)
               \/ Grow(t) \/ Store(t) \/ Bump(t))
                => buses' = buses
           /\ SetMessageHandlerFactory(t) =>
                /\ DOMAIN buses' = DOMAIN buses
                /\ \A b \in DOMAIN buses : /\ buses'[b].array = buses[b].array
                                           /\ buses'[b].size = buses[b].size
                                           /\ buses'[b].version = buses[b].version
<1>1. ~(\/ Create(t) \/ SetInstance(t) \/ SetMessageHandlerFactory(t)
        \/ Grow(t) \/ Store(t) \/ Bump(t))
        => buses' = buses
  BY DEF Call, Step, Check, Lock, Recheck, InitLoop, Unlock, Fetch, Loop, Add, ReadVersion, Enum,
     Move, Current, Rare, Handle, shared
<1>2. ASSUME SetMessageHandlerFactory(t)
      PROVE  /\ DOMAIN buses' = DOMAIN buses
             /\ \A b \in DOMAIN buses : /\ buses'[b].array = buses[b].array
                                        /\ buses'[b].size = buses[b].size
                                        /\ buses'[b].version = buses[b].version
  <2>1. /\ pc[t] = "setfactory" /\ buses \in Seq(BusRecords)
        /\ buses' = [buses EXCEPT ![bus[t]].factory = "container"]
    BY <1>2 DEF SetMessageHandlerFactory, IInv, TypeOK
  <2>2. buses[bus[t]] \in BusRecords
    BY <2>1, BusOf
  <2> QED
    BY <2>1, <2>2 DEF BusRecords
<1> QED
  BY <1>1, <1>2

LEMMA PurposeKeeps ==
    ASSUME IInv, NEW t \in Threads, Call(t) \/ Step(t), NEW u \in Threads, Purpose(u)
    PROVE  Purpose(u)'
<1>1. /\ pc \in [Threads -> PCs] /\ op \in [Threads -> AllOps] /\ sent \in [Threads -> Seq(Nat \X Cells)]
      /\ result \in [Threads -> Results]
  BY DEF IInv, TypeOK
<1>2. CASE u # t
  <2>1. busLock # u => busLock' # u
    BY <1>2, ThreadAssumption DEF Call, Step, Check, Lock, Recheck, Create, InitLoop, Unlock, Fetch, Loop, Add,
       Grow, Store, ReadVersion, Bump, Enum, Move, Current, Rare, Handle, SetInstance, SetMessageHandlerFactory, shared
  <2>2. busLock = u => busLock' = u
    BY <1>2, ThreadAssumption DEF IInv, LockDiscipline, Call, Step, Check, Lock, Recheck, Create,
       InitLoop, Unlock, Fetch, Loop, Add, Grow, Store, ReadVersion, Bump, Enum, Move, Current, Rare, Handle, SetInstance,
       SetMessageHandlerFactory, shared
  <2>3. pc'[u] = pc[u] /\ op'[u] = op[u] /\ result'[u] = result[u] /\ sent'[u] = sent[u]
    BY <1>2, OthersSendOn
  <2> QED
    BY <2>1, <2>2, <2>3 DEF Purpose, Sending
<1>3. CASE u = t
  <2> USE <1>1, <1>3 DEF Goto, Return, callVars, sendVars, shared
  <2>1. CASE Call(t)
    <3>1. sent'[t] = <<>> /\ pc'[t] = Entry(op'[t])
      BY <2>1 DEF Call
    <3>2. PICK o \in Ops : op'[t] = o
      BY <2>1 DEF Call
    <3> QED
      BY <3>1, <3>2 DEF Purpose, Entry
  <2>2. CASE Check(t) \/ Lock(t) \/ Recheck(t) \/ Create(t) \/ InitLoop(t) \/ Unlock(t)
    <3>1. /\ pc'[t] \notin {"idle", "enum", "move", "current", "rare", "handle", "add", "grow",
                            "store", "version", "bump", "loop", "set", "setfactory"}
          /\ pc[t] \notin {"idle", "move", "current", "rare", "handle"} /\ sent' = sent
      BY <2>2 DEF Check, Lock, Recheck, Create, InitLoop, Unlock
    <3> QED
      BY <3>1 DEF Purpose, Sending
  <2>3. CASE Fetch(t)
    <3>1. /\ pc[t] = "fetch" /\ op' = op /\ sent' = sent /\ busLock' = busLock
          /\ pc'[t] \in {"add", "enum", "setfactory", "idle"}
          /\ pc'[t] = "add" => busLock = t \/ op[t] \in {"add", "addall"}
          /\ pc'[t] = "enum" => op[t] = "send"
          /\ pc'[t] = "setfactory" => op[t] = "setfactory"
      BY <2>3 DEF Fetch
    <3> QED
      BY <3>1 DEF Purpose, Sending
  <2>4. CASE Loop(t)
    <3>1. /\ pc[t] = "loop" /\ op' = op /\ sent' = sent /\ busLock' = busLock
          /\ pc'[t] \in {"idle", "check", "loop"}
      BY <2>4 DEF Loop
    <3> QED
      BY <3>1 DEF Purpose, Sending
  <2>5. CASE Add(t) \/ Grow(t) \/ Store(t) \/ ReadVersion(t)
    <3>1. /\ pc[t] \in {"add", "grow", "store", "version"}
          /\ op' = op /\ sent' = sent /\ busLock' = busLock
          /\ pc'[t] \in {"idle", "grow", "store", "version", "bump"}
      BY <2>5 DEF Add, Grow, Store, ReadVersion
    <3> QED
      BY <3>1 DEF Purpose, Sending
  <2>6. CASE Bump(t)
    <3>1. /\ pc[t] = "bump" /\ op' = op /\ sent' = sent /\ busLock' = busLock
          /\ pc'[t] \in {"initloop", "loop", "idle"}
          /\ pc'[t] = "loop" => op[t] = "addall"
      BY <2>6 DEF Bump
    <3> QED
      BY <3>1 DEF Purpose, Sending
  <2>7. CASE Enum(t)
    BY <2>7 DEF Enum, Purpose, Sending
  <2>8. CASE Move(t) \/ Current(t) \/ Rare(t)
    <3>1. /\ pc[t] \in {"move", "current", "rare"} /\ op' = op /\ sent' = sent
          /\ \/ pc'[t] \in {"move", "current", "rare", "handle"}
             \/ pc'[t] = "idle" /\ result'[t] \in {"ok", "failed"}
      BY <2>8 DEF Move, Current, Rare
    <3> QED
      BY <3>1 DEF Purpose, Sending
  <2>9. CASE Handle(t)
    <3>1. /\ pc[t] = "handle" /\ op' = op
          /\ \/ pc'[t] = "move"
             \/ pc'[t] = "idle" /\ result'[t] = "failed"
      BY <2>9 DEF Handle
    <3> QED
      BY <3>1 DEF Purpose, Sending
  <2>10. CASE SetInstance(t) \/ SetMessageHandlerFactory(t)
    <3>1. /\ pc[t] \in {"set", "setfactory"} /\ op' = op /\ sent' = sent /\ pc'[t] = "idle"
      BY <2>10 DEF SetInstance, SetMessageHandlerFactory
    <3> QED
      BY <3>1 DEF Purpose, Sending
  <2> QED
    BY <2>1, <2>2, <2>3, <2>4, <2>5, <2>6, <2>7, <2>8, <2>9, <2>10 DEF Step
<1> QED
  BY <1>2, <1>3

LEMMA SolidKeeps ==
    ASSUME IInv, IInv', OneByOne, NEW t \in Threads, Call(t) \/ Step(t), Solid
    PROVE  Solid'
<1>1. \A v \in Threads : v # t => pc'[v] = pc[v] /\ bus'[v] = bus[v]
  BY OthersStay
<1>2. ~Store(t) => pc[t] # "store"
  BY DEF Call, Step, Check, Lock, Recheck, Create, InitLoop, Unlock, Fetch, Loop, Add, Grow, Store, ReadVersion, Bump,
     Enum, Move, Current, Rare, Handle, SetInstance, SetMessageHandlerFactory
<1>3. ASSUME ~Store(t), NEW b \in DOMAIN buses, NEW v \in Threads, pc[v] = "store", bus[v] = b
      PROVE  pc'[v] = "store" /\ bus'[v] = b
  BY <1>1, <1>2, <1>3
<1>4. ASSUME ~Store(t), NEW b \in DOMAIN buses, b \in DOMAIN buses',
             buses'[b].array = buses[b].array, buses'[b].size = buses[b].size,
             NEW p \in 1..buses'[b].size, buses'[b].array[p] = NoType
      PROVE  p = buses'[b].size /\ \E v \in Threads : pc'[v] = "store" /\ bus'[v] = b
  BY <1>3, <1>4 DEF Solid
<1>5. CASE ~(Create(t) \/ SetInstance(t) \/ Grow(t) \/ Store(t))
  <2>1. /\ DOMAIN buses' = DOMAIN buses
        /\ \A b \in DOMAIN buses : /\ buses'[b].array = buses[b].array
                                   /\ buses'[b].size = buses[b].size
    BY <1>5, ListSteps, BumpsVersion
  <2> QED
    BY <1>4, <1>5, <2>1 DEF Solid
<1>6. CASE Create(t) \/ SetInstance(t)
  <2>1. ~Store(t)
    BY <1>6 DEF Create, SetInstance, Store
  <2>2. PICK default \in BOOLEAN : buses' = Append(buses, NewBus(default))
    BY <1>6 DEF Create, SetInstance
  <2>3. /\ \A b \in DOMAIN buses : b \in DOMAIN buses' /\ buses'[b] = buses[b]
        /\ \A b \in DOMAIN buses' : b \in DOMAIN buses \/ buses'[b] = NewBus(default)
    BY <2>2, AppendedBus
  <2>4. 1..NewBus(default).size = {}
    BY DEF NewBus
  <2> QED
    BY <1>4, <2>1, <2>3, <2>4 DEF Solid
<1>7. CASE Grow(t)
  <2> DEFINE old == buses[bus[t]]
  <2>1. /\ pc[t] = "grow" /\ pc'[t] = "store" /\ bus' = bus /\ ~Store(t)
        /\ bus[t] \in DOMAIN buses /\ DOMAIN buses' = DOMAIN buses
        /\ \A b \in DOMAIN buses : b # bus[t] => buses'[b] = buses[b]
        /\ old.array \in Seq(Cells) /\ old.size = slot[t] /\ Len(old.array) = slot[t]
        /\ buses'[bus[t]].array = Append(old.array, NoType)
        /\ buses'[bus[t]].size = slot[t] + 1
    BY <1>7, GrowsList DEF Store
  <2>2. \A p \in 1..slot[t] : Append(old.array, NoType)[p] = old.array[p]
    BY <2>1
  <2>3. slot[t] \in Nat
    BY DEF IInv, TypeOK
  <2>4. ASSUME NEW p \in 1..slot[t], old.array[p] = NoType PROVE FALSE
    <3>1. PICK v \in Threads : pc[v] = "store" /\ bus[v] = bus[t]
      BY <2>1, <2>4 DEF Solid
    <3> QED
      BY <2>1, <3>1 DEF OneByOne, Appending
  <2>5. ASSUME NEW p \in 1..slot[t] + 1, buses'[bus[t]].array[p] = NoType PROVE p = slot[t] + 1
    BY <2>1, <2>2, <2>3, <2>4, <2>5
  <2>6. ASSUME NEW b \in DOMAIN buses', NEW p \in 1..buses'[b].size, buses'[b].array[p] = NoType
        PROVE  p = buses'[b].size /\ \E v \in Threads : pc'[v] = "store" /\ bus'[v] = b
    <3>1. CASE b = bus[t]
      BY <2>1, <2>5, <2>6, <3>1
    <3>2. CASE b # bus[t]
      BY <1>4, <2>1, <2>6, <3>2
    <3> QED
      BY <3>1, <3>2
  <2> QED
    BY <2>6 DEF Solid
<1>8. CASE Store(t)
  <2> DEFINE old == buses[bus[t]]
  <2>1. /\ bus' = bus /\ bus[t] \in DOMAIN buses /\ DOMAIN buses' = DOMAIN buses
        /\ \A b \in DOMAIN buses : b # bus[t] => buses'[b] = buses[b]
        /\ old.array \in Seq(Cells) /\ old.size = slot[t] + 1 /\ Len(old.array) = slot[t] + 1
        /\ buses'[bus[t]].array = [old.array EXCEPT ![slot[t] + 1] = Argument(t)]
        /\ buses'[bus[t]].size = slot[t] + 1
    BY <1>8, StoresItem
  <2>2. Argument(t) # NoType
    BY <1>8, ArgumentIsCell, TypeAssumption DEF Store
  <2>3. \A p \in 1..slot[t] + 1 : buses'[bus[t]].array[p] # NoType
    <3>1. slot[t] \in Nat /\ DOMAIN old.array = 1..slot[t] + 1
      BY <2>1 DEF IInv, TypeOK
    <3>2. \A p \in 1..slot[t] + 1 : p # slot[t] + 1 => old.array[p] # NoType
      BY <2>1 DEF Solid
    <3> QED
      BY <2>1, <2>2, <3>1, <3>2
  <2>4. ASSUME NEW b \in DOMAIN buses', NEW p \in 1..buses'[b].size, buses'[b].array[p] = NoType
        PROVE  p = buses'[b].size /\ \E v \in Threads : pc'[v] = "store" /\ bus'[v] = b
    <3>1. b # bus[t]
      BY <2>1, <2>3, <2>4
    <3>2. p = buses[b].size /\ \E v \in Threads : pc[v] = "store" /\ bus[v] = b
      BY <2>1, <2>4, <3>1 DEF Solid
    <3> QED
      BY <1>1, <2>1, <3>1, <3>2
  <2> QED
    BY <2>4 DEF Solid
<1> QED
  BY <1>5, <1>6, <1>7, <1>8

\* Types of what a Send keeps.
LEMMA SendTypes ==
    ASSUME IInv, NEW t \in Threads
    PROVE  /\ expected[t] \in Nat /\ pos[t] \in Nat /\ pos[t] # 0 /\ handler[t] \in Cells
           /\ seen[t] \in Seq(Cells) /\ sent[t] \in Seq(Nat \X Cells)
           /\ Len(seen[t]) \in Nat /\ DOMAIN seen[t] = 1..Len(seen[t])
BY DEF IInv, TypeOK, InBounds, Located

\* When nobody overlaps, a list only grows and its version only rises: a step
\* fills an empty cell but changes no other.
LEMMA ListGrows ==
    ASSUME IInv, IInv', OneByOne, NEW t \in Threads, Call(t) \/ Step(t), NEW b \in DOMAIN buses
    PROVE  /\ b \in DOMAIN buses'
           /\ buses[b].size <= buses'[b].size /\ buses[b].version <= buses'[b].version
           /\ \A p \in 1..buses[b].size :
                 buses[b].array[p] = NoType \/ buses'[b].array[p] = buses[b].array[p]
<1>1. buses[b].size \in Nat /\ buses[b].version \in Nat /\ slot[t] \in Nat
  BY ListOf DEF IInv, TypeOK
<1>2. CASE ~(\/ Create(t) \/ SetInstance(t) \/ Grow(t) \/ Store(t) \/ Bump(t))
  <2>1. /\ b \in DOMAIN buses' /\ buses'[b].array = buses[b].array
        /\ buses'[b].size = buses[b].size /\ buses'[b].version = buses[b].version
    BY <1>2, ListSteps
  <2> QED
    BY <1>1, <2>1
<1>3. CASE Create(t) \/ SetInstance(t)
  <2>1. PICK default \in BOOLEAN : buses' = Append(buses, NewBus(default))
    BY <1>3 DEF Create, SetInstance
  <2>2. b \in DOMAIN buses' /\ buses'[b] = buses[b]
    BY <2>1, AppendedBus
  <2> QED
    BY <1>1, <2>2
<1>4. CASE bus[t] # b /\ (Grow(t) \/ Store(t) \/ Bump(t))
  <2>1. b \in DOMAIN buses' /\ buses'[b] = buses[b]
    BY <1>4, GrowsList, StoresItem, BumpsVersion
  <2> QED
    BY <1>1, <2>1
<1>5. CASE bus[t] = b /\ Grow(t)
  <2>1. /\ b \in DOMAIN buses' /\ buses[b].array \in Seq(Cells)
        /\ buses[b].size = slot[t] /\ Len(buses[b].array) = slot[t]
        /\ buses'[b].array = Append(buses[b].array, NoType)
        /\ buses'[b].size = slot[t] + 1 /\ buses'[b].version = buses[b].version
    BY <1>5, GrowsList
  <2>2. \A p \in 1..slot[t] : buses'[b].array[p] = buses[b].array[p]
    BY <2>1
  <2> QED
    BY <1>1, <2>1, <2>2
<1>6. CASE bus[t] = b /\ Store(t)
  <2>1. /\ b \in DOMAIN buses' /\ buses[b].array \in Seq(Cells)
        /\ buses[b].size = slot[t] + 1 /\ Len(buses[b].array) = slot[t] + 1
        /\ buses[b].array[slot[t] + 1] = NoType
        /\ buses'[b].array = [buses[b].array EXCEPT ![slot[t] + 1] = Argument(t)]
        /\ buses'[b].size = slot[t] + 1 /\ buses'[b].version = buses[b].version
    BY <1>6, StoresItem
  <2>2. DOMAIN buses[b].array = 1..slot[t] + 1
    BY <2>1, LenProperties
  <2>3. \A p \in 1..slot[t] + 1 : p # slot[t] + 1 => buses'[b].array[p] = buses[b].array[p]
    BY <2>1, <2>2
  <2> QED
    BY <1>1, <2>1, <2>3
<1>7. CASE bus[t] = b /\ Bump(t)
  <2>1. /\ b \in DOMAIN buses' /\ buses'[b].array = buses[b].array
        /\ buses'[b].size = buses[b].size /\ buses'[b].version = buses[b].version + 1
    BY <1>7, BumpsVersion
  <2> QED
    BY <1>1, <2>1
<1> QED
  BY <1>2, <1>3, <1>4, <1>5, <1>6, <1>7

LEMMA WatchingKeeps ==
    ASSUME IInv, IInv', OneByOne, Solid, NEW t \in Threads, Call(t) \/ Step(t),
           NEW u \in Threads, Purpose(u), Watching(u)
    PROVE  Watching(u)'
<1>1. pc \in [Threads -> PCs]
  BY DEF IInv, TypeOK
<1>2. CASE u # t
  <2> SUFFICES ASSUME Sending(u) PROVE Watching(u)'
    BY <1>2, OthersSendOn DEF Watching, Sending
  <2> DEFINE b == buses[bus[u]]
             new == buses'[bus[u]]
  <2>1. /\ pc'[u] = pc[u] /\ bus'[u] = bus[u] /\ msg'[u] = msg[u] /\ expected'[u] = expected[u]
        /\ pos'[u] = pos[u] /\ handler'[u] = handler[u] /\ seen'[u] = seen[u]
        /\ sent'[u] = sent[u] /\ Place(u)' = Place(u)
    BY <1>2, OthersSendOn DEF Place
  <2>2. /\ bus[u] \in DOMAIN buses /\ b.version \in Nat /\ b.size \in Nat
        /\ new.version \in Nat /\ new.size \in Nat
        /\ b.size <= new.size /\ b.version <= new.version
        /\ \A p \in 1..b.size : b.array[p] = NoType \/ new.array[p] = b.array[p]
    <3>1. bus[u] \in DOMAIN buses /\ b.version \in Nat /\ b.size \in Nat
      BY BusOf DEF Sending
    <3>2. /\ bus[u] \in DOMAIN buses'
          /\ b.size <= new.size /\ b.version <= new.version
          /\ \A p \in 1..b.size : b.array[p] = NoType \/ new.array[p] = b.array[p]
      BY <3>1, ListGrows
    <3>3. new.version \in Nat /\ new.size \in Nat
      <4>1. buses' \in Seq(BusRecords)
        BY DEF IInv, TypeOK
      <4>2. buses'[bus[u]] \in BusRecords
        BY <3>2, <4>1
      <4> QED
        BY <4>2, BusFields
    <3> QED
      BY <3>1, <3>2, <3>3
  <2>3. /\ expected[u] <= b.version /\ Len(seen[u]) <= b.size
        /\ \A p \in DOMAIN seen[u] : seen[u][p] = NoType => p = Len(seen[u])
        /\ \A p \in DOMAIN seen[u] : seen[u][p] = NoType \/ seen[u][p] = b.array[p]
        /\ pc[u] = "rare" => expected[u] # b.version \/ pos[u] > Len(seen[u])
        /\ \A i \in DOMAIN sent[u] : sent[u][i][1] < Place(u)
        /\ pc[u] = "handle" => /\ pos[u] - 1 \in 1..b.size /\ handler[u] = b.array[pos[u] - 1]
                              /\ handler[u] # NoType /\ CanHandle(handler[u], msg[u])
    BY DEF Watching
  <2> HIDE DEF b, new
  <2>4. /\ expected[u] <= new.version /\ Len(seen[u]) <= new.size
        /\ expected[u] # b.version => expected[u] # new.version
    BY <2>2, <2>3, SendTypes
  <2>5. \A p \in DOMAIN seen[u] : seen[u][p] = NoType \/ seen[u][p] = new.array[p]
    <3>1. \A p \in DOMAIN seen[u] : p \in 1..b.size
      BY <2>2, <2>3, SendTypes
    <3> QED
      BY <2>2, <2>3, <3>1
  <2>6. pc[u] = "handle" => /\ pos[u] - 1 \in 1..new.size /\ handler[u] = new.array[pos[u] - 1]
                           /\ handler[u] # NoType /\ CanHandle(handler[u], msg[u])
    BY <2>2, <2>3
  <2> QED
    BY <2>1, <2>3, <2>4, <2>5, <2>6 DEF Watching, new
<1>3. CASE u = t
  <2>1. CASE Enum(t)
    <3>1. /\ pc[t] = "enum" /\ pc'[t] = "move" /\ bus'[t] = bus[t] /\ pos'[t] = 1
          /\ buses' = buses /\ expected'[t] = buses[bus[t]].version /\ seen'[t] = Items(bus[t])
          /\ sent'[t] = sent[t]
      BY <1>1, <2>1 DEF Enum, Goto, IInv, TypeOK, shared
    <3>2. bus[t] \in DOMAIN buses /\ buses[bus[t]].version \in Nat /\ buses[bus[t]].size \in Nat
      BY <3>1, BusOf
    <3>3. /\ seen'[t] = buses[bus[t]].array /\ Len(seen'[t]) = buses[bus[t]].size
          /\ seen'[t] \in Seq(Cells) /\ DOMAIN seen'[t] = 1..buses[bus[t]].size
      <4>1. /\ seen'[t] = buses[bus[t]].array /\ Len(seen'[t]) = buses[bus[t]].size
            /\ seen'[t] \in Seq(Cells)
        BY <3>1, <3>2, ItemsOf DEF OneByOne
      <4> QED
        BY <4>1, LenProperties
    <3>4. sent'[t] = <<>>
      BY <1>3, <3>1 DEF Purpose, Sending
    <3>5. \A p \in DOMAIN seen'[t] : seen'[t][p] = NoType => p = Len(seen'[t])
      BY <3>2, <3>3 DEF Solid
    <3> QED
      BY <1>3, <3>1, <3>2, <3>3, <3>4, <3>5 DEF Watching, Sending
  <2>2. CASE Move(t)
    <3>1. /\ pc[t] = "move" /\ pc'[t] = IF expected[t] = buses[bus[t]].version
                                        THEN "current" ELSE "rare"
          /\ UNCHANGED <<buses, bus, msg, expected, seen, pos, handler, sent>>
      BY <1>1, <2>2 DEF Move, Goto, shared, callVars, sendVars
    <3>2. Place(t)' = Place(t)
      BY <3>1 DEF Place
    <3> QED
      BY <1>3, <3>1, <3>2 DEF Watching, Sending
  <2>3. CASE Current(t)
    <3> DEFINE b == buses[bus[t]]
               c == b.array[pos[t]]
    <3>1. /\ pc[t] = "current" /\ UNCHANGED <<buses, bus, msg, expected, seen, sent>>
      BY <2>3 DEF Current, shared, callVars
    <3>2. /\ expected[t] <= b.version /\ Len(seen[t]) <= b.size /\ b.size \in Nat
          /\ \A p \in DOMAIN seen[t] : seen[t][p] = NoType => p = Len(seen[t])
          /\ \A p \in DOMAIN seen[t] : seen[t][p] = NoType \/ seen[t][p] = b.array[p]
          /\ \A i \in DOMAIN sent[t] : sent[t][i][1] < pos[t]
      BY <1>3, <3>1, BusOf DEF Watching, Sending, Place
    <3>3. CASE pc'[t] = "idle"
      BY <1>3, <3>3 DEF Watching, Sending
    <3>4. CASE pc'[t] = "rare" /\ pos[t] > b.size /\ UNCHANGED <<pos, handler>>
      <4>1. pos[t] > Len(seen[t])
        BY <3>2, <3>4, SendTypes
      <4> HIDE DEF b
      <4>2. Place(t)' = pos[t]
        BY <3>4 DEF Place
      <4> QED
        BY <1>3, <3>1, <3>2, <3>4, <4>1, <4>2 DEF Watching, b
    <3>5. CASE /\ pos[t] <= b.size /\ Creatable(b.factory, c)
               /\ pos' = [pos EXCEPT ![t] = @ + 1] /\ handler' = [handler EXCEPT ![t] = c]
               /\ pc'[t] = IF CanHandle(c, msg[t]) THEN "handle" ELSE "move"
      <4>1. pos'[t] = pos[t] + 1 /\ pos'[t] - 1 = pos[t] /\ handler'[t] = c
        <5>1. pos \in [Threads -> Nat] /\ handler \in [Threads -> Cells]
          BY DEF IInv, TypeOK
        <5> HIDE DEF c, b
        <5> QED
          BY <3>5, <5>1, SendTypes
      <4>2. c # NoType /\ pos[t] \in 1..b.size
        BY <3>2, <3>5, SendTypes DEF Creatable
      <4>3. pc'[t] = "handle" => CanHandle(c, msg[t])
        BY <3>5
      <4>4. pc'[t] # "rare"
        BY <3>5
      <4> HIDE DEF b, c
      <4>5. Place(t)' \in {pos[t], pos[t] + 1}
        BY <4>1 DEF Place
      <4>6. \A i \in DOMAIN sent[t] : sent[t][i][1] < Place(t)'
        <5>1. \A i \in DOMAIN sent[t] : sent[t][i] \in Nat \X Cells
          BY SendTypes, ElementOfSeq
        <5>2. \A i \in DOMAIN sent[t] : sent[t][i][1] \in Nat
          BY <5>1
        <5> QED
          BY <3>2, <4>5, <5>2, SendTypes
      <4> QED
        BY <1>3, <3>1, <3>2, <4>1, <4>2, <4>3, <4>4, <4>6 DEF Watching, b, c
    <3> QED
      BY <1>1, <2>3, <3>3, <3>4, <3>5 DEF Current, Goto, Return
  <2>4. CASE Handle(t)
    <3>1. /\ pc[t] = "handle" /\ UNCHANGED <<buses, bus, msg, expected, seen, pos, handler>>
          /\ \/ pc'[t] = "idle"
             \/ pc'[t] = "move" /\ sent'[t] = Append(sent[t], <<pos[t] - 1, handler[t]>>)
      BY <1>1, <2>4 DEF Handle, Goto, Return, shared, callVars, IInv, TypeOK
    <3>2. CASE pc'[t] = "idle"
      BY <1>3, <3>2 DEF Watching, Sending
    <3>3. CASE pc'[t] = "move" /\ sent'[t] = Append(sent[t], <<pos[t] - 1, handler[t]>>)
      <4>1. Place(t) = pos[t] - 1 /\ Place(t)' = pos[t]
        BY <3>1, <3>3 DEF Place
      <4>2. \A i \in DOMAIN sent[t] : sent[t][i][1] < pos[t] - 1
        BY <1>3, <3>1, <4>1 DEF Watching, Sending
      <4>3. \A i \in DOMAIN sent[t] : sent[t][i][1] \in Nat
        <5>1. \A i \in DOMAIN sent[t] : sent[t][i] \in Nat \X Cells
          BY SendTypes, ElementOfSeq
        <5> QED
          BY <5>1
      <4>4. pos[t] - 1 \in Nat
        BY SendTypes
      <4>5. \A i \in DOMAIN sent'[t] : \/ i \in DOMAIN sent[t] /\ sent'[t][i] = sent[t][i]
                                       \/ sent'[t][i] = <<pos[t] - 1, handler[t]>>
        <5> DEFINE last == <<pos[t] - 1, handler[t]>>
                   list == sent[t]
        <5>1. list \in Seq(Nat \X Cells) /\ last \in Nat \X Cells
          BY <4>4, SendTypes
        <5> HIDE DEF last, list
        <5>2. \A i \in DOMAIN Append(list, last) :
                 \/ i \in DOMAIN list /\ Append(list, last)[i] = list[i]
                 \/ Append(list, last)[i] = last
          BY <5>1
        <5> QED
          BY <3>3, <5>2 DEF last, list
      <4>6. \A i \in DOMAIN sent'[t] : sent'[t][i][1] < pos[t]
        <5>1. ASSUME NEW i \in DOMAIN sent'[t], sent'[t][i] = <<pos[t] - 1, handler[t]>>
              PROVE  sent'[t][i][1] < pos[t]
          BY <4>4, <5>1, SendTypes
        <5>2. ASSUME NEW i \in DOMAIN sent[t], sent'[t][i] = sent[t][i]
              PROVE  sent'[t][i][1] < pos[t]
          BY <4>2, <4>3, <4>4, <5>2, SendTypes
        <5> QED
          BY <4>5, <5>1, <5>2
      <4> QED
        BY <1>3, <3>1, <3>3, <4>1, <4>6 DEF Watching, Sending
    <3> QED
      BY <3>1, <3>2, <3>3
  <2>5. CASE ~(Enum(t) \/ Move(t) \/ Current(t) \/ Handle(t))
    <3>1. ~Sending(t)'
      <4>1. CASE Call(t)
        BY <1>1, <4>1 DEF Call, Goto, Entry, Sending
      <4>2. CASE Check(t) \/ Lock(t) \/ Recheck(t) \/ Create(t) \/ InitLoop(t) \/ Unlock(t)
        BY <1>1, <4>2 DEF Check, Lock, Recheck, Create, InitLoop, Unlock, Goto, Sending
      <4>3. CASE Fetch(t) \/ Loop(t) \/ Add(t) \/ Grow(t) \/ Store(t)
        BY <1>1, <4>3 DEF Fetch, Loop, Add, Grow, Store, Goto, Return, Sending
      <4>4. CASE ReadVersion(t) \/ Bump(t) \/ Rare(t)
        BY <1>1, <4>4 DEF ReadVersion, Bump, Rare, Goto, Return, Sending
      <4>5. CASE SetInstance(t) \/ SetMessageHandlerFactory(t)
        BY <1>1, <4>5 DEF SetInstance, SetMessageHandlerFactory, Return, Goto, Sending
      <4> QED
        BY <2>5, <4>1, <4>2, <4>3, <4>4, <4>5 DEF Step
    <3> QED
      BY <1>3, <3>1 DEF Watching
  <2> QED
    BY <2>1, <2>2, <2>3, <2>4, <2>5
<1> QED
  BY <1>2, <1>3

LEMMA SteadyKeeps == IInv /\ IInv' /\ NoneLost /\ Steady /\ [Next]_vars => Steady'
<1> SUFFICES ASSUME IInv, IInv', NoneLost, Steady, [Next]_vars PROVE Steady'
  OBVIOUS
<1>1. ASSUME NEW t \in Threads, Call(t) \/ Step(t) PROVE Steady'
  <2>1. \A u \in Threads : Purpose(u)'
    BY <1>1, PurposeKeeps DEF Steady
  <2>2. ASSUME ~raced' PROVE Solid' /\ \A u \in Threads : Watching(u)'
    <3>1. /\ ~raced /\ OneByOne /\ Solid
          /\ \A u \in Threads : Purpose(u) /\ Watching(u)
      BY <1>1, <2>2, RacedStays DEF NoneLost, Steady
    <3> QED
      BY <1>1, <3>1, SolidKeeps, WatchingKeeps
  <2> QED
    BY <2>1, <2>2 DEF Steady
<1>2. CASE UNCHANGED vars
  <2>1. UNCHANGED <<raced, buses, pc, bus, op, msg, result, busLock, expected, pos, handler, seen,
                    sent>>
    BY <1>2 DEF vars, shared, addVars, callVars, sendVars
  <2> QED
    BY <2>1 DEF Steady, Purpose, Solid, Watching, Sending, Place
<1> QED
  BY <1>1, <1>2 DEF Next, Finished

\* A step of t changes the promise's view of t only.
LEMMA SenderSteps ==
    ASSUME IInv, NEW t \in Threads, Call(t) \/ Step(t)
    PROVE  /\ SendNow' = [SendNow EXCEPT ![t] = Sent(t)']
           /\ TodoNow' = [TodoNow EXCEPT ![t] = Todo(t)']
           /\ StatusNow' = [StatusNow EXCEPT ![t] = Status(t)']
           /\ sent' = [sent EXCEPT ![t] = sent'[t]]
           /\ SendNow[t] = Sent(t) /\ TodoNow[t] = Todo(t) /\ StatusNow[t] = Status(t)
<1>1. ASSUME NEW u \in Threads, u # t
      PROVE  /\ Sent(u)' = Sent(u) /\ Todo(u)' = Todo(u) /\ Status(u)' = Status(u)
             /\ sent'[u] = sent[u]
  <2>1. /\ pc'[u] = pc[u] /\ op'[u] = op[u] /\ msg'[u] = msg[u] /\ result'[u] = result[u]
        /\ pos'[u] = pos[u] /\ seen'[u] = seen[u] /\ sent'[u] = sent[u]
        /\ bus'[u] = bus[u] /\ expected'[u] = expected[u]
    BY <1>1, OthersSendOn
  <2>2. Remaining(u)' = Remaining(u)
    BY <2>1 DEF Remaining, Place
  <2> QED
    BY <2>1, <2>2 DEF Sent, Todo, Status, Sending
<1>2. sent \in [Threads -> Seq(Nat \X Cells)] /\ sent' \in [Threads -> Seq(Nat \X Cells)]
  BY NextKeeps DEF IInv, TypeOK, Next
<1>3. sent' = [sent EXCEPT ![t] = sent'[t]]
  BY <1>1, <1>2
<1>4. TodoNow' = [TodoNow EXCEPT ![t] = Todo(t)']
  BY <1>1 DEF TodoNow
<1>5. StatusNow' = [StatusNow EXCEPT ![t] = Status(t)']
  BY <1>1 DEF StatusNow
<1>6. SendNow' = [SendNow EXCEPT ![t] = Sent(t)']
  BY <1>1 DEF SendNow
<1> QED
  BY <1>3, <1>4, <1>5, <1>6 DEF SendNow, TodoNow, StatusNow

\* What a step leaves of the promise's view when it leaves t's.
LEMMA ViewStays ==
    ASSUME IInv, NEW t \in Threads, Call(t) \/ Step(t),
           Sent(t)' = Sent(t), Todo(t)' = Todo(t), Status(t)' = Status(t)
    PROVE  SendNow' = SendNow /\ TodoNow' = TodoNow /\ StatusNow' = StatusNow
<1>1. SendNow' = SendNow
  BY SenderSteps DEF SendNow
<1>2. TodoNow' = TodoNow
  BY SenderSteps DEF TodoNow
<1>3. StatusNow' = StatusNow
  BY SenderSteps DEF StatusNow
<1> QED
  BY <1>1, <1>2, <1>3

\* Outside a Send, and with the registrations as they were, nothing happens.
LEMMA Stutters ==
    ASSUME IInv, NEW t \in Threads, Call(t) \/ Step(t), RegisteredNow' = RegisteredNow,
           ReturnedNow' = ReturnedNow, Sent(t)' = Sent(t), Todo(t)' = Todo(t),
           Status(t)' = Status(t), sent'[t] = sent[t]
    PROVE  UNCHANGED Abstract!vars
<1>1. SendNow' = SendNow /\ TodoNow' = TodoNow /\ StatusNow' = StatusNow
  BY ViewStays
<1>2. sent' = sent
  <2>1. sent \in [Threads -> Seq(Nat \X Cells)]
    BY DEF IInv, TypeOK
  <2>2. sent' = [sent EXCEPT ![t] = sent[t]]
    BY SenderSteps
  <2> QED
    BY <2>1, <2>2
<1> QED
  BY <1>1, <1>2 DEF Abstract!vars

\* The registrations change only where a list does, and they return only where a
\* version does.
LEMMA RegistrationsStay ==
    ASSUME DOMAIN buses' = DOMAIN buses,
           \A b \in DOMAIN buses : /\ buses'[b].array = buses[b].array
                                   /\ buses'[b].size = buses[b].size
    PROVE  RegisteredNow' = RegisteredNow
<1>1. \A b \in DOMAIN buses : Registrations(b)' = Registrations(b)
  BY DEF Registrations, Items
<1> QED
  BY <1>1 DEF RegisteredNow

LEMMA ReturnsStay ==
    ASSUME DOMAIN buses' = DOMAIN buses,
           \A b \in DOMAIN buses : buses'[b].version = buses[b].version
    PROVE  ReturnedNow' = ReturnedNow
BY DEF ReturnedNow

LEMMA QuietSteps ==
    ASSUME IInv, IInv', NEW t \in Threads, Purpose(t), Purpose(t)',
           \/ Check(t) \/ Lock(t) \/ Recheck(t) \/ InitLoop(t) \/ Unlock(t) \/ Fetch(t) \/ Loop(t)
           \/ Add(t) \/ ReadVersion(t) \/ SetMessageHandlerFactory(t)
    PROVE  UNCHANGED Abstract!vars
<1>1. /\ pc \in [Threads -> PCs] /\ op \in [Threads -> AllOps]
  BY DEF IInv, TypeOK
<1>2. Step(t) /\ sent' = sent /\ op' = op
  BY DEF Step, Check, Lock, Recheck, InitLoop, Unlock, Fetch, Loop, Add, ReadVersion,
     SetMessageHandlerFactory, sendVars, callVars
<1>3. RegisteredNow' = RegisteredNow /\ ReturnedNow' = ReturnedNow
  <2>1. ~SetMessageHandlerFactory(t) => buses' = buses
    BY DEF Check, Lock, Recheck, InitLoop, Unlock, Fetch, Loop, Add, ReadVersion, shared
  <2> QED
    BY <1>2, <2>1, ListSteps, RegistrationsStay, ReturnsStay
<1>4. /\ pc[t] \notin {"idle", "move", "current", "rare", "handle"}
      /\ pc'[t] \notin {"move", "current", "rare", "handle"}
      /\ pc'[t] = "idle" => op[t] # "send"
  <2>1. CASE Check(t) \/ Lock(t) \/ Recheck(t) \/ InitLoop(t) \/ Unlock(t)
    BY <1>1, <2>1 DEF Check, Lock, Recheck, InitLoop, Unlock, Goto
  <2>2. CASE Fetch(t) \/ Loop(t) \/ SetMessageHandlerFactory(t)
    BY <1>1, <2>2 DEF Fetch, Loop, SetMessageHandlerFactory, Goto, Return, Purpose
  <2>3. CASE Add(t)
    BY <1>1, <2>3, OnlyAddFails DEF Add, Goto, Return, Purpose
  <2>4. CASE ReadVersion(t)
    BY <1>1, <2>4 DEF ReadVersion, Goto
  <2> QED
    BY <2>1, <2>2, <2>3, <2>4
<1>5. /\ Sent(t) = <<>> /\ Sent(t)' = <<>> /\ Todo(t) = {} /\ Todo(t)' = {}
      /\ Status(t) = "out" /\ Status(t)' = "out"
  BY <1>2, <1>4 DEF Sent, Todo, Status, Sending
<1> QED
  BY <1>2, <1>3, <1>5, Stutters

LEMMA GrowStutters ==
    ASSUME IInv, OneByOne, Solid, NEW t \in Threads, Grow(t)
    PROVE  UNCHANGED Abstract!vars
<1>1. /\ pc \in [Threads -> PCs] /\ slot \in [Threads -> Nat]
  BY DEF IInv, TypeOK
<1>2. Step(t) /\ sent' = sent /\ op' = op
  BY DEF Step, Grow, sendVars, callVars
<1>3. /\ pc[t] = "grow" /\ pc'[t] = "store"
      /\ bus[t] \in DOMAIN buses /\ DOMAIN buses' = DOMAIN buses
      /\ \A b \in DOMAIN buses : b # bus[t] => buses'[b] = buses[b]
      /\ buses[bus[t]].array \in Seq(Cells)
      /\ buses[bus[t]].size = slot[t] /\ Len(buses[bus[t]].array) = slot[t]
      /\ buses'[bus[t]].array = Append(buses[bus[t]].array, NoType)
      /\ buses'[bus[t]].size = slot[t] + 1
      /\ buses'[bus[t]].version = buses[bus[t]].version
  BY GrowsList
<1> DEFINE list == buses[bus[t]].array
<1>4. \A p \in DOMAIN list : list[p] # NoType
  <2> SUFFICES ASSUME NEW p \in DOMAIN list, list[p] = NoType PROVE FALSE
    OBVIOUS
  <2>1. p \in 1..buses[bus[t]].size
    BY <1>3
  <2>2. PICK v \in Threads : pc[v] = "store" /\ bus[v] = bus[t]
    BY <1>3, <2>1 DEF Solid
  <2> QED
    BY <1>3, <2>2 DEF OneByOne, Appending
<1>5. Registrations(bus[t]) = list
  BY <1>3, <1>4, ItemsOf, FilledLists DEF Registrations
<1>6. Registrations(bus[t])' = list
  <2>1. /\ Append(list, NoType) \in Seq(Cells) /\ Len(Append(list, NoType)) = slot[t] + 1
    BY <1>3 DEF Cells
  <2>2. Items(bus[t])' = Append(list, NoType)
    <3>1. bus'[t] = bus[t]
      BY DEF Grow, IInv, TypeOK
    <3>2. Items(bus[t])' = SubSeq(Append(list, NoType), 1, slot[t] + 1)
      BY <1>3, <3>1 DEF Items
    <3> QED
      BY <2>1, <3>2, SubSeqFull
  <2> QED
    BY <1>3, <2>2, FilledLists DEF Registrations
<1>7. RegisteredNow' = RegisteredNow
  <2>1. ASSUME NEW b \in DOMAIN buses PROVE Registrations(b)' = Registrations(b)
    <3>1. CASE b = bus[t]
      <4>1. bus' = bus
        BY DEF Grow
      <4> QED
        BY <1>5, <1>6, <3>1, <4>1 DEF Registrations, Items
    <3>2. CASE b # bus[t]
      BY <1>3, <3>2 DEF Registrations, Items
    <3> QED
      BY <3>1, <3>2
  <2> QED
    BY <1>3, <2>1 DEF RegisteredNow
<1>8. ReturnedNow' = ReturnedNow
  BY <1>3, ReturnsStay
<1>9. /\ Sent(t) = <<>> /\ Sent(t)' = <<>> /\ Todo(t) = {} /\ Todo(t)' = {}
      /\ Status(t) = "out" /\ Status(t)' = "out"
  BY <1>2, <1>3 DEF Sent, Todo, Status, Sending
<1> QED
  BY <1>2, <1>7, <1>8, <1>9, Stutters

\* The promise counts one list of registrations for every bus.
OneListPerBus ==
    RegisteredNow \in Seq(Seq(Cells)) /\ Len(RegisteredNow) = Len(buses)
    /\ DOMAIN RegisteredNow = DOMAIN buses
    /\ ReturnedNow \in Seq(Nat) /\ Len(ReturnedNow) = Len(buses)

LEMMA RegisteredIsSeq == IInv => OneListPerBus
<1> SUFFICES ASSUME IInv PROVE OneListPerBus
  OBVIOUS
<1>1. buses \in Seq(BusRecords)
  BY DEF IInv, TypeOK
<1>2. ASSUME NEW b \in DOMAIN buses PROVE Registrations(b) \in Seq(Cells)
  <2>1. buses[b].array \in Seq(Cells) /\ buses[b].size \in Nat
        /\ buses[b].size <= Len(buses[b].array)
    BY ListOf DEF IInv, InBounds
  <2>2. \A p \in 1..buses[b].size : buses[b].array[p] \in Cells
    BY <2>1, ElementOfSeq
  <2>3. Items(b) \in Seq(Cells)
    BY <2>1, <2>2, SubSeqProperties DEF Items
  <2> QED
    BY <2>3, FilledLists DEF Registrations
<1>3. Len(buses) \in Nat /\ DOMAIN buses = 1..Len(buses)
  BY <1>1
<1>4. RegisteredNow \in [1..Len(buses) -> Seq(Cells)]
  BY <1>2, <1>3 DEF RegisteredNow
<1>5. RegisteredNow \in Seq(Seq(Cells))
  BY <1>3, <1>4, SeqDef
<1>6. DOMAIN RegisteredNow = 1..Len(RegisteredNow) /\ Len(RegisteredNow) \in Nat
  BY <1>5, LenProperties
<1>7. ReturnedNow \in [1..Len(buses) -> Nat]
  BY <1>3, ListOf DEF ReturnedNow
<1>8. ReturnedNow \in Seq(Nat)
  BY <1>3, <1>7, SeqDef
<1>9. DOMAIN ReturnedNow = 1..Len(ReturnedNow) /\ Len(ReturnedNow) \in Nat
  BY <1>8, LenProperties
<1>10. Len(RegisteredNow) = Len(buses)
  BY <1>3, <1>4, <1>6
<1>11. Len(ReturnedNow) = Len(buses)
  BY <1>3, <1>7, <1>9
<1>12. DOMAIN RegisteredNow = DOMAIN buses
  BY DEF RegisteredNow
<1> QED
  BY <1>5, <1>8, <1>10, <1>11, <1>12 DEF OneListPerBus

LEMMA NewBusIsNew ==
    ASSUME IInv, IInv', NEW t \in Threads, Purpose(t), Create(t) \/ SetInstance(t)
    PROVE  Abstract!NewBus
<1>1. /\ pc \in [Threads -> PCs] /\ op \in [Threads -> AllOps] /\ buses \in Seq(BusRecords)
  BY DEF IInv, TypeOK
<1>2. Step(t) /\ sent' = sent /\ op' = op
  BY DEF Step, Create, SetInstance, sendVars, callVars
<1>3. PICK default \in BOOLEAN : buses' = Append(buses, NewBus(default))
  BY DEF Create, SetInstance
<1>4. /\ \A b \in DOMAIN buses : b \in DOMAIN buses' /\ buses'[b] = buses[b]
      /\ \A b \in DOMAIN buses' : b \in DOMAIN buses \/ buses'[b] = NewBus(default)
      /\ Len(buses') = Len(buses) + 1 /\ Len(buses) \in Nat
  BY <1>1, <1>3, AppendedBus
<1>5. RegisteredNow' = Append(RegisteredNow, <<>>)
  <2>1. \A b \in DOMAIN buses : RegisteredNow'[b] = RegisteredNow[b]
    BY <1>4 DEF RegisteredNow, Registrations, Items
  <2>2. RegisteredNow'[Len(buses) + 1] = <<>>
    <3>1. Len(buses) + 1 \in DOMAIN buses' /\ buses'[Len(buses) + 1] = NewBus(default)
      BY <1>1, <1>3
    <3>2. ASSUME NEW b, b = Len(buses) + 1 PROVE Items(b)' = <<>>
      BY <3>1, <3>2, SubSeqEmpty DEF Items, NewBus
    <3>3. ASSUME NEW b, b = Len(buses) + 1 PROVE Registrations(b)' = <<>>
      BY <3>2, <3>3 DEF Registrations, Filled
    <3> QED
      BY <3>1, <3>3 DEF RegisteredNow
  <2>3. /\ RegisteredNow' \in Seq(Seq(Cells)) /\ Len(RegisteredNow') = Len(buses) + 1
        /\ RegisteredNow \in Seq(Seq(Cells)) /\ Len(RegisteredNow) = Len(buses)
        /\ DOMAIN RegisteredNow = DOMAIN buses
    <3>1. OneListPerBus'
      BY RegisteredIsSeq, PTL
    <3> QED
      BY <1>4, <3>1, RegisteredIsSeq DEF OneListPerBus
  <2>4. <<>> \in Seq(Cells)
    OBVIOUS
  <2>5. /\ Append(RegisteredNow, <<>>) \in Seq(Seq(Cells))
        /\ Len(Append(RegisteredNow, <<>>)) = Len(buses) + 1
        /\ \A i \in 1..Len(buses) : Append(RegisteredNow, <<>>)[i] = RegisteredNow[i]
        /\ Append(RegisteredNow, <<>>)[Len(buses) + 1] = <<>>
    BY <2>3, <2>4, AppendProperties
  <2>6. \A i \in 1..Len(buses) + 1 : i \in 1..Len(buses) \/ i = Len(buses) + 1
    BY <1>4
  <2>7. DOMAIN buses = 1..Len(buses)
    BY <1>1
  <2>8. \A i \in 1..Len(buses) + 1 : RegisteredNow'[i] = Append(RegisteredNow, <<>>)[i]
    BY <2>1, <2>2, <2>5, <2>6, <2>7
  <2> QED
    BY <2>3, <2>5, <2>8, SeqEqual
<1>6. ReturnedNow' = Append(ReturnedNow, 0)
  <2>1. \A b \in DOMAIN buses : ReturnedNow'[b] = ReturnedNow[b]
    BY <1>4 DEF ReturnedNow
  <2>2. ReturnedNow'[Len(buses) + 1] = 0
    <3>1. Len(buses) + 1 \in DOMAIN buses' /\ buses'[Len(buses) + 1] = NewBus(default)
      BY <1>1, <1>3
    <3> QED
      BY <3>1 DEF ReturnedNow, NewBus
  <2>3. /\ ReturnedNow' \in Seq(Nat) /\ Len(ReturnedNow') = Len(buses) + 1
        /\ ReturnedNow \in Seq(Nat) /\ Len(ReturnedNow) = Len(buses)
    <3>1. OneListPerBus'
      BY RegisteredIsSeq, PTL
    <3> QED
      BY <1>4, <3>1, RegisteredIsSeq DEF OneListPerBus
  <2>4. /\ Append(ReturnedNow, 0) \in Seq(Nat)
        /\ Len(Append(ReturnedNow, 0)) = Len(buses) + 1
        /\ \A i \in 1..Len(buses) : Append(ReturnedNow, 0)[i] = ReturnedNow[i]
        /\ Append(ReturnedNow, 0)[Len(buses) + 1] = 0
    BY <2>3, AppendProperties
  <2>5. DOMAIN buses = 1..Len(buses) /\ \A i \in 1..Len(buses) + 1 : i \in 1..Len(buses) \/ i = Len(buses) + 1
    BY <1>1, <1>4
  <2>6. \A i \in 1..Len(buses) + 1 : ReturnedNow'[i] = Append(ReturnedNow, 0)[i]
    BY <2>1, <2>2, <2>4, <2>5
  <2> QED
    BY <2>3, <2>4, <2>6, SeqEqual
<1>7. /\ pc[t] \notin {"idle", "move", "current", "rare", "handle"}
      /\ pc'[t] \notin {"move", "current", "rare", "handle"}
      /\ pc'[t] = "idle" => op[t] # "send"
  BY <1>1 DEF Create, SetInstance, Goto, Return, Purpose
<1>8. /\ Sent(t) = <<>> /\ Sent(t)' = <<>> /\ Todo(t) = {} /\ Todo(t)' = {}
      /\ Status(t) = "out" /\ Status(t)' = "out"
  BY <1>2, <1>7 DEF Sent, Todo, Status, Sending
<1>9. SendNow' = SendNow /\ TodoNow' = TodoNow /\ StatusNow' = StatusNow
  BY <1>2, <1>8, ViewStays
<1> QED
  BY <1>2, <1>5, <1>6, <1>9 DEF Abstract!NewBus

LEMMA StoreRegisters ==
    ASSUME IInv, IInv', OneByOne, Solid, NEW t \in Threads, Purpose(t), Store(t)
    PROVE  Abstract!Register
<1>1. /\ pc \in [Threads -> PCs] /\ op \in [Threads -> AllOps] /\ slot \in [Threads -> Nat]
  BY DEF IInv, TypeOK
<1>2. Step(t) /\ sent' = sent /\ op' = op
  BY DEF Step, Store, sendVars, callVars
<1> DEFINE list == buses[bus[t]].array
           item == Argument(t)
           stored == [list EXCEPT ![slot[t] + 1] = item]
           front == SubSeq(list, 1, slot[t])
<1>3. /\ pc[t] = "store" /\ pc'[t] = "version" /\ bus' = bus
      /\ bus[t] \in DOMAIN buses /\ DOMAIN buses' = DOMAIN buses
      /\ \A b \in DOMAIN buses : b # bus[t] => buses'[b] = buses[b]
      /\ list \in Seq(Cells)
      /\ buses[bus[t]].size = slot[t] + 1 /\ Len(list) = slot[t] + 1
      /\ list[slot[t] + 1] = NoType
      /\ buses'[bus[t]].array = stored /\ buses'[bus[t]].size = slot[t] + 1
      /\ buses'[bus[t]].version = buses[bus[t]].version
  BY StoresItem
<1>4. item \in Types /\ item \in Cells /\ item # NoType
  BY <1>3, ArgumentIsCell, TypeAssumption
<1>5. slot[t] \in Nat /\ slot[t] + 1 \in 1..Len(list) /\ slot[t] + 1 - 1 = slot[t]
  BY <1>1, <1>3
<1>6. /\ stored \in Seq(Cells) /\ Len(stored) = slot[t] + 1
      /\ \A p \in 1..slot[t] + 1 : stored[p] = IF p = slot[t] + 1 THEN item ELSE list[p]
  BY <1>3, <1>4, <1>5, ExceptSeq
<1>7. \A p \in 1..slot[t] + 1 : p # slot[t] + 1 => list[p] # NoType
  BY <1>3 DEF Solid
<1> HIDE DEF item, stored
<1>8. Registrations(bus[t]) = front
  <2>1. Items(bus[t]) = list
    BY <1>3, ItemsOf
  <2>2. list # <<>>
    BY <1>3, <1>5, EmptySeq
  <2> QED
    BY <1>3, <1>5, <2>1, <2>2 DEF Registrations, Filled
<1>9. Registrations(bus[t])' = stored
  <2>1. Items(bus[t])' = SubSeq(stored, 1, slot[t] + 1)
    BY <1>3 DEF Items
  <2>2. Items(bus[t])' = stored
    BY <1>6, <2>1, SubSeqFull
  <2>3. \A p \in DOMAIN stored : stored[p] # NoType
    BY <1>4, <1>6, <1>7, LenProperties
  <2> QED
    BY <1>6, <2>2, <2>3, FilledLists DEF Registrations
<1>10. stored = Append(front, item)
  <2>1. \A p \in 1..slot[t] : p \in 1..slot[t] + 1 /\ p # slot[t] + 1 /\ list[p] \in Cells
    BY <1>3, <1>5, ElementOfSeq
  <2>2. /\ front \in Seq(Cells) /\ Len(front) = slot[t]
        /\ \A p \in 1..slot[t] : front[p] = list[p]
    BY <1>5, <2>1, SubSeqProperties
  <2> HIDE DEF front
  <2>3. /\ Append(front, item) \in Seq(Cells) /\ Len(Append(front, item)) = slot[t] + 1
        /\ \A p \in 1..slot[t] : Append(front, item)[p] = front[p]
        /\ Append(front, item)[slot[t] + 1] = item
    BY <1>4, <2>2, AppendProperties
  <2>4. \A p \in 1..slot[t] + 1 : p \in 1..slot[t] \/ p = slot[t] + 1
    BY <1>5
  <2>5. \A p \in 1..slot[t] + 1 : stored[p] = Append(front, item)[p]
    BY <1>6, <2>1, <2>2, <2>3, <2>4
  <2> QED
    BY <1>6, <2>3, <2>5, SeqEqual
<1>11. RegisteredNow' = [RegisteredNow EXCEPT ![bus[t]] = Append(@, item)]
  <2>1. \A b \in DOMAIN buses : b # bus[t] => Registrations(b)' = Registrations(b)
    BY <1>3 DEF Registrations, Items
  <2>2. \A b \in DOMAIN buses : b = bus[t] => Registrations(b)' = stored
    BY <1>3, <1>9 DEF Registrations, Items
  <2>3. stored = Append(Registrations(bus[t]), item)
    BY <1>8, <1>10
  <2> QED
    BY <1>3, <2>1, <2>2, <2>3 DEF RegisteredNow
<1>12. ReturnedNow' = ReturnedNow
  BY <1>3, ReturnsStay
<1>13. /\ Sent(t) = <<>> /\ Sent(t)' = <<>> /\ Todo(t) = {} /\ Todo(t)' = {}
       /\ Status(t) = "out" /\ Status(t)' = "out"
  BY <1>3 DEF Sent, Todo, Status, Sending
<1>14. SendNow' = SendNow /\ TodoNow' = TodoNow /\ StatusNow' = StatusNow
  BY <1>2, <1>13, ViewStays
<1>15. bus[t] \in DOMAIN RegisteredNow
  BY <1>3 DEF RegisteredNow
<1> QED
  BY <1>2, <1>4, <1>11, <1>12, <1>14, <1>15 DEF Abstract!Register

\* The registration whose version is stored has not returned before.
LEMMA BumpReturns ==
    ASSUME IInv, OneByOne, Solid, NEW t \in Threads, Purpose(t), Bump(t)
    PROVE  Abstract!RegistrationReturns
<1>1. /\ pc[t] = "bump" /\ pc'[t] \in {"initloop", "loop", "idle"} /\ sent' = sent
      /\ bus[t] \in DOMAIN buses /\ DOMAIN buses' = DOMAIN buses
      /\ \A b \in DOMAIN buses : b # bus[t] => buses'[b] = buses[b]
      /\ \A b \in DOMAIN buses : /\ buses'[b].array = buses[b].array
                                 /\ buses'[b].size = buses[b].size
      /\ buses[bus[t]].version < buses[bus[t]].size
      /\ buses'[bus[t]].version = buses[bus[t]].version + 1
  BY BumpsVersion
<1>2. Step(t) /\ op' = op /\ op \in [Threads -> AllOps] /\ pc \in [Threads -> PCs]
  BY DEF Step, Bump, callVars, IInv, TypeOK
<1>3. RegisteredNow' = RegisteredNow
  BY <1>1, RegistrationsStay
<1>4. RegisteredNow[bus[t]] = buses[bus[t]].array
  <2>1. \A p \in 1..buses[bus[t]].size : buses[bus[t]].array[p] # NoType
    <3> SUFFICES ASSUME NEW p \in 1..buses[bus[t]].size, buses[bus[t]].array[p] = NoType
                 PROVE  FALSE
      OBVIOUS
    <3>1. PICK v \in Threads : pc[v] = "store" /\ bus[v] = bus[t]
      BY <1>1 DEF Solid
    <3> QED
      BY <1>1, <3>1 DEF OneByOne, Appending
  <2>2. /\ Items(bus[t]) = buses[bus[t]].array /\ buses[bus[t]].array \in Seq(Cells)
        /\ DOMAIN buses[bus[t]].array = 1..buses[bus[t]].size
    BY <1>1, ItemsOf, ListOf, LenProperties DEF OneByOne
  <2> QED
    BY <1>1, <2>1, <2>2, FilledLists DEF RegisteredNow, Registrations
<1>5. Len(RegisteredNow[bus[t]]) = buses[bus[t]].size
  BY <1>1, <1>4 DEF OneByOne
<1>6. ReturnedNow' = [ReturnedNow EXCEPT ![bus[t]] = @ + 1]
  BY <1>1 DEF ReturnedNow
<1>7. bus[t] \in DOMAIN RegisteredNow /\ ReturnedNow[bus[t]] = buses[bus[t]].version
  BY <1>1 DEF RegisteredNow, ReturnedNow
<1>8. pc'[t] = "idle" => op[t] # "send"
  BY <1>1, <1>2 DEF Bump, Goto, Return, Purpose
<1>9. /\ Sent(t) = <<>> /\ Sent(t)' = <<>> /\ Todo(t) = {} /\ Todo(t)' = {}
      /\ Status(t) = "out" /\ Status(t)' = "out"
  BY <1>1, <1>2, <1>8 DEF Sent, Todo, Status, Sending
<1>10. SendNow' = SendNow /\ TodoNow' = TodoNow /\ StatusNow' = StatusNow
  BY <1>2, <1>9, ViewStays
<1> QED
  BY <1>1, <1>3, <1>5, <1>6, <1>7, <1>10 DEF Abstract!RegistrationReturns

LEMMA CallLeaves ==
    ASSUME IInv, NEW t \in Threads, Purpose(t), Call(t)
    PROVE  Abstract!Leave(t) \/ UNCHANGED Abstract!vars
<1>1. /\ pc \in [Threads -> PCs] /\ result \in [Threads -> Results]
      /\ sent \in [Threads -> Seq(Nat \X Cells)]
  BY DEF IInv, TypeOK
<1>2. /\ pc[t] = "idle" /\ pc'[t] \in {"check", "loop", "set"}
      /\ sent' = [sent EXCEPT ![t] = <<>>] /\ buses' = buses
  BY <1>1 DEF Call, Goto, Entry, shared
<1>3. RegisteredNow' = RegisteredNow /\ ReturnedNow' = ReturnedNow
  BY <1>2, RegistrationsStay, ReturnsStay
<1>4. /\ Sent(t) = <<>> /\ Sent(t)' = <<>> /\ Todo(t) = {} /\ Todo(t)' = {}
      /\ Status(t)' = "out"
  BY <1>2 DEF Sent, Todo, Status, Sending
<1>5. CASE Status(t) = "out"
  <2>1. sent[t] = <<>>
    BY <1>1, <1>2, <1>5 DEF Purpose, Status, Sending, Results
  <2> QED
    BY <1>1, <1>2, <1>3, <1>4, <1>5, <2>1, Stutters
<1>6. CASE Status(t) # "out"
  <2>1. Status(t) \in {"ok", "failed"}
    BY <1>1, <1>2, <1>6 DEF Status, Sending, Results
  <2>2. /\ SendNow' = SendNow /\ TodoNow' = TodoNow
        /\ StatusNow' = [StatusNow EXCEPT ![t] = "out"] /\ StatusNow[t] = Status(t)
    BY <1>4, SenderSteps DEF SendNow, TodoNow
  <2> QED
    BY <1>2, <1>3, <2>1, <2>2 DEF Abstract!Leave
<1> QED
  BY <1>5, <1>6

\* The cells that count, when only the last may be empty.
LEMMA FilledCells ==
    ASSUME NEW list \in Seq(Cells), \A p \in DOMAIN list : list[p] = NoType => p = Len(list)
    PROVE  /\ DOMAIN Filled(list) = {p \in DOMAIN list : list[p] # NoType}
           /\ \A p \in DOMAIN Filled(list) : Filled(list)[p] = list[p]
<1>1. Len(list) \in Nat /\ DOMAIN list = 1..Len(list)
  BY LenProperties
<1>2. CASE list # <<>> /\ list[Len(list)] = NoType
  <2> DEFINE front == SubSeq(list, 1, Len(list) - 1)
  <2>1. Filled(list) = front
    BY <1>2 DEF Filled
  <2>2. \A p \in 1..Len(list) - 1 : list[p] \in Cells
    BY <1>1, ElementOfSeq
  <2>3. Len(list) >= 1
    BY <1>1, <1>2, EmptySeq
  <2>4. /\ front \in Seq(Cells) /\ Len(front) = Len(list) - 1
        /\ \A p \in 1..Len(list) - 1 : front[p] = list[p]
    BY <1>1, <2>2, <2>3, SubSeqProperties
  <2> HIDE DEF front
  <2>5. DOMAIN front = 1..Len(list) - 1
    BY <2>4, LenProperties
  <2>6. \A p \in 1..Len(list) : list[p] # NoType <=> p \in 1..Len(list) - 1
    BY <1>1, <1>2
  <2> QED
    BY <1>1, <2>1, <2>4, <2>5, <2>6
<1>3. CASE ~(list # <<>> /\ list[Len(list)] = NoType)
  <2>1. Filled(list) = list
    BY <1>3 DEF Filled
  <2>2. \A p \in DOMAIN list : list[p] # NoType
    BY <1>1, <1>3, EmptySeq
  <2> QED
    BY <2>1, <2>2
<1> QED
  BY <1>2, <1>3

LEMMA EnumBegins ==
    ASSUME IInv, OneByOne, Solid, NEW t \in Threads, Enum(t)
    PROVE  Abstract!Begin(t)
<1>1. pc \in [Threads -> PCs] /\ pos \in [Threads -> Nat] /\ seen \in [Threads -> Seq(Cells)]
      /\ msg \in [Threads -> Messages] /\ expected \in [Threads -> Nat]
  BY DEF IInv, TypeOK
<1> DEFINE list == Items(bus[t])
           accepted == Filled(list)
<1>2. /\ pc[t] = "enum" /\ pc'[t] = "move" /\ pos'[t] = 1 /\ seen'[t] = list
      /\ buses' = buses /\ msg' = msg /\ bus' = bus /\ sent' = sent /\ Step(t)
      /\ expected'[t] = buses[bus[t]].version
  BY <1>1 DEF Step, Enum, Goto, shared, callVars
<1>3. RegisteredNow' = RegisteredNow /\ ReturnedNow' = ReturnedNow
  BY <1>2, RegistrationsStay, ReturnsStay
<1>4. bus[t] \in DOMAIN buses
  BY <1>2, BusOf
<1>5. /\ list \in Seq(Cells) /\ Len(list) \in Nat /\ DOMAIN list = 1..Len(list)
      /\ \A p \in DOMAIN list : list[p] = NoType => p = Len(list)
  <2>1. list = buses[bus[t]].array /\ list \in Seq(Cells) /\ buses[bus[t]].size = Len(list)
    BY <1>4, ItemsOf DEF OneByOne
  <2> HIDE DEF list
  <2>2. Len(list) \in Nat /\ DOMAIN list = 1..Len(list)
    BY <2>1, LenProperties
  <2>3. \A p \in DOMAIN list : list[p] = NoType => p = Len(list)
    BY <1>4, <2>1, <2>2 DEF Solid
  <2> QED
    BY <2>1, <2>2, <2>3
<1>6. /\ DOMAIN accepted = {p \in DOMAIN list : list[p] # NoType}
      /\ \A p \in DOMAIN accepted : accepted[p] = list[p]
  <2> HIDE DEF list
  <2> QED
    BY <1>5, FilledCells
<1>7. Todo(t)' = Abstract!Recipients(RegisteredNow[bus[t]], msg[t])
  <2> HIDE DEF list
  <2>1. Todo(t)' = {<<p, list[p]>> : p \in {p \in DOMAIN list :
                       p >= 1 /\ list[p] # NoType /\ CanHandle(list[p], msg[t])}}
    BY <1>2 DEF Todo, Sending, Remaining, Place
  <2>2. RegisteredNow[bus[t]] = accepted
    BY <1>4 DEF RegisteredNow, Registrations, list
  <2> HIDE DEF accepted
  <2>3. {p \in DOMAIN list : p >= 1 /\ list[p] # NoType /\ CanHandle(list[p], msg[t])}
          = {p \in DOMAIN accepted : msg[t] \in Handles[accepted[p]]}
    BY <1>5, <1>6 DEF CanHandle
  <2>4. Todo(t)' = {<<p, list[p]>> : p \in {p \in DOMAIN accepted : msg[t] \in Handles[accepted[p]]}}
    BY <2>1, <2>3
  <2>5. Todo(t)' = {<<p, accepted[p]>> :
                       p \in {p \in DOMAIN accepted : msg[t] \in Handles[accepted[p]]}}
    BY <1>6, <2>4
  <2> QED
    BY <2>2, <2>5 DEF Abstract!Recipients
<1>8. Status(t) # "sending" /\ Status(t)' = "sending"
  BY <1>1, <1>2 DEF Status, Sending, IInv, TypeOK, Results
<1>9. SendNow' = [SendNow EXCEPT ![t] = <<bus[t], msg[t], ReturnedNow[bus[t]]>>]
  <2>1. Sent(t)' = <<bus[t], msg[t], ReturnedNow[bus[t]]>>
    BY <1>2, <1>4 DEF Sent, Sending, ReturnedNow
  <2> QED
    BY <1>2, <2>1, SenderSteps
<1>10. TodoNow' = [TodoNow EXCEPT ![t] = Abstract!Recipients(RegisteredNow[bus[t]], msg[t])]
      /\ StatusNow' = [StatusNow EXCEPT ![t] = "sending"] /\ StatusNow[t] # "sending"
  BY <1>2, <1>7, <1>8, SenderSteps
<1>11. bus[t] \in DOMAIN RegisteredNow /\ msg[t] \in Messages
  BY <1>1, <1>4 DEF RegisteredNow
<1> QED
  BY <1>2, <1>3, <1>9, <1>10, <1>11 DEF Abstract!Begin

\* Comparing the versions changes nothing.
LEMMA MoveStutters ==
    ASSUME IInv, NEW t \in Threads, Move(t) PROVE UNCHANGED Abstract!vars
<1>1. /\ pc[t] = "move" /\ pc'[t] \in {"current", "rare"} /\ Step(t)
      /\ UNCHANGED <<buses, bus, msg, expected, pos, seen, sent>>
  BY DEF Step, Move, Goto, shared, callVars, sendVars, IInv, TypeOK
<1>2. RegisteredNow' = RegisteredNow /\ ReturnedNow' = ReturnedNow
  BY <1>1, RegistrationsStay, ReturnsStay
<1>3. Remaining(t)' = Remaining(t)
  BY <1>1 DEF Remaining, Place
<1>4. Sent(t)' = Sent(t) /\ Todo(t)' = Todo(t) /\ Status(t)' = Status(t)
  BY <1>1, <1>3 DEF Sent, Todo, Status, Sending
<1> QED
  BY <1>1, <1>2, <1>4, Stutters

LEMMA CurrentFailsOrStutters ==
    ASSUME IInv, NEW t \in Threads, Purpose(t), Watching(t), Current(t)
    PROVE  Abstract!Fail(t) \/ UNCHANGED Abstract!vars
<1>1. /\ pc \in [Threads -> PCs] /\ pos \in [Threads -> Nat] /\ result \in [Threads -> Results]
  BY DEF IInv, TypeOK
<1> DEFINE b == buses[bus[t]]
           c == b.array[pos[t]]
<1>2. /\ pc[t] = "current" /\ op[t] = "send" /\ Step(t)
      /\ UNCHANGED <<buses, bus, op, msg, expected, seen, sent>>
  BY DEF Step, Current, Purpose, shared, callVars
<1>3. RegisteredNow' = RegisteredNow /\ ReturnedNow' = ReturnedNow
  BY <1>2, RegistrationsStay, ReturnsStay
<1>4. Status(t) = "sending"
  BY <1>2 DEF Status, Sending
<1>5. CASE pc'[t] = "idle" /\ result'[t] = "failed"
  <2>1. Sent(t)' = <<>> /\ Todo(t)' = {} /\ Status(t)' = "failed"
    BY <1>2, <1>5 DEF Sent, Todo, Status, Sending
  <2> QED
    BY <1>2, <1>3, <1>4, <2>1, SenderSteps
    DEF Abstract!Fail, Abstract!End, Abstract!NoSend
<1>6. CASE pc'[t] = "rare" /\ pos' = pos
  <2>1. Remaining(t)' = Remaining(t)
    BY <1>2, <1>6 DEF Remaining, Place
  <2>2. Sent(t)' = Sent(t) /\ Todo(t)' = Todo(t) /\ Status(t)' = Status(t)
    BY <1>2, <1>6, <2>1 DEF Sent, Todo, Status, Sending
  <2> QED
    BY <1>2, <1>3, <2>2, Stutters
<1>7. CASE /\ pos[t] <= b.size /\ Creatable(b.factory, c)
           /\ pos' = [pos EXCEPT ![t] = @ + 1]
           /\ pc'[t] = IF CanHandle(c, msg[t]) THEN "handle" ELSE "move"
  <2>1. pos'[t] = pos[t] + 1 /\ pos'[t] - 1 = pos[t] /\ pos[t] \in Nat
    BY <1>1, <1>7
  <2>2. Status(t)' = "sending" /\ Sent(t)' = Sent(t)
    BY <1>2, <1>7 DEF Status, Sent, Sending
  <2>3. \A p \in DOMAIN seen[t] : seen[t][p] = NoType \/ seen[t][p] = b.array[p]
    BY <1>2, <1>7 DEF Watching, Sending
  <2>4. /\ Todo(t) = Remaining(t) /\ Todo(t)' = Remaining(t)'
    BY <1>2, <1>7 DEF Todo, Sending
  <2>5. CASE CanHandle(c, msg[t])
    <3>1. Place(t)' = Place(t)
      BY <1>2, <1>7, <2>1, <2>5 DEF Place
    <3>2. Remaining(t)' = Remaining(t)
      BY <1>2, <3>1 DEF Remaining
    <3> QED
      BY <1>2, <1>3, <1>4, <2>2, <2>4, <3>2, Stutters
  <2>6. CASE ~CanHandle(c, msg[t])
    <3>1. Place(t)' = Place(t) + 1 /\ Place(t) = pos[t]
      BY <1>2, <1>7, <2>1, <2>6 DEF Place
    <3> DEFINE accepts(d) == d # NoType /\ CanHandle(d, msg[t])
    <3>2. ~accepts(seen[t][pos[t]]) \/ pos[t] \notin DOMAIN seen[t]
      BY <2>3, <2>6
    <3>3. {p \in DOMAIN seen[t] : p >= Place(t) /\ accepts(seen[t][p])}
            = {p \in DOMAIN seen[t] : p >= Place(t) + 1 /\ accepts(seen[t][p])}
      <4> HIDE DEF accepts
      <4>1. \A p \in DOMAIN seen[t] : accepts(seen[t][p]) =>
               (p >= pos[t] <=> p >= pos[t] + 1)
        BY <2>1, <3>2, SendTypes
      <4> QED
        BY <3>1, <4>1
    <3>4. Remaining(t)' = Remaining(t)
      BY <1>2, <3>1, <3>3 DEF Remaining
    <3> QED
      BY <1>2, <1>3, <1>4, <2>2, <2>4, <3>4, Stutters
  <2> QED
    BY <2>5, <2>6
<1> QED
  BY <1>1, <1>5, <1>6, <1>7 DEF Current, Goto, Return

LEMMA RareEnds ==
    ASSUME IInv, NEW t \in Threads, Purpose(t), Watching(t), Rare(t)
    PROVE  Abstract!Succeed(t) \/ Abstract!Fail(t)
<1>1. /\ pc \in [Threads -> PCs] /\ pos \in [Threads -> Nat] /\ result \in [Threads -> Results]
  BY DEF IInv, TypeOK
<1>2. /\ pc[t] = "rare" /\ op[t] = "send" /\ Step(t) /\ pc'[t] = "idle"
      /\ UNCHANGED <<buses, op, sent>> /\ bus[t] \in DOMAIN buses
      /\ result'[t] = IF expected[t] = buses[bus[t]].version THEN "ok" ELSE "failed"
  BY <1>1, BusOf DEF Step, Rare, Goto, Return, Purpose, shared, callVars, sendVars
<1>3. RegisteredNow' = RegisteredNow /\ ReturnedNow' = ReturnedNow
  BY <1>2, RegistrationsStay, ReturnsStay
<1>4. Status(t) = "sending" /\ Sent(t)' = <<>> /\ Todo(t)' = {}
  BY <1>2 DEF Status, Sent, Todo, Sending
<1>5. CASE expected[t] # buses[bus[t]].version
  <2>1. Status(t)' = "failed"
    BY <1>2, <1>5 DEF Status, Sending
  <2> QED
    BY <1>2, <1>3, <1>4, <2>1, SenderSteps
    DEF Abstract!Fail, Abstract!End, Abstract!NoSend
<1>6. CASE expected[t] = buses[bus[t]].version
  <2>1. Status(t)' = "ok"
    BY <1>2, <1>6 DEF Status, Sending
  <2>2. Todo(t) = {}
    <3>1. pos[t] > Len(seen[t])
      BY <1>2, <1>6 DEF Watching, Sending
    <3>2. \A p \in DOMAIN seen[t] : ~(p >= pos[t])
      BY <3>1, SendTypes
    <3> QED
      BY <1>2, <3>2 DEF Todo, Remaining, Sending, Place
  <2>3. ReturnedNow[Sent(t)[1]] = Sent(t)[3]
    BY <1>2, <1>6 DEF Sent, Sending, ReturnedNow
  <2>4. /\ SendNow[t] = Sent(t) /\ TodoNow[t] = {} /\ StatusNow[t] = "sending"
        /\ SendNow' = [SendNow EXCEPT ![t] = <<>>] /\ TodoNow' = [TodoNow EXCEPT ![t] = {}]
        /\ StatusNow' = [StatusNow EXCEPT ![t] = "ok"]
    BY <1>2, <1>4, <2>1, <2>2, SenderSteps
  <2> QED
    BY <1>2, <1>3, <2>3, <2>4 DEF Abstract!Succeed, Abstract!End, Abstract!NoSend
<1> QED
  BY <1>5, <1>6

LEMMA HandleDelivers ==
    ASSUME IInv, OneByOne, Solid, NEW t \in Threads, Purpose(t), Watching(t), Handle(t)
    PROVE  Abstract!Deliver(t) \/ Abstract!DeliverLate(t) \/ Abstract!Fail(t)
<1>1. /\ pc \in [Threads -> PCs] /\ result \in [Threads -> Results]
      /\ sent \in [Threads -> Seq(Nat \X Cells)]
  BY DEF IInv, TypeOK
<1>2. /\ pc[t] = "handle" /\ op[t] = "send" /\ Step(t)
      /\ UNCHANGED <<buses, bus, op, msg, expected, seen, pos, handler>>
  BY DEF Step, Handle, Purpose, shared, callVars
<1>3. RegisteredNow' = RegisteredNow /\ ReturnedNow' = ReturnedNow
  BY <1>2, RegistrationsStay, ReturnsStay
<1>4. Status(t) = "sending"
  BY <1>2 DEF Status, Sending
<1>5. CASE pc'[t] = "idle" /\ result'[t] = "failed" /\ sent' = sent
  <2>1. Sent(t)' = <<>> /\ Todo(t)' = {} /\ Status(t)' = "failed"
    BY <1>2, <1>5 DEF Sent, Todo, Status, Sending
  <2> QED
    BY <1>2, <1>3, <1>4, <1>5, <2>1, SenderSteps
    DEF Abstract!Fail, Abstract!End, Abstract!NoSend
<1>6. CASE pc'[t] = "move" /\ sent' = [sent EXCEPT ![t] = Append(@, <<pos[t] - 1, handler[t]>>)]
  <2> DEFINE b == buses[bus[t]]
             place == pos[t] - 1
             first == <<place, handler[t]>>
  <2>1. /\ place \in 1..b.size /\ handler[t] = b.array[place]
        /\ handler[t] # NoType /\ CanHandle(handler[t], msg[t])
        /\ \A p \in DOMAIN seen[t] : seen[t][p] = NoType => p = Len(seen[t])
        /\ \A p \in DOMAIN seen[t] : seen[t][p] = NoType \/ seen[t][p] = b.array[p]
        /\ \A i \in DOMAIN sent[t] : sent[t][i][1] < Place(t)
    BY <1>2 DEF Watching, Sending
  <2>2. Status(t)' = "sending" /\ Sent(t)' = Sent(t) /\ Place(t) = place /\ Place(t)' = pos[t]
    BY <1>2, <1>6 DEF Status, Sending, Sent, Place
  <2>3. Todo(t) = Remaining(t) /\ Todo(t)' = Remaining(t)'
    BY <1>2, <1>6 DEF Todo, Sending
  <2>4. \A p \in DOMAIN seen[t] : (p >= pos[t] <=> p >= place /\ p # place)
    <3>1. pos[t] \in Nat /\ \A p \in DOMAIN seen[t] : p \in Nat
      BY SendTypes
    <3>2. \A m \in Nat, p \in Nat : p >= m <=> p >= m - 1 /\ p # m - 1
      OBVIOUS
    <3> QED
      BY <3>1, <3>2
  <2>5. /\ SendNow[t] = Sent(t) /\ SendNow' = SendNow
        /\ TodoNow[t] = Todo(t) /\ TodoNow' = [TodoNow EXCEPT ![t] = Todo(t)']
        /\ StatusNow[t] = "sending" /\ StatusNow' = StatusNow
    <3>1. /\ SendNow[t] = Sent(t) /\ TodoNow[t] = Todo(t) /\ StatusNow[t] = Status(t)
          /\ SendNow' = [SendNow EXCEPT ![t] = Sent(t)']
          /\ TodoNow' = [TodoNow EXCEPT ![t] = Todo(t)']
          /\ StatusNow' = [StatusNow EXCEPT ![t] = Status(t)']
      BY <1>2, SenderSteps
    <3>2. SendNow' = SendNow
      BY <2>2, <3>1 DEF SendNow
    <3>3. StatusNow' = StatusNow
      BY <1>4, <2>2, <3>1 DEF StatusNow
    <3> QED
      BY <1>4, <3>1, <3>2, <3>3
  <2>6. sent' = [sent EXCEPT ![t] = Append(@, first)]
    BY <1>6
  <2> HIDE DEF place, b
  <2> DEFINE rest == {p \in DOMAIN seen[t] :
                        p >= place /\ seen[t][p] # NoType /\ CanHandle(seen[t][p], msg[t])}
  <2>7. Remaining(t) = {<<p, seen[t][p]>> : p \in rest}
    BY <2>2 DEF Remaining
  <2>8. Remaining(t)' = {<<p, seen[t][p]>> : p \in rest \ {place}}
    <3>1. {p \in DOMAIN seen[t] : p >= pos[t] /\ seen[t][p] # NoType /\ CanHandle(seen[t][p], msg[t])}
            = rest \ {place}
      BY <2>4
    <3> HIDE DEF rest
    <3> QED
      BY <1>2, <2>2, <3>1 DEF Remaining
  <2>9. CASE place \in rest
    <3>1. place \in Int /\ \A p \in rest : place <= p
      BY <2>9, SendTypes
    <3>2. handler[t] = seen[t][place]
      BY <2>1, <2>9
    <3> HIDE DEF rest
    <3>3. first \in Todo(t) /\ \A other \in Todo(t) : first[1] <= other[1]
      BY <2>3, <2>7, <2>9, <3>1, <3>2
    <3>4. Todo(t)' = Todo(t) \ {first}
      BY <2>3, <2>7, <2>8, <3>2
    <3> HIDE DEF first
    <3>5. TodoNow' = [TodoNow EXCEPT ![t] = @ \ {first}]
      BY <2>5, <3>4
    <3> QED
      BY <1>3, <2>5, <2>6, <3>3, <3>5 DEF Abstract!Deliver
  <2>10. CASE place \notin rest
    <3>1. rest = {}
      <4> SUFFICES ASSUME NEW p \in rest PROVE FALSE
        OBVIOUS
      <4>1. p \in DOMAIN seen[t] /\ p >= place /\ seen[t][p] # NoType
        OBVIOUS
      <4>2. place \in DOMAIN seen[t] /\ place >= place
        BY <2>1, <4>1, SendTypes
      <4>3. seen[t][place] = NoType
        BY <2>1, <2>10, <4>2
      <4>4. place = Len(seen[t])
        BY <2>1, <4>2, <4>3
      <4>5. p = place
        BY <4>1, <4>2, <4>4, SendTypes
      <4> QED
        BY <4>1, <4>3, <4>5
    <3> HIDE DEF rest
    <3>2. Todo(t) = {} /\ Todo(t)' = {}
      BY <2>3, <2>7, <2>8, <3>1
    <3>3. TodoNow' = TodoNow
      BY <2>5, <3>2 DEF TodoNow
    <3>4. first \in Abstract!Recipients(RegisteredNow[bus[t]], msg[t])
      <4>1. bus[t] \in DOMAIN buses
        BY <1>2, BusOf
      <4>2. /\ Items(bus[t]) = b.array /\ b.array \in Seq(Cells) /\ Len(b.array) = b.size
            /\ b.size \in Nat
        BY <4>1, ItemsOf, ListOf DEF OneByOne, b
      <4>3. DOMAIN b.array = 1..b.size
        BY <4>2, LenProperties
      <4>4. \A p \in DOMAIN b.array : b.array[p] = NoType => p = Len(b.array)
        BY <4>1, <4>2, <4>3 DEF Solid, b
      <4>5. /\ DOMAIN Filled(b.array) = {p \in DOMAIN b.array : b.array[p] # NoType}
            /\ \A p \in DOMAIN Filled(b.array) : Filled(b.array)[p] = b.array[p]
        BY <4>2, <4>4, FilledCells
      <4>6. RegisteredNow[bus[t]] = Filled(b.array)
        BY <4>1, <4>2 DEF RegisteredNow, Registrations
      <4>7. place \in DOMAIN Filled(b.array) /\ Filled(b.array)[place] = handler[t]
        BY <2>1, <4>3, <4>5
      <4>8. msg[t] \in Handles[Filled(b.array)[place]]
        BY <2>1, <4>7 DEF CanHandle
      <4> QED
        BY <4>6, <4>7, <4>8 DEF Abstract!Recipients
    <3>5. Sent(t)[1] = bus[t] /\ Sent(t)[2] = msg[t]
      BY <1>2 DEF Sent, Sending
    <3>6. \A i \in DOMAIN sent[t] : sent[t][i][1] < first[1]
      BY <2>1, <2>2
    <3> HIDE DEF first
    <3> QED
      BY <1>3, <2>5, <2>6, <3>2, <3>3, <3>4, <3>5, <3>6 DEF Abstract!DeliverLate
  <2> QED
    BY <2>9, <2>10
<1> QED
  BY <1>1, <1>5, <1>6 DEF Handle, Goto, Return

LEMMA StepImplements ==
    ASSUME IInv, IInv', NoneLost, Steady, Steady', [Next]_vars
    PROVE  [raced' \/ Abstract!Next]_(Abstract!vars)
<1> SUFFICES ASSUME ~raced' PROVE [Abstract!Next]_(Abstract!vars)
  OBVIOUS
<1>1. ASSUME NEW t \in Threads, Call(t) \/ Step(t) PROVE [Abstract!Next]_(Abstract!vars)
  <2>1. ~raced
    BY <1>1, RacedStays
  <2>2. OneByOne /\ Solid /\ Purpose(t) /\ Purpose(t)' /\ Watching(t)
    BY <2>1 DEF NoneLost, Steady
  <2> DEFINE Kept == UNCHANGED Abstract!vars
  <2>3. CASE Call(t)
    <3>1. Abstract!Leave(t) \/ Kept
      BY <2>2, <2>3, CallLeaves
    <3> QED
      BY <3>1 DEF Abstract!Next
  <2>4. CASE \/ Check(t) \/ Lock(t) \/ Recheck(t) \/ InitLoop(t) \/ Unlock(t) \/ Fetch(t)
             \/ Loop(t) \/ Add(t) \/ ReadVersion(t) \/ SetMessageHandlerFactory(t)
    <3>1. Kept
      BY <2>2, <2>4, QuietSteps
    <3> QED
      BY <3>1
  <2>5. CASE Grow(t) \/ Move(t)
    <3>1. Kept
      BY <2>2, <2>5, GrowStutters, MoveStutters
    <3> QED
      BY <3>1
  <2>6. CASE Create(t) \/ SetInstance(t)
    <3>1. Abstract!NewBus
      BY <2>2, <2>6, NewBusIsNew
    <3> QED
      BY <3>1 DEF Abstract!Next
  <2>7. CASE Store(t)
    <3>1. Abstract!Register
      BY <2>2, <2>7, StoreRegisters
    <3> QED
      BY <3>1 DEF Abstract!Next
  <2>8. CASE Bump(t)
    <3>1. Abstract!RegistrationReturns
      BY <2>2, <2>8, BumpReturns
    <3> QED
      BY <3>1 DEF Abstract!Next
  <2>9. CASE Enum(t)
    <3>1. Abstract!Begin(t)
      BY <2>2, <2>9, EnumBegins
    <3> QED
      BY <3>1 DEF Abstract!Next
  <2>10. CASE Current(t)
    <3>1. Abstract!Fail(t) \/ Kept
      BY <2>2, <2>10, CurrentFailsOrStutters
    <3> QED
      BY <3>1 DEF Abstract!Next
  <2>11. CASE Rare(t)
    <3>1. Abstract!Succeed(t) \/ Abstract!Fail(t)
      BY <2>2, <2>11, RareEnds
    <3> QED
      BY <3>1 DEF Abstract!Next
  <2>12. CASE Handle(t)
    <3>1. Abstract!Deliver(t) \/ Abstract!DeliverLate(t) \/ Abstract!Fail(t)
      BY <2>2, <2>12, HandleDelivers
    <3> QED
      BY <3>1 DEF Abstract!Next
  <2> QED
    BY <1>1, <2>3, <2>4, <2>5, <2>6, <2>7, <2>8, <2>9, <2>10, <2>11, <2>12 DEF Step
<1>2. CASE UNCHANGED vars
  <2>1. UNCHANGED <<buses, pc, bus, op, msg, result, expected, pos, seen, sent>>
    BY <1>2 DEF vars, shared, callVars, sendVars
  <2>2. UNCHANGED <<RegisteredNow, ReturnedNow>>
    BY <2>1 DEF RegisteredNow, ReturnedNow, Registrations, Items
  <2>3. UNCHANGED <<SendNow, TodoNow, StatusNow>>
    BY <2>1 DEF SendNow, Sent, TodoNow, Todo, Remaining, Place, StatusNow, Status, Sending
  <2> QED
    BY <2>1, <2>2, <2>3 DEF Abstract!vars
<1> QED
  BY <1>1, <1>2 DEF Next, Finished

LEMMA InitSteady == Init => NoneLost /\ Steady /\ Abstract!Init
<1> SUFFICES ASSUME Init PROVE NoneLost /\ Steady /\ Abstract!Init
  OBVIOUS
<1>1. NoneLost
  BY ThreadAssumption DEF Init, NoneLost, OneByOne, Appending, Passed, HandlersRegistered,
     Initialised
<1>2. Steady
  BY DEF Init, Steady, Purpose, Solid, Watching, Sending
<1>3. Abstract!Init
  <2>1. RegisteredNow = <<>> /\ ReturnedNow = <<>>
    BY DEF Init, RegisteredNow, ReturnedNow
  <2>2. /\ SendNow = [t \in Threads |-> <<>>] /\ TodoNow = [t \in Threads |-> {}]
        /\ StatusNow = [t \in Threads |-> "out"]
    BY DEF Init, SendNow, Sent, TodoNow, Todo, StatusNow, Status, Sending
  <2> QED
    BY <2>1, <2>2 DEF Init, Abstract!Init, Abstract!NoSend
<1> QED
  BY <1>1, <1>2, <1>3

\* Whichever operations run at once, until two Adds overlap every step of the
\* bus is a step EventBus allows: handlers are registered one by one and kept; a
\* Send calls the recipients it began with once each and in order, and none
\* registered later before them; it succeeds only when none of them is left and
\* no registration has returned meanwhile (ApplicationBus.cs:8-46, Bus.cs:24-57).
THEOREM SendKeepsThePromise == Spec => ImplementsEventBus
<1>1. Init => NoneLost /\ Steady /\ Abstract!Init
  BY InitSteady
<1>2. IInv /\ IInv' /\ NoneLost /\ [Next]_vars => NoneLost'
  BY NoneLostKeeps
<1>3. IInv /\ IInv' /\ NoneLost /\ Steady /\ [Next]_vars => Steady'
  BY SteadyKeeps
<1>4. IInv /\ IInv' /\ NoneLost /\ Steady /\ Steady' /\ [Next]_vars
        => [raced' \/ Abstract!Next]_(Abstract!vars)
  BY StepImplements
<1> QED
  BY <1>1, <1>2, <1>3, <1>4, Invariant, PTL DEF Spec, ImplementsEventBus

=============================================================================
