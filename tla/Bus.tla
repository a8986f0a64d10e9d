--------------------------------- MODULE Bus ---------------------------------
(***************************************************************************)
(* The application bus of the portable areas: the static class Bus         *)
(* (src/MVCContrib/Bus.cs), which creates the default bus on first use     *)
(* under a double-checked lock, and ApplicationBus                         *)
(* (src/MVCContrib/PortableAreas/ApplicationBus.cs), a List of handler     *)
(* types whose Send walks the list lazily.  Threads call it concurrently.  *)
(*                                                                         *)
(* A step is one access to the state the threads share.  List<T> is not    *)
(* synchronised: Add reads the size, stores the new size, stores the item, *)
(* then reads the version and stores its successor; an enumerator compares *)
(* the version and, in another access, reads the size and the item.        *)
(***************************************************************************)
EXTENDS Naturals, Sequences

CONSTANTS
    Threads,        \* threads of the application domain
    NoThread,       \* owner of a free lock
    Types,          \* types of the loaded assemblies
    NoType,         \* the null Type: a type that failed to load, or an empty cell
    LoadedTypes,    \* what GetTypes yields over all assemblies, in order
    Interfaces, Abstracts, NestedPrivates,  \* kinds of types IsValidType excludes
    Implementors,   \* types for which GetInterface("IMessageHandler") # null
    NoDefaultCtor,  \* types Activator.CreateInstance cannot construct
    Messages,       \* message types
    Handles,        \* Handles[h]: the message types h.CanHandle accepts
    Ops,            \* operations the threads may call
    MaxCalls        \* bound: calls per thread

AllOps == {"send", "add", "addall", "get", "set", "setfactory"}

ASSUME ThreadAssumption == NoThread \notin Threads
ASSUME TypeAssumption ==
    /\ NoType \notin Types
    /\ LoadedTypes \in Seq(Types \cup {NoType})
    /\ Types # {} /\ Messages # {}
    /\ Implementors \subseteq Types
    /\ Handles \in [Types -> SUBSET Messages]
ASSUME BoundAssumption == MaxCalls \in Nat /\ Ops \subseteq AllOps

VARIABLES
    instance,   \* Bus._instance, an index of buses, or NoBus
    busLock,    \* owner of Bus._busLock
    buses,      \* every ApplicationBus constructed so far
    pc,         \* where each thread is
    calls,      \* how many calls each thread has made
    op, msg, type, result, \* its call, the arguments and how it ended
    k, j,       \* positions in FindAllMessageHandlers: of the call's own
                \* AddAllMessageHandlers, and of the initialiser's
    bus,        \* what Bus.Instance returned to it
    slot,       \* what List.Add read: the size, later the version
    overlap,    \* another Add of that list ran before the item was stored
    expected, pos, handler, \* Send's enumerator and its current handler
    seen, sent, \* history: the list when Send began, the handlers called,
                \* each with its place in the list
    raced       \* history: two Adds have overlapped on one bus

shared == <<instance, busLock, buses>>
callVars == <<calls, op, msg, type>>
addVars == <<k, j, slot, overlap, raced>>
sendVars == <<expected, pos, handler, seen, sent>>
vars == <<shared, pc, callVars, result, bus, addVars, sendVars>>

-----------------------------------------------------------------------------
(* Data *)

NoBus == 0

Factories == {"activator", "container"}

\* What a list may hold: handler types, and cells whose item is not stored yet.
Cells == Implementors \cup {NoType}

BusRecords == [array: Seq(Cells), size: Nat, version: Nat,
               factory: Factories, default: BOOLEAN]

\* new ApplicationBus(factory): an empty list
NewBus(default) == [array |-> <<>>, size |-> 0, version |-> 0,
                    factory |-> "activator", default |-> default]

\* Bus.IsValidType: the types FindAllMessageHandlers keeps.
IsValidType(c) ==
    /\ c # NoType
    /\ c \notin Interfaces \cup Abstracts \cup NestedPrivates
    /\ c \in Implementors

\* IMessageHandlerFactory.Create(c) returns instead of throwing.  The default
\* factory needs a default constructor, a container does not.
Creatable(factory, c) ==
    /\ c # NoType
    /\ c \notin Interfaces \cup Abstracts
    /\ factory = "activator" => c \notin NoDefaultCtor

\* MessageHandler.CanHandle, of a handler of type c.
CanHandle(c, m) == m \in Handles[c]

\* The registrations a reader of the list sees.
Items(b) == SubSeq(buses[b].array, 1, buses[b].size)

PCs == {"idle", "check", "lock", "recheck", "create", "initloop", "unlock",
        "fetch", "loop", "add", "grow", "store", "version", "bump",
        "enum", "move", "current", "rare", "handle", "set", "setfactory"}

Results == {"none", "ok", "failed"}

TypeOK ==
    /\ instance \in Nat
    /\ busLock \in Threads \cup {NoThread}
    /\ buses \in Seq(BusRecords)
    /\ pc \in [Threads -> PCs]
    /\ calls \in [Threads -> 0..MaxCalls]
    /\ op \in [Threads -> AllOps]
    /\ msg \in [Threads -> Messages]
    /\ type \in [Threads -> Types]
    /\ result \in [Threads -> Results]
    /\ k \in [Threads -> Nat] /\ j \in [Threads -> Nat]
    /\ bus \in [Threads -> Nat]
    /\ slot \in [Threads -> Nat]
    /\ overlap \in [Threads -> BOOLEAN]
    /\ expected \in [Threads -> Nat] /\ pos \in [Threads -> Nat]
    /\ handler \in [Threads -> Cells]
    /\ seen \in [Threads -> Seq(Cells)] /\ sent \in [Threads -> Seq(Nat \X Cells)]
    /\ raced \in BOOLEAN

Init ==
    /\ instance = NoBus
    /\ busLock = NoThread
    /\ buses = <<>>
    /\ pc = [t \in Threads |-> "idle"]
    /\ calls = [t \in Threads |-> 0]
    /\ op = [t \in Threads |-> "get"]
    /\ msg = [t \in Threads |-> CHOOSE m \in Messages : TRUE]
    /\ type = [t \in Threads |-> CHOOSE c \in Types : TRUE]
    /\ result = [t \in Threads |-> "none"]
    /\ k = [t \in Threads |-> 1] /\ j = [t \in Threads |-> 1]
    /\ bus = [t \in Threads |-> NoBus]
    /\ slot = [t \in Threads |-> 0]
    /\ overlap = [t \in Threads |-> FALSE]
    /\ expected = [t \in Threads |-> 0] /\ pos = [t \in Threads |-> 1]
    /\ handler = [t \in Threads |-> NoType]
    /\ seen = [t \in Threads |-> <<>>] /\ sent = [t \in Threads |-> <<>>]
    /\ raced = FALSE

-----------------------------------------------------------------------------
(* Steps *)

Goto(t, to) == pc' = [pc EXCEPT ![t] = to]

Return(t, how) ==
    /\ Goto(t, "idle")
    /\ result' = [result EXCEPT ![t] = how]

\* Where a call starts: AddAllMessageHandlers enumerates before it asks for
\* the instance, the setter never asks for it.
Entry(o) == IF o = "addall" THEN "loop" ELSE IF o = "set" THEN "set" ELSE "check"

\* A thread calls Bus.Send(m), Bus.AddMessageHandler(c),
\* Bus.AddAllMessageHandlers(), Bus.Instance, Bus.Instance = new bus, or
\* Bus.Instance.SetMessageHandlerFactory.
Call(t) ==
    /\ pc[t] = "idle"
    /\ calls[t] < MaxCalls
    /\ calls' = [calls EXCEPT ![t] = @ + 1]
    /\ \E o \in Ops :
          /\ op' = [op EXCEPT ![t] = o]
          /\ Goto(t, Entry(o))
          /\ IF o = "send" THEN \E m \in Messages : msg' = [msg EXCEPT ![t] = m]
             ELSE UNCHANGED msg
          /\ IF o = "add" THEN \E c \in Types : type' = [type EXCEPT ![t] = c]
             ELSE UNCHANGED type
    /\ result' = [result EXCEPT ![t] = "none"]
    /\ k' = [k EXCEPT ![t] = 1]
    /\ seen' = [seen EXCEPT ![t] = <<>>]
    /\ sent' = [sent EXCEPT ![t] = <<>>]
    /\ UNCHANGED <<shared, bus, j, slot, overlap, raced, expected, pos, handler>>

\* InitializeTheDefaultBus: the unlocked check of _instance.
Check(t) ==
    /\ pc[t] = "check"
    /\ Goto(t, IF instance = NoBus THEN "lock" ELSE "fetch")
    /\ UNCHANGED <<shared, callVars, result, bus, addVars, sendVars>>

Lock(t) ==
    /\ pc[t] = "lock"
    /\ busLock = NoThread
    /\ busLock' = t
    /\ Goto(t, "recheck")
    /\ UNCHANGED <<instance, buses, callVars, result, bus, addVars, sendVars>>

\* Variant of Recheck that trusts the check made before the lock.
RecheckOmitted(t) ==
    /\ pc[t] = "recheck"
    /\ Goto(t, "create")
    /\ UNCHANGED <<shared, callVars, result, bus, addVars, sendVars>>

\* The check under the lock.
Recheck(t) ==
    /\ pc[t] = "recheck"
    /\ Goto(t, IF instance = NoBus THEN "create" ELSE "unlock")
    /\ UNCHANGED <<shared, callVars, result, bus, addVars, sendVars>>

\* _instance = new ApplicationBus(...): visible to every thread from here on,
\* although AddAllMessageHandlers has not begun.
Create(t) ==
    /\ pc[t] = "create"
    /\ buses' = Append(buses, NewBus(TRUE))
    /\ instance' = Len(buses) + 1
    /\ j' = [j EXCEPT ![t] = 1]
    /\ Goto(t, "initloop")
    /\ UNCHANGED <<busLock, callVars, result, bus, k, slot, overlap, raced, sendVars>>

\* Variant of InitLoop that stops before the last type.
InitLoopShort(t) ==
    /\ pc[t] = "initloop"
    /\ IF j[t] >= Len(LoadedTypes)
       THEN Goto(t, "unlock") /\ UNCHANGED j
       ELSE /\ j' = [j EXCEPT ![t] = @ + 1]
            /\ Goto(t, IF IsValidType(LoadedTypes[j[t]]) THEN "check" ELSE "initloop")
    /\ UNCHANGED <<shared, callVars, result, bus, k, slot, overlap, raced, sendVars>>

\* Variant of InitLoop that does not step over a type it rejects.
InitLoopStuck(t) ==
    /\ pc[t] = "initloop"
    /\ IF j[t] > Len(LoadedTypes)
       THEN Goto(t, "unlock") /\ UNCHANGED j
       ELSE IF IsValidType(LoadedTypes[j[t]])
       THEN Goto(t, "check") /\ j' = [j EXCEPT ![t] = @ + 1]
       ELSE UNCHANGED <<pc, j>>
    /\ UNCHANGED <<shared, callVars, result, bus, k, slot, overlap, raced, sendVars>>

\* The next type of FindAllMessageHandlers, for the initialiser.
InitLoop(t) ==
    /\ pc[t] = "initloop"
    /\ IF j[t] > Len(LoadedTypes)
       THEN Goto(t, "unlock") /\ UNCHANGED j
       ELSE /\ j' = [j EXCEPT ![t] = @ + 1]
            /\ Goto(t, IF IsValidType(LoadedTypes[j[t]]) THEN "check" ELSE "initloop")
    /\ UNCHANGED <<shared, callVars, result, bus, k, slot, overlap, raced, sendVars>>

Unlock(t) ==
    /\ pc[t] = "unlock"
    /\ busLock' = NoThread
    /\ Goto(t, "fetch")
    /\ UNCHANGED <<instance, buses, callVars, result, bus, addVars, sendVars>>

\* return _instance, and what its caller does with it: the initialiser's own
\* loop adds a handler, the others continue their call.
Fetch(t) ==
    /\ pc[t] = "fetch"
    /\ bus' = [bus EXCEPT ![t] = instance]
    /\ IF busLock = t \/ op[t] \in {"add", "addall"} THEN Goto(t, "add") /\ UNCHANGED result
       ELSE IF op[t] = "send" THEN Goto(t, "enum") /\ UNCHANGED result
       ELSE IF op[t] = "setfactory" THEN Goto(t, "setfactory") /\ UNCHANGED result
       ELSE Return(t, "ok")
    /\ UNCHANGED <<shared, callVars, addVars, sendVars>>

\* The next type of FindAllMessageHandlers, for a caller of
\* AddAllMessageHandlers.
Loop(t) ==
    /\ pc[t] = "loop"
    /\ IF k[t] > Len(LoadedTypes)
       THEN Return(t, "ok") /\ UNCHANGED k
       ELSE /\ k' = [k EXCEPT ![t] = @ + 1]
            /\ Goto(t, IF IsValidType(LoadedTypes[k[t]]) THEN "check" ELSE "loop")
            /\ UNCHANGED result
    /\ UNCHANGED <<shared, callVars, bus, j, slot, overlap, raced, sendVars>>

\* The type the thread is adding.
Argument(t) == IF busLock = t THEN LoadedTypes[j[t] - 1]
               ELSE IF op[t] = "addall" THEN LoadedTypes[k[t] - 1]
               ELSE type[t]

Appending(t) == pc[t] \in {"grow", "store", "version", "bump"}

\* The other threads inside List.Add of the same list.
Overlapping(t) == {u \in Threads \ {t} : Appending(u) /\ bus[u] = bus[t]}

\* Those of them that have yet to store their item.
Storing(t) == {u \in Overlapping(t) : pc[u] \in {"grow", "store"}}

\* Variant of Add that accepts any type.
AddUnchecked(t) ==
    /\ pc[t] = "add"
    /\ slot' = [slot EXCEPT ![t] = buses[bus[t]].size]
    /\ overlap' = [u \in Threads |->
                      IF u = t THEN Storing(t) # {} ELSE overlap[u] \/ u \in Storing(t)]
    /\ raced' = (raced \/ Overlapping(t) # {})
    /\ Goto(t, "grow")
    /\ UNCHANGED <<shared, callVars, result, bus, k, j, sendVars>>

\* ApplicationBus.Add up to List.Add reading its size.
Add(t) ==
    /\ pc[t] = "add"
    /\ IF Argument(t) \in Implementors
       THEN /\ slot' = [slot EXCEPT ![t] = buses[bus[t]].size]
            /\ overlap' = [u \in Threads |->
                              IF u = t THEN Storing(t) # {}
                              ELSE overlap[u] \/ u \in Storing(t)]
            /\ raced' = (raced \/ Overlapping(t) # {})
            /\ Goto(t, "grow")
            /\ UNCHANGED result
       ELSE Return(t, "failed") /\ UNCHANGED <<slot, overlap, raced>>
    /\ UNCHANGED <<shared, callVars, bus, k, j, sendVars>>

\* List.Add stores the new size: the cell is visible and still empty.
Grow(t) ==
    /\ pc[t] = "grow"
    /\ LET b == buses[bus[t]]
       IN  buses' = [buses EXCEPT ![bus[t]] =
                       [b EXCEPT !.size = slot[t] + 1,
                                 !.array = IF Len(b.array) > slot[t] THEN b.array
                                           ELSE Append(b.array, NoType)]]
    /\ Goto(t, "store")
    /\ UNCHANGED <<instance, busLock, callVars, result, bus, addVars, sendVars>>

\* List.Add stores the item; the version is still the old one.  An overlapping
\* Add may have replaced the backing array meanwhile: then the store is lost.
Store(t) ==
    /\ pc[t] = "store"
    /\ LET b == buses[bus[t]]
           stored == [b.array EXCEPT ![slot[t] + 1] = Argument(t)]
       IN  \E array \in {stored} \cup (IF overlap[t] THEN {b.array} ELSE {}) :
              buses' = [buses EXCEPT ![bus[t]] = [b EXCEPT !.array = array]]
    /\ overlap' = [overlap EXCEPT ![t] = FALSE]
    /\ Goto(t, "version")
    /\ UNCHANGED <<instance, busLock, callVars, result, bus, k, j, slot, raced, sendVars>>

\* List.Add reads the version it is to increment.
ReadVersion(t) ==
    /\ pc[t] = "version"
    /\ slot' = [slot EXCEPT ![t] = buses[bus[t]].version]
    /\ Goto(t, "bump")
    /\ UNCHANGED <<shared, callVars, result, bus, k, j, overlap, raced, sendVars>>

\* List.Add stores the new version and returns to its caller; what it read is
\* forgotten.
Bump(t) ==
    /\ pc[t] = "bump"
    /\ buses' = [buses EXCEPT ![bus[t]] = [@ EXCEPT !.version = slot[t] + 1]]
    /\ IF busLock = t THEN Goto(t, "initloop") /\ UNCHANGED result
       ELSE IF op[t] = "addall" THEN Goto(t, "loop") /\ UNCHANGED result
       ELSE Return(t, "ok")
    /\ slot' = [slot EXCEPT ![t] = 0]
    /\ UNCHANGED <<instance, busLock, callVars, bus, k, j, overlap, raced, sendVars>>

\* Send: foreach asks GetHandlersForType for its enumerator.
Enum(t) ==
    /\ pc[t] = "enum"
    /\ expected' = [expected EXCEPT ![t] = buses[bus[t]].version]
    /\ pos' = [pos EXCEPT ![t] = 1]
    /\ seen' = [seen EXCEPT ![t] = Items(bus[t])]
    /\ Goto(t, "move")
    /\ UNCHANGED <<shared, callVars, result, bus, addVars, handler, sent>>

\* MoveNext of the list's enumerator compares the versions.
Move(t) ==
    /\ pc[t] = "move"
    /\ Goto(t, IF expected[t] = buses[bus[t]].version THEN "current" ELSE "rare")
    /\ UNCHANGED <<shared, callVars, result, bus, addVars, sendVars>>

\* Variant of Current that passes over the types it cannot create.
CurrentSkips(t) ==
    /\ pc[t] = "current"
    /\ LET b == buses[bus[t]]
           c == b.array[pos[t]]
       IN  IF pos[t] > b.size
           THEN Goto(t, "rare") /\ UNCHANGED <<pos, handler>>
           ELSE /\ pos' = [pos EXCEPT ![t] = @ + 1]
                /\ handler' = [handler EXCEPT ![t] = c]
                /\ Goto(t, IF Creatable(b.factory, c) /\ CanHandle(c, msg[t])
                           THEN "handle" ELSE "move")
    /\ UNCHANGED <<shared, callVars, result, bus, addVars, expected, seen, sent>>

\* MoveNext finds another type within the size: GetHandlersForType creates the
\* handler, or fails, and asks it whether it handles the message.
Current(t) ==
    /\ pc[t] = "current"
    /\ LET b == buses[bus[t]]
           c == b.array[pos[t]]
       IN  \/ /\ pos[t] > b.size
              /\ Goto(t, "rare") /\ UNCHANGED <<result, pos, handler>>
           \/ /\ pos[t] <= b.size /\ ~Creatable(b.factory, c)
              /\ Return(t, "failed") /\ UNCHANGED <<pos, handler>>
           \/ /\ pos[t] <= b.size /\ Creatable(b.factory, c)
              /\ pos' = [pos EXCEPT ![t] = @ + 1]
              /\ handler' = [handler EXCEPT ![t] = c]
              /\ Goto(t, IF CanHandle(c, msg[t]) THEN "handle" ELSE "move")
              /\ UNCHANGED result
    /\ UNCHANGED <<shared, callVars, bus, addVars, expected, seen, sent>>

\* MoveNextRare compares the versions again: the list has changed, or it ends.
Rare(t) ==
    /\ pc[t] = "rare"
    /\ Return(t, IF expected[t] = buses[bus[t]].version THEN "ok" ELSE "failed")
    /\ UNCHANGED <<shared, callVars, bus, addVars, sendVars>>

\* handler.Handle(message): it returns, or throws and aborts the Send.
Handle(t) ==
    /\ pc[t] = "handle"
    /\ \/ /\ sent' = [sent EXCEPT ![t] = Append(@, <<pos[t] - 1, handler[t]>>)]
          /\ Goto(t, "move") /\ UNCHANGED result
       \/ Return(t, "failed") /\ UNCHANGED sent
    /\ UNCHANGED <<shared, callVars, bus, addVars, expected, pos, handler, seen>>

\* The setter of Bus.Instance, given a bus the host has just constructed.
\* It takes no lock.
SetInstance(t) ==
    /\ pc[t] = "set"
    /\ buses' = Append(buses, NewBus(FALSE))
    /\ instance' = Len(buses) + 1
    /\ Return(t, "ok")
    /\ UNCHANGED <<busLock, callVars, bus, addVars, sendVars>>

SetMessageHandlerFactory(t) ==
    /\ pc[t] = "setfactory"
    /\ buses' = [buses EXCEPT ![bus[t]].factory = "container"]
    /\ Return(t, "ok")
    /\ UNCHANGED <<instance, busLock, callVars, bus, addVars, sendVars>>

\* A call in progress takes its next step.
Step(t) ==
    \/ Check(t) \/ Lock(t) \/ Recheck(t) \/ Create(t) \/ InitLoop(t)
    \/ Unlock(t) \/ Fetch(t) \/ Loop(t) \/ Add(t) \/ Grow(t) \/ Store(t)
    \/ ReadVersion(t) \/ Bump(t)
    \/ Enum(t) \/ Move(t) \/ Current(t) \/ Rare(t) \/ Handle(t)
    \/ SetInstance(t) \/ SetMessageHandlerFactory(t)

\* Every thread has used its calls.
Finished ==
    /\ \A t \in Threads : pc[t] = "idle" /\ calls[t] = MaxCalls
    /\ UNCHANGED vars

Next == (\E t \in Threads : Call(t) \/ Step(t)) \/ Finished

Spec == Init /\ [][Next]_vars

\* The scheduler runs every thread that can run; nobody is forced to call.
FairSpec == Spec /\ \A t \in Threads : WF_vars(Step(t))

-----------------------------------------------------------------------------
(* Properties *)

\* A default bus exists and the initialiser has left its loop.
Initialised ==
    /\ \E b \in DOMAIN buses : buses[b].default
    /\ \A t \in Threads : busLock = t => pc[t] \in {"recheck", "unlock"}

\* The application has at most one default bus, whatever the interleaving of
\* the threads that find _instance null (Bus.cs:28-38).  With two, handlers
\* registered on one would never see the messages sent on the other.
OneDefaultBus ==
    \A b, c \in DOMAIN buses : buses[b].default /\ buses[c].default => b = c

\* No thread reads null from Bus.Instance once InitializeTheDefaultBus has
\* returned to the getter (Bus.cs:17-18).
InstanceReady == \A t \in Threads : pc[t] = "fetch" => instance # NoBus

\* When the initialiser is done, every type that IsValidType accepts is
\* registered on some bus: none is skipped or lost, unless Adds overlapped
\* (Bus.cs:51-57).
HandlersRegistered ==
    Initialised /\ ~raced =>
        \A i \in DOMAIN LoadedTypes :
            IsValidType(LoadedTypes[i]) =>
                \E b \in DOMAIN buses : \E p \in 1..buses[b].size :
                    buses[b].array[p] = LoadedTypes[i]

\* What ApplicationBusTester.cs:115-118 says of Bus.Instance: read while
\* _instance is null, it returns a bus that holds every message handler.
InstanceIsFull ==
    \A t \in Threads :
        pc[t] = "idle" /\ op[t] = "get" /\ result[t] = "ok" =>
            \A i \in DOMAIN LoadedTypes :
                IsValidType(LoadedTypes[i]) =>
                    \E p \in 1..buses[bus[t]].size :
                        buses[bus[t]].array[p] = LoadedTypes[i]

\* Every call returns or throws: no thread waits for ever for _busLock, and
\* no enumeration goes on for ever because the list grows under it.
EveryCallReturns ==
    \A t \in Threads : pc[t] # "idle" ~> pc[t] = "idle"

\* The bus seen as an EventBus: a type is registered from the store of its
\* item, until then the last cell is empty, and its registration has returned
\* from the store of the version; a Send counts from its enumerator.
Filled(list) ==
    IF list # <<>> /\ list[Len(list)] = NoType THEN SubSeq(list, 1, Len(list) - 1) ELSE list

Registrations(b) == Filled(Items(b))

Sending(t) == pc[t] \in {"move", "current", "rare", "handle"}

\* The place Send has come to, the handler under way included.
Place(t) == IF pc[t] = "handle" THEN pos[t] - 1 ELSE pos[t]

Remaining(t) ==
    LET accepts(c) == c # NoType /\ CanHandle(c, msg[t])
    IN  {<<p, seen[t][p]>> : p \in {p \in DOMAIN seen[t] : p >= Place(t) /\ accepts(seen[t][p])}}

Todo(t) == IF Sending(t) THEN Remaining(t) ELSE {}

Sent(t) == IF Sending(t) THEN <<bus[t], msg[t], expected[t]>> ELSE <<>>

Status(t) ==
    IF Sending(t) THEN "sending"
    ELSE IF pc[t] = "idle" /\ op[t] = "send" /\ result[t] # "none" THEN result[t] ELSE "out"

RegisteredNow == [b \in DOMAIN buses |-> Registrations(b)]
ReturnedNow == [b \in DOMAIN buses |-> buses[b].version]
SendNow == [t \in Threads |-> Sent(t)]
TodoNow == [t \in Threads |-> Todo(t)]
StatusNow == [t \in Threads |-> Status(t)]

Abstract == INSTANCE EventBus WITH
    Senders <- Threads, registered <- RegisteredNow, returned <- ReturnedNow,
    send <- SendNow, todo <- TodoNow, called <- sent, status <- StatusNow

\* Until Adds have overlapped, every step of the bus is a step the promise
\* allows, whichever operations run at once: a Send calls every handler that
\* was registered when it began and accepts the message, once and in order, or
\* fails; it may call later ones after them, and it does not succeed when a
\* registration has returned meanwhile (ApplicationBus.cs:8-46, Bus.cs:24-57).
ImplementsEventBus ==
    Abstract!Init /\ [][raced' \/ Abstract!Next]_(Abstract!vars)
=============================================================================
