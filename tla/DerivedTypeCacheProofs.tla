------------------------ MODULE DerivedTypeCacheProofs ------------------------
(***************************************************************************)
(* Proofs about DerivedTypeCache, for all threads, types, registrations,   *)
(* salts and numbers of calls: types, that stamps bind to the type they    *)
(* were made for, and that the binders installed are those in the cache.   *)
(***************************************************************************)
EXTENDS DerivedTypeCache, TLAPS

\* The two dictionaries are about the type that is in the stamp.
Stamped ==
    /\ \A s \in Stamps : hashToType[s] # None => hashToType[s] = s[1]
    /\ \A ty \in Types : typeToHash[ty] # None => typeToHash[ty][1] = ty
    /\ \A t \in Threads :
        /\ pc[t] \in {"hashToType", "typeToHash"} =>
            /\ rest[t] # <<>> /\ stamp[t] # None
            /\ stamp[t][1] = Head(rest[t])
        /\ pc[t] = "detect" => stamp[t] # None
        /\ posted[t] # None => pc[t] \in {"idle", "detect"}

\* A Reset and a registration do not run at the same time.
Apart == \A t, u \in Threads : ~(pc[t] \in Resetting /\ pc[u] \in Registering)

\* What has been handed out binds; during a Reset nothing has.
Binding ==
    /\ StampsResolve
    /\ \A t \in Threads : pc[t] = "typeToHash" => hashToType[stamp[t]] # None
    /\ ~torn => \A b \in ready : binders[b] = "derived"
    /\ \A page \in pages : page.live => hashToType[page.stamp] = page.type
    /\ \A t \in Threads : ~torn /\ posted[t] # None /\ bindable[t] =>
        IF pc[t] = "detect" THEN hashToType[stamp[t]] = posted[t].type
                            ELSE reply[t] = posted[t].type
    /\ \A t \in Threads : pc[t] \in Resetting =>
        /\ ready = {}
        /\ \A page \in pages : ~page.live
        /\ \A u \in Threads : ~bindable[u]

\* A base stays in the cache while its binder is installed or about to be; a
\* Reset gets to every derived binder before it clears the cache.
Cached ==
    /\ \A b \in Bases : binders[b] = "derived" => b \in typeCache
    /\ \A t \in Threads :
        /\ pc[t] \in {"item", "hashToType", "typeToHash", "binder"} => base[t] \in typeCache
        /\ pc[t] = "remove" => \A b \in Bases : binders[b] = "derived" => b \in todo[t]
        /\ pc[t] \in {"clearHashes", "clearTypes", "clearCache"} =>
            \A b \in Bases : binders[b] # "derived"

\* Whoever is in an Add that another overlapped has been recorded.
Overlapped(t) ==
    overlap[t] => (pc[t] = "insert" /\ raced) \/ (pc[t] = "binder" /\ torn)

IInv ==
    /\ TypeOK /\ Stamped
    /\ ~mixed => Apart /\ Binding
    /\ \A t \in Threads : Overlapped(t)
    /\ ~mixed /\ ~raced => Cached

-----------------------------------------------------------------------------

LEMMA ConstantFacts ==
    /\ Derived \in [Bases -> Seq(Types)] /\ OwnBinders \subseteq Bases
    /\ None \notin Types /\ None \notin Bases /\ None \notin Stamps /\ None \notin Answers
    /\ OriginalSalt \in Salts /\ MaxCalls \in Nat
BY TypeAssumption, SaltAssumption, BoundAssumption

\* The next derived type of a registration.
LEMMA NextType ==
    ASSUME TypeOK, NEW t \in Threads, rest[t] # <<>>
    PROVE  Head(rest[t]) \in Types /\ Tail(rest[t]) \in Seq(Types)
<1>1. rest[t] \in Seq(Types)
  BY DEF TypeOK
<1> QED
  BY <1>1

-----------------------------------------------------------------------------
(* Types *)

LEMMA InitType == Init => TypeOK
<1> SUFFICES ASSUME Init PROVE TypeOK
  OBVIOUS
<1>1. /\ typeCache \subseteq Bases /\ salt \in Salts /\ calls \in 0..MaxCalls
      /\ pages \subseteq Pages /\ ready \subseteq Bases /\ raced \in BOOLEAN /\ torn \in BOOLEAN /\ mixed \in BOOLEAN
  <2>1. calls = 0 /\ calls \in 0..MaxCalls
    BY ConstantFacts DEF Init
  <2> QED
    BY <2>1, ConstantFacts DEF Init
<1>2. hashToType \in [Stamps -> Types \cup {None}] /\ typeToHash \in [Types -> Stamps \cup {None}]
  BY DEF Init
<1>3. binders \in [Bases -> {"none", "derived", "app"}]
  BY DEF Init
<1>4. pc \in [Threads -> PCs] /\ reply \in [Threads -> Answers \cup Types \cup Bases]
  BY DEF Init, PCs, Answers
<1>5. base \in [Threads -> Bases] /\ rest \in [Threads -> Seq(Types)]
  <2>1. (CHOOSE b \in Bases : TRUE) \in Bases
    BY TypeAssumption
  <2>2. <<>> \in Seq(Types)
    OBVIOUS
  <2> QED
    BY <2>1, <2>2 DEF Init
<1>6. stamp \in [Threads -> Stamps \cup {None}] /\ overlap \in [Threads -> BOOLEAN]
      /\ todo \in [Threads -> SUBSET Bases] /\ stale \in [Threads -> BOOLEAN]
      /\ posted \in [Threads -> Pages \cup {None}] /\ bindable \in [Threads -> BOOLEAN]
  BY DEF Init
<1> QED
  BY <1>1, <1>2, <1>3, <1>4, <1>5, <1>6 DEF TypeOK

\* Where a step goes, and what it answers, are such places and answers.
LEMMA GotoType ==
    ASSUME TypeOK, NEW t \in Threads, NEW to \in PCs, Goto(t, to)
    PROVE  /\ pc' \in [Threads -> PCs] /\ pc'[t] = to
           /\ \A u \in Threads : u # t => pc'[u] = pc[u]
BY DEF TypeOK, Goto

LEMMA ReturnType ==
    ASSUME TypeOK, NEW t \in Threads, NEW answer \in Answers \cup Types \cup Bases,
           Return(t, answer)
    PROVE  /\ pc' \in [Threads -> PCs] /\ pc'[t] = "idle"
           /\ reply' \in [Threads -> Answers \cup Types \cup Bases] /\ reply'[t] = answer
           /\ \A u \in Threads : u # t => pc'[u] = pc[u] /\ reply'[u] = reply[u]
BY DEF TypeOK, Return, Goto, PCs

LEMMA EnterType ==
    ASSUME TypeOK, NEW t \in Threads, Enter(t)
    PROVE  calls' \in 0..MaxCalls /\ pc[t] = "idle"
BY ConstantFacts DEF TypeOK, Enter

LEMMA CallType == ASSUME TypeOK, NEW t \in Threads, Call(t) PROVE TypeOK'
<1> USE DEF tables, registration, resetVars
<1>1. CASE Register(t)
  <2>1. pc' \in [Threads -> PCs] /\ calls' \in 0..MaxCalls
    BY <1>1, GotoType, EnterType DEF Register, PCs, Registering
  <2>2. base' \in [Threads -> Bases] /\ posted' \in [Threads -> Pages \cup {None}]
        /\ mixed' \in BOOLEAN
    BY <1>1 DEF Register, TypeOK
  <2> QED
    BY <1>1, <2>1, <2>2 DEF Register, TypeOK
<1>2. CASE SetTypeStampSaltValue(t)
  <2>1. /\ pc' \in [Threads -> PCs] /\ calls' \in 0..MaxCalls
        /\ reply' \in [Threads -> Answers \cup Types \cup Bases]
    BY <1>2, ReturnType, EnterType DEF SetTypeStampSaltValue, Answers
  <2>2. posted' \in [Threads -> Pages \cup {None}]
    BY <1>2 DEF SetTypeStampSaltValue, TypeOK
  <2> QED
    BY <1>2, <2>1, <2>2 DEF SetTypeStampSaltValue, TypeOK
<1>3. CASE GetTypeName(t)
  <2>1. PICK ty \in Types :
          IF typeToHash[ty] = None
          THEN Return(t, "failed") /\ UNCHANGED pages
          ELSE /\ pages' = pages \cup {[type |-> ty, stamp |-> typeToHash[ty],
                                        live |-> In(Resetting) = {}]}
               /\ Return(t, "ok")
    BY <1>3 DEF GetTypeName
  <2>2. /\ pc' \in [Threads -> PCs] /\ calls' \in 0..MaxCalls
        /\ reply' \in [Threads -> Answers \cup Types \cup Bases]
    BY <1>3, <2>1, ReturnType, EnterType DEF GetTypeName, Answers
  <2>3. pages' \subseteq Pages
    <3>1. typeToHash[ty] # None => typeToHash[ty] \in Stamps
      BY DEF TypeOK
    <3>2. ASSUME NEW live \in BOOLEAN, typeToHash[ty] # None
          PROVE  [type |-> ty, stamp |-> typeToHash[ty], live |-> live] \in Pages
      BY <3>1, <3>2 DEF Pages
    <3>3. (In(Resetting) = {}) \in BOOLEAN
      OBVIOUS
    <3> QED
      BY <2>1, <3>2, <3>3 DEF TypeOK
  <2>4. posted' \in [Threads -> Pages \cup {None}]
    BY <1>3 DEF GetTypeName, TypeOK
  <2> QED
    BY <1>3, <2>2, <2>3, <2>4 DEF GetTypeName, TypeOK
<1>4. CASE Post(t)
  <2>1. PICK b \in Bases,
             found \in {TRUE} \cup (IF In({"binder"}) # {} THEN {FALSE} ELSE {}) :
          \/ \E page \in pages :
                /\ posted' = [posted EXCEPT ![t] = page]
                /\ bindable' = [bindable EXCEPT ![t] =
                                   page.live /\ b \in ready /\ In({"binder"}) = {}]
                /\ IF found /\ binders[b] = "derived"
                   THEN /\ Goto(t, "detect")
                        /\ stamp' = [stamp EXCEPT ![t] = page.stamp]
                        /\ base' = [base EXCEPT ![t] = b]
                        /\ UNCHANGED reply
                   ELSE Return(t, b) /\ UNCHANGED <<stamp, base>>
          \/ /\ posted' = [posted EXCEPT ![t] = None]
             /\ \/ Return(t, b)
                \/ (found /\ binders[b] = "derived") /\ Return(t, "failed")
             /\ UNCHANGED <<bindable, stamp, base>>
    BY <1>4 DEF Post
  <2>2. calls' \in 0..MaxCalls
    BY <1>4, EnterType DEF Post
  <2>3. ASSUME NEW page \in pages, posted' = [posted EXCEPT ![t] = page],
               bindable' = [bindable EXCEPT ![t] = page.live /\ b \in ready /\ In({"binder"}) = {}],
               Goto(t, "detect"), stamp' = [stamp EXCEPT ![t] = page.stamp],
               base' = [base EXCEPT ![t] = b], UNCHANGED reply
        PROVE  TypeOK'
    <3>1. page \in Pages /\ page.stamp \in Stamps /\ page.live \in BOOLEAN
      BY DEF TypeOK, Pages
    <3>2. pc' \in [Threads -> PCs]
      BY <2>3, GotoType DEF PCs
    <3>3. /\ posted' \in [Threads -> Pages \cup {None}] /\ bindable' \in [Threads -> BOOLEAN]
          /\ stamp' \in [Threads -> Stamps \cup {None}] /\ base' \in [Threads -> Bases]
      BY <2>3, <3>1 DEF TypeOK
    <3> QED
      BY <1>4, <2>2, <2>3, <3>2, <3>3 DEF Post, TypeOK
  <2>4. ASSUME NEW page \in pages, posted' = [posted EXCEPT ![t] = page],
               bindable' = [bindable EXCEPT ![t] = page.live /\ b \in ready /\ In({"binder"}) = {}],
               Return(t, b), UNCHANGED <<stamp, base>>
        PROVE  TypeOK'
    <3>1. page \in Pages /\ page.live \in BOOLEAN
      BY DEF TypeOK, Pages
    <3>2. pc' \in [Threads -> PCs] /\ reply' \in [Threads -> Answers \cup Types \cup Bases]
      BY <2>4, ReturnType
    <3>3. posted' \in [Threads -> Pages \cup {None}] /\ bindable' \in [Threads -> BOOLEAN]
      BY <2>4, <3>1 DEF TypeOK
    <3> QED
      BY <1>4, <2>2, <2>4, <3>2, <3>3 DEF Post, TypeOK
  <2>5. ASSUME posted' = [posted EXCEPT ![t] = None], Return(t, b) \/ Return(t, "failed"),
               UNCHANGED <<bindable, stamp, base>>
        PROVE  TypeOK'
    <3>1. pc' \in [Threads -> PCs] /\ reply' \in [Threads -> Answers \cup Types \cup Bases]
      BY <2>5, ReturnType DEF Answers
    <3>2. posted' \in [Threads -> Pages \cup {None}]
      BY <2>5 DEF TypeOK
    <3> QED
      BY <1>4, <2>2, <2>5, <3>1, <3>2 DEF Post, TypeOK
  <2> QED
    BY <2>1, <2>3, <2>4, <2>5
<1>5. CASE Reset(t)
  <2>1. pc' \in [Threads -> PCs] /\ calls' \in 0..MaxCalls
    BY <1>5, GotoType, EnterType DEF Reset, PCs, Resetting
  <2>2. /\ todo' \in [Threads -> SUBSET Bases] /\ stale' \in [Threads -> BOOLEAN]
        /\ posted' \in [Threads -> Pages \cup {None}]
    BY <1>5 DEF Reset, TypeOK
  <2>3. pages' \subseteq Pages
    <3>1. \A page \in Pages : [page EXCEPT !.live = FALSE] \in Pages
      BY DEF Pages
    <3> QED
      BY <1>5, <3>1 DEF Reset, NewEra, TypeOK
  <2>4. bindable' \in [Threads -> BOOLEAN] /\ mixed' \in BOOLEAN /\ ready' \subseteq Bases
    BY <1>5 DEF Reset, NewEra, TypeOK
  <2> QED
    BY <1>5, <2>1, <2>2, <2>3, <2>4 DEF Reset, TypeOK
<1> QED
  BY <1>1, <1>2, <1>3, <1>4, <1>5 DEF Call

LEMMA OverlapType ==
    ASSUME TypeOK, NEW t \in Threads, NEW place, Overlap(t, place)
    PROVE  overlap' \in [Threads -> BOOLEAN]
<1>1. ASSUME NEW u \in Threads
      PROVE  (IF u = t THEN In({place}) # {} ELSE overlap[u] \/ u \in In({place})) \in BOOLEAN
  OBVIOUS
<1> QED
  BY <1>1 DEF Overlap

LEMMA StepType == ASSUME TypeOK, Stamped, NEW t \in Threads, Step(t) PROVE TypeOK'
<1> USE DEF tables, registration, resetVars, history
<1>1. CASE Find(t)
  <2>1. pc' \in [Threads -> PCs] /\ reply' \in [Threads -> Answers \cup Types \cup Bases]
    <3>1. CASE base[t] \in typeCache
      BY <1>1, <3>1, ReturnType DEF Find, Answers
    <3>2. CASE base[t] \notin typeCache
      BY <1>1, <3>2, GotoType DEF Find, PCs, Registering, TypeOK
    <3> QED
      BY <3>1, <3>2
  <2>2. overlap' \in [Threads -> BOOLEAN] /\ raced' \in BOOLEAN
    BY <1>1, OverlapType DEF Find, TypeOK
  <2> QED
    BY <1>1, <2>1, <2>2 DEF Find, TypeOK
<1>2. CASE Insert(t)
  <2>1. typeCache' \subseteq Bases /\ pc' \in [Threads -> PCs]
    <3>1. pc' \in [Threads -> PCs]
      BY <1>2, GotoType DEF Insert, PCs, Registering
    <3>2. typeCache \subseteq Bases /\ base[t] \in Bases
      BY DEF TypeOK
    <3>3. typeCache' \subseteq typeCache \cup {base[t]}
      BY <1>2 DEF Insert
    <3> QED
      BY <3>1, <3>2, <3>3
  <2>2. stale' \in [Threads -> BOOLEAN]
    <3>1. ASSUME NEW u \in Threads PROVE (stale[u] \/ (u # t /\ pc[u] = "remove")) \in BOOLEAN
      OBVIOUS
    <3> QED
      BY <1>2, <3>1 DEF Insert, Changed
  <2>3. rest' \in [Threads -> Seq(Types)] /\ overlap' \in [Threads -> BOOLEAN]
    BY <1>2, ConstantFacts DEF Insert, TypeOK
  <2> QED
    BY <1>2, <2>1, <2>2, <2>3 DEF Insert, TypeOK
<1>3. CASE EncryptStringToBase64(t)
  <2>1. pc' \in [Threads -> PCs] /\ <<Head(rest[t]), salt>> \in Stamps
    BY <1>3, GotoType, NextType DEF EncryptStringToBase64, PCs, Registering, Stamps, TypeOK
  <2>2. stamp' \in [Threads -> Stamps \cup {None}]
    BY <1>3, <2>1 DEF EncryptStringToBase64, TypeOK
  <2> QED
    BY <1>3, <2>1, <2>2 DEF EncryptStringToBase64, TypeOK
<1>4. CASE HashToType(t) /\ rest[t] # <<>>
  <2>1. pc' \in [Threads -> PCs] /\ Head(rest[t]) \in Types
    BY <1>4, GotoType, NextType DEF HashToType, PCs, Registering
  <2>2. hashToType' \in [Stamps -> Types \cup {None}]
    BY <1>4, <2>1 DEF HashToType, TypeOK
  <2> QED
    BY <1>4, <2>1, <2>2 DEF HashToType, TypeOK
<1>5. CASE TypeToHash(t) /\ rest[t] # <<>>
  <2>1. pc' \in [Threads -> PCs] /\ Tail(rest[t]) \in Seq(Types)
    BY <1>5, GotoType, NextType DEF TypeToHash, PCs, Registering
  <2>2. /\ typeToHash' \in [Types -> Stamps \cup {None}]
        /\ rest' \in [Threads -> Seq(Types)] /\ stamp' \in [Threads -> Stamps \cup {None}]
    BY <1>5, <2>1 DEF TypeToHash, TypeOK
  <2> QED
    BY <1>5, <2>1, <2>2 DEF TypeToHash, TypeOK
<1>6. CASE AddBinder(t)
  <2>1. pc' \in [Threads -> PCs] /\ reply' \in [Threads -> Answers \cup Types \cup Bases]
    BY <1>6, ReturnType DEF AddBinder, Answers
  <2>2. /\ binders' \in [Bases -> {"none", "derived", "app"}] /\ ready' \subseteq Bases
        /\ overlap' \in [Threads -> BOOLEAN]
    <3>1. base[t] \in Bases
      BY DEF TypeOK
    <3>2. overlap' \in [Threads -> BOOLEAN] /\ ready' \subseteq Bases
      BY <1>6, <3>1 DEF AddBinder, TypeOK
    <3> DEFINE added == [binders EXCEPT ![base[t]] = "derived"]
    <3>3. added \in [Bases -> {"none", "derived", "app"}]
      BY DEF TypeOK
    <3>4. PICK lost : binders' = [b \in Bases |-> IF b \in lost THEN "none" ELSE added[b]]
      BY <1>6 DEF AddBinder
    <3> HIDE DEF added
    <3>5. binders' \in [Bases -> {"none", "derived", "app"}]
      BY <3>3, <3>4
    <3> QED
      BY <3>2, <3>5
  <2> QED
    BY <1>6, <2>1, <2>2 DEF AddBinder, TypeOK
<1>6a. CASE FindBinder(t)
  <2>1. pc' \in [Threads -> PCs] /\ reply' \in [Threads -> Answers \cup Types \cup Bases]
    <3>1. CASE binders[base[t]] # "none"
      BY <1>6a, <3>1, ReturnType DEF FindBinder, Answers
    <3>2. CASE binders[base[t]] = "none"
      BY <1>6a, <3>2, GotoType DEF FindBinder, PCs, Registering, TypeOK
    <3> QED
      BY <3>1, <3>2
  <2>2. overlap' \in [Threads -> BOOLEAN] /\ torn' \in BOOLEAN
    BY <1>6a, OverlapType DEF FindBinder, TypeOK
  <2> QED
    BY <1>6a, <2>1, <2>2 DEF FindBinder, TypeOK
<1>7. CASE DetectInstantiationType(t) /\ stamp[t] # None
  <2> DEFINE type == hashToType[stamp[t]]
  <2>1. (IF type = None THEN "failed" ELSE type) \in Answers \cup Types \cup Bases
    BY <1>7 DEF TypeOK, Answers
  <2>2. pc' \in [Threads -> PCs] /\ reply' \in [Threads -> Answers \cup Types \cup Bases]
    BY <1>7, <2>1, ReturnType DEF DetectInstantiationType
  <2>3. stamp' \in [Threads -> Stamps \cup {None}]
    BY <1>7 DEF DetectInstantiationType, TypeOK
  <2> QED
    BY <1>7, <2>2, <2>3 DEF DetectInstantiationType, TypeOK
<1>8. CASE RemoveBinders(t)
  <2>1. pc' \in [Threads -> PCs] /\ reply' \in [Threads -> Answers \cup Types \cup Bases]
    <3>1. CASE Return(t, "failed")
      BY <3>1, ReturnType DEF Answers
    <3>2. CASE Goto(t, "clearHashes") /\ UNCHANGED reply
      BY <3>2, GotoType DEF PCs, Resetting, TypeOK
    <3>3. CASE UNCHANGED <<pc, reply>>
      BY <3>3 DEF TypeOK
    <3> QED
      BY <1>8, <3>1, <3>2, <3>3 DEF RemoveBinders
  <2>2. binders' \in [Bases -> {"none", "derived", "app"}] /\ todo' \in [Threads -> SUBSET Bases]
    <3>1. binders' = binders \/ \E b \in Bases : binders' = [binders EXCEPT ![b] = "none"]
      BY <1>8 DEF RemoveBinders, TypeOK
    <3>2. binders' \in [Bases -> {"none", "derived", "app"}]
      BY <3>1 DEF TypeOK
    <3>3. \/ todo' = todo \/ todo' = [todo EXCEPT ![t] = {}]
          \/ \E b \in todo[t] : todo' = [todo EXCEPT ![t] = @ \ {b}]
      BY <1>8 DEF RemoveBinders
    <3>4. todo' \in [Threads -> SUBSET Bases]
      <4>1. todo[t] \subseteq Bases
        BY DEF TypeOK
      <4> QED
        BY <3>3, <4>1 DEF TypeOK
    <3> QED
      BY <3>2, <3>4
  <2> QED
    BY <1>8, <2>1, <2>2 DEF RemoveBinders, TypeOK
<1>9. CASE ClearHashes(t)
  <2>1. pc' \in [Threads -> PCs] /\ hashToType' \in [Stamps -> Types \cup {None}]
    BY <1>9, GotoType DEF ClearHashes, PCs, Resetting
  <2> QED
    BY <1>9, <2>1 DEF ClearHashes, TypeOK
<1>10. CASE ClearTypes(t)
  <2>1. pc' \in [Threads -> PCs] /\ typeToHash' \in [Types -> Stamps \cup {None}]
    BY <1>10, GotoType DEF ClearTypes, PCs, Resetting
  <2> QED
    BY <1>10, <2>1 DEF ClearTypes, TypeOK
<1>11. CASE ClearCache(t)
  <2>1. pc' \in [Threads -> PCs] /\ typeCache' \subseteq Bases
    BY <1>11, GotoType DEF ClearCache, PCs, Resetting
  <2>2. stale' \in [Threads -> BOOLEAN]
    <3>1. ASSUME NEW u \in Threads PROVE (stale[u] \/ (u # t /\ pc[u] = "remove")) \in BOOLEAN
      OBVIOUS
    <3> QED
      BY <1>11, <3>1 DEF ClearCache, Changed, TypeOK
  <2> QED
    BY <1>11, <2>1, <2>2 DEF ClearCache, TypeOK
<1>12. CASE ResetSalt(t)
  <2>1. pc' \in [Threads -> PCs] /\ reply' \in [Threads -> Answers \cup Types \cup Bases]
    BY <1>12, ReturnType DEF ResetSalt, Answers
  <2> QED
    BY <1>12, <2>1, ConstantFacts DEF ResetSalt, TypeOK
<1> QED
  BY <1>1, <1>2, <1>3, <1>4, <1>5, <1>6, <1>6a, <1>7, <1>8, <1>9, <1>10, <1>11, <1>12
     DEF Step, Stamped, HashToType, TypeToHash, DetectInstantiationType

-----------------------------------------------------------------------------
(* Stamps *)

\* A step of t leaves the other threads where they are, with what they hold.
LEMMA OtherThreads ==
    ASSUME TypeOK, NEW t \in Threads, Call(t) \/ Step(t), NEW u \in Threads, u # t
    PROVE  /\ pc'[u] = pc[u] /\ reply'[u] = reply[u] /\ base'[u] = base[u]
           /\ rest'[u] = rest[u] /\ stamp'[u] = stamp[u] /\ posted'[u] = posted[u]
           /\ todo'[u] = todo[u]
<1> USE DEF tables, registration, resetVars, history, Goto, Return, TypeOK
<1>1. CASE Register(t)
  BY <1>1 DEF Register
<1>2. CASE SetTypeStampSaltValue(t)
  BY <1>2 DEF SetTypeStampSaltValue
<1>3. CASE GetTypeName(t)
  BY <1>3 DEF GetTypeName
<1>4. CASE Post(t)
  BY <1>4 DEF Post
<1>5. CASE Reset(t)
  BY <1>5 DEF Reset
<1>6. CASE Find(t)
  BY <1>6 DEF Find
<1>7. CASE Insert(t)
  BY <1>7 DEF Insert
<1>8. CASE EncryptStringToBase64(t) \/ HashToType(t) \/ TypeToHash(t)
  BY <1>8 DEF EncryptStringToBase64, HashToType, TypeToHash
<1>9. CASE FindBinder(t) \/ AddBinder(t)
  BY <1>9 DEF FindBinder, AddBinder
<1>10. CASE DetectInstantiationType(t)
  BY <1>10 DEF DetectInstantiationType
<1>11. CASE RemoveBinders(t)
  BY <1>11 DEF RemoveBinders
<1>12. CASE ClearHashes(t) \/ ClearTypes(t) \/ ClearCache(t) \/ ResetSalt(t)
  BY <1>12 DEF ClearHashes, ClearTypes, ClearCache, ResetSalt
<1> QED
  BY <1>1, <1>2, <1>3, <1>4, <1>5, <1>6, <1>7, <1>8, <1>9, <1>10, <1>11, <1>12 DEF Call, Step

\* What Stamped says of one thread.
StampedThread(t) ==
    /\ pc[t] \in {"hashToType", "typeToHash"} =>
        /\ rest[t] # <<>> /\ stamp[t] # None
        /\ stamp[t][1] = Head(rest[t])
    /\ pc[t] = "detect" => stamp[t] # None
    /\ posted[t] # None => pc[t] \in {"idle", "detect"}

LEMMA StampedKeeps ==
    ASSUME TypeOK, Stamped, NEW t \in Threads, Call(t) \/ Step(t), TypeOK'
    PROVE  Stamped'
<1>1. SUFFICES /\ \A s \in Stamps : hashToType'[s] # None => hashToType'[s] = s[1]
               /\ \A ty \in Types : typeToHash'[ty] # None => typeToHash'[ty][1] = ty
               /\ StampedThread(t)'
  <2>1. \A u \in Threads : u # t => StampedThread(u)'
    BY OtherThreads DEF Stamped, StampedThread
  <2> QED
    BY <2>1 DEF Stamped, StampedThread
<1>2. /\ \A s \in Stamps : hashToType[s] # None => hashToType[s] = s[1]
      /\ \A ty \in Types : typeToHash[ty] # None => typeToHash[ty][1] = ty
      /\ StampedThread(t)
  BY DEF Stamped, StampedThread
<1> USE DEF tables, registration, resetVars, history
<1>3. CASE Register(t) \/ SetTypeStampSaltValue(t) \/ GetTypeName(t) \/ Reset(t)
  <2>1. UNCHANGED <<hashToType, typeToHash>> /\ posted'[t] = None
    BY <1>3 DEF Register, SetTypeStampSaltValue, GetTypeName, Reset, TypeOK
  <2>2. pc'[t] \in {"find", "idle", "remove"}
    BY <1>3 DEF Register, SetTypeStampSaltValue, GetTypeName, Reset, Goto, Return, TypeOK
  <2> QED
    BY <1>2, <2>1, <2>2 DEF StampedThread
<1>4. CASE Post(t)
  <2>1. UNCHANGED <<hashToType, typeToHash>>
    BY <1>4 DEF Post
  <2>2. \A page \in pages : page.stamp # None
    <3>1. \A page \in Pages : page.stamp \in Stamps
      BY DEF Pages
    <3> QED
      BY <3>1, ConstantFacts DEF TypeOK
  <2>3. pc'[t] = "idle" \/ (pc'[t] = "detect" /\ stamp'[t] # None)
    BY <1>4, <2>2 DEF Post, Goto, Return, TypeOK
  <2> QED
    BY <1>2, <2>1, <2>3 DEF StampedThread
<1>5. CASE Find(t)
  <2>1. UNCHANGED <<hashToType, typeToHash, posted>> /\ pc[t] = "find"
        /\ pc'[t] \in {"idle", "insert"}
    BY <1>5 DEF Find, Goto, Return, TypeOK
  <2> QED
    BY <1>2, <2>1 DEF StampedThread
<1>6. CASE Insert(t)
  <2>1. UNCHANGED <<hashToType, typeToHash, posted>> /\ pc[t] = "insert" /\ pc'[t] = "item"
    BY <1>6 DEF Insert, Goto, TypeOK
  <2> QED
    BY <1>2, <2>1 DEF StampedThread
<1>7. CASE EncryptStringToBase64(t)
  <2>1. /\ UNCHANGED <<hashToType, typeToHash, posted, rest>> /\ rest[t] # <<>>
        /\ pc[t] = "item" /\ pc'[t] = "hashToType" /\ stamp'[t] = <<Head(rest[t]), salt>>
    BY <1>7 DEF EncryptStringToBase64, Goto, TypeOK
  <2>2. stamp'[t] \in Stamps
    BY <2>1, NextType DEF Stamps, TypeOK
  <2> QED
    BY <1>2, <2>1, <2>2, ConstantFacts DEF StampedThread
<1>8. CASE HashToType(t)
  <2>1. /\ UNCHANGED <<typeToHash, posted, rest, stamp>>
        /\ pc[t] = "hashToType" /\ pc'[t] = "typeToHash"
        /\ hashToType' = [hashToType EXCEPT ![stamp[t]] = Head(rest[t])]
    BY <1>8 DEF HashToType, Goto, TypeOK
  <2>2. stamp[t] # None /\ stamp[t][1] = Head(rest[t]) /\ rest[t] # <<>>
    BY <1>2, <2>1 DEF StampedThread
  <2>3. \A s \in Stamps : hashToType'[s] # None => hashToType'[s] = s[1]
    BY <1>2, <2>1, <2>2 DEF TypeOK
  <2> QED
    BY <1>2, <2>1, <2>2, <2>3 DEF StampedThread
<1>9. CASE TypeToHash(t)
  <2>1. /\ UNCHANGED <<hashToType, posted>>
        /\ pc[t] = "typeToHash" /\ pc'[t] = "item"
        /\ typeToHash' = [typeToHash EXCEPT ![Head(rest[t])] = stamp[t]]
    BY <1>9 DEF TypeToHash, Goto, TypeOK
  <2>2. stamp[t][1] = Head(rest[t])
    BY <1>2, <2>1 DEF StampedThread
  <2>3. \A ty \in Types : typeToHash'[ty] # None => typeToHash'[ty][1] = ty
    BY <1>2, <2>1, <2>2 DEF TypeOK
  <2> QED
    BY <1>2, <2>1, <2>3 DEF StampedThread
<1>9a. CASE FindBinder(t)
  <2>1. UNCHANGED <<hashToType, typeToHash, posted>> /\ pc[t] = "item"
        /\ pc'[t] \in {"idle", "binder"}
    BY <1>9a DEF FindBinder, Goto, Return, TypeOK
  <2> QED
    BY <1>2, <2>1 DEF StampedThread
<1>10. CASE AddBinder(t) \/ DetectInstantiationType(t) \/ ResetSalt(t)
  <2>1. UNCHANGED <<hashToType, typeToHash>> /\ pc'[t] = "idle"
    BY <1>10 DEF AddBinder, DetectInstantiationType, ResetSalt, Return, Goto, TypeOK
  <2> QED
    BY <1>2, <2>1 DEF StampedThread
<1>11. CASE RemoveBinders(t)
  <2>1. UNCHANGED <<hashToType, typeToHash, posted>> /\ pc[t] = "remove"
        /\ pc'[t] \in {"idle", "clearHashes", "remove"}
    BY <1>11 DEF RemoveBinders, Return, Goto, TypeOK
  <2> QED
    BY <1>2, <2>1 DEF StampedThread
<1>12. CASE ClearHashes(t) \/ ClearTypes(t) \/ ClearCache(t)
  <2>1. /\ posted' = posted /\ pc[t] \notin {"idle", "detect"}
        /\ pc'[t] \in {"clearTypes", "clearCache", "resetSalt"}
        /\ hashToType' = hashToType \/ hashToType' = [s \in Stamps |-> None]
        /\ typeToHash' = typeToHash \/ typeToHash' = [ty \in Types |-> None]
    BY <1>12 DEF ClearHashes, ClearTypes, ClearCache, Goto, TypeOK
  <2> QED
    BY <1>2, <2>1 DEF StampedThread
<1> QED
  BY <1>3, <1>4, <1>5, <1>6, <1>7, <1>8, <1>9, <1>9a, <1>10, <1>11, <1>12 DEF Call, Step

-----------------------------------------------------------------------------
(* Reset and registrations *)

\* A thread gets into a registration or a Reset from its beginning only, and
\* mixed records when another thread is in the other.
LEMMA Entering ==
    ASSUME TypeOK, Stamped, NEW t \in Threads, Call(t) \/ Step(t)
    PROVE  /\ mixed => mixed'
           /\ pc'[t] \in Registering => pc[t] \in Registering
                                        \/ (mixed' = (mixed \/ In(Resetting) # {}))
           /\ pc'[t] \in Resetting => pc[t] \in Resetting
                                      \/ (mixed' = (mixed \/ In(Registering) # {}))
<1> USE DEF tables, registration, resetVars, history, Goto, Return, TypeOK, Registering, Resetting
<1>1. CASE Register(t)
  BY <1>1 DEF Register
<1>2. CASE SetTypeStampSaltValue(t) \/ GetTypeName(t)
  BY <1>2 DEF SetTypeStampSaltValue, GetTypeName
<1>3. CASE Post(t)
  BY <1>3 DEF Post
<1>4. CASE Reset(t)
  BY <1>4 DEF Reset, NewEra
<1>5. CASE Find(t) \/ Insert(t)
  BY <1>5 DEF Find, Insert
<1>6. CASE EncryptStringToBase64(t) \/ HashToType(t) \/ TypeToHash(t)
  BY <1>6 DEF EncryptStringToBase64, HashToType, TypeToHash
<1>7. CASE FindBinder(t) \/ AddBinder(t) \/ DetectInstantiationType(t) \/ ResetSalt(t)
  BY <1>7 DEF FindBinder, AddBinder, DetectInstantiationType, ResetSalt
<1>8. CASE RemoveBinders(t) \/ ClearHashes(t) \/ ClearTypes(t) \/ ClearCache(t)
  BY <1>8 DEF RemoveBinders, ClearHashes, ClearTypes, ClearCache
<1> QED
  BY <1>1, <1>2, <1>3, <1>4, <1>5, <1>6, <1>7, <1>8 DEF Call, Step

LEMMA ApartKeeps ==
    ASSUME TypeOK, Stamped, NEW t \in Threads, Call(t) \/ Step(t), ~mixed => Apart, ~mixed'
    PROVE  ~mixed /\ Apart /\ Apart'
<1>1. ~mixed /\ Apart
  BY Entering
<1>2. \A u \in Threads : u # t => pc'[u] = pc[u]
  BY OtherThreads
<1>3. ASSUME NEW u \in Threads, NEW v \in Threads, pc'[u] \in Resetting, pc'[v] \in Registering
      PROVE  FALSE
  <2>1. CASE u = t
    <3>1. v # t /\ pc[v] \in Registering
      BY <1>2, <1>3, <2>1 DEF Registering, Resetting
    <3>2. pc[t] \in Resetting \/ In(Registering) = {}
      BY <1>3, <2>1, Entering
    <3> QED
      BY <1>1, <3>1, <3>2 DEF Apart, In
  <2>2. CASE u # t /\ v = t
    <3>1. pc[u] \in Resetting
      BY <1>2, <1>3, <2>2
    <3>2. pc[t] \in Registering \/ In(Resetting) = {}
      BY <1>3, <2>2, Entering DEF Registering
    <3> QED
      BY <1>1, <3>1, <3>2 DEF Apart, In
  <2>3. CASE u # t /\ v # t
    BY <1>1, <1>2, <1>3, <2>3 DEF Apart
  <2> QED
    BY <2>1, <2>2, <2>3
<1> QED
  BY <1>1, <1>3 DEF Apart

-----------------------------------------------------------------------------
(* Binding *)

\* A stamp that resolves in hashToType does so to the type it was made of.
LEMMA Resolves ==
    ASSUME TypeOK, Stamped
    PROVE  /\ \A s \in Stamps : hashToType[s] = None \/ hashToType[s] = s[1]
           /\ \A ty \in Types : typeToHash[ty] # None =>
                typeToHash[ty] \in Stamps /\ typeToHash[ty][1] = ty
           /\ \A page \in pages : page \in Pages /\ page.stamp \in Stamps /\ page.type \in Types
BY DEF TypeOK, Stamped, Pages

\* What Binding says of the last post of a thread.
PostBound(t) ==
    ~torn /\ posted[t] # None /\ bindable[t] =>
        IF pc[t] = "detect" THEN hashToType[stamp[t]] = posted[t].type
                            ELSE reply[t] = posted[t].type

\* During a Reset nothing that has been handed out need bind.
Withdrawn ==
    /\ ready = {}
    /\ \A page \in pages : ~page.live
    /\ \A u \in Threads : ~bindable[u]

\* A step of t that leaves the dictionaries, and what it has to keep.
LEMMA BindingFrame ==
    ASSUME TypeOK, Stamped, ~mixed, Binding, NEW t \in Threads, Call(t) \/ Step(t),
           UNCHANGED <<hashToType, typeToHash>>, pc[t] # "clearTypes", pc'[t] # "typeToHash",
           torn => torn', ~torn' => \A b \in ready' : binders'[b] = "derived",
           \A page \in pages' : page.live => hashToType[page.stamp] = page.type,
           \A u \in Threads : u # t => bindable'[u] = bindable[u] \/ ~bindable'[u],
           PostBound(t)',
           \A u \in Threads : pc'[u] \in Resetting => Withdrawn'
    PROVE  Binding'
<1>1. \A u \in Threads : u # t => pc'[u] = pc[u] /\ stamp'[u] = stamp[u]
                                  /\ reply'[u] = reply[u] /\ posted'[u] = posted[u]
  BY OtherThreads
<1>2. StampsResolve'
  <2>1. In({"clearTypes"})' = {} => In({"clearTypes"}) = {}
    BY <1>1 DEF In
  <2> QED
    BY <2>1 DEF Binding, StampsResolve
<1>3. \A u \in Threads : pc'[u] = "typeToHash" => hashToType'[stamp'[u]] # None
  BY <1>1 DEF Binding
<1>4. \A u \in Threads : PostBound(u)'
  BY <1>1 DEF Binding, PostBound
<1> QED
  BY <1>2, <1>3, <1>4 DEF Binding, PostBound, Withdrawn

LEMMA BindingCall ==
    ASSUME TypeOK, Stamped, ~mixed, Binding, NEW t \in Threads, Call(t)
    PROVE  Binding'
<1> USE DEF tables, registration, resetVars, history
<1>1. /\ ~torn => \A b \in ready : binders[b] = "derived"
      /\ \A page \in pages : page.live => hashToType[page.stamp] = page.type
      /\ \A u \in Threads : pc[u] \in Resetting => Withdrawn
      /\ pc[t] = "idle"
  BY DEF Binding, Withdrawn, Call, Register, SetTypeStampSaltValue, GetTypeName, Post, Reset, Enter
<1>2. \A u \in Threads : u # t => pc'[u] = pc[u]
  BY OtherThreads
<1>3. CASE Register(t) \/ SetTypeStampSaltValue(t)
  <2>1. /\ UNCHANGED <<torn, hashToType, typeToHash, binders, ready, pages, bindable>>
        /\ pc'[t] \in {"find", "idle"} /\ posted'[t] = None
    BY <1>3 DEF Register, SetTypeStampSaltValue, Goto, Return, TypeOK
  <2>2. \A u \in Threads : pc'[u] \in Resetting => Withdrawn'
    BY <1>1, <1>2, <2>1 DEF Withdrawn, Resetting
  <2>3. PostBound(t)'
    BY <2>1 DEF PostBound
  <2> QED
    BY <1>1, <2>1, <2>2, <2>3, BindingFrame
<1>4. CASE GetTypeName(t)
  <2>1. /\ UNCHANGED <<torn, hashToType, typeToHash, binders, ready, bindable>>
        /\ pc'[t] = "idle" /\ posted'[t] = None
    BY <1>4 DEF GetTypeName, Goto, Return, TypeOK
  <2>2. \/ pages' = pages
        \/ \E ty \in Types :
              /\ typeToHash[ty] # None
              /\ pages' = pages \cup {[type |-> ty, stamp |-> typeToHash[ty],
                                       live |-> In(Resetting) = {}]}
    BY <1>4 DEF GetTypeName
  <2>3. ASSUME NEW page \in pages', page \notin pages, page.live
        PROVE  In(Resetting) = {} /\ hashToType[page.stamp] = page.type
    <3>1. PICK ty \in Types :
            /\ typeToHash[ty] # None
            /\ page = [type |-> ty, stamp |-> typeToHash[ty], live |-> In(Resetting) = {}]
      BY <2>2, <2>3
    <3>2. In(Resetting) = {}
      BY <2>3, <3>1
    <3>3. In({"clearTypes"}) = {}
      BY <3>2 DEF In, Resetting
    <3>4. hashToType[typeToHash[ty]] = ty
      BY <3>1, <3>3 DEF Binding, StampsResolve
    <3> QED
      BY <3>1, <3>2, <3>4
  <2>4. \A u \in Threads : pc'[u] \in Resetting => Withdrawn'
    BY <1>1, <1>2, <2>1, <2>3 DEF Withdrawn, Resetting, In
  <2>5. PostBound(t)'
    BY <2>1 DEF PostBound
  <2> QED
    BY <1>1, <2>1, <2>3, <2>4, <2>5, BindingFrame
<1>5. CASE Post(t)
  <2>1. UNCHANGED <<torn, hashToType, typeToHash, binders, ready, pages>>
    BY <1>5 DEF Post
  <2>2. PICK b \in Bases,
             found \in {TRUE} \cup (IF In({"binder"}) # {} THEN {FALSE} ELSE {}) :
          \/ \E page \in pages :
                /\ posted' = [posted EXCEPT ![t] = page]
                /\ bindable' = [bindable EXCEPT ![t] =
                                   page.live /\ b \in ready /\ In({"binder"}) = {}]
                /\ IF found /\ binders[b] = "derived"
                   THEN /\ Goto(t, "detect")
                        /\ stamp' = [stamp EXCEPT ![t] = page.stamp]
                        /\ base' = [base EXCEPT ![t] = b]
                        /\ UNCHANGED reply
                   ELSE Return(t, b) /\ UNCHANGED <<stamp, base>>
          \/ /\ posted' = [posted EXCEPT ![t] = None]
             /\ \/ Return(t, b)
                \/ (found /\ binders[b] = "derived") /\ Return(t, "failed")
             /\ UNCHANGED <<bindable, stamp, base>>
    BY <1>5 DEF Post
  <2>3. ASSUME NEW page \in pages, posted' = [posted EXCEPT ![t] = page],
               bindable' = [bindable EXCEPT ![t] = page.live /\ b \in ready /\ In({"binder"}) = {}],
               IF found /\ binders[b] = "derived"
               THEN Goto(t, "detect") /\ stamp' = [stamp EXCEPT ![t] = page.stamp]
               ELSE Return(t, b)
        PROVE  Binding'
    <3>0. In({"binder"}) = {} => found
      OBVIOUS
    <3>1. /\ posted'[t] = page /\ bindable'[t] = (page.live /\ b \in ready /\ In({"binder"}) = {})
          /\ \A u \in Threads : u # t => bindable'[u] = bindable[u]
          /\ pc'[t] \in {"detect", "idle"}
          /\ found /\ binders[b] = "derived" => pc'[t] = "detect" /\ stamp'[t] = page.stamp
          /\ bindable'[t] => found
      BY <2>3, <3>0 DEF Goto, Return, TypeOK
    <3>2. PostBound(t)'
      BY <1>1, <2>1, <3>1 DEF PostBound
    <3>3. \A u \in Threads : pc'[u] \in Resetting => Withdrawn'
      BY <1>1, <1>2, <2>1, <3>1 DEF Withdrawn, Resetting
    <3> QED
      BY <1>1, <2>1, <3>1, <3>2, <3>3, BindingFrame
  <2>4. ASSUME posted' = [posted EXCEPT ![t] = None], UNCHANGED bindable,
               Return(t, b) \/ Return(t, "failed")
        PROVE  Binding'
    <3>1. posted'[t] = None /\ pc'[t] = "idle"
      BY <2>4 DEF Goto, Return, TypeOK
    <3>2. PostBound(t)'
      BY <3>1 DEF PostBound
    <3>3. \A u \in Threads : pc'[u] \in Resetting => Withdrawn'
      BY <1>1, <1>2, <2>1, <2>4, <3>1 DEF Withdrawn, Resetting
    <3> QED
      BY <1>1, <2>1, <2>4, <3>1, <3>2, <3>3, BindingFrame
  <2> QED
    BY <2>2, <2>3, <2>4
<1>6. CASE Reset(t)
  <2>1. /\ UNCHANGED <<torn, hashToType, typeToHash, binders>>
        /\ pc'[t] = "remove" /\ posted'[t] = None
        /\ bindable' = [u \in Threads |-> FALSE] /\ ready' = {}
        /\ pages' = {[page EXCEPT !.live = FALSE] : page \in pages}
    BY <1>6 DEF Reset, NewEra, Goto, TypeOK
  <2>2. ASSUME NEW page \in pages' PROVE ~page.live
    <3>1. PICK old \in pages : page = [old EXCEPT !.live = FALSE]
      BY <2>1
    <3>2. old \in Pages
      BY DEF TypeOK
    <3> QED
      BY <3>1, <3>2 DEF Pages
  <2>3. Withdrawn' /\ PostBound(t)'
    BY <2>1, <2>2 DEF Withdrawn, PostBound
  <2> QED
    BY <1>1, <2>1, <2>2, <2>3, BindingFrame
<1> QED
  BY <1>3, <1>4, <1>5, <1>6 DEF Call

LEMMA BindingStep ==
    ASSUME TypeOK, Stamped, ~mixed, Apart, Binding, NEW t \in Threads, Step(t), Overlapped(t)
    PROVE  Binding'
<1> USE DEF tables, registration, resetVars, history
<1>1. /\ ~torn => \A b \in ready : binders[b] = "derived"
      /\ \A page \in pages : page.live => hashToType[page.stamp] = page.type
      /\ \A u \in Threads : pc[u] \in Resetting => Withdrawn
      /\ \A u \in Threads : pc[u] = "typeToHash" => hashToType[stamp[u]] # None
      /\ \A u \in Threads : PostBound(u)
  BY Zenon DEF Binding, Withdrawn, PostBound
<1>2. \A u \in Threads : u # t => /\ pc'[u] = pc[u] /\ stamp'[u] = stamp[u]
                                  /\ reply'[u] = reply[u] /\ posted'[u] = posted[u]
  BY OtherThreads
<1>3. CASE Find(t) \/ Insert(t) \/ EncryptStringToBase64(t) \/ ClearCache(t) \/ ResetSalt(t)
  <2>1. /\ UNCHANGED <<torn, hashToType, typeToHash, binders, ready, pages, bindable, posted>>
        /\ pc[t] # "clearTypes" /\ pc'[t] # "typeToHash" /\ pc[t] \notin {"idle", "detect"}
        /\ pc'[t] \in Resetting => pc[t] \in Resetting
    BY <1>3 DEF Find, Insert, EncryptStringToBase64, ClearCache, ResetSalt, Goto, Return,
                TypeOK, Resetting
  <2>2. posted[t] = None
    BY <2>1 DEF Stamped
  <2>3. PostBound(t)'
    BY <2>1, <2>2 DEF PostBound
  <2>4. \A u \in Threads : pc'[u] \in Resetting => Withdrawn'
    BY <1>1, <1>2, <2>1 DEF Withdrawn
  <2> QED
    BY <1>1, <2>1, <2>3, <2>4, BindingFrame
<1>4. CASE FindBinder(t)
  <2>1. /\ UNCHANGED <<hashToType, typeToHash, binders, ready, pages, bindable, posted>>
        /\ pc[t] = "item" /\ pc'[t] \in {"idle", "binder"} /\ (torn => torn')
    BY <1>4 DEF FindBinder, Goto, Return, TypeOK
  <2>2. PostBound(t)'
    BY <2>1 DEF PostBound, Stamped
  <2>3. \A u \in Threads : pc'[u] \notin Resetting
    BY <1>2, <2>1 DEF Apart, Registering, Resetting
  <2> QED
    BY <1>1, <2>1, <2>2, <2>3, BindingFrame
<1>4a. CASE AddBinder(t)
  <2>1. /\ UNCHANGED <<hashToType, typeToHash, pages, bindable, posted, torn>>
        /\ pc[t] = "binder" /\ pc'[t] = "idle" /\ ready' = ready \cup {base[t]}
    BY <1>4a DEF AddBinder, Goto, Return, TypeOK
  <2>2. ~torn' => \A b \in ready' : binders'[b] = "derived"
    <3>1. base[t] \in Bases /\ ready \subseteq Bases /\ binders \in [Bases -> {"none", "derived", "app"}]
      BY DEF TypeOK
    <3>2. SUFFICES ASSUME ~torn PROVE \A b \in ready' : binders'[b] = "derived"
      BY <2>1
    <3>3. binders' = [b \in Bases |-> [binders EXCEPT ![base[t]] = "derived"][b]]
      BY <1>4a, <2>1, <3>2 DEF AddBinder, Overlapped
    <3> QED
      BY <1>1, <2>1, <3>1, <3>2, <3>3
  <2>3. PostBound(t)'
    BY <2>1 DEF PostBound, Stamped
  <2>4. \A u \in Threads : pc'[u] \notin Resetting
    BY <1>2, <2>1 DEF Apart, Registering, Resetting
  <2> QED
    BY <1>1, <2>1, <2>2, <2>3, <2>4, BindingFrame
<1>5. CASE DetectInstantiationType(t)
  <2>1. /\ UNCHANGED <<torn, hashToType, typeToHash, binders, ready, pages, bindable, posted>>
        /\ pc[t] = "detect" /\ pc'[t] = "idle"
        /\ reply'[t] = IF hashToType[stamp[t]] = None THEN "failed" ELSE hashToType[stamp[t]]
    BY <1>5 DEF DetectInstantiationType, Goto, Return, TypeOK
  <2>2. PostBound(t)'
    <3>1. SUFFICES ASSUME ~torn, posted[t] # None, bindable[t]
                   PROVE  reply'[t] = posted[t].type
      BY <2>1 DEF PostBound
    <3>2. hashToType[stamp[t]] = posted[t].type
      BY <1>1, <2>1, <3>1 DEF PostBound
    <3>3. posted[t].type \in Types
      BY <3>1 DEF TypeOK, Pages
    <3> QED
      BY <2>1, <3>2, <3>3, ConstantFacts
  <2>3. \A u \in Threads : pc'[u] \in Resetting => Withdrawn'
    BY <1>1, <1>2, <2>1 DEF Withdrawn, Resetting
  <2> QED
    BY <1>1, <2>1, <2>2, <2>3, BindingFrame
<1>6. CASE RemoveBinders(t)
  <2>1. /\ UNCHANGED <<torn, hashToType, typeToHash, ready, pages, bindable, posted>>
        /\ pc[t] = "remove" /\ pc'[t] \notin {"typeToHash"}
    BY <1>6 DEF RemoveBinders, Goto, Return, TypeOK
  <2>2. Withdrawn
    BY <1>1, <2>1 DEF Resetting
  <2>3. Withdrawn'
    BY <2>1, <2>2 DEF Withdrawn
  <2>4. PostBound(t)'
    BY <2>1 DEF PostBound, Stamped
  <2> QED
    BY <1>1, <2>1, <2>2, <2>3, <2>4, BindingFrame DEF Withdrawn
<1>7. CASE HashToType(t)
  <2>1. /\ UNCHANGED <<torn, typeToHash, binders, ready, pages, bindable, posted, stamp, reply>>
        /\ pc[t] = "hashToType" /\ pc'[t] = "typeToHash"
        /\ hashToType' = [hashToType EXCEPT ![stamp[t]] = Head(rest[t])]
    BY <1>7 DEF HashToType, Goto, TypeOK
  <2>2. rest[t] # <<>> /\ stamp[t] \in Stamps /\ stamp[t][1] = Head(rest[t])
        /\ Head(rest[t]) \in Types
    BY <2>1, NextType DEF Stamped, TypeOK
  \* What resolved still does, to the same type.
  <2>3. /\ \A s \in Stamps : hashToType[s] # None => hashToType'[s] = hashToType[s]
        /\ hashToType'[stamp[t]] # None
    BY <2>1, <2>2, ConstantFacts DEF TypeOK, Stamped
  <2>4. StampsResolve'
    <3>1. \A u \in Threads : pc[u] \notin Resetting
      BY <2>1 DEF Apart, Registering
    <3>2. In({"clearTypes"}) = {}
      BY <3>1 DEF In, Resetting
    <3>3. \A ty \in Types : typeToHash[ty] # None => hashToType[typeToHash[ty]] = ty
      BY <3>2 DEF Binding, StampsResolve
    <3>4. \A ty \in Types : typeToHash[ty] # None => hashToType'[typeToHash[ty]] = ty
      BY <2>3, <3>3, Resolves, ConstantFacts
    <3> QED
      BY <2>1, <3>4 DEF StampsResolve
  <2>5. \A u \in Threads : pc'[u] = "typeToHash" => hashToType'[stamp'[u]] # None
    <3>1. \A u \in Threads : pc[u] = "typeToHash" => stamp[u] \in Stamps
      BY DEF Stamped, TypeOK
    <3> QED
      BY <1>1, <1>2, <2>1, <2>3, <3>1
  <2>6. \A page \in pages' : page.live => hashToType'[page.stamp] = page.type
    BY <1>1, <2>1, <2>3, Resolves, ConstantFacts
  <2>7. \A u \in Threads : PostBound(u)'
    <3>1. ASSUME NEW u \in Threads, u # t, ~torn, posted[u] # None, bindable[u],
                 pc[u] = "detect"
          PROVE  hashToType'[stamp[u]] = posted[u].type
      <4>1. hashToType[stamp[u]] = posted[u].type /\ posted[u].type \in Types
            /\ stamp[u] \in Stamps
        BY <1>1, <3>1 DEF PostBound, TypeOK, Pages, Stamped
      <4> QED
        BY <2>3, <4>1, ConstantFacts
    <3>2. posted[t] = None
      BY <2>1 DEF Stamped
    <3>3. ASSUME NEW u \in Threads, u # t PROVE PostBound(u)'
      BY <1>1, <1>2, <2>1, <3>1, <3>3 DEF PostBound
    <3>4. PostBound(t)'
      BY <2>1, <3>2 DEF PostBound
    <3> QED
      BY <3>3, <3>4
  <2>8. \A u \in Threads : pc'[u] \in Resetting => Withdrawn'
    BY <1>1, <1>2, <2>1 DEF Withdrawn, Resetting
  <2> QED
    BY <1>1, <2>1, <2>4, <2>5, <2>6, <2>7, <2>8 DEF Binding, PostBound, Withdrawn
<1>8. CASE TypeToHash(t)
  <2>1. /\ UNCHANGED <<torn, hashToType, binders, ready, pages, bindable, posted, reply>>
        /\ pc[t] = "typeToHash" /\ pc'[t] = "item"
        /\ typeToHash' = [typeToHash EXCEPT ![Head(rest[t])] = stamp[t]]
    BY <1>8 DEF TypeToHash, Goto, TypeOK
  <2>2. stamp[t] \in Stamps /\ stamp[t][1] = Head(rest[t])
    BY <2>1 DEF Stamped, TypeOK
  <2>3. hashToType[stamp[t]] = Head(rest[t])
    BY <1>1, <2>1, <2>2 DEF Stamped
  <2>4. StampsResolve'
    <3>1. \A u \in Threads : pc[u] \notin Resetting
      BY <2>1 DEF Apart, Registering
    <3>2. In({"clearTypes"}) = {}
      BY <3>1 DEF In, Resetting
    <3>3. \A ty \in Types : typeToHash[ty] # None => hashToType[typeToHash[ty]] = ty
      BY <3>2 DEF Binding, StampsResolve
    <3>4. \A ty \in Types : typeToHash'[ty] # None => hashToType[typeToHash'[ty]] = ty
      BY <2>1, <2>3, <3>3 DEF TypeOK
    <3> QED
      BY <2>1, <3>4 DEF StampsResolve
  <2>5. \A u \in Threads : PostBound(u)'
    <3>1. posted[t] = None
      BY <2>1 DEF Stamped
    <3> QED
      BY <1>1, <1>2, <2>1, <3>1 DEF PostBound
  <2>6. \A u \in Threads : pc'[u] = "typeToHash" => hashToType'[stamp'[u]] # None
    BY <1>1, <1>2, <2>1
  <2>7. \A u \in Threads : pc'[u] \in Resetting => Withdrawn'
    BY <1>1, <1>2, <2>1 DEF Withdrawn, Resetting
  <2> QED
    BY <1>1, <2>1, <2>4, <2>5, <2>6, <2>7 DEF Binding, PostBound, Withdrawn
<1>9. CASE ClearHashes(t) \/ ClearTypes(t)
  <2>1. /\ UNCHANGED <<torn, binders, ready, pages, bindable, posted, reply, stamp>>
        /\ \/ /\ pc[t] = "clearHashes" /\ pc'[t] = "clearTypes"
           \/ /\ pc'[t] = "clearCache" /\ pc[t] = "clearTypes"
              /\ typeToHash' = [ty \in Types |-> None]
    BY <1>9 DEF ClearHashes, ClearTypes, Goto, TypeOK
  <2>2. Withdrawn
    BY <1>1, <2>1 DEF Resetting
  <2>3. StampsResolve'
    BY <2>1 DEF StampsResolve, In
  <2>4. \A u \in Threads : pc'[u] # "typeToHash"
    BY <1>2, <2>1 DEF Apart, Registering, Resetting
  <2>5. Withdrawn'
    BY <2>1, <2>2 DEF Withdrawn
  <2> QED
    BY <2>3, <2>4, <2>5 DEF Binding, Withdrawn
<1> QED
  BY <1>3, <1>4, <1>4a, <1>5, <1>6, <1>7, <1>8, <1>9 DEF Step

-----------------------------------------------------------------------------
(* The cache of base types and the binders *)

\* Adds that overlap are recorded, those of either dictionary.
LEMMA OverlapKeeps ==
    ASSUME TypeOK, NEW t \in Threads, Call(t) \/ Step(t), \A u \in Threads : Overlapped(u)
    PROVE  /\ (raced => raced') /\ (torn => torn')
           /\ \A u \in Threads : Overlapped(u)'
<1> USE DEF tables, registration, resetVars, history
<1>1. ASSUME NEW u \in Threads, u # t PROVE pc'[u] = pc[u]
  BY <1>1, OtherThreads
<1>2. CASE Find(t)
  <2>1. CASE base[t] \in typeCache
    <3>1. UNCHANGED <<overlap, raced, torn>> /\ pc[t] = "find"
      BY <1>2, <2>1 DEF Find
    <3> QED
      BY <1>1, <3>1 DEF Overlapped
  <2>2. CASE base[t] \notin typeCache
    <3>1. /\ Overlap(t, "insert") /\ raced' = (raced \/ In({"insert"}) # {}) /\ torn' = torn
          /\ pc'[t] = "insert"
      BY <1>2, <2>2 DEF Find, Goto, TypeOK
    <3>2. ASSUME NEW u \in Threads, overlap'[u]
          PROVE  (pc'[u] = "insert" /\ raced') \/ (pc'[u] = "binder" /\ torn')
      BY <1>1, <3>1, <3>2 DEF Overlap, Overlapped, In
    <3> QED
      BY <3>1, <3>2 DEF Overlapped
  <2> QED
    BY <2>1, <2>2
<1>3. CASE FindBinder(t)
  <2>1. CASE binders[base[t]] # "none"
    <3>1. UNCHANGED <<overlap, raced, torn>> /\ pc[t] = "item"
      BY <1>3, <2>1 DEF FindBinder
    <3> QED
      BY <1>1, <3>1 DEF Overlapped
  <2>2. CASE binders[base[t]] = "none"
    <3>1. /\ Overlap(t, "binder") /\ torn' = (torn \/ In({"binder"}) # {}) /\ raced' = raced
          /\ pc'[t] = "binder"
      BY <1>3, <2>2 DEF FindBinder, Goto, TypeOK
    <3>2. ASSUME NEW u \in Threads, overlap'[u]
          PROVE  (pc'[u] = "insert" /\ raced') \/ (pc'[u] = "binder" /\ torn')
      BY <1>1, <3>1, <3>2 DEF Overlap, Overlapped, In
    <3> QED
      BY <3>1, <3>2 DEF Overlapped
  <2> QED
    BY <2>1, <2>2
<1>4. CASE Insert(t) \/ AddBinder(t)
  <2>1. UNCHANGED <<raced, torn>> /\ ~overlap'[t]
        /\ \A u \in Threads : u # t => overlap'[u] = overlap[u]
    BY <1>4 DEF Insert, AddBinder, TypeOK
  <2> QED
    BY <1>1, <2>1 DEF Overlapped
<1>5. CASE Call(t)
  <2>1. UNCHANGED <<overlap, raced, torn>> /\ pc[t] = "idle"
    BY <1>5 DEF Call, Register, SetTypeStampSaltValue, GetTypeName, Post, Reset, Enter, NewEra
  <2> QED
    BY <1>1, <2>1 DEF Overlapped
<1>6. CASE Step(t) /\ ~Find(t) /\ ~FindBinder(t) /\ ~Insert(t) /\ ~AddBinder(t)
  <2>1. UNCHANGED <<overlap, raced, torn>> /\ pc[t] \notin {"insert", "binder"}
    BY <1>6 DEF Step, EncryptStringToBase64, HashToType, TypeToHash,
                DetectInstantiationType, RemoveBinders, ClearHashes, ClearTypes, ClearCache,
                ResetSalt
  <2> QED
    BY <1>1, <2>1 DEF Overlapped
<1> QED
  BY <1>2, <1>3, <1>4, <1>5, <1>6

\* What Cached says of one thread.
CachedThread(t) ==
    /\ pc[t] \in {"item", "hashToType", "typeToHash", "binder"} => base[t] \in typeCache
    /\ pc[t] = "remove" => \A b \in Bases : binders[b] = "derived" => b \in todo[t]
    /\ pc[t] \in {"clearHashes", "clearTypes", "clearCache"} =>
        \A b \in Bases : binders[b] # "derived"

\* A step that leaves the cache and adds no derived binder.
LEMMA CachedFrame ==
    ASSUME TypeOK, Cached, NEW t \in Threads, Call(t) \/ Step(t),
           typeCache \subseteq typeCache',
           \A b \in Bases : binders'[b] = "derived" => binders[b] = "derived",
           CachedThread(t)'
    PROVE  Cached'
<1>1. \A u \in Threads : u # t => pc'[u] = pc[u] /\ base'[u] = base[u] /\ todo'[u] = todo[u]
  BY OtherThreads
<1>2. \A u \in Threads : CachedThread(u)'
  BY <1>1 DEF Cached, CachedThread
<1>3. \A b \in Bases : binders'[b] = "derived" => b \in typeCache'
  BY DEF Cached
<1> QED
  BY <1>2, <1>3 DEF Cached, CachedThread

LEMMA CachedKeeps ==
    ASSUME TypeOK, Stamped, Apart, Apart', Cached, NEW t \in Threads, Call(t) \/ Step(t),
           Overlapped(t), ~raced
    PROVE  Cached'
<1> USE DEF tables, registration, resetVars, history
<1>1. CachedThread(t) /\ \A b \in Bases : binders[b] = "derived" => b \in typeCache
  BY DEF Cached, CachedThread
<1>2. CASE Register(t) \/ SetTypeStampSaltValue(t) \/ GetTypeName(t) \/ Post(t)
           \/ Find(t) \/ DetectInstantiationType(t) \/ ResetSalt(t)
  <2>1. UNCHANGED <<typeCache, binders>>
    BY <1>2 DEF Register, SetTypeStampSaltValue, GetTypeName, Post, Find,
                DetectInstantiationType, ResetSalt
  <2>2. pc'[t] \in {"idle", "detect", "find", "insert"}
    BY <1>2 DEF Register, SetTypeStampSaltValue, GetTypeName, Post, Find,
                DetectInstantiationType, ResetSalt, Goto, Return, TypeOK
  <2>3. CachedThread(t)'
    BY <2>2 DEF CachedThread
  <2> QED
    BY <2>1, <2>3, CachedFrame
<1>3. CASE Reset(t)
  <2>1. UNCHANGED <<typeCache, binders>> /\ pc'[t] = "remove" /\ todo'[t] = typeCache
    BY <1>3 DEF Reset, Goto, TypeOK
  <2>2. CachedThread(t)'
    BY <1>1, <2>1 DEF CachedThread
  <2> QED
    BY <2>1, <2>2, CachedFrame
<1>4. CASE Insert(t)
  <2>1. ~overlap[t] /\ base' = base /\ binders' = binders /\ pc'[t] = "item"
    BY <1>4 DEF Insert, Goto, TypeOK, Overlapped
  <2>2. typeCache' = typeCache \cup {base[t]}
    BY <1>4, <2>1 DEF Insert
  <2>3. CachedThread(t)'
    BY <2>1, <2>2 DEF CachedThread
  <2> QED
    BY <2>1, <2>2, <2>3, CachedFrame
<1>5. CASE EncryptStringToBase64(t) \/ HashToType(t) \/ TypeToHash(t)
  <2>1. /\ UNCHANGED <<typeCache, binders, base>>
        /\ pc[t] \in {"item", "hashToType", "typeToHash"}
        /\ pc'[t] \in {"item", "hashToType", "typeToHash"}
    BY <1>5 DEF EncryptStringToBase64, HashToType, TypeToHash, Goto, TypeOK
  <2>2. CachedThread(t)'
    BY <1>1, <2>1 DEF CachedThread
  <2> QED
    BY <2>1, <2>2, CachedFrame
<1>5a. CASE FindBinder(t)
  <2>1. /\ UNCHANGED <<typeCache, binders, base>>
        /\ pc[t] = "item" /\ pc'[t] \in {"idle", "binder"}
    BY <1>5a DEF FindBinder, Goto, Return, TypeOK
  <2>2. CachedThread(t)'
    BY <1>1, <2>1 DEF CachedThread
  <2> QED
    BY <2>1, <2>2, CachedFrame
<1>6. CASE AddBinder(t)
  <2>1. /\ typeCache' = typeCache /\ pc[t] = "binder" /\ pc'[t] = "idle"
        /\ base[t] \in typeCache
        /\ \A b \in Bases : binders'[b] = "derived" => binders[b] = "derived" \/ b = base[t]
    <3>1. PICK lost : binders' = [b \in Bases |-> IF b \in lost THEN "none"
                                                  ELSE [binders EXCEPT ![base[t]] = "derived"][b]]
      BY <1>6 DEF AddBinder
    <3>2. \A b \in Bases : binders'[b] = "derived" => binders[b] = "derived" \/ b = base[t]
      BY <3>1 DEF TypeOK
    <3> QED
      BY <1>1, <1>6, <3>2 DEF AddBinder, Goto, Return, TypeOK, CachedThread
  <2>2. \A b \in Bases : binders'[b] = "derived" => b \in typeCache'
    BY <1>1, <2>1 DEF TypeOK
  <2>3. \A u \in Threads : u # t => pc'[u] = pc[u] /\ base'[u] = base[u]
    BY OtherThreads
  <2>4. \A u \in Threads : pc'[u] \notin Resetting
    BY <2>1, <2>3 DEF Apart, Registering, Resetting
  <2>5. \A u \in Threads : CachedThread(u)'
    BY <2>1, <2>3, <2>4 DEF Cached, CachedThread, Resetting
  <2> QED
    BY <2>2, <2>5 DEF Cached, CachedThread
<1>7. CASE RemoveBinders(t)
  <2>1. typeCache' = typeCache /\ pc[t] = "remove"
    BY <1>7 DEF RemoveBinders
  <2>2. \A b \in Bases : binders[b] = "derived" => b \in todo[t]
    BY <1>1, <2>1 DEF CachedThread
  <2>3. CASE pc'[t] = "idle" /\ binders' = binders
    BY <2>1, <2>3, CachedFrame DEF CachedThread
  <2>4. CASE todo[t] = {} /\ pc'[t] = "clearHashes" /\ binders' = binders
    <3>1. CachedThread(t)'
      BY <2>2, <2>4 DEF CachedThread
    <3> QED
      BY <2>1, <2>4, <3>1, CachedFrame
  <2>5. ASSUME NEW b \in todo[t], binders' = [binders EXCEPT ![b] = "none"],
               todo' = [todo EXCEPT ![t] = @ \ {b}], pc' = pc
        PROVE  Cached'
    <3>1. /\ \A c \in Bases : binders'[c] = "derived" => binders[c] = "derived" /\ c # b
          /\ todo'[t] = todo[t] \ {b}
      BY <2>5 DEF TypeOK
    <3>2. CachedThread(t)'
      BY <2>1, <2>2, <2>5, <3>1 DEF CachedThread
    <3> QED
      BY <2>1, <3>1, <3>2, CachedFrame
  <2> QED
    BY <1>7, <2>3, <2>4, <2>5 DEF RemoveBinders, Goto, Return, TypeOK
<1>8. CASE ClearHashes(t) \/ ClearTypes(t)
  <2>1. /\ UNCHANGED <<typeCache, binders>>
        /\ pc[t] \in {"clearHashes", "clearTypes"} /\ pc'[t] \in {"clearTypes", "clearCache"}
    BY <1>8 DEF ClearHashes, ClearTypes, Goto, TypeOK
  <2>2. CachedThread(t)'
    BY <1>1, <2>1 DEF CachedThread
  <2> QED
    BY <2>1, <2>2, CachedFrame
<1>9. CASE ClearCache(t)
  <2>1. binders' = binders /\ pc[t] = "clearCache" /\ pc'[t] = "resetSalt"
    BY <1>9 DEF ClearCache, Goto, TypeOK
  <2>2. \A b \in Bases : binders'[b] # "derived"
    BY <1>1, <2>1 DEF CachedThread
  <2>3. \A u \in Threads : pc'[u] \notin Registering
    BY <2>1 DEF Apart, Resetting
  <2> QED
    BY <2>2, <2>3 DEF Cached, Registering
<1> QED
  BY <1>2, <1>3, <1>4, <1>5, <1>5a, <1>6, <1>7, <1>8, <1>9 DEF Call, Step

-----------------------------------------------------------------------------
(* The invariant *)

LEMMA InitHolds == Init => IInv
<1> SUFFICES ASSUME Init PROVE IInv
  OBVIOUS
<1>1. TypeOK
  BY InitType
<1>2. Stamped
  BY ConstantFacts DEF Init, Stamped
<1>3. Apart
  BY DEF Init, Apart, Resetting
<1>4. Binding
  BY ConstantFacts DEF Init, Binding, StampsResolve, Resetting
<1>5. Cached
  <2>1. \A b \in Bases : binders[b] # "derived"
    BY DEF Init
  <2> QED
    BY <2>1 DEF Init, Cached
<1>6. \A t \in Threads : ~overlap[t]
  BY DEF Init
<1> QED
  BY <1>1, <1>2, <1>3, <1>4, <1>5, <1>6 DEF IInv, Overlapped

LEMMA ThreadKeeps == ASSUME IInv, NEW t \in Threads, Call(t) \/ Step(t) PROVE IInv'
<1>1. TypeOK /\ Stamped /\ (~mixed => Apart /\ Binding) /\ (~mixed /\ ~raced => Cached)
      /\ \A u \in Threads : Overlapped(u)
  BY DEF IInv
<1>2. TypeOK'
  BY <1>1, CallType, StepType
<1>3. Stamped'
  BY <1>1, <1>2, StampedKeeps
<1>4. (~mixed)' => ~mixed /\ Apart /\ Apart'
  BY <1>1, ApartKeeps
<1>5. (~mixed)' => Binding'
  BY <1>1, <1>4, BindingCall, BindingStep
<1>6. (raced => raced') /\ \A u \in Threads : Overlapped(u)'
  BY <1>1, OverlapKeeps
<1>7. (~mixed /\ ~raced)' => Cached'
  BY <1>1, <1>4, <1>6, CachedKeeps
<1> QED
  BY <1>2, <1>3, <1>4, <1>5, <1>6, <1>7 DEF IInv

LEMMA NextKeeps == IInv /\ [Next]_vars => IInv'
<1> SUFFICES ASSUME IInv, [Next]_vars PROVE IInv'
  OBVIOUS
<1>1. CASE UNCHANGED vars
  BY <1>1 DEF IInv, TypeOK, Stamped, Overlapped, Apart, Binding, StampsResolve, Cached, In, vars, tables,
              registration, resetVars, history
<1>2. CASE Next
  BY <1>1, <1>2, ThreadKeeps DEF Next, Finished
<1> QED
  BY <1>1, <1>2

LEMMA Invariance == Spec => []IInv
<1>1. Init => IInv
  BY InitHolds
<1>2. IInv /\ [Next]_vars => IInv'
  BY NextKeeps
<1> QED
  BY <1>1, <1>2, PTL DEF Spec

-----------------------------------------------------------------------------
(* Theorems *)

\* All variables keep their types: a registration never stores the null stamp
\* or the type of an empty list, and a post that finds no type answers with an
\* error (DerivedTypeModelBinderCache.cs, DerivedTypeModelBinder.cs:29-56).
THEOREM TypeCorrect == Spec => []TypeOK
<1>1. IInv => TypeOK
  BY DEF IInv
<1> QED
  BY <1>1, Invariance, PTL

\* However many threads register, render, post and change the salt, a stamp
\* that GetTypeName hands out resolves to its type, and a post from a page
\* rendered since the last Reset to a registered base binds to the type of the
\* page, as long as no registration has overlapped a Reset; the posts also as
\* long as no two registrations have stored their binders at the same time
\* (DerivedTypeModelBinderCache.cs:54-59, 111-112).
THEOREM StampsAlwaysBind == Spec => []StampsBind
<1>1. IInv => StampsBind
  <2> SUFFICES ASSUME IInv PROVE StampsBind
    OBVIOUS
  <2>1. ~mixed => Binding
    BY DEF IInv
  <2>2. StampsResolve
    BY <2>1 DEF Binding, StampsResolve
  <2>3. PostBinds
    BY <2>1 DEF Binding, PostBinds
  <2> QED
    BY <2>2, <2>3 DEF StampsBind
<1> QED
  BY <1>1, Invariance, PTL

\* A derived type binder that is installed is that of a base in _typeCache, so
\* that Reset removes it, as long as no two Adds have overlapped and no
\* registration a Reset (DerivedTypeModelBinderCache.cs:43, 62, 108-115).
THEOREM BindersAreCached == Spec => []BinderIsCached
<1>1. IInv => BinderIsCached
  BY DEF IInv, Cached, BinderIsCached
<1> QED
  BY <1>1, Invariance, PTL

=============================================================================
