------------------------------ MODULE PageProofs ------------------------------
(*****************************************************************************)
(* Proofs about what pages are made of: AreaResources, for any areas, paths  *)
(* and settings, and MenuBuilder, for any tree, users, requests and changes. *)
(* The two are independent; names of MenuBuilder's begin with Menu where     *)
(* both would have them.                                                     *)
(*****************************************************************************)
EXTENDS AreaResources, MenuBuilder, SequenceTheorems, WellFoundedInduction, TLAPS

-----------------------------------------------------------------------------
(*****************************************************************************)
(* AreaResources.  Every application registers its areas, and an area is     *)
(* served its own resources; a page shows what the host last asked for.      *)
(*****************************************************************************)

-----------------------------------------------------------------------------
(* The inductive invariant *)

\* No two stores have the same key.
OwnKeys(st) == \A i, j \in DOMAIN st : Key(st[i]) = Key(st[j]) => i = j

\* A store is registered for each area that is done, under a key of its own;
\* and a store has been given the map its area asks for.
Registered ==
    /\ OwnKeys(stores)
    /\ ~engine => \A i \in DOMAIN stores : stores[i] # "areas"
    /\ \A a \in done : \E i \in DOMAIN stores : stores[i] = a
    /\ pc \in {"viewengine", "webconfig"} => \E i \in DOMAIN stores : stores[i] = area
    /\ \A i \in DOMAIN stores :
          stores[i] \in Areas /\ MapType[stores[i]] # NoMap
          => maps[MapType[stores[i]]] # NoMap

MapsTo(map, id, value) == \E i \in DOMAIN map.mappings : map.mappings[i] = <<id, value>>

\* Each map has what the host last asked of it.
Told ==
    \A type \in MapTypes :
        IF maps[type] = NoMap THEN asked[type] = Unasked
        ELSE /\ asked[type].master # Null => maps[type].master = asked[type].master
             /\ asked[type].title # Null => MapsTo(maps[type], TitleID, asked[type].title)
             /\ asked[type].body # Null => MapsTo(maps[type], BodyID, asked[type].body)

IInv == TypeOK /\ Registered /\ Told /\ OwnAreaServes /\ PagesShowSettings

-----------------------------------------------------------------------------
(* Keys.  The back ends do not know that a literal is in STRING: the words   *)
(* the library uses itself are added here to those of the application.       *)

Words == STRING \cup {"~", "/", ".", "areas", "views", "inputbuilders"}

LEMMA WordsType ==
    /\ "~" \in Words /\ "/" \in Words /\ "." \in Words
    /\ "areas" \in Words /\ "views" \in Words /\ "inputbuilders" \in Words
    /\ STRING \subseteq Words
BY DEF Words

LEMMA OfStrings ==
    ASSUME NEW seq, seq \in Seq(STRING) \/ seq \in Seq(STRING \ {"/"})
    PROVE  seq \in Seq(Words)
<1>1. STRING \subseteq Words /\ STRING \ {"/"} \subseteq Words
  BY WordsType
<1> QED
  BY <1>1, SeqMonotonic

LEMMA StoreNames ==
    /\ \A a \in Areas : a \notin Builtins /\ a # Null /\ a # "disk" /\ a # "throws"
    /\ \A s \in Stores : s # Null /\ (s \in Areas \/ s = "inputbuilders" \/ s = "areas")
    /\ "areas" \in Stores /\ "inputbuilders" \in Stores
BY AreaAssumption DEF Stores, Builtins, Null

LEMMA KeyOfArea ==
    ASSUME NEW a \in Areas
    PROVE  /\ AreaName[a] \in Seq(Words) /\ Len(AreaName[a]) \in Nat
           /\ Key(a) = <<"/", "areas", "/">> \o AreaName[a]
           /\ Key(a) \in Seq(Words)
           /\ Len(Key(a)) = 3 + Len(AreaName[a])
           /\ Key(a)[1] = "/" /\ Key(a)[2] = "areas" /\ Key(a)[3] = "/"
           /\ \A i \in 1..Len(AreaName[a]) : Key(a)[3 + i] = AreaName[a][i]
<1>1. AreaName[a] \in Seq(STRING \ {"/"})
  BY AreaAssumption
<1>2. AreaName[a] \in Seq(Words)
  BY <1>1, OfStrings
<1>3. Key(a) = <<"/", "areas", "/">> \o AreaName[a]
  BY StoreNames DEF Key, Builtins
<1>4. <<"/", "areas", "/">> \in Seq(Words) /\ Len(<<"/", "areas", "/">>) = 3
  BY WordsType
<1> HIDE DEF Key
<1> QED
  BY <1>2, <1>3, <1>4, ConcatProperties

LEMMA KeyType ==
    ASSUME NEW s \in Stores
    PROVE  /\ Key(s) \in Seq(Words)
           /\ Len(Key(s)) \in Nat /\ Len(Key(s)) >= 2
           /\ Key(s)[1] = "/"
<1>1. CASE s \in Areas
  BY <1>1, KeyOfArea
<1>2. CASE s = "inputbuilders"
  <2>1. Key(s) = <<"/", "views", "/", "inputbuilders">>
    BY <1>2 DEF Key
  <2> QED
    BY <2>1, WordsType
<1>3. CASE s = "areas"
  <2>1. Key(s) = <<"/", "areas">>
    BY <1>3 DEF Key
  <2> QED
    BY <2>1, WordsType
<1> QED
  BY <1>1, <1>2, <1>3, StoreNames

\* The key of the store of the areas' own folder is nobody else's.
LEMMA AreasKey ==
    ASSUME NEW s \in Stores, Key(s) = Key("areas")
    PROVE  s = "areas"
<1>1. Key("areas") = <<"/", "areas">>
  BY DEF Key
<1>2. Len(Key(s)) = 2
  BY <1>1
<1>3. s \notin Areas
  BY <1>2, KeyOfArea
<1>4. s # "inputbuilders"
  <2> SUFFICES ASSUME s = "inputbuilders" PROVE FALSE
    OBVIOUS
  <2>1. Key(s) = <<"/", "views", "/", "inputbuilders">>
    BY DEF Key
  <2> QED
    BY <2>1, <1>2
<1> QED
  BY <1>3, <1>4, StoreNames

-----------------------------------------------------------------------------
(* Maps *)

LEMMA MappingsType ==
    ASSUME NEW map \in Maps
    PROVE  /\ map \in [master: MasterValues, mappings: Mappings]
           /\ map.master \in MasterValues
           /\ map.mappings \in Seq({TitleID, BodyID} \X Values)
           /\ Len(map.mappings) \in Nat
           /\ DOMAIN map.mappings = 1..Len(map.mappings)
           /\ \A i \in DOMAIN map.mappings :
                 /\ map.mappings[i] = <<map.mappings[i][1], map.mappings[i][2]>>
                 /\ map.mappings[i][1] \in {TitleID, BodyID}
                 /\ map.mappings[i][2] \in Values
           /\ \A i, j \in DOMAIN map.mappings :
                 map.mappings[i][1] = map.mappings[j][1] => i = j
<1>1. map.master \in MasterValues /\ map.mappings \in Mappings
  BY DEF Maps
<1>2. /\ map.mappings \in Seq({TitleID, BodyID} \X Values)
      /\ \A i, j \in DOMAIN map.mappings : map.mappings[i][1] = map.mappings[j][1] => i = j
  BY <1>1 DEF Mappings
<1>3. /\ Len(map.mappings) \in Nat /\ DOMAIN map.mappings = 1..Len(map.mappings)
      /\ \A i \in 1..Len(map.mappings) : map.mappings[i] \in {TitleID, BodyID} \X Values
  BY <1>2, LenProperties, ElementOfSeq
<1> QED
  BY <1>1, <1>2, <1>3 DEF Maps

\* There are two keys, so two mappings at most.
LEMMA TwoMappings ==
    ASSUME NEW map \in Maps
    PROVE  Len(map.mappings) <= 2
<1> SUFFICES ASSUME Len(map.mappings) >= 3 PROVE FALSE
  BY MappingsType
<1> DEFINE ids(i) == map.mappings[i][1]
<1>1. 1 \in DOMAIN map.mappings /\ 2 \in DOMAIN map.mappings /\ 3 \in DOMAIN map.mappings
  BY MappingsType
<1>2. ids(1) \in {TitleID, BodyID} /\ ids(2) \in {TitleID, BodyID} /\ ids(3) \in {TitleID, BodyID}
  BY <1>1, MappingsType
<1>3. ids(1) # ids(2) /\ ids(1) # ids(3) /\ ids(2) # ids(3)
  BY <1>1, MappingsType
<1> QED
  BY <1>2, <1>3

LEMMA NewMapType == NewMap \in Maps
<1>1. <<>> \in Mappings
  BY DEF Mappings
<1> QED
  BY <1>1 DEF NewMap, Maps, MasterValues

\* Setting a mapping keeps the others.
LEMMA WithMappingKeeps ==
    ASSUME NEW map \in Maps, NEW id \in {TitleID, BodyID}, NEW value \in Values
    PROVE  /\ WithMapping(map, id, value) \in Maps
           /\ WithMapping(map, id, value).master = map.master
           /\ MapsTo(WithMapping(map, id, value), id, value)
           /\ \A other \in {TitleID, BodyID} \ {id}, v \in Values :
                 MapsTo(map, other, v) => MapsTo(WithMapping(map, id, value), other, v)
<1> DEFINE m == map.mappings
           n == WithMapping(map, id, value).mappings
           P == {TitleID, BodyID} \X Values
<1>1. /\ m \in Seq(P) /\ Len(m) \in Nat /\ DOMAIN m = 1..Len(m)
      /\ \A i \in DOMAIN m : m[i] = <<m[i][1], m[i][2]>> /\ m[i] \in P
      /\ \A i, j \in DOMAIN m : m[i][1] = m[j][1] => i = j
  BY MappingsType
<1>2. <<id, value>> \in P /\ <<id, value>>[1] = id
  OBVIOUS
<1>3. WithMapping(map, id, value).master = map.master
  BY MappingsType DEF WithMapping
<1>4. CASE \E i \in DOMAIN m : m[i][1] = id
  <2>1. n = [i \in DOMAIN m |-> IF m[i][1] = id THEN <<id, value>> ELSE m[i]]
    BY <1>4, MappingsType DEF WithMapping
  <2>2. n \in Seq(P) /\ DOMAIN n = DOMAIN m
    BY <2>1, <1>1, <1>2
  <2>3. \A i \in DOMAIN m : n[i] = IF m[i][1] = id THEN <<id, value>> ELSE m[i]
    BY <2>1
  <2>4. \A i \in DOMAIN m : n[i][1] = m[i][1]
    BY <2>3, <1>2
  <2>5. n \in Mappings
    BY <2>2, <2>4, <1>1 DEF Mappings
  <2>6. PICK k \in DOMAIN m : m[k][1] = id
    BY <1>4
  <2>7. n[k] = <<id, value>> /\ k \in DOMAIN n
    BY <2>2, <2>3, <2>6
  <2>8. WithMapping(map, id, value) = [map EXCEPT !.mappings = n]
    BY <1>4, MappingsType DEF WithMapping
  <2>9. WithMapping(map, id, value) \in Maps
    BY <2>8, <2>5, MappingsType DEF Maps
  <2>10. ASSUME NEW other \in {TitleID, BodyID} \ {id}, NEW v \in Values, MapsTo(map, other, v)
         PROVE  MapsTo(WithMapping(map, id, value), other, v)
    <3>1. PICK i \in DOMAIN m : m[i] = <<other, v>>
      BY <2>10 DEF MapsTo
    <3>2. m[i][1] # id
      BY <3>1
    <3>3. n[i] = <<other, v>> /\ i \in DOMAIN n
      BY <3>1, <3>2, <2>2, <2>3
    <3> QED
      BY <3>3 DEF MapsTo
  <2> QED
    BY <1>3, <2>7, <2>9, <2>10 DEF MapsTo
<1>5. CASE ~\E i \in DOMAIN m : m[i][1] = id
  <2>1. n = Append(m, <<id, value>>)
    BY <1>5, MappingsType DEF WithMapping
  <2>2. /\ n \in Seq(P) /\ Len(n) = Len(m) + 1
        /\ \A i \in 1..Len(m) : n[i] = m[i]
        /\ n[Len(m) + 1] = <<id, value>>
    BY <2>1, <1>1, <1>2, AppendProperties
  <2>3. DOMAIN n = 1..(Len(m) + 1)
    BY <2>2, <1>1
  <2>4. ASSUME NEW i \in DOMAIN n, NEW j \in DOMAIN n, n[i][1] = n[j][1]
        PROVE  i = j
    <3>1. CASE i \in DOMAIN m /\ j \in DOMAIN m
      BY <3>1, <2>2, <2>4, <1>1
    <3>2. CASE i \in DOMAIN m /\ j = Len(m) + 1
      BY <3>2, <2>2, <2>4, <1>1, <1>2, <1>5
    <3>3. CASE i = Len(m) + 1 /\ j \in DOMAIN m
      BY <3>3, <2>2, <2>4, <1>1, <1>2, <1>5
    <3>4. CASE i = Len(m) + 1 /\ j = Len(m) + 1
      BY <3>4
    <3> QED
      BY <3>1, <3>2, <3>3, <3>4, <2>3, <1>1
  <2>5. n \in Mappings
    BY <2>2, <2>4 DEF Mappings
  <2>6. WithMapping(map, id, value) = [map EXCEPT !.mappings = n]
    BY <1>5, MappingsType DEF WithMapping
  <2>7. WithMapping(map, id, value) \in Maps
    BY <2>6, <2>5, MappingsType DEF Maps
  <2>8. Len(m) + 1 \in DOMAIN n /\ \A i \in DOMAIN m : i \in DOMAIN n /\ n[i] = m[i]
    BY <2>2, <2>3, <1>1
  <2> QED
    BY <1>3, <2>2, <2>7, <2>8 DEF MapsTo
<1> QED
  BY <1>4, <1>5

LEMMA FirstOf ==
    ASSUME NEW I, I \subseteq Nat, I # {}
    PROVE  Min(I) \in I /\ \A i \in I : Min(I) <= i
<1> DEFINE R == OpToRel(<, Nat)
<1>1. PICK x \in I : \A y \in I : <<y, x>> \notin R
  <2> HIDE DEF R
  <2>1. IsWellFoundedOn(R, Nat)
    BY NatLessThanWellFounded DEF R
  <2> QED
    BY <2>1, WFMin
<1>2. \A y \in I : ~(y < x)
  BY <1>1 DEF OpToRel
<1>3. \A y \in I : x <= y
  BY <1>2
<1> QED
  BY <1>3 DEF Min

LEMMA MappedType ==
    ASSUME NEW map \in Maps, NEW id \in {TitleID, BodyID}
    PROVE  Mapped(map, id) \in Values
<1> DEFINE m == map.mappings
           I == {i \in 1..Len(m) : m[i][1] = id}
<1>1. Mapped(map, id) = IF I = {} THEN Null ELSE IF Min(I) = 0 THEN Null ELSE m[Min(I)][2]
  BY DEF Mapped, SelectInSeq
<1>2. CASE I = {}
  BY <1>1, <1>2 DEF Values
<1>3. CASE I # {}
  <2>1. I \subseteq Nat
    OBVIOUS
  <2> HIDE DEF I
  <2>2. Min(I) \in I
    BY <2>1, <1>3, FirstOf
  <2>3. Min(I) \in 1..Len(m)
    BY <2>2 DEF I
  <2>4. m[Min(I)][2] \in Values /\ Min(I) # 0
    BY <2>3, MappingsType
  <2> QED
    BY <1>1, <1>3, <2>4
<1> QED
  BY <1>2, <1>3

LEMMA MapGiven ==
    ASSUME TypeOK, NEW type \in MapTypes
    PROVE  Map(type) \in Maps
<1>1. CASE maps[type] # NoMap
  BY <1>1 DEF TypeOK, Map
<1>2. CASE maps[type] = NoMap /\ default = NoMap
  BY <1>2, NewMapType DEF Map, CreateMapWithDefault
<1>3. CASE maps[type] = NoMap /\ default # NoMap
  <2>1. default \in Maps
    BY <1>3 DEF TypeOK
  <2> DEFINE m0 == [NewMap EXCEPT !.master = default.master]
             m1 == WithMapping(m0, TitleID, Mapped(default, TitleID))
  <2>2. m0 \in Maps
    BY <2>1, NewMapType, MappingsType DEF NewMap, Maps
  <2> HIDE DEF m0
  <2>3. m1 \in Maps
    BY <2>1, <2>2, MappedType, WithMappingKeeps
  <2> HIDE DEF m1
  <2>4. WithMapping(m1, BodyID, Mapped(default, BodyID)) \in Maps
    BY <2>1, <2>3, MappedType, WithMappingKeeps
  <2>5. Map(type) = WithMapping(m1, BodyID, Mapped(default, BodyID))
    BY <1>3 DEF m0, m1, Map, CreateMapWithDefault
  <2> QED
    BY <2>4, <2>5
<1> QED
  BY <1>1, <1>2, <1>3

\* What is set on a map is in it, and the rest stays.
LEMMA WithKeeps ==
    ASSUME NEW map \in Maps, NEW c \in Settable
    PROVE  /\ With(map, c) \in Maps
           /\ c[1] \in {"master", "title", "body"}
           /\ c[1] = "master" => /\ c[2] \in MasterValues
                                 /\ With(map, c).master = c[2]
                                 /\ \A id, v : MapsTo(map, id, v) => MapsTo(With(map, c), id, v)
           /\ c[1] # "master" => /\ c[2] \in Values
                                 /\ With(map, c).master = map.master
           /\ c[1] = "title" => /\ MapsTo(With(map, c), TitleID, c[2])
                                /\ \A v \in Values : MapsTo(map, BodyID, v) => MapsTo(With(map, c), BodyID, v)
           /\ c[1] = "body" => /\ MapsTo(With(map, c), BodyID, c[2])
                               /\ \A v \in Values : MapsTo(map, TitleID, v) => MapsTo(With(map, c), TitleID, v)
<1>0. TitleID # BodyID
  BY DEF TitleID, BodyID
<1>1. CASE c \in {"master"} \X Masters
  <2>1. c[1] = "master" /\ c[2] \in MasterValues
    BY <1>1 DEF MasterValues
  <2>2. With(map, c) = [map EXCEPT !.master = c[2]]
    BY <2>1 DEF With
  <2>3. With(map, c).master = c[2] /\ With(map, c).mappings = map.mappings
    BY <2>2, MappingsType
  <2>4. With(map, c) \in Maps
    BY <2>1, <2>2, MappingsType DEF Maps
  <2> QED
    BY <2>1, <2>3, <2>4 DEF MapsTo
<1>2. CASE c \in {"title"} \X Placeholders
  <2>1. c[1] = "title" /\ c[2] \in Values
    BY <1>2 DEF Values
  <2>2. With(map, c) = WithMapping(map, TitleID, c[2])
    BY <2>1 DEF With
  <2> QED
    BY <1>0, <2>1, <2>2, WithMappingKeeps
<1>3. CASE c \in {"body"} \X Placeholders
  <2>1. c[1] = "body" /\ c[2] \in Values
    BY <1>3 DEF Values
  <2>2. With(map, c) = WithMapping(map, BodyID, c[2])
    BY <2>1 DEF With
  <2> QED
    BY <1>0, <2>1, <2>2, WithMappingKeeps
<1>4. c \in {"master"} \X Masters \/ c \in {"title"} \X Placeholders \/ c \in {"body"} \X Placeholders
  BY DEF Settable
<1> QED
  BY <1>1, <1>2, <1>3, <1>4

\* A page carries what its map maps the defaults to, in whatever order the
\* mappings were added.
LEMMA TransformShows ==
    ASSUME NEW map \in Maps
    PROVE  /\ map.master # Null => Transform(map).master = map.master
           /\ \A v : v \notin {TitleID, BodyID} =>
                 /\ MapsTo(map, TitleID, v) => Transform(map).title = v
                 /\ MapsTo(map, BodyID, v) => Transform(map).body = v
<1> DEFINE m == map.mappings
           new(old, i) == IF i \in DOMAIN m /\ old = m[i][1] THEN m[i][2] ELSE old
           t == Transform(map)
<1>1. /\ t.master = IF map.master = Null THEN DefaultMaster ELSE map.master
      /\ t.title = new(new(TitleID, 1), 2)
      /\ t.body = new(new(BodyID, 1), 2)
  BY DEF Transform, TemplatePage
<1>2. DOMAIN m \subseteq {1, 2} /\ \A i, j \in DOMAIN m : m[i][1] = m[j][1] => i = j
  BY TwoMappings, MappingsType
<1>3. TitleID # BodyID
  BY DEF TitleID, BodyID
<1>4. ASSUME NEW id \in {TitleID, BodyID}, NEW v, v \notin {TitleID, BodyID}, MapsTo(map, id, v)
      PROVE  new(new(id, 1), 2) = v
  <2>1. PICK i \in DOMAIN m : m[i] = <<id, v>>
    BY <1>4 DEF MapsTo
  <2>2. m[i][1] = id /\ m[i][2] = v
    BY <2>1
  <2>3. CASE i = 1
    <3>1. new(id, 1) = v
      BY <2>2, <2>3
    <3>2. \A j \in DOMAIN m : m[j][1] # v
      BY <1>4, MappingsType
    <3> QED
      BY <3>1, <3>2
  <2>4. CASE i = 2
    <3>1. 1 \in DOMAIN m => m[1][1] # id
      BY <1>2, <2>2, <2>4
    <3>2. new(id, 1) = id
      BY <3>1
    <3> QED
      BY <3>2, <2>2, <2>4
  <2> QED
    BY <1>2, <2>3, <2>4
<1> QED
  BY <1>1, <1>4

-----------------------------------------------------------------------------
(* Paths *)

\* s begins in t after the first k elements.
Begins(s, t, k) == k + Len(s) <= Len(t) /\ \A i \in 1..Len(s) : s[i] = t[k + i]

\* s is somewhere in the first i elements of t.
Within(s, t, i) == s \in SubSeqs(SubSeq(t, 1, i))

\* A sequence that is somewhere in another one begins at some place of it.
LEMMA InSubSeqs ==
    ASSUME NEW S, NEW s \in Seq(S), NEW t \in Seq(S), Len(s) > 0
    PROVE  s \in SubSeqs(t) <=> \E k \in Nat : Begins(s, t, k)
<1>0. Len(s) \in Nat /\ Len(t) \in Nat
  BY LenProperties
<1>1. ASSUME s \in SubSeqs(t)
      PROVE  \E k \in Nat : Begins(s, t, k)
  <2>1. PICK k \in 0..Len(t), j \in 0..Len(t) : s = SubSeq(t, k + 1, j)
    BY <1>1 DEF SubSeqs
  <2>2. \A i \in (k + 1)..j : t[i] \in S
    BY <2>1, <1>0, ElementOfSeq
  <2>3. /\ Len(s) = IF k + 1 <= j THEN j - (k + 1) + 1 ELSE 0
        /\ \A i \in 1..(j - (k + 1) + 1) : s[i] = t[k + 1 + i - 1]
    BY <2>1, <2>2, <1>0, SubSeqProperties
  <2>4. Len(s) = j - k /\ k \in Nat /\ k + Len(s) <= Len(t)
    BY <2>3, <1>0
  <2>5. \A i \in 1..Len(s) : s[i] = t[k + i]
    BY <2>3, <2>4, <1>0
  <2> QED
    BY <2>4, <2>5 DEF Begins
<1>2. ASSUME NEW k \in Nat, Begins(s, t, k)
      PROVE  s \in SubSeqs(t)
  <2> DEFINE u == SubSeq(t, k + 1, k + Len(s))
  <2>1. k \in 0..Len(t) /\ k + Len(s) \in 0..Len(t) /\ k \in Int
    BY <1>0, <1>2 DEF Begins
  <2>2. \A i \in (k + 1)..(k + Len(s)) : t[i] \in S
    BY <2>1, <1>0, ElementOfSeq
  <2>3. /\ u \in Seq(S) /\ Len(u) = Len(s)
        /\ \A i \in 1..Len(s) : u[i] = t[k + i]
    <3>1. /\ u \in Seq(S)
          /\ Len(u) = IF k + 1 <= k + Len(s) THEN k + Len(s) - (k + 1) + 1 ELSE 0
          /\ \A i \in 1..(k + Len(s) - (k + 1) + 1) : u[i] = t[k + 1 + i - 1]
      BY <2>1, <2>2, <1>0, SubSeqProperties
    <3> HIDE DEF u
    <3> QED
      BY <3>1, <2>1, <1>0
  <2>4. s = u
    <3> HIDE DEF u
    <3> QED
      BY <2>3, <1>2, SeqEqual DEF Begins
  <2>5. PICK j \in 0..Len(t) : j = k + Len(s)
    BY <2>1
  <2>6. s = SubSeq(t, k + 1, j)
    BY <2>4, <2>5
  <2> QED
    BY <2>1, <2>6 DEF SubSeqs
<1> QED
  BY <1>1, <1>2

LEMMA DottedType ==
    ASSUME NEW segments \in Seq(STRING \ {"/"})
    PROVE  /\ Dotted(segments) \in Seq(Words)
           /\ \A i \in 1..Len(Dotted(segments)) : Dotted(segments)[i] # "/"
<1> DEFINE n == Len(segments)
           d == Dotted(segments)
<1>1. n \in Nat /\ \A i \in 1..n : segments[i] \in STRING \ {"/"}
  BY LenProperties, ElementOfSeq
<1>2. d = [i \in 1..(2 * n - 1) |-> IF i % 2 = 1 THEN segments[(i + 1) \div 2] ELSE "."]
  BY DEF Dotted
<1>3. ASSUME NEW i \in 1..(2 * n - 1), i % 2 = 1
      PROVE  (i + 1) \div 2 \in 1..n
  <2> HIDE DEF n
  <2> QED
    BY <1>1, <1>3
<1>4. \A i \in 1..(2 * n - 1) : d[i] \in Words /\ d[i] # "/"
  <2>1. TAKE i \in 1..(2 * n - 1)
  <2>2. CASE i % 2 = 1
    <3>1. d[i] = segments[(i + 1) \div 2]
      BY <1>2, <2>2
    <3> HIDE DEF n, d
    <3> QED
      BY <3>1, <2>2, <1>1, <1>3, WordsType
  <2>3. CASE i % 2 # 1
    BY <1>2, <2>3, WordsType
  <2> QED
    BY <2>2, <2>3
<1>5. CASE n = 0
  <2>1. d = << >>
    BY <1>2, <1>5
  <2> QED
    BY <2>1
<1>6. CASE n # 0
  <2> HIDE DEF n
  <2>1. 2 * n - 1 \in Nat
    BY <1>1, <1>6
  <2> DEFINE l == 2 * n - 1
  <2>2. d \in [1..l -> Words]
    BY <1>2, <1>4
  <2> HIDE DEF l, d
  <2>3. l \in Nat
    BY <2>1 DEF l
  <2>4. d \in Seq(Words) /\ Len(d) = l
    BY <2>2, <2>3
  <2> QED
    BY <2>4, <1>4 DEF l, d
<1> QED
  BY <1>5, <1>6

\* The key is taken out where it begins the path, not later.
LEMMA KeyRemoved ==
    ASSUME NEW S, NEW front \in Seq(S), NEW key \in Seq(S), NEW rest \in Seq(S),
           Len(key) > 0,
           \A i \in 1..Len(front) : front[i] # key[1]
    PROVE  ReplaceFirstSubSeq(<<>>, key, front \o (key \o rest)) = front \o rest
<1> DEFINE t == front \o (key \o rest)
           f == Len(front)
           k == Len(key)
           r == Len(rest)
<1> HIDE DEF t, f, k, r
<1>1. f \in Nat /\ k \in Nat /\ r \in Nat /\ k > 0
  BY LenProperties DEF f, k, r
<1>2. /\ key \o rest \in Seq(S) /\ Len(key \o rest) = k + r
      /\ \A i \in 1..(k + r) : (key \o rest)[i] = IF i <= k THEN key[i] ELSE rest[i - k]
  BY ConcatProperties DEF k, r
<1>3. /\ t \in Seq(S) /\ Len(t) = f + (k + r)
      /\ \A i \in 1..(f + (k + r)) : t[i] = IF i <= f THEN front[i] ELSE (key \o rest)[i - f]
  BY <1>2, ConcatProperties DEF t, f
<1>4. /\ \A i \in 1..f : t[i] = front[i]
      /\ \A i \in 1..k : t[f + i] = key[i]
      /\ \A i \in 1..r : t[f + k + i] = rest[i]
  <2>1. \A i \in 1..f : t[i] = front[i]
    BY <1>1, <1>3
  <2>2. ASSUME NEW i \in 1..k PROVE t[f + i] = key[i]
    <3>1. PICK x \in 1..(f + (k + r)) : x = f + i
      BY <1>1
    <3>a. ~(x <= f)
      BY <1>1, <3>1
    <3>2. t[x] = (key \o rest)[x - f]
      BY <1>3, <3>a
    <3>3. x - f = i /\ i \in 1..(k + r) /\ i <= k
      BY <1>1, <3>1
    <3>4. (key \o rest)[i] = key[i]
      BY <1>2, <3>3
    <3> QED
      BY <3>1, <3>2, <3>3, <3>4
  <2>3. ASSUME NEW i \in 1..r PROVE t[f + k + i] = rest[i]
    <3>1. PICK x \in 1..(f + (k + r)), y \in 1..(k + r) : x = f + k + i /\ y = k + i
      BY <1>1
    <3>a. ~(x <= f)
      BY <1>1, <3>1
    <3>2. t[x] = (key \o rest)[x - f]
      BY <1>3, <3>a
    <3>3. x - f = y /\ ~(y <= k) /\ y - k = i
      BY <1>1, <3>1
    <3>4. (key \o rest)[y] = rest[y - k]
      BY <1>2, <3>3
    <3> QED
      BY <3>1, <3>2, <3>3, <3>4
  <2> QED
    BY <2>1, <2>2, <2>3
<1>5. ASSUME NEW j \in 0..Len(t)
      PROVE  /\ SubSeq(t, 1, j) \in Seq(S) /\ Len(SubSeq(t, 1, j)) = j
             /\ \A i \in 1..j : SubSeq(t, 1, j)[i] = t[i]
  <2>1. \A i \in 1..j : t[i] \in S
    BY <1>3, <1>1, ElementOfSeq
  <2>2. /\ SubSeq(t, 1, j) \in Seq(S)
        /\ Len(SubSeq(t, 1, j)) = IF 1 <= j THEN j - 1 + 1 ELSE 0
        /\ \A i \in 1..(j - 1 + 1) : SubSeq(t, 1, j)[i] = t[1 + i - 1]
    BY <2>1, <1>1, <1>3, SubSeqProperties
  <2> QED
    BY <2>2, <1>1, <1>3
<1>6. f + k \in 0..Len(t)
  BY <1>1, <1>3
<1>7. Within(key, t, f + k)
  <2> DEFINE u == SubSeq(t, 1, f + k)
  <2>1. u \in Seq(S) /\ Len(u) = f + k /\ \A i \in 1..(f + k) : u[i] = t[i]
    BY <1>5, <1>6
  <2> HIDE DEF u
  <2>2. \A i \in 1..k : key[i] = u[f + i]
    <3>1. \A i \in 1..k : f + i \in 1..(f + k)
      BY <1>1
    <3> QED
      BY <3>1, <2>1, <1>4
  <2>3. \A i \in 1..Len(key) : key[i] = u[f + i]
    BY <2>2 DEF k
  <2>4. f + Len(key) <= Len(u)
    BY <2>1, <1>1 DEF k
  <2>5. Begins(key, u, f)
    BY <2>3, <2>4 DEF Begins
  <2>6. key \in SubSeqs(u)
    BY <2>1, <2>5, <1>1, InSubSeqs
  <2> QED
    BY <2>6 DEF u, Within
<1>8. \A j \in 0..(f + k - 1) : ~Within(key, t, j)
  <2> SUFFICES ASSUME NEW j \in 0..(f + k - 1), Within(key, t, j) PROVE FALSE
    OBVIOUS
  <2>1. j \in 0..Len(t)
    BY <1>1, <1>3
  <2> DEFINE u == SubSeq(t, 1, j)
  <2>2. u \in Seq(S) /\ Len(u) = j /\ \A i \in 1..j : u[i] = t[i]
    BY <2>1, <1>5
  <2>3. key \in SubSeqs(u)
    BY DEF Within
  <2> HIDE DEF u
  <2>4. PICK n \in Nat : Begins(key, u, n)
    BY <2>2, <2>3, InSubSeqs
  <2>5. n + k <= j /\ n + 1 \in 1..j /\ n + 1 \in 1..f
    BY <2>2, <2>4, <1>1 DEF Begins, k
  <2>6. key[1] = u[n + 1]
    BY <2>4, <1>1 DEF Begins, k
  <2>7. u[n + 1] = front[n + 1]
    BY <2>2, <2>5, <1>4
  <2> QED
    BY <2>5, <2>6, <2>7 DEF f
<1>9. IndexFirstSubSeq(key, t) = f + 1
  <2>1. ASSUME NEW i \in 0..Len(t), Within(key, t, i), \A j \in 0..(i - 1) : ~Within(key, t, j)
        PROVE  i = f + k
    <3>1. ~(i < f + k)
      <4> SUFFICES ASSUME i < f + k PROVE FALSE
        OBVIOUS
      <4>1. i \in 0..(f + k - 1)
        BY <1>1, <1>3
      <4> QED
        BY <4>1, <2>1, <1>8
    <3>2. ~(i > f + k)
      <4> SUFFICES ASSUME i > f + k PROVE FALSE
        OBVIOUS
      <4>1. f + k \in 0..(i - 1)
        BY <1>1, <1>3
      <4> QED
        BY <4>1, <2>1, <1>7
    <3>3. i \in Nat /\ f + k \in Nat
      BY <1>1, <1>3
    <3> QED
      BY <3>1, <3>2, <3>3
  <2>a. \E i \in 0..Len(t) : Within(key, t, i) /\ \A j \in 0..(i - 1) : ~Within(key, t, j)
    <3>1. PICK n \in 0..Len(t) : n = f + k
      BY <1>6
    <3>2. Within(key, t, n)
      BY <3>1, <1>7
    <3>3. ASSUME NEW j \in 0..(n - 1) PROVE ~Within(key, t, j)
      <4>1. j \in 0..(f + k - 1)
        BY <1>1, <3>1
      <4> QED
        BY <4>1, <1>8
    <3> QED
      BY <3>2, <3>3
  <2> DEFINE l == CHOOSE i \in 0..Len(t) :
                     Within(key, t, i) /\ \A j \in 0..(i - 1) : ~Within(key, t, j)
  <2>2. l \in 0..Len(t) /\ Within(key, t, l) /\ \A j \in 0..(l - 1) : ~Within(key, t, j)
    BY <2>a
  <2>3. IndexFirstSubSeq(key, t) = l - (k - 1)
    BY DEF IndexFirstSubSeq, Within, k
  <2> HIDE DEF l
  <2>4. l = f + k
    BY <2>1, <2>2
  <2> QED
    BY <2>3, <2>4, <1>1
<1>10. SubSeq(t, 1, f) = front
  <2>1. f \in 0..Len(t)
    BY <1>1, <1>3
  <2>2. /\ SubSeq(t, 1, f) \in Seq(S) /\ Len(SubSeq(t, 1, f)) = f
        /\ \A i \in 1..f : SubSeq(t, 1, f)[i] = front[i]
    BY <2>1, <1>4, <1>5
  <2> QED
    BY <2>2, SeqEqual DEF f
<1>11. SubSeq(t, f + 1 + k, Len(t)) = rest
  <2> DEFINE u == SubSeq(t, f + 1 + k, Len(t))
  <2>1. f + 1 + k \in Int /\ Len(t) \in Int /\ Len(t) - (f + 1 + k) + 1 = r
    BY <1>1, <1>3
  <2>2. \A i \in (f + 1 + k)..Len(t) : t[i] \in S
    BY <1>3, <1>1, ElementOfSeq
  <2>3. /\ u \in Seq(S)
        /\ Len(u) = IF f + 1 + k <= Len(t) THEN Len(t) - (f + 1 + k) + 1 ELSE 0
        /\ \A i \in 1..(Len(t) - (f + 1 + k) + 1) : u[i] = t[f + 1 + k + i - 1]
    BY <2>1, <2>2, SubSeqProperties
  <2> HIDE DEF u
  <2>4. Len(u) = r
    BY <2>3, <1>1, <1>3
  <2>5. \A i \in 1..r : u[i] = rest[i]
    <3>1. \A i \in 1..r : f + 1 + k + i - 1 = f + k + i
      BY <1>1
    <3> QED
      BY <3>1, <2>1, <2>3, <1>4
  <2>6. u = rest
    BY <2>3, <2>4, <2>5, SeqEqual DEF r
  <2> QED
    BY <2>6 DEF u
<1>12. key \in SubSeqs(t)
  <2>1. Begins(key, t, f)
    BY <1>1, <1>3, <1>4 DEF Begins, k
  <2> QED
    BY <2>1, <1>1, <1>3, InSubSeqs DEF k
<1>13. PICK n \in Nat : n = f + 1
  BY <1>1
<1>14. ReplaceFirstSubSeq(<<>>, key, t) = ReplaceSubSeqAt(n, <<>>, key, t)
  BY <1>9, <1>12, <1>13 DEF ReplaceFirstSubSeq
<1>15. ReplaceSubSeqAt(n, <<>>, key, t) = SubSeq(t, 1, n - 1) \o <<>> \o SubSeq(t, n + k, Len(t))
  BY DEF ReplaceSubSeqAt, k
<1>16. n - 1 = f /\ n + k = f + 1 + k
  BY <1>1, <1>13
<1>17. front \o <<>> = front
  BY ConcatEmptySeq
<1> QED
  BY <1>10, <1>11, <1>14, <1>15, <1>16, <1>17 DEF t

LEMMA ReplaceAllOfConcat ==
    ASSUME NEW front \in Seq(Words), NEW rest \in Seq(Words),
           \A i \in 1..Len(front) : front[i] # "/"
    PROVE  /\ ReplaceAll(front \o rest, "/", ".") = front \o ReplaceAll(rest, "/", ".")
           /\ ReplaceAll(rest, "/", ".") \in Seq(Words)
           /\ Len(ReplaceAll(rest, "/", ".")) = Len(rest)
<1> DEFINE t == front \o rest
           u == ReplaceAll(rest, "/", ".")
           v == ReplaceAll(t, "/", ".")
           f == Len(front)
           r == Len(rest)
<1> HIDE DEF t, u, v, f, r
<1>1. f \in Nat /\ r \in Nat
  BY LenProperties DEF f, r
<1>2. /\ t \in Seq(Words) /\ Len(t) = f + r
      /\ \A i \in 1..(f + r) : t[i] = IF i <= f THEN front[i] ELSE rest[i - f]
  BY ConcatProperties DEF t, f, r
<1>3. /\ u \in Seq(Words) /\ Len(u) = r
      /\ \A i \in 1..r : u[i] = IF rest[i] = "/" THEN "." ELSE rest[i]
  <2>1. u = [i \in 1..r |-> IF rest[i] = "/" THEN "." ELSE rest[i]]
    BY DEF u, r, ReplaceAll
  <2>2. \A i \in 1..r : rest[i] \in Words
    BY ElementOfSeq DEF r
  <2>3. u \in [1..r -> Words]
    BY <2>1, <2>2, WordsType
  <2> QED
    BY <2>1, <2>3, <1>1
<1>4. /\ v \in Seq(Words) /\ Len(v) = f + r
      /\ \A i \in 1..(f + r) : v[i] = IF t[i] = "/" THEN "." ELSE t[i]
  <2>1. v = [i \in 1..(f + r) |-> IF t[i] = "/" THEN "." ELSE t[i]]
    BY <1>2 DEF v, ReplaceAll
  <2>2. \A i \in 1..(f + r) : t[i] \in Words
    BY <1>2, ElementOfSeq
  <2>3. PICK n \in Nat : n = f + r
    BY <1>1
  <2>4. v \in [1..n -> Words]
    BY <2>1, <2>2, <2>3, WordsType
  <2>5. v \in Seq(Words) /\ Len(v) = n
    BY <2>4
  <2> QED
    BY <2>1, <2>3, <2>5
<1>5. /\ front \o u \in Seq(Words) /\ Len(front \o u) = f + r
      /\ \A i \in 1..(f + r) : (front \o u)[i] = IF i <= f THEN front[i] ELSE u[i - f]
  BY <1>3, ConcatProperties DEF f
<1>6. ASSUME NEW i \in 1..(f + r) PROVE v[i] = (front \o u)[i]
  <2>1. CASE i <= f
    <3>1. i \in 1..f
      BY <1>1, <2>1
    <3>2. front[i] # "/" /\ t[i] = front[i]
      BY <2>1, <3>1, <1>2 DEF f
    <3> QED
      BY <2>1, <3>2, <1>4, <1>5
  <2>2. CASE ~(i <= f)
    <3>1. i - f \in 1..r
      BY <1>1, <2>2
    <3>2. t[i] = rest[i - f] /\ (front \o u)[i] = u[i - f]
      BY <2>2, <1>2, <1>5
    <3> QED
      BY <3>1, <3>2, <1>3, <1>4
  <2> QED
    BY <2>1, <2>2
<1>7. v = front \o u
  BY <1>4, <1>5, <1>6, SeqEqual
<1> QED
  BY <1>3, <1>7 DEF t, u, v, r

\* What it means for a path to lie in an area's folder.
LEMMA InFolder ==
    ASSUME NEW a \in Areas, NEW path \in Seq(Words),
           IsPrefix(<<"~">> \o Key(a) \o <<"/">>, path)
    PROVE  /\ Len(Key(a)) + 2 <= Len(path) /\ path[1] = "~"
           /\ \A i \in 1..Len(Key(a)) : path[i + 1] = Key(a)[i]
           /\ path[Len(Key(a)) + 2] = "/"
           /\ SubSeq(path, Len(Key(a)) + 2, Len(path)) \in Seq(Words)
           /\ Len(SubSeq(path, Len(Key(a)) + 2, Len(path))) = Len(path) - Len(Key(a)) - 1
           /\ \A i \in 1..(Len(path) - Len(Key(a)) - 1) :
                 SubSeq(path, Len(Key(a)) + 2, Len(path))[i] = path[Len(Key(a)) + 1 + i]
           /\ Tail(path) = Key(a) \o SubSeq(path, Len(Key(a)) + 2, Len(path))
<1> DEFINE key == Key(a)
           k == Len(key)
           l == Len(path)
           inside == SubSeq(path, k + 2, l)
           c == <<"~">> \o key
           p == c \o <<"/">>
<1> HIDE DEF key, k, l, inside, c, p
<1>1. key \in Seq(Words) /\ k \in Nat /\ k >= 2 /\ l \in Nat
  BY KeyType, LenProperties DEF key, k, l, Stores
<1>2. /\ c \in Seq(Words) /\ Len(c) = 1 + k
      /\ \A i \in 1..(1 + k) : c[i] = IF i <= 1 THEN <<"~">>[i] ELSE key[i - 1]
  BY <1>1, ConcatProperties, WordsType DEF c, k
<1>3. /\ p \in Seq(Words) /\ Len(p) = 2 + k
      /\ \A i \in 1..(2 + k) : p[i] = IF i <= 1 + k THEN c[i] ELSE <<"/">>[i - (1 + k)]
  <2>1. <<"/">> \in Seq(Words) /\ Len(<<"/">>) = 1
    BY WordsType
  <2>2. /\ p \in Seq(Words) /\ Len(p) = Len(c) + 1
        /\ \A i \in 1..(Len(c) + 1) : p[i] = IF i <= Len(c) THEN c[i] ELSE <<"/">>[i - Len(c)]
    BY <2>1, <1>2, ConcatProperties DEF p
  <2> QED
    BY <2>2, <1>1, <1>2
<1>4. 2 + k <= l /\ p = SubSeq(path, 1, 2 + k)
  <2>1. IsPrefix(p, path)
    BY DEF p, c, key
  <2>2. SubSeq(p, 1, Len(p)) = p
    BY <1>3, SubSeqFull
  <2> QED
    BY <2>1, <2>2, <1>3 DEF IsPrefix, l
<1>5. \A i \in 1..l : path[i] \in Words
  BY ElementOfSeq DEF l
<1>6. \A i \in 1..(2 + k) : path[i] = p[i]
  <2>1. \A i \in 1..(2 + k) : path[i] \in Words
    BY <1>1, <1>4, <1>5
  <2>2. 2 + k \in Int /\ 2 + k - 1 + 1 = 2 + k
    BY <1>1
  <2>3. \A i \in 1..(2 + k - 1 + 1) : SubSeq(path, 1, 2 + k)[i] = path[1 + i - 1]
    BY <2>1, <2>2, SubSeqProperties
  <2>4. \A i \in 1..(2 + k) : 1 + i - 1 = i
    BY <1>1
  <2> QED
    BY <2>2, <2>3, <2>4, <1>4
<1>7. path[1] = "~"
  <2>1. 1 \in 1..(2 + k) /\ 1 \in 1..(1 + k) /\ 1 <= 1 + k
    BY <1>1
  <2> QED
    BY <2>1, <1>2, <1>3, <1>6
<1>8. ASSUME NEW i \in 1..k PROVE path[i + 1] = key[i]
  <2>1. PICK j \in 1..(1 + k) : j = i + 1
    BY <1>1
  <2>2. j \in 1..(2 + k) /\ j <= 1 + k /\ ~(j <= 1) /\ j - 1 = i
    BY <2>1, <1>1
  <2>3. path[j] = p[j] /\ p[j] = c[j] /\ c[j] = key[j - 1]
    BY <2>1, <2>2, <1>2, <1>3, <1>6
  <2> QED
    BY <2>1, <2>2, <2>3
<1>9. path[k + 2] = "/"
  <2>1. PICK j \in 1..(2 + k) : j = k + 2
    BY <1>1
  <2>2. ~(j <= 1 + k) /\ j - (1 + k) = 1
    BY <2>1, <1>1
  <2> QED
    BY <2>1, <2>2, <1>3, <1>6
<1>10. /\ inside \in Seq(Words) /\ Len(inside) = l - k - 1
       /\ \A i \in 1..(l - k - 1) : inside[i] = path[k + 1 + i]
  <2>1. k + 2 \in Int /\ l \in Int /\ l - (k + 2) + 1 = l - k - 1 /\ k + 2 <= l
    BY <1>1, <1>4
  <2>2. \A i \in (k + 2)..l : path[i] \in Words
    BY <1>1, <1>5
  <2>3. /\ inside \in Seq(Words)
        /\ Len(inside) = IF k + 2 <= l THEN l - (k + 2) + 1 ELSE 0
        /\ \A i \in 1..(l - (k + 2) + 1) : inside[i] = path[k + 2 + i - 1]
    BY <2>1, <2>2, SubSeqProperties DEF inside
  <2>4. \A i \in 1..(l - k - 1) : k + 2 + i - 1 = k + 1 + i
    BY <1>1
  <2> QED
    BY <2>1, <2>3, <2>4
<1>11. Tail(path) = key \o inside
  <2>1. path # <<>>
    BY <1>1, <1>4 DEF l
  <2>2. /\ Tail(path) \in Seq(Words) /\ Len(Tail(path)) = l - 1
        /\ \A i \in 1..Len(Tail(path)) : Tail(path)[i] = path[i + 1]
    BY <2>1, HeadTailProperties DEF l
  <2>3. /\ key \o inside \in Seq(Words)
        /\ Len(key \o inside) = k + Len(inside)
        /\ \A i \in 1..(k + Len(inside)) : (key \o inside)[i] = IF i <= k THEN key[i] ELSE inside[i - k]
    BY <1>1, <1>10, ConcatProperties DEF k
  <2>4. k + Len(inside) = l - 1
    BY <1>1, <1>10
  <2>5. ASSUME NEW i \in 1..(l - 1) PROVE Tail(path)[i] = (key \o inside)[i]
    <3>1. CASE i <= k
      <4>1. i \in 1..k
        BY <1>1, <3>1
      <4> QED
        BY <4>1, <3>1, <2>2, <2>3, <2>4, <1>8
    <3>2. CASE ~(i <= k)
      <4>1. PICK j \in 1..(l - k - 1) : j = i - k
        BY <1>1, <3>2
      <4>2. k + 1 + j = i + 1
        BY <4>1, <1>1
      <4>3. inside[j] = path[i + 1]
        BY <4>2, <1>10
      <4>4. (key \o inside)[i] = inside[j]
        BY <4>1, <3>2, <2>3, <2>4
      <4> QED
        BY <4>3, <4>4, <2>2
    <3> QED
      BY <3>1, <3>2
  <2> QED
    BY <2>2, <2>3, <2>4, <2>5, SeqEqual
<1> QED
  BY <1>1, <1>4, <1>7, <1>8, <1>9, <1>10, <1>11 DEF key, k, l, inside

\* A path that the application asks for, as a sequence of words.
LEMMA PathType ==
    ASSUME NEW path \in Paths
    PROVE  /\ path \in Seq(Words) /\ path \in Requested
           /\ path # <<>> /\ path[1] = "~" /\ Len(path) \in Nat /\ Len(path) > 4
           /\ path[Len(path) - 1] = "." /\ path[Len(path) - 2] # "/" /\ path[Len(path)] # "/"
           /\ \A i, j \in DOMAIN path : path[i] = "areas" /\ path[j] = "areas" => i = j
<1>1. path \in Seq(STRING)
  BY PathAssumption
<1>2. path \in Seq(Words)
  BY <1>1, OfStrings
<1>3. Len(path) \in Nat
  BY <1>2, LenProperties
<1>4. /\ Len(path) > 4 /\ path[1] = "~"
      /\ path[Len(path) - 1] = "." /\ path[Len(path) - 2] # "/" /\ path[Len(path)] # "/"
      /\ \A i, j \in DOMAIN path : path[i] = "areas" /\ path[j] = "areas" => i = j
  BY PathAssumption
<1>5. path # <<>>
  BY <1>4
<1> QED
  BY <1>2, <1>3, <1>4, <1>5 DEF Requested

\* Under the area's namespace, a file keeps the folders it has in the area's.
LEMMA FullName ==
    ASSUME NEW a \in Areas, NEW path \in Paths, InFolderOf(path, a)
    PROVE  /\ GetFullyQualifiedTypeFromPath(a, path)
                = Dotted(AreaNamespace[a]) \o ReplaceAll(Inside(path, a), "/", ".")
           /\ GetFullyQualifiedTypeFromPath(a, path) # <<>>
<1> DEFINE d == Dotted(AreaNamespace[a])
           inside == Inside(path, a)
           key == Key(a)
<1>1. path \in Seq(Words) /\ path[1] = "~"
  BY PathType
<1>2. /\ Tail(path) = key \o inside /\ inside \in Seq(Words)
      /\ Len(inside) = Len(path) - Len(key) - 1 /\ Len(key) + 2 <= Len(path)
  BY <1>1, InFolder DEF InFolderOf, Inside
<1>3. d \in Seq(Words) /\ \A i \in 1..Len(d) : d[i] # "/"
  BY DottedType, AreaAssumption
<1>4. key \in Seq(Words) /\ key[1] = "/" /\ Len(key) > 0 /\ Len(key) \in Nat
  BY KeyType DEF Stores
<1>5. NamespaceOf(a) = AreaNamespace[a]
  BY StoreNames DEF NamespaceOf, Builtins
<1>6. GetFullyQualifiedTypeFromPath(a, path)
        = ReplaceAll(ReplaceFirstSubSeq(<<>>, key, d \o (key \o inside)), "/", ".")
  BY <1>1, <1>2, <1>5 DEF GetFullyQualifiedTypeFromPath
<1> HIDE DEF d, inside, key
<1>7. ReplaceFirstSubSeq(<<>>, key, d \o (key \o inside)) = d \o inside
  BY <1>2, <1>3, <1>4, KeyRemoved
<1>8. /\ ReplaceAll(d \o inside, "/", ".") = d \o ReplaceAll(inside, "/", ".")
      /\ ReplaceAll(inside, "/", ".") \in Seq(Words)
      /\ Len(ReplaceAll(inside, "/", ".")) = Len(inside)
  BY <1>2, <1>3, ReplaceAllOfConcat
<1>9. Len(inside) > 0
  BY <1>2, <1>4, PathType
<1>10. ReplaceAll(inside, "/", ".") # <<>>
  BY <1>8, <1>9
<1>11. d \o ReplaceAll(inside, "/", ".") # <<>>
  BY <1>3, <1>8, <1>10, ConcatEqualIffEmpty
<1> QED
  BY <1>6, <1>7, <1>8, <1>11 DEF d, inside, key

\* The last three of a sequence.
LEMMA LastThree ==
    ASSUME NEW seq \in Seq(Words), Len(seq) > 3
    PROVE  /\ SubSeq(seq, Len(seq) - 2, Len(seq)) \in Seq(Words)
           /\ Len(SubSeq(seq, Len(seq) - 2, Len(seq))) = 3
           /\ \A i \in 1..3 : SubSeq(seq, Len(seq) - 2, Len(seq))[i] = seq[Len(seq) - 3 + i]
<1>1. PICK n \in Nat : n = Len(seq)
  BY LenProperties
<1>2. \A i \in 1..n : seq[i] \in Words
  BY <1>1, ElementOfSeq
<1>3. /\ n - 2 \in Int /\ n \in Int /\ n - 2 <= n /\ n - (n - 2) + 1 = 3
      /\ \A i \in (n - 2)..n : seq[i] \in Words
  BY <1>1, <1>2
<1>4. /\ SubSeq(seq, n - 2, n) \in Seq(Words)
      /\ Len(SubSeq(seq, n - 2, n)) = IF n - 2 <= n THEN n - (n - 2) + 1 ELSE 0
      /\ \A i \in 1..(n - (n - 2) + 1) : SubSeq(seq, n - 2, n)[i] = seq[n - 2 + i - 1]
  BY <1>3, SubSeqProperties
<1>5. \A i \in 1..3 : n - 2 + i - 1 = n - 3 + i
  OBVIOUS
<1> QED
  BY <1>1, <1>3, <1>4, <1>5

\* A file's name is the end of what it is fully qualified to.
LEMMA FileNameOnly ==
    ASSUME NEW a \in Areas, NEW path \in Paths, InFolderOf(path, a)
    PROVE  /\ GetFileNameOnly(GetFullyQualifiedTypeFromPath(a, path)) = FileName(path)
           /\ FileName(path) \in Seq(Words)
<1> DEFINE l == Len(path)
           k == Len(Key(a))
           inside == Inside(path, a)
           r == ReplaceAll(inside, "/", ".")
           d == Dotted(AreaNamespace[a])
           full == GetFullyQualifiedTypeFromPath(a, path)
           m == Len(full)
           file == FileName(path)
<1>1. /\ path \in Seq(Words) /\ l \in Nat /\ l > 4
      /\ path[l - 1] = "." /\ path[l - 2] # "/" /\ path[l] # "/"
  BY PathType
<1>2. k \in Nat /\ k >= 2
  BY KeyType DEF Stores
<1>3. /\ inside \in Seq(Words) /\ Len(inside) = l - k - 1 /\ k + 2 <= l
      /\ path[k + 2] = "/"
      /\ \A i \in 1..(l - k - 1) : inside[i] = path[k + 1 + i]
  BY <1>1, InFolder DEF InFolderOf, Inside
<1>4. k + 5 <= l
  <2>1. k + 2 # l /\ k + 2 # l - 1 /\ k + 2 # l - 2
    BY <1>1, <1>3
  <2> QED
    BY <1>1, <1>2, <1>3, <2>1
<1>5. d \in Seq(Words) /\ Len(d) \in Nat
  BY DottedType, AreaAssumption, LenProperties
<1>6. /\ r \in Seq(Words) /\ Len(r) = l - k - 1
      /\ \A i \in 1..(l - k - 1) : r[i] = IF inside[i] = "/" THEN "." ELSE inside[i]
  <2> HIDE DEF inside, l, k
  <2>1. PICK n \in Nat : n = l - k - 1
    BY <1>1, <1>2, <1>4
  <2>2. r = [i \in 1..n |-> IF inside[i] = "/" THEN "." ELSE inside[i]]
    BY <1>3, <2>1 DEF ReplaceAll
  <2>3. \A i \in 1..n : inside[i] \in Words
    BY <1>3, <2>1, ElementOfSeq
  <2> HIDE DEF r
  <2>4. r \in [1..n -> Words]
    BY <2>2, <2>3, WordsType
  <2> QED
    BY <2>1, <2>2, <2>4
<1>7. full = d \o r
  BY FullName
<1> HIDE DEF r, d, inside, l, k
<1> HIDE DEF full, m
<1>8. /\ full \in Seq(Words) /\ m = Len(d) + (l - k - 1)
      /\ \A i \in 1..(Len(d) + (l - k - 1)) :
            full[i] = IF i <= Len(d) THEN d[i] ELSE r[i - Len(d)]
  <2>1. /\ d \o r \in Seq(Words) /\ Len(d \o r) = Len(d) + Len(r)
        /\ \A i \in 1..(Len(d) + Len(r)) : (d \o r)[i] = IF i <= Len(d) THEN d[i] ELSE r[i - Len(d)]
    BY <1>5, <1>6, ConcatProperties
  <2> QED
    BY <2>1, <1>6, <1>7 DEF m
<1>9. m \in Nat /\ m >= 4
  BY <1>1, <1>2, <1>4, <1>5, <1>8
<1>10. ASSUME NEW i \in 0..2 PROVE full[m - i] = path[l - i]
  <2>1. m - i \in 1..m /\ ~(m - i <= Len(d)) /\ (m - i) - Len(d) = l - k - 1 - i
    BY <1>1, <1>2, <1>4, <1>5, <1>8
  <2>2. full[m - i] = r[l - k - 1 - i]
    BY <1>8, <2>1
  <2>3. l - k - 1 - i \in 1..(l - k - 1) /\ k + 1 + (l - k - 1 - i) = l - i
    BY <1>1, <1>2, <1>4
  <2>4. inside[l - k - 1 - i] = path[l - i]
    BY <1>3, <2>3
  <2>5. path[l - i] # "/"
    <3>1. i = 0 \/ i = 1 \/ i = 2
      OBVIOUS
    <3> QED
      BY <1>1, <3>1
  <2> QED
    BY <1>6, <2>2, <2>3, <2>4, <2>5
<1>11. SubSeq(full, m - 2, m) = SubSeq(path, l - 2, l)
  <2> DEFINE x == SubSeq(full, m - 2, m)
             y == SubSeq(path, l - 2, l)
  <2>1. x \in Seq(Words) /\ Len(x) = 3 /\ \A i \in 1..3 : x[i] = full[m - 3 + i]
    <3>1. Len(full) > 3 /\ full \in Seq(Words)
      BY <1>8, <1>9 DEF m
    <3> QED
      BY ONLY <3>1, LastThree DEF m
  <2>2. y \in Seq(Words) /\ Len(y) = 3 /\ \A i \in 1..3 : y[i] = path[l - 3 + i]
    <3>1. Len(path) > 3 /\ path \in Seq(Words)
      BY <1>1 DEF l
    <3> QED
      BY ONLY <3>1, LastThree DEF l
  <2> HIDE DEF x, y
  <2>3. ASSUME NEW i \in 1..3 PROVE x[i] = y[i]
    <3>1. 3 - i \in 0..2 /\ m - 3 + i = m - (3 - i) /\ l - 3 + i = l - (3 - i)
      BY <1>1, <1>9
    <3>2. full[m - (3 - i)] = path[l - (3 - i)]
      BY <3>1, <1>10
    <3> QED
      BY <3>1, <3>2, <2>1, <2>2
  <2>4. x = y
    BY <2>1, <2>2, <2>3, SeqEqual
  <2> QED
    BY <2>4 DEF x, y
<1>12. SubSeq(path, l - 2, l) \in Seq(Words)
  BY <1>1, LastThree DEF l
<1> QED
  BY <1>9, <1>11, <1>12 DEF GetFileNameOnly, FileName, m, l, full

\* Without folders, it is looked for in the namespace and in those around it.
LEMMA PartialName ==
    ASSUME NEW a \in Areas, NEW path \in Paths, InFolderOf(path, a),
           NEW level \in 0..(Len(AreaNamespace[a]) - 1)
    PROVE  /\ GetPartiallyQualifiedTypeFromPath(a, path, level) # <<>>
           /\ Len(AreaNamespace[a]) - 1 > level =>
                GetPartiallyQualifiedTypeFromPath(a, path, level)
                  = Dotted(SubSeq(AreaNamespace[a], 1, Len(AreaNamespace[a]) - level))
                        \o <<".">> \o FileName(path)
           /\ level = Len(AreaNamespace[a]) - 1 =>
                GetPartiallyQualifiedTypeFromPath(a, path, level)
                  = Dotted(AreaNamespace[a]) \o <<".">> \o FileName(path)
<1> DEFINE ns == AreaNamespace[a]
           n == Len(ns)
           sub == SubSeq(ns, 1, n - level)
<1>1. ns \in Seq(STRING \ {"/"}) /\ n \in Nat
  BY AreaAssumption, LenProperties
<1>2. NamespaceOf(a) = ns
  BY StoreNames DEF NamespaceOf, Builtins
<1>3. GetPartiallyQualifiedTypeFromPath(a, path, level)
        = Dotted(IF n - 1 > level THEN sub ELSE ns) \o <<".">> \o FileName(path)
  BY <1>2, FileNameOnly DEF GetPartiallyQualifiedTypeFromPath
<1> HIDE DEF ns, n
<1>4. sub \in Seq(STRING \ {"/"})
  <2>1. \A i \in 1..n : ns[i] \in STRING \ {"/"}
    BY <1>1, ElementOfSeq DEF n
  <2>2. \A i \in 1..(n - level) : ns[i] \in STRING \ {"/"}
    BY <2>1, <1>1
  <2>3. 1 \in Int /\ n - level \in Int
    BY <1>1
  <2> QED
    BY <2>2, <2>3, SubSeqProperties
<1> HIDE DEF sub
<1>5. FileName(path) \in Seq(Words) /\ <<".">> \in Seq(Words) /\ <<".">> # <<>>
  BY FileNameOnly, WordsType
<1>6. ASSUME NEW s \in {ns, sub} PROVE Dotted(s) \o <<".">> \o FileName(path) # <<>>
  <2>1. Dotted(s) \in Seq(Words)
    BY <1>1, <1>4, DottedType
  <2>2. Dotted(s) \o <<".">> \in Seq(Words) /\ Dotted(s) \o <<".">> # <<>>
    BY <2>1, <1>5, ConcatEqualIffEmpty, ConcatProperties
  <2> QED
    BY <2>2, <1>5, ConcatEqualIffEmpty
<1>7. level = n - 1 => ~(n - 1 > level)
  BY <1>1
<1> QED
  BY <1>3, <1>6, <1>7 DEF ns, n, sub

LEMMA CandidatesAre ==
    ASSUME NEW a \in Areas, NEW path \in Paths, InFolderOf(path, a)
    PROVE  /\ Len(AreaNamespace[a]) \in Nat
           /\ Len(Candidates(a, path)) = 1 + Len(AreaNamespace[a])
           /\ Candidates(a, path)[1] = GetFullyQualifiedTypeFromPath(a, path)
           /\ \A i \in 1..Len(AreaNamespace[a]) :
                 Candidates(a, path)[1 + i] = GetPartiallyQualifiedTypeFromPath(a, path, i - 1)
           /\ \A i \in 1..Len(Candidates(a, path)) : Candidates(a, path)[i] # <<>>
<1> DEFINE n == Len(AreaNamespace[a])
           g(i) == GetPartiallyQualifiedTypeFromPath(a, path, i - 1)
           p == [i \in 1..n |-> g(i)]
           q == <<GetFullyQualifiedTypeFromPath(a, path)>>
           c == Candidates(a, path)
           T == {q[1]} \cup {g(i) : i \in 1..n}
<1>1. n \in Nat
  BY AreaAssumption, LenProperties
<1>2. c = q \o p
  BY StoreNames DEF Candidates, NamespaceOf, Builtins
<1>3. \A i \in 1..n : g(i) # <<>>
  <2>1. \A i \in 1..n : i - 1 \in 0..(n - 1)
    BY <1>1
  <2> QED
    BY <2>1, PartialName
<1>4. q[1] # <<>> /\ q \in Seq(T) /\ Len(q) = 1 /\ q[1] = GetFullyQualifiedTypeFromPath(a, path)
  BY FullName
<1>5. p \in Seq(T) /\ Len(p) = n /\ \A i \in 1..n : p[i] = g(i)
  <2> HIDE DEF n, g
  <2>1. p \in [1..n -> T]
    OBVIOUS
  <2> QED
    BY <2>1, <1>1
<1> HIDE DEF c, p, q, T, n, g
<1>6. /\ Len(c) = 1 + n
      /\ \A i \in 1..(1 + n) : c[i] = IF i <= 1 THEN q[i] ELSE p[i - 1]
  <2>1. /\ Len(c) = Len(q) + Len(p)
        /\ \A i \in 1..(Len(q) + Len(p)) : c[i] = IF i <= Len(q) THEN q[i] ELSE p[i - Len(q)]
    BY <1>2, <1>4, <1>5, ConcatProperties
  <2> QED
    BY <2>1, <1>4, <1>5
<1>7. c[1] = q[1]
  <2>1. 1 \in 1..(1 + n) /\ 1 <= 1
    BY <1>1
  <2> QED
    BY <2>1, <1>6
<1>8. ASSUME NEW i \in 1..n PROVE c[1 + i] = g(i)
  <2>1. PICK j \in 1..(1 + n) : j = 1 + i
    BY <1>1
  <2>2. ~(j <= 1) /\ j - 1 = i
    BY <2>1, <1>1
  <2> QED
    BY <2>1, <2>2, <1>5, <1>6
<1>9. ASSUME NEW i \in 1..(1 + n) PROVE c[i] # <<>>
  <2>1. CASE i = 1
    BY <2>1, <1>4, <1>7
  <2>2. CASE i # 1
    <3>1. i - 1 \in 1..n /\ 1 + (i - 1) = i
      BY <1>1, <2>2
    <3>2. PICK j \in 1..n : j = i - 1
      BY <3>1
    <3>3. c[1 + j] = g(j) /\ 1 + j = i
      BY <3>1, <3>2, <1>8
    <3> QED
      BY <3>3, <1>3
  <2> QED
    BY <2>1, <2>2
<1> QED
  BY <1>1, <1>4, <1>6, <1>7, <1>8, <1>9 DEF c, n, g

\* The first that exists is a name, when any exists.
LEMMA Exists ==
    ASSUME NEW a \in Areas, NEW path \in Paths, InFolderOf(path, a),
           NEW k \in 1..Len(Candidates(a, path)), Candidates(a, path)[k] \in Embedded[a]
    PROVE  IsPathResourceStream(a, path)
<1> DEFINE c == Candidates(a, path)
           I == {i \in 1..Len(c) : c[i] \in Embedded[a]}
<1>1. ResourcesOf(a) = Embedded[a]
  BY StoreNames DEF ResourcesOf
<1>2. ActualResourceName[a][path]
        = LET i == IF I # {} THEN Min(I) ELSE 0
          IN  IF i = 0 THEN <<>> ELSE c[i]
  BY <1>1, PathType DEF ActualResourceName, SelectInSeq, Stores
<1>3. \A i \in 1..Len(c) : c[i] # <<>>
  BY CandidatesAre
<1>4. I # {} /\ I \subseteq Nat
  OBVIOUS
<1>5. Min(I) \in I
  <2> HIDE DEF I
  <2> QED
    BY <1>4, FirstOf
<1>6. Min(I) \in 1..Len(c)
  BY <1>5
<1> HIDE DEF I, c
<1>7. ActualResourceName[a][path] = c[Min(I)]
  <2>1. Min(I) # 0
    BY <1>6
  <2> QED
    BY <1>2, <1>4, <2>1
<1> QED
  BY <1>3, <1>6, <1>7 DEF IsPathResourceStream

\* An area has the key of its folder, and finds what belongs to it.
LEMMA Found ==
    ASSUME NEW a \in Areas, NEW path \in Paths, BelongsTo(path, a)
    PROVE  KeyIsIn[a][path] /\ IsPathResourceStream(a, path)
<1> DEFINE ns == AreaNamespace[a]
           n == Len(ns)
           levels == {m \in 1..n : m > 1 \/ m = n}
<1>1. InFolderOf(path, a)
  BY DEF BelongsTo, InFolderOf
<1>2. KeyIsIn[a][path]
  <2> DEFINE key == Key(a)
  <2>1. key \in Seq(Words) /\ Len(key) > 0 /\ Len(key) \in Nat
    BY KeyType DEF Stores
  <2>2. path \in Seq(Words)
    BY PathType
  <2>3. Len(key) + 2 <= Len(path) /\ \A i \in 1..Len(key) : path[i + 1] = key[i]
    BY <1>1, <2>2, InFolder DEF InFolderOf
  <2> HIDE DEF key
  <2>4. \A i \in 1..Len(key) : i + 1 = 1 + i
    OBVIOUS
  <2>5. Begins(key, path, 1)
    BY <2>1, <2>2, <2>3, <2>4, LenProperties DEF Begins
  <2>6. key \in SubSeqs(path)
    BY <2>1, <2>2, <2>5, InSubSeqs
  <2> QED
    BY <2>6, PathType DEF KeyIsIn, key, Stores
<1>3. \/ Dotted(ns) \o ReplaceAll(Inside(path, a), "/", ".") \in Embedded[a]
      \/ \E m \in levels : Dotted(SubSeq(ns, 1, m)) \o <<".">> \o FileName(path) \in Embedded[a]
  BY DEF BelongsTo
<1>4. n \in Nat /\ Len(Candidates(a, path)) = 1 + n
  BY <1>1, CandidatesAre
<1>5. CASE Dotted(ns) \o ReplaceAll(Inside(path, a), "/", ".") \in Embedded[a]
  <2>1. Candidates(a, path)[1] \in Embedded[a]
    BY <1>1, <1>5, CandidatesAre, FullName
  <2>2. 1 \in 1..Len(Candidates(a, path))
    BY <1>4
  <2> QED
    BY <1>1, <1>2, <2>1, <2>2, Exists
<1>6. CASE \E m \in levels : Dotted(SubSeq(ns, 1, m)) \o <<".">> \o FileName(path) \in Embedded[a]
  <2>1. PICK m \in levels : Dotted(SubSeq(ns, 1, m)) \o <<".">> \o FileName(path) \in Embedded[a]
    BY <1>6
  <2>2. PICK level \in 0..(n - 1) : level = n - m
    <3>1. m \in 1..n
      BY <2>1
    <3> HIDE DEF n, levels
    <3>2. n - m \in 0..(n - 1)
      BY <3>1, <1>4
    <3> QED
      BY <3>2
  <2>3. PICK i \in 1..n : i - 1 = level
    <3>1. level + 1 \in 1..n /\ (level + 1) - 1 = level
      BY <1>4, <2>2
    <3> QED
      BY <3>1
  <2>4. Candidates(a, path)[1 + i] = GetPartiallyQualifiedTypeFromPath(a, path, level)
    BY <1>1, <2>3, CandidatesAre
  <2>5. GetPartiallyQualifiedTypeFromPath(a, path, level) = Dotted(SubSeq(ns, 1, m)) \o <<".">> \o FileName(path)
    <3>1. CASE n - 1 > level
      <4>1. n - level = m
        BY <1>4, <2>2
      <4> HIDE DEF n, ns
      <4>2. GetPartiallyQualifiedTypeFromPath(a, path, level)
              = Dotted(SubSeq(ns, 1, n - level)) \o <<".">> \o FileName(path)
        BY <1>1, <3>1, PartialName DEF n, ns
      <4> QED
        BY <4>1, <4>2
    <3>2. CASE ~(n - 1 > level)
      <4>1. level = n - 1 /\ m = 1 /\ m = n
        BY <1>4, <2>2, <3>2
      <4>2. SubSeq(ns, 1, n) = ns
        BY AreaAssumption, SubSeqFull
      <4>3. GetPartiallyQualifiedTypeFromPath(a, path, level) = Dotted(ns) \o <<".">> \o FileName(path)
        BY <1>1, <4>1, PartialName
      <4> QED
        BY <4>1, <4>2, <4>3
    <3> QED
      BY <3>1, <3>2
  <2>6. PICK k \in 1..Len(Candidates(a, path)) : k = 1 + i
    <3>1. 1 + i \in 1..(1 + n)
      BY <1>4
    <3> QED
      BY <3>1, <1>4
  <2>7. Candidates(a, path)[k] \in Embedded[a]
    BY <2>1, <2>4, <2>5, <2>6
  <2> QED
    BY <1>1, <1>2, <2>7, Exists
<1> QED
  BY <1>3, <1>5, <1>6

\* Another store's key is in a path of an area's folder only when it is a
\* store of the library, or of an area whose name begins the area's.
LEMMA OnlyHomonyms ==
    ASSUME NEW a \in Areas, NEW path \in Paths, InFolderOf(path, a),
           NEW s \in Stores, Key(s) # Key(a),
           KeyIsIn[s][path], IsPathResourceStream(s, path)
    PROVE  Homonym(path, a)
<1>1. CASE s \in Builtins
  BY <1>1 DEF Homonym
<1>2. CASE s \in Areas
  <2> DEFINE na == Len(AreaName[a])
             nb == Len(AreaName[s])
  <2>1. /\ na \in Nat /\ Len(Key(a)) = 3 + na /\ Key(a)[2] = "areas"
        /\ Key(a) = <<"/", "areas", "/">> \o AreaName[a]
        /\ \A i \in 1..na : Key(a)[3 + i] = AreaName[a][i]
    BY KeyOfArea
  <2>2. /\ nb \in Nat /\ Len(Key(s)) = 3 + nb /\ Key(s)[2] = "areas"
        /\ Key(s) \in Seq(Words)
        /\ Key(s) = <<"/", "areas", "/">> \o AreaName[s]
        /\ \A i \in 1..nb : Key(s)[3 + i] = AreaName[s][i]
    BY <1>2, KeyOfArea
  <2>3. AreaName[a] \in Seq(STRING \ {"/"}) /\ AreaName[s] \in Seq(STRING \ {"/"})
    BY <1>2, AreaAssumption
  <2>4. path \in Seq(Words) /\ Len(path) \in Nat /\ DOMAIN path = 1..Len(path)
    BY PathType, LenProperties
  <2>5. /\ 5 + na <= Len(path)
        /\ \A i \in 1..(3 + na) : path[i + 1] = Key(a)[i]
        /\ path[5 + na] = "/"
    <3>1. /\ Len(Key(a)) + 2 <= Len(path)
          /\ \A i \in 1..Len(Key(a)) : path[i + 1] = Key(a)[i]
          /\ path[Len(Key(a)) + 2] = "/"
      BY <2>4, InFolder DEF InFolderOf
    <3>2. Len(Key(a)) + 2 = 5 + na
      BY <2>1
    <3> QED
      BY <3>1, <3>2, <2>1
  <2>6. Key(s) \in SubSeqs(path)
    BY PathType DEF KeyIsIn
  <2> HIDE DEF na, nb
  <2>a. Len(Key(s)) > 0
    BY <2>2
  <2>7. PICK k \in Nat : Begins(Key(s), path, k)
    BY <2>2, <2>4, <2>6, <2>a, InSubSeqs
  <2>8. /\ k + (3 + nb) <= Len(path)
        /\ \A i \in 1..(3 + nb) : Key(s)[i] = path[k + i]
    <3>1. /\ k + Len(Key(s)) <= Len(path)
          /\ \A i \in 1..Len(Key(s)) : Key(s)[i] = path[k + i]
      BY <2>7 DEF Begins
    <3> QED
      BY <3>1, <2>2
  <2>9. k = 1
    <3>1. 2 \in 1..(3 + nb) /\ 2 \in 1..(3 + na) /\ 2 + 1 = 3
      BY <2>1, <2>2
    <3>2. path[k + 2] = "areas" /\ path[3] = "areas"
      BY <3>1, <2>1, <2>2, <2>5, <2>8
    <3>3. k + 2 \in DOMAIN path /\ 3 \in DOMAIN path
      BY <2>1, <2>2, <2>4, <2>5, <2>8
    <3>4. k + 2 = 3
      BY <3>2, <3>3, PathType
    <3> QED
      BY <3>4
  <2>10. \A i \in 1..(3 + nb) : Key(s)[i] = path[i + 1]
    BY <2>8, <2>9
  <2>11. ~(nb > na)
    <3> SUFFICES ASSUME nb > na PROVE FALSE
      OBVIOUS
    <3>1. PICK j \in 1..nb : j = na + 1
      BY <2>1, <2>2
    <3>2. PICK i \in 1..(3 + nb) : i = 3 + j
      BY <2>2
    <3>3. Key(s)[i] = path[i + 1] /\ i + 1 = 5 + na
      BY <3>1, <3>2, <2>1, <2>10
    <3>4. Key(s)[i] = AreaName[s][j]
      BY <3>2, <2>2
    <3>5. AreaName[s][j] \in STRING \ {"/"}
      BY <2>3, ElementOfSeq DEF nb
    <3> QED
      BY <3>3, <3>4, <3>5, <2>5
  <2>12. ASSUME NEW i \in 1..nb PROVE AreaName[s][i] = AreaName[a][i]
    <3>1. PICK j \in 1..(3 + nb) : j = 3 + i
      BY <2>2
    <3>2. j \in 1..(3 + na) /\ i \in 1..na
      BY <3>1, <2>1, <2>2, <2>11
    <3>3. Key(s)[j] = Key(a)[j]
      BY <3>2, <2>5, <2>10
    <3> QED
      BY <3>1, <3>2, <3>3, <2>1, <2>2
  <2>13. nb # na
    <3> SUFFICES ASSUME nb = na PROVE FALSE
      OBVIOUS
    <3>1. AreaName[s] = AreaName[a]
      BY <2>3, <2>12, SeqEqual DEF na, nb
    <3> QED
      BY <3>1, <2>1, <2>2
  <2>14. nb <= na
    BY <2>1, <2>2, <2>11
  <2>15. SubSeq(AreaName[s], 1, nb) = AreaName[s]
    BY <2>3, SubSeqFull DEF nb
  <2>16. SubSeq(AreaName[a], 1, nb) = AreaName[s]
    <3> DEFINE u == SubSeq(AreaName[a], 1, nb)
    <3>1. \A i \in 1..nb : AreaName[a][i] \in STRING \ {"/"}
      <4>1. \A i \in 1..na : AreaName[a][i] \in STRING \ {"/"}
        BY <2>3, ElementOfSeq DEF na
      <4> QED
        BY <4>1, <2>1, <2>2, <2>14
    <3>2. 1 \in Int /\ nb \in Int
      BY <2>2
    <3>3. /\ u \in Seq(STRING \ {"/"})
          /\ Len(u) = IF 1 <= nb THEN nb - 1 + 1 ELSE 0
          /\ \A i \in 1..(nb - 1 + 1) : u[i] = AreaName[a][1 + i - 1]
      BY <3>1, <3>2, SubSeqProperties
    <3> HIDE DEF u
    <3>4. Len(u) = nb /\ \A i \in 1..nb : u[i] = AreaName[a][i]
      BY <3>3, <2>2
    <3>5. u = AreaName[s]
      BY <3>3, <3>4, <2>3, <2>12, SeqEqual DEF nb
    <3> QED
      BY <3>5 DEF u
  <2>17. IsPrefix(AreaName[s], AreaName[a]) /\ AreaName[s] # AreaName[a]
    BY <2>13, <2>14, <2>15, <2>16 DEF IsPrefix, na, nb
  <2>18. s # a
    BY <2>17
  <2> QED
    BY <1>2, <2>17, <2>18 DEF Homonym, IsStrictPrefix
<1> QED
  BY <1>1, <1>2 DEF Stores

\* The store that serves a path has its key there and finds it; none does
\* when there is no store for it.
LEMMA StoreFound ==
    ASSUME TypeOK, NEW path
    PROVE  \/ /\ StoreFromVirtualPath(path) = Null
              /\ \A i \in DOMAIN stores :
                    ~(KeyIsIn[stores[i]][path] /\ IsPathResourceStream(stores[i], path))
           \/ \E i \in DOMAIN stores :
                 /\ StoreFromVirtualPath(path) = stores[i]
                 /\ KeyIsIn[stores[i]][path] /\ IsPathResourceStream(stores[i], path)
<1> DEFINE I == {i \in 1..Len(stores) :
                    KeyIsIn[stores[i]][path] /\ IsPathResourceStream(stores[i], path)}
<1>1. StoreFromVirtualPath(path)
        = LET i == IF I # {} THEN Min(I) ELSE 0
          IN  IF i = 0 THEN Null ELSE stores[i]
  BY DEF StoreFromVirtualPath, SelectInSeq
<1>2. Len(stores) \in Nat /\ DOMAIN stores = 1..Len(stores)
  BY LenProperties DEF TypeOK
<1>3. I \subseteq 1..Len(stores)
  OBVIOUS
<1>4. CASE I = {}
  BY <1>1, <1>2, <1>4
<1>5. CASE I # {}
  <2>1. Min(I) \in I
    <3> HIDE DEF I
    <3>1. I \subseteq Nat
      BY <1>2, <1>3
    <3> QED
      BY <3>1, <1>5, FirstOf
  <2>2. Min(I) # 0
    BY <2>1, <1>2, <1>3
  <2>3. StoreFromVirtualPath(path) = stores[Min(I)]
    <3> HIDE DEF I
    <3> QED
      BY <1>1, <1>5, <2>2
  <2>4. \E i \in I : i = Min(I)
    BY <2>1
  <2> QED
    BY <1>2, <2>3, <2>4
<1> QED
  BY <1>4, <1>5

LEMMA OwnStoreFound ==
    ASSUME TypeOK, Registered, done = Areas,
           NEW a \in Areas, NEW path \in Paths, BelongsTo(path, a), ~Homonym(path, a)
    PROVE  StoreFromVirtualPath(path) = a
<1>1. KeyIsIn[a][path] /\ IsPathResourceStream(a, path)
  BY Found
<1>2. PICK i \in DOMAIN stores : stores[i] = a
  BY DEF Registered
<1>3. PICK j \in DOMAIN stores :
         /\ StoreFromVirtualPath(path) = stores[j]
         /\ KeyIsIn[stores[j]][path] /\ IsPathResourceStream(stores[j], path)
  BY <1>1, <1>2, StoreFound
<1>4. stores[j] \in Stores
  BY ElementOfSeq, LenProperties DEF TypeOK
<1>5. InFolderOf(path, a)
  BY DEF BelongsTo, InFolderOf
<1>6. Key(stores[j]) = Key(a)
  BY <1>3, <1>4, <1>5, OnlyHomonyms
<1>7. i = j
  BY <1>2, <1>6 DEF Registered, OwnKeys
<1> QED
  BY <1>2, <1>3, <1>7

\* The paths of content files lie in no folder of an area, nor does no path.
LEMMA NotInFolder ==
    ASSUME NEW a \in Areas, NEW path,
           path = <<>> \/ \E file \in Files : path = ContentPath(file)
    PROVE  ~BelongsTo(path, a)
<1> SUFFICES ASSUME InFolderOf(path, a) PROVE FALSE
  BY DEF BelongsTo, InFolderOf
<1>1. Len(Key(a)) \in Nat /\ Len(Key(a)) >= 2 /\ Key(a)[1] = "/"
  BY KeyType DEF Stores
<1>2. CASE path = <<>>
  <2>1. path \in Seq(Words) /\ Len(path) = 0
    BY <1>2
  <2>2. Len(Key(a)) + 2 <= Len(path)
    BY <2>1, InFolder DEF InFolderOf
  <2> QED
    BY <1>1, <2>1, <2>2
<1>3. ASSUME NEW file \in Files, path = ContentPath(file) PROVE FALSE
  <2> DEFINE W == Words \cup {"content"}
             front == <<"~", ".", "content", ".">>
  <2>1. path = front \o file
    BY <1>3 DEF ContentPath
  <2>2. file \in Seq(W) /\ front \in Seq(W) /\ Len(front) = 4 /\ front[2] = "."
    <3>1. file \in Seq(Words)
      BY PathAssumption, OfStrings
    <3>2. Words \subseteq W
      OBVIOUS
    <3>3. file \in Seq(W)
      BY <3>1, <3>2, SeqMonotonic
    <3> QED
      BY <3>3, WordsType
  <2>3. path \in Seq(W) /\ path[2] = "." /\ Len(path) \in Nat
    <3> HIDE DEF W, front
    <3>1. /\ path \in Seq(W) /\ Len(path) = Len(front) + Len(file)
          /\ \A i \in 1..(Len(front) + Len(file)) :
                path[i] = IF i <= Len(front) THEN front[i] ELSE file[i - Len(front)]
      BY <2>1, <2>2, ConcatProperties
    <3>2. Len(file) \in Nat
      BY <2>2, LenProperties
    <3>3. 2 \in 1..(4 + Len(file)) /\ 2 <= 4
      BY <3>2
    <3> QED
      BY <2>2, <3>1, <3>2, <3>3
  <2>4. IsPrefix(<<"~">> \o Key(a) \o <<"/">>, path)
    BY DEF InFolderOf
  <2>5. Key(a) \in Seq(Words)
    BY KeyType DEF Stores
  <2> DEFINE c == <<"~">> \o Key(a)
             q == c \o <<"/">>
  <2>6. /\ c \in Seq(Words) /\ Len(c) = 1 + Len(Key(a))
        /\ c[2] = Key(a)[1]
    <3>1. <<"~">> \in Seq(Words) /\ Len(<<"~">>) = 1
      BY WordsType
    <3>2. /\ c \in Seq(Words) /\ Len(c) = Len(<<"~">>) + Len(Key(a))
          /\ \A i \in 1..(Len(<<"~">>) + Len(Key(a))) :
                c[i] = IF i <= Len(<<"~">>) THEN <<"~">>[i] ELSE Key(a)[i - Len(<<"~">>)]
      BY <3>1, <2>5, ConcatProperties
    <3>3. 2 \in 1..(1 + Len(Key(a))) /\ 2 - 1 = 1
      BY <1>1
    <3> HIDE DEF c
    <3> QED
      BY <3>1, <3>2, <3>3
  <2> HIDE DEF c
  <2>7. q[2] = "/" /\ q \in Seq(Words) /\ Len(q) >= 4
    <3>1. <<"/">> \in Seq(Words) /\ Len(<<"/">>) = 1
      BY WordsType
    <3>2. /\ q \in Seq(Words) /\ Len(q) = Len(c) + Len(<<"/">>)
          /\ \A i \in 1..(Len(c) + Len(<<"/">>)) :
                q[i] = IF i <= Len(c) THEN c[i] ELSE <<"/">>[i - Len(c)]
      BY <3>1, <2>6, ConcatProperties
    <3>3. 2 \in 1..(Len(c) + 1) /\ 2 <= Len(c)
      BY <1>1, <2>6
    <3> HIDE DEF q
    <3> QED
      BY <3>1, <3>2, <3>3, <2>6, <1>1
  <2>8. Len(q) <= Len(path) /\ SubSeq(path, 1, Len(q)) = q
    <3>1. IsPrefix(q, path)
      BY <2>4 DEF c
    <3> HIDE DEF q
    <3> QED
      BY <3>1, <2>7, SubSeqFull DEF IsPrefix
  <2> HIDE DEF q
  <2>9. PICK l \in Nat : l = Len(q)
    BY <2>7, LenProperties
  <2>10. \A i \in 1..l : path[i] \in W
    <3>1. \A i \in 1..Len(path) : path[i] \in W
      BY <2>3, ElementOfSeq
    <3> QED
      BY <3>1, <2>3, <2>8, <2>9
  <2>11. \A i \in 1..(l - 1 + 1) : SubSeq(path, 1, l)[i] = path[1 + i - 1]
    BY <2>9, <2>10, SubSeqProperties
  <2>12. 2 \in 1..(l - 1 + 1)
    BY <2>7, <2>9
  <2>13. SubSeq(path, 1, l)[2] = path[2]
    BY <2>11, <2>12
  <2> QED
    BY <2>3, <2>7, <2>8, <2>9, <2>13
<1> QED
  BY <1>2, <1>3

-----------------------------------------------------------------------------
(* The steps *)

\* What is served is right as long as the response and the host's wishes
\* stay; no response is right whatever they are.
LEMMA SameResponse ==
    /\ OwnAreaServes /\ UNCHANGED response => OwnAreaServes'
    /\ PagesShowSettings /\ UNCHANGED <<response, asked>> => PagesShowSettings'
BY DEF OwnAreaServes, PagesShowSettings

LEMMA NothingServed ==
    response' = NoResponse => OwnAreaServes' /\ PagesShowSettings'
<1> SUFFICES ASSUME response' = NoResponse PROVE OwnAreaServes' /\ PagesShowSettings'
  OBVIOUS
<1>1. response'.path = <<>> /\ response'.from = Null
  BY DEF NoResponse
<1>2. OwnAreaServes'
  BY <1>1, NotInFolder DEF OwnAreaServes
<1>3. PagesShowSettings'
  BY <1>1, StoreNames DEF PagesShowSettings
<1> QED
  BY <1>2, <1>3

LEMMA InitHolds == Init => IInv
<1> SUFFICES ASSUME Init PROVE IInv
  OBVIOUS
<1>1. DOMAIN stores = {1} /\ stores[1] = "inputbuilders" /\ stores \in Seq(Stores)
  BY StoreNames DEF Init
<1>2. TypeOK
  <2>1. IsInjective(stores)
    BY <1>1 DEF IsInjective
  <2>2. NoPage = NoPage /\ response.from = Null /\ Null \in Stores \cup {Null, "disk", "throws"}
    BY DEF Init, NoResponse
  <2>3. asked \in [MapTypes -> [master: MasterValues, title: Values, body: Values]]
    BY DEF Init, Unasked, MasterValues, Values
  <2>4. settings \in 0..MaxSettings
    BY BoundAssumption DEF Init
  <2> QED
    BY <1>1, <2>1, <2>2, <2>3, <2>4 DEF Init, TypeOK, PCs
<1>3. Registered
  <2>1. "inputbuilders" \notin Areas /\ "inputbuilders" # "areas"
    BY StoreNames DEF Builtins
  <2> QED
    BY <1>1, <2>1 DEF Init, Registered, OwnKeys
<1>4. Told
  BY DEF Init, Told
<1>5. OwnAreaServes
  BY NotInFolder DEF Init, OwnAreaServes, NoResponse
<1>6. PagesShowSettings
  BY StoreNames DEF Init, PagesShowSettings, NoResponse
<1> QED
  BY <1>2, <1>3, <1>4, <1>5, <1>6 DEF IInv

\* n has s and the stores of st, where they were.
Extends(n, st, s) ==
    /\ \A i \in DOMAIN st : i \in DOMAIN n /\ n[i] = st[i]
    /\ \A i \in DOMAIN n : n[i] = s \/ (i \in DOMAIN st /\ n[i] = st[i])
    /\ \E i \in DOMAIN n : n[i] = s

\* A store under a new key.
LEMMA AppendStore ==
    ASSUME NEW st \in Seq(Stores), NEW s \in Stores, OwnKeys(st),
           ~\E i \in DOMAIN st : Key(st[i]) = Key(s)
    PROVE  /\ Append(st, s) \in Seq(Stores) /\ IsInjective(Append(st, s))
           /\ OwnKeys(Append(st, s)) /\ Extends(Append(st, s), st, s)
<1> DEFINE n == Append(st, s)
<1>1. Len(st) \in Nat /\ DOMAIN st = 1..Len(st)
  BY LenProperties
<1>2. /\ n \in Seq(Stores) /\ Len(n) = Len(st) + 1
      /\ \A i \in 1..Len(st) : n[i] = st[i]
      /\ n[Len(st) + 1] = s
  BY AppendProperties
<1>3. DOMAIN n = 1..(Len(st) + 1)
  BY <1>2, LenProperties
<1> HIDE DEF n
<1>4. \A i \in DOMAIN n : (i = Len(st) + 1 /\ n[i] = s) \/ (i \in DOMAIN st /\ n[i] = st[i])
  BY <1>1, <1>2, <1>3
<1>5. OwnKeys(n)
  BY <1>4 DEF OwnKeys
<1>6. IsInjective(n)
  BY <1>5 DEF OwnKeys, IsInjective
<1>7. Len(st) + 1 \in DOMAIN n /\ \A i \in DOMAIN st : i \in DOMAIN n /\ n[i] = st[i]
  BY <1>1, <1>2, <1>3
<1>8. Extends(n, st, s)
  BY <1>2, <1>4, <1>7 DEF Extends
<1>9. n \in Seq(Stores)
  BY <1>2
<1> QED
  BY <1>5, <1>6, <1>8, <1>9 DEF n

LEMMA RegisterAreaKeeps == IInv /\ RegisterArea => IInv'
<1> SUFFICES ASSUME IInv, RegisterArea PROVE IInv'
  OBVIOUS
<1>1. area' \in Areas /\ pc' \in {"routes", "failed"} /\ UNCHANGED <<stores, engine, routes, done, default, maps, settings, asked, response>>
  BY DEF RegisterArea
<1>2. TypeOK'
  BY <1>1 DEF IInv, TypeOK, PCs
<1>3. Registered' /\ Told'
  BY <1>1 DEF IInv, Registered, Told
<1> QED
  BY <1>1, <1>2, <1>3, SameResponse DEF IInv

LEMMA RegisterDefaultRoutesKeeps == IInv /\ RegisterDefaultRoutes => IInv'
<1> SUFFICES ASSUME IInv, RegisterDefaultRoutes PROVE IInv'
  OBVIOUS
<1>1. /\ area \in Areas /\ pc' \in {"resources", "failed"}
      /\ routes' \subseteq routes \cup {AreaName[area]}
      /\ UNCHANGED <<stores, engine, area, done, default, maps, settings, asked, response>>
  BY DEF RegisterDefaultRoutes, Fail, IInv, TypeOK
<1>2. AreaName[area] \in Range(AreaName)
  BY <1>1, AreaAssumption DEF Range
<1>3. TypeOK'
  BY <1>1, <1>2 DEF IInv, TypeOK, PCs
<1>4. Registered' /\ Told'
  BY <1>1 DEF IInv, Registered, Told
<1> QED
  BY <1>1, <1>3, <1>4, SameResponse DEF IInv

LEMMA EnsureAreasWebConfigExistsKeeps == IInv /\ EnsureAreasWebConfigExists => IInv'
<1> SUFFICES ASSUME IInv, EnsureAreasWebConfigExists PROVE IInv'
  OBVIOUS
<1>1. /\ area \in Areas /\ pc = "webconfig" /\ pc' \in {"idle", "failed"}
      /\ done' \subseteq done \cup {area}
      /\ UNCHANGED <<stores, engine, routes, area, default, maps, settings, asked, response>>
  BY DEF EnsureAreasWebConfigExists, Fail, IInv, TypeOK
<1>2. TypeOK'
  BY <1>1 DEF IInv, TypeOK, PCs
<1>3. Registered' /\ Told'
  BY <1>1 DEF IInv, Registered, Told
<1> QED
  BY <1>1, <1>2, <1>3, SameResponse DEF IInv

LEMMA BootStrapKeeps == IInv /\ BootStrap => IInv'
<1> SUFFICES ASSUME IInv, BootStrap PROVE IInv'
  OBVIOUS
<1>1. /\ area \in Areas /\ pc = "viewengine" /\ pc' = "webconfig" /\ engine' = TRUE
      /\ stores' = IF engine THEN stores ELSE Append(stores, "areas")
      /\ UNCHANGED <<routes, area, done, default, maps, settings, asked, response>>
  BY DEF BootStrap, IInv, TypeOK
<1>2. stores \in Seq(Stores) /\ "areas" \in Stores /\ "areas" \notin Areas
  BY StoreNames DEF IInv, TypeOK, Builtins
<1>3. CASE engine
  <2>1. TypeOK'
    BY <1>1, <1>3 DEF IInv, TypeOK, PCs
  <2>2. Registered' /\ Told'
    BY <1>1, <1>3 DEF IInv, Registered, Told
  <2> QED
    BY <1>1, <2>1, <2>2, SameResponse DEF IInv
<1>4. CASE ~engine
  <2>1. ~\E i \in DOMAIN stores : Key(stores[i]) = Key("areas")
    <3>1. \A i \in DOMAIN stores : stores[i] \in Stores
      BY <1>2, ElementOfSeq, LenProperties
    <3> QED
      BY <1>4, <3>1, AreasKey DEF IInv, Registered
  <2>2. stores' = Append(stores, "areas")
    BY <1>1, <1>4
  <2>3. /\ stores' \in Seq(Stores) /\ IsInjective(stores')
        /\ OwnKeys(stores') /\ Extends(stores', stores, "areas")
    BY <1>2, <2>1, <2>2, AppendStore DEF IInv, Registered
  <2>4. TypeOK'
    BY <1>1, <2>3 DEF IInv, TypeOK, PCs
  <2>5. Registered'
    BY <1>1, <1>2, <2>3 DEF IInv, Registered, OwnKeys, Extends
  <2>6. Told'
    BY <1>1 DEF IInv, Told
  <2> QED
    BY <1>1, <2>4, <2>5, <2>6, SameResponse DEF IInv
<1> QED
  BY <1>3, <1>4 DEF IInv, TypeOK

LEMMA RegisterAreaEmbeddedResourcesKeeps == IInv /\ RegisterAreaEmbeddedResources => IInv'
<1> SUFFICES ASSUME IInv, RegisterAreaEmbeddedResources PROVE IInv'
  OBVIOUS
<1>1. /\ area \in Areas /\ area \in Stores /\ pc = "resources"
      /\ maps' = IF MapType[area] = NoMap THEN maps
                 ELSE [maps EXCEPT ![MapType[area]] = Map(MapType[area])]
      /\ UNCHANGED <<engine, routes, area, done, default, settings, asked, response>>
  BY DEF RegisterAreaEmbeddedResources, IInv, TypeOK, Stores
<1>2. \/ pc' = "failed" /\ stores' = stores
      \/ /\ pc' = "viewengine" /\ stores' = Append(stores, area)
         /\ ~\E i \in DOMAIN stores : Key(stores[i]) = Key(area)
  BY DEF RegisterAreaEmbeddedResources, Fail
<1>3. /\ maps' \in [MapTypes -> Maps \cup {NoMap}]
      /\ \A type \in MapTypes : maps[type] # NoMap => maps'[type] = maps[type]
      /\ MapType[area] # NoMap => maps'[MapType[area]] # NoMap
  <2>1. maps \in [MapTypes -> Maps \cup {NoMap}] /\ MapType[area] \in MapTypes \cup {NoMap}
    BY <1>1, AreaAssumption DEF IInv, TypeOK
  <2>2. CASE MapType[area] = NoMap
    BY <1>1, <2>1, <2>2
  <2>3. CASE MapType[area] # NoMap
    <3>1. Map(MapType[area]) \in Maps /\ Map(MapType[area]) # NoMap
      BY <2>1, <2>3, MapGiven, MapAssumption DEF IInv
    <3>2. maps[MapType[area]] # NoMap => Map(MapType[area]) = maps[MapType[area]]
      BY DEF Map
    <3> QED
      BY <1>1, <2>1, <2>3, <3>1, <3>2
  <2> QED
    BY <2>2, <2>3
<1>4. Told'
  <2> SUFFICES ASSUME NEW type \in MapTypes
               PROVE  IF maps'[type] = NoMap THEN asked[type] = Unasked
                      ELSE /\ asked[type].master # Null => maps'[type].master = asked[type].master
                           /\ asked[type].title # Null => MapsTo(maps'[type], TitleID, asked[type].title)
                           /\ asked[type].body # Null => MapsTo(maps'[type], BodyID, asked[type].body)
    BY <1>1 DEF Told
  <2>1. CASE maps[type] # NoMap
    BY <1>3, <2>1 DEF IInv, Told
  <2>2. CASE maps[type] = NoMap
    BY <2>2 DEF IInv, Told, Unasked
  <2> QED
    BY <2>1, <2>2
<1>5. OwnAreaServes' /\ PagesShowSettings'
  BY <1>1, SameResponse DEF IInv
<1>6. CASE pc' = "failed" /\ stores' = stores
  <2>1. TypeOK'
    BY <1>1, <1>3, <1>6 DEF IInv, TypeOK, PCs
  <2>2. Registered'
    <3>1. ASSUME NEW i \in DOMAIN stores, stores[i] \in Areas, MapType[stores[i]] # NoMap
          PROVE  maps'[MapType[stores[i]]] # NoMap
      BY <1>3, <3>1, AreaAssumption DEF IInv, Registered
    <3> QED
      BY <1>1, <1>6, <3>1 DEF IInv, Registered
  <2> QED
    BY <1>4, <1>5, <2>1, <2>2 DEF IInv
<1>7. CASE /\ pc' = "viewengine" /\ stores' = Append(stores, area)
           /\ ~\E i \in DOMAIN stores : Key(stores[i]) = Key(area)
  <2>1. /\ stores' \in Seq(Stores) /\ IsInjective(stores')
        /\ OwnKeys(stores') /\ Extends(stores', stores, area)
    BY <1>1, <1>7, AppendStore DEF IInv, Registered, TypeOK
  <2>2. TypeOK'
    BY <1>1, <1>3, <1>7, <2>1 DEF IInv, TypeOK, PCs
  <2>3. Registered'
    <3>1. ASSUME NEW i \in DOMAIN stores', stores'[i] \in Areas, MapType[stores'[i]] # NoMap
          PROVE  maps'[MapType[stores'[i]]] # NoMap
      <4>1. CASE stores'[i] = area
        BY <1>3, <3>1, <4>1
      <4>2. CASE i \in DOMAIN stores /\ stores'[i] = stores[i]
        BY <1>3, <3>1, <4>2, AreaAssumption DEF IInv, Registered
      <4> QED
        BY <2>1, <4>1, <4>2 DEF Extends
    <3>2. ~engine' => \A i \in DOMAIN stores' : stores'[i] # "areas"
      BY <1>1, <2>1, StoreNames DEF IInv, Registered, Extends, Builtins
    <3>3. \A a \in done' : \E i \in DOMAIN stores' : stores'[i] = a
      BY <1>1, <2>1 DEF IInv, Registered, Extends
    <3>4. \E i \in DOMAIN stores' : stores'[i] = area'
      BY <1>1, <2>1 DEF Extends
    <3> QED
      BY <2>1, <3>1, <3>2, <3>3, <3>4 DEF Registered
  <2> QED
    BY <1>4, <1>5, <2>2, <2>3 DEF IInv
<1> QED
  BY <1>2, <1>6, <1>7

LEMMA MapAllKeeps == IInv /\ MapAll => IInv'
<1> SUFFICES ASSUME IInv, MapAll PROVE IInv'
  OBVIOUS
<1>1. /\ pc = "idle" /\ settings < MaxSettings /\ settings' = settings + 1
      /\ response' = NoResponse
      /\ UNCHANGED <<stores, engine, routes, pc, area, done, maps, asked>>
      /\ default' \in {NewMap} \cup
            (IF default = NoMap THEN {} ELSE {With(default, c) : c \in Settable})
  BY DEF MapAll, Setting
<1>2. default' \in Maps
  BY <1>1, NewMapType, WithKeeps DEF IInv, TypeOK
<1>3. settings' \in 0..MaxSettings
  BY <1>1, BoundAssumption DEF IInv, TypeOK
<1>4. response'.from \in Stores \cup {Null, "disk", "throws"}
  BY <1>1 DEF NoResponse
<1>5. TypeOK'
  BY <1>1, <1>2, <1>3, <1>4 DEF IInv, TypeOK
<1>6. Registered' /\ Told'
  BY <1>1 DEF IInv, Registered, Told
<1> QED
  BY <1>1, <1>5, <1>6, NothingServed DEF IInv

LEMMA SetMapKeeps == IInv /\ SetMap => IInv'
<1> SUFFICES ASSUME IInv, SetMap PROVE IInv'
  OBVIOUS
<1>1. /\ pc = "idle" /\ settings < MaxSettings /\ settings' = settings + 1
      /\ response' = NoResponse
      /\ UNCHANGED <<stores, engine, routes, pc, area, done, default>>
  BY DEF SetMap, Setting
<1>2. PICK type \in MapTypes, c \in Settable :
         /\ maps' = [maps EXCEPT ![type] = With(Map(type), c)]
         /\ asked' = [asked EXCEPT ![type][c[1]] = c[2]]
  BY DEF SetMap
<1> DEFINE old == asked[type]
           new == asked'[type]
           map == Map(type)
           W == [master: MasterValues, title: Values, body: Values]
<1>3. /\ maps \in [MapTypes -> Maps \cup {NoMap}]
      /\ asked \in [MapTypes -> W] /\ old \in W
  BY DEF IInv, TypeOK
<1>4. map \in Maps
  BY MapGiven DEF IInv
<1>5. /\ maps[type] # NoMap => map = maps[type]
      /\ maps[type] = NoMap => old = Unasked
  BY DEF Map, IInv, Told
<1>6. /\ old.master # Null => map.master = old.master
      /\ old.title # Null => MapsTo(map, TitleID, old.title)
      /\ old.body # Null => MapsTo(map, BodyID, old.body)
  BY <1>5 DEF IInv, Told, Unasked
<1>7. With(map, c) \in Maps /\ c[1] \in {"master", "title", "body"}
  BY <1>4, WithKeeps
<1>8. maps' \in [MapTypes -> Maps \cup {NoMap}] /\ maps'[type] = With(map, c) /\ maps'[type] # NoMap
  BY <1>2, <1>3, <1>7, MapAssumption
<1>9. /\ new = [old EXCEPT ![c[1]] = c[2]]
      /\ \A other \in MapTypes \ {type} : asked'[other] = asked[other] /\ maps'[other] = maps[other]
      /\ DOMAIN asked' = MapTypes
      /\ asked' = [asked EXCEPT ![type] = new]
  BY <1>2, <1>3
<1> HIDE DEF old, new, map
<1>10. /\ new \in W
       /\ new.master # Null => maps'[type].master = new.master
       /\ new.title # Null => MapsTo(maps'[type], TitleID, new.title)
       /\ new.body # Null => MapsTo(maps'[type], BodyID, new.body)
  <2>1. CASE c[1] = "master"
    <3>1. new = [old EXCEPT !.master = c[2]]
      BY <1>9, <2>1
    <3>2. new.master = c[2] /\ new.title = old.title /\ new.body = old.body
      BY <3>1, <1>3
    <3>3. c[2] \in MasterValues
      BY <1>4, <2>1, WithKeeps
    <3>4. new \in W
      BY <3>1, <3>3, <1>3
    <3> QED
      BY <3>2, <3>4, <2>1, <1>4, <1>6, <1>8, WithKeeps
  <2>2. CASE c[1] = "title"
    <3>1. new = [old EXCEPT !.title = c[2]]
      BY <1>9, <2>2
    <3>2. new.title = c[2] /\ new.master = old.master /\ new.body = old.body
      BY <3>1, <1>3
    <3>3. c[2] \in Values
      BY <1>4, <2>2, WithKeeps
    <3>4. new \in W /\ old.body \in Values
      BY <3>1, <3>3, <1>3
    <3> QED
      BY <3>2, <3>4, <2>2, <1>4, <1>6, <1>8, WithKeeps
  <2>3. CASE c[1] = "body"
    <3>1. new = [old EXCEPT !.body = c[2]]
      BY <1>9, <2>3
    <3>2. new.body = c[2] /\ new.master = old.master /\ new.title = old.title
      BY <3>1, <1>3
    <3>3. c[2] \in Values
      BY <1>4, <2>3, WithKeeps
    <3>4. new \in W /\ old.title \in Values
      BY <3>1, <3>3, <1>3
    <3> QED
      BY <3>2, <3>4, <2>3, <1>4, <1>6, <1>8, WithKeeps
  <2> QED
    BY <1>7, <2>1, <2>2, <2>3
<1>11. asked' \in [MapTypes -> W]
  <2> HIDE DEF W
  <2> QED
    BY <1>3, <1>9, <1>10
<1>12. TypeOK'
  <2>1. settings' \in 0..MaxSettings
    BY <1>1, BoundAssumption DEF IInv, TypeOK
  <2>2. response'.from \in Stores \cup {Null, "disk", "throws"}
    BY <1>1 DEF NoResponse
  <2> QED
    BY <1>1, <1>8, <1>11, <2>1, <2>2 DEF IInv, TypeOK
<1>13. Registered'
  <2>1. \A t \in MapTypes : maps[t] # NoMap => maps'[t] # NoMap
    BY <1>8, <1>9
  <2>2. ASSUME NEW i \in DOMAIN stores, stores[i] \in Areas, MapType[stores[i]] # NoMap
        PROVE  maps'[MapType[stores[i]]] # NoMap
    BY <2>1, <2>2, AreaAssumption DEF IInv, Registered
  <2> QED
    BY <1>1, <2>2 DEF IInv, Registered
<1>14. Told'
  <2> SUFFICES ASSUME NEW t \in MapTypes
               PROVE  IF maps'[t] = NoMap THEN asked'[t] = Unasked
                      ELSE /\ asked'[t].master # Null => maps'[t].master = asked'[t].master
                           /\ asked'[t].title # Null => MapsTo(maps'[t], TitleID, asked'[t].title)
                           /\ asked'[t].body # Null => MapsTo(maps'[t], BodyID, asked'[t].body)
    BY DEF Told
  <2>1. CASE t = type
    BY <2>1, <1>8, <1>10 DEF new
  <2>2. CASE t # type
    BY <2>2, <1>9 DEF IInv, Told
  <2> QED
    BY <2>1, <2>2
<1> QED
  BY <1>1, <1>12, <1>13, <1>14, NothingServed DEF IInv

\* A page an area serves has been through the area's map.
LEMMA PageShows ==
    ASSUME TypeOK, Registered, Told, done = Areas,
           NEW s \in Areas, MapType[s] # NoMap, NEW path, Page(s, path) # NoPage
    PROVE  LET wanted == asked[MapType[s]]
               page == Page(s, path)
           IN  /\ wanted.master # Null => page.master = wanted.master
               /\ wanted.title \notin {Null, TitleID, BodyID} => page.title = wanted.title
               /\ wanted.body \notin {Null, TitleID, BodyID} => page.body = wanted.body
<1> DEFINE type == MapType[s]
           wanted == asked[type]
<1>1. type \in MapTypes
  BY AreaAssumption
<1>2. maps[type] # NoMap
  BY DEF Registered
<1>3. maps[type] \in Maps
  BY <1>1, <1>2 DEF TypeOK
<1>4. Page(s, path) = Transform(maps[type])
  BY StoreNames DEF Page
<1>5. /\ wanted.master # Null => maps[type].master = wanted.master
      /\ wanted.title # Null => MapsTo(maps[type], TitleID, wanted.title)
      /\ wanted.body # Null => MapsTo(maps[type], BodyID, wanted.body)
  BY <1>1, <1>2 DEF Told
<1> HIDE DEF type, wanted
<1> QED
  BY <1>3, <1>4, <1>5, TransformShows DEF type, wanted

\* How an answer keeps what the response promises.
LEMMA AnswerKeeps ==
    ASSUME IInv, Ready, NEW path, NEW from, NEW name, NEW page,
           Answer(path, from, name, page),
           from \in Stores \cup {Null, "disk", "throws"},
           from \in Areas /\ MapType[from] # NoMap =>
               \E p : page = Page(from, p),
           \A a \in Areas :
               BelongsTo(path, a) /\ path \notin OnDisk /\ ~Homonym(path, a) => from = a
    PROVE  IInv'
<1>1. /\ response' = [path |-> path, from |-> from, name |-> name, page |-> page]
      /\ UNCHANGED <<stores, engine, routes, pc, area, done, default, maps, settings, asked>>
  BY DEF Answer
<1>2. response'.path = path /\ response'.from = from /\ response'.page = page
  BY <1>1
<1>3. TypeOK'
  BY <1>1, <1>2 DEF IInv, TypeOK
<1>4. Registered' /\ Told'
  BY <1>1 DEF IInv, Registered, Told
<1>5. OwnAreaServes'
  BY <1>2 DEF OwnAreaServes
<1>6. PagesShowSettings'
  <2> SUFFICES ASSUME from \in Areas, MapType[from] # NoMap, page # NoPage
               PROVE  LET wanted == asked[MapType[from]]
                      IN  /\ wanted.master # Null => page.master = wanted.master
                          /\ wanted.title \notin {Null, TitleID, BodyID} => page.title = wanted.title
                          /\ wanted.body \notin {Null, TitleID, BodyID} => page.body = wanted.body
    BY <1>1, <1>2 DEF PagesShowSettings
  <2>1. PICK p : page = Page(from, p)
    OBVIOUS
  <2>2. TypeOK /\ Registered /\ Told /\ done = Areas
    BY DEF IInv, Ready
  <2> QED
    BY <2>1, <2>2, PageShows
<1> QED
  BY <1>3, <1>4, <1>5, <1>6 DEF IInv

LEMMA GetFileKeeps == IInv /\ GetFile => IInv'
<1> SUFFICES ASSUME IInv, GetFile PROVE IInv'
  OBVIOUS
<1>1. Ready /\ TypeOK /\ Registered /\ done = Areas
  BY DEF GetFile, IInv, Ready
<1>2. PICK path \in Paths :
         LET s == StoreFromVirtualPath(path)
         IN  IF path \in OnDisk THEN Answer(path, "disk", path, NoPage)
             ELSE IF s = Null THEN Answer(path, Null, <<>>, NoPage)
             ELSE Answer(path, s, ActualResourceName[s][path], Page(s, path))
  BY DEF GetFile
<1> DEFINE s == StoreFromVirtualPath(path)
<1>3. \A a \in Areas : BelongsTo(path, a) /\ ~Homonym(path, a) => s = a
  BY <1>1, OwnStoreFound
<1>4. s = Null \/ s \in Stores
  <2>1. \A i \in DOMAIN stores : stores[i] \in Stores
    BY <1>1, ElementOfSeq, LenProperties DEF TypeOK
  <2> QED
    BY <1>1, <2>1, StoreFound
<1> HIDE DEF s
<1>5. CASE path \in OnDisk
  <2>1. Answer(path, "disk", path, NoPage)
    BY <1>2, <1>5
  <2>2. "disk" \notin Areas
    BY StoreNames
  <2> QED
    BY <1>1, <1>5, <2>1, <2>2, AnswerKeeps
<1>6. CASE path \notin OnDisk /\ s = Null
  <2>1. Answer(path, Null, <<>>, NoPage)
    BY <1>2, <1>6 DEF s
  <2>2. Null \notin Areas
    BY StoreNames
  <2> QED
    BY <1>1, <1>3, <1>6, <2>1, <2>2, AnswerKeeps
<1>7. CASE path \notin OnDisk /\ s # Null
  <2>1. Answer(path, s, ActualResourceName[s][path], Page(s, path))
    BY <1>2, <1>7 DEF s
  <2> QED
    BY <1>1, <1>3, <1>4, <1>7, <2>1, AnswerKeeps
<1> QED
  BY <1>5, <1>6, <1>7

LEMMA IndexKeeps == IInv /\ Index => IInv'
<1> SUFFICES ASSUME IInv, Index PROVE IInv'
  OBVIOUS
<1>1. Ready
  BY DEF Index
<1>2. PICK a \in Areas, file \in Files :
         LET inArea == ContentPath(file)
             name == ActualResourceName[a][inArea]
         IN  IF name = <<>> THEN Answer(inArea, Null, <<>>, NoPage)
             ELSE IF Last(file) \notin MimeTypes THEN Answer(inArea, "throws", <<>>, NoPage)
             ELSE Answer(inArea, a, name, Page(a, inArea))
  BY DEF Index
<1> DEFINE inArea == ContentPath(file)
           name == ActualResourceName[a][inArea]
<1>3. \/ Answer(inArea, Null, <<>>, NoPage)
      \/ Answer(inArea, "throws", <<>>, NoPage)
      \/ Answer(inArea, a, name, Page(a, inArea))
  BY <1>2
<1>4. \A b \in Areas : ~BelongsTo(inArea, b)
  BY NotInFolder
<1> HIDE DEF inArea, name
<1>5. CASE Answer(inArea, Null, <<>>, NoPage)
  BY <1>1, <1>4, <1>5, AnswerKeeps, StoreNames
<1>6. CASE Answer(inArea, "throws", <<>>, NoPage)
  BY <1>1, <1>4, <1>6, AnswerKeeps, StoreNames
<1>7. CASE Answer(inArea, a, name, Page(a, inArea))
  BY <1>1, <1>4, <1>7, AnswerKeeps DEF Stores
<1> QED
  BY <1>3, <1>5, <1>6, <1>7

LEMMA UnchangedKeeps == IInv /\ UNCHANGED vars => IInv'
BY DEF IInv, TypeOK, Registered, Told, OwnAreaServes, PagesShowSettings, vars

LEMMA NextKeeps == IInv /\ [Next]_vars => IInv'
<1> SUFFICES ASSUME IInv, [Next]_vars PROVE IInv'
  OBVIOUS
<1>1. CASE RegisterArea
  BY <1>1, RegisterAreaKeeps
<1>2. CASE RegisterDefaultRoutes
  BY <1>2, RegisterDefaultRoutesKeeps
<1>3. CASE RegisterAreaEmbeddedResources
  BY <1>3, RegisterAreaEmbeddedResourcesKeeps
<1>4. CASE BootStrap
  BY <1>4, BootStrapKeeps
<1>5. CASE EnsureAreasWebConfigExists
  BY <1>5, EnsureAreasWebConfigExistsKeeps
<1>6. CASE MapAll
  BY <1>6, MapAllKeeps
<1>7. CASE SetMap
  BY <1>7, SetMapKeeps
<1>8. CASE GetFile
  BY <1>8, GetFileKeeps
<1>9. CASE Index
  BY <1>9, IndexKeeps
<1>10. CASE Down
  BY <1>10, UnchangedKeeps DEF Down
<1>11. CASE UNCHANGED vars
  BY <1>11, UnchangedKeeps
<1> QED
  BY <1>1, <1>2, <1>3, <1>4, <1>5, <1>6, <1>7, <1>8, <1>9, <1>10, <1>11 DEF Next

THEOREM Invariance == Spec => []IInv
<1>1. Init => IInv
  BY InitHolds
<1>2. IInv /\ [Next]_vars => IInv'
  BY NextKeeps
<1> QED
  BY <1>1, <1>2, PTL DEF Spec

\* The stores, maps and settings stay what the code takes them for, whatever
\* the areas do to each other while they register.
THEOREM AreaTypeCorrect == Spec => []TypeOK
<1>1. IInv => TypeOK
  BY DEF IInv
<1> QED
  BY <1>1, Invariance, PTL

\* A file of an area is served by the area's own assembly, in whatever order the
\* areas registered, when it is embedded where the code looks for it
\* (AssemblyResourceManager.cs:32-43, AssemblyResourceLocator.cs:73-150): under
\* the file's folders, or, its name having one dot, in a namespace tried.
THEOREM OwnAreaServesAlways == Spec => []OwnAreaServes
<1>1. IInv => OwnAreaServes
  BY DEF IInv
<1> QED
  BY <1>1, Invariance, PTL

\* A page carries what the host last asked of its area's map.
THEOREM PagesShowSettingsAlways == Spec => []PagesShowSettings
<1>1. IInv => PagesShowSettings
  BY DEF IInv
<1> QED
  BY <1>1, Invariance, PTL

-----------------------------------------------------------------------------
(*****************************************************************************)
(* MenuBuilder.  A request that meets no other, and no change to the menu,   *)
(* is shown the items its user may see, and its own is selected.             *)
(*****************************************************************************)

-----------------------------------------------------------------------------
(* The inductive invariant *)

\* n is as a request that asks for r's path with r's user leaves it.
Good(r, n) ==
    /\ prepared[n]
    /\ n \in Secure => (internalDisabled[n] = TRUE <=> disabled[n] \/ n \notin may[r])
    /\ n \in Secure => internalDisabled[n] # None
    /\ n \in Items /\ url[n] = uri[r] => itemSelected[n]

Done(r, n) == Good(r, n) /\ (n \in Lists => n \in entered[r])

Pending(r) == Range(todo[r])

\* Whatever the walk through the tree has come upon is prepared or pending.
Walked(r) ==
    /\ Done(r, Root) \/ Root \in Pending(r)
    /\ \A l \in entered[r] :
          /\ Done(r, l) \/ l \in Pending(r)
          /\ \A i \in DOMAIN items[l] : Done(r, items[l][i]) \/ items[l][i] \in Pending(r)

WalkedAlone == \A r \in Requests : stage[r] = "preparing" /\ ~overlapped[r] => Walked(r)

Remembered ==
    /\ \A r \in Requests : IF stage[r] = "idle" THEN entered[r] = {} ELSE uri[r] \in visited
    /\ \A n \in Nodes : itemSelected[n] => url[n] \in visited
    /\ \A l \in Lists : IsInjective(items[l])
    /\ \A n \in Nodes : disabled[n] = (off[n] \/ n \in emptied)

Marked ==
    \A q, r \in Requests :
        stage[q] # "idle" /\ stage[r] # "idle" /\ q # r => overlapped[q]

MenuIInv ==
    MenuTypeOK /\ Remembered /\ Marked /\ WalkedAlone /\ ShowsWhatIsVisible /\ CurrentIsSelected

-----------------------------------------------------------------------------
(* The lists that are called, and those that are open, are the least that   *)
(* their definitions allow.                                                 *)

\* What the request is shown, the lists emptied before it left out; what a
\* list leads to, an item of its own or the only one if that is the first;
\* and the lists and the items to which shown ones lead.
Shown(r, n) == Visible(r, n) /\ n \notin Lost

Only(r, l, n) == \A i \in DOMAIN items[l] : Shown(r, items[l][i]) => items[l][i] = n

Leads(r, l, n) ==
    /\ Under(l, n) /\ Shown(r, n)
    /\ l # Root /\ Only(r, l, n) => items[l][1] = n

Led(r) ==
    {l \in Lists : \A S \in SUBSET Lists :
        /\ Shown(r, Root) => Root \in S
        /\ \A k \in S, n \in Lists : Leads(r, k, n) => n \in S
        => l \in S}

LedTo(r) == {n \in Items : \E l \in Led(r) : Leads(r, l, n)}

LEMMA CalledIsLeast ==
    /\ CalledLists \subseteq Lists
    /\ Root \in CalledLists
    /\ \A k \in CalledLists : RenderItems(k) \cap Lists \subseteq CalledLists
    /\ \A S \in SUBSET Lists :
          Root \in S /\ (\A k \in S : RenderItems(k) \cap Lists \subseteq S)
          => CalledLists \subseteq S
<1> DEFINE Closed(S) == Root \in S /\ (\A k \in S : RenderItems(k) \cap Lists \subseteq S)
<1>1. CalledLists = {l \in Lists : \A S \in SUBSET Lists : Closed(S) => l \in S}
  BY DEF CalledLists
<1>2. Root \in Lists
  BY MenuAssumption
<1>3. ASSUME NEW k \in CalledLists, NEW l \in RenderItems(k) \cap Lists
      PROVE  l \in CalledLists
  <2>1. ASSUME NEW S \in SUBSET Lists, Closed(S)
        PROVE  l \in S
    <3>1. k \in S
      BY <1>1, <2>1
    <3> QED
      BY <2>1, <3>1
  <2> HIDE DEF Closed
  <2> QED
    BY <1>1, <2>1
<1> QED
  BY <1>1, <1>2, <1>3

LEMMA LedIsLeast ==
    ASSUME NEW r \in Requests
    PROVE  /\ Led(r) \subseteq Lists
           /\ Shown(r, Root) => Root \in Led(r)
           /\ \A k \in Led(r), n \in Lists : Leads(r, k, n) => n \in Led(r)
           /\ \A S \in SUBSET Lists :
                 /\ Shown(r, Root) => Root \in S
                 /\ \A k \in S, n \in Lists : Leads(r, k, n) => n \in S
                 => Led(r) \subseteq S
<1> DEFINE Closed(S) == /\ Shown(r, Root) => Root \in S
                        /\ \A k \in S, n \in Lists : Leads(r, k, n) => n \in S
<1>1. Led(r) = {l \in Lists : \A S \in SUBSET Lists : Closed(S) => l \in S}
  BY DEF Led
<1>2. Root \in Lists
  BY MenuAssumption
<1>3. ASSUME NEW k \in Led(r), NEW l \in Lists, Leads(r, k, l)
      PROVE  l \in Led(r)
  <2>1. ASSUME NEW S \in SUBSET Lists, Closed(S)
        PROVE  l \in S
    <3>1. k \in S
      BY <1>1, <2>1
    <3> QED
      BY <1>3, <2>1, <3>1
  <2> HIDE DEF Closed
  <2> QED
    BY <1>1, <2>1
<1>4. Shown(r, Root) => Root \in Led(r)
  BY <1>1, <1>2
<1>5. \A S \in SUBSET Lists : Closed(S) => Led(r) \subseteq S
  <2> HIDE DEF Closed
  <2> QED
    BY <1>1
<1> QED
  BY <1>1, <1>3, <1>4, <1>5

-----------------------------------------------------------------------------
(* What is rendered, once everything is prepared for the request *)

LEMMA DoneShows ==
    ASSUME MenuTypeOK, Remembered, NEW r \in Requests, NEW n \in Nodes, Done(r, n)
    PROVE  /\ n \in Items => (ItemDisabled(n) <=> ~Allowed(r, n))
           /\ HideItem(n) <=> ~Shown(r, n)
           /\ prepared[n]
<1>1. prepared[n]
  BY DEF Done, Good
<1>2. disabled[n] = (off[n] \/ n \in emptied) /\ emptied \subseteq Lists /\ Lists \cap Items = {}
  BY MenuAssumption DEF Remembered, MenuTypeOK
<1>3. CASE n \in Secure
  <2>1. internalDisabled[n] # None /\ (internalDisabled[n] = TRUE <=> disabled[n] \/ n \notin may[r])
    BY <1>3 DEF Done, Good
  <2>2. internalDisabled[n] \in BOOLEAN
    BY <2>1 DEF MenuTypeOK
  <2>3. ItemDisabled(n) <=> internalDisabled[n] = TRUE
    BY <2>1, <2>2 DEF ItemDisabled
  <2>4. n \notin emptied
    BY <1>2, <1>3, MenuAssumption DEF Items
  <2>5. ItemDisabled(n) <=> ~Allowed(r, n)
    BY <1>2, <1>3, <2>1, <2>3, <2>4 DEF Allowed
  <2> QED
    BY <1>1, <2>4, <2>5 DEF HideItem, Shown, Visible, Lost
<1>4. CASE n \notin Secure
  <2>1. internalDisabled[n] = None
    BY <1>4 DEF MenuTypeOK
  <2>2. ItemDisabled(n) <=> off[n] \/ n \in emptied
    BY <1>2, <2>1 DEF ItemDisabled
  <2>3. Allowed(r, n) <=> ~off[n]
    BY <1>4 DEF Allowed
  <2>4. n \in Items => n \notin emptied
    BY <1>2
  <2>5. HideItem(n) <=> ~Shown(r, n)
    BY <2>2, <2>3 DEF HideItem, Shown, Visible, Lost
  <2> QED
    BY <1>1, <2>2, <2>3, <2>4, <2>5
<1> QED
  BY <1>3, <1>4

\* Of a list that is prepared, what is rendered and shown is what it leads to.
LEMMA RenderedLeads ==
    ASSUME MenuTypeOK, Remembered, NEW r \in Requests, NEW l \in Lists, Done(r, l), IsInjective(items[l]),
           \A i \in DOMAIN items[l] : Done(r, items[l][i])
    PROVE  /\ \A n \in RenderItems(l) : n \in Nodes /\ Done(r, n)
           /\ \A n \in Nodes :
                 n \in RenderItems(l) /\ Shown(r, n) <=> Shown(r, l) /\ Leads(r, l, n)
<1> DEFINE s == items[l]
<1>1. s \in Seq(Nodes) /\ Len(s) \in Nat /\ DOMAIN s = 1..Len(s) /\ \A i \in DOMAIN s : s[i] \in Nodes
  BY ElementOfSeq, LenProperties DEF MenuTypeOK
<1>2. \A i \in DOMAIN s : HideItem(s[i]) <=> ~Shown(r, s[i])
  BY <1>1, DoneShows
<1>3. HideItem(l) <=> ~Shown(r, l)
  BY DoneShows DEF Nodes
<1>4. \A i, j \in DOMAIN s : s[i] = s[j] => i = j
  BY DEF IsInjective
<1>5. HasSingleRenderableItem(l) <=> \E i \in DOMAIN s : \A j \in DOMAIN s : Shown(r, s[j]) <=> j = i
  BY <1>2 DEF HasSingleRenderableItem
<1>6. RenderItems(l) = IF HideItem(l) THEN {}
                       ELSE IF Collapses(l) THEN {s[1]}
                       ELSE {s[i] : i \in DOMAIN s}
  BY DEF RenderItems
<1>7. \A n : Under(l, n) <=> \E i \in DOMAIN s : s[i] = n
  BY DEF Under
<1>8. \A n : Only(r, l, n) <=> \A i \in DOMAIN s : Shown(r, s[i]) => s[i] = n
  BY DEF Only
<1>9. \A n : Leads(r, l, n) <=> /\ Under(l, n) /\ Shown(r, n)
                                /\ l # Root /\ Only(r, l, n) => s[1] = n
  BY DEF Leads
<1> HIDE DEF s
<1>10. CASE HideItem(l)
  BY <1>3, <1>6, <1>10
<1>11. CASE ~HideItem(l) /\ Collapses(l)
  <2>1. PICK i \in DOMAIN s : \A j \in DOMAIN s : Shown(r, s[j]) <=> j = i
    BY <1>5, <1>11 DEF Collapses
  <2>2. 1 \in DOMAIN s
    BY <1>1, <2>1
  <2>3. Only(r, l, s[i]) /\ l # Root
    BY <1>8, <1>11, <2>1 DEF Collapses
  <2>4. RenderItems(l) = {s[1]}
    BY <1>6, <1>11
  <2>5. \A n \in RenderItems(l) : n \in Nodes /\ Done(r, n)
    BY <2>2, <2>4, <1>1 DEF s
  <2>6. ASSUME NEW n \in Nodes, n \in RenderItems(l), Shown(r, n)
        PROVE  Leads(r, l, n)
    BY <1>7, <1>9, <2>2, <2>4, <2>6
  <2>7. ASSUME NEW n \in Nodes, Leads(r, l, n)
        PROVE  n \in RenderItems(l) /\ Shown(r, n)
    <3>1. PICK j \in DOMAIN s : s[j] = n
      BY <1>7, <1>9, <2>7
    <3>2. Shown(r, n)
      BY <1>9, <2>7
    <3>3. n = s[i]
      BY <2>1, <3>1, <3>2
    <3>4. s[1] = n
      BY <1>9, <2>3, <2>7, <3>3
    <3> QED
      BY <2>4, <3>2, <3>4
  <2> QED
    BY <1>3, <1>11, <2>5, <2>6, <2>7
<1>12. CASE ~HideItem(l) /\ ~Collapses(l)
  <2>1. RenderItems(l) = {s[i] : i \in DOMAIN s}
    BY <1>6, <1>12
  <2>2. \A n \in RenderItems(l) : n \in Nodes /\ Done(r, n)
    BY <2>1, <1>1 DEF s
  <2>3. \A n \in RenderItems(l) : Under(l, n)
    BY <2>1, <1>7
  <2>4. ASSUME NEW n \in Nodes, n \in RenderItems(l), Shown(r, n), l # Root, Only(r, l, n)
        PROVE  FALSE
    <3>1. PICK i \in DOMAIN s : s[i] = n
      BY <2>1, <2>4
    <3>2. \A j \in DOMAIN s : Shown(r, s[j]) <=> j = i
      BY <3>1, <2>4, <1>4, <1>8
    <3> QED
      BY <3>2, <1>5, <1>12, <2>4 DEF Collapses
  <2>5. ASSUME NEW n \in Nodes, n \in RenderItems(l), Shown(r, n)
        PROVE  Leads(r, l, n)
    BY <2>3, <2>4, <2>5, <1>9
  <2>6. ASSUME NEW n \in Nodes, Leads(r, l, n)
        PROVE  n \in RenderItems(l) /\ Shown(r, n)
    BY <2>1, <2>6, <1>7, <1>9
  <2> QED
    BY <1>3, <1>12, <2>2, <2>5, <2>6
<1> QED
  BY <1>10, <1>11, <1>12

\* The rendering, after an undisturbed preparation.
LEMMA RenderedIs ==
    ASSUME MenuTypeOK, Remembered, NEW r \in Requests, todo[r] = << >>, Walked(r)
    PROVE  /\ ~Rendered.threw
           /\ Rendered.shown \cap Items = LedTo(r)
           /\ Rendered.enabled \cap Items = {n \in LedTo(r) : Allowed(r, n)}
           /\ Rendered.enabled \subseteq Rendered.shown
           /\ \A n \in Rendered.shown \cap Items :
                 /\ url[n] = uri[r] => n \in Rendered.selected
                 /\ n \in Rendered.selected => url[n] \in visited
<1>1. Pending(r) = {}
  BY DEF Pending, Range
<1>2. Done(r, Root) /\ Root \in Lists
  BY <1>1, MenuAssumption DEF Walked
<1>3. ASSUME NEW l \in Lists, Done(r, l)
      PROVE  /\ \A n \in RenderItems(l) : n \in Nodes /\ Done(r, n)
             /\ \A n \in Nodes :
                   n \in RenderItems(l) /\ Shown(r, n) <=> Shown(r, l) /\ Leads(r, l, n)
  <2>1. l \in entered[r]
    BY <1>3 DEF Done
  <2>2. \A i \in DOMAIN items[l] : Done(r, items[l][i])
    BY <1>1, <2>1 DEF Walked
  <2>3. IsInjective(items[l])
    BY DEF Remembered
  <2> QED
    BY <1>3, <2>2, <2>3, RenderedLeads
<1>4. ASSUME NEW n \in Nodes, Done(r, n)
      PROVE  /\ n \in Items => (ItemDisabled(n) <=> ~Allowed(r, n))
             /\ HideItem(n) <=> ~Shown(r, n)
             /\ prepared[n]
  BY <1>4, DoneShows
<1>5. \A l \in CalledLists : l \in Lists /\ Done(r, l)
  <2> DEFINE S == {l \in Lists : Done(r, l)}
  <2>1. Root \in S /\ \A k \in S : RenderItems(k) \cap Lists \subseteq S
    BY <1>2, <1>3
  <2>2. S \in SUBSET Lists
    OBVIOUS
  <2> HIDE DEF S
  <2>3. CalledLists \subseteq S
    BY <2>1, <2>2, CalledIsLeast
  <2> QED
    BY <2>3 DEF S
<1>6. \A n \in Called : n \in Nodes /\ Done(r, n)
  BY <1>2, <1>3, <1>5 DEF Called, Nodes
<1>7. \A l \in Led(r) : l \in CalledLists /\ Shown(r, l)
  <2> DEFINE S == {l \in CalledLists : Shown(r, l)}
  <2>1. Shown(r, Root) => Root \in S
    BY CalledIsLeast
  <2>2. ASSUME NEW k \in S, NEW n \in Lists, Leads(r, k, n)
        PROVE  n \in S
    <3>1. k \in Lists /\ Done(r, k) /\ k \in CalledLists /\ Shown(r, k)
      BY <1>5
    <3>2. n \in Nodes
      BY DEF Nodes
    <3>3. n \in RenderItems(k) /\ Shown(r, n)
      BY <1>3, <2>2, <3>1, <3>2
    <3> QED
      BY <3>1, <3>3, CalledIsLeast
  <2>3. S \in SUBSET Lists
    BY CalledIsLeast
  <2> HIDE DEF S
  <2>4. Led(r) \subseteq S
    BY <2>1, <2>2, <2>3, LedIsLeast
  <2> QED
    BY <2>4 DEF S
<1>8. \A l \in CalledLists : Shown(r, l) => l \in Led(r)
  <2> DEFINE S == {l \in CalledLists : Shown(r, l) => l \in Led(r)}
  <2>1. Root \in S
    BY CalledIsLeast, LedIsLeast
  <2>2. ASSUME NEW k \in S, NEW n \in RenderItems(k) \cap Lists
        PROVE  n \in S
    <3>1. k \in Lists /\ Done(r, k) /\ k \in CalledLists
      BY <1>5
    <3>2. n \in CalledLists /\ n \in Nodes
      BY <3>1, CalledIsLeast DEF Nodes
    <3>3. ASSUME Shown(r, n) PROVE n \in Led(r)
      <4>1. Shown(r, k) /\ Leads(r, k, n)
        BY <1>3, <3>1, <3>2, <3>3
      <4>2. k \in Led(r)
        BY <4>1
      <4> QED
        BY <4>1, <4>2, LedIsLeast
    <3> QED
      BY <3>2, <3>3
  <2>3. S \in SUBSET Lists
    BY CalledIsLeast
  <2> HIDE DEF S
  <2>4. CalledLists \subseteq S
    BY <2>1, <2>2, <2>3, CalledIsLeast
  <2> QED
    BY <2>4 DEF S
<1>9. \A n \in Items : n \in Nodes /\ n \notin Lists /\ n # Root
  BY MenuAssumption DEF Nodes
<1>10. ASSUME NEW n \in Items
       PROVE  n \in Called /\ Shown(r, n) <=> n \in LedTo(r)
  <2>1. ASSUME n \in Called, Shown(r, n)
        PROVE  n \in LedTo(r)
    <3>1. PICK l \in CalledLists : n \in RenderItems(l)
      BY <1>9, <2>1 DEF Called
    <3>2. Shown(r, l) /\ Leads(r, l, n)
      BY <1>3, <1>5, <1>9, <2>1, <3>1
    <3> QED
      BY <1>8, <3>2 DEF LedTo
  <2>2. ASSUME n \in LedTo(r)
        PROVE  n \in Called /\ Shown(r, n)
    <3>1. PICK l \in Led(r) : Leads(r, l, n)
      BY <2>2 DEF LedTo
    <3>2. n \in RenderItems(l) /\ Shown(r, n)
      BY <1>3, <1>5, <1>7, <1>9, <3>1
    <3> QED
      BY <1>7, <3>2 DEF Called
  <2> QED
    BY <2>1, <2>2
<1> DEFINE shown == {n \in Called : WritesLink(n)}
<1>11. /\ Rendered.threw = FALSE
       /\ Rendered.shown = shown
       /\ Rendered.enabled = {n \in shown : ~ItemDisabled(n)}
       /\ Rendered.selected = {n \in shown : itemSelected[n]}
  <2>1. ~\E n \in Called : ~prepared[n]
    BY <1>4, <1>6
  <2> QED
    BY <2>1 DEF Rendered
<1>12. \A n \in Items : n \in shown <=> n \in LedTo(r)
  BY <1>4, <1>6, <1>9, <1>10 DEF WritesLink
<1>13. \A n \in Items : n \in shown => (ItemDisabled(n) <=> ~Allowed(r, n))
  BY <1>4, <1>6
<1>14. \A n \in Items : n \in shown => (url[n] = uri[r] => itemSelected[n]) /\ (itemSelected[n] => url[n] \in visited)
  BY <1>6 DEF Done, Good, Remembered
<1>15. LedTo(r) \subseteq Items
  BY DEF LedTo
<1> HIDE DEF shown
<1>16. Rendered.shown \cap Items = LedTo(r)
  BY <1>11, <1>12, <1>15
<1>17. Rendered.enabled \cap Items = {n \in LedTo(r) : Allowed(r, n)}
  BY <1>11, <1>12, <1>13, <1>15
<1> QED
  BY <1>11, <1>14, <1>16, <1>17

\* Everything the request should be shown and that no barred list hides is
\* led to, and nothing else.
LEMMA LedToIsReached ==
    ASSUME MenuTypeOK, Remembered, NEW r \in Requests
    PROVE  /\ LedTo(r) \subseteq Reached(r, {})
           /\ Reached(r, Lost \cup Skipping(r)) \subseteq LedTo(r)
<1> DEFINE B == Lost \cup Skipping(r)
<1>1. Root \in Lists /\ Lists \cap Items = {} /\ Lost \subseteq Lists
  BY MenuAssumption DEF MenuTypeOK, Lost
<1>2. Led(r) \subseteq Open(r, {})
  <2> DEFINE Closed(S) == /\ Visible(r, Root) /\ Root \notin {} => Root \in S
                          /\ \A k \in S, n \in Lists \ {} : Under(k, n) /\ Visible(r, n) => n \in S
  <2>1. Open(r, {}) = {l \in Lists : \A S \in SUBSET Lists : Closed(S) => l \in S}
    BY DEF Open
  <2>2. ASSUME NEW S \in SUBSET Lists, Closed(S) PROVE Led(r) \subseteq S
    <3>1. Shown(r, Root) => Root \in S
      BY <2>2 DEF Shown
    <3>2. \A k \in S, n \in Lists : Leads(r, k, n) => n \in S
      BY <2>2 DEF Leads, Shown
    <3> QED
      BY <3>1, <3>2, LedIsLeast
  <2>3. Led(r) \subseteq Lists
    BY LedIsLeast
  <2> HIDE DEF Closed
  <2> QED
    BY <2>1, <2>2, <2>3
<1>3. LedTo(r) \subseteq Reached(r, {})
  BY <1>2 DEF LedTo, Reached, Leads, Shown
<1>4. ASSUME NEW k \in Lists, k \notin B, NEW n, Under(k, n), Visible(r, n), n \notin Lost
      PROVE  Leads(r, k, n)
  <2>1. Shown(r, n)
    BY <1>4 DEF Shown
  <2>2. ASSUME k # Root, Only(r, k, n) PROVE items[k][1] = n
    <3>1. PICK i \in DOMAIN items[k] : items[k][i] = n
      BY <1>4 DEF Under
    <3>2. \A j \in DOMAIN items[k] : items[k][j] = n => j = i
      BY <3>1 DEF Remembered, IsInjective
    <3>3. \A j \in DOMAIN items[k] : Shown(r, items[k][j]) <=> j = i
      BY <2>1, <2>2, <3>1, <3>2 DEF Only
    <3>4. k \notin Skipping(r)
      BY <1>4
    <3>5. i = 1
      BY <2>2, <3>3, <3>4 DEF Skipping, Shown
    <3> QED
      BY <3>1, <3>5
  <2> QED
    BY <1>4, <2>1, <2>2 DEF Leads
<1>5. Open(r, B) \subseteq Led(r) \ B
  <2> DEFINE S == Led(r) \ B
             Closed(T) == /\ Visible(r, Root) /\ Root \notin B => Root \in T
                          /\ \A k \in T, n \in Lists \ B : Under(k, n) /\ Visible(r, n) => n \in T
  <2>1. Open(r, B) = {l \in Lists : \A T \in SUBSET Lists : Closed(T) => l \in T}
    BY DEF Open
  <2>2. S \in SUBSET Lists
    BY LedIsLeast
  <2>3. Visible(r, Root) /\ Root \notin B => Root \in S
    <3>1. Visible(r, Root) /\ Root \notin B => Shown(r, Root)
      BY DEF Shown
    <3> QED
      BY <3>1, LedIsLeast
  <2>4. ASSUME NEW k \in S, NEW n \in Lists \ B, Under(k, n), Visible(r, n)
        PROVE  n \in S
    <3>1. k \in Lists /\ k \notin B /\ k \in Led(r)
      BY <2>2
    <3>2. n \notin Lost /\ n \in Lists
      OBVIOUS
    <3> HIDE DEF B
    <3>3. Leads(r, k, n)
      BY <1>4, <2>4, <3>1, <3>2
    <3>4. n \in Led(r)
      BY <3>1, <3>2, <3>3, LedIsLeast
    <3> QED
      BY <3>4
  <2>5. Closed(S)
    BY <2>3, <2>4
  <2> HIDE DEF S, Closed
  <2> QED
    BY <2>1, <2>2, <2>5 DEF S
<1>6. ASSUME NEW n \in Reached(r, B) PROVE n \in LedTo(r)
  <2>1. PICK l \in Open(r, B) : n \in Items /\ Visible(r, n) /\ Under(l, n)
    BY DEF Reached
  <2>2. l \in Led(r) /\ l \notin B /\ l \in Lists
    BY <1>5, LedIsLeast
  <2>3. n \notin Lost
    BY <1>1, <2>1
  <2> HIDE DEF B
  <2>4. Leads(r, l, n)
    BY <1>4, <2>1, <2>2, <2>3
  <2> QED
    BY <2>1, <2>2, <2>4 DEF LedTo
<1> QED
  BY <1>3, <1>6

\* What is rendered are items of the menu, however it was prepared.
LEMMA RenderedType ==
    ASSUME MenuTypeOK
    PROVE  Rendered \in RenderedPages
<1>1. ASSUME NEW l \in Lists PROVE RenderItems(l) \subseteq Nodes
  <2>1. /\ items[l] \in Seq(Nodes) /\ Len(items[l]) \in Nat /\ DOMAIN items[l] = 1..Len(items[l])
        /\ \A i \in DOMAIN items[l] : items[l][i] \in Nodes
    BY ElementOfSeq, LenProperties DEF MenuTypeOK
  <2>2. Collapses(l) => 1 \in DOMAIN items[l]
    BY <2>1 DEF Collapses, HasSingleRenderableItem
  <2> QED
    BY <2>1, <2>2 DEF RenderItems
<1>2. Called \subseteq Nodes
  BY <1>1, CalledIsLeast, MenuAssumption DEF Called, Nodes
<1>3. CASE \E n \in Called : ~prepared[n]
  BY <1>3 DEF Rendered, Blank, RenderedPages
<1>4. CASE ~\E n \in Called : ~prepared[n]
  BY <1>2, <1>4 DEF Rendered, RenderedPages
<1> QED
  BY <1>3, <1>4

-----------------------------------------------------------------------------
(* The steps *)

\* A page is only made by a request that renders: the properties of the pages
\* are kept when no request is left alone with one.
LEMMA NobodyAlone ==
    (\A r \in Requests : ~Alone(r)') => ShowsWhatIsVisible' /\ CurrentIsSelected'
BY DEF ShowsWhatIsVisible, CurrentIsSelected

LEMMA MenuInitHolds == MenuInit => MenuIInv
<1> SUFFICES ASSUME MenuInit PROVE MenuIInv
  OBVIOUS
<1>1. Blank \in RenderedPages
  BY DEF Blank, RenderedPages
<1>2. MenuTypeOK
  BY <1>1, MenuAssumption DEF MenuInit, MenuTypeOK, Nodes, Items
<1>3. \A l \in Lists : IsInjective(items[l])
  BY TreeAssumption DEF MenuInit, IsInjective
<1>4. Remembered
  BY <1>3 DEF MenuInit, Remembered
<1>5. Marked /\ WalkedAlone
  BY DEF MenuInit, Marked, WalkedAlone
<1>6. ShowsWhatIsVisible /\ CurrentIsSelected
  BY DEF MenuInit, ShowsWhatIsVisible, CurrentIsSelected, Alone
<1> QED
  BY <1>2, <1>4, <1>5, <1>6 DEF MenuIInv

LEMMA RenderHtmlKeeps ==
    ASSUME MenuIInv, NEW r \in Requests, RenderHtml(r)
    PROVE  MenuIInv'
<1>1. /\ stage[r] = "idle" /\ requests < MaxRequests
      /\ stage' = [stage EXCEPT ![r] = "preparing"]
      /\ todo' = [todo EXCEPT ![r] = <<Root>>]
      /\ overlapped' = [q \in Requests |-> IF q \in Active \cup {r} THEN Active # {} ELSE overlapped[q]]
      /\ requests' = requests + 1
      /\ UNCHANGED <<items, disabled, internalDisabled, itemSelected, prepared, url, entered, html, edits, off, emptied>>
  BY DEF RenderHtml, tree, found, told
<1>2. PICK p \in Urls, who \in SUBSET Secure :
         /\ uri' = [uri EXCEPT ![r] = p]
         /\ may' = [may EXCEPT ![r] = who]
         /\ visited' = visited \cup {p}
  BY DEF RenderHtml
<1>3. MenuTypeOK
  BY DEF MenuIInv
<1>4. /\ \A q \in Requests \ {r} : /\ stage'[q] = stage[q] /\ todo'[q] = todo[q]
                                   /\ uri'[q] = uri[q] /\ may'[q] = may[q]
      /\ stage'[r] = "preparing" /\ todo'[r] = <<Root>> /\ uri'[r] = p
  BY <1>1, <1>2, <1>3 DEF MenuTypeOK
<1>5. \A q \in Requests : overlapped'[q] = IF stage[q] # "idle" \/ q = r
                                           THEN Active # {} ELSE overlapped[q]
  BY <1>1 DEF Active
<1>6. MenuTypeOK'
  <2>1. <<Root>> \in Seq(Nodes)
    BY MenuAssumption DEF Nodes
  <2>2. requests' \in 0..MaxRequests
    BY <1>1, <1>3, MenuAssumption DEF MenuTypeOK
  <2>3. overlapped' \in [Requests -> BOOLEAN]
    <3>1. \A q \in Requests : (IF q \in Active \cup {r} THEN Active # {} ELSE overlapped[q]) \in BOOLEAN
      BY <1>3 DEF MenuTypeOK
    <3> QED
      BY <1>1, <3>1
  <2>4. stage' \in [Requests -> {"idle", "preparing", "rendered"}]
    BY <1>1, <1>3 DEF MenuTypeOK
  <2> QED
    BY <1>1, <1>2, <1>3, <2>1, <2>2, <2>3, <2>4 DEF MenuTypeOK
<1>7. Remembered'
  BY <1>1, <1>2, <1>4 DEF MenuIInv, Remembered
<1>8. Marked'
  <2> SUFFICES ASSUME NEW q \in Requests, NEW s \in Requests,
                      stage'[q] # "idle", stage'[s] # "idle", q # s
               PROVE  overlapped'[q]
    BY DEF Marked
  <2>1. q \in Active \/ s \in Active
    BY <1>4 DEF Active
  <2>2. stage[q] # "idle" \/ q = r
    BY <1>4
  <2> QED
    BY <1>5, <2>1, <2>2
<1>9. \A q \in Requests \ {r} : stage'[q] # "idle" => overlapped'[q]
  BY <1>4, <1>8 DEF Marked
<1>10. WalkedAlone'
  <2>1. Walked(r)'
    <3>1. entered'[r] = {}
      BY <1>1 DEF MenuIInv, Remembered
    <3>2. Root \in Pending(r)'
      BY <1>4 DEF Pending, Range
    <3> QED
      BY <3>1, <3>2 DEF Walked
  <2> QED
    BY <1>9, <2>1 DEF WalkedAlone
<1>11. \A q \in Requests : ~Alone(q)'
  BY <1>4, <1>9 DEF Alone
<1> QED
  BY <1>6, <1>7, <1>8, <1>10, <1>11, NobodyAlone DEF MenuIInv

LEMMA HeadOrTail ==
    ASSUME NEW S, NEW s \in Seq(S), s # << >>
    PROVE  /\ Head(s) \in S /\ Tail(s) \in Seq(S)
           /\ Range(s) = {Head(s)} \cup Range(Tail(s))
<1>1. /\ Head(s) \in S /\ Tail(s) \in Seq(S) /\ Len(Tail(s)) = Len(s) - 1
      /\ Len(s) \in Nat /\ Len(s) > 0 /\ Head(s) = s[1]
      /\ \A i \in 1..Len(Tail(s)) : Tail(s)[i] = s[i + 1]
  BY HeadTailProperties, LenProperties, EmptySeq
<1>2. DOMAIN s = 1..Len(s) /\ DOMAIN Tail(s) = 1..(Len(s) - 1)
  BY <1>1, LenProperties
<1> DEFINE t == Tail(s)
           h == Head(s)
           k == Len(s)
<1> HIDE DEF t, h, k
<1>3. /\ k \in Nat /\ k > 0 /\ h = s[1] /\ DOMAIN s = 1..k /\ DOMAIN t = 1..(k - 1)
      /\ \A i \in 1..(k - 1) : t[i] = s[i + 1]
  BY <1>1, <1>2 DEF t, h, k
<1>4. ASSUME NEW i \in DOMAIN s PROVE s[i] = h \/ \E j \in DOMAIN t : s[i] = t[j]
  <2>1. CASE i = 1
    BY <1>3, <2>1
  <2>2. CASE i # 1
    <3>1. PICK j \in 1..(k - 1) : j = i - 1
      BY <1>3, <2>2
    <3>2. j + 1 = i
      BY <1>3, <3>1
    <3> QED
      BY <1>3, <3>1, <3>2
  <2> QED
    BY <2>1, <2>2
<1>5. ASSUME NEW j \in DOMAIN t PROVE \E i \in DOMAIN s : t[j] = s[i]
  <2>1. PICK i \in 1..k : i = j + 1
    BY <1>3
  <2> QED
    BY <1>3, <2>1
<1>6. \E i \in DOMAIN s : h = s[i]
  BY <1>3
<1>7. Range(s) = {h} \cup Range(t)
  BY <1>4, <1>5, <1>6 DEF Range
<1> QED
  BY <1>1, <1>7 DEF t, h

LEMMA PrepareKeeps ==
    ASSUME MenuIInv, NEW r \in Requests, Prepare(r)
    PROVE  MenuIInv'
<1>1. /\ stage[r] = "preparing" /\ todo[r] # << >>
      /\ UNCHANGED <<stage, uri, may, html, overlapped, visited, requests, edits>>
  BY DEF Prepare
<1>2. MenuTypeOK /\ Remembered /\ Marked
  BY DEF MenuIInv
<1>0. PICK n : n = Head(todo[r])
  OBVIOUS
<1>3. /\ n \in Nodes /\ Tail(todo[r]) \in Seq(Nodes) /\ todo[r] \in Seq(Nodes)
      /\ Pending(r) = {n} \cup Range(Tail(todo[r]))
  BY <1>0, <1>1, <1>2, HeadOrTail DEF MenuTypeOK, Pending
<1>4. \/ n \in Lists \ entered[r] /\ EnterList(r, n)
      \/ /\ IF n \in Lists THEN n \in entered[r] /\ PrepareList(n) ELSE PrepareItem(r, n)
         /\ todo' = [todo EXCEPT ![r] = Tail(@)]
         /\ UNCHANGED entered
  BY <1>0 DEF Prepare
<1>5. \A q \in Requests \ {r} : stage[q] # "idle" => overlapped[q]
  BY <1>1, <1>2 DEF Marked
<1>6. Marked'
  BY <1>1, <1>2 DEF Marked
<1>7. \A q \in Requests : ~Alone(q)'
  BY <1>1, <1>5 DEF Alone
<1>8. ShowsWhatIsVisible' /\ CurrentIsSelected'
  BY <1>7, NobodyAlone
<1>9. ASSUME ~overlapped[r] => Walked(r)'
      PROVE  WalkedAlone'
  BY <1>1, <1>5, <1>9 DEF WalkedAlone
<1>10. ~overlapped[r] => Walked(r)
  BY <1>1 DEF MenuIInv, WalkedAlone
<1>11. \A l \in Lists : \A i \in DOMAIN items[l] : items[l][i] \in Nodes
  BY <1>2, ElementOfSeq, LenProperties DEF MenuTypeOK
<1>12. Root \in Nodes /\ Lists \subseteq Nodes /\ entered[r] \subseteq Lists /\ Secure \cap Lists = {} /\ Items \cap Lists = {}
  BY <1>2, MenuAssumption DEF MenuTypeOK, Nodes, Items
<1>13. CASE n \in Lists \ entered[r] /\ EnterList(r, n)
  <2>1. /\ entered' = [entered EXCEPT ![r] = @ \cup {n}]
        /\ todo' = [todo EXCEPT ![r] = items[n] \o @]
        /\ UNCHANGED <<items, disabled, internalDisabled, itemSelected, prepared, url, off, emptied>>
    BY <1>13 DEF EnterList, tree, found, told
  <2>2. items[n] \in Seq(Nodes) /\ items[n] \o todo[r] \in Seq(Nodes)
    BY <1>3, <1>13, <1>2, ConcatProperties DEF MenuTypeOK
  <2>3. MenuTypeOK'
    BY <1>1, <1>2, <1>13, <2>1, <2>2 DEF MenuTypeOK
  <2>4. Remembered'
    BY <1>1, <1>2, <2>1 DEF Remembered, MenuTypeOK
  <2>5. entered'[r] = entered[r] \cup {n} /\ todo'[r] = items[n] \o todo[r]
    BY <1>2, <2>1 DEF MenuTypeOK
  <2>6. Pending(r)' = Range(items[n]) \cup Pending(r)
    <3>1. Range(items[n] \o todo[r]) = Range(items[n]) \cup Range(todo[r])
      BY <1>3, <2>2, RangeConcatenation
    <3> QED
      BY <2>5, <3>1 DEF Pending
  <2>7. \A m : Done(r, m) => Done(r, m)'
    BY <1>1, <2>1, <2>5 DEF Done, Good
  <2>8. ASSUME Walked(r) PROVE Walked(r)'
    <3>1. (Done(r, Root) \/ Root \in Pending(r))'
      BY <2>6, <2>7, <2>8 DEF Walked
    <3>2. ASSUME NEW l \in entered'[r]
          PROVE  /\ Done(r, l)' \/ l \in Pending(r)'
                 /\ \A i \in DOMAIN items[l] : Done(r, items[l][i])' \/ items[l][i] \in Pending(r)'
      <4>1. CASE l = n
        <5>1. l \in Pending(r)'
          BY <1>3, <2>6, <4>1
        <5>2. \A i \in DOMAIN items[l] : items[l][i] \in Pending(r)'
          BY <2>6, <4>1 DEF Range
        <5> QED
          BY <5>1, <5>2
      <4>2. CASE l \in entered[r]
        BY <2>1, <2>6, <2>7, <2>8, <4>2 DEF Walked, Done, Good
      <4> QED
        BY <2>5, <4>1, <4>2
    <3> QED
      BY <2>1, <3>1, <3>2 DEF Walked
  <2> QED
    BY <1>6, <1>8, <1>9, <1>10, <2>3, <2>4, <2>8 DEF MenuIInv
<1>14. ASSUME todo' = [todo EXCEPT ![r] = Tail(@)], UNCHANGED <<entered, items>>,
              Done(r, n)', \A m \in Nodes \ {n} : Done(r, m) => Done(r, m)',
              Walked(r)
       PROVE  Walked(r)'
  <2>1. Pending(r) = {n} \cup Pending(r)'
    BY <1>2, <1>3, <1>14 DEF Pending, MenuTypeOK
  <2>2. \A m \in Nodes : Done(r, m) \/ m \in Pending(r) => Done(r, m)' \/ m \in Pending(r)'
    BY <2>1, <1>14
  <2>3. (Done(r, Root) \/ Root \in Pending(r))'
    BY <2>2, <1>12, <1>14 DEF Walked
  <2>4. ASSUME NEW l \in entered[r]
        PROVE  /\ Done(r, l)' \/ l \in Pending(r)'
               /\ \A i \in DOMAIN items[l] : Done(r, items[l][i])' \/ items[l][i] \in Pending(r)'
    BY <2>2, <1>11, <1>12, <1>14 DEF Walked
  <2> QED
    BY <2>3, <2>4, <1>14 DEF Walked
<1>15. CASE /\ n \in Lists /\ n \in entered[r] /\ PrepareList(n)
            /\ todo' = [todo EXCEPT ![r] = Tail(@)]
            /\ UNCHANGED entered
  <2>1. /\ disabled' = [disabled EXCEPT ![n] = @ \/ items[n] = << >>]
        /\ emptied' = IF items[n] = << >> THEN emptied \cup {n} ELSE emptied
        /\ prepared' = [prepared EXCEPT ![n] = TRUE]
        /\ UNCHANGED <<items, internalDisabled, itemSelected, url, off>>
    BY <1>15 DEF PrepareList
  <2>2. disabled' \in [Nodes -> BOOLEAN] /\ prepared' \in [Nodes -> BOOLEAN]
    BY <1>2, <2>1 DEF MenuTypeOK
  <2>3. todo' \in [Requests -> Seq(Nodes)]
    BY <1>2, <1>3, <1>15 DEF MenuTypeOK
  <2>4. MenuTypeOK'
    <3>1. emptied' \subseteq Lists
      BY <1>2, <1>15, <2>1 DEF MenuTypeOK
    <3> QED
      BY <1>1, <1>2, <1>15, <2>1, <2>2, <2>3, <3>1 DEF MenuTypeOK
  <2>5. Remembered'
    <3>1. ASSUME NEW m \in Nodes PROVE disabled'[m] = (off'[m] \/ m \in emptied')
      <4>1. disabled[m] = (off[m] \/ m \in emptied) /\ disabled[m] \in BOOLEAN
        BY <1>2 DEF Remembered, MenuTypeOK
      <4>2. disabled'[m] = IF m = n THEN disabled[m] \/ items[n] = << >> ELSE disabled[m]
        BY <1>2, <2>1 DEF MenuTypeOK
      <4>3. m \in emptied' <=> m \in emptied \/ (m = n /\ items[n] = << >>)
        BY <2>1
      <4>4. off'[m] = off[m]
        BY <2>1
      <4> QED
        BY <4>1, <4>2, <4>3, <4>4
    <3> QED
      BY <1>1, <1>2, <1>15, <2>1, <3>1 DEF Remembered
  <2>6. Done(r, n)'
    BY <1>2, <1>3, <1>12, <1>15, <2>1 DEF Done, Good, MenuTypeOK
  <2>7. ASSUME NEW m \in Nodes \ {n}, Done(r, m) PROVE Done(r, m)'
    <3>1. prepared'[m] = prepared[m] /\ disabled'[m] = disabled[m]
      BY <1>2, <2>1 DEF MenuTypeOK
    <3> QED
      BY <1>1, <1>15, <2>1, <2>7, <3>1 DEF Done, Good
  <2>8. ~overlapped[r] => Walked(r)'
    BY <1>10, <1>14, <1>15, <2>1, <2>6, <2>7
  <2> QED
    BY <1>6, <1>8, <1>9, <2>4, <2>5, <2>8 DEF MenuIInv
<1>16. CASE /\ n \notin Lists /\ PrepareItem(r, n)
            /\ todo' = [todo EXCEPT ![r] = Tail(@)]
            /\ UNCHANGED entered
  <2> DEFINE u == ActionUrl(r, n)
  <2>1. /\ internalDisabled' = Authorize(r, n)
        /\ url' = [url EXCEPT ![n] = u]
        /\ itemSelected' = [itemSelected EXCEPT ![n] = @ \/ uri[r] = u]
        /\ prepared' = [prepared EXCEPT ![n] = TRUE]
        /\ UNCHANGED <<items, disabled, off, emptied>>
    BY <1>16 DEF PrepareItem, tree, told
  <2>2. n \in Items
    BY <1>3, <1>16 DEF Nodes
  <2>3. uri[r] \in Urls
    <3>1. uri[r] \in visited /\ visited \subseteq Urls
      BY <1>1, <1>2 DEF Remembered, MenuTypeOK
    <3> QED
      BY <3>1
  <2>4. u \in Urls \cup {None} /\ (url[n] # None => u = url[n])
    BY <1>2, <1>3, <2>3, MenuAssumption DEF ActionUrl, MenuTypeOK
  <2> HIDE DEF u
  <2>5. /\ internalDisabled' \in [Nodes -> BOOLEAN \cup {None}]
        /\ \A m \in Nodes \ {n} : internalDisabled'[m] = internalDisabled[m]
        /\ n \in Secure => internalDisabled'[n] # None /\ (internalDisabled'[n] = TRUE <=> disabled[n] \/ n \notin may[r])
        /\ n \notin Secure => internalDisabled'[n] = internalDisabled[n]
    <3>1. (disabled[n] \/ n \notin may[r]) \in BOOLEAN
      OBVIOUS
    <3>2. TRUE # None /\ FALSE # None
      BY MenuAssumption
    <3>3. CASE n \in Secure
      <4>1. internalDisabled' = [internalDisabled EXCEPT ![n] = disabled[n] \/ n \notin may[r]]
        BY <2>1, <3>3 DEF Authorize
      <4>2. internalDisabled'[n] = (disabled[n] \/ n \notin may[r])
        BY <4>1, <1>2, <1>3 DEF MenuTypeOK
      <4>3. internalDisabled'[n] \in BOOLEAN
        BY <4>2, <3>1
      <4>4. internalDisabled' \in [Nodes -> BOOLEAN \cup {None}]
        BY <4>1, <1>2, <3>1 DEF MenuTypeOK
      <4>5. \A m \in Nodes \ {n} : internalDisabled'[m] = internalDisabled[m]
        BY <4>1, <1>2 DEF MenuTypeOK
      <4> QED
        BY <3>2, <3>3, <4>2, <4>3, <4>4, <4>5
    <3>4. CASE n \notin Secure
      BY <2>1, <3>4, <1>2 DEF Authorize, MenuTypeOK
    <3> QED
      BY <3>3, <3>4
  <2>6. /\ itemSelected' \in [Nodes -> BOOLEAN] /\ itemSelected'[n] = (itemSelected[n] \/ uri[r] = u)
        /\ url' \in [Nodes -> Urls \cup {None}] /\ url'[n] = u
        /\ prepared' \in [Nodes -> BOOLEAN] /\ prepared'[n]
        /\ \A m \in Nodes \ {n} : /\ itemSelected'[m] = itemSelected[m] /\ url'[m] = url[m]
                                  /\ prepared'[m] = prepared[m]
    BY <1>2, <1>3, <2>1, <2>4 DEF MenuTypeOK
  <2>7. MenuTypeOK'
    <3>1. todo' \in [Requests -> Seq(Nodes)] /\ entered' \in [Requests -> SUBSET Lists]
      BY <1>2, <1>3, <1>16 DEF MenuTypeOK
    <3>2. \A m \in Nodes \ Secure : internalDisabled'[m] = None
      BY <1>2, <1>3, <2>5 DEF MenuTypeOK
    <3>3. \A l \in Lists : ~itemSelected'[l]
      BY <1>2, <1>12, <1>16, <2>6 DEF MenuTypeOK
    <3> QED
      BY <1>1, <1>2, <2>1, <2>5, <2>6, <3>1, <3>2, <3>3 DEF MenuTypeOK
  <2>8. Remembered'
    <3>1. itemSelected[n] => url[n] # None /\ url[n] \in visited
      BY <1>2, <1>3, MenuAssumption DEF Remembered, MenuTypeOK
    <3>2. uri[r] \in visited
      BY <1>1, <1>2 DEF Remembered
    <3>3. itemSelected'[n] => url'[n] \in visited
      BY <2>4, <2>6, <3>1, <3>2
    <3>4. \A m \in Nodes : itemSelected'[m] => url'[m] \in visited
      BY <1>2, <2>6, <3>3 DEF Remembered
    <3> QED
      BY <1>1, <1>2, <1>16, <2>1, <3>4 DEF Remembered
  <2>9. Done(r, n)'
    BY <1>1, <1>16, <2>1, <2>5, <2>6 DEF Done, Good
  <2>10. ASSUME NEW m \in Nodes \ {n}, Done(r, m) PROVE Done(r, m)'
    BY <1>1, <1>16, <2>1, <2>5, <2>6, <2>10 DEF Done, Good
  <2>11. ~overlapped[r] => Walked(r)'
    BY <1>10, <1>14, <1>16, <2>1, <2>9, <2>10
  <2> QED
    BY <1>6, <1>8, <1>9, <2>7, <2>8, <2>11 DEF MenuIInv
<1> QED
  BY <1>4, <1>13, <1>15, <1>16

\* A request that ends while none that is alone has a page or prepares one.
LEMMA ForgetKeeps ==
    ASSUME MenuIInv, NEW r \in Requests, stage[r] # "idle", Forget(r),
           UNCHANGED <<items, disabled, itemSelected, prepared, url, visited, requests, edits, off, emptied>>,
           internalDisabled' \in [Nodes -> BOOLEAN \cup {None}],
           \A n \in Nodes \ Secure : internalDisabled'[n] = None
    PROVE  MenuIInv'
<1>1. /\ stage' = [stage EXCEPT ![r] = "idle"]
      /\ uri' = [uri EXCEPT ![r] = None]
      /\ may' = [may EXCEPT ![r] = {}]
      /\ todo' = [todo EXCEPT ![r] = << >>]
      /\ entered' = [entered EXCEPT ![r] = {}]
      /\ html' = [html EXCEPT ![r] = Blank]
      /\ overlapped' = [overlapped EXCEPT ![r] = FALSE]
  BY DEF Forget
<1>2. MenuTypeOK /\ Remembered /\ Marked
  BY DEF MenuIInv
<1>3. MenuTypeOK'
  <2>1. Blank \in RenderedPages
    BY DEF Blank, RenderedPages
  <2>2. << >> \in Seq(Nodes)
    BY EmptySeq
  <2> QED
    BY <1>1, <1>2, <2>1, <2>2 DEF MenuTypeOK
<1>4. /\ stage'[r] = "idle"
      /\ \A q \in Requests \ {r} : /\ stage'[q] = stage[q] /\ uri'[q] = uri[q]
                                   /\ entered'[q] = entered[q] /\ overlapped'[q] = overlapped[q]
      /\ entered'[r] = {}
  BY <1>1, <1>2 DEF MenuTypeOK
<1>5. Remembered'
  BY <1>2, <1>4 DEF Remembered
<1>6. Marked'
  BY <1>2, <1>4 DEF Marked
<1>7. \A q \in Requests : stage'[q] # "idle" => overlapped'[q]
  BY <1>2, <1>4 DEF Marked
<1>8. WalkedAlone'
  BY <1>7 DEF WalkedAlone
<1>9. \A q \in Requests : ~Alone(q)'
  BY <1>7 DEF Alone
<1> QED
  BY <1>3, <1>5, <1>6, <1>8, <1>9, NobodyAlone DEF MenuIInv

LEMMA PrepareThrowsKeeps ==
    ASSUME MenuIInv, NEW r \in Requests, PrepareThrows(r)
    PROVE  MenuIInv'
<1>1. stage[r] # "idle" /\ Forget(r) /\ todo[r] # << >>
  BY DEF PrepareThrows
<1>2. UNCHANGED <<items, disabled, itemSelected, prepared, url, visited, requests, edits, off, emptied>>
  BY DEF PrepareThrows, tree, told
<1>3. MenuTypeOK
  BY DEF MenuIInv
<1>4. PICK n : n = Head(todo[r])
  OBVIOUS
<1>5. n \in Nodes
  BY <1>1, <1>3, <1>4, HeadOrTail DEF MenuTypeOK
<1>6. internalDisabled' = internalDisabled \/ internalDisabled' = Authorize(r, n)
  BY <1>4 DEF PrepareThrows
<1>7. /\ internalDisabled' \in [Nodes -> BOOLEAN \cup {None}]
      /\ \A m \in Nodes \ Secure : internalDisabled'[m] = None
  <2>1. CASE internalDisabled' = internalDisabled
    BY <1>3, <2>1 DEF MenuTypeOK
  <2>2. CASE n \in Secure /\ internalDisabled' = Authorize(r, n)
    <3>1. internalDisabled' = [internalDisabled EXCEPT ![n] = disabled[n] \/ n \notin may[r]]
      BY <2>2 DEF Authorize
    <3>2. (disabled[n] \/ n \notin may[r]) \in BOOLEAN
      OBVIOUS
    <3>3. internalDisabled' \in [Nodes -> BOOLEAN \cup {None}]
      BY <1>3, <3>1, <3>2 DEF MenuTypeOK
    <3> QED
      BY <1>3, <2>2, <3>1, <3>3 DEF MenuTypeOK
  <2>3. CASE n \notin Secure /\ internalDisabled' = Authorize(r, n)
    BY <1>3, <2>3 DEF Authorize, MenuTypeOK
  <2> QED
    BY <1>6, <2>1, <2>2, <2>3
<1> QED
  BY <1>1, <1>2, <1>7, ForgetKeeps

LEMMA FinishKeeps ==
    ASSUME MenuIInv, NEW r \in Requests, Finish(r)
    PROVE  MenuIInv'
<1>1. stage[r] # "idle" /\ Forget(r)
      /\ UNCHANGED <<items, disabled, internalDisabled, itemSelected, prepared, url, visited, requests,
                     edits, off, emptied>>
  BY DEF Finish, tree, found, told
<1>2. /\ internalDisabled' \in [Nodes -> BOOLEAN \cup {None}]
      /\ \A n \in Nodes \ Secure : internalDisabled'[n] = None
  BY <1>1 DEF MenuIInv, MenuTypeOK
<1> QED
  BY <1>1, <1>2, ForgetKeeps

\* What a request should be shown depends on the tree and on its user.
LEMMA SameReached ==
    ASSUME NEW r \in Requests, UNCHANGED <<items, off, emptied, may>>
    PROVE  /\ Reached(r, {})' = Reached(r, {})
           /\ Reached(r, Lost \cup Skipping(r))' = Reached(r, Lost \cup Skipping(r))
           /\ \A n : Allowed(r, n)' = Allowed(r, n)
<1>1. Skipping(r)' = Skipping(r) /\ Lost' = Lost
  BY DEF Skipping, Lost, Visible, Allowed
<1>2. Reached(r, {})' = Reached(r, {})
  BY DEF Reached, Open, Under, Visible, Allowed
<1>3. Reached(r, Lost \cup Skipping(r))' = Reached(r, Lost \cup Skipping(r))
  BY <1>1 DEF Reached, Open, Under, Visible, Allowed
<1>4. \A n : Allowed(r, n)' = Allowed(r, n)
  BY DEF Allowed
<1> QED
  BY <1>2, <1>3, <1>4

LEMMA RenderKeeps ==
    ASSUME MenuIInv, NEW r \in Requests, Render(r)
    PROVE  MenuIInv'
<1>1. /\ stage[r] = "preparing" /\ todo[r] = << >>
      /\ html' = [html EXCEPT ![r] = Rendered]
      /\ stage' = [stage EXCEPT ![r] = "rendered"]
      /\ UNCHANGED <<items, disabled, internalDisabled, itemSelected, prepared, url, uri, may,
                     todo, entered, overlapped, visited, requests, edits, off, emptied>>
  BY DEF Render, tree, found, told
<1>2. MenuTypeOK /\ Remembered /\ Marked
  BY DEF MenuIInv
<1>3. MenuTypeOK'
  BY <1>1, <1>2, RenderedType DEF MenuTypeOK
<1>4. /\ stage'[r] = "rendered" /\ html'[r] = Rendered
      /\ \A q \in Requests \ {r} : stage'[q] = stage[q]
  BY <1>1, <1>2 DEF MenuTypeOK
<1>5. Remembered'
  BY <1>1, <1>2, <1>4 DEF Remembered
<1>6. Marked'
  BY <1>1, <1>2, <1>4 DEF Marked
<1>7. \A q \in Requests \ {r} : stage'[q] # "idle" => overlapped'[q]
  BY <1>4, <1>6 DEF Marked
<1>8. WalkedAlone'
  BY <1>4, <1>7 DEF WalkedAlone
<1>9. ASSUME ~overlapped[r]
      PROVE  /\ ~Rendered.threw
             /\ Reached(r, Lost \cup Skipping(r)) \subseteq Rendered.shown \cap Items
             /\ Rendered.shown \cap Items \subseteq Reached(r, {})
             /\ Rendered.enabled \cap Items = {n \in Rendered.shown \cap Items : Allowed(r, n)}
             /\ \A n \in Rendered.shown \cap Items :
                   /\ url[n] = uri[r] => n \in Rendered.selected
                   /\ n \in Rendered.selected => url[n] \in visited
  <2>1. Walked(r)
    BY <1>1, <1>9 DEF MenuIInv, WalkedAlone
  <2> QED
    BY <1>1, <1>2, <2>1, RenderedIs, LedToIsReached
<1>10. \A q \in Requests : Alone(q)' => q = r /\ ~overlapped[r]
  BY <1>1, <1>7 DEF Alone
<1>11. ShowsWhatIsVisible'
  <2>1. /\ Reached(r, {})' = Reached(r, {})
        /\ Reached(r, Lost \cup Skipping(r))' = Reached(r, Lost \cup Skipping(r))
        /\ \A n : Allowed(r, n)' = Allowed(r, n)
    BY <1>1, SameReached
  <2> SUFFICES ASSUME ~overlapped[r]
               PROVE  /\ ~html'[r].threw
                      /\ Reached(r, Lost \cup Skipping(r))' \subseteq html'[r].shown \cap Items
                      /\ html'[r].shown \cap Items \subseteq Reached(r, {})'
                      /\ html'[r].enabled \cap Items = {n \in html'[r].shown \cap Items : Allowed(r, n)'}
    BY <1>10 DEF ShowsWhatIsVisible
  <2>2. {n \in Rendered.shown \cap Items : Allowed(r, n)'} = {n \in Rendered.shown \cap Items : Allowed(r, n)}
    BY <2>1
  <2> QED
    BY <1>4, <1>9, <2>1, <2>2
<1>12. CurrentIsSelected'
  BY <1>1, <1>4, <1>9, <1>10 DEF CurrentIsSelected
<1> QED
  BY <1>3, <1>5, <1>6, <1>8, <1>11, <1>12 DEF MenuIInv

\* A change of the menu, which no request uses.
LEMMA EditKeeps ==
    ASSUME MenuIInv, Active = {}, UNCHANGED <<found, request>>,
           items' \in [Lists -> Seq(Nodes)], \A l \in Lists : IsInjective(items'[l]),
           disabled' \in [Nodes -> BOOLEAN], edits' \in 0..MaxEdits,
           off' \in [Nodes -> BOOLEAN], emptied' \subseteq Lists,
           \A n \in Nodes : disabled'[n] = (off'[n] \/ n \in emptied')
    PROVE  MenuIInv'
<1>1. UNCHANGED <<internalDisabled, itemSelected, prepared, url, stage, uri, may, todo, entered,
                  html, overlapped, visited, requests>>
  BY DEF found, request
<1>2. \A q \in Requests : stage[q] = "idle"
  BY DEF Active
<1>3. MenuTypeOK'
  BY <1>1 DEF MenuIInv, MenuTypeOK
<1>4. Remembered'
  BY <1>1 DEF MenuIInv, Remembered
<1>5. Marked' /\ WalkedAlone'
  BY <1>1, <1>2 DEF Marked, WalkedAlone
<1>6. \A q \in Requests : ~Alone(q)'
  BY <1>1, <1>2 DEF Alone
<1> QED
  BY <1>3, <1>4, <1>5, <1>6, NobodyAlone DEF MenuIInv

LEMMA EditCounted ==
    ASSUME MenuTypeOK, Edit
    PROVE  Active = {} /\ edits' \in 0..MaxEdits
BY MenuAssumption DEF Edit, MenuTypeOK

LEMMA AddItemKeeps ==
    ASSUME MenuIInv, NEW l \in Lists, NEW n \in Items, AddItem(l, n)
    PROVE  MenuIInv'
<1>1. /\ Edit
      /\ \A k \in Lists : \A i \in DOMAIN items[k] : items[k][i] # n
      /\ items' = [items EXCEPT ![l] = Append(@, n)]
      /\ UNCHANGED <<disabled, found, request, off, emptied>>
  BY DEF AddItem, told
<1>2. MenuTypeOK /\ Remembered
  BY DEF MenuIInv
<1> DEFINE s == items[l]
<1>3. s \in Seq(Nodes) /\ n \in Nodes /\ IsInjective(s)
  BY <1>2 DEF MenuTypeOK, Remembered, Nodes
<1>4. Append(s, n) \in Seq(Nodes) /\ IsInjective(Append(s, n))
  <2> DEFINE t == Append(s, n)
  <2> HIDE DEF s
  <2>1. Len(s) \in Nat /\ DOMAIN s = 1..Len(s)
    BY <1>3, LenProperties
  <2>2. /\ t \in Seq(Nodes) /\ Len(t) = Len(s) + 1
        /\ \A i \in 1..Len(s) : t[i] = s[i]
        /\ t[Len(s) + 1] = n
    BY <1>3, AppendProperties
  <2>3. DOMAIN t = 1..(Len(s) + 1)
    BY <2>2, LenProperties
  <2>4. \A i \in DOMAIN s : s[i] # n
    BY <1>1 DEF s
  <2> HIDE DEF t
  <2>5. \A i \in DOMAIN t : (i = Len(s) + 1 /\ t[i] = n) \/ (i \in DOMAIN s /\ t[i] = s[i])
    BY <2>1, <2>2, <2>3
  <2>6. IsInjective(t)
    BY <1>3, <2>4, <2>5 DEF IsInjective
  <2> QED
    BY <2>2, <2>6 DEF t
<1>5. items' \in [Lists -> Seq(Nodes)]
  BY <1>1, <1>2, <1>4 DEF MenuTypeOK
<1>6. \A k \in Lists : IsInjective(items'[k])
  BY <1>1, <1>2, <1>4 DEF MenuTypeOK, Remembered
<1>7. /\ disabled' \in [Nodes -> BOOLEAN] /\ off' \in [Nodes -> BOOLEAN] /\ emptied' \subseteq Lists
      /\ \A m \in Nodes : disabled'[m] = (off'[m] \/ m \in emptied')
  BY <1>1, <1>2 DEF MenuTypeOK, Remembered
<1>8. Active = {} /\ edits' \in 0..MaxEdits
  BY <1>1, <1>2, EditCounted
<1> QED
  BY <1>1, <1>5, <1>6, <1>7, <1>8, EditKeeps

LEMMA RemoveItemKeeps ==
    ASSUME MenuIInv, NEW l \in Lists, NEW i \in DOMAIN items[l], RemoveItem(l, i)
    PROVE  MenuIInv'
<1>1. /\ Edit
      /\ items' = [items EXCEPT ![l] = RemoveAt(@, i)]
      /\ UNCHANGED <<disabled, found, request, off, emptied>>
  BY DEF RemoveItem, told
<1>2. MenuTypeOK /\ Remembered
  BY DEF MenuIInv
<1> DEFINE s == items[l]
           n == Len(s)
           front == SubSeq(s, 1, i - 1)
           back == SubSeq(s, i + 1, n)
           t == front \o back
<1>3. s \in Seq(Nodes) /\ IsInjective(s)
  BY <1>2 DEF MenuTypeOK, Remembered
<1>4. RemoveAt(s, i) = t
  BY DEF RemoveAt
<1> HIDE DEF s, n, front, back, t
<1>5. n \in Nat /\ i \in 1..n /\ DOMAIN s = 1..n /\ \A j \in 1..n : s[j] \in Nodes
  BY <1>3, LenProperties, ElementOfSeq DEF s, n
<1>6. front \in Seq(Nodes) /\ Len(front) = i - 1 /\ \A j \in 1..(i - 1) : front[j] = s[j]
  <2>1. \A j \in 1..(i - 1) : s[j] \in Nodes
    BY <1>5
  <2>2. 1 \in Int /\ i - 1 \in Int /\ i - 1 \in Nat
    BY <1>5
  <2>3. /\ front \in Seq(Nodes)
        /\ Len(front) = IF 1 <= i - 1 THEN i - 1 - 1 + 1 ELSE 0
        /\ \A j \in 1..(i - 1 - 1 + 1) : front[j] = s[1 + j - 1]
    BY <2>1, <2>2, SubSeqProperties DEF front
  <2> QED
    BY <2>2, <2>3
<1>7. back \in Seq(Nodes) /\ Len(back) = n - i /\ \A j \in 1..(n - i) : back[j] = s[i + j]
  <2>1. \A j \in (i + 1)..n : s[j] \in Nodes
    BY <1>5
  <2>2. i + 1 \in Int /\ n \in Int /\ n - i \in Nat
    BY <1>5
  <2>3. /\ back \in Seq(Nodes)
        /\ Len(back) = IF i + 1 <= n THEN n - (i + 1) + 1 ELSE 0
        /\ \A j \in 1..(n - (i + 1) + 1) : back[j] = s[i + 1 + j - 1]
    BY <2>1, <2>2, SubSeqProperties DEF back
  <2>4. Len(back) = n - i
    BY <2>2, <2>3, <1>5
  <2>5. \A j \in 1..(n - i) : back[j] = s[i + j]
    <3>1. n - (i + 1) + 1 = n - i /\ \A j \in 1..(n - i) : i + 1 + j - 1 = i + j
      BY <1>5
    <3> QED
      BY <2>3, <3>1
  <2> QED
    BY <2>3, <2>4, <2>5
<1>8. /\ t \in Seq(Nodes) /\ Len(t) = n - 1
      /\ \A j \in 1..(n - 1) : t[j] = IF j < i THEN s[j] ELSE s[j + 1]
  <2>1. /\ t \in Seq(Nodes) /\ Len(t) = Len(front) + Len(back)
        /\ \A j \in 1..(Len(front) + Len(back)) :
              t[j] = IF j <= Len(front) THEN front[j] ELSE back[j - Len(front)]
    BY <1>6, <1>7, ConcatProperties DEF t
  <2>2. Len(front) + Len(back) = n - 1
    BY <1>5, <1>6, <1>7
  <2>3. ASSUME NEW j \in 1..(n - 1)
        PROVE  t[j] = IF j < i THEN s[j] ELSE s[j + 1]
    <3>1. CASE j < i
      BY <1>5, <1>6, <2>1, <2>2, <3>1
    <3>2. CASE ~(j < i)
      <4>1. PICK k \in 1..(n - i) : k = j - (i - 1)
        BY <1>5, <3>2
      <4>2. i + k = j + 1 /\ ~(j <= i - 1)
        BY <1>5, <3>2, <4>1
      <4>3. t[j] = back[k]
        BY <1>6, <2>1, <2>2, <4>1, <4>2
      <4> QED
        BY <1>7, <3>2, <4>2, <4>3
    <3> QED
      BY <3>1, <3>2
  <2> QED
    BY <2>1, <2>2, <2>3
<1>9. IsInjective(t)
  <2>1. DOMAIN t = 1..(n - 1)
    BY <1>8, LenProperties
  <2>2. \A j, k \in DOMAIN s : s[j] = s[k] => j = k
    BY <1>3 DEF IsInjective
  <2>3. ASSUME NEW j \in 1..(n - 1), NEW k \in 1..(n - 1), t[j] = t[k]
        PROVE  j = k
    <3>1. PICK x \in 1..n : x = IF j < i THEN j ELSE j + 1
      BY <1>5
    <3>2. PICK y \in 1..n : y = IF k < i THEN k ELSE k + 1
      BY <1>5
    <3>3. t[j] = s[x] /\ t[k] = s[y]
      BY <1>8, <3>1, <3>2
    <3>4. x = y
      BY <1>5, <2>2, <2>3, <3>3
    <3> QED
      BY <1>5, <3>1, <3>2, <3>4
  <2> QED
    BY <2>1, <2>3 DEF IsInjective
<1>10. items' \in [Lists -> Seq(Nodes)]
  BY <1>1, <1>2, <1>4, <1>8 DEF MenuTypeOK, s
<1>11. \A k \in Lists : IsInjective(items'[k])
  BY <1>1, <1>2, <1>4, <1>9 DEF MenuTypeOK, Remembered, s
<1>12. /\ disabled' \in [Nodes -> BOOLEAN] /\ off' \in [Nodes -> BOOLEAN] /\ emptied' \subseteq Lists
       /\ \A m \in Nodes : disabled'[m] = (off'[m] \/ m \in emptied')
  BY <1>1, <1>2 DEF MenuTypeOK, Remembered
<1>13. Active = {} /\ edits' \in 0..MaxEdits
  BY <1>1, <1>2, EditCounted
<1> QED
  BY <1>1, <1>10, <1>11, <1>12, <1>13, EditKeeps

LEMMA SetDisabledKeeps ==
    ASSUME MenuIInv, NEW n \in Nodes, NEW value \in BOOLEAN, SetDisabled(n, value)
    PROVE  MenuIInv'
<1>1. /\ Edit
      /\ disabled' = [disabled EXCEPT ![n] = value]
      /\ off' = [off EXCEPT ![n] = value]
      /\ emptied' = emptied \ {n}
      /\ UNCHANGED <<items, found, request>>
  BY DEF SetDisabled
<1>2. MenuTypeOK /\ Remembered
  BY DEF MenuIInv
<1>3. disabled' \in [Nodes -> BOOLEAN] /\ off' \in [Nodes -> BOOLEAN] /\ emptied' \subseteq Lists
  BY <1>1, <1>2 DEF MenuTypeOK
<1>4. ASSUME NEW m \in Nodes PROVE disabled'[m] = (off'[m] \/ m \in emptied')
  <2>1. disabled[m] = (off[m] \/ m \in emptied)
    BY <1>2 DEF Remembered
  <2>2. disabled \in [Nodes -> BOOLEAN] /\ off \in [Nodes -> BOOLEAN]
    BY <1>2 DEF MenuTypeOK
  <2>3. CASE m = n
    BY <1>1, <2>2, <2>3
  <2>4. CASE m # n
    BY <1>1, <2>1, <2>2, <2>4
  <2> QED
    BY <2>3, <2>4
<1>5. items' \in [Lists -> Seq(Nodes)] /\ \A l \in Lists : IsInjective(items'[l])
  BY <1>1, <1>2 DEF MenuTypeOK, Remembered
<1>6. Active = {} /\ edits' \in 0..MaxEdits
  BY <1>1, <1>2, EditCounted
<1> QED
  BY <1>1, <1>3, <1>4, <1>5, <1>6, EditKeeps

LEMMA MenuUnchangedKeeps == MenuIInv /\ UNCHANGED menuVars => MenuIInv'
<1> SUFFICES ASSUME MenuIInv, UNCHANGED menuVars PROVE MenuIInv'
  OBVIOUS
<1>1. UNCHANGED <<items, disabled, internalDisabled, itemSelected, prepared, url, stage, uri, may,
                  todo, entered, html, overlapped, visited, requests, edits, off, emptied>>
  BY DEF menuVars, tree, found, request, told
<1>2. MenuTypeOK' /\ Remembered' /\ Marked'
  BY <1>1 DEF MenuIInv, MenuTypeOK, Remembered, Marked
<1>3. WalkedAlone'
  BY <1>1 DEF MenuIInv, WalkedAlone, Walked, Done, Good, Pending
<1>4. \A r \in Requests : Alone(r)' = Alone(r)
  BY <1>1 DEF Alone
<1>5. ASSUME NEW r \in Requests, Alone(r)
      PROVE  /\ ~html'[r].threw
             /\ Reached(r, Lost \cup Skipping(r))' \subseteq html'[r].shown \cap Items
             /\ html'[r].shown \cap Items \subseteq Reached(r, {})'
             /\ html'[r].enabled \cap Items = {n \in html'[r].shown \cap Items : Allowed(r, n)'}
  <2>1. /\ ~html[r].threw
        /\ Reached(r, Lost \cup Skipping(r)) \subseteq html[r].shown \cap Items
        /\ html[r].shown \cap Items \subseteq Reached(r, {})
        /\ html[r].enabled \cap Items = {n \in html[r].shown \cap Items : Allowed(r, n)}
    BY <1>5 DEF MenuIInv, ShowsWhatIsVisible
  <2>2. /\ Reached(r, {})' = Reached(r, {})
        /\ Reached(r, Lost \cup Skipping(r))' = Reached(r, Lost \cup Skipping(r))
        /\ \A n : Allowed(r, n)' = Allowed(r, n)
    BY <1>1, SameReached
  <2> QED
    BY <1>1, <2>1, <2>2
<1>6. ShowsWhatIsVisible'
  BY <1>4, <1>5 DEF ShowsWhatIsVisible
<1>8. CurrentIsSelected'
  BY <1>1, <1>4 DEF MenuIInv, CurrentIsSelected
<1> QED
  BY <1>2, <1>3, <1>6, <1>8 DEF MenuIInv

LEMMA MenuNextKeeps == MenuIInv /\ [MenuNext]_menuVars => MenuIInv'
<1> SUFFICES ASSUME MenuIInv, [MenuNext]_menuVars PROVE MenuIInv'
  OBVIOUS
<1>1. ASSUME NEW r \in Requests,
             RenderHtml(r) \/ Prepare(r) \/ PrepareThrows(r) \/ Render(r) \/ Finish(r)
      PROVE  MenuIInv'
  BY <1>1, RenderHtmlKeeps, PrepareKeeps, PrepareThrowsKeeps, RenderKeeps, FinishKeeps
<1>2. ASSUME NEW l \in Lists, NEW n \in Items, AddItem(l, n)
      PROVE  MenuIInv'
  BY <1>2, AddItemKeeps
<1>3. ASSUME NEW l \in Lists, NEW i \in DOMAIN items[l], RemoveItem(l, i)
      PROVE  MenuIInv'
  BY <1>3, RemoveItemKeeps
<1>4. ASSUME NEW n \in Nodes, NEW value \in BOOLEAN, SetDisabled(n, value)
      PROVE  MenuIInv'
  BY <1>4, SetDisabledKeeps
<1>5. CASE UNCHANGED menuVars
  BY <1>5, MenuUnchangedKeeps
<1> QED
  BY <1>1, <1>2, <1>3, <1>4, <1>5 DEF MenuNext

THEOREM MenuInvariance == MenuSpec => []MenuIInv
<1>1. MenuInit => MenuIInv
  BY MenuInitHolds
<1>2. MenuIInv /\ [MenuNext]_menuVars => MenuIInv'
  BY MenuNextKeeps
<1> QED
  BY <1>1, <1>2, PTL DEF MenuSpec

\* The flags, addresses and pages stay what the code takes them for; only a
\* secure item remembers whether it is disabled, and no list is ever selected.
THEOREM MenuTypeCorrect == MenuSpec => []MenuTypeOK
<1>1. MenuIInv => MenuTypeOK
  BY DEF MenuIInv
<1> QED
  BY <1>1, MenuInvariance, PTL

\* A page shows only what its user may see of the tree, whoever the menu was
\* rendered for before, with links exactly where the user may follow them, and all
\* of it but for lists once empty (MenuList.cs:138-139) and a single item that is
\* not the first of its list (MenuList.cs:97).
THEOREM ShowsWhatIsVisibleAlways == MenuSpec => []ShowsWhatIsVisible
<1>1. MenuIInv => ShowsWhatIsVisible
  BY DEF MenuIInv
<1> QED
  BY <1>1, MenuInvariance, PTL

\* The item that links to the page itself is selected on it, and none that
\* links to a path nobody asked for.
THEOREM CurrentIsSelectedAlways == MenuSpec => []CurrentIsSelected
<1>1. MenuIInv => CurrentIsSelected
  BY DEF MenuIInv
<1> QED
  BY <1>1, MenuInvariance, PTL
=============================================================================
