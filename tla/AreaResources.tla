---------------------------- MODULE AreaResources ----------------------------
(***************************************************************************)
(* Portable areas (src/MVCContrib/PortableAreas): at start-up each area     *)
(* announces itself on the bus, maps its routes, and registers a store of   *)
(* the resources embedded in its assembly, with a map that adapts its pages *)
(* to the host; the first one also installs the view engine, which brings a *)
(* store of its own.  The host sets maps up meanwhile.  Requests then find  *)
(* a file by its virtual path (AssemblyResourceProvider) or by area and     *)
(* name (EmbeddedResourceController).                                       *)
(*                                                                          *)
(* A path, a key or a resource's name is a sequence of words and separators, *)
(* slashes and dots, in lower case, as the code compares them.  An area's   *)
(* name may take several words, of which another area's may be the first.   *)
(***************************************************************************)
EXTENDS Naturals, SequencesExt

CONSTANTS
    Areas,          \* the portable areas of the application
    AreaName,       \* AreaName[a]: its words
    AreaNamespace,  \* AreaNamespace[a]: its registration's namespace, by segment
    Embedded,       \* Embedded[a]: names of the resources in its assembly
    MapType,        \* MapType[a]: the type its GetMap asks for, or NoMap
    MapTypes, NoMap,
    Paths,          \* virtual paths requested
    OnDisk,         \* those the host has a file for
    Files,          \* content files requested by area and name
    Masters, Placeholders, \* what the host may set, besides the defaults
    MaxSettings     \* bound: settings of the host

Null == "null"
Builtins == {"inputbuilders", "areas"}
Stores == Areas \cup Builtins

\* No word of a name or a namespace is a separator of paths.
ASSUME AreaAssumption ==
    /\ Areas \cap (Builtins \cup {Null, "disk", "throws"}) = {}
    /\ AreaName \in [Areas -> Seq(STRING \ {"/"})]
    /\ AreaNamespace \in [Areas -> Seq(STRING \ {"/"})]
    /\ Embedded \in [Areas -> SUBSET Seq(STRING)]
    /\ MapType \in [Areas -> MapTypes \cup {NoMap}] /\ NoMap \notin MapTypes
\* An area has no folder called areas inside.
\* The files requested have an extension, the last word of the path.
ASSUME PathAssumption ==
    /\ OnDisk \subseteq Paths
    /\ Paths \subseteq Seq(STRING) /\ Files \subseteq Seq(STRING)
    /\ \A f \in Files : Len(f) > 2 /\ f[Len(f) - 1] = "."
    /\ \A p \in Paths :
          /\ Len(p) > 4 /\ p[1] = "~"
          /\ p[Len(p) - 3] \in {"/", "."} /\ p[Len(p) - 1] = "."
          /\ p[Len(p) - 2] \notin {"/", "."} /\ p[Len(p)] \notin {"/", "."}
          /\ \A i, j \in DOMAIN p : p[i] = "areas" /\ p[j] = "areas" => i = j
ASSUME BoundAssumption == MaxSettings \in Nat

VARIABLES
    stores,     \* assemblyResourceStores, in the order of registration
    engine,     \* ViewEngines.Engines holds the InputBuilderViewEngine
    routes,     \* names of the areas whose routes are mapped
    pc, area,   \* start-up: where it is, and the area being registered
    done,       \* areas registered
    default,    \* PortableAreaContent._defaultMap, or NoMap
    maps,       \* PortableAreaContent.Maps
    settings,   \* how often the host has set something
    asked,      \* history: what the host last asked for each map
    response    \* how the last request was answered

vars == <<stores, engine, routes, pc, area, done, default, maps, settings,
          asked, response>>

-----------------------------------------------------------------------------
(* Stores *)

\* AssemblyResourceStore.VirtualPath
Key(s) ==
    IF s = "inputbuilders" THEN <<"/", "views", "/", "inputbuilders">>
    ELSE IF s = "areas" THEN <<"/", "areas">>
    ELSE <<"/", "areas", "/">> \o AreaName[s]

NamespaceOf(s) ==
    IF s = "inputbuilders"
    THEN <<"mvccontrib", "ui", "inputbuilder", "views", "inputbuilders">>
    ELSE IF s = "areas" THEN <<"mvccontrib", "portableareas">>
    ELSE AreaNamespace[s]

\* segments joined by dots
Dotted(segments) ==
    [i \in 1..(2 * Len(segments) - 1) |->
        IF i % 2 = 1 THEN segments[(i + 1) \div 2] ELSE "."]

\* What the library's own assembly embeds.
Library ==
    {Dotted(NamespaceOf("areas")) \o <<".", "web", ".", "config">>,
     Dotted(NamespaceOf("inputbuilders")) \o <<".", "string", ".", "aspx">>}

ResourcesOf(s) == IF s \in Builtins THEN Library ELSE Embedded[s]

\* The path with the namespace for "~", without the key, with dots.
GetFullyQualifiedTypeFromPath(s, path) ==
    LET named == IF path[1] = "~" THEN Dotted(NamespaceOf(s)) \o Tail(path) ELSE path
    IN  ReplaceAll(ReplaceFirstSubSeq(<<>>, Key(s), named), "/", ".")

\* The last two of the pieces that dots separate: the name of a file, or of one
\* with several dots its end ("min.js" of "jquery.min.js").
GetFileNameOnly(fullPath) ==
    LET n == Len(fullPath)
    IN  IF n < 3 THEN fullPath ELSE SubSeq(fullPath, n - 2, n)

\* That name in the namespace, less level segments.  The last level, where
\* keepGoing becomes false, is the whole namespace again.
GetPartiallyQualifiedTypeFromPath(s, path, level) ==
    LET segments == NamespaceOf(s)
        keepGoing == Len(segments) - 1 > level
        prefix == IF keepGoing THEN SubSeq(segments, 1, Len(segments) - level)
                  ELSE segments
    IN  Dotted(prefix) \o <<".">> \o GetFileNameOnly(GetFullyQualifiedTypeFromPath(s, path))

\* The names a path may stand for, in the order they are tried.
Candidates(s, path) ==
    <<GetFullyQualifiedTypeFromPath(s, path)>> \o
    [i \in 1..Len(NamespaceOf(s)) |->
        GetPartiallyQualifiedTypeFromPath(s, path, i - 1)]

\* EmbeddedResourceController asks for "~.Content.<file>".
ContentPath(file) == <<"~", ".", "content", ".">> \o file

Requested == Paths \cup {ContentPath(file) : file \in Files}

\* TryGetActualResourceName: the first that exists, or the empty name.
ActualResourceName ==
    [s \in Stores |-> [path \in Requested |->
        LET exists(name) == name \in ResourcesOf(s)
            i == SelectInSeq(Candidates(s, path), exists)
        IN  IF i = 0 THEN <<>> ELSE Candidates(s, path)[i]]]

IsPathResourceStream(s, path) == ActualResourceName[s][path] # <<>>

\* checkPath.Contains(resourceStore.Key)
KeyIsIn ==
    [s \in Stores |-> [path \in Requested |-> Key(s) \in SubSeqs(path)]]

\* Variant of StoreFromVirtualPath that looks at the key only.
StoreFromVirtualPathByKey(path) ==
    LET matches(s) == KeyIsIn[s][path]
        i == SelectInSeq(stores, matches)
    IN  IF i = 0 THEN Null ELSE stores[i]

\* GetResourceStoreFromVirtualPath: the first registered store whose key is
\* somewhere in the path and that finds a resource for it.
StoreFromVirtualPath(path) ==
    LET matches(s) == KeyIsIn[s][path] /\ IsPathResourceStream(s, path)
        i == SelectInSeq(stores, matches)
    IN  IF i = 0 THEN Null ELSE stores[i]

-----------------------------------------------------------------------------
(* Maps *)

DefaultMaster == "site.master"
TitleID == "titlecontent"
BodyID == "maincontent"

MasterValues == Masters \cup {Null}
Values == Placeholders \cup {TitleID, BodyID, Null}
\* The mappings in the order they were added, one at most for each key.
Mappings ==
    {pairs \in Seq({TitleID, BodyID} \X Values) :
        \A i, j \in DOMAIN pairs : pairs[i][1] = pairs[j][1] => i = j}
Maps == [master: MasterValues, mappings: Mappings]

ASSUME MapAssumption == NoMap \notin Maps

NewMap == [master |-> Null, mappings |-> <<>>]

\* PortableAreaMap.Add
WithMapping(map, id, value) ==
    [map EXCEPT !.mappings =
        IF \E i \in DOMAIN @ : @[i][1] = id
        THEN [i \in DOMAIN @ |-> IF @[i][1] = id THEN <<id, value>> ELSE @[i]]
        ELSE Append(@, <<id, value>>)]

\* The getters Title and Body
Mapped(map, id) ==
    LET same(pair) == pair[1] = id
        i == SelectInSeq(map.mappings, same)
    IN  IF i = 0 THEN Null ELSE map.mappings[i][2]

\* CreateMapWithDefault copies the default map, also what it has not set.
CreateMapWithDefault ==
    IF default = NoMap THEN NewMap
    ELSE WithMapping(
            WithMapping([NewMap EXCEPT !.master = default.master],
                        TitleID, Mapped(default, TitleID)),
            BodyID, Mapped(default, BodyID))

\* PortableAreaContent.Map
Map(type) == IF maps[type] = NoMap THEN CreateMapWithDefault ELSE maps[type]

\* A page as an area embeds it: the default master and placeholders.
TemplatePage == [master |-> DefaultMaster, title |-> TitleID, body |-> BodyID]

\* TransformMarkup: the master is replaced when one is set; the mappings are
\* applied one after the other, each to what the former ones made.  There are
\* two keys, so two mappings at most.
Transform(map) ==
    LET replace(page, i) ==
            IF i \in DOMAIN map.mappings
            THEN LET pair == map.mappings[i]
                 IN  [page EXCEPT !.title = IF @ = pair[1] THEN pair[2] ELSE @,
                                  !.body  = IF @ = pair[1] THEN pair[2] ELSE @]
            ELSE page
        page == [TemplatePage EXCEPT !.master = IF map.master = Null THEN @ ELSE map.master]
    IN  replace(replace(page, 1), 2)

NoPage == [master |-> Null, title |-> Null, body |-> Null]

\* What GetResourceStream yields, as far as maps can tell.
Page(s, path) ==
    IF Last(path) \notin {"aspx", "master"} THEN NoPage
    ELSE IF s \in Builtins \/ (s \in Areas /\ MapType[s] = NoMap) THEN TemplatePage
    ELSE Transform(maps[MapType[s]])

-----------------------------------------------------------------------------

NoResponse == [path |-> <<>>, from |-> Null, name |-> <<>>, page |-> NoPage]
Unasked == [master |-> Null, title |-> Null, body |-> Null]

PCs == {"idle", "routes", "resources", "viewengine", "webconfig", "failed"}

TypeOK ==
    /\ stores \in Seq(Stores) /\ IsInjective(stores)
    /\ engine \in BOOLEAN
    /\ routes \subseteq Range(AreaName)
    /\ pc \in PCs /\ (pc # "idle" => area \in Areas)
    /\ done \subseteq Areas
    /\ default \in Maps \cup {NoMap}
    /\ maps \in [MapTypes -> Maps \cup {NoMap}]
    /\ settings \in 0..MaxSettings
    /\ asked \in [MapTypes -> [master: MasterValues, title: Values, body: Values]]
    /\ response.from \in Stores \cup {Null, "disk", "throws"}

Init ==
    /\ stores = <<"inputbuilders">>
    /\ engine = FALSE
    /\ routes = {}
    /\ pc = "idle" /\ area = CHOOSE a \in Areas : TRUE
    /\ done = {}
    /\ default = NoMap
    /\ maps = [type \in MapTypes |-> NoMap]
    /\ settings = 0
    /\ asked = [type \in MapTypes |-> Unasked]
    /\ response = NoResponse

-----------------------------------------------------------------------------
(* Start-up *)

Fail == pc' = "failed"

\* The application registers the next area: RegisterArea sends the start-up
\* message, whose handlers may throw.
RegisterArea ==
    /\ pc = "idle"
    /\ \E a \in Areas \ done :
          /\ area' = a
          /\ pc' \in {"routes", "failed"}
    /\ UNCHANGED <<stores, engine, routes, done, default, maps, settings, asked, response>>

\* MapRoute throws when a route has that name.
RegisterDefaultRoutes ==
    /\ pc = "routes"
    /\ IF AreaName[area] \in routes THEN Fail /\ UNCHANGED routes
       ELSE /\ routes' = routes \cup {AreaName[area]}
            /\ pc' = "resources"
    /\ UNCHANGED <<stores, engine, area, done, default, maps, settings, asked, response>>

\* A new store with the area's map; Add throws when the key is taken.
RegisterAreaEmbeddedResources ==
    /\ pc = "resources"
    /\ maps' = IF MapType[area] = NoMap THEN maps
               ELSE [maps EXCEPT ![MapType[area]] = Map(MapType[area])]
    /\ IF \E i \in DOMAIN stores : Key(stores[i]) = Key(area)
       THEN Fail /\ UNCHANGED stores
       ELSE /\ stores' = Append(stores, area)
            /\ pc' = "viewengine"
    /\ UNCHANGED <<engine, routes, area, done, default, settings, asked, response>>

\* Variant of BootStrap that does not look whether it has run.
BootStrapAlways ==
    /\ pc = "viewengine"
    /\ stores' = Append(stores, "areas")
    /\ engine' = TRUE
    /\ pc' = "webconfig"
    /\ UNCHANGED <<routes, area, done, default, maps, settings, asked, response>>

\* InputBuilder.BootStrap: once per application.
BootStrap ==
    /\ pc = "viewengine"
    /\ stores' = IF engine THEN stores ELSE Append(stores, "areas")
    /\ engine' = TRUE
    /\ pc' = "webconfig"
    /\ UNCHANGED <<routes, area, done, default, maps, settings, asked, response>>

\* The check throws unless the host has a file ~/areas/web.config.
EnsureAreasWebConfigExists ==
    /\ pc = "webconfig"
    /\ \/ pc' = "idle" /\ done' = done \cup {area}
       \/ Fail /\ UNCHANGED done
    /\ UNCHANGED <<stores, engine, routes, area, default, maps, settings, asked, response>>

-----------------------------------------------------------------------------
(* The host's settings *)

Setting ==
    /\ pc = "idle"
    /\ settings < MaxSettings
    /\ settings' = settings + 1
    /\ response' = NoResponse
    /\ UNCHANGED <<stores, engine, routes, pc, area, done>>

\* What MapExtensions can set, and the map afterwards.
Settable == ({"master"} \X Masters) \cup ({"title", "body"} \X Placeholders)

With(map, choice) ==
    CASE choice[1] = "master" -> [map EXCEPT !.master = choice[2]]
      [] choice[1] = "title"  -> WithMapping(map, TitleID, choice[2])
      [] choice[1] = "body"   -> WithMapping(map, BodyID, choice[2])

\* The host calls MapAll(), or sets something on what it returned.
MapAll ==
    /\ Setting
    /\ default' \in {NewMap} \cup
          (IF default = NoMap THEN {} ELSE {With(default, c) : c \in Settable})
    /\ UNCHANGED <<maps, asked>>

\* Variant of SetMap where Map forgets the map it creates.
SetMapForgotten ==
    /\ Setting
    /\ \E type \in MapTypes, c \in Settable :
          /\ maps' = [maps EXCEPT ![type] = IF @ = NoMap THEN @ ELSE With(@, c)]
          /\ asked' = [asked EXCEPT ![type][c[1]] = c[2]]
    /\ UNCHANGED default

\* PortableAreaContent.Map<T>().Master, Title or Body.
SetMap ==
    /\ Setting
    /\ \E type \in MapTypes, c \in Settable :
          /\ maps' = [maps EXCEPT ![type] = With(Map(type), c)]
          /\ asked' = [asked EXCEPT ![type][c[1]] = c[2]]
    /\ UNCHANGED default

-----------------------------------------------------------------------------
(* Requests, once every area is registered *)

Answer(path, from, name, page) ==
    /\ response' = [path |-> path, from |-> from, name |-> name, page |-> page]
    /\ UNCHANGED <<stores, engine, routes, pc, area, done, default, maps, settings, asked>>

Ready == pc = "idle" /\ done = Areas

\* AssemblyResourceProvider.GetFile and AssemblyResourceVirtualFile.Open: a
\* file of the host comes first.
GetFile ==
    /\ Ready
    /\ \E path \in Paths :
          LET s == StoreFromVirtualPath(path)
          IN  IF path \in OnDisk THEN Answer(path, "disk", path, NoPage)
              ELSE IF s = Null THEN Answer(path, Null, <<>>, NoPage)
              ELSE Answer(path, s, ActualResourceName[s][path], Page(s, path))

\* The extensions that have a content type.
MimeTypes == {"gif", "png", "jpg", "js", "css", "txt", "xml", "zip"}

\* EmbeddedResourceController.Index, for an area and a content file: found,
\* not found, or found with an extension that has no content type.
Index ==
    /\ Ready
    /\ \E a \in Areas, file \in Files :
          LET inArea == ContentPath(file)
              name == ActualResourceName[a][inArea]
          IN  IF name = <<>> THEN Answer(inArea, Null, <<>>, NoPage)
              ELSE IF Last(file) \notin MimeTypes THEN Answer(inArea, "throws", <<>>, NoPage)
              ELSE Answer(inArea, a, name, Page(a, inArea))

\* An application that could not start stays down.
Down == pc = "failed" /\ UNCHANGED vars

Next ==
    \/ RegisterArea \/ RegisterDefaultRoutes \/ RegisterAreaEmbeddedResources
    \/ BootStrap \/ EnsureAreasWebConfigExists
    \/ MapAll \/ SetMap
    \/ GetFile \/ Index
    \/ Down

Spec == Init /\ [][Next]_vars

-----------------------------------------------------------------------------
(* Properties *)

InFolderOf(path, a) == IsPrefix(<<"~">> \o Key(a) \o <<"/">>, path)
Inside(path, a) == SubSeq(path, Len(Key(a)) + 2, Len(path))
FileName(path) == SubSeq(path, Len(path) - 2, Len(path))

\* The path lies in the area's folder, and the area's assembly has the file: under
\* the same folders; or, if its name has a single dot, in the registration's
\* namespace or in one that contains it.  A root of one segment counts only when
\* it is the whole: see FoundAnywhere.
BelongsTo(path, a) ==
    /\ InFolderOf(path, a)
    /\ LET segments == AreaNamespace[a]
           levels == {n \in 1..Len(segments) : n > 1 \/ n = Len(segments)}
       IN  \/ Dotted(segments) \o ReplaceAll(Inside(path, a), "/", ".") \in Embedded[a]
           \/ /\ path[Len(path) - 3] = "/"
              /\ \E n \in levels :
                    Dotted(SubSeq(segments, 1, n)) \o <<".">> \o FileName(path) \in Embedded[a]

\* The library embeds a file of that name, or an area whose name begins a's
\* embeds one that needs no folder to be found.
Homonym(path, a) ==
    \/ \E s \in Builtins : IsPathResourceStream(s, path)
    \/ \E b \in Areas \ {a} :
          IsStrictPrefix(AreaName[b], AreaName[a]) /\ IsPathResourceStream(b, path)

\* In whatever order the areas register, a file that belongs to an area is
\* served from the area's own assembly, although the keys of the other stores,
\* "/areas" among them, may be in its path too (AssemblyResourceManager.cs:
\* 32-43, AssemblyResourceLocator.cs:73-150).  Excepted are files of the host and homonyms.
OwnAreaServes ==
    \A a \in Areas :
        BelongsTo(response.path, a) /\ response.path \notin OnDisk /\ ~Homonym(response.path, a)
        => response.from = a

\* A resource is found "anywhere in the subnamespace structure" (the comments at
\* AssemblyResourceLocator.cs:31-34 and :70-71): a file of an area is served from
\* it, in whichever namespace around the registration's it is embedded and
\* however many dots its name has.
FoundAnywhere ==
    \A a \in Areas :
        LET path == response.path
            lastSlash == CHOOSE i \in DOMAIN path :
                            path[i] = "/" /\ \A j \in i + 1..Len(path) : path[j] # "/"
            file == SubSeq(path, lastSlash + 1, Len(path))
        IN  /\ InFolderOf(path, a) /\ path \notin OnDisk /\ ~Homonym(path, a)
            /\ \E n \in 1..Len(AreaNamespace[a]) :
                  Dotted(SubSeq(AreaNamespace[a], 1, n)) \o <<".">> \o file \in Embedded[a]
            => response.from = a

\* A page served by an area carries the master and the placeholders that the
\* host last asked of the area's map, before or after the area registered and
\* whatever the defaults were (PortableAreaContent.cs:36-61,
\* AssemblyResourceStore.cs:57-60).  A placeholder called like a default one is
\* excepted: a later mapping may replace it again.
PagesShowSettings ==
    response.from \in Areas /\ MapType[response.from] # NoMap /\ response.page # NoPage =>
        LET wanted == asked[MapType[response.from]]
        IN  /\ wanted.master # Null => response.page.master = wanted.master
            /\ wanted.title \notin {Null, TitleID, BodyID} => response.page.title = wanted.title
            /\ wanted.body \notin {Null, TitleID, BodyID} => response.page.body = wanted.body
=============================================================================
