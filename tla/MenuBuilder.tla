----------------------------- MODULE MenuBuilder -----------------------------
(***************************************************************************)
(* A menu of MvcContrib.UI.MenuBuilder that is kept between requests.       *)
(*                                                                         *)
(* Menu.Begin builds a tree of items once.  Html.Menu renders it for a      *)
(* request: RenderHtml(context, writer) first calls Prepare, which goes     *)
(* through the tree and leaves in every item what it found out about this   *)
(* request (internalDisabled, itemSelected) or about the first one          *)
(* (ActionUrl), then RenderHtml(), which goes through the tree again and    *)
(* reads it.  Nothing is reset and nothing locked, so what a page shows may *)
(* come from another request.                                              *)
(*                                                                         *)
(* A step prepares one item, or begins a list; a rendering is one step.     *)
(* The application may add and remove items and set Disabled while no       *)
(* request uses the menu (a List is not made for more).  The pages of       *)
(* requests that overlapped are left out of the properties: the history     *)
(* variable overlapped marks them.                                          *)
(* Titles, icons and classes are left out.                                 *)
(***************************************************************************)
EXTENDS Naturals, SequencesExt

CONSTANTS
    Requests,         \* slots for requests, each used again and again
    Lists,            \* the MenuLists of the tree
    Links,            \* the MenuItems with an address of their own
    Actions,          \* the ActionMenuItems, SecureActionMenuItems included
    Secure,           \* the SecureActionMenuItems
    Root,             \* the list Menu.Begin returns: neither title nor icon
    Tree,             \* the items of each list as it is built
    ShowWhenDisabled, \* the items and lists shown even when disabled
    Urls,             \* the paths requests ask for
    Address,          \* the ActionUrl of each of Links
    Build,            \* Build[n][p]: the url of action n found in a request for p
    None,             \* null
    MaxRequests,      \* bound on the number of requests
    MaxEdits          \* bound on the changes made by the application

Items == Links \cup Actions
Nodes == Lists \cup Items

ASSUME MenuAssumption ==
    /\ Secure \subseteq Actions /\ ShowWhenDisabled \subseteq Nodes
    /\ Lists \cap Items = {} /\ Root \in Lists
    /\ Tree \in [Lists -> Seq(Nodes)]
    /\ Address \in [Links -> Urls] /\ Build \in [Actions -> [Urls -> Urls]]
    /\ None \notin Urls \cup BOOLEAN
    /\ MaxRequests \in Nat /\ MaxEdits \in Nat
\* The builder makes a new item for each place of the menu.
ASSUME TreeAssumption ==
    \A k, l \in Lists : \A i \in DOMAIN Tree[k], j \in DOMAIN Tree[l] :
        /\ Tree[k][i] = Tree[l][j] => k = l /\ i = j
        /\ Tree[k][i] # Root

VARIABLES
    items,            \* the items of each list
    disabled,         \* Disabled of each item
    internalDisabled, \* internalDisabled of each item
    itemSelected,     \* itemSelected of each item
    prepared,         \* Prepared of each item
    url,              \* ActionUrl of each item
    stage,            \* what each request does: idle, preparing, rendered
    uri,              \* the path it asks for
    may,              \* the secure actions its user is authorised for
    todo,             \* the items it has still to prepare, the next one first
    entered,          \* the lists whose items it has begun to prepare
    html,             \* what it rendered
    overlapped,       \* it ran at the same time as another (history)
    visited,          \* the paths asked for so far (history)
    requests,         \* requests begun so far
    edits,            \* changes made so far
    off,              \* Disabled of each item as the application set it (history)
    emptied           \* the lists a request found empty since it did (history)

tree == <<items, disabled>>
found == <<internalDisabled, itemSelected, prepared, url>>
request == <<stage, uri, may, todo, entered, html, overlapped, visited, requests>>
told == <<off, emptied>>
menuVars == <<tree, found, request, edits, told>>

Blank == [threw |-> FALSE, shown |-> {}, enabled |-> {}, selected |-> {}]

RenderedPages ==
    {p \in [threw: BOOLEAN, shown: SUBSET Nodes, enabled: SUBSET Nodes, selected: SUBSET Nodes] :
        p.enabled \subseteq p.shown /\ p.selected \subseteq p.shown}

MenuTypeOK ==
    /\ items \in [Lists -> Seq(Nodes)] /\ disabled \in [Nodes -> BOOLEAN]
    /\ internalDisabled \in [Nodes -> BOOLEAN \cup {None}]
    /\ \A n \in Nodes \ Secure : internalDisabled[n] = None
    /\ itemSelected \in [Nodes -> BOOLEAN] /\ \A l \in Lists : ~itemSelected[l]
    /\ prepared \in [Nodes -> BOOLEAN] /\ url \in [Nodes -> Urls \cup {None}]
    /\ stage \in [Requests -> {"idle", "preparing", "rendered"}]
    /\ uri \in [Requests -> Urls \cup {None}] /\ may \in [Requests -> SUBSET Secure]
    /\ todo \in [Requests -> Seq(Nodes)] /\ entered \in [Requests -> SUBSET Lists]
    /\ html \in [Requests -> RenderedPages]
    /\ overlapped \in [Requests -> BOOLEAN] /\ visited \subseteq Urls
    /\ requests \in 0..MaxRequests /\ edits \in 0..MaxEdits
    /\ off \in [Nodes -> BOOLEAN] /\ emptied \subseteq Lists

MenuInit ==
    /\ items = Tree
    /\ disabled = [n \in Nodes |-> FALSE]
    /\ internalDisabled = [n \in Nodes |-> None]
    /\ itemSelected = [n \in Nodes |-> FALSE]
    /\ prepared = [n \in Nodes |-> FALSE]
    /\ url = [n \in Nodes |-> IF n \in Links THEN Address[n] ELSE None]
    /\ stage = [r \in Requests |-> "idle"]
    /\ uri = [r \in Requests |-> None]
    /\ may = [r \in Requests |-> {}]
    /\ todo = [r \in Requests |-> << >>]
    /\ entered = [r \in Requests |-> {}]
    /\ html = [r \in Requests |-> Blank]
    /\ overlapped = [r \in Requests |-> FALSE]
    /\ visited = {} /\ requests = 0 /\ edits = 0
    /\ off = [n \in Nodes |-> FALSE] /\ emptied = {}

-----------------------------------------------------------------------------
(* Prepare.  A list does not call MenuItem.Prepare: it is never selected.   *)

Active == {r \in Requests : stage[r] # "idle"}

RenderHtml(r) ==
    /\ stage[r] = "idle" /\ requests < MaxRequests
    /\ \E p \in Urls, who \in SUBSET Secure :
        /\ uri' = [uri EXCEPT ![r] = p]
        /\ may' = [may EXCEPT ![r] = who]
        /\ visited' = visited \cup {p}
    /\ stage' = [stage EXCEPT ![r] = "preparing"]
    /\ todo' = [todo EXCEPT ![r] = <<Root>>]
    /\ overlapped' = [q \in Requests |->
                        IF q \in Active \cup {r} THEN Active # {} ELSE overlapped[q]]
    /\ requests' = requests + 1
    /\ UNCHANGED <<tree, found, entered, html, edits, told>>

(* Variant of Authorize: the answer of the first request is kept, as        *)
(* ActionUrl is.                                                           *)
AuthorizeOnce(r, n) ==
    IF n \in Secure /\ internalDisabled[n] = None
    THEN [internalDisabled EXCEPT ![n] = disabled[n] \/ n \notin may[r]]
    ELSE internalDisabled

(* Variant of Authorize: every item remembers its answer, not only the      *)
(* secure ones.                                                            *)
AuthorizeAll(r, n) ==
    [internalDisabled EXCEPT ![n] = disabled[n] \/ n \in Secure \ may[r]]

(* SecureActionMenuItem.Prepare asks for the authorisation again in every   *)
(* request.                                                                *)
Authorize(r, n) ==
    IF n \in Secure THEN [internalDisabled EXCEPT ![n] = disabled[n] \/ n \notin may[r]]
    ELSE internalDisabled

(* ActionMenuItem.Prepare builds the address unless it has one.             *)
ActionUrl(r, n) == IF n \in Actions /\ url[n] = None THEN Build[n][uri[r]] ELSE url[n]

(* Variant of PrepareItem: MenuItem.Prepare is called before the address is *)
(* built.                                                                  *)
PrepareItemFirst(r, n) ==
    /\ internalDisabled' = Authorize(r, n)
    /\ url' = [url EXCEPT ![n] = ActionUrl(r, n)]
    /\ itemSelected' = [itemSelected EXCEPT ![n] = @ \/ uri[r] = url[n]]
    /\ prepared' = [prepared EXCEPT ![n] = TRUE]
    /\ UNCHANGED <<tree, told>>

PrepareItem(r, n) ==
    /\ internalDisabled' = Authorize(r, n)
    /\ url' = [url EXCEPT ![n] = ActionUrl(r, n)]
    /\ itemSelected' = [itemSelected EXCEPT ![n] = @ \/ uri[r] = ActionUrl(r, n)]
    /\ prepared' = [prepared EXCEPT ![n] = TRUE]
    /\ UNCHANGED <<tree, told>>

(* A list goes through a copy of its items before it looks at itself.       *)
EnterList(r, l) ==
    /\ entered' = [entered EXCEPT ![r] = @ \cup {l}]
    /\ todo' = [todo EXCEPT ![r] = items[l] \o @]
    /\ UNCHANGED <<tree, found, told>>

(* An empty list is disabled for good.                                      *)
PrepareList(l) ==
    /\ disabled' = [disabled EXCEPT ![l] = @ \/ items[l] = << >>]
    /\ emptied' = IF items[l] = << >> THEN emptied \cup {l} ELSE emptied
    /\ prepared' = [prepared EXCEPT ![l] = TRUE]
    /\ UNCHANGED <<items, internalDisabled, itemSelected, url, off>>

Prepare(r) ==
    /\ stage[r] = "preparing" /\ todo[r] # << >>
    /\ LET n == Head(todo[r])
       IN  \/ n \in Lists \ entered[r] /\ EnterList(r, n)
           \/ /\ IF n \in Lists THEN n \in entered[r] /\ PrepareList(n)
                 ELSE PrepareItem(r, n)
              /\ todo' = [todo EXCEPT ![r] = Tail(@)]
              /\ UNCHANGED entered
    /\ UNCHANGED <<stage, uri, may, html, overlapped, visited, requests, edits>>

(* The request ends and what it had is gone with it.                        *)
Forget(r) ==
    /\ stage' = [stage EXCEPT ![r] = "idle"]
    /\ uri' = [uri EXCEPT ![r] = None]
    /\ may' = [may EXCEPT ![r] = {}]
    /\ todo' = [todo EXCEPT ![r] = << >>]
    /\ entered' = [entered EXCEPT ![r] = {}]
    /\ html' = [html EXCEPT ![r] = Blank]
    /\ overlapped' = [overlapped EXCEPT ![r] = FALSE]

(* The authorisation, or the building of an address, throws: the request    *)
(* ends, with the items before this one prepared for it.                    *)
PrepareThrows(r) ==
    /\ stage[r] = "preparing" /\ todo[r] # << >>
    /\ LET n == Head(todo[r])
       IN  \/ n \in Secure /\ UNCHANGED internalDisabled
           \/ n \in Actions /\ url[n] = None /\ internalDisabled' = Authorize(r, n)
    /\ Forget(r)
    /\ UNCHANGED <<tree, itemSelected, prepared, url, visited, requests, edits, told>>

-----------------------------------------------------------------------------
(* Rendering.                                                              *)

ItemDisabled(n) == IF internalDisabled[n] # None THEN internalDisabled[n] ELSE disabled[n]

HideItem(n) == ItemDisabled(n) /\ n \notin ShowWhenDisabled

HasSingleRenderableItem(l) ==
    \E i \in DOMAIN items[l] :
        \A j \in DOMAIN items[l] : HideItem(items[l][j]) <=> j # i

Collapses(l) == l # Root /\ HasSingleRenderableItem(l)

(* The items whose RenderHtml() that of n calls.                            *)
RenderItems(n) ==
    IF n \notin Lists \/ HideItem(n) THEN {}
    ELSE IF Collapses(n) THEN {items[n][1]}
    ELSE {items[n][i] : i \in DOMAIN items[n]}

(* The lists whose RenderHtml() is called: the root, and those that others  *)
(* call in turn.                                                           *)
CalledLists ==
    {l \in Lists : \A S \in SUBSET Lists :
        Root \in S /\ (\A k \in S : RenderItems(k) \cap Lists \subseteq S) => l \in S}

Called == {Root} \cup UNION {RenderItems(l) : l \in CalledLists}

WritesLink(n) == ~HideItem(n) /\ (n \in Lists => n # Root /\ ~Collapses(n))

Rendered ==
    LET shown == {n \in Called : WritesLink(n)}
    IN  IF \E n \in Called : ~prepared[n] THEN [Blank EXCEPT !.threw = TRUE]
        ELSE [threw |-> FALSE, shown |-> shown,
              enabled |-> {n \in shown : ~ItemDisabled(n)},
              selected |-> {n \in shown : itemSelected[n]}]

Render(r) ==
    /\ stage[r] = "preparing" /\ todo[r] = << >>
    /\ html' = [html EXCEPT ![r] = Rendered]
    /\ stage' = [stage EXCEPT ![r] = "rendered"]
    /\ UNCHANGED <<tree, found, uri, may, todo, entered, overlapped, visited, requests, edits, told>>

Finish(r) ==
    /\ stage[r] = "rendered"
    /\ Forget(r)
    /\ UNCHANGED <<tree, found, visited, requests, edits, told>>

-----------------------------------------------------------------------------
(* The application changes the menu between requests.                       *)

Edit == Active = {} /\ edits < MaxEdits /\ edits' = edits + 1

AddItem(l, n) ==
    /\ Edit
    /\ \A k \in Lists : \A i \in DOMAIN items[k] : items[k][i] # n
    /\ items' = [items EXCEPT ![l] = Append(@, n)]
    /\ UNCHANGED <<disabled, found, request, told>>

RemoveItem(l, i) ==
    /\ Edit
    /\ items[l][i] \in Items
    /\ items' = [items EXCEPT ![l] = RemoveAt(@, i)]
    /\ UNCHANGED <<disabled, found, request, told>>

SetDisabled(n, value) ==
    /\ Edit
    /\ disabled' = [disabled EXCEPT ![n] = value]
    /\ off' = [off EXCEPT ![n] = value]
    /\ emptied' = emptied \ {n}
    /\ UNCHANGED <<items, found, request>>

MenuNext ==
    \/ \E r \in Requests :
        RenderHtml(r) \/ Prepare(r) \/ PrepareThrows(r) \/ Render(r) \/ Finish(r)
    \/ \E l \in Lists : \/ \E n \in Items : AddItem(l, n)
                        \/ \E i \in DOMAIN items[l] : RemoveItem(l, i)
    \/ \E n \in Nodes, value \in BOOLEAN : SetDisabled(n, value)

MenuSpec == MenuInit /\ [][MenuNext]_menuVars

-----------------------------------------------------------------------------
(* Properties.  They speak of the page of a request that ran alone, and of  *)
(* requests and changes before it in any number and order.                  *)

Alone(r) == stage[r] = "rendered" /\ ~overlapped[r]

(* What the menu should show this request, from the tree, what the          *)
(* application set and the user: not from what earlier requests left behind. *)
Allowed(r, n) == ~off[n] /\ (n \in Secure => n \in may[r])

Visible(r, n) == n \in ShowWhenDisabled \/ Allowed(r, n)

Under(l, n) == \E i \in DOMAIN items[l] : items[l][i] = n

(* The lists that visible ones lead to from the root on, but for some.      *)
Open(r, barred) ==
    {l \in Lists : \A S \in SUBSET Lists :
        /\ Visible(r, Root) /\ Root \notin barred => Root \in S
        /\ \A k \in S, n \in Lists \ barred : Under(k, n) /\ Visible(r, n) => n \in S
        => l \in S}

(* The items in them that are visible to this request.                      *)
Reached(r, barred) == {n \in Items : Visible(r, n) /\ \E l \in Open(r, barred) : Under(l, n)}

(* The lists that an earlier request disabled.                              *)
Lost == emptied \ ShowWhenDisabled

(* The lists that show nothing although they have an item to show, because  *)
(* it is the only one and not the first.                                    *)
Skipping(r) ==
    {l \in Lists \ {Root} : \E i \in DOMAIN items[l] \ {1} : \A j \in DOMAIN items[l] :
        Visible(r, items[l][j]) /\ items[l][j] \notin Lost <=> j = i}

(* Whoever the menu was rendered for before, the page shows only items      *)
(* visible to this request, in lists that are, with a link exactly where    *)
(* its user may follow it and the application has not disabled it; and the  *)
(* rendering never meets an item nobody prepared.  The page shows all of    *)
(* them, but those in lists that earlier requests found empty (which        *)
(* MenuList.cs:138-139 disables for good, if they are filled again) and     *)
(* those that SkipsToTheItem is about.                                      *)
ShowsWhatIsVisible ==
    \A r \in Requests : Alone(r) =>
        LET shown == html[r].shown \cap Items
        IN  /\ ~html[r].threw
            /\ Reached(r, Lost \cup Skipping(r)) \subseteq shown
            /\ shown \subseteq Reached(r, {})
            /\ html[r].enabled \cap Items = {n \in shown : Allowed(r, n)}

(* "If there is only one item, don't render this menu instead skip to the   *)
(* item" (the comment at MenuList.cs:97): no visible item is lost, as long  *)
(* as no list has been empty.                                               *)
SkipsToTheItem ==
    \A r \in Requests : Alone(r) /\ emptied = {} => Reached(r, {}) \subseteq html[r].shown

(* The item that links to the page itself is marked as selected on it, from *)
(* the first request on, and no item is that links to a path nobody asked   *)
(* for.  (An item once selected stays so.)                                 *)
CurrentIsSelected ==
    \A r \in Requests : Alone(r) =>
        \A n \in html[r].shown \cap Items :
            /\ url[n] = uri[r] => n \in html[r].selected
            /\ n \in html[r].selected => url[n] \in visited
=============================================================================
