------------------------------ MODULE Pagination ------------------------------
(***************************************************************************)
(* Paged lists: the three implementations of IPagination, the Pager that    *)
(* links to other pages, the DataList that lays the rows of a page out, and *)
(* a user who goes from page to page while the rows change.                 *)
(*                                                                         *)
(*   lazy      LazyPagination: counts the rows of a query, then reads those *)
(*             of the page, the first time anything is asked of it; what it *)
(*             found is kept, but if the second query throws, both are made *)
(*             again.                                                      *)
(*   delegate  DelegatePagination: one call of the application answers      *)
(*             both, again whenever page number or page size were set.      *)
(*   custom    CustomPagination: wraps rows the application has paged.      *)
(*                                                                         *)
(* The rows are the numbers their query orders them by.  Page numbers,      *)
(* sizes and the numbers computed from them are signed integers that wrap   *)
(* around after MaxInt.  The texts of the pager and the urls of its links   *)
(* are left out: a link is the number of the page it leads to.             *)
(***************************************************************************)
EXTENDS Integers, SequencesExt, DataList

CONSTANTS
    Ids,           \* what the rows may be
    InitialRows,   \* the rows there may be at first
    Kinds,         \* the implementations in use
    Numbers,       \* the page numbers a user may ask for
    Sizes,         \* the page sizes
    Columns,       \* the RepeatColumns of the list
    MaxInt,        \* int.MaxValue, 2^31 - 1 in the code
    NoValue,       \* null
    MaxRows,       \* bound on the number of rows, for Count to be an int
    MaxChanges     \* bound on the changes of the rows

ASSUME PaginationAssumption ==
    /\ MaxInt \in Nat /\ MaxRows \in 0..MaxInt /\ MaxChanges \in Nat
    /\ Numbers \subseteq 1..MaxInt /\ Sizes \subseteq 1..MaxInt
    /\ Kinds \subseteq {"lazy", "delegate", "custom"} /\ Columns \subseteq Nat
    /\ Ids \subseteq Int /\ {NoItem, OutOfRange} \cap Ids = {}
    /\ NoItem # OutOfRange
    /\ \A initial \in InitialRows : initial \in Seq(Ids) /\ Len(initial) <= MaxRows
    /\ NoValue \notin {"lazy", "delegate", "custom"} /\ NoValue \notin Numbers \cup Sizes
    /\ NoValue \notin Seq(Ids)

VARIABLES
    rows,       \* the rows there are, in the order of their query
    changes,    \* changes of the rows so far
    kind,       \* which implementation the page is
    progress,   \* what has been done with the page
    number,     \* PageNumber
    size,       \* PageSize
    totalItems, \* totalItems
    results,    \* the rows of the page
    doRefresh,  \* _doRefresh of a DelegatePagination
    cells,      \* the cells written for it
    down,       \* whether they were written RepeatDirection.Vertical
    blank,      \* the pager is written already, and found no items
    counted,    \* the rows when they were counted (history)
    queried,    \* the rows when those of the page were read (history)
    links,      \* the pages the last pager linked to, while the rows are the same
    linked,     \* this page was reached by a link, the rows still the same (history)
    walk        \* the rows seen from page 1 on, going next (history)

page == <<kind, progress, number, size, totalItems, results, doRefresh, cells, down, blank>>
history == <<counted, queried, links, linked, walk>>
pagingVars == <<rows, changes, page, history>>

PagingTypeOK ==
    /\ rows \in Seq(Ids) /\ Len(rows) <= MaxRows /\ changes \in 0..MaxChanges
    /\ kind \in Kinds \cup {NoValue}
    /\ progress \in {"idle", "built", "counted", "executed", "shown"}
    /\ progress \in {"executed", "shown"} <=> results # NoValue /\ ~doRefresh
    /\ progress \in {"executed", "shown"} => results \in Seq(Ids) /\ Len(results) <= size
    /\ doRefresh \in BOOLEAN /\ (doRefresh => kind = "delegate")
    /\ totalItems \in Nat /\ number \in Numbers \cup {NoValue} /\ size \in Sizes \cup {NoValue}
    /\ down \in BOOLEAN /\ blank \in BOOLEAN /\ linked \in BOOLEAN
    /\ links \subseteq 1..MaxRows

PagingInit ==
    /\ rows \in InitialRows /\ changes = 0
    /\ kind = NoValue /\ progress = "idle" /\ number = NoValue /\ size = NoValue
    /\ totalItems = 0 /\ results = NoValue /\ doRefresh = FALSE
    /\ cells = << >> /\ down = FALSE /\ blank = FALSE
    /\ counted = << >> /\ queried = << >>
    /\ links = {} /\ linked = FALSE /\ walk = NoValue

-----------------------------------------------------------------------------
(* Arithmetic.                                                             *)

Wrap(i) == LET half == MaxInt + 1 IN ((i + half) % (2 * half)) - half

(* Skip of a negative number skips nothing.                                 *)
Skip(s, n) == IF n <= 0 THEN s ELSE SubSeq(s, n + 1, Len(s))

Take(s, n) == SubSeq(s, 1, IF n < Len(s) THEN n ELSE Len(s))

NumberToSkip(n, s) == Wrap((n - 1) * s)

(* Variant of TotalPages: the division rounds down.                         *)
TotalPagesFloor == totalItems \div size

TotalPages == (totalItems \div size) + (IF totalItems % size > 0 THEN 1 ELSE 0)

FirstItem == Wrap(NumberToSkip(number, size) + 1)

LastItem == Wrap(FirstItem + Len(results) - 1)

HasPreviousPage == number > 1

HasNextPage == number < TotalPages

-----------------------------------------------------------------------------
(* Getting the rows of a page.                                             *)

(* What the application answers for the page it is asked for.               *)
PageOf(n, s) == Take(Skip(rows, (n - 1) * s), s)

(* A user asks for page n: types its number, or follows a link.             *)
Request(k, n, s) ==
    /\ progress \in {"idle", "shown"}
    /\ kind' = k /\ number' = n /\ size' = s
    /\ cells' = << >> /\ down' = FALSE /\ blank' = FALSE
    /\ IF k = "custom"
       THEN /\ results' = PageOf(n, s) /\ totalItems' = Len(rows)
            /\ counted' = rows /\ queried' = rows
            /\ progress' = "executed"
       ELSE /\ results' = NoValue /\ totalItems' = 0
            /\ counted' = << >> /\ queried' = << >>
            /\ progress' = "built"
    /\ doRefresh' = (k = "delegate")
    /\ linked' = (s = size /\ n \in links)
    /\ walk' = IF n = 1 THEN << >>
               ELSE IF s = size /\ n \in links /\ n = number + 1 THEN walk ELSE NoValue
    /\ links' = {}
    /\ UNCHANGED <<rows, changes>>

Count ==
    /\ kind = "lazy" /\ progress = "built"
    /\ totalItems' = Len(rows)
    /\ counted' = rows
    /\ progress' = "counted"
    /\ UNCHANGED <<rows, changes, kind, number, size, results, doRefresh, cells, down,
                   blank, queried, links, linked, walk>>

ExecuteQuery ==
    /\ progress = "counted"
    /\ results' = Take(Skip(rows, NumberToSkip(number, size)), size)
    /\ queried' = rows
    /\ progress' = "executed"
    /\ UNCHANGED <<rows, changes, kind, number, size, totalItems, doRefresh, cells, down,
                   blank, counted, links, linked, walk>>

(* The query throws: results is still null, so that the next reader counts  *)
(* again.                                                                  *)
ExecuteQueryThrows ==
    /\ progress = "counted"
    /\ progress' = "built"
    /\ UNCHANGED <<rows, changes, kind, number, size, totalItems, results, doRefresh,
                   cells, down, blank, history>>

(* Variant of DoQuery: TotalItems is set last, and its setter asks for a     *)
(* refresh.                                                                *)
DoQueryTotalLast ==
    /\ kind = "delegate" /\ doRefresh
    /\ results' = PageOf(number, size) /\ totalItems' = Len(rows)
    /\ counted' = rows /\ queried' = rows
    /\ doRefresh' = (totalItems' # totalItems)
    /\ progress' = "executed"
    /\ UNCHANGED <<rows, changes, kind, number, size, cells, down, blank, links, linked, walk>>

DoQuery ==
    /\ kind = "delegate" /\ doRefresh
    /\ results' = PageOf(number, size) /\ totalItems' = Len(rows)
    /\ counted' = rows /\ queried' = rows
    /\ doRefresh' = FALSE
    /\ progress' = "executed"
    /\ UNCHANGED <<rows, changes, kind, number, size, cells, down, blank, links, linked, walk>>

(* Variant of Refresh: what has been read is kept.                          *)
RefreshNot ==
    /\ doRefresh' = doRefresh
    /\ progress' = IF progress = "shown" THEN "executed" ELSE progress
    /\ UNCHANGED <<rows, changes, kind, totalItems, results, cells, down, blank, counted, queried>>

Refresh ==
    /\ doRefresh' = TRUE
    /\ progress' = "built"
    /\ UNCHANGED <<rows, changes, kind, totalItems, results, cells, down, blank, counted, queried>>

(* The controller or the view sets another page, another size.              *)
SetPageNumber(n) ==
    /\ kind = "delegate" /\ n # number
    /\ number' = n /\ size' = size
    /\ Refresh
    /\ linked' = FALSE /\ walk' = NoValue /\ links' = {}

SetPageSize(s) ==
    /\ kind = "delegate" /\ s # size
    /\ size' = s /\ number' = number
    /\ Refresh
    /\ linked' = FALSE /\ walk' = NoValue /\ links' = {}

-----------------------------------------------------------------------------
(* Writing the page.                                                       *)

(* The pages the pager links to: first, prev, next and last.                *)
PagerLinks ==
    IF totalItems = 0 \/ TotalPages <= 1 THEN {}
    ELSE (IF number = 1 THEN {} ELSE {1})
         \cup (IF HasPreviousPage THEN {number - 1} ELSE {})
         \cup (IF HasNextPage THEN {number + 1} ELSE {})
         \cup (IF number < TotalPages THEN {TotalPages} ELSE {})

Coherent == counted = queried /\ queried = rows

(* A view that writes the pager before the list.  TotalItems of the lazy    *)
(* list executes its queries, that of the delegate list does not: when no   *)
(* count was kept, the pager finds 0 and writes nothing.  Otherwise the     *)
(* query is executed before the pager needs more, and it writes what Show   *)
(* has it write.                                                           *)
ShowPagerFirst ==
    /\ kind = "delegate" /\ doRefresh /\ totalItems = 0
    /\ blank' = TRUE
    /\ UNCHANGED <<rows, changes, kind, progress, number, size, totalItems, results, doRefresh,
                   cells, down, history>>

(* The view writes the rows in columns, and the pager unless it is written. *)
(* (Where the list ends with an exception, its rows are taken to be shown   *)
(* by other means.)                                                        *)
Show(vertical, columns) ==
    /\ progress = "executed"
    /\ down' = vertical
    /\ cells' = IF vertical THEN RenderVertical(results, RepeatColumns(columns))
                ELSE RenderHorizontal(results, RepeatColumns(columns))
    /\ links' = IF ~blank /\ Coherent /\ number <= TotalPages THEN PagerLinks ELSE {}
    /\ walk' = IF walk # NoValue /\ Coherent THEN walk \o results ELSE NoValue
    /\ progress' = "shown"
    /\ UNCHANGED <<rows, changes, kind, number, size, totalItems, results, doRefresh,
                   blank, counted, queried, linked>>

(* Somebody adds a row, where the query's order puts it, or removes one.    *)
InsertRow(i, p) ==
    /\ Len(rows) < MaxRows /\ p \in 1..Len(rows) + 1
    /\ \A q \in DOMAIN rows : IF q < p THEN rows[q] < i ELSE i < rows[q]
    /\ rows' = InsertAt(rows, p, i)

RemoveRow(p) ==
    /\ p \in DOMAIN rows
    /\ rows' = RemoveAt(rows, p)

Change(i, p) ==
    /\ changes < MaxChanges
    /\ changes' = changes + 1
    /\ InsertRow(i, p) \/ RemoveRow(p)
    /\ links' = {} /\ linked' = FALSE /\ walk' = NoValue
    /\ UNCHANGED <<page, counted, queried>>

PagingNext ==
    \/ \E k \in Kinds, n \in Numbers, s \in Sizes : Request(k, n, s)
    \/ Count \/ ExecuteQuery \/ ExecuteQueryThrows \/ DoQuery
    \/ \E n \in Numbers : SetPageNumber(n)
    \/ \E s \in Sizes : SetPageSize(s)
    \/ ShowPagerFirst
    \/ \E vertical \in BOOLEAN, columns \in Columns : Show(vertical, columns)
    \/ \E i \in Ids, p \in 1..MaxRows : Change(i, p)

PagingSpec == PagingInit /\ [][PagingNext]_pagingVars

-----------------------------------------------------------------------------
(* Properties.                                                             *)

(* FirstItem does not fit into an int.                                      *)
Overflows == (number - 1) * size + 1 > MaxInt

(* The numbers shown belong to the rows shown: those from FirstItem to      *)
(* LastItem of the rows the page was read from, a full page unless it is    *)
(* the last, whichever way number and size came to be what they are.        *)
(* TotalItems is what was counted, which may be other rows.  Except when    *)
(* FirstItem does not fit into an int.                                     *)
PageIsSlice ==
    progress = "shown" /\ ~Overflows =>
        /\ totalItems = Len(counted)
        /\ results # << >> => LastItem <= Len(queried)
        /\ results = SubSeq(queried, FirstItem, LastItem)
        /\ counted = queried /\ number < TotalPages => Len(results) = size

(* Who starts at page 1 and goes on with next, while the rows stay the      *)
(* same, has seen every row once and in order when there is no next page:   *)
(* whichever implementation served each of the pages.  Except when the      *)
(* pager was written before the list and found no items.                   *)
WalkSeesAll ==
    progress = "shown" /\ ~blank /\ walk # NoValue /\ number + 1 \notin PagerLinks => walk = rows

(* A link of the pager leads to a page with rows, while they stay the same  *)
(* and the page it was on was not beyond the last.                          *)
LinksLeadToRows == progress = "shown" /\ linked => results # << >>

(* The links of the pager reach rows, and all of them.                      *)
LinksReachRows == WalkSeesAll /\ LinksLeadToRows

(* A pager that finds no items is that of a list without any: the query is  *)
(* executed when one of the list's properties is invoked, as the summary of *)
(* DelegatePagination has it (DelegatePagination.cs:45).                    *)
PagerFindsItems == progress = "shown" /\ blank => totalItems = 0

LaidOut == \A c \in DOMAIN cells : cells[c] # OutOfRange

(* A list that is laid out to its end shows every row of the page once, in  *)
(* their order, across or down; and it is laid out to its end when written  *)
(* across, or when it is one row, or its last row has at most one cell to   *)
(* spare.  What it should do with more cells to spare is for AlwaysLaidOut. *)
LaysOutPage ==
    progress = "shown" =>
        LET spare == Cardinality(DOMAIN cells) - Len(results)
            oneRow == {c \in DOMAIN cells : c[1] = 0} = DOMAIN cells
        IN  /\ LaidOut => IF down THEN ReadsDown(cells, results)
                          ELSE ReadsAcross(cells, results)
            /\ ~down \/ oneRow \/ spare <= 1 => LaidOut

(* The list is laid out to its end in any number of columns, the cells that *)
(* are left over filled by NoItemTemplate, as the summaries of DataList and *)
(* NoItemTemplate have it (DataList.cs:10, 108-111).                        *)
AlwaysLaidOut == progress = "shown" => LaidOut
=============================================================================
