------------------------------- MODULE DataList -------------------------------
(***************************************************************************)
(* The cells of MvcContrib.UI.DataList.DataList: which item of its data     *)
(* source is written in which row and column.  The items are a sequence;    *)
(* rows and columns are counted from 0, as in the code.                    *)
(***************************************************************************)
EXTENDS Naturals, Sequences, FiniteSets

CONSTANTS
    NoItem,     \* what a cell without an item holds: the template for no item
    OutOfRange  \* what it holds when items[...] throws: the list ends there

RepeatColumns(n) == IF n < 1 THEN 1 ELSE n

CalculateAmountOfRows(count, columns) ==
    (count \div columns) + (IF count % columns > 0 THEN 1 ELSE 0)

Grid(items, columns) == (0 .. CalculateAmountOfRows(Len(items), columns) - 1) \X (0 .. columns - 1)

(* The loops count the cells they have written, row by row, and write items *)
(* while the count is below the number of items.                           *)
Written(cell, columns) == cell[1] * columns + cell[2]

RenderHorizontal(items, columns) ==
    [cell \in Grid(items, columns) |->
        LET i == Written(cell, columns)
        IN  IF i + 1 <= Len(items) THEN items[i + 1] ELSE NoItem]

(* Variant of RenderVertical: the index counts in columns, not in rows.     *)
RenderVerticalAcross(items, columns) ==
    [cell \in Grid(items, columns) |->
        LET index == cell[2] * columns + cell[1]
        IN  IF Written(cell, columns) + 1 > Len(items) THEN NoItem
            ELSE IF index < Len(items) THEN items[index + 1] ELSE OutOfRange]

RenderVertical(items, columns) ==
    [cell \in Grid(items, columns) |->
        LET rows == CalculateAmountOfRows(Len(items), columns)
            index == cell[2] * rows + cell[1]
        IN  IF Written(cell, columns) + 1 > Len(items) THEN NoItem
            ELSE IF index < Len(items) THEN items[index + 1] ELSE OutOfRange]

-----------------------------------------------------------------------------
(* What a layout promises.  Its cells, read across or read down, hold the   *)
(* items in their order and each of them once.                             *)

Holding(cells) == {c \in DOMAIN cells : cells[c] # NoItem}

Across(c, d) == c[1] < d[1] \/ (c[1] = d[1] /\ c[2] < d[2])

Downward(c, d) == c[2] < d[2] \/ (c[2] = d[2] /\ c[1] < d[1])

ReadsAcross(cells, items) ==
    /\ Cardinality(Holding(cells)) = Len(items)
    /\ \A c \in Holding(cells) :
        cells[c] = items[Cardinality({b \in Holding(cells) : Across(b, c)}) + 1]

ReadsDown(cells, items) ==
    /\ Cardinality(Holding(cells)) = Len(items)
    /\ \A c \in Holding(cells) :
        cells[c] = items[Cardinality({b \in Holding(cells) : Downward(b, c)}) + 1]
=============================================================================
