----------------------------- MODULE MCPagination -----------------------------
(* An instance of Pagination for TLC: up to six rows, ints of four bits.    *)
EXTENDS Pagination

MCIds == 1..6
MCInitialRows == {[q \in 1..n |-> q] : n \in 0..5}
MCKinds == {"lazy", "delegate", "custom"}
MCNumbers == 1..4
MCSizes == {2, 4}
MCColumns == {0, 2, 3}
=============================================================================
