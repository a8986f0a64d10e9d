------------------------- MODULE MCTempDataFilters ---------------------------
(* Instances of TempDataFilters for TLC: applications that use one filter,  *)
(* some of them, or all.                                                    *)
EXTENDS TempDataFilters

MCSites == {
    {{"model"}, {}},
    {{"model"}, {"params"}},
    {{"model", "params"}, {"viewdata"}}}
=============================================================================
