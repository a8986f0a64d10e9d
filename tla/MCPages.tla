------------------------------- MODULE MCPages --------------------------------
(* What pages are made of, in one instance for TLC: the resources of the    *)
(* portable areas, menus, and paged lists.  They share no state, so that a  *)
(* behaviour exercises one of them, the subject, and leaves the others in   *)
(* one of their initial states.                                             *)
EXTENDS MCAreaResources, MCMenuBuilder, MCPagination

VARIABLE subject

pageVars == <<vars, menuVars, pagingVars, subject>>

PagesInit ==
    /\ subject \in {"areas", "menu", "paging"}
    /\ Init /\ MenuInit /\ PagingInit
    /\ subject # "paging" => rows = << >>

PagesNext ==
    /\ UNCHANGED subject
    /\ \/ subject = "areas" /\ Next /\ UNCHANGED <<menuVars, pagingVars>>
       \/ subject = "menu" /\ MenuNext /\ UNCHANGED <<vars, pagingVars>>
       \/ subject = "paging" /\ PagingNext /\ UNCHANGED <<vars, menuVars>>

PagesSpec == PagesInit /\ [][PagesNext]_pageVars
=============================================================================
