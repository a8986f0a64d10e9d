--------------------------- MODULE MCAreaResources ---------------------------
(* An instance of AreaResources for TLC: three areas.  quick's name begins  *)
(* quicklinks's; quick embeds its files by folder, quicklinks in a parent   *)
(* namespace too, forum only in its root namespace, as Visual Basic does.   *)
EXTENDS AreaResources

CONSTANTS quick, quicklinks, forum, quickMap

MCAreas == {quick, quicklinks, forum}
MCAreaName == [a \in MCAreas |->
    CASE a = quick -> <<"quick">> [] a = quicklinks -> <<"quick", "links">>
      [] a = forum -> <<"forum">>]
MCAreaNamespace == [a \in MCAreas |->
    CASE a = quick -> <<"app", "quick">>
      [] a = quicklinks -> <<"lib", "areas", "links">>
      [] a = forum -> <<"forum">>]
MCEmbedded == [a \in MCAreas |->
    CASE a = quick -> {<<"app", ".", "quick", ".", "home", ".", "index", ".", "aspx">>,
                       <<"app", ".", "quick", ".", "content", ".", "logo", ".", "min", ".", "png">>}
      [] a = quicklinks -> {<<"lib", ".", "areas", ".", "form", ".", "aspx">>, <<"lib", ".", "list", ".", "aspx">>,
                            <<"lib", ".", "areas", ".", "links", ".", "home", ".", "index", ".", "aspx">>}
      [] a = forum -> {<<"forum", ".", "index", ".", "aspx">>, <<"forum", ".", "forum", ".", "dat">>,
                       <<"forum", ".", "logo", ".", "min", ".", "png">>, <<"forum", ".", "string", ".", "aspx">>}]
MCMapType == [a \in MCAreas |-> IF a = quicklinks THEN NoMap ELSE quickMap]
MCFiles == {<<"logo", ".", "min", ".", "png">>, <<"forum", ".", "dat">>, <<"index", ".", "aspx">>}
In(a, file) == <<"~", "/", "areas", "/">> \o MCAreaName[a] \o <<"/", "home", "/">> \o file
Aspx(name) == <<name, ".", "aspx">>
InputBuilder == <<"views", "/", "inputbuilders", "/", "string", ".", "aspx">>
Overridden == <<"~", "/", "areas", "/", "forum", "/">> \o InputBuilder
MCOnDisk == {In(quick, Aspx("form"))}
MCPaths == MCOnDisk \cup {Overridden, <<"~", "/">> \o InputBuilder}
    \cup {In(a, Aspx("index")) : a \in MCAreas}
    \cup {In(quicklinks, Aspx("form")), In(quicklinks, Aspx("list"))}
    \cup {In(forum, <<"forum", ".", "dat">>), In(forum, <<"logo", ".", "min", ".", "png">>)}
=============================================================================
