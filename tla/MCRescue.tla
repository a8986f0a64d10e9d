------------------------------ MODULE MCRescue -------------------------------
(* Instances of Rescue for TLC: Sql and Cookie are exceptions, and          *)
(* Exception is assignable from both.                                       *)
EXTENDS Rescue

CONSTANTS Sql, Cookie, Exception

MCTypes == {Sql, Cookie, Exception}
MCAssignable == [e \in MCTypes |-> {e, Exception}]

Restrictions == {<<Exception>>, <<Sql>>, <<Sql, Exception>>}

MCSettings ==
    [exceptionTypes: Restrictions, ignoreTypes: {{}, {Cookie}},
     autoLocate: BOOLEAN, ignoreAjax: BOOLEAN, views: SUBSET MCTypes]
=============================================================================
