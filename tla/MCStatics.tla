------------------------------ MODULE MCStatics -------------------------------
(* The static state that request threads share, in one instance for TLC:    *)
(* the rules engine and the cache of derived types.  They have nothing in   *)
(* common, so that a behaviour exercises one of them, the subject, and      *)
(* leaves the other in its initial state.                                   *)
EXTENDS MCRulesEngine, MCDerivedTypeCache

VARIABLE subject

staticVars == <<engineVars, vars, subject>>

StaticsInit ==
    /\ subject \in {"engine", "cache"}
    /\ EngineInit /\ Init
    /\ subject = "engine" => \A b \in Bases : binders[b] = "none"

StaticsNext ==
    /\ UNCHANGED subject
    /\ \/ subject = "engine" /\ EngineNext /\ UNCHANGED vars
       \/ subject = "cache" /\ Next /\ UNCHANGED engineVars

StaticsSpec == StaticsInit /\ [][StaticsNext]_staticVars
=============================================================================
