---------------------------- MODULE MCRulesEngine ----------------------------
(* Instances of RulesEngine for TLC: an assembly with two message           *)
(* definitions, and a message type without one.                             *)
EXTENDS RulesEngine

CONSTANTS login, search, unmapped

MCMessageTypes == {login, search, unmapped}
MCAssembly == <<login, search>>
=============================================================================
