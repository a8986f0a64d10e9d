------------------------- MODULE ConfiguredPipeline --------------------------
(* The pipeline and the configuration that makes its rules: definitions are *)
(* configured before messages are processed.                                *)
EXTENDS CommandPipeline, ValidationDefinition

\* Where a message comes in, the rules that any two statements made are as the
\* statements say (ValidationDefinition): what the application writes there is
\* over by then, and nothing in the pipeline writes to it.
ConfiguredAsWritten == pc = "select" /\ cmd = 0 => RulesAsWritten
=============================================================================
