-------------------------- MODULE MessageProcessing --------------------------
(***************************************************************************)
(* What the rules engine promises of one message, as an abstract           *)
(* specification: the commands of the message definition are considered in *)
(* order; each either runs all its handlers or none; the first one that    *)
(* does not validate ends the message and invalidates the unit of work.    *)
(***************************************************************************)
EXTENDS Naturals, Sequences

CONSTANT Definitions    \* message definitions: sequences of commands

VARIABLES
    definition, \* the definition being processed
    last,       \* the last command considered
    executed,   \* the handlers run, as <<command, handler>>
    outcome,    \* running, accepted, rejected, or failed (an exception)
    invalid     \* the unit of work was invalidated

vars == <<definition, last, executed, outcome, invalid>>

Init ==
    /\ definition \in Definitions
    /\ last = 0
    /\ executed = <<>>
    /\ outcome = "running"
    /\ invalid = FALSE

\* Every handler of command c, in order.
HandlersOf(c) == [h \in 1..definition[c].handlers |-> <<c, h>>]

\* The condition of the next command does not hold.
Skip ==
    /\ outcome = "running" /\ last < Len(definition)
    /\ definition[last + 1].conditional
    /\ last' = last + 1
    /\ UNCHANGED <<definition, executed, outcome, invalid>>

\* The next command validates and all its handlers run.
Run ==
    /\ outcome = "running" /\ last < Len(definition)
    /\ last' = last + 1
    /\ executed' = executed \o HandlersOf(last + 1)
    /\ UNCHANGED <<definition, outcome, invalid>>

\* The next command does not validate.
Reject ==
    /\ outcome = "running" /\ last < Len(definition)
    /\ outcome' = "rejected" /\ invalid' = TRUE
    /\ UNCHANGED <<definition, last, executed>>

Accept ==
    /\ outcome = "running" /\ last = Len(definition)
    /\ outcome' = "accepted"
    /\ UNCHANGED <<definition, last, executed, invalid>>

\* An exception: nobody invalidates the unit of work.
Fail ==
    /\ outcome = "running" /\ last < Len(definition)
    /\ outcome' = "failed"
    /\ UNCHANGED <<definition, last, executed, invalid>>

Next == Skip \/ Run \/ Reject \/ Accept \/ Fail

Safety == Init /\ [][Next]_vars

Spec == Safety /\ WF_vars(Next)
=============================================================================
