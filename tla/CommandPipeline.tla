--------------------------- MODULE CommandPipeline ---------------------------
(***************************************************************************)
(* One message going through the rules engine                              *)
(* (src/CommandProcessor/CommandProcessor): MessageProcessor.Process walks *)
(* the commands of the message definition, CommandDefinition.Initialize    *)
(* fills a command from what earlier commands returned, ValidationEngine   *)
(* checks its rules, CommandInvoker runs its handlers and ExecutionResult  *)
(* collects messages and return values.                                    *)
(*                                                                         *)
(* Conditions, rules, handlers and the mapper are application code: every  *)
(* answer they can give is tried, an exception included.  A return value   *)
(* is represented by the position in log of the call that produced it.     *)
(***************************************************************************)
EXTENDS Naturals, Sequences

CONSTANTS
    Keys,           \* types of the values handlers return
    NoKey,          \* a handler that returns null, or a ReturnValue without Type
    Definitions,    \* message definitions: sequences of commands
    MaxItems        \* bound: elements of a validated array

RuleShapes == [array: BOOLEAN, stop: BOOLEAN, conditional: BOOLEAN]
CommandShapes == [conditional: BOOLEAN, context: SUBSET Keys,
                  rules: Seq(RuleShapes), handlers: Nat]

ASSUME KeyAssumption == NoKey \notin Keys
ASSUME DefinitionAssumption == Definitions \subseteq Seq(CommandShapes)
ASSUME BoundAssumption == MaxItems \in Nat

VARIABLES
    definition, \* the IMessageConfiguration of the message
    pc,         \* where Process is
    cmd,        \* the command under way, or the last one considered
    rule,       \* its rule being checked
    pos, idx,   \* elements of the array seen so far, and the index i
    handler,    \* its handler to execute next
    total,      \* totalResult of MessageProcessor.Process
    result,     \* the ExecutionResult of the command
    context,    \* what Initialize stored in the command's members
    invalidated,\* how often IUnitOfWork.Invalidate was called
    log         \* history: the handlers executed

checkVars == <<rule, pos, idx>>
vars == <<definition, pc, cmd, checkVars, handler, total, result, context, invalidated, log>>

-----------------------------------------------------------------------------
(* ExecutionResult and GenericItemDictionary *)

NoValue == 0

ErrorMessages == [command: Nat, rule: Nat, index: Nat]
ExecutionResults == [messages: Seq(ErrorMessages), items: [Keys -> Nat]]
Calls == [command: Nat, handler: Nat, key: Keys \cup {NoKey}]

EmptyResult == [messages |-> <<>>, items |-> [key \in Keys |-> NoValue]]

Successful(r) == r.messages = <<>>

AddMessage(r, index) ==
    [r EXCEPT !.messages = Append(@, [command |-> cmd, rule |-> rule, index |-> index])]

\* Variant of MergeWith: a key that is already present keeps its value.
MergeKeepingOld(r, other) ==
    [messages |-> r.messages \o other.messages,
     items |-> [key \in Keys |->
        IF r.items[key] = NoValue THEN other.items[key] ELSE r.items[key]]]

\* A value returned under a type replaces an older one (GenericItemDictionary.Add).
MergeWith(r, other) ==
    [messages |-> r.messages \o other.messages,
     items |-> [key \in Keys |->
        IF other.items[key] = NoValue THEN r.items[key] ELSE other.items[key]]]

\* Merge of a handler's ReturnValue of type key, or of nothing.
Merge(r, key, value) ==
    [r EXCEPT !.items = [other \in Keys |-> IF other = key THEN value ELSE @[other]]]

-----------------------------------------------------------------------------

PCs == {"select", "initialize", "rules", "items", "handlers", "merge", "done", "threw"}

Command == definition[cmd]
Rule == Command.rules[rule]

TypeOK ==
    /\ definition \in Definitions
    /\ pc \in PCs
    /\ cmd \in 0..Len(definition)
    /\ rule \in Nat /\ pos \in 0..MaxItems /\ idx \in 0..pos /\ handler \in Nat
    /\ total \in ExecutionResults /\ result \in ExecutionResults
    /\ context \in [Keys -> Nat]
    /\ invalidated \in 0..1
    /\ log \in Seq(Calls)

Init ==
    /\ definition \in Definitions
    /\ pc = "select"
    /\ cmd = 0
    /\ rule = 1 /\ pos = 0 /\ idx = 0 /\ handler = 1
    /\ total = EmptyResult /\ result = EmptyResult
    /\ context = [key \in Keys |-> NoValue]
    /\ invalidated = 0
    /\ log = <<>>

Throw ==
    /\ pc' = "threw"
    /\ UNCHANGED <<definition, cmd, checkVars, handler, total, result, context, invalidated>>

\* GetApplicableCommands is lazy: the condition of a command is evaluated when
\* the loop of Process reaches it, after the commands before it have run.
Select ==
    /\ pc = "select" /\ cmd < Len(definition)
    /\ cmd' = cmd + 1
    /\ \/ pc' = "initialize"
       \/ /\ definition[cmd + 1].conditional
          /\ pc' = "select"
       \/ /\ definition[cmd + 1].conditional
          /\ pc' = "threw"
    /\ UNCHANGED <<definition, checkVars, handler, total, result, context, invalidated, log>>

\* No command left: Process returns totalResult.
Finish ==
    /\ pc = "select" /\ cmd = Len(definition)
    /\ pc' = "done"
    /\ UNCHANGED <<definition, cmd, checkVars, handler, total, result, context, invalidated, log>>

\* The mapper makes the command message, Initialize fills its context members;
\* GenericItemDictionary.Get throws for a type nobody returned, and the mapper
\* may throw too.  ValidateCommand starts with a new result.
Initialize ==
    /\ pc = "initialize"
    /\ \/ /\ \A key \in Command.context : total.items[key] # NoValue
          /\ context' = [key \in Keys |->
                IF key \in Command.context THEN total.items[key] ELSE NoValue]
          /\ pc' = "rules" /\ rule' = 1
          /\ result' = EmptyResult
          /\ UNCHANGED <<definition, cmd, pos, idx, handler, total, invalidated, log>>
       \/ Throw /\ UNCHANGED log

-----------------------------------------------------------------------------
(* ValidationEngine.ValidateCommand *)

\* The rule does not apply or has been checked: on to the next.
NextRule ==
    /\ pc' = "rules" /\ rule' = rule + 1
    /\ UNCHANGED <<definition, cmd, handler, total, context, invalidated, log>>

\* The loop over the rules is over; CommandInvoker looks at the result r.
EndValidation(r) ==
    /\ result' = r
    /\ IF Successful(r) THEN pc' = "handlers" /\ handler' = 1
                        ELSE pc' = "merge" /\ UNCHANGED handler
    /\ UNCHANGED <<definition, cmd, checkVars, total, context, invalidated, log>>

SkipRule ==
    /\ pc = "rules" /\ rule <= Len(Command.rules)
    /\ Rule.conditional
    /\ NextRule
    /\ UNCHANGED <<result, pos, idx>>

\* A condition, or an expression of the rule, throws.
RuleThrows ==
    /\ pc = "rules" /\ rule <= Len(Command.rules)
    /\ Throw
    /\ UNCHANGED log

\* A scalar rule holds of its input.
ScalarPasses ==
    /\ pc = "rules" /\ rule <= Len(Command.rules) /\ ~Rule.array
    /\ NextRule
    /\ UNCHANGED <<result, pos, idx>>

\* It fails: a message, and no more rules if it stops processing.
ScalarFails ==
    /\ pc = "rules" /\ rule <= Len(Command.rules) /\ ~Rule.array
    /\ IF Rule.stop
       THEN EndValidation(AddMessage(result, 0))
       ELSE /\ result' = AddMessage(result, 0) /\ NextRule
            /\ UNCHANGED <<pos, idx>>

\* An array rule starts on its elements.
StartItems ==
    /\ pc = "rules" /\ rule <= Len(Command.rules) /\ Rule.array
    /\ pc' = "items" /\ pos' = 0 /\ idx' = 0
    /\ UNCHANGED <<definition, cmd, rule, handler, total, result, context, invalidated, log>>

ItemVars == <<definition, pc, cmd, rule, handler, total, context, invalidated, log>>

\* A null element is skipped before i is incremented.
SkipNullItem ==
    /\ pc = "items" /\ pos < MaxItems
    /\ pos' = pos + 1
    /\ UNCHANGED <<ItemVars, idx, result>>

ItemPasses ==
    /\ pc = "items" /\ pos < MaxItems
    /\ pos' = pos + 1 /\ idx' = idx + 1
    /\ UNCHANGED <<ItemVars, result>>

\* Variant of ItemFails: i is only incremented for an element that passes.
ItemFailsUncounted ==
    /\ pc = "items" /\ pos < MaxItems
    /\ IF Rule.stop
       THEN EndValidation(AddMessage(result, idx))
       ELSE /\ result' = AddMessage(result, idx)
            /\ pos' = pos + 1
            /\ UNCHANGED <<ItemVars, idx>>

\* The message refers to element i; a stopping rule ends the whole validation.
ItemFails ==
    /\ pc = "items" /\ pos < MaxItems
    /\ IF Rule.stop
       THEN EndValidation(AddMessage(result, idx))
       ELSE /\ result' = AddMessage(result, idx)
            /\ pos' = pos + 1 /\ idx' = idx + 1
            /\ UNCHANGED ItemVars

EndItems ==
    /\ pc = "items"
    /\ NextRule
    /\ UNCHANGED <<result, pos, idx>>

EndRules ==
    /\ pc = "rules" /\ rule > Len(Command.rules)
    /\ EndValidation(result)

-----------------------------------------------------------------------------
(* CommandInvoker.Process and the end of the loop of MessageProcessor.Process *)

\* Handler number handler runs and returns a value of type key, or nothing.
Execute ==
    /\ pc = "handlers" /\ handler <= Command.handlers
    /\ \E key \in Keys \cup {NoKey} :
        /\ log' = Append(log, [command |-> cmd, handler |-> handler, key |-> key])
        /\ result' = Merge(result, key, Len(log) + 1)
    /\ handler' = handler + 1
    /\ UNCHANGED <<definition, pc, cmd, checkVars, total, context, invalidated>>

\* A handler throws, having run in part.
ExecuteThrows ==
    /\ pc = "handlers" /\ handler <= Command.handlers
    /\ log' = Append(log, [command |-> cmd, handler |-> handler, key |-> NoKey])
    /\ Throw

\* Variant of EndCommand: Invalidate without break.
EndCommandUnbroken ==
    /\ \/ pc = "merge"
       \/ pc = "handlers" /\ handler > Command.handlers
    /\ total' = MergeWith(total, result)
    /\ pc' = "select"
    /\ invalidated' = IF Successful(total') THEN invalidated ELSE invalidated + 1
    /\ UNCHANGED <<definition, cmd, checkVars, handler, result, context, log>>

\* Variant of EndCommand: break without Invalidate.
EndCommandForgets ==
    /\ \/ pc = "merge"
       \/ pc = "handlers" /\ handler > Command.handlers
    /\ total' = MergeWith(total, result)
    /\ pc' = IF Successful(total') THEN "select" ELSE "done"
    /\ UNCHANGED <<definition, cmd, checkVars, handler, result, context, invalidated, log>>

\* The command's result joins totalResult; the first failure invalidates the
\* unit of work and ends the loop.
EndCommand ==
    /\ \/ pc = "merge"
       \/ pc = "handlers" /\ handler > Command.handlers
    /\ total' = MergeWith(total, result)
    /\ IF Successful(total')
       THEN pc' = "select" /\ UNCHANGED invalidated
       ELSE pc' = "done" /\ invalidated' = invalidated + 1
    /\ UNCHANGED <<definition, cmd, checkVars, handler, result, context, log>>

Finished == pc \in {"done", "threw"} /\ UNCHANGED vars

Validate ==
    \/ SkipRule \/ RuleThrows \/ ScalarPasses \/ ScalarFails
    \/ StartItems \/ SkipNullItem \/ ItemPasses \/ ItemFails \/ EndItems \/ EndRules

Next ==
    \/ Select \/ Finish \/ Initialize \/ Validate
    \/ Execute \/ ExecuteThrows \/ EndCommand \/ Finished

Spec == Init /\ [][Next]_vars

FairSpec == Spec /\ WF_vars(Next)

-----------------------------------------------------------------------------
(* Properties *)

RangeOf(s) == {s[i] : i \in DOMAIN s}

\* When Process returns, the unit of work has been invalidated exactly when
\* the result carries messages, and once; until then, and when an exception
\* escapes, it has not been touched (so a caller that catches the exception
\* must discard the unit of work itself).
InvalidatedIffRejected ==
    invalidated = IF pc = "done" /\ ~Successful(total) THEN 1 ELSE 0

\* The last value of type key a handler of a command before c returned.
IsLatest(value, key, c) ==
    /\ value \in DOMAIN log /\ log[value].key = key /\ log[value].command < c
    /\ \A i \in DOMAIN log :
        log[i].key = key /\ log[i].command < c => i <= value

\* A command validates and runs with the latest value of each of its context
\* members: neither a value another handler has replaced, nor none at all
\* (CommandDefinition.Initialize, ExecutionResult.MergeWith).
ContextIsLatest ==
    pc \in {"rules", "items", "handlers", "merge"} =>
        \A key \in Command.context : IsLatest(context[key], key, cmd)

Before(m, n) == m.rule < n.rule \/ (m.rule = n.rule /\ m.index < n.index)

\* The messages of a result are about one command, in the order of its rules
\* and of the elements, each about a rule and an element of its own; a message
\* of a stopping rule is the last (ValidationEngine.ValidateCommand).
MessagesInOrder ==
    LET ms == total.messages IN
    /\ \A i, j \in DOMAIN ms :
        /\ ms[i].command = ms[j].command
        /\ i < j => Before(ms[i], ms[j])
    /\ \A i \in DOMAIN ms :
        definition[ms[i].command].rules[ms[i].rule].stop => i = Len(ms)

\* Handlers of the commands whose result has been merged: the log up to the
\* command under way.
Merged ==
    LET done == {i \in DOMAIN log : log[i].command < cmd \/ pc \in {"select", "done"}}
    IN  [i \in done |-> <<log[i].command, log[i].handler>>]

\* The last command that was skipped or run in full.
Considered ==
    IF pc = "select" \/ (pc = "done" /\ Successful(total)) THEN cmd
    ELSE IF cmd = 0 THEN 0 ELSE cmd - 1

Outcome ==
    IF pc = "threw" THEN "failed"
    ELSE IF pc # "done" THEN "running"
    ELSE IF Successful(total) THEN "accepted" ELSE "rejected"

Abstract == INSTANCE MessageProcessing WITH
    last <- Considered, executed <- Merged, outcome <- Outcome, invalid <- invalidated > 0

\* The pipeline implements the abstract processing of a message: every command
\* is skipped, run in full, rejected or failed, in order.
ImplementsMessageProcessing == Abstract!Spec
=============================================================================
