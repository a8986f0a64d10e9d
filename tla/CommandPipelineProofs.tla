------------------------ MODULE CommandPipelineProofs ------------------------
(***************************************************************************)
(* Proofs about CommandPipeline, for all message definitions, keys and     *)
(* lengths of arrays: types, when the unit of work is invalidated, what a  *)
(* command finds in its context, the order of messages, and that every     *)
(* step of the pipeline is one of MessageProcessing or changes nothing     *)
(* there; and about ValidationDefinition, that its rules are what their    *)
(* statements say, for any number of statements.                           *)
(***************************************************************************)
EXTENDS ConfiguredPipeline, SequenceTheorems, WellFoundedInduction, TLAPS

UnderWay == {"initialize", "rules", "items", "handlers", "merge"}
Validated == {"rules", "items", "handlers", "merge"}

\* How many calls were logged before the handlers of the command under way.
Earlier == IF pc = "handlers" THEN Len(log) + 1 - handler ELSE Len(log)

\* The calls of the command under way are the end of the log, in order.
Calling ==
    /\ pc \in UnderWay \cup {"threw"} => cmd # 0
    /\ Earlier \in 0..Len(log)
    /\ pc # "threw" => \A i \in 1..Earlier :
        log[i].command <= cmd /\ (pc \in UnderWay => log[i].command < cmd)
    /\ pc = "handlers" =>
        /\ handler # 0 /\ handler <= Command.handlers + 1
        /\ \A i \in (Earlier + 1)..Len(log) :
            log[i].command = cmd /\ log[i].handler = i - Earlier

\* The last value of type key among the calls from..to, or none.
LatestIn(value, key, from, to) ==
    IF value = NoValue THEN \A i \in from..to : log[i].key # key
    ELSE /\ value \in from..to /\ log[value].key = key
         /\ \A i \in from..to : log[i].key = key => i <= value

\* What the results remember of the calls.
Values ==
    /\ pc # "threw" => \A key \in Keys : LatestIn(total.items[key], key, 1, Earlier)
    /\ pc \in Validated =>
        /\ \A key \in Keys : LatestIn(result.items[key], key, Earlier + 1, Len(log))
        /\ \A key \in Command.context :
            total.items[key] # NoValue /\ context[key] = total.items[key]

InOrder(ms) ==
    /\ \A i \in DOMAIN ms : ms[i].command = cmd
    /\ \A i, j \in DOMAIN ms : i < j => Before(ms[i], ms[j])

Stops(m) == Command.rules[m.rule].stop

\* The messages so far: what the loops over rules and elements have passed.
Messages ==
    LET ms == result.messages IN
    /\ pc # "done" => Successful(total)
    /\ pc = "handlers" => Successful(result)
    /\ pc \in {"rules", "items", "merge"} => InOrder(ms)
    /\ pc = "rules" =>
        /\ rule # 0
        /\ \A i \in DOMAIN ms : ms[i].rule < rule /\ ~Stops(ms[i])
    /\ pc = "items" =>
        /\ rule \in DOMAIN Command.rules
        /\ \A i \in DOMAIN ms :
            Before(ms[i], [command |-> cmd, rule |-> rule, index |-> idx]) /\ ~Stops(ms[i])
    /\ pc = "merge" =>
        /\ ~Successful(result)
        /\ \A i \in DOMAIN ms : Stops(ms[i]) => i = Len(ms)
    /\ pc = "done" => MessagesInOrder

IInv ==
    /\ TypeOK /\ Calling /\ Values /\ Messages
    /\ InvalidatedIffRejected

-----------------------------------------------------------------------------

\* What the assumption on Definitions says of the command under way.
LEMMA CommandType ==
    ASSUME TypeOK
    PROVE  /\ definition \in Seq(CommandShapes) /\ Len(definition) \in Nat
           /\ cmd # 0 =>
                /\ cmd \in DOMAIN definition /\ Command \in CommandShapes
                /\ Command.context \subseteq Keys /\ Command.handlers \in Nat
                /\ Command.rules \in Seq(RuleShapes)
<1>1. definition \in Seq(CommandShapes)
  BY DefinitionAssumption DEF TypeOK
<1>2. ASSUME cmd # 0 PROVE cmd \in DOMAIN definition /\ Command \in CommandShapes
  BY <1>1, <1>2 DEF TypeOK, Command
<1>3. ASSUME NEW c \in CommandShapes
      PROVE  c.context \subseteq Keys /\ c.handlers \in Nat /\ c.rules \in Seq(RuleShapes)
  BY DEF CommandShapes
<1> QED
  BY <1>1, <1>2, <1>3

\* A rejected rule adds one message about it, and keeps the items.
LEMMA AddMessageAppends ==
    ASSUME NEW r \in ExecutionResults, cmd \in Nat, rule \in Nat, NEW index \in Nat
    PROVE  LET m == [command |-> cmd, rule |-> rule, index |-> index]
               new == AddMessage(r, index)
           IN  /\ new \in ExecutionResults /\ new.items = r.items
               /\ new.messages = Append(r.messages, m)
               /\ m \in ErrorMessages /\ r.messages \in Seq(ErrorMessages)
<1> DEFINE m == [command |-> cmd, rule |-> rule, index |-> index]
<1>1. m \in ErrorMessages
  BY DEF ErrorMessages
<1> HIDE DEF m
<1>2. /\ r = [messages |-> r.messages, items |-> r.items]
      /\ r.messages \in Seq(ErrorMessages) /\ r.items \in [Keys -> Nat]
  BY DEF ExecutionResults
<1>3. Append(r.messages, m) \in Seq(ErrorMessages)
  BY <1>1, <1>2
<1>4. AddMessage(r, index) = [r EXCEPT !.messages = Append(r.messages, m)]
  BY DEF AddMessage, m
<1>5. AddMessage(r, index) = [messages |-> Append(r.messages, m), items |-> r.items]
  BY <1>2, <1>4
<1> QED
  BY <1>1, <1>2, <1>3, <1>5 DEF ExecutionResults, m

LEMMA EmptyResultType ==
    /\ EmptyResult \in ExecutionResults /\ Successful(EmptyResult)
    /\ \A key \in Keys : EmptyResult.items[key] = NoValue
BY DEF EmptyResult, ExecutionResults, Successful, NoValue

LEMMA MergeType ==
    ASSUME NEW r \in ExecutionResults, NEW key \in Keys \cup {NoKey}, NEW value \in Nat
    PROVE  /\ Merge(r, key, value) \in ExecutionResults
           /\ Merge(r, key, value).messages = r.messages
           /\ \A other \in Keys : Merge(r, key, value).items[other] =
                IF other = key THEN value ELSE r.items[other]
BY DEF ExecutionResults, Merge

LEMMA MergeWithType ==
    ASSUME NEW r \in ExecutionResults, NEW other \in ExecutionResults
    PROVE  /\ MergeWith(r, other) \in ExecutionResults
           /\ MergeWith(r, other).messages = r.messages \o other.messages
           /\ \A key \in Keys : MergeWith(r, other).items[key] =
                IF other.items[key] = NoValue THEN r.items[key] ELSE other.items[key]
BY DEF ExecutionResults, MergeWith

-----------------------------------------------------------------------------
(* Types *)

\* What a step of the validation leaves alone.
LEMMA ValidateFrame ==
    ASSUME TypeOK, Validate
    PROVE  /\ pc \in {"rules", "items"} /\ pc' \in {"rules", "items", "handlers", "merge", "threw"}
           /\ UNCHANGED <<definition, cmd, total, context, invalidated, log>>
           /\ result'.items = result.items
           /\ pc' = "handlers" => handler' = 1
<1> USE DEF checkVars
<1>1. CASE SkipRule
  BY <1>1 DEF SkipRule, NextRule
<1>2. CASE RuleThrows
  BY <1>2 DEF RuleThrows, Throw
<1>3. CASE ScalarPasses
  BY <1>3 DEF ScalarPasses, NextRule
<1>4. AddMessage(result, 0).items = result.items /\ AddMessage(result, idx).items = result.items
  <2>1. cmd \in Nat /\ rule \in Nat /\ idx \in Nat /\ result \in ExecutionResults
    BY CommandType, BoundAssumption DEF TypeOK
  <2> QED
    BY <2>1, AddMessageAppends
<1>5. CASE ScalarFails
  BY <1>4, <1>5 DEF ScalarFails, NextRule, EndValidation
<1>6. CASE StartItems
  BY <1>6 DEF StartItems
<1>7. CASE SkipNullItem \/ ItemPasses
  BY <1>7 DEF SkipNullItem, ItemPasses, ItemVars
<1>8. CASE ItemFails
  BY <1>4, <1>8 DEF ItemFails, EndValidation, ItemVars
<1>9. CASE EndItems
  BY <1>9 DEF EndItems, NextRule
<1>10. CASE EndRules
  BY <1>10 DEF EndRules, EndValidation
<1> QED
  BY <1>1, <1>2, <1>3, <1>5, <1>6, <1>7, <1>8, <1>9, <1>10 DEF Validate

LEMMA TypeKeeps == ASSUME TypeOK, Next, invalidated = 1 => pc = "done" PROVE TypeOK'
<1> USE DEF PCs, checkVars
<1>1. CASE Select
  BY <1>1, CommandType DEF Select, TypeOK
<1>2. CASE Finish
  BY <1>2 DEF Finish, TypeOK
<1>3. CASE Initialize
  <2>1. [key \in Keys |-> IF key \in Command.context THEN total.items[key] ELSE NoValue]
            \in [Keys -> Nat]
    BY DEF TypeOK, ExecutionResults, NoValue
  <2> QED
    BY <1>3, <2>1, EmptyResultType DEF Initialize, Throw, TypeOK
<1>4. CASE Validate
  <2>1. AddMessage(result, 0) \in ExecutionResults /\ AddMessage(result, idx) \in ExecutionResults
    <3>1. cmd \in Nat /\ rule \in Nat /\ idx \in Nat /\ result \in ExecutionResults
      BY CommandType, BoundAssumption DEF TypeOK
    <3> QED
      BY <3>1, AddMessageAppends
  <2>2. CASE SkipRule \/ RuleThrows \/ ScalarPasses \/ EndItems
    BY <2>2 DEF SkipRule, RuleThrows, ScalarPasses, EndItems, NextRule, Throw, TypeOK
  <2>3. CASE ScalarFails
    BY <2>3, <2>1 DEF ScalarFails, NextRule, EndValidation, TypeOK
  <2>4. CASE StartItems
    BY <2>4, BoundAssumption DEF StartItems, TypeOK
  <2>5. CASE SkipNullItem \/ ItemPasses
    BY <2>5, BoundAssumption DEF SkipNullItem, ItemPasses, ItemVars, TypeOK
  <2>6. CASE ItemFails
    BY <2>6, <2>1, BoundAssumption DEF ItemFails, EndValidation, ItemVars, TypeOK
  <2>7. CASE EndRules
    BY <2>7 DEF EndRules, EndValidation, TypeOK
  <2> QED
    BY <1>4, <2>2, <2>3, <2>4, <2>5, <2>6, <2>7 DEF Validate
<1>5. CASE Execute
  <2>1. PICK key \in Keys \cup {NoKey} :
          /\ log' = Append(log, [command |-> cmd, handler |-> handler, key |-> key])
          /\ result' = Merge(result, key, Len(log) + 1)
    BY <1>5 DEF Execute
  <2>2. result' \in ExecutionResults
    <3>1. Len(log) + 1 \in Nat /\ result \in ExecutionResults
      BY DEF TypeOK
    <3> QED
      BY <2>1, <3>1, MergeType
  <2>3. [command |-> cmd, handler |-> handler, key |-> key] \in Calls
    BY CommandType DEF TypeOK, Calls
  <2>4. log' \in Seq(Calls)
    BY <2>1, <2>3 DEF TypeOK
  <2> QED
    BY <1>5, <2>2, <2>4 DEF Execute, TypeOK
<1>6. CASE ExecuteThrows
  <2>1. [command |-> cmd, handler |-> handler, key |-> NoKey] \in Calls
    BY CommandType DEF TypeOK, Calls
  <2>2. log' \in Seq(Calls)
    BY <1>6, <2>1 DEF ExecuteThrows, TypeOK
  <2> QED
    BY <1>6, <2>2 DEF ExecuteThrows, Throw, TypeOK
<1>7. CASE EndCommand
  <2>1. total' \in ExecutionResults
    BY <1>7, MergeWithType DEF EndCommand, TypeOK
  <2>2. invalidated = 0
    BY <1>7 DEF EndCommand, TypeOK
  <2> QED
    BY <1>7, <2>1, <2>2 DEF EndCommand, TypeOK
<1>8. CASE Finished
  BY <1>8 DEF Finished, vars, TypeOK
<1> QED
  BY <1>1, <1>2, <1>3, <1>4, <1>5, <1>6, <1>7, <1>8 DEF Next

-----------------------------------------------------------------------------
(* Calls *)

LEMMA CallingKeeps == ASSUME IInv, Next, TypeOK' PROVE Calling'
<1> USE DEF UnderWay
<1>0. /\ log \in Seq(Calls) /\ Len(log) \in Nat /\ handler \in Nat /\ cmd \in Nat
      /\ Len(definition) \in Nat
      /\ \A i \in 1..Len(log) : log[i].command \in Nat
  <2>1. \A i \in 1..Len(log) : log[i] \in Calls
    BY DEF IInv, TypeOK
  <2> QED
    BY <2>1, CommandType DEF IInv, TypeOK, Calls
<1>1. CASE Select
  <2>1. Earlier = Len(log) /\ Earlier' = Len(log') /\ log' = log /\ cmd' = cmd + 1
    BY <1>1 DEF Select, Earlier
  <2>2. pc = "select" /\ pc' \in {"select", "initialize", "threw"}
    BY <1>1 DEF Select
  <2>3. \A i \in 1..Len(log) : log[i].command <= cmd /\ log[i].command \in Nat
    BY <1>0, <2>1, <2>2 DEF IInv, Calling
  <2> QED
    BY <1>0, <2>1, <2>2, <2>3 DEF Calling
<1>2. CASE Finish
  BY <1>0, <1>2 DEF Finish, IInv, Calling, Earlier
<1>3. CASE Initialize
  BY <1>0, <1>3 DEF Initialize, Throw, IInv, Calling, Earlier
<1>4. CASE Validate
  BY <1>0, <1>4, ValidateFrame, CommandType DEF IInv, Calling, Earlier, Command
<1>5. CASE Execute
  <2>1. PICK key \in Keys \cup {NoKey} :
          log' = Append(log, [command |-> cmd, handler |-> handler, key |-> key])
    BY <1>5 DEF Execute
  <2>2. /\ pc = "handlers" /\ pc' = pc /\ cmd' = cmd /\ Command' = Command
        /\ handler' = handler + 1 /\ handler <= Command.handlers
    BY <1>5 DEF Execute, Command
  <2>3. /\ Len(log') = Len(log) + 1
        /\ \A i \in 1..Len(log) : log'[i] = log[i]
        /\ log'[Len(log) + 1].command = cmd /\ log'[Len(log) + 1].handler = handler
    BY <1>0, <2>1
  <2>4. Earlier' = Earlier /\ Earlier = Len(log) + 1 - handler /\ Earlier \in 0..Len(log)
    BY <1>0, <2>2, <2>3 DEF Earlier, IInv, Calling
  <2>5. ASSUME NEW i \in 1..Earlier' PROVE log'[i].command < cmd /\ log'[i].command <= cmd
    <3>1. i \in 1..Earlier /\ i \in 1..Len(log)
      BY <1>0, <2>4
    <3>2. log[i].command < cmd
      BY <2>2, <3>1 DEF IInv, Calling
    <3> QED
      BY <1>0, <2>3, <3>1, <3>2
  <2>6. ASSUME NEW i \in (Earlier' + 1)..Len(log')
        PROVE  log'[i].command = cmd /\ log'[i].handler = i - Earlier'
    <3>1. CASE i = Len(log) + 1
      BY <1>0, <2>3, <2>4, <3>1
    <3>2. CASE i # Len(log) + 1
      <4>1. i \in (Earlier + 1)..Len(log) /\ i \in 1..Len(log)
        BY <1>0, <2>3, <2>4, <3>2
      <4> QED
        BY <2>2, <2>3, <2>4, <4>1 DEF IInv, Calling
    <3> QED
      BY <3>1, <3>2
  <2>7. cmd # 0 /\ Command.handlers \in Nat
    BY <2>2, CommandType DEF IInv, Calling
  <2> QED
    <3>1. cmd' # 0 /\ Earlier' \in 0..Len(log') /\ pc' = "handlers"
      BY <1>0, <2>2, <2>3, <2>4, <2>7
    <3>2. handler' # 0 /\ handler' <= Command'.handlers + 1
      BY <1>0, <2>2, <2>7
    <3>3. \A i \in 1..Earlier' : log'[i].command <= cmd' /\ log'[i].command < cmd'
      BY <2>2, <2>5
    <3>4. \A i \in (Earlier' + 1)..Len(log') : log'[i].command = cmd' /\ log'[i].handler = i - Earlier'
      BY <2>2, <2>6
    <3> QED
      BY <3>1, <3>2, <3>3, <3>4 DEF Calling
<1>6. CASE ExecuteThrows
  BY <1>0, <1>6 DEF ExecuteThrows, Throw, IInv, Calling, Earlier
<1>7. CASE EndCommand
  <2>1. /\ pc \in {"merge", "handlers"} /\ pc' \in {"select", "done"}
        /\ UNCHANGED <<cmd, log>> /\ Earlier' = Len(log)
    BY <1>7 DEF EndCommand, Earlier
  <2>2. ASSUME NEW i \in 1..Len(log) PROVE log[i].command <= cmd
    <3>1. CASE i \in 1..Earlier
      BY <2>1, <3>1 DEF IInv, Calling
    <3>2. CASE i \in (Earlier + 1)..Len(log) /\ pc = "handlers"
      BY <1>0, <3>2 DEF IInv, Calling
    <3> QED
      BY <1>0, <2>1, <3>1, <3>2 DEF Earlier, IInv, Calling
  <2> QED
    BY <1>0, <2>1, <2>2 DEF Calling
<1>8. CASE Finished
  BY <1>8 DEF Finished, vars, IInv, Calling, Earlier, Command
<1> QED
  BY <1>1, <1>2, <1>3, <1>4, <1>5, <1>6, <1>7, <1>8 DEF Next

-----------------------------------------------------------------------------
(* Values *)

\* A call that returns nothing of a type leaves its last value as it was, and
\* one that returns a value of it is the last.
LEMMA LatestAppends ==
    ASSUME log \in Seq(Calls), NEW call, log' = Append(log, call),
           NEW n \in Nat, n = Len(log), NEW from \in 1..(n + 1),
           NEW value \in Nat, NEW key, LatestIn(value, key, from, n)
    PROVE  /\ call.key = key => LatestIn(n + 1, key, from, n + 1)'
           /\ call.key # key => LatestIn(value, key, from, n + 1)'
<1>1. log'[n + 1] = call /\ \A i \in 1..n : log'[i] = log[i]
  OBVIOUS
<1>2. from..(n + 1) = (from..n) \cup {n + 1} /\ from..n \subseteq 1..n
  OBVIOUS
<1>3. CASE call.key = key
  BY <1>1, <1>2, <1>3 DEF LatestIn, NoValue
<1>4. CASE call.key # key
  BY <1>1, <1>2, <1>4 DEF LatestIn, NoValue
<1> QED
  BY <1>3, <1>4

\* The last value among two runs of calls, one after the other.
LEMMA LatestMerges ==
    ASSUME NEW old \in Nat, NEW new \in Nat, NEW key, NEW n \in Nat, NEW to \in Nat, n <= to,
           LatestIn(old, key, 1, n), LatestIn(new, key, n + 1, to)
    PROVE  LatestIn(IF new = NoValue THEN old ELSE new, key, 1, to)
<1>1. 1..to = (1..n) \cup ((n + 1)..to)
  OBVIOUS
<1> QED
  BY <1>1 DEF LatestIn, NoValue

LEMMA ValuesKeep == ASSUME IInv, Next, TypeOK', Calling' PROVE Values'
<1> USE DEF UnderWay, Validated
<1>0. /\ log \in Seq(Calls) /\ Len(log) \in Nat /\ handler \in Nat /\ Earlier \in 0..Len(log)
      /\ total \in ExecutionResults /\ result \in ExecutionResults
      /\ \A key \in Keys : total.items[key] \in Nat /\ result.items[key] \in Nat
  BY DEF IInv, TypeOK, Calling, ExecutionResults
<1>1. CASE Select \/ Finish
  BY <1>0, <1>1 DEF Select, Finish, IInv, Values, Earlier, LatestIn
<1>2. CASE Initialize
  <2>1. CASE pc' = "threw"
    BY <2>1 DEF Values
  <2>2. CASE pc' # "threw"
    <3>1. /\ pc = "initialize" /\ pc' = "rules" /\ result' = EmptyResult
          /\ UNCHANGED <<definition, cmd, total, log>>
          /\ \A key \in Command.context : total.items[key] # NoValue
          /\ context' = [key \in Keys |->
                IF key \in Command.context THEN total.items[key] ELSE NoValue]
      BY <1>2, <2>2 DEF Initialize, Throw
    <3>2. Command' = Command /\ Command.context \subseteq Keys
      BY <3>1, CommandType DEF Command, IInv, Calling
    <3>3. Earlier' = Len(log) /\ Earlier = Len(log)
      BY <3>1 DEF Earlier
    <3>4. \A key \in Keys : LatestIn(total.items[key], key, 1, Earlier)'
      BY <3>1, <3>3 DEF IInv, Values, LatestIn
    <3>5. \A key \in Keys : LatestIn(result.items[key], key, Earlier + 1, Len(log))'
      BY <1>0, <3>1, <3>3, EmptyResultType DEF LatestIn
    <3> QED
      BY <3>1, <3>2, <3>4, <3>5 DEF Values
  <2> QED
    BY <2>1, <2>2
<1>3. CASE Validate
  <2>1. /\ pc \in {"rules", "items"} /\ UNCHANGED <<definition, cmd, total, context, log>>
        /\ result'.items = result.items /\ Command' = Command
    BY <1>3, ValidateFrame DEF IInv, Command
  <2>2. Earlier = Len(log) /\ Earlier' = Len(log)
    BY <1>0, <1>3, <2>1, ValidateFrame DEF Earlier, IInv
  <2>3. /\ \A key \in Keys : LatestIn(total.items[key], key, 1, Earlier)
        /\ \A key \in Keys : LatestIn(result.items[key], key, Earlier + 1, Len(log))
        /\ \A key \in Command.context :
            total.items[key] # NoValue /\ context[key] = total.items[key]
    BY <2>1 DEF IInv, Values
  <2>4. /\ \A key \in Keys : LatestIn(total.items[key], key, 1, Earlier)'
        /\ \A key \in Keys : LatestIn(result.items[key], key, Earlier + 1, Len(log))'
    BY <2>1, <2>2, <2>3 DEF LatestIn
  <2> QED
    BY <2>1, <2>3, <2>4 DEF Values
<1>4. CASE Execute
  <2>1. PICK returned \in Keys \cup {NoKey} :
          /\ log' = Append(log, [command |-> cmd, handler |-> handler, key |-> returned])
          /\ result' = Merge(result, returned, Len(log) + 1)
    BY <1>4 DEF Execute
  <2> DEFINE call == [command |-> cmd, handler |-> handler, key |-> returned]
  <2>2. /\ pc = "handlers" /\ pc' = pc /\ handler' = handler + 1
        /\ UNCHANGED <<definition, cmd, total, context>> /\ Command' = Command
    BY <1>4 DEF Execute, Command
  <2>3. Len(log') = Len(log) + 1 /\ \A i \in 1..Len(log) : log'[i] = log[i]
    BY <1>0, <2>1
  <2>4. Earlier' = Earlier
    BY <1>0, <2>2, <2>3 DEF Earlier
  <2>5. ASSUME NEW key \in Keys PROVE LatestIn(total.items[key], key, 1, Earlier)'
    <3>1. LatestIn(total.items[key], key, 1, Earlier)
      BY <2>2 DEF IInv, Values
    <3>2. \A i \in 1..Earlier : log'[i] = log[i]
      BY <1>0, <2>3
    <3> QED
      BY <2>2, <2>4, <3>1, <3>2 DEF LatestIn
  <2>6. ASSUME NEW key \in Keys
        PROVE  LatestIn(result.items[key], key, Earlier + 1, Len(log))'
    <3>1. LatestIn(result.items[key], key, Earlier + 1, Len(log))
      BY <2>2 DEF IInv, Values
    <3>2. result'.items[key] = IF call.key = key THEN Len(log) + 1 ELSE result.items[key]
      <4>1. Len(log) + 1 \in Nat /\ call.key = returned
        BY <1>0
      <4>2. \A value \in Nat : Merge(result, returned, value).items[key] =
              IF key = returned THEN value ELSE result.items[key]
        <5>1. result \in ExecutionResults /\ returned \in Keys \cup {NoKey}
          BY <1>0
        <5>2. ASSUME NEW value \in Nat
              PROVE  Merge(result, returned, value).items[key] =
                       IF key = returned THEN value ELSE result.items[key]
          <6>1. \A other \in Keys : Merge(result, returned, value).items[other] =
                  IF other = returned THEN value ELSE result.items[other]
            BY <5>1, MergeType
          <6> QED
            BY <6>1, Zenon
        <5> QED
          BY <5>2
      <4> HIDE DEF call
      <4> QED
        BY <2>1, <4>1, <4>2
    <3>3. PICK n \in Nat : n = Len(log)
      BY <1>0
    <3>4. PICK from \in 1..(n + 1) : from = Earlier + 1
      BY <1>0, <3>3
    <3>5. PICK value \in Nat : value = result.items[key]
      BY <1>0
    <3> HIDE DEF call
    <3>6. /\ call.key = key => LatestIn(n + 1, key, from, n + 1)'
          /\ call.key # key => LatestIn(value, key, from, n + 1)'
      BY <1>0, <2>1, <3>1, <3>3, <3>4, <3>5, LatestAppends DEF call
    <3>7. /\ Earlier' + 1 = from /\ Len(log') = n + 1
          /\ result'.items[key] = IF call.key = key THEN n + 1 ELSE value
      BY <2>3, <2>4, <3>2, <3>3, <3>4, <3>5
    <3>8. CASE call.key = key
      BY <3>6, <3>7, <3>8 DEF LatestIn
    <3>9. CASE call.key # key
      BY <3>6, <3>7, <3>9 DEF LatestIn
    <3> QED
      BY <3>8, <3>9
  <2> QED
    BY <2>2, <2>5, <2>6 DEF IInv, Values
<1>5. CASE ExecuteThrows
  BY <1>5 DEF ExecuteThrows, Throw, Values
<1>6. CASE EndCommand
  <2>1. /\ pc \in {"merge", "handlers"} /\ pc' \in {"select", "done"}
        /\ log' = log /\ Earlier' = Len(log) /\ total' = MergeWith(total, result)
    BY <1>6 DEF EndCommand, Earlier
  <2>2. ASSUME NEW key \in Keys PROVE LatestIn(total.items[key], key, 1, Earlier)'
    <3>1. /\ LatestIn(total.items[key], key, 1, Earlier)
          /\ LatestIn(result.items[key], key, Earlier + 1, Len(log))
      BY <2>1 DEF IInv, Values
    <3>2. LatestIn(IF result.items[key] = NoValue THEN total.items[key] ELSE result.items[key],
                   key, 1, Len(log))
      BY <1>0, <3>1, LatestMerges
    <3>3. total'.items[key] =
            IF result.items[key] = NoValue THEN total.items[key] ELSE result.items[key]
      BY <1>0, <2>1, MergeWithType
    <3> QED
      BY <2>1, <3>2, <3>3 DEF LatestIn
  <2> QED
    BY <2>1, <2>2 DEF Values
<1>7. CASE Finished
  BY <1>7 DEF Finished, vars, IInv, Values, Earlier, Command, LatestIn
<1> QED
  BY <1>1, <1>2, <1>3, <1>4, <1>5, <1>6, <1>7 DEF Next

-----------------------------------------------------------------------------
(* Messages *)

LEMMA AppendInOrder ==
    ASSUME NEW ms \in Seq(ErrorMessages), NEW m \in ErrorMessages, m.command = cmd,
           InOrder(ms), \A i \in DOMAIN ms : Before(ms[i], m)
    PROVE  /\ InOrder(Append(ms, m))
           /\ Len(Append(ms, m)) = Len(ms) + 1
           /\ DOMAIN Append(ms, m) = 1..(Len(ms) + 1)
           /\ Append(ms, m)[Len(ms) + 1] = m
           /\ DOMAIN ms = 1..Len(ms) /\ Len(ms) \in Nat
           /\ \A i \in DOMAIN ms : Append(ms, m)[i] = ms[i]
<1> DEFINE new == Append(ms, m)
<1>1. /\ Len(new) = Len(ms) + 1 /\ DOMAIN new = 1..(Len(ms) + 1) /\ new[Len(ms) + 1] = m
      /\ DOMAIN ms = 1..Len(ms) /\ Len(ms) \in Nat /\ \A i \in DOMAIN ms : new[i] = ms[i]
  OBVIOUS
<1> HIDE DEF new
<1>2. \A i \in DOMAIN new : i \in DOMAIN ms \/ i = Len(ms) + 1
  BY <1>1
<1>3. \A i \in DOMAIN new : new[i].command = cmd
  BY <1>1, <1>2 DEF InOrder
<1>4. ASSUME NEW i \in DOMAIN new, NEW k \in DOMAIN new, i < k PROVE Before(new[i], new[k])
  <2>1. i \in DOMAIN ms
    BY <1>1, <1>4
  <2> QED
    BY <1>1, <1>2, <1>4, <2>1 DEF InOrder
<1>5. InOrder(new)
  BY <1>3, <1>4 DEF InOrder
<1> QED
  BY <1>1, <1>5 DEF new

\* A message about the current rule and element i, when all before it are about
\* earlier ones: it comes last.
LEMMA FailureInOrder ==
    ASSUME TypeOK, NEW i \in Nat, pc \in {"rules", "items"}, InOrder(result.messages),
           result' = AddMessage(result, i), UNCHANGED <<definition, cmd>>,
           \A k \in DOMAIN result.messages :
              /\ ~Stops(result.messages[k])
              /\ Before(result.messages[k], [command |-> cmd, rule |-> rule, index |-> i])
    PROVE  LET ms == result'.messages
           IN  /\ InOrder(result.messages)' /\ ms # <<>> /\ Len(ms) \in DOMAIN ms
               /\ ms[Len(ms)] = [command |-> cmd, rule |-> rule, index |-> i]
               /\ \A k \in DOMAIN ms : k # Len(ms) =>
                    /\ k \in DOMAIN result.messages /\ ms[k] = result.messages[k]
                    /\ ~Stops(ms[k])
<1> DEFINE m == [command |-> cmd, rule |-> rule, index |-> i]
           old == result.messages
<1>1. /\ old \in Seq(ErrorMessages) /\ m \in ErrorMessages /\ result'.messages = Append(old, m)
  <2>1. cmd \in Nat /\ rule \in Nat /\ result \in ExecutionResults
    BY CommandType DEF TypeOK
  <2> QED
    BY <2>1, AddMessageAppends
<1>2. m.command = cmd
  OBVIOUS
<1> HIDE DEF m
<1>3. \A k \in DOMAIN old : Before(old[k], m)
  BY DEF m
<1>4. /\ InOrder(Append(old, m)) /\ Len(Append(old, m)) = Len(old) + 1
      /\ DOMAIN Append(old, m) = 1..(Len(old) + 1) /\ Append(old, m)[Len(old) + 1] = m
      /\ DOMAIN old = 1..Len(old) /\ Len(old) \in Nat
      /\ \A k \in DOMAIN old : Append(old, m)[k] = old[k]
  BY <1>1, <1>2, <1>3, AppendInOrder
<1>5. InOrder(result.messages)'
  BY <1>1, <1>4 DEF InOrder
<1>6. Append(old, m) # <<>>
  BY <1>1
<1>7. ASSUME NEW k \in DOMAIN Append(old, m), k # Len(old) + 1
      PROVE  k \in DOMAIN old /\ Append(old, m)[k] = old[k] /\ ~Stops(old[k])
  <2>1. k \in DOMAIN old
    BY <1>4, <1>7
  <2> QED
    BY <2>1, <1>4
<1> QED
  BY <1>1, <1>4, <1>5, <1>6, <1>7 DEF m

\* The validation of a command: its messages stay in order.
LEMMA ValidateKeepsOrder == ASSUME IInv, Validate, TypeOK' PROVE Messages'
<1> DEFINE ms == result.messages
           here(i) == [command |-> cmd, rule |-> rule, index |-> i]
<1>0. /\ ms \in Seq(ErrorMessages) /\ rule \in Nat /\ idx \in Nat
      /\ result \in ExecutionResults /\ \A k \in DOMAIN ms : ms[k].rule \in Nat /\ ms[k].index \in Nat
  <2>1. ms \in Seq(ErrorMessages) /\ result \in ExecutionResults /\ rule \in Nat /\ idx \in Nat
    BY BoundAssumption DEF IInv, TypeOK, ExecutionResults
  <2>2. \A k \in DOMAIN ms : ms[k] \in ErrorMessages
    BY <2>1
  <2> QED
    BY <2>1, <2>2 DEF ErrorMessages
<1>1. /\ UNCHANGED <<definition, cmd, total>> /\ Command' = Command
      /\ pc \in {"rules", "items"} /\ cmd # 0
      /\ pc' \in {"rules", "items", "handlers", "merge", "threw"}
      /\ Successful(total) /\ Successful(total)' /\ InOrder(ms)
  BY ValidateFrame DEF IInv, Messages, Command, Successful, Calling, UnderWay
<1>2. Command.rules \in Seq(RuleShapes) /\ DOMAIN Command.rules = 1..Len(Command.rules)
      /\ Len(Command.rules) \in Nat
  BY <1>1, CommandType DEF IInv
<1>3. /\ pc = "rules" =>
            /\ rule # 0
            /\ \A k \in DOMAIN ms : ms[k].rule < rule /\ ~Stops(ms[k])
      /\ pc = "items" =>
            /\ rule \in DOMAIN Command.rules
            /\ \A k \in DOMAIN ms : Before(ms[k], here(idx)) /\ ~Stops(ms[k])
  BY DEF IInv, Messages
<1>4. ASSUME result' = result, pc' = "threw" PROVE Messages'
  BY <1>1, <1>4 DEF Messages
<1>5. ASSUME result' = result, pc' = "rules", rule' = rule + 1 PROVE Messages'
  <2>1. \A k \in DOMAIN ms : ms[k].rule < rule + 1 /\ ~Stops(ms[k])
    BY <1>0, <1>1, <1>3 DEF Before
  <2>2. InOrder(result.messages)'
    BY <1>1, <1>5 DEF InOrder
  <2> QED
    BY <1>0, <1>1, <1>5, <2>1, <2>2 DEF Messages, Stops
<1>6. ASSUME NEW i \in Nat, result' = AddMessage(result, i),
             \A k \in DOMAIN ms : Before(ms[k], here(i)),
             \/ Rule.stop /\ pc' = "merge"
             \/ ~Rule.stop /\ pc' = "rules" /\ rule' = rule + 1
             \/ ~Rule.stop /\ pc' = "items" /\ rule' = rule /\ idx' = i + 1
                /\ rule \in DOMAIN Command.rules
      PROVE  Messages'
  <2> DEFINE new == result'.messages
  <2>1. \A k \in DOMAIN ms : ~Stops(ms[k])
    BY <1>1, <1>3
  <2>2. /\ InOrder(result.messages)' /\ new # <<>>
        /\ new[Len(new)] = here(i)
        /\ \A k \in DOMAIN new : k # Len(new) =>
              k \in DOMAIN ms /\ new[k] = ms[k] /\ ~Stops(new[k])
    BY <1>1, <1>6, <2>1, FailureInOrder DEF IInv
  <2>3. here(i).rule = rule /\ here(i).index = i /\ Stops(here(i)) = Rule.stop
    BY DEF Stops, Rule
  <2> HIDE DEF new, here
  <2>4. CASE Rule.stop /\ pc' = "merge"
    BY <1>1, <2>2, <2>4 DEF Messages, Stops, Successful, new
  <2>5. CASE ~Rule.stop /\ pc' = "rules" /\ rule' = rule + 1
    <3>1. ASSUME NEW k \in DOMAIN new PROVE new[k].rule < rule + 1 /\ ~Stops(new[k])
      <4>1. CASE k = Len(new)
        BY <1>0, <2>2, <2>3, <2>5, <4>1
      <4>2. CASE k # Len(new)
        <5>1. new[k] = ms[k] /\ k \in DOMAIN ms /\ ~Stops(new[k])
          BY <2>2, <4>2
        <5>2. ms[k].rule \in Nat /\ Before(ms[k], here(i))
          BY <1>0, <1>6, <5>1
        <5> QED
          BY <1>0, <2>3, <5>1, <5>2 DEF Before
      <4> QED
        BY <4>1, <4>2
    <3> QED
      BY <1>0, <1>1, <2>2, <2>5, <3>1 DEF Messages, Stops, new
  <2>6. CASE /\ ~Rule.stop /\ pc' = "items" /\ rule' = rule /\ idx' = i + 1
             /\ rule \in DOMAIN Command.rules
    <3> DEFINE next == [command |-> cmd, rule |-> rule, index |-> i + 1]
    <3>1. ASSUME NEW k \in DOMAIN new PROVE Before(new[k], next) /\ ~Stops(new[k])
      <4>1. CASE k = Len(new)
        BY <1>0, <2>2, <2>3, <2>6, <4>1 DEF Before
      <4>2. CASE k # Len(new)
        <5>1. new[k] = ms[k] /\ k \in DOMAIN ms /\ ~Stops(new[k])
          BY <2>2, <4>2
        <5>2. ms[k].rule \in Nat /\ ms[k].index \in Nat /\ Before(ms[k], here(i))
          BY <1>0, <1>6, <5>1
        <5> QED
          BY <1>0, <2>3, <5>1, <5>2 DEF Before
      <4> QED
        BY <4>1, <4>2
    <3>2. [command |-> cmd, rule |-> rule, index |-> idx]' = next
      BY <1>1, <2>6
    <3> HIDE DEF next
    <3> QED
      BY <1>1, <2>2, <2>6, <3>1, <3>2 DEF Messages, Stops, new
  <2> QED
    BY <1>6, <2>4, <2>5, <2>6
<1>7. CASE SkipRule \/ ScalarPasses
  BY <1>5, <1>7 DEF SkipRule, ScalarPasses, NextRule
<1>8. CASE RuleThrows
  BY <1>4, <1>8 DEF RuleThrows, Throw
<1>9. CASE ScalarFails
  <2>1. /\ pc = "rules" /\ result' = AddMessage(result, 0)
        /\ \/ Rule.stop /\ EndValidation(AddMessage(result, 0))
           \/ ~Rule.stop /\ NextRule
    BY <1>9 DEF ScalarFails, EndValidation
  <2>2. \A k \in DOMAIN ms : Before(ms[k], here(0))
    BY <1>3, <2>1 DEF Before
  <2>3. AddMessage(result, 0).messages # <<>>
    BY <1>1, <2>1, <2>2, <1>3, FailureInOrder DEF IInv
  <2>4. Rule.stop => pc' = "merge"
    BY <2>1, <2>3 DEF EndValidation, Successful, NextRule
  <2> QED
    BY <1>6, <2>1, <2>2, <2>4 DEF NextRule
<1>10. CASE StartItems
  <2>1. /\ pc = "rules" /\ pc' = "items" /\ idx' = 0 /\ rule <= Len(Command.rules)
        /\ UNCHANGED <<rule, result>>
    BY <1>10 DEF StartItems
  <2>2. \A k \in DOMAIN ms : Before(ms[k], here(0)) /\ ~Stops(ms[k])
    BY <1>3, <2>1 DEF Before
  <2>3. rule \in DOMAIN Command.rules
    BY <1>0, <1>2, <1>3, <2>1
  <2>4. InOrder(result.messages)' /\ [command |-> cmd, rule |-> rule, index |-> idx]' = here(0)
    BY <1>1, <2>1 DEF InOrder
  <2> HIDE DEF here
  <2> QED
    BY <1>1, <2>1, <2>2, <2>3, <2>4 DEF Messages, Stops
<1>11. CASE SkipNullItem \/ ItemPasses
  <2>1. /\ pc = "items" /\ pc' = "items" /\ idx' \in {idx, idx + 1} /\ UNCHANGED <<rule, result>>
    BY <1>11 DEF SkipNullItem, ItemPasses, ItemVars
  <2>2. \A k \in DOMAIN ms : Before(ms[k], here(idx)') /\ ~Stops(ms[k])
    BY <1>0, <1>1, <1>3, <2>1 DEF Before
  <2>3. InOrder(result.messages)'
    BY <1>1, <2>1 DEF InOrder
  <2> QED
    BY <1>1, <1>3, <2>1, <2>2, <2>3 DEF Messages, Stops
<1>12. CASE ItemFails
  <2>1. /\ pc = "items" /\ result' = AddMessage(result, idx)
        /\ \/ Rule.stop /\ EndValidation(AddMessage(result, idx))
           \/ ~Rule.stop /\ idx' = idx + 1 /\ UNCHANGED ItemVars
    BY <1>12 DEF ItemFails, EndValidation
  <2>2. \A k \in DOMAIN ms : Before(ms[k], here(idx))
    BY <1>3, <2>1
  <2>3. AddMessage(result, idx).messages # <<>>
    BY <1>0, <1>1, <1>3, <2>1, <2>2, FailureInOrder DEF IInv
  <2>4. Rule.stop => pc' = "merge"
    BY <2>1, <2>3 DEF EndValidation, Successful, ItemVars
  <2> QED
    BY <1>0, <1>3, <1>6, <2>1, <2>2, <2>4 DEF ItemVars
<1>13. CASE EndItems
  BY <1>5, <1>13 DEF EndItems, NextRule
<1>14. CASE EndRules
  <2>1. /\ pc = "rules" /\ result' = result
        /\ IF Successful(result) THEN pc' = "handlers" ELSE pc' = "merge"
    BY <1>14 DEF EndRules, EndValidation
  <2>2. InOrder(result.messages)' /\ \A k \in DOMAIN ms : ~Stops(ms[k])
    BY <1>1, <1>3, <2>1 DEF InOrder
  <2> QED
    BY <1>1, <2>1, <2>2 DEF Messages, Stops, Successful
<1> QED
  BY <1>7, <1>8, <1>9, <1>10, <1>11, <1>12, <1>13, <1>14 DEF Validate

LEMMA MessagesKeep == ASSUME IInv, Next, TypeOK' PROVE Messages'
<1>0. /\ total \in ExecutionResults /\ result \in ExecutionResults
      /\ total.messages \in Seq(ErrorMessages) /\ result.messages \in Seq(ErrorMessages)
  BY DEF IInv, TypeOK, ExecutionResults
<1>1. pc # "done" => Successful(total)
  BY DEF IInv, Messages
<1>2. CASE Select
  BY <1>1, <1>2 DEF Select, Messages, Successful
<1>3. CASE Finish
  BY <1>1, <1>3 DEF Finish, Messages, MessagesInOrder, Successful
<1>4. CASE Initialize
  BY <1>1, <1>4, EmptyResultType DEF Initialize, Throw, Messages, Successful, InOrder, EmptyResult
<1>5. CASE Validate
  BY <1>5, ValidateKeepsOrder
<1>6. CASE Execute
  <2>1. PICK key \in Keys \cup {NoKey} : result' = Merge(result, key, Len(log) + 1)
    BY <1>6 DEF Execute
  <2>2. result'.messages = result.messages
    BY <2>1 DEF Merge
  <2> QED
    BY <1>1, <1>6, <2>2 DEF Execute, IInv, Messages, Successful
<1>7. CASE ExecuteThrows
  BY <1>1, <1>7 DEF ExecuteThrows, Throw, Messages, Successful
<1>8. CASE EndCommand
  <2>1. /\ total' = MergeWith(total, result) /\ UNCHANGED <<definition, cmd, result>>
        /\ pc \in {"merge", "handlers"}
        /\ pc' = IF Successful(total') THEN "select" ELSE "done"
    BY <1>8 DEF EndCommand
  <2>2. total'.messages = result.messages
    <3>1. total'.messages = total.messages \o result.messages
      BY <1>0, <2>1, MergeWithType
    <3>2. total.messages = <<>>
      BY <1>1, <2>1 DEF Successful
    <3> QED
      BY <1>0, <3>1, <3>2
  <2>3. ASSUME ~Successful(total')
        PROVE  pc = "merge" /\ InOrder(result.messages)
               /\ \A i \in DOMAIN result.messages :
                    Stops(result.messages[i]) => i = Len(result.messages)
    BY <2>1, <2>2, <2>3 DEF IInv, Messages, Successful
  <2>4. CASE Successful(total')
    BY <2>1, <2>4 DEF Messages, Successful
  <2>5. CASE ~Successful(total')
    <3>1. MessagesInOrder'
      BY <2>1, <2>2, <2>3, <2>5 DEF MessagesInOrder, InOrder, Stops, Command
    <3> QED
      BY <2>1, <2>5, <3>1 DEF Messages
  <2> QED
    BY <2>4, <2>5
<1>9. CASE Finished
  BY <1>9 DEF Finished, vars, checkVars, IInv, Messages, MessagesInOrder, InOrder, Stops, Command,
              Successful
<1> QED
  BY <1>2, <1>3, <1>4, <1>5, <1>6, <1>7, <1>8, <1>9 DEF Next

-----------------------------------------------------------------------------
(* The unit of work, and the invariant *)

LEMMA InvalidatedKeeps == ASSUME IInv, Next PROVE InvalidatedIffRejected'
<1>1. /\ pc # "done" => Successful(total) /\ invalidated = 0
      /\ invalidated = IF pc = "done" /\ ~Successful(total) THEN 1 ELSE 0
  BY DEF IInv, Messages, InvalidatedIffRejected
<1>2. CASE Select \/ Finish \/ Initialize \/ Execute \/ ExecuteThrows
  BY <1>1, <1>2 DEF Select, Finish, Initialize, Execute, ExecuteThrows, Throw,
                    InvalidatedIffRejected, Successful
<1>3. CASE Validate
  BY <1>1, <1>3, ValidateFrame DEF IInv, InvalidatedIffRejected
<1>4. CASE EndCommand
  BY <1>1, <1>4 DEF EndCommand, InvalidatedIffRejected, Successful
<1>5. CASE Finished
  BY <1>1, <1>5 DEF Finished, vars, InvalidatedIffRejected, Successful
<1> QED
  BY <1>2, <1>3, <1>4, <1>5 DEF Next

LEMMA InitHolds == Init => IInv
<1> SUFFICES ASSUME Init PROVE IInv
  OBVIOUS
<1>1. log = <<>> /\ Len(log) = 0 /\ log \in Seq(Calls)
  BY DEF Init
<1>2. definition \in Seq(CommandShapes) /\ Len(definition) \in Nat
  BY DefinitionAssumption DEF Init
<1>3. TypeOK
  <2>1. /\ definition \in Definitions /\ pc \in PCs /\ cmd = 0
        /\ rule = 1 /\ pos = 0 /\ idx = 0 /\ handler = 1 /\ invalidated = 0
        /\ total = EmptyResult /\ result = EmptyResult /\ context \in [Keys -> Nat]
    BY DEF Init, PCs, NoValue
  <2> QED
    BY <1>1, <1>2, <2>1, EmptyResultType, BoundAssumption DEF TypeOK
<1>4. pc = "select" /\ total = EmptyResult /\ result = EmptyResult /\ cmd = 0 /\ invalidated = 0
  BY DEF Init
<1>5. Earlier = 0
  BY <1>1, <1>4 DEF Earlier
<1>6. Calling
  BY <1>1, <1>4, <1>5 DEF Calling, UnderWay
<1>7. Values
  BY <1>4, <1>5, EmptyResultType DEF Values, Validated, LatestIn
<1>8. Messages /\ InvalidatedIffRejected
  BY <1>4, EmptyResultType DEF Messages, InvalidatedIffRejected
<1> QED
  BY <1>3, <1>6, <1>7, <1>8 DEF IInv

LEMMA NextKeeps == IInv /\ [Next]_vars => IInv'
<1>1. ASSUME IInv, Next PROVE IInv'
  <2>1. TypeOK'
    BY <1>1, TypeKeeps DEF IInv, InvalidatedIffRejected
  <2> QED
    BY <1>1, <2>1, CallingKeeps, ValuesKeep, MessagesKeep, InvalidatedKeeps DEF IInv
<1>2. ASSUME IInv, UNCHANGED vars PROVE IInv'
  BY <1>2 DEF vars, checkVars, IInv, TypeOK, Calling, Earlier, Values, LatestIn, Messages,
              MessagesInOrder, InOrder, Stops, Command, Successful, InvalidatedIffRejected
<1> QED
  BY <1>1, <1>2

LEMMA Invariance == Spec => []IInv
BY InitHolds, NextKeeps, PTL DEF Spec

-----------------------------------------------------------------------------
(* What the invariant says of the pipeline *)

\* The pipeline's variables keep their types: the index of an element stays
\* within its array, the unit of work is invalidated at most once.
THEOREM TypeCorrect == Spec => []TypeOK
<1>1. IInv => TypeOK
  BY DEF IInv
<1> QED
  BY <1>1, Invariance, PTL

\* MessageProcessor.Process: the unit of work is invalidated exactly when
\* Process returns a result with messages, and once; not when it throws.
THEOREM RejectionInvalidates == Spec => []InvalidatedIffRejected
<1>1. IInv => InvalidatedIffRejected
  BY DEF IInv
<1> QED
  BY <1>1, Invariance, PTL

\* CommandDefinition.Initialize and ExecutionResult.MergeWith: a command runs
\* with the latest value of each of its context members.
THEOREM ContextsAreLatest == Spec => []ContextIsLatest
<1>1. IInv => ContextIsLatest
  <2> SUFFICES ASSUME IInv, pc \in Validated, NEW key \in Command.context
               PROVE  IsLatest(context[key], key, cmd)
    BY DEF ContextIsLatest, Validated
  <2>1. /\ log \in Seq(Calls) /\ DOMAIN log = 1..Len(log) /\ Len(log) \in Nat
        /\ cmd \in Nat /\ key \in Keys /\ Earlier \in 0..Len(log)
    BY CommandType DEF IInv, TypeOK, Calling, UnderWay, Validated
  <2>2. context[key] # NoValue /\ LatestIn(context[key], key, 1, Earlier)
    BY <2>1 DEF IInv, Values, Validated
  <2>3. /\ \A i \in 1..Earlier : log[i].command < cmd
        /\ \A i \in (Earlier + 1)..Len(log) : log[i].command = cmd
    BY <2>1 DEF IInv, Calling, Earlier, UnderWay, Validated
  <2>4. ASSUME NEW i \in DOMAIN log, log[i].command < cmd PROVE i \in 1..Earlier
    BY <2>1, <2>3, <2>4
  <2>5. context[key] \in DOMAIN log
    BY <2>1, <2>2 DEF LatestIn
  <2> QED
    BY <2>2, <2>3, <2>4, <2>5 DEF LatestIn, IsLatest
<1> QED
  BY <1>1, Invariance, PTL

\* ValidationEngine.ValidateCommand: the messages of a result are about one
\* command, in the order of its rules and of their elements, none twice, and
\* the one of a stopping rule is the last.
THEOREM MessagesAreOrdered == Spec => []MessagesInOrder
<1>1. IInv => MessagesInOrder
  <2> SUFFICES ASSUME IInv, Successful(total) PROVE MessagesInOrder
    BY DEF IInv, Messages
  <2> QED
    BY DEF Successful, MessagesInOrder
<1> QED
  BY <1>1, Invariance, PTL

-----------------------------------------------------------------------------
(* The steps of the pipeline as steps of MessageProcessing *)

LEMMA InitImplements == Init => Abstract!Init
<1> SUFFICES ASSUME Init PROVE Abstract!Init
  OBVIOUS
<1>1. log = <<>> /\ definition \in Definitions
  BY DEF Init
<1>2. Merged = <<>>
  BY <1>1 DEF Merged
<1>3. Considered = 0 /\ Outcome = "running" /\ ~(invalidated > 0)
  BY DEF Init, Considered, Outcome
<1> QED
  BY <1>1, <1>2, <1>3 DEF Abstract!Init

\* A step that leaves the log leaves the merged calls.
LEMMA SameCalls ==
    ASSUME UNCHANGED <<log, cmd>>, pc \notin {"select", "done"}, pc' \notin {"select", "done"}
    PROVE  Merged' = Merged
BY DEF Merged

\* A sequence that begins with s and goes on with t is the two together.
LEMMA ConcatIs ==
    ASSUME NEW S, NEW s \in Seq(S), NEW t \in Seq(S), NEW u \in Seq(S),
           Len(u) = Len(s) + Len(t), \A i \in 1..Len(s) : u[i] = s[i],
           \A i \in 1..Len(t) : u[Len(s) + i] = t[i]
    PROVE  s \o t = u
<1>1. s \o t \in Seq(S) /\ Len(s \o t) = Len(u)
  OBVIOUS
<1>2. ASSUME NEW i \in 1..Len(u) PROVE (s \o t)[i] = u[i]
  <2>1. CASE i \in 1..Len(s)
    BY <2>1
  <2>2. CASE i \notin 1..Len(s)
    <3>1. i - Len(s) \in 1..Len(t) /\ i = Len(s) + (i - Len(s))
      BY <2>2
    <3>2. (s \o t)[i] = t[i - Len(s)]
      BY <2>2
    <3> QED
      BY <3>1, <3>2
  <2> QED
    BY <2>1, <2>2
<1> QED
  BY <1>1, <1>2, SeqEqual

\* GetApplicableCommands: a command is skipped, taken, or its condition throws.
LEMMA SelectImplements ==
    ASSUME IInv, Select PROVE Abstract!Next \/ UNCHANGED Abstract!vars
<1>1. /\ pc = "select" /\ cmd < Len(definition) /\ cmd' = cmd + 1 /\ cmd \in Nat
      /\ UNCHANGED <<definition, total, invalidated, log>>
  BY CommandType DEF Select, IInv, TypeOK
<1>2. \A i \in DOMAIN log : log[i].command < cmd + 1
  <2>1. Earlier = Len(log) /\ log \in Seq(Calls) /\ DOMAIN log = 1..Len(log)
    BY <1>1 DEF Earlier, IInv, TypeOK
  <2>2. ASSUME NEW i \in DOMAIN log PROVE log[i].command \in Nat /\ log[i].command <= cmd
    <3>1. log[i] \in Calls
      BY <2>1
    <3> QED
      BY <1>1, <2>1, <3>1 DEF Calls, IInv, Calling
  <2> QED
    BY <1>1, <2>2
<1>3. Merged' = Merged
  BY <1>1, <1>2 DEF Merged
<1>4. Considered = cmd /\ Outcome = "running"
  BY <1>1 DEF Considered, Outcome
<1>5. CASE pc' = "initialize"
  <2>1. Considered' = cmd /\ Outcome' = "running"
    BY <1>1, <1>5 DEF Considered, Outcome
  <2> QED
    BY <1>1, <1>3, <1>4, <2>1 DEF Abstract!vars
<1>6. CASE pc' = "select" /\ definition[cmd + 1].conditional
  <2>1. Considered' = cmd + 1 /\ Outcome' = "running"
    BY <1>1, <1>6 DEF Considered, Outcome
  <2>2. Abstract!Skip
    BY <1>1, <1>3, <1>4, <1>6, <2>1 DEF Abstract!Skip
  <2> QED
    BY <2>2 DEF Abstract!Next
<1>7. CASE pc' = "threw"
  <2>1. Considered' = cmd /\ Outcome' = "failed"
    BY <1>1, <1>7 DEF Considered, Outcome
  <2>2. Abstract!Fail
    BY <1>1, <1>3, <1>4, <2>1 DEF Abstract!Fail
  <2> QED
    BY <2>2 DEF Abstract!Next
<1> QED
  BY <1>5, <1>6, <1>7 DEF Select

\* An exception while a command is under way, which leaves the merged calls.
LEMMA ThrowImplements ==
    ASSUME IInv, pc \in UnderWay, pc' = "threw", Merged' = Merged,
           UNCHANGED <<definition, cmd, invalidated>>
    PROVE  Abstract!Next
<1>1. cmd \in 1..Len(definition) /\ Len(definition) \in Nat
  BY CommandType DEF IInv, TypeOK, Calling
<1>2. /\ Considered = cmd - 1 /\ Considered' = cmd - 1
      /\ Outcome = "running" /\ Outcome' = "failed"
  BY <1>1 DEF Considered, Outcome, UnderWay
<1>3. Abstract!Fail
  BY <1>1, <1>2 DEF Abstract!Fail
<1> QED
  BY <1>3 DEF Abstract!Next

\* A step within a command: nothing that MessageProcessing sees.
LEMMA WithinImplements ==
    ASSUME IInv, pc \in UnderWay, pc' \in UnderWay, Merged' = Merged,
           UNCHANGED <<definition, cmd, invalidated>>
    PROVE  UNCHANGED Abstract!vars
BY DEF Abstract!vars, Considered, Outcome, UnderWay

\* The calls logged while the handlers of a command run are not merged.
LEMMA CallUnmerged ==
    ASSUME IInv, pc = "handlers", pc' \in {"handlers", "threw"}, cmd' = cmd,
           NEW call \in Calls, call.command = cmd, log' = Append(log, call)
    PROVE  Merged' = Merged
<1>1. /\ DOMAIN log = 1..Len(log) /\ Len(log) \in Nat /\ DOMAIN log' = 1..(Len(log) + 1)
      /\ \A i \in DOMAIN log : log'[i] = log[i]
      /\ log'[Len(log) + 1] = call
  BY DEF IInv, TypeOK
<1>2. cmd \in Nat /\ ~(call.command < cmd)
  BY CommandType DEF IInv, TypeOK
<1>3. {i \in DOMAIN log' : log'[i].command < cmd} = {i \in DOMAIN log : log[i].command < cmd}
  BY <1>1, <1>2
<1> QED
  BY <1>1, <1>3 DEF Merged

\* When the handlers have run, their calls are what the command adds.
LEMMA RunImplements ==
    ASSUME IInv, EndCommand, Successful(total') PROVE Abstract!Run
<1>1. /\ pc' = "select" /\ UNCHANGED <<definition, cmd, log, invalidated>>
      /\ total' = MergeWith(total, result)
  BY DEF EndCommand
<1>2. pc = "handlers" /\ handler > Command.handlers
  <2>1. total'.messages = total.messages \o result.messages
    BY <1>1, MergeWithType DEF IInv, TypeOK
  <2>2. result.messages \in Seq(ErrorMessages) /\ total.messages \in Seq(ErrorMessages)
    BY DEF IInv, TypeOK, ExecutionResults
  <2>3. result.messages = <<>>
    BY <2>1, <2>2, ConcatSimplifications DEF Successful
  <2> QED
    BY <2>3 DEF EndCommand, IInv, Messages, Successful
<1>3. /\ cmd \in 1..Len(definition) /\ Len(definition) \in Nat
      /\ log \in Seq(Calls) /\ Len(log) \in Nat /\ DOMAIN log = 1..Len(log)
      /\ handler \in Nat /\ Command.handlers \in Nat
  BY <1>2, CommandType DEF IInv, TypeOK, Calling, UnderWay
<1>4. /\ Earlier \in Nat /\ Len(log) = Earlier + Command.handlers
      /\ \A i \in 1..Earlier : log[i].command < cmd
      /\ \A i \in (Earlier + 1)..Len(log) : log[i].command = cmd /\ log[i].handler = i - Earlier
  BY <1>2, <1>3 DEF IInv, Calling, Earlier, UnderWay
<1>5. ASSUME NEW i \in 1..Len(log) PROVE <<log[i].command, log[i].handler>> \in Nat \X Nat
  <2>1. log[i] \in Calls
    BY <1>3
  <2> QED
    BY <2>1 DEF Calls
<1> DEFINE pairOf(i) == <<log[i].command, log[i].handler>>
           before == [i \in 1..Earlier |-> pairOf(i)]
           after == [i \in 1..Len(log) |-> pairOf(i)]
           calls == [h \in 1..Command.handlers |-> <<cmd, h>>]
<1>6. Merged = before /\ Merged' = after
  <2>1. {i \in DOMAIN log : log[i].command < cmd} = 1..Earlier
    <3>1. ASSUME NEW i \in DOMAIN log, log[i].command < cmd PROVE i \in 1..Earlier
      BY <1>3, <1>4, <3>1
    <3> QED
      BY <1>3, <1>4, <3>1
  <2> QED
    BY <1>1, <1>2, <1>3, <2>1 DEF Merged
<1>7. /\ before \in Seq(Nat \X Nat) /\ Len(before) = Earlier
      /\ after \in Seq(Nat \X Nat) /\ Len(after) = Len(log)
      /\ calls \in Seq(Nat \X Nat) /\ Len(calls) = Command.handlers
  <2>1. before \in Seq(Nat \X Nat) /\ Len(before) = Earlier
    <3>1. \A i \in 1..Earlier : pairOf(i) \in Nat \X Nat
      BY <1>3, <1>4, <1>5
    <3> QED
      BY <1>4, <3>1
  <2>2. after \in Seq(Nat \X Nat) /\ Len(after) = Len(log)
    BY <1>3, <1>5
  <2>3. calls \in Seq(Nat \X Nat) /\ Len(calls) = Command.handlers
    <3>1. \A h \in 1..Command.handlers : <<cmd, h>> \in Nat \X Nat
      BY <1>3
    <3> QED
      BY <1>3, <3>1
  <2> QED
    BY <2>1, <2>2, <2>3
<1>8. before \o calls = after
  <2>1. \A i \in 1..Earlier : after[i] = before[i]
    BY <1>3, <1>4
  <2>2. ASSUME NEW i \in 1..Command.handlers PROVE after[Earlier + i] = calls[i]
    <3>1. Earlier + i \in (Earlier + 1)..Len(log) /\ Earlier + i \in 1..Len(log)
      BY <1>3, <1>4
    <3>2. log[Earlier + i].command = cmd /\ log[Earlier + i].handler = i
      BY <1>3, <1>4, <3>1
    <3> QED
      BY <3>1, <3>2
  <2> HIDE DEF before, after, calls
  <2> QED
    <3>1. /\ Len(after) = Len(before) + Len(calls)
          /\ \A i \in 1..Len(before) : after[i] = before[i]
          /\ \A i \in 1..Len(calls) : after[Len(before) + i] = calls[i]
      BY <1>4, <1>7, <2>1, <2>2
    <3> QED
      BY <1>7, <3>1, ConcatIs, Zenon
<1> HIDE DEF before, after, calls
<1>9. /\ Considered = cmd - 1 /\ Considered' = cmd
      /\ Outcome = "running" /\ Outcome' = "running"
  BY <1>1, <1>2, <1>3 DEF Considered, Outcome
<1>10. Abstract!HandlersOf(cmd) = calls
  BY DEF Abstract!HandlersOf, Command, calls
<1> QED
  BY <1>1, <1>3, <1>6, <1>8, <1>9, <1>10 DEF Abstract!Run

\* The first command with messages is rejected.
LEMMA RejectImplements ==
    ASSUME IInv, EndCommand, ~Successful(total') PROVE Abstract!Reject
<1>1. /\ pc' = "done" /\ UNCHANGED <<definition, cmd, log>> /\ invalidated' = invalidated + 1
      /\ total' = MergeWith(total, result)
  BY DEF EndCommand
<1>2. pc = "merge"
  <2>1. total'.messages = total.messages \o result.messages
    BY <1>1, MergeWithType DEF IInv, TypeOK
  <2>2. CASE Successful(total) /\ Successful(result)
    BY <2>1, <2>2 DEF Successful
  <2> QED
    BY <2>2 DEF EndCommand, IInv, Messages
<1>3. /\ cmd \in 1..Len(definition) /\ Len(definition) \in Nat
      /\ invalidated = 0 /\ DOMAIN log = 1..Len(log)
  BY <1>2, CommandType DEF IInv, TypeOK, Calling, UnderWay, InvalidatedIffRejected
<1>4. \A i \in DOMAIN log : log[i].command < cmd
  BY <1>2, <1>3 DEF IInv, Calling, Earlier, UnderWay
<1>5. Merged' = Merged
  BY <1>1, <1>2, <1>4 DEF Merged
<1>6. /\ Considered = cmd - 1 /\ Considered' = cmd - 1
      /\ Outcome = "running" /\ Outcome' = "rejected"
  BY <1>1, <1>2, <1>3 DEF Considered, Outcome
<1> QED
  BY <1>1, <1>3, <1>5, <1>6 DEF Abstract!Reject

LEMMA NextImplements == IInv /\ [Next]_vars => [Abstract!Next]_(Abstract!vars)
<1> SUFFICES ASSUME IInv, [Next]_vars PROVE Abstract!Next \/ UNCHANGED Abstract!vars
  OBVIOUS
<1>1. CASE Select
  BY <1>1, SelectImplements
<1>2. CASE Finish
  <2>1. /\ pc = "select" /\ pc' = "done" /\ cmd = Len(definition)
        /\ UNCHANGED <<definition, cmd, total, invalidated, log>> /\ Successful(total)
    BY <1>2 DEF Finish, IInv, Messages
  <2>2. /\ Considered = cmd /\ Considered' = cmd /\ Merged' = Merged
        /\ Outcome = "running" /\ Outcome' = "accepted"
    BY <2>1 DEF Considered, Outcome, Merged, Successful
  <2>3. Abstract!Accept
    BY <2>1, <2>2 DEF Abstract!Accept
  <2> QED
    BY <2>3 DEF Abstract!Next
<1>3. CASE Initialize
  <2>1. /\ pc = "initialize" /\ pc' \in {"rules", "threw"}
        /\ UNCHANGED <<definition, cmd, invalidated, log>>
    BY <1>3 DEF Initialize, Throw
  <2> QED
    BY <2>1, SameCalls, WithinImplements, ThrowImplements DEF UnderWay
<1>4. CASE Validate
  <2>1. /\ pc \in {"rules", "items"} /\ pc' \in {"rules", "items", "handlers", "merge", "threw"}
        /\ UNCHANGED <<definition, cmd, invalidated, log>>
    BY <1>4, ValidateFrame DEF IInv
  <2> QED
    BY <2>1, SameCalls, WithinImplements, ThrowImplements DEF UnderWay
<1>5. CASE Execute \/ ExecuteThrows
  <2>1. /\ pc = "handlers" /\ pc' \in {"handlers", "threw"}
        /\ UNCHANGED <<definition, cmd, invalidated>>
    BY <1>5 DEF Execute, ExecuteThrows, Throw
  <2>2. PICK key \in Keys \cup {NoKey} :
          log' = Append(log, [command |-> cmd, handler |-> handler, key |-> key])
    BY <1>5 DEF Execute, ExecuteThrows
  <2> DEFINE call == [command |-> cmd, handler |-> handler, key |-> key]
  <2>3. call \in Calls /\ call.command = cmd
    BY CommandType DEF IInv, TypeOK, Calls
  <2> HIDE DEF call
  <2>4. Merged' = Merged
    BY <2>1, <2>2, <2>3, CallUnmerged DEF call
  <2> QED
    BY <2>1, <2>4, WithinImplements, ThrowImplements DEF UnderWay
<1>6. CASE EndCommand
  BY <1>6, RunImplements, RejectImplements DEF Abstract!Next
<1>7. CASE UNCHANGED vars
  BY <1>7 DEF vars, Abstract!vars, Considered, Outcome, Merged, Successful
<1> QED
  BY <1>1, <1>2, <1>3, <1>4, <1>5, <1>6, <1>7 DEF Next, Finished

\* MessageProcessor.Process with all it calls: whatever the application's code
\* answers, every command is skipped, run in full, rejected or failed, in order,
\* and no handler runs after a rejection.
THEOREM ImplementsSafety == Spec => Abstract!Safety
BY InitImplements, Invariance, NextImplements, PTL DEF Spec, Abstract!Safety


-----------------------------------------------------------------------------
(* The configuration, for any number of statements.                         *)

Instances ==
    [type: RuleTypes, toCheck: Members \cup {Itself, None}, toCompare: Members \cup {None},
     uiAttribute: Fields \cup {None}, arrayRule: BOOLEAN, shouldApply: BOOLEAN]

\* What follows Rule acts on the rule that Rule appended.
LEMMA LastIsAppended ==
    ASSUME NEW rules \in Seq(Instances), NEW r \in Instances, NEW to \in Instances
    PROVE  /\ Last(Append(rules, r)) = r
           /\ WithLast(Append(rules, r), to) = Append(rules, to)
<1>1. /\ Append(rules, r) \in Seq(Instances) /\ Append(rules, to) \in Seq(Instances)
      /\ Len(Append(rules, r)) = Len(rules) + 1 /\ Len(Append(rules, to)) = Len(rules) + 1
  BY AppendProperties
<1>2. /\ Append(rules, r)[Len(rules) + 1] = r /\ Append(rules, to)[Len(rules) + 1] = to
      /\ \A i \in 1..Len(rules) : Append(rules, r)[i] = rules[i] /\ Append(rules, to)[i] = rules[i]
  BY AppendProperties
<1>3. Last(Append(rules, r)) = r
  BY <1>1, <1>2 DEF Last
<1>4. WithLast(Append(rules, r), to) = Append(rules, to)
  <2> DEFINE n == Len(rules) + 1
             q == Append(rules, r)
             w == [q EXCEPT ![n] = to]
  <2>1. WithLast(Append(rules, r), to) = w
    BY <1>1 DEF WithLast
  <2>2. Len(rules) \in Nat
    BY LenProperties
  <2>3. /\ q \in Seq(Instances) /\ Len(q) = n /\ n \in 1..n
        /\ \A i \in 1..n : i = n \/ i \in 1..Len(rules)
    BY <1>1, <2>2
  <2>4. \A i \in 1..Len(rules) : Append(rules, to)[i] = q[i]
    BY <1>2
  <2>5. Len(Append(rules, to)) = n /\ Append(rules, to)[n] = to
    BY <1>1, <1>2
  <2> HIDE DEF n, q
  <2>6. /\ w \in Seq(Instances) /\ Len(w) = n
        /\ \A i \in 1..n : w[i] = IF i = n THEN to ELSE q[i]
    BY <2>3, ExceptSeq
  <2> HIDE DEF w
  <2>7. \A i \in 1..n : w[i] = Append(rules, to)[i]
    BY <2>3, <2>4, <2>5, <2>6
  <2> QED
    BY <2>1, <2>5, <2>6, <2>7, <1>1, SeqEqual
<1> QED
  BY <1>3, <1>4

\* The field of a member's name, where the message has one.
LEMMA FillUIExpressionIs ==
    ASSUME NEW r \in Instances, NEW m \in Members \cup {Itself, None}
    PROVE  /\ FillUIExpression(r, m) \in Instances
           /\ \E field \in Fields \cup {None} :
                FillUIExpression(r, m) = [r EXCEPT !.uiAttribute = field]
           /\ r.uiAttribute = None /\ m \in Members =>
                FillUIExpression(r, m) = [r EXCEPT !.uiAttribute = SameName[m]]
           /\ m \notin Members => FillUIExpression(r, m) = r
<1>1. m \in Members => SameName[m] \in Fields \cup {None}
  BY ConfigurationAssumption
<1>2. CASE m \in Members /\ SameName[m] # None
  BY <1>1, <1>2 DEF FillUIExpression, Instances
<1>3. CASE ~(m \in Members /\ SameName[m] # None)
  <2>1. FillUIExpression(r, m) = r
    BY <1>3 DEF FillUIExpression
  <2>2. r = [r EXCEPT !.uiAttribute = r.uiAttribute] /\ r.uiAttribute \in Fields \cup {None}
    BY DEF Instances
  <2> QED
    BY <2>1, <2>2, <1>3
<1> QED
  BY <1>2, <1>3

\* A statement appends one rule, which reads it.
LEMMA WriteAppends ==
    ASSUME NEW rules \in Seq(Instances), NEW s \in Statements
    PROVE  \E r \in Instances :
              Write(rules, s) = Append(rules, r) /\ Reads(r, s) /\ r.shouldApply = FALSE
<1>0. /\ None \notin Members /\ Itself \notin Members /\ Itself # None /\ None \notin Fields
      /\ None \notin Arrays /\ None \notin Collections /\ Collections \subseteq Members
  BY ConfigurationAssumption
<1>1. PICK r0 \in Instances :
        /\ Start(rules, s) = Append(rules, r0)
        /\ r0.type = s.type /\ r0.shouldApply = FALSE /\ r0.toCompare = s.compare
        /\ r0.toCheck = IF s.check = None THEN Itself ELSE s.check
        /\ r0.uiAttribute = IF s.compare # None THEN SameName[s.compare]
                            ELSE IF s.check # None THEN SameName[s.check] ELSE None
        /\ r0.arrayRule = (s.compare = None /\ s.check \in Arrays)
  <2> DEFINE new == NewInstance(s.type)
  <2>1. CASE s.check = None
    <3>1. s.compare = None
      BY <2>1 DEF Statements
    <3> DEFINE r == [new EXCEPT !.toCheck = Itself]
    <3>2. r \in Instances /\ r.type = s.type /\ r.shouldApply = FALSE /\ r.toCompare = None
          /\ r.toCheck = Itself /\ r.uiAttribute = None /\ r.arrayRule = FALSE
      BY DEF NewInstance, Instances, Statements
    <3>3. Start(rules, s) = Append(rules, r)
      BY <2>1 DEF Start, RuleForMessage
    <3> HIDE DEF r
    <3> QED
      BY <3>1, <3>2, <3>3, <2>1, <1>0
  <2>2. CASE s.check # None /\ s.compare = None
    <3>1. s.check \in Members
      BY <2>2 DEF Statements
    <3>a. PICK array : array = (s.check \in Arrays)
      OBVIOUS
    <3>b. array \in BOOLEAN
      BY <3>a
    <3> DEFINE r == [new EXCEPT !.toCheck = s.check, !.arrayRule = array]
    <3>2. r \in Instances /\ r.type = s.type /\ r.shouldApply = FALSE /\ r.toCompare = None
          /\ r.toCheck = s.check /\ r.uiAttribute = None /\ r.arrayRule = array
      BY <3>1, <3>b DEF NewInstance, Instances, Statements
    <3>3. Start(rules, s) = Append(rules, FillUIExpression(r, s.check))
      BY <2>2, <3>a DEF Start, RuleFor
    <3> HIDE DEF r
    <3>4. /\ FillUIExpression(r, s.check) \in Instances
          /\ FillUIExpression(r, s.check) = [r EXCEPT !.uiAttribute = SameName[s.check]]
      BY <3>1, <3>2, FillUIExpressionIs
    <3> QED
      BY <3>1, <3>a, <3>2, <3>3, <3>4, <2>2 DEF Instances
  <2>3. CASE s.check # None /\ s.compare # None
    <3> DEFINE r == [new EXCEPT !.toCheck = s.check, !.toCompare = s.compare]
    <3>1. s.check \in Members /\ s.compare \in Members
      BY <2>3 DEF Statements
    <3>2. r \in Instances /\ r.type = s.type /\ r.shouldApply = FALSE /\ r.toCompare = s.compare
          /\ r.toCheck = s.check /\ r.uiAttribute = None /\ r.arrayRule = FALSE
      BY <3>1 DEF NewInstance, Instances, Statements
    <3>3. Start(rules, s) = Append(rules, FillUIExpression(r, s.compare))
      BY <2>3 DEF Start, RuleComparing
    <3> HIDE DEF r
    <3>4. /\ FillUIExpression(r, s.compare) \in Instances
          /\ FillUIExpression(r, s.compare) = [r EXCEPT !.uiAttribute = SameName[s.compare]]
      BY <3>1, <3>2, FillUIExpressionIs
    <3> QED
      BY <3>1, <3>2, <3>3, <3>4, <2>3 DEF Instances
  <2> QED
    BY <2>1, <2>2, <2>3
<1>2. PICK r1 \in Instances :
        /\ (IF s.typed THEN ForType(Start(rules, s)) ELSE Start(rules, s)) = Append(rules, r1)
        /\ r1 = IF s.typed THEN [r0 EXCEPT !.toCheck = Itself] ELSE r0
  <2> DEFINE r == [r0 EXCEPT !.toCheck = Itself]
  <2>1. r \in Instances
    BY DEF Instances
  <2>2. CASE s.typed
    <3>1. FillUIExpression(r, Itself) = r
      BY <2>1, <1>0, FillUIExpressionIs
    <3>2. ForType(Append(rules, r0)) = Append(rules, r)
      BY <3>1, <2>1, LastIsAppended DEF ForType, Targets
    <3> QED
      BY <3>2, <2>1, <2>2, <1>1
  <2>3. CASE ~s.typed
    BY <2>3, <1>1
  <2> QED
    BY <2>2, <2>3
<1>3. PICK r2 \in Instances :
        /\ Aim(Append(rules, r1), s) = Append(rules, r2)
        /\ r2.type = r1.type /\ r2.toCompare = r1.toCompare /\ r2.shouldApply = r1.shouldApply
        /\ r2.toCheck = IF s.target # None THEN s.target ELSE r1.toCheck
        /\ s.target = None \/ r1.uiAttribute = None =>
              r2.uiAttribute = IF s.target # None THEN SameName[s.target] ELSE r1.uiAttribute
        /\ r2.arrayRule = (s.each \/ r1.arrayRule)
  <2>1. CASE s.target = None
    <3>1. ~s.each
      BY <2>1, <1>0 DEF Statements
    <3> QED
      BY <3>1, <2>1 DEF Aim, Instances
  <2>2. CASE s.target # None
    <3> DEFINE r == [r1 EXCEPT !.toCheck = s.target]
               f == FillUIExpression(r, s.target)
               e == [f EXCEPT !.arrayRule = TRUE]
    <3>1. s.target \in Members
      BY <2>2 DEF Statements
    <3>2. r \in Instances /\ r.type = r1.type /\ r.toCompare = r1.toCompare
          /\ r.shouldApply = r1.shouldApply /\ r.toCheck = s.target
          /\ r.uiAttribute = r1.uiAttribute /\ r.arrayRule = r1.arrayRule
      BY <3>1 DEF Instances
    <3>3. Targets(Append(rules, r1), s.target) = WithLast(Append(rules, r1), f)
      BY LastIsAppended DEF Targets
    <3> HIDE DEF r
    <3>4. PICK field \in Fields \cup {None} : f = [r EXCEPT !.uiAttribute = field]
      BY <3>1, <3>2, FillUIExpressionIs
    <3>5. /\ f \in Instances
          /\ r.uiAttribute = None => f = [r EXCEPT !.uiAttribute = SameName[s.target]]
      BY <3>1, <3>2, FillUIExpressionIs
    <3>6. /\ f.type = r1.type /\ f.toCompare = r1.toCompare /\ f.shouldApply = r1.shouldApply
          /\ f.toCheck = s.target /\ f.arrayRule = r1.arrayRule
          /\ r1.uiAttribute = None => f.uiAttribute = SameName[s.target]
      BY <3>2, <3>4, <3>5 DEF Instances
    <3> HIDE DEF f
    <3>7. /\ e \in Instances /\ e.type = f.type /\ e.toCompare = f.toCompare
          /\ e.shouldApply = f.shouldApply /\ e.toCheck = f.toCheck
          /\ e.uiAttribute = f.uiAttribute /\ e.arrayRule = TRUE
      BY <3>5 DEF Instances
    <3>8. Targets(Append(rules, r1), s.target) = Append(rules, f)
      BY <3>3, <3>5, LastIsAppended
    <3>9. TargetsEach(Append(rules, r1), s.target) = Append(rules, e)
      <4>1. Last(Append(rules, f)) = f /\ WithLast(Append(rules, f), e) = Append(rules, e)
        BY <3>5, <3>7, LastIsAppended
      <4> QED
        BY <3>8, <4>1 DEF TargetsEach
    <3> HIDE DEF e
    <3>10. s.each \in BOOLEAN /\ r1.arrayRule \in BOOLEAN
      BY DEF Statements, Instances
    <3>11. CASE s.each
      BY <3>5, <3>6, <3>7, <3>9, <3>10, <3>11, <2>2 DEF Aim
    <3>12. CASE ~s.each
      BY <3>5, <3>6, <3>8, <3>10, <3>12, <2>2 DEF Aim
    <3> QED
      BY <3>11, <3>12
  <2> QED
    BY <2>1, <2>2
<1>4. PICK r3 \in Instances :
        /\ Write(rules, s) = Append(rules, r3)
        /\ r3 = IF s.refers # None THEN [r2 EXCEPT !.uiAttribute = s.refers] ELSE r2
  <2> DEFINE r == [r2 EXCEPT !.uiAttribute = s.refers]
  <2>1. Write(rules, s) = IF s.refers # None THEN RefersTo(Append(rules, r2), s.refers)
                          ELSE Append(rules, r2)
    BY <1>2, <1>3 DEF Write
  <2>2. CASE s.refers # None
    <3>1. r \in Instances
      BY DEF Instances, Statements
    <3>2. RefersTo(Append(rules, r2), s.refers) = Append(rules, r)
      BY <3>1, LastIsAppended DEF RefersTo
    <3> QED
      BY <3>1, <3>2, <2>1, <2>2
  <2>3. CASE s.refers = None
    BY <2>1, <2>3
  <2> QED
    BY <2>2, <2>3
<1>5. /\ r3.type = r2.type /\ r3.toCheck = r2.toCheck /\ r3.toCompare = r2.toCompare
      /\ r3.arrayRule = r2.arrayRule /\ r3.shouldApply = r2.shouldApply
      /\ r3.uiAttribute = IF s.refers # None THEN s.refers ELSE r2.uiAttribute
  BY <1>4 DEF Instances
<1>6. /\ r1.type = r0.type /\ r1.toCompare = r0.toCompare /\ r1.shouldApply = r0.shouldApply
      /\ r1.arrayRule = r0.arrayRule /\ r1.uiAttribute = r0.uiAttribute
      /\ r1.toCheck = IF s.typed THEN Itself ELSE r0.toCheck
  BY <1>2 DEF Instances
<1>7. r3.type = s.type /\ r3.toCheck = Checked(s) /\ r3.toCompare = s.compare
  <2>1. s.target # None => s.typed
    BY DEF Statements
  <2> QED
    BY <2>1, <1>1, <1>3, <1>5, <1>6 DEF Checked
<1>8. r3.shouldApply = FALSE
  BY <1>1, <1>3, <1>5, <1>6
<1>9. ASSUME NamesOnce(s)
      PROVE  /\ r3.uiAttribute = IF s.refers # None THEN s.refers
                                 ELSE IF About(s) = None THEN None ELSE SameName[About(s)]
             /\ r3.arrayRule <=> s.each \/ (s.compare = None /\ s.check \in Arrays)
  <2>1. /\ s.target # None => s.typed /\ s.check = None
        /\ s.compare # None => s.check # None
        /\ s.check \in Members \cup {None}
    BY <1>9 DEF Statements, NamesOnce
  <2>2. s.target # None => r1.uiAttribute = None
    BY <2>1, <1>1, <1>6
  <2>3. r2.uiAttribute = IF About(s) = None THEN None ELSE SameName[About(s)]
    BY <2>1, <2>2, <1>1, <1>3, <1>6 DEF About
  <2>4. r3.arrayRule = (s.each \/ (s.compare = None /\ s.check \in Arrays))
    BY <1>1, <1>3, <1>5, <1>6
  <2> QED
    BY <2>3, <2>4, <1>5
<1>10. Reads(r3, s)
  BY <1>7, <1>9 DEF Reads
<1> QED
  BY <1>4, <1>8, <1>10

\* A set of numbers that has one has a first.
LEMMA FirstNumber ==
    ASSUME NEW I, I \subseteq Nat, I # {}
    PROVE  \E x \in I : \A y \in I : x <= y
<1> DEFINE R == OpToRel(<, Nat)
<1>1. PICK x \in I : \A y \in I : <<y, x>> \notin R
  <2> HIDE DEF R
  <2>1. IsWellFoundedOn(R, Nat)
    BY NatLessThanWellFounded DEF R
  <2> QED
    BY <2>1, WFMin
<1>2. \A y \in I : ~(y < x)
  BY <1>1 DEF OpToRel
<1> QED
  BY <1>2

\* f[n] are the rules that the first n statements write, up to the m-th.
Writes(f, statements, m) ==
    f = [n \in 0..m |-> IF n = 0 THEN << >> ELSE Write(f[n - 1], statements[n])]

\* A function that writes the first m statements can be continued to the next.
LEMMA WritesNext ==
    ASSUME NEW statements, NEW m \in Nat, m # 0, NEW f, Writes(f, statements, m - 1)
    PROVE  \E g : Writes(g, statements, m)
<1> DEFINE g == [n \in 0..m |-> IF n = m THEN Write(f[m - 1], statements[m]) ELSE f[n]]
<1>1. m - 1 \in Nat
  OBVIOUS
<1>2. \A n \in 0..(m - 1) :
        f[n] = IF n = 0 THEN << >> ELSE Write(f[n - 1], statements[n])
  BY Zenon DEF Writes
<1>3. ASSUME NEW n \in 0..m
      PROVE  g[n] = IF n = 0 THEN << >> ELSE Write(g[n - 1], statements[n])
  <2>1. CASE n = m
    <3>1. m - 1 \in 0..m /\ m - 1 # m /\ m \in 0..m
      BY <1>1
    <3>2. g[m] = Write(f[m - 1], statements[m]) /\ g[m - 1] = f[m - 1]
      BY <3>1
    <3> QED
      BY <3>2, <2>1
  <2>2. CASE n # m
    <3>1. n \in 0..(m - 1)
      BY <1>1, <2>2
    <3>2. g[n] = f[n]
      BY <2>2
    <3>3. CASE n = 0
      BY <3>1, <3>2, <3>3, <1>2
    <3>4. CASE n # 0
      <4>1. n - 1 \in 0..m /\ n - 1 # m
        BY <3>1, <3>4
      <4>2. g[n - 1] = f[n - 1]
        BY <4>1
      <4> QED
        BY <3>1, <3>2, <3>4, <4>2, <1>2
    <3> QED
      BY <3>3, <3>4
  <2> QED
    BY <2>1, <2>2
<1>4. g = [n \in 0..m |-> g[n]]
  OBVIOUS
<1> HIDE DEF g
<1>5. g = [n \in 0..m |-> IF n = 0 THEN << >> ELSE Write(g[n - 1], statements[n])]
  BY <1>3, <1>4
<1> QED
  BY <1>5 DEF Writes

\* Whatever the statements, such a function exists: no number is the first one
\* for which it does not.
LEMMA WritesExists ==
    ASSUME NEW statements, NEW m \in Nat
    PROVE  \E f : Writes(f, statements, m)
<1> DEFINE I == {k \in Nat : ~\E f : Writes(f, statements, k)}
<1> SUFFICES ASSUME m \in I PROVE FALSE
  OBVIOUS
<1>1. PICK k \in I : \A y \in I : k <= y
  BY FirstNumber
<1>2. k \in Nat /\ ~\E f : Writes(f, statements, k)
  BY <1>1
<1>3. CASE k = 0
  <2> DEFINE f == [n \in 0..0 |-> << >>]
  <2>1. Writes(f, statements, 0)
    BY DEF Writes
  <2> QED
    BY <2>1, <1>2, <1>3
<1>4. CASE k # 0
  <2>1. k - 1 \in Nat /\ ~(k <= k - 1)
    BY <1>2, <1>4
  <2>2. k - 1 \notin I
    BY <2>1, <1>1
  <2>3. \E f : Writes(f, statements, k - 1)
    BY <2>1, <2>2
  <2> QED
    BY <2>3, <1>2, <1>4, WritesNext
<1> QED
  BY <1>3, <1>4

LEMMA WrittenIs ==
    ASSUME NEW statements \in Seq(Statements)
    PROVE  \E f : Writes(f, statements, Len(statements)) /\ Written(statements) = f[Len(statements)]
<1>1. Len(statements) \in Nat
  BY LenProperties
<1>2. \E f : Writes(f, statements, Len(statements))
  BY <1>1, WritesExists
<1> DEFINE f == CHOOSE f : Writes(f, statements, Len(statements))
<1>3. Writes(f, statements, Len(statements))
  BY <1>2
<1>4. Written(statements) = f[Len(statements)]
  BY Zenon DEF Written, Writes
<1> QED
  BY <1>3, <1>4

\* Each of the rules reads its statement, and none has a condition yet.
AllRead(rules, statements, n) ==
    /\ rules \in Seq(Instances) /\ Len(rules) = n
    /\ \A i \in 1..n : Reads(rules[i], statements[i]) /\ rules[i].shouldApply = FALSE

LEMMA AllReadNext ==
    ASSUME NEW statements \in Seq(Statements), NEW n \in 1..Len(statements),
           NEW rules, AllRead(rules, statements, n - 1)
    PROVE  AllRead(Write(rules, statements[n]), statements, n)
<1>1. n \in Nat /\ n - 1 \in Nat /\ statements[n] \in Statements
  BY LenProperties, ElementOfSeq
<1>2. rules \in Seq(Instances) /\ Len(rules) = n - 1
  BY DEF AllRead
<1>3. PICK r \in Instances :
        Write(rules, statements[n]) = Append(rules, r) /\ Reads(r, statements[n])
        /\ r.shouldApply = FALSE
  BY <1>1, <1>2, WriteAppends
<1>4. /\ Append(rules, r) \in Seq(Instances) /\ Len(Append(rules, r)) = n
      /\ Append(rules, r)[n] = r
      /\ \A i \in 1..(n - 1) : Append(rules, r)[i] = rules[i]
  BY <1>1, <1>2, AppendProperties
<1>5. ASSUME NEW i \in 1..n
      PROVE  /\ Reads(Append(rules, r)[i], statements[i])
             /\ Append(rules, r)[i].shouldApply = FALSE
  <2>1. CASE i = n
    BY <2>1, <1>3, <1>4
  <2>2. CASE i # n
    <3>1. i \in 1..(n - 1)
      BY <1>1, <2>2
    <3>2. Reads(rules[i], statements[i]) /\ rules[i].shouldApply = FALSE
      BY <3>1 DEF AllRead
    <3> QED
      BY <3>1, <3>2, <1>4
  <2> QED
    BY <2>1, <2>2
<1> QED
  BY <1>3, <1>4, <1>5 DEF AllRead

LEMMA WrittenReads ==
    ASSUME NEW statements \in Seq(Statements)
    PROVE  AllRead(Written(statements), statements, Len(statements))
<1> DEFINE L == Len(statements)
<1>1. L \in Nat
  BY LenProperties
<1>2. PICK f : Writes(f, statements, L) /\ Written(statements) = f[L]
  BY WrittenIs
<1> HIDE DEF L
<1>3. \A n \in 0..L : f[n] = IF n = 0 THEN << >> ELSE Write(f[n - 1], statements[n])
  BY <1>2, Zenon DEF Writes
<1> DEFINE I == {n \in 0..L : ~AllRead(f[n], statements, n)}
<1>4. I = {}
  <2> SUFFICES ASSUME I # {} PROVE FALSE
    OBVIOUS
  <2>1. I \subseteq Nat
    BY <1>1
  <2>2. PICK n \in I : \A y \in I : n <= y
    BY <2>1, FirstNumber
  <2>3. n \in 0..L /\ ~AllRead(f[n], statements, n)
    BY <2>2
  <2>4. CASE n = 0
    <3>1. f[n] = << >>
      BY <2>3, <2>4, <1>3
    <3>2. AllRead(<< >>, statements, 0)
      BY DEF AllRead
    <3> QED
      BY <3>1, <3>2, <2>3, <2>4
  <2>5. CASE n # 0
    <3>1. n - 1 \in 0..L /\ ~(n <= n - 1) /\ n \in 1..L
      BY <2>3, <2>5, <1>1
    <3>2. AllRead(f[n - 1], statements, n - 1)
      BY <3>1, <2>2
    <3>3. f[n] = Write(f[n - 1], statements[n])
      BY <2>3, <2>5, <1>3
    <3> QED
      BY <3>1, <3>2, <3>3, <2>3, AllReadNext DEF L
  <2> QED
    BY <2>4, <2>5
<1>5. L \in 0..L
  BY <1>1
<1> QED
  BY <1>2, <1>4, <1>5 DEF L

\* Whatever rules a command has and however many statements an Enforce writes, it
\* leaves the former alone and adds, for each statement, a rule that reads it and
\* has the condition of this Enforce (ValidationDefinition.cs, Enforce).
THEOREM AnyConfigurationAsWritten ==
    ASSUME NEW rules \in Seq(Instances), NEW statements \in Seq(Statements),
           NEW conditional \in BOOLEAN
    PROVE  /\ EnforcedAsWritten(rules, statements, conditional)
           /\ Enforce(rules, statements, conditional) \in Seq(Instances)
<1> DEFINE written == Written(statements)
           k == Len(rules)
           l == Len(statements)
           more == IF conditional THEN Condition(written) ELSE written
<1>1. k \in Nat /\ l \in Nat /\ DOMAIN rules = 1..k /\ DOMAIN statements = 1..l
  BY LenProperties
<1>2. /\ written \in Seq(Instances) /\ Len(written) = l
      /\ \A i \in 1..l : Reads(written[i], statements[i]) /\ written[i].shouldApply = FALSE
  BY WrittenReads DEF AllRead
<1> HIDE DEF written, k, l
<1>3. /\ more \in Seq(Instances) /\ Len(more) = l
      /\ \A i \in 1..l : Reads(more[i], statements[i]) /\ more[i].shouldApply = conditional
  <2>1. CASE ~conditional
    BY <2>1, <1>2
  <2>2. CASE conditional
    <3> DEFINE c == Condition(written)
    <3>1. DOMAIN written = 1..l /\ \A i \in 1..l : written[i] \in Instances
      BY <1>2, LenProperties, ElementOfSeq
    <3>2. c = [i \in 1..l |-> [written[i] EXCEPT !.shouldApply = TRUE]]
      BY <3>1 DEF Condition
    <3> HIDE DEF c
    <3>3. ASSUME NEW i \in 1..l
          PROVE  /\ c[i] \in Instances /\ c[i].shouldApply = TRUE
                 /\ Reads(c[i], statements[i])
      <4> DEFINE w == written[i]
      <4>1. w \in Instances /\ Reads(w, statements[i])
        BY <1>2, <3>1
      <4>2. c[i] = [w EXCEPT !.shouldApply = TRUE]
        BY <3>2
      <4> HIDE DEF w
      <4>3. /\ c[i] \in Instances /\ c[i].shouldApply = TRUE /\ c[i].type = w.type
            /\ c[i].toCheck = w.toCheck /\ c[i].toCompare = w.toCompare
            /\ c[i].uiAttribute = w.uiAttribute /\ c[i].arrayRule = w.arrayRule
        BY <4>1, <4>2 DEF Instances
      <4> QED
        BY <4>1, <4>3 DEF Reads
    <3>4. c \in [1..l -> Instances]
      BY <3>2, <3>3
    <3>5. c \in Seq(Instances) /\ Len(c) = l
      BY <3>4, <1>1
    <3>6. more = c
      BY <2>2 DEF c
    <3> QED
      BY <3>3, <3>5, <3>6, <2>2
  <2> QED
    BY <2>1, <2>2
<1>4. Enforce(rules, statements, conditional) = rules \o more
  BY DEF Enforce, written
<1> HIDE DEF more
<1>5. /\ rules \o more \in Seq(Instances) /\ Len(rules \o more) = k + l
      /\ \A i \in 1..(k + l) : (rules \o more)[i] = IF i <= k THEN rules[i] ELSE more[i - k]
  BY <1>3, ConcatProperties DEF k
<1>6. \A i \in 1..k : (rules \o more)[i] = rules[i]
  BY <1>1, <1>5
<1>7. ASSUME NEW i \in 1..l PROVE (rules \o more)[k + i] = more[i]
  <2>1. PICK j \in 1..(k + l) : j = k + i /\ ~(j <= k) /\ j - k = i
    BY <1>1
  <2> QED
    BY <2>1, <1>5
<1> QED
  BY <1>1, <1>3, <1>4, <1>5, <1>6, <1>7 DEF EnforcedAsWritten, k, l

=============================================================================
