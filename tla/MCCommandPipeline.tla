-------------------------- MODULE MCCommandPipeline --------------------------
(* Instances of CommandPipeline for TLC: message definitions of up to three *)
(* commands whose context, rules and handlers interact.  The rules are what *)
(* ValidationDefinition makes of statements in the configuration's grammar. *)
EXTENDS ConfiguredPipeline

CONSTANTS customer, order, plain, stopping, amount, lines, tags, uiAmount, uiLines

MCKeys == {customer, order}

\* The members of the commands: a number, an array and a list that has no
\* field of its name in the message.
MCRuleTypes == {plain, stopping}
MCMembers == {amount, lines, tags}
MCArrays == {lines}
MCCollections == {lines, tags}
MCFields == {uiAmount, uiLines}
MCSameName == [m \in MCMembers |->
    IF m = amount THEN uiAmount ELSE IF m = lines THEN uiLines ELSE None]

\* Rule<type>(x => x.member)
Check(type, member) ==
    [type |-> type, check |-> member, compare |-> None, typed |-> FALSE,
     target |-> None, each |-> FALSE, refers |-> None]

\* Rule<type>().ForType<T>().Targets(x => x.tags).RefersTo(m => m.Amount)
CheckTags(type) ==
    [Check(type, None) EXCEPT !.typed = TRUE, !.target = tags, !.each = TRUE,
                              !.refers = uiAmount]

Shape(instance) ==
    [array |-> instance.arrayRule, stop |-> instance.type = stopping,
     conditional |-> instance.shouldApply]

Shapes(instances) == [i \in DOMAIN instances |-> Shape(instances[i])]

Enforced(statements) == Shapes(Enforce(<< >>, statements, FALSE))

Cmd(cond, needs, checks, n) ==
    [conditional |-> cond, context |-> needs, rules |-> checks, handlers |-> n]

\* Validation: every kind of rule, before and after the others.
Validating ==
    { <<Cmd(FALSE, {}, Shapes(Enforce(Enforce(<< >>, <<Check(plain, amount)>>, TRUE),
                                     <<Check(plain, lines), Check(stopping, amount)>>,
                                     FALSE)), 1)>>,
      <<Cmd(FALSE, {}, Enforced(<<CheckTags(plain), Check(stopping, lines),
                                  Check(plain, None)>>), 1)>>,
      <<Cmd(FALSE, {}, << >>, 1),
        Cmd(FALSE, {}, Enforced(<<Check(stopping, amount), CheckTags(plain)>>), 1)>> }

OneRule == Enforced(<<Check(plain, amount)>>)

\* Contexts: a later command needs what earlier ones may or may not return.
Chaining ==
    { <<Cmd(FALSE, {}, OneRule, 2), Cmd(TRUE, {customer}, OneRule, 1),
        Cmd(FALSE, {customer, order}, << >>, 1)>>,
      <<Cmd(TRUE, {}, << >>, 1), Cmd(FALSE, {}, << >>, 0), Cmd(FALSE, {customer}, OneRule, 1)>>,
      << >> }

MCDefinitions == Validating \cup Chaining
=============================================================================
