------------------------ MODULE ValidationDefinition ------------------------
(***************************************************************************)
(* The fluent configuration of a command's validation rules                *)
(* (MvcContrib.CommandProcessor.Configuration.ValidationDefinition).       *)
(*                                                                         *)
(* A message definition calls Enforce with a piece of code that writes     *)
(* rules, one statement each:                                              *)
(*     Rule<T>(), Rule<T>(toCheck) or Rule<T>(toCheck, toCompare)          *)
(*         .ForType<TTarget>().Targets(property)      if it likes          *)
(*         .RefersTo(uiProperty)                      if it likes.         *)
(* Every call acts on the same builder, and what follows Rule acts on the  *)
(* last rule in it.  A second piece of code may put a condition on all     *)
(* rules of the first.                                                     *)
(*                                                                         *)
(* An expression is the property it reads.  The statements of a program    *)
(* are what the grammar of the interfaces allows in one expression.        *)
(***************************************************************************)
EXTENDS Naturals, SequencesExt

CONSTANTS
    RuleTypes,    \* the IValidationRule types
    Members,      \* the properties of the command
    Arrays,       \* those of an array type
    Collections,  \* those of an enumerable type
    Fields,       \* the properties of the message
    SameName,     \* the field of the same name as a member, None without one
    Itself,       \* the expression x => x
    None          \* null

ASSUME ConfigurationAssumption ==
    /\ Arrays \subseteq Collections /\ Collections \subseteq Members
    /\ SameName \in [Members -> Fields \cup {None}]
    /\ Itself \notin Members /\ None \notin Members \cup Fields \cup {Itself}

(* A ValidationRuleInstance that is about to be filled in.                  *)
NewInstance(type) ==
    [type |-> type, toCheck |-> None, toCompare |-> None, uiAttribute |-> None,
     arrayRule |-> FALSE, shouldApply |-> FALSE]

-----------------------------------------------------------------------------
(* The builder: the rules so far, and the rules after a call.               *)

WithLast(rules, instance) == [rules EXCEPT ![Len(rules)] = instance]

(* A property whose name the message does not have leaves the UI attribute. *)
FillUIExpression(instance, member) ==
    IF member \in Members /\ SameName[member] # None
    THEN [instance EXCEPT !.uiAttribute = SameName[member]] ELSE instance

RuleForMessage(rules, type) ==
    Append(rules, [NewInstance(type) EXCEPT !.toCheck = Itself])

RuleFor(rules, type, toCheck) ==
    Append(rules, FillUIExpression(
        [NewInstance(type) EXCEPT !.toCheck = toCheck, !.arrayRule = toCheck \in Arrays], toCheck))

(* The message about a comparison is shown at what is compared with.        *)
RuleComparing(rules, type, toCheck, toCompare) ==
    Append(rules, FillUIExpression(
        [NewInstance(type) EXCEPT !.toCheck = toCheck, !.toCompare = toCompare], toCompare))

Targets(rules, property) ==
    WithLast(rules,
        FillUIExpression([Last(rules) EXCEPT !.toCheck = property], property))

(* ForType targets the command itself until Targets says otherwise.         *)
ForType(rules) == Targets(rules, Itself)

(* The overload of Targets for an enumerable of TTarget.                    *)
TargetsEach(rules, property) ==
    LET targeted == Targets(rules, property)
    IN  WithLast(targeted, [Last(targeted) EXCEPT !.arrayRule = TRUE])

(* Variant of RefersTo: the first rule gets the attribute.                  *)
RefersToFirst(rules, uiProperty) == [rules EXCEPT ![1].uiAttribute = uiProperty]

RefersTo(rules, uiProperty) ==
    WithLast(rules, [Last(rules) EXCEPT !.uiAttribute = uiProperty])

Condition(rules) == [i \in DOMAIN rules |-> [rules[i] EXCEPT !.shouldApply = TRUE]]

-----------------------------------------------------------------------------
(* Statements, and the rules an Enforce adds to those of a command.         *)

Statements ==
    {s \in [type: RuleTypes, check: Members \cup {None}, compare: Members \cup {None},
            typed: BOOLEAN, target: Members \cup {None}, each: BOOLEAN,
            refers: Fields \cup {None}] :
        /\ s.compare # None => s.check \notin {None, s.compare}
        /\ s.target # None => s.typed
        /\ s.each => s.target \in Collections}

Start(rules, s) ==
    IF s.check = None THEN RuleForMessage(rules, s.type)
    ELSE IF s.compare = None THEN RuleFor(rules, s.type, s.check)
    ELSE RuleComparing(rules, s.type, s.check, s.compare)

Aim(rules, s) ==
    IF s.each THEN TargetsEach(rules, s.target)
    ELSE IF s.target # None THEN Targets(rules, s.target)
    ELSE rules

Write(rules, s) ==
    LET started == Start(rules, s)
        aimed == Aim(IF s.typed THEN ForType(started) ELSE started, s)
    IN  IF s.refers # None THEN RefersTo(aimed, s.refers) ELSE aimed

(* The rules of an empty builder after all statements: rules[n] after n.    *)
Written(statements) ==
    LET rules[n \in 0..Len(statements)] ==
            IF n = 0 THEN << >> ELSE Write(rules[n - 1], statements[n])
    IN  rules[Len(statements)]

Enforce(rules, statements, conditional) ==
    LET written == Written(statements)
    IN  rules \o IF conditional THEN Condition(written) ELSE written

-----------------------------------------------------------------------------
(* Property.                                                               *)

Checked(s) ==
    IF s.target # None THEN s.target
    ELSE IF s.typed \/ s.check = None THEN Itself
    ELSE s.check

(* The member the statement is about, if it names one.                      *)
About(s) ==
    IF s.target # None THEN s.target ELSE IF s.compare # None THEN s.compare ELSE s.check

NamesOnce(s) == s.typed => s.check = None

Reads(rule, s) ==
    /\ rule.type = s.type /\ rule.toCheck = Checked(s) /\ rule.toCompare = s.compare
    /\ NamesOnce(s) =>
        /\ rule.uiAttribute = IF s.refers # None THEN s.refers
                              ELSE IF About(s) = None THEN None ELSE SameName[About(s)]
        /\ rule.arrayRule <=> \/ s.each
                              \/ s.compare = None /\ s.check \in Arrays

(* An Enforce leaves the rules before it alone, adds one for each statement *)
(* that reads it, and puts its condition on all of these and no others.     *)
EnforcedAsWritten(rules, statements, conditional) ==
    LET enforced == Enforce(rules, statements, conditional)
        added(i) == enforced[Len(rules) + i]
    IN  /\ Len(enforced) = Len(rules) + Len(statements)
        /\ \A i \in DOMAIN rules : enforced[i] = rules[i]
        /\ \A i \in DOMAIN statements :
              Reads(added(i), statements[i]) /\ added(i).shouldApply = conditional

(* Every rule says what its own statement says, whatever is written before  *)
(* and after it: what it checks, whether element by element, and where its  *)
(* message is shown.  A condition holds for the rules of its own Enforce,   *)
(* and all of them.  Except that ForType on a rule that names a member      *)
(* keeps the member's field, where the new target has none, and the         *)
(* checking of elements, which fails on a target without any.               *)
RulesAsWritten ==
    LET all == Statements
    IN  \A s, t \in all, conditional \in BOOLEAN :
        LET first == Enforce(<< >>, <<s>>, conditional)
        IN  /\ EnforcedAsWritten(<< >>, <<s>>, conditional)
            /\ EnforcedAsWritten(<< >>, <<s, t>>, conditional)
            /\ EnforcedAsWritten(first, <<t>>, ~conditional)
=============================================================================
