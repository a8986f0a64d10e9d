--------------------------- MODULE TempDataFilters ---------------------------
(***************************************************************************)
(* The filters that carry data across a redirect in TempData               *)
(* (src/MVCContrib/Filters): ModelStateToTempDataAttribute ("model"),      *)
(* PassParametersDuringRedirectAttribute ("params") and                    *)
(* TempDataToViewDataAttribute ("viewdata"), in the requests that the      *)
(* windows of one browser make.  The session lock makes requests follow    *)
(* each other; a step is one handler of a request.                         *)
(*                                                                         *)
(* TempDataDictionary is ASP.NET's: reading an entry, and enumerating the  *)
(* dictionary, marks entries for removal; Keep, and a redirect result,     *)
(* retain them; Save drops what is marked and not retained.  A value is a  *)
(* set of ids: the failures of a ModelState, or the one of an object.      *)
(***************************************************************************)
EXTENDS Naturals, FiniteSets

CONSTANTS
    Windows,        \* browser windows of the session
    Params,         \* names of parameters passed in TempData
    Sites,          \* applications: each the sets of filters its actions bear
    MaxIds          \* bound: model failures and parameter values

ModelKey == "__MvcContrib_ValidationFailures__"
Filters == {"model", "params", "viewdata"}
Kinds == {"view", "partial", "redirect", "redirectTo", "other"}

ASSUME ConstantAssumption ==
    ModelKey \notin Params /\ Sites \subseteq SUBSET SUBSET Filters /\ MaxIds \in Nat

Keys == Params \cup {ModelKey}
Absent == {}    \* the value of a key that is not there

VARIABLES
    site, open, \* the application, and the windows in use
    session,    \* TempData between requests
    data, marked, retained, \* the request's TempDataDictionary
    pc,         \* how far the request is
    window,     \* the window that makes it
    filters, matching, \* its action: filters, parameters a stored value fits
    left,       \* filters whose OnActionExecuted is still to run
    kind,       \* its result: redirectTo is the generic RedirectToAction
    passed,     \* the objects that the redirect's expression passes for parameters
    plain,      \* parameters it passes null for, or what fits the query string
    modelState, \* failures in the controller's ModelState
    arguments,  \* ActionParameters set from TempData
    ids,        \* ids used so far
    expected,   \* history: failures each window's last redirect with failures left
    shown,      \* history: in how many views each failure was shown
    latest,     \* history: the value of each parameter last stored
    unstored    \* history: parameters last passed a value that is not stored

tempData == <<data, marked, retained>>
action == <<site, open, window, filters, matching>>
history == <<expected, shown, latest, unstored>>
vars == <<session, tempData, pc, action, left, kind, passed, plain, modelState, arguments, ids, history>>

Ids == 1..MaxIds
Values == SUBSET Ids

TypeOK ==
    /\ site \in Sites /\ open \in SUBSET Windows \ {{}}
    /\ session \in [Keys -> Values] /\ data \in [Keys -> Values]
    /\ marked \subseteq Keys /\ retained \subseteq Keys
    /\ pc \in {"rest", "executing", "action", "executed", "save"}
    /\ window \in open /\ filters \in site /\ matching \subseteq Params
    /\ left \subseteq filters
    /\ kind \in Kinds
    /\ passed \in [Params -> Values] /\ arguments \in [Params -> Values]
    /\ modelState \in Values
    /\ ids \in 0..MaxIds
    /\ expected \in [Windows -> Values]
    /\ shown \in [Ids -> Nat]
    /\ latest \in [Params -> Values]
    /\ plain \subseteq Params /\ unstored \subseteq Params
    /\ \A p \in Params : arguments[p] # Absent => p \in matching

NoData == [key \in Keys |-> Absent]
NoParams == [p \in Params |-> Absent]

Init ==
    /\ site \in Sites /\ open \in SUBSET Windows \ {{}}
    /\ session = NoData /\ data = NoData /\ marked = {} /\ retained = {}
    /\ pc = "rest"
    /\ window \in open /\ filters \in site /\ matching = {}
    /\ left = {} /\ kind = "other"
    /\ passed = NoParams /\ arguments = NoParams
    /\ modelState = {} /\ ids = 0
    /\ expected = [w \in Windows |-> {}]
    /\ shown = [id \in Ids |-> 0]
    /\ latest = NoParams
    /\ plain = {} /\ unstored = {}

Present == {key \in Keys : data[key] # Absent}

-----------------------------------------------------------------------------
(* The request *)

\* A window requests some action; TempData is loaded from the session.
Request(w) ==
    /\ pc = "rest"
    /\ w \in open /\ window' = w
    /\ filters' \in site /\ matching' \in SUBSET Params
    /\ data' = session /\ marked' = {} /\ retained' = {}
    /\ modelState' = {} /\ arguments' = NoParams /\ passed' = NoParams /\ plain' = {}
    /\ pc' = "executing"
    /\ UNCHANGED <<site, open, session, left, kind, ids, history>>

\* Variant of OnActionExecuting: a parameter is not kept.
OnActionExecutingUnkept ==
    /\ pc = "executing"
    /\ IF "params" \in filters
       THEN /\ arguments' = [p \in Params |-> IF p \in matching THEN data[p] ELSE Absent]
            /\ marked' = marked \cup Present
       ELSE UNCHANGED <<arguments, marked>>
    /\ pc' = "action"
    /\ UNCHANGED <<session, data, retained, action, left, kind, passed, plain, modelState, ids, history>>

\* Variant of OnActionExecuting: the type of the parameter is not compared.
OnActionExecutingAny ==
    /\ pc = "executing"
    /\ IF "params" \in filters
       THEN /\ arguments' = [p \in Params |-> data[p]]
            /\ marked' = marked \cup Present
            /\ retained' = retained \cup (Params \cap Present)
       ELSE UNCHANGED <<arguments, marked, retained>>
    /\ pc' = "action"
    /\ UNCHANGED <<session, data, action, left, kind, passed, plain, modelState, ids, history>>

\* LoadParameterValuesFromTempData: the search for stored parameters enumerates
\* all of TempData, and so marks all of it; what fits a parameter is kept.
OnActionExecuting ==
    /\ pc = "executing"
    /\ IF "params" \in filters
       THEN /\ arguments' = [p \in Params |-> IF p \in matching THEN data[p] ELSE Absent]
            /\ marked' = marked \cup Present
            /\ retained' = retained \cup (matching \cap Present)
       ELSE UNCHANGED <<arguments, marked, retained>>
    /\ pc' = "action"
    /\ UNCHANGED <<session, data, action, left, kind, passed, plain, modelState, ids, history>>

\* The action: ModelState may get a failure, and the expression of a generic
\* redirect may pass an object for a parameter, or a value that is not stored.
Action ==
    /\ pc = "action"
    /\ \E fails \in BOOLEAN, k \in Kinds, p \in Params \cup {ModelKey}, object \in BOOLEAN :
        /\ kind' = k
        /\ modelState' = IF fails THEN {ids + 1} ELSE {}
        /\ passed' = IF k = "redirectTo" /\ p \in Params /\ object
                     THEN [passed EXCEPT ![p] = {ids + (IF fails THEN 2 ELSE 1)}] ELSE passed
        /\ plain' = IF k = "redirectTo" /\ p \in Params /\ ~object THEN {p} ELSE {}
        /\ ids' = ids + Cardinality(modelState' \cup UNION {passed'[q] : q \in Params})
        /\ ids' <= MaxIds
    /\ left' = filters
    /\ pc' = "executed"
    /\ UNCHANGED <<session, tempData, action, arguments, history>>

-----------------------------------------------------------------------------
(* OnActionExecuted *)

IsView == kind \in {"view", "partial"}    \* ViewResultBase
Redirects == kind \in {"redirect", "redirectTo"}

\* Variant of CopyModelState: the failures are stored for any result but a view.
CopyModelStateAlways ==
    /\ pc = "executed" /\ "model" \in left /\ left' = left \ {"model"}
    /\ IF IsView
       THEN /\ modelState' = modelState \cup data[ModelKey]
            /\ UNCHANGED <<data, marked, expected>>
       ELSE /\ data' = [data EXCEPT ![ModelKey] = modelState]
            /\ marked' = marked \ {ModelKey}
            /\ expected' = IF modelState # {} THEN [expected EXCEPT ![window] = modelState]
                           ELSE expected
            /\ UNCHANGED modelState
    /\ UNCHANGED <<session, retained, pc, action, kind, passed, plain, arguments, ids,
                   shown, latest, unstored>>

\* Variant of CopyModelState: the stored failures are peeked at, not read.
CopyModelStatePeeks ==
    /\ pc = "executed" /\ "model" \in left /\ left' = left \ {"model"}
    /\ CASE IsView ->
            /\ modelState' = modelState \cup data[ModelKey]
            /\ UNCHANGED <<data, marked, expected>>
         [] Redirects /\ modelState # {} ->
            /\ data' = [data EXCEPT ![ModelKey] = modelState]
            /\ marked' = marked \ {ModelKey}
            /\ expected' = [expected EXCEPT ![window] = modelState]
            /\ UNCHANGED modelState
         [] OTHER -> UNCHANGED <<data, marked, modelState, expected>>
    /\ UNCHANGED <<session, retained, pc, action, kind, passed, plain, arguments, ids,
                   shown, latest, unstored>>

\* ModelStateToTempDataAttribute: a view gets the failures stored before added to
\* its own; a redirect with failures stores them in place of those stored before.
CopyModelState ==
    /\ pc = "executed" /\ "model" \in left /\ left' = left \ {"model"}
    /\ CASE IsView ->
            /\ modelState' = modelState \cup data[ModelKey]
            /\ marked' = marked \cup ({ModelKey} \cap Present)
            /\ UNCHANGED <<data, expected>>
         [] Redirects /\ modelState # {} ->
            /\ data' = [data EXCEPT ![ModelKey] = modelState]
            /\ marked' = marked \ {ModelKey}
            /\ expected' = [expected EXCEPT ![window] = modelState]
            /\ UNCHANGED modelState
         [] OTHER -> UNCHANGED <<data, marked, modelState, expected>>
    /\ UNCHANGED <<session, retained, pc, action, kind, passed, plain, arguments, ids,
                   shown, latest, unstored>>

\* Variant of StoreParameters: a stored parameter is never replaced.
StoreParametersOnce ==
    /\ pc = "executed" /\ "params" \in left /\ left' = left \ {"params"}
    /\ data' = [key \in Keys |->
            IF key \in Params /\ data[key] = Absent THEN passed[key] ELSE data[key]]
    /\ latest' = [p \in Params |-> IF passed[p] # Absent THEN passed[p] ELSE latest[p]]
    /\ unstored' = {p \in unstored \cup plain : passed[p] = Absent}
    /\ marked' = marked \ {p \in Params : passed[p] # Absent}
    /\ UNCHANGED <<session, retained, pc, action, kind, passed, plain, modelState, arguments, ids,
                   expected, shown>>

\* AddParameterValuesFromExpressionToTempData, for the objects of a generic
\* redirect; values that fit the query string stay there.
StoreParameters ==
    /\ pc = "executed" /\ "params" \in left /\ left' = left \ {"params"}
    /\ data' = [key \in Keys |->
            IF key \in Params /\ passed[key] # Absent THEN passed[key] ELSE data[key]]
    /\ latest' = [p \in Params |-> IF passed[p] # Absent THEN passed[p] ELSE latest[p]]
    /\ unstored' = {p \in unstored \cup plain : passed[p] = Absent}
    /\ marked' = marked \ {p \in Params : passed[p] # Absent}
    /\ UNCHANGED <<session, retained, pc, action, kind, passed, plain, modelState, arguments, ids,
                   expected, shown>>

\* TempDataToViewDataAttribute enumerates TempData for a full view.
CopyToViewData ==
    /\ pc = "executed" /\ "viewdata" \in left /\ left' = left \ {"viewdata"}
    /\ marked' = IF kind = "view" THEN marked \cup Present ELSE marked
    /\ UNCHANGED <<session, data, retained, pc, action, kind, passed, plain, modelState, arguments, ids, history>>

\* A redirect result keeps all of TempData; a view shows ModelState's failures.
ExecuteResult ==
    /\ pc = "executed" /\ left = {}
    /\ retained' = IF Redirects THEN Present ELSE retained
    /\ shown' = [id \in Ids |->
            IF IsView /\ id \in modelState THEN shown[id] + 1 ELSE shown[id]]
    /\ pc' = "save"
    /\ UNCHANGED <<session, data, marked, action, left, kind, passed, plain, modelState, arguments, ids,
                   expected, latest, unstored>>

Save ==
    /\ pc = "save"
    /\ session' = [key \in Keys |->
            IF key \in marked /\ key \notin retained THEN Absent ELSE data[key]]
    /\ expected' = IF IsView /\ "model" \in filters
                   THEN [expected EXCEPT ![window] = {}] ELSE expected
    /\ pc' = "rest"
    /\ UNCHANGED <<tempData, action, left, kind, passed, plain, modelState, arguments, ids,
                   shown, latest, unstored>>

Finished == ids = MaxIds /\ pc = "rest" /\ UNCHANGED vars

Next ==
    \/ \E w \in Windows : Request(w)
    \/ OnActionExecuting \/ Action \/ CopyModelState \/ StoreParameters \/ CopyToViewData
    \/ ExecuteResult \/ Save \/ Finished

Spec == Init /\ [][Next]_vars

-----------------------------------------------------------------------------
(* Properties *)

\* A failure is shown in at most one view, whatever redirects, reloads and other
\* windows come between: neither Keep nor a redirect revives it.
ShownAtMostOnce == \A id \in Ids : shown[id] <= 1

\* "any ModelState entries that were previously copied to TempData will be copied
\* back" (the comment on ModelStateToTempDataAttribute): while one window is in
\* use, its next view that bears the filter shows the failures its last failing
\* redirect left, after any number of redirects and of other requests.
FailuresReachTheView ==
    open = {window} /\ pc = "save" /\ IsView /\ "model" \in filters =>
        expected[window] \subseteq modelState

\* It is so where no action bears a filter that enumerates TempData.
FailuresReachTheViewUnread ==
    (\A fs \in site : {"params", "viewdata"} \cap fs = {}) => FailuresReachTheView

\* An argument taken from TempData is the object stored last for the parameter: no
\* earlier one comes back.  Null, and what fits the query string, is not stored:
\* a redirect that passes it leaves the object stored before, which is taken.
ArgumentsAreLatest ==
    pc = "action" => \A p \in Params : arguments[p] # Absent => arguments[p] = latest[p]

\* "reference-type-parameters ... passed into RedirectToAction<T>() will get passed
\* to the controller or action" (PassParametersDuringRedirectAttribute.cs:13-15):
\* an argument taken from TempData is what the latest redirect passed.
ArgumentsArePassed ==
    pc = "action" => \A p \in Params : arguments[p] # Absent =>
        arguments[p] = latest[p] /\ p \notin unstored

\* A parameter that an action took from TempData is still there for a reload of
\* the page: the request leaves it in the session, unless it stores another.
ParametersSurviveReload ==
    [][\A p \in Params :
        pc = "save" /\ arguments[p] # Absent /\ session'[p] # arguments[p] =>
            passed[p] # Absent]_vars
=============================================================================
