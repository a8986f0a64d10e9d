------------------------------- MODULE Rescue --------------------------------
(***************************************************************************)
(* RescueAttribute (src/MVCContrib/Filters/RescueAttribute.cs): an         *)
(* exception filter that renders the view named after the exception, else  *)
(* the view it was given.  The view's name is a field that autolocation    *)
(* overwrites, and requests share the attribute; a step is one access to   *)
(* that field.                                                             *)
(***************************************************************************)
EXTENDS Naturals, Sequences

CONSTANTS
    Rescued,        \* requests whose actions throw
    Types,          \* exception types; a view may bear the name of one
    Assignable,     \* Assignable[e]: the types a variable of which can hold an e
    DefaultView,    \* the view given to the constructor
    NoView,         \* nothing rendered
    Settings        \* attributes considered

SettingRecords == [exceptionTypes: Seq(Types), ignoreTypes: SUBSET Types,
                   autoLocate: BOOLEAN, ignoreAjax: BOOLEAN, views: SUBSET Types]

ASSUME TypeAssumption ==
    /\ Assignable \in [Types -> SUBSET Types]
    /\ DefaultView \notin Types /\ NoView \notin Types \cup {DefaultView}
ASSUME SettingAssumption == Settings \subseteq SettingRecords

VARIABLES
    setting,    \* the attribute's properties, and the rescue views that exist
    view,       \* RescueAttribute._view
    stage,      \* where each request is
    thrown,     \* the type of the base exception of each request
    ajax,       \* whether the request is an AJAX request
    next,       \* the expected type it is at, in the loop
    rendered,   \* the view of filterContext.Result
    handled,    \* requests whose ExceptionHandled is set
    crossed     \* history: two requests have been in OnException at once

rescueVars == <<setting, view, stage, thrown, ajax, next, rendered, handled, crossed>>

RescuePCs == {"idle", "ajax", "loop", "locate", "nameBase", "nameExpected", "result", "done"}

RescueTypeOK ==
    /\ setting \in Settings
    /\ view \in Types \cup {DefaultView}
    /\ stage \in [Rescued -> RescuePCs]
    /\ thrown \in [Rescued -> Types] /\ ajax \in [Rescued -> BOOLEAN]
    /\ next \in [Rescued -> 1..Len(setting.exceptionTypes) + 1]
    /\ rendered \in [Rescued -> Types \cup {DefaultView, NoView}]
    /\ handled \subseteq Rescued /\ crossed \in BOOLEAN

RescueInit ==
    /\ setting \in Settings
    /\ view = DefaultView
    /\ stage = [r \in Rescued |-> "idle"]
    /\ thrown \in [Rescued -> Types] /\ ajax \in [Rescued -> BOOLEAN]
    /\ next = [r \in Rescued |-> 1]
    /\ rendered = [r \in Rescued |-> NoView]
    /\ handled = {} /\ crossed = FALSE

RescueAt(r, to) == stage' = [stage EXCEPT ![r] = to]

Expected(r) == setting.exceptionTypes[next[r]]
Matches(r) == Expected(r) \in Assignable[thrown[r]]

\* ViewExists: a view named after the type is found under Rescues.
ViewExists(type) == type \in setting.views

-----------------------------------------------------------------------------

\* A request's exception reaches the filter.
OnException(r) ==
    /\ stage[r] = "idle"
    /\ crossed' = (crossed \/ \E q \in Rescued : stage[q] \notin {"idle", "done"})
    /\ RescueAt(r, "ajax")
    /\ UNCHANGED <<setting, view, thrown, ajax, next, rendered, handled>>

\* Variant of Ignore: only the exceptions of AJAX requests are looked up in IgnoreTypes.
IgnoreBoth(r) ==
    /\ stage[r] = "ajax"
    /\ RescueAt(r, IF /\ setting.ignoreAjax /\ ajax[r]
                      /\ thrown[r] \in setting.ignoreTypes
                   THEN "done" ELSE "loop")
    /\ UNCHANGED <<setting, view, thrown, ajax, next, rendered, handled, crossed>>

\* IgnoreAjax and IgnoreTypes leave the exception unhandled.
Ignore(r) ==
    /\ stage[r] = "ajax"
    /\ RescueAt(r, IF \/ setting.ignoreAjax /\ ajax[r]
                      \/ thrown[r] \in setting.ignoreTypes
                   THEN "done" ELSE "loop")
    /\ UNCHANGED <<setting, view, thrown, ajax, next, rendered, handled, crossed>>

\* Variant of Loop: AutoLocate is not looked at, and next moves past the end.
LoopLocating(r) ==
    /\ stage[r] = "loop"
    /\ next' = [next EXCEPT ![r] = IF next[r] <= Len(setting.exceptionTypes) /\ Matches(r)
                                   THEN @ ELSE @ + 1]
    /\ RescueAt(r, IF next[r] > Len(setting.exceptionTypes) THEN "done"
                   ELSE IF Matches(r) THEN "locate" ELSE "loop")
    /\ UNCHANGED <<setting, view, thrown, ajax, rendered, handled, crossed>>

\* The first expected type to which the exception can be assigned decides.
Loop(r) ==
    /\ stage[r] = "loop"
    /\ IF next[r] > Len(setting.exceptionTypes)
       THEN RescueAt(r, "done") /\ UNCHANGED next
       ELSE IF Matches(r)
       THEN RescueAt(r, IF setting.autoLocate THEN "locate" ELSE "result") /\ UNCHANGED next
       ELSE next' = [next EXCEPT ![r] = @ + 1] /\ UNCHANGED stage
    /\ UNCHANGED <<setting, view, thrown, ajax, rendered, handled, crossed>>

\* Variant of Locate: the view of the expected type comes first.
LocateExpectedFirst(r) ==
    /\ stage[r] = "locate"
    /\ RescueAt(r, CASE ViewExists(Expected(r)) -> "nameExpected"
                     [] ViewExists(thrown[r]) /\ ~ViewExists(Expected(r)) -> "nameBase"
                     [] OTHER -> "result")
    /\ UNCHANGED <<setting, view, thrown, ajax, next, rendered, handled, crossed>>

\* Variant of Locate: the view of the exception is assumed to exist.
LocateUnchecked(r) ==
    /\ stage[r] = "locate"
    /\ RescueAt(r, "nameBase")
    /\ UNCHANGED <<setting, view, thrown, ajax, next, rendered, handled, crossed>>

\* Autolocation: the view of the exception itself, else of the expected type.
Locate(r) ==
    /\ stage[r] = "locate"
    /\ RescueAt(r, CASE ViewExists(thrown[r]) -> "nameBase"
                     [] ViewExists(Expected(r)) /\ ~ViewExists(thrown[r]) -> "nameExpected"
                     [] OTHER -> "result")
    /\ UNCHANGED <<setting, view, thrown, ajax, next, rendered, handled, crossed>>

\* The field keeps the located name: nothing ever restores the default.
NameView(r) ==
    /\ \/ stage[r] = "nameBase" /\ view' = thrown[r]
       \/ stage[r] = "nameExpected" /\ view' = Expected(r)
    /\ RescueAt(r, "result")
    /\ UNCHANGED <<setting, thrown, ajax, next, rendered, handled, crossed>>

\* The result gets the view the field names now.
CreateActionResult(r) ==
    /\ stage[r] = "result"
    /\ rendered' = [rendered EXCEPT ![r] = view]
    /\ handled' = handled \cup {r}
    /\ RescueAt(r, "done")
    /\ UNCHANGED <<setting, view, thrown, ajax, next, crossed>>

RescueFinished == (\A r \in Rescued : stage[r] = "done") /\ UNCHANGED rescueVars

RescueStep(r) ==
    Ignore(r) \/ Loop(r) \/ Locate(r) \/ NameView(r) \/ CreateActionResult(r)

RescueNext == (\E r \in Rescued : OnException(r) \/ RescueStep(r)) \/ RescueFinished

RescueSpec == RescueInit /\ [][RescueNext]_rescueVars

-----------------------------------------------------------------------------
(* Properties *)

\* Whether a request is rescued depends on its own exception alone: on whether
\* some expected type can hold it and neither IgnoreTypes nor IgnoreAjax exempt
\* it, never on the requests that used the attribute before or meanwhile.
RescuesItsExceptions ==
    \A r \in Rescued : stage[r] = "done" =>
        (r \in handled <=>
            /\ \E i \in DOMAIN setting.exceptionTypes :
                    setting.exceptionTypes[i] \in Assignable[thrown[r]]
            /\ thrown[r] \notin setting.ignoreTypes
            /\ ~(setting.ignoreAjax /\ ajax[r]))

\* A view named after the exception, or the expected type it is an instance of, exists.
HasView(r) == ViewExists(thrown[r]) \/ ViewExists(Expected(r))

\* Autolocation has found a view for the request.
Located(r) == (stage[r] = "result" \/ r \in handled) /\ setting.autoLocate /\ HasView(r)

\* A request for which a view was located renders a view that exists, whatever the
\* requests before and meanwhile have written to the field.  The given view is
\* rendered by every request as long as none has located a view, so always when
\* AutoLocate is off; later RendersSpecified fails.
RendersGivenOrExisting ==
    \A r \in handled :
        /\ Located(r) => ViewExists(rendered[r])
        /\ (\A q \in Rescued : ~Located(q)) => rendered[r] = DefaultView

\* The class comment (RescueAttribute.cs:10-11) says the attribute will "render the
\* specified view if no matching exception view is found": without overlapping
\* requests, one that has no view of its own renders the given one.
RendersSpecified ==
    \A r \in handled : ~crossed /\ ~HasView(r) => rendered[r] = DefaultView

\* If a view with the name of the exception exists, it is rendered in preference
\* to that of the expected type and to the one left in the field, as long as
\* requests do not overlap.
ExactViewFirst ==
    \A r \in handled :
        ~crossed /\ setting.autoLocate /\ ViewExists(thrown[r]) => rendered[r] = thrown[r]
=============================================================================
