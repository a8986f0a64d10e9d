----------------------------- MODULE RescueProofs -----------------------------
(***************************************************************************)
(* Proofs about Rescue, for every set of requests and of exception types,  *)
(* every assignability between them and every setting: requests share the  *)
(* view's name, and nevertheless each is rescued or not on its own account, *)
(* and what is rendered exists.                                            *)
(***************************************************************************)
EXTENDS Rescue, TLAPS

Exempt(r) ==
    \/ thrown[r] \in setting.ignoreTypes
    \/ setting.ignoreAjax /\ ajax[r]

\* The expected types before the one a request is at cannot hold its exception.
NoneBefore(r) ==
    \A i \in DOMAIN setting.exceptionTypes :
        i < next[r] => setting.exceptionTypes[i] \notin Assignable[thrown[r]]

\* A request beyond the loop has found an expected type that can.
Found(r) == next[r] \in DOMAIN setting.exceptionTypes /\ Matches(r)

\* What a request has established when it is at its pc.
Established(r) ==
    /\ r \in handled => stage[r] = "done"
    /\ NoneBefore(r)
    /\ stage[r] \in {"loop", "locate", "nameBase", "nameExpected", "result"} => ~Exempt(r)
    /\ stage[r] \in {"locate", "nameBase", "nameExpected", "result"} => Found(r)
    /\ stage[r] \in {"locate", "nameBase", "nameExpected"} => setting.autoLocate
    /\ stage[r] = "nameBase" => ViewExists(thrown[r])
    /\ stage[r] = "nameExpected" => ViewExists(Expected(r))

\* The field names the given view until a view is located, and then one that exists,
\* whoever wrote it last.
FieldNamesView ==
    /\ view = DefaultView \/ ViewExists(view)
    /\ \A r \in Rescued : stage[r] = "result" /\ Located(r) => ViewExists(view)
    /\ (\A q \in Rescued : ~Located(q)) => view = DefaultView

IInv ==
    /\ RescueTypeOK
    /\ \A r \in Rescued : Established(r)
    /\ FieldNamesView
    /\ RescuesItsExceptions
    /\ RendersGivenOrExisting

Active(r) == stage[r] \notin {"idle", "done"}

\* As long as no two requests have been in the filter at once, the field is the
\* view of the one that is: of its exception, if there is such a view.
Alone ==
    ~crossed =>
        /\ \A q, r \in Rescued : Active(q) /\ Active(r) => q = r
        /\ \A r \in Rescued : setting.autoLocate /\ ViewExists(thrown[r]) =>
            /\ stage[r] # "nameExpected"
            /\ stage[r] = "result" => view = thrown[r]
            /\ r \in handled => rendered[r] = thrown[r]

-----------------------------------------------------------------------------

LEMMA SettingFacts ==
    ASSUME RescueTypeOK
    PROVE  /\ Len(setting.exceptionTypes) \in Nat
           /\ DOMAIN setting.exceptionTypes = 1..Len(setting.exceptionTypes)
           /\ \A i \in DOMAIN setting.exceptionTypes : setting.exceptionTypes[i] \in Types
<1>1. setting \in SettingRecords
  BY SettingAssumption DEF RescueTypeOK
<1>2. setting.exceptionTypes \in Seq(Types)
  BY <1>1 DEF SettingRecords
<1> QED
  BY <1>2

LEMMA InitHolds == RescueInit => IInv
<1> SUFFICES ASSUME RescueInit PROVE IInv
  OBVIOUS
<1>1. RescueTypeOK
  <2>1. setting \in SettingRecords
    BY SettingAssumption DEF RescueInit
  <2>2. Len(setting.exceptionTypes) \in Nat
    BY <2>1 DEF SettingRecords
  <2>3. next \in [Rescued -> 1..Len(setting.exceptionTypes) + 1]
    BY <2>2 DEF RescueInit
  <2> QED
    BY <2>3 DEF RescueInit, RescueTypeOK, RescuePCs
<1>2. \A r \in Rescued : Established(r)
  <2> SUFFICES ASSUME NEW r \in Rescued PROVE Established(r)
    OBVIOUS
  <2>1. stage[r] = "idle" /\ next[r] = 1 /\ handled = {}
    BY DEF RescueInit
  <2>2. NoneBefore(r)
    BY <1>1, <2>1, SettingFacts DEF NoneBefore
  <2> QED
    BY <2>1, <2>2 DEF Established
<1>3. FieldNamesView
  BY DEF RescueInit, FieldNamesView
<1>4. RescuesItsExceptions /\ RendersGivenOrExisting
  BY DEF RescueInit, RescuesItsExceptions, RendersGivenOrExisting, Located, HasView, Expected
<1> QED
  BY <1>1, <1>2, <1>3, <1>4 DEF IInv

\* A step of t that neither renders nor names a view and does not end in "done"
\* keeps the invariant if it keeps t's type and what t has established.
LEMMA QuietStepKeeps ==
    ASSUME IInv, NEW t \in Rescued, RescueTypeOK', Established(t)',
           UNCHANGED <<setting, view, thrown, ajax, rendered, handled>>,
           \A u \in Rescued : u # t => stage'[u] = stage[u] /\ next'[u] = next[u],
           stage[t] # "result", stage'[t] # "done", ~Located(t)'
    PROVE  IInv'
<1>1. \A r \in Rescued : Established(r)'
  BY DEF IInv, Established, NoneBefore, Found, Matches, Expected, Exempt, ViewExists
<1>2. \A r \in Rescued : Located(r)' <=> Located(r)
  <2>1. ~Located(t) /\ ~Located(t)'
    BY DEF Located, IInv, Established
  <2>2. ASSUME NEW r \in Rescued, r # t PROVE Located(r)' <=> Located(r)
    <3>1. Expected(r)' = Expected(r) /\ stage'[r] = stage[r]
      BY <2>2 DEF Expected
    <3> QED
      BY <3>1 DEF Located, HasView, ViewExists
  <2> QED
    BY <2>1, <2>2
<1>4. FieldNamesView' /\ RendersGivenOrExisting'
  <2>1. \A r \in Rescued : stage'[r] = "result" /\ Located(r) => stage[r] = "result"
    BY <1>2 DEF Located, IInv, Established
  <2>2. handled \subseteq Rescued
    BY DEF IInv, RescueTypeOK
  <2> QED
    BY <1>2, <2>1, <2>2 DEF IInv, FieldNamesView, RendersGivenOrExisting, ViewExists
<1>3. RescuesItsExceptions'
  BY DEF IInv, RescuesItsExceptions
<1> QED
  BY <1>1, <1>3, <1>4 DEF IInv

LEMMA OnExceptionKeeps == ASSUME IInv, NEW t \in Rescued, OnException(t) PROVE IInv'
<1>1. RescueTypeOK'
  BY DEF IInv, RescueTypeOK, OnException, RescueAt, RescuePCs
<1>2. Established(t)'
  BY DEF IInv, RescueTypeOK, OnException, RescueAt, Established, NoneBefore
<1>3. stage[t] = "idle" /\ stage'[t] = "ajax" /\ ~Located(t)'
  BY DEF IInv, RescueTypeOK, OnException, RescueAt, Established, Located
<1> QED
  BY <1>1, <1>2, <1>3, QuietStepKeeps DEF OnException, RescueAt, IInv, RescueTypeOK

\* A request that leaves the filter unrescued had every reason to.
LEMMA UnrescuedStepKeeps ==
    ASSUME IInv, NEW t \in Rescued, RescueTypeOK', t \notin handled,
           UNCHANGED <<setting, view, thrown, ajax, next, rendered, handled>>,
           \A u \in Rescued : u # t => stage'[u] = stage[u],
           stage[t] # "result", stage'[t] = "done",
           \/ Exempt(t)
           \/ \A i \in DOMAIN setting.exceptionTypes :
                setting.exceptionTypes[i] \notin Assignable[thrown[t]]
    PROVE  IInv'
<1>1. \A r \in Rescued : Established(r)'
  BY DEF IInv, Established, NoneBefore, Found, Matches, Expected, Exempt, ViewExists
<1>2. \A r \in Rescued : Located(r)' <=> Located(r)
  <2>1. ~Located(t) /\ ~Located(t)'
    BY DEF Located
  <2>2. ASSUME NEW r \in Rescued, r # t PROVE Located(r)' <=> Located(r)
    <3>1. Expected(r)' = Expected(r) /\ stage'[r] = stage[r]
      BY <2>2 DEF Expected
    <3> QED
      BY <3>1 DEF Located, HasView, ViewExists
  <2> QED
    BY <2>1, <2>2
<1>4. FieldNamesView' /\ RendersGivenOrExisting'
  <2>1. \A r \in Rescued : stage'[r] = "result" /\ Located(r) => stage[r] = "result"
    BY <1>2 DEF Located, IInv, Established
  <2>2. handled \subseteq Rescued
    BY DEF IInv, RescueTypeOK
  <2> QED
    BY <1>2, <2>1, <2>2 DEF IInv, FieldNamesView, RendersGivenOrExisting, ViewExists
<1>3. RescuesItsExceptions'
  BY DEF IInv, RescuesItsExceptions, Exempt
<1> QED
  BY <1>1, <1>3, <1>4 DEF IInv

LEMMA IgnoreKeeps == ASSUME IInv, NEW t \in Rescued, Ignore(t) PROVE IInv'
<1>1. RescueTypeOK'
  BY DEF IInv, RescueTypeOK, Ignore, RescueAt, RescuePCs
<1>2. t \notin handled
  BY DEF IInv, Established, Ignore
<1>3. CASE Exempt(t)
  BY <1>1, <1>2, <1>3, UnrescuedStepKeeps DEF Ignore, RescueAt, Exempt, IInv, RescueTypeOK
<1>4. CASE ~Exempt(t)
  <2>1. stage' = [stage EXCEPT ![t] = "loop"]
    BY <1>4 DEF Ignore, RescueAt, Exempt
  <2>2. Established(t)'
    BY <2>1, <1>2, <1>4 DEF IInv, RescueTypeOK, Ignore, Established, NoneBefore, Exempt
  <2>3. stage[t] = "ajax" /\ stage'[t] = "loop" /\ ~Located(t)'
    BY <1>2, <2>1 DEF IInv, RescueTypeOK, Ignore, Located
  <2> QED
    BY <1>1, <2>1, <2>2, <2>3, QuietStepKeeps DEF Ignore, IInv, RescueTypeOK
<1> QED
  BY <1>3, <1>4

LEMMA LoopKeeps == ASSUME IInv, NEW t \in Rescued, Loop(t) PROVE IInv'
<1> DEFINE n == Len(setting.exceptionTypes)
<1>0. /\ n \in Nat /\ DOMAIN setting.exceptionTypes = 1..n
      /\ next \in [Rescued -> 1..n + 1] /\ stage \in [Rescued -> RescuePCs]
      /\ t \notin handled /\ NoneBefore(t) /\ ~Exempt(t)
  BY SettingFacts DEF IInv, RescueTypeOK, Established, Loop
<1>1. CASE next[t] > n
  <2>1. RescueTypeOK'
    BY <1>1 DEF IInv, RescueTypeOK, Loop, RescueAt, RescuePCs
  <2>2. \A i \in DOMAIN setting.exceptionTypes :
            setting.exceptionTypes[i] \notin Assignable[thrown[t]]
    BY <1>0, <1>1 DEF NoneBefore
  <2> QED
    BY <1>0, <1>1, <2>1, <2>2, UnrescuedStepKeeps DEF Loop, RescueAt
<1>2. CASE next[t] <= n /\ Matches(t)
  <2>1. RescueTypeOK'
    BY <1>0, <1>2 DEF IInv, RescueTypeOK, Loop, RescueAt, RescuePCs
  <2>2. /\ stage' = [stage EXCEPT ![t] = IF setting.autoLocate THEN "locate" ELSE "result"]
        /\ UNCHANGED <<setting, view, thrown, ajax, next, rendered, handled>>
    BY <1>0, <1>2 DEF Loop, RescueAt
  <2>3. Established(t)'
    BY <1>0, <1>2, <2>2 DEF Established, NoneBefore, Found, Matches, Expected, Exempt
  <2>4. stage[t] = "loop" /\ stage'[t] # "done" /\ ~Located(t)'
    BY <1>0, <2>2 DEF Loop, Located
  <2> QED
    BY <1>0, <2>1, <2>2, <2>3, <2>4, QuietStepKeeps
<1>3. CASE next[t] <= n /\ ~Matches(t)
  <2>1. /\ next' = [next EXCEPT ![t] = @ + 1]
        /\ UNCHANGED <<setting, view, stage, thrown, ajax, rendered, handled, crossed>>
    BY <1>0, <1>3 DEF Loop
  <2>2. RescueTypeOK'
    BY <1>0, <1>3, <2>1 DEF IInv, RescueTypeOK
  <2>3. Established(t)'
    <3>1. NoneBefore(t)'
      BY <1>0, <1>3, <2>1 DEF NoneBefore, Matches, Expected
    <3> QED
      BY <1>0, <2>1, <3>1 DEF Established, Exempt, Loop
  <2>4. stage[t] = "loop" /\ stage'[t] = "loop" /\ ~Located(t)'
    BY <1>0, <2>1 DEF Loop, Located
  <2> QED
    BY <1>0, <2>1, <2>2, <2>3, <2>4, QuietStepKeeps
<1> QED
  BY <1>0, <1>1, <1>2, <1>3

LEMMA LocateKeeps == ASSUME IInv, NEW t \in Rescued, Locate(t) PROVE IInv'
<1>0. /\ stage \in [Rescued -> RescuePCs] /\ Established(t) /\ stage[t] = "locate"
  BY DEF IInv, RescueTypeOK, Locate
<1>1. /\ UNCHANGED <<setting, view, thrown, ajax, next, rendered, handled, crossed>>
      /\ \/ ViewExists(thrown[t]) /\ stage' = [stage EXCEPT ![t] = "nameBase"]
         \/ ViewExists(Expected(t)) /\ stage' = [stage EXCEPT ![t] = "nameExpected"]
         \/ ~HasView(t) /\ stage' = [stage EXCEPT ![t] = "result"]
  BY DEF Locate, RescueAt, HasView
<1>2. RescueTypeOK'
  BY <1>0, <1>1 DEF IInv, RescueTypeOK, RescuePCs
<1>3. Established(t)'
  BY <1>0, <1>1 DEF Established, NoneBefore, Found, Matches, Expected, Exempt, ViewExists
<1>4. stage'[t] # "done" /\ ~Located(t)'
  BY <1>0, <1>1 DEF Established, Located, HasView, ViewExists, Expected
<1> QED
  BY <1>0, <1>1, <1>2, <1>3, <1>4, QuietStepKeeps

LEMMA NameViewKeeps == ASSUME IInv, NEW t \in Rescued, NameView(t) PROVE IInv'
<1>0. /\ stage \in [Rescued -> RescuePCs] /\ thrown \in [Rescued -> Types]
      /\ Established(t) /\ stage[t] \in {"nameBase", "nameExpected"}
      /\ next[t] \in DOMAIN setting.exceptionTypes
      /\ Expected(t) \in Types
  BY SettingFacts DEF IInv, RescueTypeOK, NameView, Established, Found, Expected
<1>1. /\ UNCHANGED <<setting, thrown, ajax, next, rendered, handled, crossed>>
      /\ view' \in Types /\ ViewExists(view')
      /\ stage' = [stage EXCEPT ![t] = "result"]
  BY <1>0 DEF NameView, RescueAt, Established
<1>2. RescueTypeOK'
  BY <1>0, <1>1 DEF IInv, RescueTypeOK, RescuePCs
<1>3. \A r \in Rescued : Established(r)'
  BY <1>0, <1>1 DEF IInv, Established, NoneBefore, Found, Matches, Expected, Exempt, ViewExists
<1>4. FieldNamesView' /\ RendersGivenOrExisting'
  BY <1>0, <1>1 DEF IInv, FieldNamesView, RendersGivenOrExisting, Located, HasView,
     Expected, ViewExists,
     Established
<1>5. RescuesItsExceptions'
  BY <1>0, <1>1 DEF IInv, RescuesItsExceptions
<1> QED
  BY <1>2, <1>3, <1>4, <1>5 DEF IInv

LEMMA CreateActionResultKeeps ==
    ASSUME IInv, NEW t \in Rescued, CreateActionResult(t) PROVE IInv'
<1>0. /\ stage \in [Rescued -> RescuePCs] /\ Established(t) /\ stage[t] = "result"
      /\ rendered \in [Rescued -> Types \cup {DefaultView, NoView}]
      /\ view \in Types \cup {DefaultView}
      /\ handled \subseteq Rescued
  BY DEF IInv, RescueTypeOK, CreateActionResult
<1>1. /\ UNCHANGED <<setting, view, thrown, ajax, next, crossed>>
      /\ rendered' = [rendered EXCEPT ![t] = view]
      /\ handled' = handled \cup {t}
      /\ stage' = [stage EXCEPT ![t] = "done"]
  BY DEF CreateActionResult, RescueAt
<1>2. RescueTypeOK'
  BY <1>0, <1>1 DEF IInv, RescueTypeOK, RescuePCs
<1>3. \A r \in Rescued : Established(r)'
  BY <1>0, <1>1 DEF IInv, Established, NoneBefore, Found, Matches, Expected, Exempt, ViewExists
<1>4. FieldNamesView' /\ RendersGivenOrExisting'
  BY <1>0, <1>1 DEF IInv, FieldNamesView, RendersGivenOrExisting, Located, HasView,
     Expected, ViewExists
<1>5. RescuesItsExceptions'
  BY <1>0, <1>1 DEF IInv, RescuesItsExceptions, Established, Found, Matches, Expected, Exempt
<1> QED
  BY <1>2, <1>3, <1>4, <1>5 DEF IInv

LEMMA NextKeeps == IInv /\ [RescueNext]_rescueVars => IInv'
<1> SUFFICES ASSUME IInv, [RescueNext]_rescueVars PROVE IInv'
  OBVIOUS
<1>1. CASE \E r \in Rescued : OnException(r) \/ RescueStep(r)
  BY <1>1, OnExceptionKeeps, IgnoreKeeps, LoopKeeps, LocateKeeps, NameViewKeeps,
     CreateActionResultKeeps DEF RescueStep
<1>2. CASE UNCHANGED rescueVars
  BY <1>2 DEF rescueVars, IInv, RescueTypeOK, Established, NoneBefore, Found, Matches, Expected, Exempt,
     ViewExists, FieldNamesView, RescuesItsExceptions, RendersGivenOrExisting, Located, HasView, Expected
<1> QED
  BY <1>1, <1>2 DEF RescueNext, RescueFinished

LEMMA Invariance == RescueSpec => []IInv
BY InitHolds, NextKeeps, PTL DEF RescueSpec

-----------------------------------------------------------------------------

\* The variables of the filter keep their types.
THEOREM TypeCorrect == RescueSpec => []RescueTypeOK
<1>1. IInv => RescueTypeOK
  BY DEF IInv
<1> QED
  BY <1>1, Invariance, PTL

\* A request is rescued exactly when its exception is expected and not exempt:
\* sharing the attribute with other requests makes no difference.
THEOREM RescueIsItsOwn == RescueSpec => []RescuesItsExceptions
<1>1. IInv => RescuesItsExceptions
  BY DEF IInv
<1> QED
  BY <1>1, Invariance, PTL

\* Whichever requests share the attribute and however they interleave: one whose
\* view was located renders a view that exists, and until a view has been located
\* every one renders the given view (RescueAttribute.cs:104-124, :185).  What
\* requests without a view of their own render later is not claimed.
THEOREM RenderedViewExists == RescueSpec => []RendersGivenOrExisting
<1>1. IInv => RendersGivenOrExisting
  BY DEF IInv
<1> QED
  BY <1>1, Invariance, PTL

-----------------------------------------------------------------------------
(* Requests that follow each other *)

LEMMA AloneKeeps == IInv /\ Alone /\ [RescueNext]_rescueVars => Alone'
<1> SUFFICES ASSUME IInv, Alone, [RescueNext]_rescueVars, ~crossed' PROVE Alone'
  BY DEF Alone
<1>1. RescueTypeOK
  BY DEF IInv
<1>2. ~crossed
  BY DEF RescueNext, OnException, RescueStep, Ignore, Loop, Locate, NameView,
         CreateActionResult, RescueFinished,
         rescueVars
<1>3. /\ \A q, r \in Rescued : Active(q) /\ Active(r) => q = r
      /\ \A r \in Rescued : setting.autoLocate /\ ViewExists(thrown[r]) =>
            /\ stage[r] # "nameExpected"
            /\ stage[r] = "result" => view = thrown[r]
            /\ r \in handled => rendered[r] = thrown[r]
  BY <1>2 DEF Alone
<1>4. CASE UNCHANGED rescueVars
  BY <1>3, <1>4 DEF rescueVars, Alone, Active, ViewExists
<1>5. ASSUME NEW t \in Rescued, OnException(t) PROVE Alone'
  <2>1. \A q \in Rescued : ~Active(q)
    BY <1>5 DEF OnException, Active
  <2>2. /\ UNCHANGED <<setting, view, thrown, rendered, handled>>
        /\ \A q \in Rescued : q # t => stage'[q] = stage[q]
        /\ stage'[t] = "ajax"
    BY <1>1, <1>5 DEF OnException, RescueAt, RescueTypeOK
  <2> QED
    BY <1>3, <2>1, <2>2 DEF Alone, Active, ViewExists
<1>6. ASSUME NEW t \in Rescued, Ignore(t) \/ Loop(t) \/ Locate(t) PROVE Alone'
  <2>1. /\ UNCHANGED <<setting, view, thrown, rendered, handled>>
        /\ \A q \in Rescued : q # t => stage'[q] = stage[q]
        /\ Active(t)
    BY <1>1, <1>6 DEF Ignore, Loop, Locate, RescueAt, RescueTypeOK, Active
  <2>2. setting.autoLocate /\ ViewExists(thrown[t]) => stage'[t] \notin {"nameExpected", "result"}
    <3>1. CASE Ignore(t)
      BY <1>1, <3>1 DEF Ignore, RescueAt, RescueTypeOK
    <3>2. CASE Loop(t)
      BY <1>1, <3>2 DEF Loop, RescueAt, RescueTypeOK
    <3>3. CASE Locate(t)
      <4>1. ViewExists(thrown[t]) => stage' = [stage EXCEPT ![t] = "nameBase"]
        BY <3>3 DEF Locate, RescueAt
      <4> QED
        BY <1>1, <4>1 DEF RescueTypeOK
    <3> QED
      BY <1>6, <3>1, <3>2, <3>3
  <2> QED
    BY <1>3, <2>1, <2>2 DEF Alone, Active, ViewExists
<1>7. ASSUME NEW t \in Rescued, NameView(t) PROVE Alone'
  <2>1. /\ UNCHANGED <<setting, thrown, rendered, handled>>
        /\ \A q \in Rescued : q # t => stage'[q] = stage[q]
        /\ stage'[t] = "result" /\ Active(t)
        /\ stage[t] = "nameExpected" \/ view' = thrown[t]
    BY <1>1, <1>7 DEF NameView, RescueAt, RescueTypeOK, Active
  <2>2. \A q \in Rescued : q # t => ~Active(q)
    BY <1>3, <2>1
  <2> QED
    BY <1>3, <2>1, <2>2 DEF Alone, Active, ViewExists
<1>8. ASSUME NEW t \in Rescued, CreateActionResult(t) PROVE Alone'
  <2>1. /\ UNCHANGED <<setting, view, thrown>>
        /\ \A q \in Rescued : q # t => stage'[q] = stage[q] /\ rendered'[q] = rendered[q]
        /\ stage[t] = "result" /\ stage'[t] = "done" /\ rendered'[t] = view
        /\ handled' = handled \cup {t}
    BY <1>1, <1>8 DEF CreateActionResult, RescueAt, RescueTypeOK
  <2> QED
    BY <1>3, <2>1 DEF Alone, Active, ViewExists
<1> QED
  BY <1>4, <1>5, <1>6, <1>7, <1>8 DEF RescueNext, RescueStep, RescueFinished

\* A rescued request renders the view named after its exception, if there is
\* one, as long as requests use the attribute one after the other
\* (RescueAttribute.cs: the autolocation in OnException).
THEOREM OwnViewFirst == RescueSpec => []ExactViewFirst
<1>1. RescueInit => Alone
  BY DEF RescueInit, Alone, Active
<1>2. IInv /\ Alone => ExactViewFirst
  BY DEF IInv, RescueTypeOK, Alone, ExactViewFirst
<1> QED
  BY <1>1, <1>2, AloneKeeps, Invariance, PTL DEF RescueSpec

=============================================================================
