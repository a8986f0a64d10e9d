--------------------------- MODULE MvcTransaction ----------------------------
(***************************************************************************)
(* MvcTransactionAttribute (src/MvcContrib.Castle): an action filter that  *)
(* begins a transaction before the action and commits it or rolls it back  *)
(* after it.  The transaction and the flag rolledback are fields of the    *)
(* attribute.  ASP.NET MVC 4, which the project references, reuses the     *)
(* attribute instance for every request to the action, so a step is one    *)
(* access to these fields.  Transactions and their manager (Castle) are    *)
(* external: every call to them may succeed or throw.                      *)
(***************************************************************************)
EXTENDS Naturals, Sequences

CONSTANT
    Requests        \* requests to the action

VARIABLES
    transaction,    \* the attribute's field: an index of txs, or null
    rolledback,     \* the attribute's flag
    txs,            \* the transactions created so far
    at,             \* where each request is
    exception,      \* the exception that is propagating in each request
    outcome,        \* history: how each request's action ended
    own,            \* history: the transaction created for each request
    faulted,        \* history: requests in which Castle or the locator threw
    overlapped      \* history: two requests have been in the filter at once

fields == <<transaction, rolledback>>
txVars == <<fields, txs, at, exception, outcome, own, faulted, overlapped>>

Null == 0
Exceptions == {"none", "TransactionException", "Exception"}
Thrown == Exceptions \ {"none"}
Outcomes == Exceptions \cup {"notrun"}
Transactions == [owner: Requests, status: {"new", "active", "committed", "rolledback"},
                 rollbackOnly: BOOLEAN, rollbacks: Nat,
                 disposal: {"none", "refused", "done"}]
PCs == {"idle", "executing", "create", "test", "begin", "action", "executed", "try",
        "flag", "rollback", "commit", "catch", "undo", "dispose", "clear", "done"}

\* Inside the try of OnActionExecuted, or in its catch and finally.
AfterAction == {"try", "flag", "rollback", "commit", "catch", "undo", "dispose", "clear"}

\* The try has not thrown yet, and a TransactionException passes the catch by.
Catches(r) ==
    /\ at[r] \in {"try", "flag", "rollback", "commit"} => exception[r] = "none"
    /\ at[r] \in {"catch", "undo"} => exception[r] = "Exception"

TxTypeOK ==
    /\ transaction \in 0..Len(txs) /\ rolledback \in BOOLEAN
    /\ txs \in Seq(Transactions)
    /\ at \in [Requests -> PCs]
    /\ exception \in [Requests -> Exceptions]
    /\ outcome \in [Requests -> Outcomes]
    /\ own \in [Requests -> Nat]
    /\ faulted \subseteq Requests /\ overlapped \in BOOLEAN
    /\ \A r \in Requests : Catches(r)

TxInit ==
    /\ transaction = Null /\ rolledback = FALSE
    /\ txs = <<>>
    /\ at = [r \in Requests |-> "idle"]
    /\ exception = [r \in Requests |-> "none"]
    /\ outcome = [r \in Requests |-> "notrun"]
    /\ own = [r \in Requests |-> Null]
    /\ faulted = {} /\ overlapped = FALSE

Goto(r, to) == at' = [at EXCEPT ![r] = to]

\* A call throws e in the course of r, and control passes to to.
Fault(r, e, to) ==
    /\ exception' = [exception EXCEPT ![r] = e]
    /\ faulted' = faulted \cup {r}
    /\ Goto(r, to)
    /\ UNCHANGED txs

-----------------------------------------------------------------------------
(* OnActionExecuting *)

\* A request reaches the filter.
Start(r) ==
    /\ at[r] = "idle"
    /\ overlapped' = (overlapped \/ \E q \in Requests : at[q] \notin {"idle", "done"})
    /\ Goto(r, "executing")
    /\ UNCHANGED <<fields, txs, exception, outcome, own, faulted>>

\* Variant of Reset: the flag of the previous request stays.
ResetOmitted(r) ==
    /\ at[r] = "executing"
    /\ Goto(r, "create")
    /\ UNCHANGED <<fields, txs, exception, outcome, own, faulted, overlapped>>

Reset(r) ==
    /\ at[r] = "executing"
    /\ rolledback' = FALSE
    /\ Goto(r, "create")
    /\ UNCHANGED <<transaction, txs, exception, outcome, own, faulted, overlapped>>

\* The manager returns a transaction, or null where the mode asks for none; if
\* it throws, or none is found, OnActionExecuting throws and OnActionExecuted
\* will not run.
CreateTransaction(r) ==
    /\ at[r] = "create"
    /\ \/ /\ txs' = Append(txs, [owner |-> r, status |-> "new", rollbackOnly |-> FALSE,
                                 rollbacks |-> 0, disposal |-> "none"])
          /\ transaction' = Len(txs')
          /\ own' = [own EXCEPT ![r] = Len(txs')]
          /\ Goto(r, "test") /\ UNCHANGED <<exception, faulted>>
       \/ /\ transaction' = Null
          /\ Goto(r, "test") /\ UNCHANGED <<txs, own, exception, faulted>>
       \/ /\ \E e \in Thrown : Fault(r, e, "done")
          /\ UNCHANGED <<transaction, own>>
    /\ UNCHANGED <<rolledback, outcome, overlapped>>

Test(r) ==
    /\ at[r] = "test"
    /\ Goto(r, IF transaction = Null THEN "action" ELSE "begin")
    /\ UNCHANGED <<fields, txs, exception, outcome, own, faulted, overlapped>>

\* Begin of whatever the field holds now.
Begin(r) ==
    /\ at[r] = "begin"
    /\ \/ /\ transaction # Null /\ txs[transaction].status = "new"
          /\ txs' = [txs EXCEPT ![transaction].status = "active"]
          /\ Goto(r, "action")
          /\ UNCHANGED <<exception, faulted>>
       \/ \E e \in Thrown : Fault(r, e, "done")
    /\ UNCHANGED <<fields, outcome, own, overlapped>>

\* The action runs: it may throw, and may set RollbackOnly on its transaction.
RunAction(r) ==
    /\ at[r] = "action"
    /\ \E e \in Exceptions, only \in BOOLEAN :
        /\ outcome' = [outcome EXCEPT ![r] = e]
        /\ exception' = [exception EXCEPT ![r] = e]
        /\ txs' = IF own[r] = Null THEN txs ELSE [txs EXCEPT ![own[r]].rollbackOnly = only]
    /\ Goto(r, "executed")
    /\ UNCHANGED <<fields, own, faulted, overlapped>>

-----------------------------------------------------------------------------
(* OnActionExecuted *)

\* Variant of Handler: one catch for every exception.
HandlerOfAll == [e \in Exceptions |-> "catch"]

\* Where an exception thrown in the try goes: a TransactionException is rethrown.
Handler == [e \in Exceptions |-> IF e = "TransactionException" THEN "dispose" ELSE "catch"]

\* No transaction: "Transaction was never started", outside the try.
Executed(r) ==
    /\ at[r] = "executed"
    /\ IF transaction = Null
       THEN /\ exception' = [exception EXCEPT ![r] = "TransactionException"]
            /\ Goto(r, "done")
       ELSE /\ UNCHANGED exception
            /\ Goto(r, IF exception[r] = "none" THEN "try" ELSE Handler[exception[r]])
    /\ UNCHANGED <<fields, txs, outcome, own, faulted, overlapped>>

\* Dereferencing null throws into the catch.
NullReference(r, to) ==
    /\ exception' = [exception EXCEPT ![r] = "Exception"]
    /\ Goto(r, to)

\* The action returned: IsRollbackOnlySet decides, or throws.
Try(r) ==
    /\ at[r] = "try"
    /\ \/ /\ transaction = Null
          /\ NullReference(r, "catch")
          /\ UNCHANGED <<txs, faulted>>
       \/ /\ transaction # Null
          /\ Goto(r, IF txs[transaction].rollbackOnly THEN "flag" ELSE "commit")
          /\ UNCHANGED <<txs, exception, faulted>>
       \/ /\ transaction # Null
          /\ \E e \in Thrown : Fault(r, e, Handler[e])
    /\ UNCHANGED <<fields, outcome, own, overlapped>>

\* Variant of Flag: rolledback is set after Rollback only.
FlagOmitted(r) ==
    /\ at[r] = "flag"
    /\ Goto(r, "rollback")
    /\ UNCHANGED <<fields, txs, exception, outcome, own, faulted, overlapped>>

Flag(r) ==
    /\ at[r] = "flag"
    /\ rolledback' = TRUE
    /\ Goto(r, "rollback")
    /\ UNCHANGED <<transaction, txs, exception, outcome, own, faulted, overlapped>>

\* Rollback is called; it rolls an active transaction back, or throws.
CallRollback(r, handler) ==
    \/ /\ transaction # Null /\ txs[transaction].status = "active"
       /\ txs' = [txs EXCEPT ![transaction].rollbacks = @ + 1,
                             ![transaction].status = "rolledback"]
       /\ Goto(r, "dispose")
       /\ UNCHANGED <<exception, faulted>>
    \/ /\ transaction # Null
       /\ \E e \in Thrown :
            /\ exception' = [exception EXCEPT ![r] = e]
            /\ Goto(r, handler[e])
       /\ txs' = [txs EXCEPT ![transaction].rollbacks = @ + 1]
       /\ faulted' = faulted \cup {r}
    \/ /\ transaction = Null
       /\ NullReference(r, handler["Exception"])
       /\ UNCHANGED <<txs, faulted>>

Rollback(r) ==
    /\ at[r] = "rollback"
    /\ CallRollback(r, Handler)
    /\ UNCHANGED <<fields, outcome, own, overlapped>>

Commit(r) ==
    /\ at[r] = "commit"
    /\ \/ /\ transaction # Null /\ txs[transaction].status = "active"
          /\ txs' = [txs EXCEPT ![transaction].status = "committed"]
          /\ Goto(r, "dispose")
          /\ UNCHANGED <<exception, faulted>>
       \/ /\ transaction # Null
          /\ \E e \in Thrown : Fault(r, e, Handler[e])
       \/ /\ transaction = Null
          /\ NullReference(r, "catch")
          /\ UNCHANGED <<txs, faulted>>
    /\ UNCHANGED <<fields, outcome, own, overlapped>>

\* Any other exception: roll back, unless that has been tried.
Catch(r) ==
    /\ at[r] = "catch"
    /\ Goto(r, IF rolledback THEN "dispose" ELSE "undo")
    /\ UNCHANGED <<fields, txs, exception, outcome, own, faulted, overlapped>>

Undo(r) ==
    /\ at[r] = "undo"
    /\ CallRollback(r, [e \in Exceptions |-> "dispose"])
    /\ UNCHANGED <<fields, outcome, own, overlapped>>

\* The manager disposes of the transaction of the field.  If it throws, or the
\* locator does, or the field is null, the field is not cleared.
Dispose(r) ==
    /\ at[r] = "dispose"
    /\ \/ /\ transaction # Null
          /\ txs' = [txs EXCEPT ![transaction].disposal = "done"]
          /\ Goto(r, "clear")
          /\ UNCHANGED <<exception, faulted>>
       \/ /\ \E e \in Thrown : exception' = [exception EXCEPT ![r] = e]
          /\ txs' = IF transaction = Null THEN txs
                    ELSE [txs EXCEPT ![transaction].disposal = "refused"]
          /\ faulted' = faulted \cup {r}
          /\ Goto(r, "done")
    /\ UNCHANGED <<fields, outcome, own, overlapped>>

\* transaction = null, the last statement of the finally.
Clear(r) ==
    /\ at[r] = "clear"
    /\ transaction' = Null
    /\ Goto(r, "done")
    /\ UNCHANGED <<rolledback, txs, exception, outcome, own, faulted, overlapped>>

AllFinished == (\A r \in Requests : at[r] = "done") /\ UNCHANGED txVars

Step(r) ==
    \/ Reset(r) \/ CreateTransaction(r) \/ Test(r) \/ Begin(r) \/ RunAction(r)
    \/ Executed(r) \/ Try(r) \/ Flag(r) \/ Rollback(r) \/ Commit(r)
    \/ Catch(r) \/ Undo(r) \/ Dispose(r) \/ Clear(r)

TxNext == (\E r \in Requests : Start(r) \/ Step(r)) \/ AllFinished

TxSpec == TxInit /\ [][TxNext]_txVars

-----------------------------------------------------------------------------
(* Properties.  Requests that overlap share the fields of the attribute, and   *)
(* what a request does to its own transaction holds only while none have.     *)

Ended(r) == at[r] = "done" /\ r \notin faulted /\ own[r] # Null

\* "Thrown Exceptions will cause a rollback" (the comment on the attribute,
\* MvcTransactionAttribute.cs:25): when the action has thrown one of these and
\* Castle has not thrown, the transaction is rolled back.
RollsBackOn(thrown) ==
    \A r \in Requests : Ended(r) /\ outcome[r] \in thrown =>
        txs[own[r]].status = "rolledback"

\* The comment, of exceptions other than Castle's TransactionException.
ThrownRollsBack == RollsBackOn({"Exception"})

\* The comment as it stands, of any exception, without overlapping requests.
AnyThrownRollsBack == ~overlapped => RollsBackOn(Thrown)

\* The outcome of the action decides what becomes of its transaction, whatever an
\* earlier request left in the fields of the attribute: when Castle has not
\* thrown, it is rolled back if the action threw or asked for a rollback,
\* committed if it returned, and after a TransactionException of the action it is
\* disposed of as it is, neither committed nor rolled back.  And none is
\* committed whose action threw or asked for a rollback, even if Castle threw.
OutcomeDecides ==
    ~overlapped =>
        /\ \A r \in Requests : Ended(r) =>
            txs[own[r]].status =
                CASE outcome[r] = "none" /\ ~txs[own[r]].rollbackOnly -> "committed"
                  [] outcome[r] = "TransactionException" -> "active"
                  [] OTHER -> "rolledback"
        /\ \A i \in DOMAIN txs : txs[i].status = "committed" =>
            outcome[txs[i].owner] = "none" /\ ~txs[i].rollbackOnly

\* No transaction leaks: one that was begun has been handed to the manager to
\* dispose of by the time its request ends, however often Castle threw before
\* that, and it has been disposed of unless the manager itself threw then.  None
\* is rolled back twice, even when Rollback throws (the flag rolledback).
CompletedOnce ==
    ~overlapped =>
        /\ \A i \in DOMAIN txs : txs[i].rollbacks <= 1
        /\ \A r \in Requests :
            at[r] = "done" /\ own[r] # Null /\ txs[own[r]].status # "new" =>
                /\ txs[own[r]].disposal # "none"
                /\ r \notin faulted => txs[own[r]].disposal = "done"
=============================================================================
