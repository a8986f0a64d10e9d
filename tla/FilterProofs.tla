----------------------------- MODULE FilterProofs -----------------------------
(*****************************************************************************)
(* Proofs about the action filters: MvcTransaction, for every set of         *)
(* requests, and TempDataFilters, for every set of windows, parameters and   *)
(* applications and any number of requests.  The two are independent; names  *)
(* of MvcTransaction's begin with Tx where both would have them.             *)
(*****************************************************************************)
EXTENDS MvcTransaction, TempDataFilters, FiniteSetTheorems, TLAPS

-----------------------------------------------------------------------------
(*****************************************************************************)
(* MvcTransaction.  The variables keep their types however requests          *)
(* overlap, and as long as none have, whatever earlier requests left in the  *)
(* attribute, every transaction ends the way its action did, and once.       *)
(*****************************************************************************)

Inside == PCs \ {"idle", "done"}

Own(r) == txs[own[r]]

\* Every transaction belongs to the one request it was created for, and none
\* exists for a request before that.
Owned ==
    /\ \A r \in Requests :
        /\ own[r] \in 0..Len(txs)
        /\ own[r] # Null => Own(r).owner = r
        /\ at[r] \in {"idle", "executing", "create"} => own[r] = Null
    /\ \A i \in DOMAIN txs : own[txs[i].owner] = i

Serial == \A q, r \in Requests : at[q] \in Inside /\ at[r] \in Inside => q = r

\* The field holds the transaction of the request, in this status.
Holds(r, status) ==
    transaction = own[r] /\ (own[r] # Null => Own(r).status = status)

\* No rollback has been called for.
Untried(r) ==
    ~rolledback /\ (own[r] # Null => Own(r).rollbacks = 0)

\* How the transaction of a request may look when its completion has been tried.
Decided(r) ==
    /\ Own(r).status # "new"
    /\ Own(r).rollbacks <= 1
    /\ Own(r).status = "committed" => outcome[r] = "none" /\ ~Own(r).rollbackOnly
    /\ r \notin faulted =>
        Own(r).status = CASE outcome[r] = "none" /\ ~Own(r).rollbackOnly -> "committed"
                          [] outcome[r] = "TransactionException" -> "active"
                          [] OTHER -> "rolledback"

\* What holds of a request at its place when requests do not overlap.
Stage(r) ==
    /\ at[r] = "create" => ~rolledback
    /\ at[r] \in {"test", "begin"} => Holds(r, "new") /\ Untried(r)
    /\ at[r] = "begin" => own[r] # Null
    /\ at[r] \in {"action", "executed", "try", "flag", "commit"} =>
        Holds(r, "active") /\ Untried(r)
    /\ at[r] \in {"executed"} => exception[r] = outcome[r] /\ outcome[r] # "notrun"
    /\ at[r] \in AfterAction => own[r] # Null /\ transaction = own[r]
    /\ at[r] \in {"try", "flag", "rollback", "commit"} => outcome[r] = "none"
    /\ at[r] = "commit" => ~Own(r).rollbackOnly
    /\ at[r] = "rollback" =>
        Own(r).status = "active" /\ Own(r).rollbacks = 0 /\ rolledback
    /\ at[r] \in {"catch", "undo"} =>
        /\ Own(r).status = "active"
        /\ outcome[r] = "Exception" \/ r \in faulted
        /\ IF rolledback THEN Own(r).rollbacks <= 1 /\ r \in faulted
                         ELSE Own(r).rollbacks = 0
    /\ at[r] = "undo" => ~rolledback
    /\ at[r] \in {"dispose", "clear"} => Decided(r)
    /\ at[r] \in {"flag", "rollback"} => Own(r).rollbackOnly
    /\ at[r] = "clear" => Own(r).disposal = "done"
    /\ at[r] = "done" /\ own[r] # Null =>
        IF Own(r).status = "new" THEN Own(r).rollbacks = 0 /\ r \in faulted
        ELSE /\ Decided(r) /\ Own(r).disposal # "none"
             /\ r \notin faulted => Own(r).disposal = "done"

TxIInv ==
    /\ TxTypeOK /\ Owned
    /\ ~overlapped => Serial /\ \A r \in Requests : Stage(r)

-----------------------------------------------------------------------------

\* No request has entered the filter and nothing has been created.
LEMMA TxInitHolds == TxInit => TxIInv
<1> SUFFICES ASSUME TxInit PROVE TxIInv
  OBVIOUS
<1>1. TxTypeOK
  <2>1. txs \in Seq(Transactions) /\ Len(txs) = 0
    BY DEF TxInit
  <2>2. transaction = 0 /\ rolledback \in BOOLEAN /\ faulted = {} /\ overlapped \in BOOLEAN
    BY DEF TxInit, Null
  <2>3. at \in [Requests -> PCs] /\ exception \in [Requests -> Exceptions]
    BY DEF TxInit, PCs, Exceptions
  <2>4. outcome \in [Requests -> Outcomes] /\ own \in [Requests -> Nat]
    BY DEF TxInit, Outcomes, Null
  <2>5. \A r \in Requests : Catches(r)
    BY DEF TxInit, Catches
  <2> QED
    BY <2>1, <2>2, <2>3, <2>4, <2>5 DEF TxTypeOK
<1>2. Owned /\ Serial
  BY DEF TxInit, Owned, Serial, Inside, Null
<1>3. ASSUME NEW r \in Requests PROVE Stage(r)
  BY DEF TxInit, Stage, AfterAction, Null
<1> QED
  BY <1>1, <1>2, <1>3 DEF TxIInv

\* What a step of r has to keep, when the other requests find everything that
\* is theirs as it was.
LEMMA StepKeeps ==
    ASSUME TxIInv, NEW r \in Requests, at[r] \in Inside, TxTypeOK', Owned',
           overlapped' = overlapped,
           \A q \in Requests : q # r =>
              /\ at'[q] = at[q] /\ own'[q] = own[q] /\ outcome'[q] = outcome[q]
              /\ q \in faulted' <=> q \in faulted
              /\ ~overlapped /\ own[q] # Null => Own(q)' = Own(q),
           ~overlapped => Stage(r)'
    PROVE  TxIInv'
<1> SUFFICES ASSUME ~overlapped PROVE Serial' /\ \A q \in Requests : Stage(q)'
  BY DEF TxIInv
<1>1. \A q \in Requests : q # r => at[q] \in {"idle", "done"}
  BY DEF TxIInv, TxTypeOK, Serial, Inside
<1>2. Serial'
  BY <1>1 DEF Serial, Inside
<1>3. ASSUME NEW q \in Requests, q # r PROVE Stage(q)'
  <2>1. Stage(q)
    BY DEF TxIInv
  <2>2. at'[q] = at[q] /\ at[q] \in {"idle", "done"}
    BY <1>1, <1>3
  <2> QED
    BY <2>1, <2>2, <1>3 DEF Stage, Decided, AfterAction
<1> QED
  BY <1>2, <1>3

-----------------------------------------------------------------------------
(* What a step does to the transactions created so far. *)

\* One transaction changes, and keeps its owner.
LEMMA TransactionChanges ==
    ASSUME TxTypeOK, NEW i \in DOMAIN txs, NEW t \in Transactions, t.owner = txs[i].owner,
           txs' = [txs EXCEPT ![i] = t]
    PROVE  /\ txs' \in Seq(Transactions) /\ Len(txs') = Len(txs)
           /\ txs'[i] = t
           /\ \A k \in DOMAIN txs : k # i => txs'[k] = txs[k]
           /\ \A k \in DOMAIN txs : txs'[k].owner = txs[k].owner
BY DEF TxTypeOK

\* Ownership stands when no transaction is created or changes hands.
LEMMA OwnedKeeps ==
    ASSUME TxTypeOK, Owned, txs' \in Seq(Transactions), Len(txs') = Len(txs),
           \A k \in DOMAIN txs : txs'[k].owner = txs[k].owner, own' = own,
           \A q \in Requests : at'[q] \in {"idle", "executing", "create"} =>
                               at[q] \in {"idle", "executing", "create"}
    PROVE  Owned'
<1>1. DOMAIN txs' = DOMAIN txs /\ DOMAIN txs = 1..Len(txs)
  BY DEF TxTypeOK
<1>2. ASSUME NEW q \in Requests
      PROVE  /\ own'[q] \in 0..Len(txs')
             /\ own'[q] # Null => txs'[own'[q]].owner = q
             /\ at'[q] \in {"idle", "executing", "create"} => own'[q] = Null
  BY <1>1 DEF Owned, Own, Null
<1>3. ASSUME NEW k \in DOMAIN txs' PROVE own'[txs'[k].owner] = k
  BY <1>1 DEF Owned
<1> QED
  BY <1>2, <1>3 DEF Owned, Own

\* A transaction is the one its owner was given.
LEMMA TransactionOwned ==
    ASSUME TxTypeOK, Owned, NEW i \in DOMAIN txs
    PROVE  txs[i].owner \in Requests /\ own[txs[i].owner] = i /\ i # Null
<1>1. txs[i] \in Transactions /\ i # Null
  BY DEF TxTypeOK, Null
<1> QED
  BY <1>1 DEF Owned, Transactions

\* The transaction of a request is nobody else's.
LEMMA OwnTransaction ==
    ASSUME TxTypeOK, Owned, NEW r \in Requests
    PROVE  /\ own[r] \in 0..Len(txs)
           /\ own[r] # Null => own[r] \in DOMAIN txs /\ Own(r) \in Transactions /\ Own(r).owner = r
           /\ \A q \in Requests : q # r /\ own[q] # Null => own[q] # own[r]
BY DEF TxTypeOK, Owned, Own, Null

Early == {"idle", "executing", "create"}

\* Only the exception of r changes, to one that may be at its new place.
Raises(r) ==
    /\ exception' = exception \/ \E e \in Exceptions : exception' = [exception EXCEPT ![r] = e]
    /\ Catches(r)'

\* What a step of r at this place raises, nobody else has raised.
LEMMA CatchesKeeps ==
    ASSUME TxTypeOK, NEW r \in Requests, Raises(r),
           NEW to \in PCs, Goto(r, to)
    PROVE  exception' \in [Requests -> Exceptions] /\ \A q \in Requests : Catches(q)'
<1>1. exception' \in [Requests -> Exceptions]
  BY DEF Raises, TxTypeOK
<1>2. \A q \in Requests : q # r => exception'[q] = exception[q] /\ at'[q] = at[q]
  BY DEF Raises, Goto, TxTypeOK
<1> QED
  BY <1>1, <1>2 DEF Raises, Catches, TxTypeOK

\* A step of r that leaves every transaction as it was.
LEMMA Moves ==
    ASSUME TxIInv, NEW r \in Requests, at[r] \in Inside,
           NEW to \in PCs, Goto(r, to), to \in Early => at[r] \in Early,
           UNCHANGED <<txs, own, outcome, overlapped>>,
           transaction' \in 0..Len(txs), rolledback' \in BOOLEAN,
           Raises(r),
           faulted' = faulted \/ faulted' = faulted \cup {r},
           ~overlapped => Stage(r)'
    PROVE  TxIInv'
<1>1. at' \in [Requests -> PCs] /\ \A q \in Requests : q # r => at'[q] = at[q]
  BY DEF TxIInv, TxTypeOK, Goto
<1>2. TxTypeOK'
  BY <1>1, CatchesKeeps DEF TxIInv, TxTypeOK
<1>3. Owned'
  <2>1. \A q \in Requests : at'[q] \in Early => at[q] \in Early
    BY DEF TxIInv, TxTypeOK, Goto
  <2> QED
    BY <2>1, OwnedKeeps, <1>2 DEF TxIInv, TxTypeOK, Early
<1>4. \A q \in Requests : q # r =>
         /\ at'[q] = at[q] /\ own'[q] = own[q] /\ outcome'[q] = outcome[q]
         /\ q \in faulted' <=> q \in faulted
         /\ Own(q)' = Own(q)
  BY <1>1 DEF Own
<1> QED
  BY <1>2, <1>3, <1>4, StepKeeps

\* A step of r that changes a transaction: the one of the field, or r's own.
\* As long as requests have not overlapped, the two are the same.
LEMMA Completes ==
    ASSUME TxIInv, NEW r \in Requests, at[r] \in Inside,
           NEW to \in PCs \ Early, Goto(r, to),
           NEW i \in DOMAIN txs, NEW t \in Transactions, t.owner = txs[i].owner,
           txs' = [txs EXCEPT ![i] = t],
           ~overlapped => i = own[r],
           UNCHANGED <<own, fields, overlapped>>,
           Raises(r),
           outcome' \in [Requests -> Outcomes],
           \A q \in Requests : q # r => outcome'[q] = outcome[q],
           faulted' = faulted \/ faulted' = faulted \cup {r},
           ~overlapped => Stage(r)'
    PROVE  TxIInv'
<1>1. at' \in [Requests -> PCs] /\ \A q \in Requests : q # r => at'[q] = at[q]
  BY DEF TxIInv, TxTypeOK, Goto
<1>2. /\ txs' \in Seq(Transactions) /\ Len(txs') = Len(txs)
      /\ \A k \in DOMAIN txs : k # i => txs'[k] = txs[k]
      /\ \A k \in DOMAIN txs : txs'[k].owner = txs[k].owner
  BY TransactionChanges DEF TxIInv
<1>3. TxTypeOK'
  BY <1>1, <1>2, CatchesKeeps DEF TxIInv, TxTypeOK, fields
<1>4. Owned'
  <2>1. \A q \in Requests : at'[q] \in Early => at[q] \in Early
    BY DEF TxIInv, TxTypeOK, Goto
  <2> QED
    BY <2>1, <1>2, OwnedKeeps DEF TxIInv, Early
<1>5. ASSUME NEW q \in Requests, q # r
      PROVE  /\ at'[q] = at[q] /\ own'[q] = own[q] /\ outcome'[q] = outcome[q]
             /\ q \in faulted' <=> q \in faulted
             /\ ~overlapped /\ own[q] # Null => Own(q)' = Own(q)
  BY <1>1, <1>2, <1>5, OwnTransaction DEF Own, TxIInv
<1> QED
  BY <1>3, <1>4, <1>5, StepKeeps

-----------------------------------------------------------------------------
(* One lemma for each action. *)

\* A request that arrives: before the first overlap the others are idle or done.
LEMMA StartHolds == ASSUME TxIInv, NEW r \in Requests, Start(r) PROVE TxIInv'
<1>1. at' = [at EXCEPT ![r] = "executing"] /\ UNCHANGED <<fields, txs, exception, outcome, own, faulted>>
  BY DEF Start, Goto
<1>2. TxTypeOK'
  <2>1. at' \in [Requests -> PCs]
    BY <1>1 DEF TxIInv, TxTypeOK, PCs
  <2>2. overlapped' \in BOOLEAN
    BY DEF TxIInv, TxTypeOK, Start
  <2>3. \A q \in Requests : Catches(q)'
    BY <1>1 DEF TxIInv, TxTypeOK, Catches
  <2> QED
    BY <1>1, <2>1, <2>2, <2>3 DEF TxIInv, TxTypeOK, fields
<1>3. Owned'
  <2>1. \A q \in Requests : at'[q] \in Early => at[q] \in Early
    BY <1>1 DEF TxIInv, TxTypeOK, Start, Early
  <2> QED
    BY <1>1, <2>1, OwnedKeeps DEF TxIInv, TxTypeOK, Early
<1>4. SUFFICES ASSUME ~overlapped' PROVE Serial' /\ \A q \in Requests : Stage(q)'
  BY <1>2, <1>3 DEF TxIInv
<1>5. ~overlapped /\ \A q \in Requests : at[q] \in {"idle", "done"}
  BY <1>4 DEF Start, TxIInv, TxTypeOK
<1>6. Serial'
  BY <1>1, <1>5 DEF Serial, Inside, TxIInv, TxTypeOK
<1>7. ASSUME NEW q \in Requests PROVE Stage(q)'
  <2>1. CASE q = r
    <3>1. own[r] = Null
      BY DEF Start, TxIInv, Owned
    <3>2. at'[r] = "executing"
      BY <1>1 DEF TxIInv, TxTypeOK
    <3> QED
      BY <2>1, <1>1, <3>1, <3>2 DEF Stage, AfterAction
  <2>2. CASE q # r
    <3>1. at'[q] = at[q] /\ at[q] \in {"idle", "done"} /\ Stage(q)
      BY <1>1, <1>5, <2>2 DEF TxIInv, TxTypeOK
    <3> QED
      BY <3>1, <1>1 DEF Stage, AfterAction, Decided, Own
  <2> QED
    BY <2>1, <2>2
<1> QED
  BY <1>6, <1>7

LEMMA ResetHolds == ASSUME TxIInv, NEW r \in Requests, Reset(r) PROVE TxIInv'
<1>1. Goto(r, "create") /\ at[r] = "executing" /\ at'[r] = "create" /\ ~rolledback'
  BY DEF Reset, Goto, TxIInv, TxTypeOK
<1>2. own'[r] = Null
  BY DEF Reset, TxIInv, Owned
<1>3. Stage(r)'
  BY <1>1, <1>2 DEF Stage, AfterAction
<1>4. Raises(r)
  BY <1>1 DEF Reset, Raises, Catches
<1> QED
  BY <1>1, <1>3, <1>4, Moves DEF Reset, TxIInv, TxTypeOK, PCs, Early, Inside

LEMMA TestHolds == ASSUME TxIInv, NEW r \in Requests, Test(r) PROVE TxIInv'
<1> DEFINE to == IF transaction = Null THEN "action" ELSE "begin"
<1>1. Goto(r, to) /\ at[r] = "test" /\ at'[r] = to
  BY DEF Test, Goto, TxIInv, TxTypeOK
<1>2. ~overlapped => Stage(r)'
  BY <1>1 DEF Test, TxIInv, Stage, Holds, Untried, AfterAction, Own, fields
<1>3. Raises(r)
  BY <1>1 DEF Test, Raises, Catches
<1> QED
  BY <1>1, <1>2, <1>3, Moves DEF Test, TxIInv, TxTypeOK, PCs, Early, Inside, fields

LEMMA ExecutedHolds == ASSUME TxIInv, NEW r \in Requests, Executed(r) PROVE TxIInv'
<1>1. CASE transaction = Null
  <2>1. Goto(r, "done") /\ at[r] = "executed" /\ at'[r] = "done"
    BY <1>1 DEF Executed, Goto, TxIInv, TxTypeOK
  <2>2. ~overlapped => Stage(r)'
    BY <1>1, <2>1 DEF Executed, TxIInv, Stage, Holds, AfterAction, fields
  <2>3. Raises(r)
    BY <1>1, <2>1 DEF Executed, Raises, Catches, Exceptions
  <2> QED
    BY <2>1, <2>2, <2>3, Moves DEF Executed, TxIInv, TxTypeOK, PCs, Early, Inside, fields
<1>2. CASE transaction # Null
  <2> DEFINE to == IF exception[r] = "none" THEN "try" ELSE Handler[exception[r]]
  <2>1. Goto(r, to) /\ at[r] = "executed" /\ at'[r] = to
    BY <1>2 DEF Executed, Goto, TxIInv, TxTypeOK
  <2>2. /\ exception[r] \in {"none", "Exception", "TransactionException"}
        /\ exception[r] = "Exception" => to = "catch"
        /\ exception[r] = "TransactionException" => to = "dispose"
    BY DEF TxIInv, TxTypeOK, Exceptions, Handler
  <2>3. ~overlapped => Stage(r)'
    <3>1. SUFFICES ASSUME ~overlapped PROVE Stage(r)'
      OBVIOUS
    <3>2. /\ transaction' = own'[r] /\ own'[r] = own[r] /\ own[r] # Null
          /\ Own(r)' = Own(r) /\ Own(r).status = "active"
          /\ ~rolledback' /\ Own(r).rollbacks = 0
          /\ outcome'[r] = outcome[r] /\ exception[r] = outcome[r] /\ faulted' = faulted
      BY <1>2, <2>1, <3>1 DEF Executed, TxIInv, Stage, Holds, Untried, Own, fields
    <3> HIDE DEF to
    <3>3. CASE exception[r] = "none"
      BY <2>1, <3>2, <3>3 DEF Stage, Holds, Untried, AfterAction, to
    <3>4. CASE exception[r] = "Exception"
      BY <2>1, <2>2, <3>2, <3>4 DEF Stage, Holds, Untried, AfterAction
    <3>5. CASE exception[r] = "TransactionException"
      BY <2>1, <2>2, <3>2, <3>5 DEF Stage, Holds, Untried, AfterAction, Decided
    <3> QED
      BY <2>2, <3>3, <3>4, <3>5
  <2>4. Raises(r)
    BY <1>2, <2>1, <2>2 DEF Executed, Raises, Catches
  <2> QED
    BY <1>2, <2>1, <2>2, <2>3, <2>4, Moves
       DEF Executed, TxIInv, TxTypeOK, PCs, Early, Inside, fields
<1> QED
  BY <1>1, <1>2

\* A call throws in the try of r: its transaction is as it was.
LEMMA TryFaults ==
    ASSUME TxIInv, NEW r \in Requests, at[r] \in {"try", "commit"},
           NEW e \in Thrown, Fault(r, e, Handler[e]),
           UNCHANGED <<fields, outcome, own, overlapped>>
    PROVE  TxIInv'
<1>1. /\ faulted' = faulted \cup {r} /\ UNCHANGED txs /\ exception' = [exception EXCEPT ![r] = e]
      /\ Goto(r, Handler[e]) /\ Handler[e] \in {"catch", "dispose"} /\ at'[r] = Handler[e]
      /\ Handler[e] = "catch" => e = "Exception"
  BY DEF Fault, Goto, Handler, TxIInv, TxTypeOK, Exceptions, Thrown
<1>2. Raises(r)
  BY <1>1 DEF Raises, Catches, Thrown, TxIInv, TxTypeOK
<1>3. ~overlapped =>
        /\ own[r] # Null /\ transaction = own[r] /\ outcome[r] = "none"
        /\ Own(r).status = "active" /\ Own(r).rollbacks = 0 /\ ~rolledback
  BY DEF TxIInv, Stage, AfterAction, Holds, Untried
<1>4. ~overlapped => Stage(r)'
  <2>1. CASE Handler[e] = "dispose"
    BY <1>1, <1>3, <2>1 DEF Stage, AfterAction, Decided, Own, fields
  <2>2. CASE Handler[e] = "catch"
    BY <1>1, <1>3, <2>2 DEF Stage, AfterAction, Own, fields
  <2> QED
    BY <1>1, <2>1, <2>2
<1> QED
  BY <1>1, <1>2, <1>4, Moves DEF TxIInv, TxTypeOK, PCs, Early, Inside, fields

LEMMA TryHolds == ASSUME TxIInv, NEW r \in Requests, Try(r) PROVE TxIInv'
<1>1. at[r] = "try" /\ UNCHANGED <<fields, outcome, own, overlapped>>
  BY DEF Try
<1>2. CASE transaction = Null /\ NullReference(r, "catch") /\ UNCHANGED <<txs, faulted>>
  <2>1. Goto(r, "catch") /\ at'[r] = "catch" /\ exception' = [exception EXCEPT ![r] = "Exception"]
    BY <1>2 DEF NullReference, Goto, TxIInv, TxTypeOK
  <2>2. overlapped
    BY <1>1, <1>2 DEF TxIInv, Stage, AfterAction
  <2>3. Raises(r)
    BY <2>1 DEF Raises, Catches, Exceptions, TxIInv, TxTypeOK
  <2> QED
    BY <1>1, <1>2, <2>1, <2>2, <2>3, Moves DEF TxIInv, TxTypeOK, PCs, Early, Inside, fields
<1>3. CASE /\ transaction # Null
           /\ Goto(r, IF txs[transaction].rollbackOnly THEN "flag" ELSE "commit")
           /\ UNCHANGED <<txs, exception, faulted>>
  <2> DEFINE to == IF txs[transaction].rollbackOnly THEN "flag" ELSE "commit"
  <2>1. Goto(r, to) /\ at'[r] = to
    BY <1>3 DEF Goto, TxIInv, TxTypeOK
  <2>2. ~overlapped => Stage(r)'
    BY <1>1, <1>3, <2>1 DEF TxIInv, Stage, Holds, Untried, AfterAction, Own, fields
  <2>3. Raises(r)
    BY <1>1, <1>3, <2>1 DEF Raises, Catches, TxIInv, TxTypeOK
  <2> QED
    BY <1>1, <1>3, <2>1, <2>2, <2>3, Moves DEF TxIInv, TxTypeOK, PCs, Early, Inside, fields
<1>4. CASE \E e \in Thrown : Fault(r, e, Handler[e])
  BY <1>1, <1>4, TryFaults
<1> QED
  BY <1>2, <1>3, <1>4 DEF Try

LEMMA FlagHolds == ASSUME TxIInv, NEW r \in Requests, Flag(r) PROVE TxIInv'
<1>1. Goto(r, "rollback") /\ at[r] = "flag" /\ at'[r] = "rollback" /\ rolledback'
  BY DEF Flag, Goto, TxIInv, TxTypeOK
<1>2. ~overlapped => Stage(r)'
  BY <1>1 DEF Flag, TxIInv, Stage, Holds, Untried, AfterAction, Own
<1>3. Raises(r)
  BY <1>1 DEF Flag, Raises, Catches, TxIInv, TxTypeOK
<1> QED
  BY <1>1, <1>2, <1>3, Moves DEF Flag, TxIInv, TxTypeOK, PCs, Early, Inside

LEMMA CatchHolds == ASSUME TxIInv, NEW r \in Requests, Catch(r) PROVE TxIInv'
<1> DEFINE to == IF rolledback THEN "dispose" ELSE "undo"
<1>1. Goto(r, to) /\ at[r] = "catch" /\ at'[r] = to
  BY DEF Catch, Goto, TxIInv, TxTypeOK
<1>2. ~overlapped => Stage(r)'
  BY <1>1 DEF Catch, TxIInv, Stage, Holds, Untried, AfterAction, Own, Decided, fields
<1>3. Raises(r)
  BY <1>1 DEF Catch, Raises, Catches, TxIInv, TxTypeOK
<1> QED
  BY <1>1, <1>2, <1>3, Moves DEF Catch, TxIInv, TxTypeOK, PCs, Early, Inside, fields

LEMMA ClearHolds == ASSUME TxIInv, NEW r \in Requests, Clear(r) PROVE TxIInv'
<1>1. Goto(r, "done") /\ at[r] = "clear" /\ at'[r] = "done"
  BY DEF Clear, Goto, TxIInv, TxTypeOK
<1>2. ~overlapped => Stage(r)'
  BY <1>1 DEF Clear, TxIInv, Stage, AfterAction, Own, Decided
<1>3. Raises(r)
  BY <1>1 DEF Clear, Raises, Catches
<1> QED
  BY <1>1, <1>2, <1>3, Moves DEF Clear, TxIInv, TxTypeOK, PCs, Early, Inside, Null

\* A new transaction is the last of the sequence and nobody else's.
LEMMA CreateTransactionHolds ==
    ASSUME TxIInv, NEW r \in Requests, CreateTransaction(r) PROVE TxIInv'
<1> DEFINE new == [owner |-> r, status |-> "new", rollbackOnly |-> FALSE,
                   rollbacks |-> 0, disposal |-> "none"]
           n == Len(txs) + 1
<1>1. CASE /\ txs' = Append(txs, new) /\ transaction' = Len(txs')
           /\ own' = [own EXCEPT ![r] = Len(txs')]
           /\ Goto(r, "test") /\ UNCHANGED <<exception, faulted>>
  <2>1. /\ at[r] = "create" /\ own[r] = Null
        /\ UNCHANGED <<rolledback, outcome, overlapped, exception, faulted>>
    BY <1>1 DEF CreateTransaction, TxIInv, Owned
  <2>2. new \in Transactions
    BY DEF Transactions
  <2> HIDE DEF new
  <2>3. /\ txs' \in Seq(Transactions) /\ Len(txs') = n /\ n \in Nat \ {0}
        /\ txs'[n] = new /\ \A k \in 1..Len(txs) : txs'[k] = txs[k]
        /\ DOMAIN txs = 1..Len(txs) /\ DOMAIN txs' = 1..n /\ Len(txs) \in Nat
    BY <1>1, <2>2 DEF TxIInv, TxTypeOK
  <2>4. /\ at' \in [Requests -> PCs] /\ at'[r] = "test" /\ own' \in [Requests -> Nat]
        /\ own'[r] = n /\ transaction' = n
        /\ \A q \in Requests : q # r => at'[q] = at[q] /\ own'[q] = own[q]
    BY <1>1, <2>3 DEF Goto, TxIInv, TxTypeOK, PCs
  <2>5. TxTypeOK'
    <3>1. \A q \in Requests : Catches(q)'
      BY <1>1, <2>4 DEF Catches, TxIInv, TxTypeOK
    <3> QED
      BY <2>1, <2>3, <2>4, <3>1 DEF TxIInv, TxTypeOK
  <2>6. Owned'
    <3>1. ASSUME NEW q \in Requests
          PROVE  /\ own'[q] \in 0..Len(txs')
                 /\ own'[q] # Null => txs'[own'[q]].owner = q
                 /\ at'[q] \in {"idle", "executing", "create"} => own'[q] = Null
      <4>1. CASE q = r
        BY <4>1, <2>3, <2>4 DEF new
      <4>2. CASE q # r
        BY <4>2, <2>3, <2>4 DEF TxIInv, Owned, Own, Null
      <4> QED
        BY <4>1, <4>2
    <3>2. ASSUME NEW k \in DOMAIN txs' PROVE own'[txs'[k].owner] = k
      <4>1. CASE k = n
        BY <4>1, <2>3, <2>4 DEF new
      <4>2. CASE k # n
        <5>1. k \in DOMAIN txs /\ txs'[k] = txs[k] /\ own[txs[k].owner] = k /\ k # Null
          BY <4>2, <2>3 DEF TxIInv, Owned, Null
        <5>2. txs[k] \in Transactions
          BY <5>1 DEF TxIInv, TxTypeOK
        <5>3. txs[k].owner \in Requests /\ txs[k].owner # r
          BY <5>1, <5>2, <2>1 DEF Transactions
        <5> QED
          BY <5>1, <5>3, <2>4
      <4> QED
        BY <4>1, <4>2
    <3> QED
      BY <3>1, <3>2 DEF Owned, Own
  <2>7. \A q \in Requests : q # r /\ own[q] # Null => Own(q)' = Own(q)
    BY <2>3, <2>4, OwnTransaction DEF TxIInv, Own, Null
  <2>8. ~overlapped => Stage(r)'
    <3>1. SUFFICES ASSUME ~overlapped PROVE Stage(r)'
      OBVIOUS
    <3>2. ~rolledback'
      BY <2>1, <3>1 DEF TxIInv, Stage
    <3>3. Own(r)' = new /\ own'[r] # Null
      BY <2>3, <2>4 DEF Own, Null
    <3> QED
      BY <2>4, <3>2, <3>3 DEF Stage, Holds, Untried, AfterAction, new
  <2> QED
    BY <2>1, <2>4, <2>5, <2>6, <2>7, <2>8, StepKeeps DEF Inside, PCs
<1>2. CASE /\ transaction' = Null
           /\ Goto(r, "test") /\ UNCHANGED <<txs, own, exception, faulted>>
  <2>1. at[r] = "create" /\ own[r] = Null /\ at'[r] = "test"
    BY <1>2 DEF CreateTransaction, Goto, TxIInv, Owned, TxTypeOK
  <2>2. ~overlapped => Stage(r)'
    BY <1>2, <2>1 DEF CreateTransaction, TxIInv, Stage, Holds, Untried, AfterAction
  <2>3. Raises(r)
    BY <1>2, <2>1 DEF Raises, Catches
  <2> QED
    BY <1>2, <2>1, <2>2, <2>3, Moves DEF CreateTransaction, TxIInv, TxTypeOK, PCs, Early, Inside, Null
<1>3. CASE /\ \E e \in Thrown : Fault(r, e, "done")
           /\ UNCHANGED <<transaction, own>>
  <2>1. at[r] = "create" /\ own[r] = Null /\ at'[r] = "done" /\ Goto(r, "done")
    BY <1>3 DEF CreateTransaction, Fault, Goto, TxIInv, Owned, TxTypeOK
  <2>2. ~overlapped => Stage(r)'
    BY <1>3, <2>1 DEF Stage, AfterAction
  <2>3. Raises(r) /\ faulted' = faulted \cup {r} /\ UNCHANGED txs
    BY <1>3, <2>1 DEF Fault, Raises, Catches, Thrown
  <2> QED
    BY <1>3, <2>1, <2>2, <2>3, Moves DEF CreateTransaction, TxIInv, TxTypeOK, PCs, Early, Inside
<1> QED
  BY <1>1, <1>2, <1>3 DEF CreateTransaction

LEMMA BeginHolds == ASSUME TxIInv, NEW r \in Requests, Begin(r) PROVE TxIInv'
<1>1. CASE /\ transaction # Null /\ txs[transaction].status = "new"
           /\ txs' = [txs EXCEPT ![transaction].status = "active"]
           /\ Goto(r, "action") /\ UNCHANGED <<exception, faulted>>
  <2> DEFINE t == [txs[transaction] EXCEPT !.status = "active"]
  <2>1. at[r] = "begin" /\ at'[r] = "action"
    BY <1>1 DEF Begin, Goto, TxIInv, TxTypeOK
  <2>2. transaction \in DOMAIN txs /\ txs[transaction] \in Transactions
    BY <1>1 DEF TxIInv, TxTypeOK, Null
  <2>3. t \in Transactions /\ t.owner = txs[transaction].owner /\ t.status = "active"
        /\ t.rollbacks = txs[transaction].rollbacks
    BY <2>2 DEF Transactions
  <2>4. txs' = [txs EXCEPT ![transaction] = t]
    BY <1>1
  <2> HIDE DEF t
  <2>5. ~overlapped => transaction = own[r] /\ ~rolledback /\ Own(r).rollbacks = 0
    BY <2>1 DEF TxIInv, Stage, Holds, Untried
  <2>6. txs'[transaction] = t
    BY <2>2, <2>4
  <2>7. ~overlapped => Stage(r)'
    BY <2>1, <2>3, <2>5, <2>6 DEF Begin, Stage, Holds, Untried, AfterAction, Own, fields
  <2>8. Raises(r)
    BY <1>1, <2>1 DEF Raises, Catches
  <2> QED
    BY <1>1, <2>1, <2>2, <2>3, <2>4, <2>5, <2>7, <2>8, Completes
       DEF Begin, TxIInv, TxTypeOK, PCs, Early, Inside, fields
<1>2. CASE \E e \in Thrown : Fault(r, e, "done")
  <2>1. at[r] = "begin" /\ at'[r] = "done" /\ Goto(r, "done")
    BY <1>2 DEF Begin, Fault, Goto, TxIInv, TxTypeOK
  <2>2. Raises(r) /\ faulted' = faulted \cup {r} /\ UNCHANGED txs
    BY <1>2, <2>1 DEF Fault, Raises, Catches, Thrown
  <2>3. ~overlapped => Stage(r)'
    BY <2>1, <2>2 DEF Begin, TxIInv, Stage, Holds, Untried, AfterAction, Own, fields
  <2> QED
    BY <2>1, <2>2, <2>3, Moves DEF Begin, TxIInv, TxTypeOK, PCs, Early, Inside, fields
<1> QED
  BY <1>1, <1>2 DEF Begin

LEMMA ActionHolds == ASSUME TxIInv, NEW r \in Requests, RunAction(r) PROVE TxIInv'
<1>1. at[r] = "action" /\ at'[r] = "executed" /\ Goto(r, "executed")
  BY DEF RunAction, Goto, TxIInv, TxTypeOK
<1>2. PICK e \in Exceptions, only \in BOOLEAN :
        /\ outcome' = [outcome EXCEPT ![r] = e] /\ exception' = [exception EXCEPT ![r] = e]
        /\ txs' = IF own[r] = Null THEN txs ELSE [txs EXCEPT ![own[r]].rollbackOnly = only]
  BY DEF RunAction
<1>3. /\ outcome' \in [Requests -> Outcomes] /\ exception' \in [Requests -> Exceptions]
      /\ outcome'[r] = e /\ exception'[r] = e /\ e # "notrun"
      /\ \A q \in Requests : q # r => outcome'[q] = outcome[q]
  BY <1>2 DEF TxIInv, TxTypeOK, Outcomes, Exceptions
<1>4. ~overlapped => Holds(r, "active") /\ Untried(r)
  BY <1>1 DEF TxIInv, Stage
<1>5. CASE own[r] = Null
  <2>1. at' \in [Requests -> PCs] /\ \A q \in Requests : q # r => at'[q] = at[q]
    BY <1>1 DEF Goto, TxIInv, TxTypeOK, PCs
  <2>2. TxTypeOK'
    <3>1. \A q \in Requests : Catches(q)'
      BY <1>1, <1>2, <2>1 DEF Catches, TxIInv, TxTypeOK
    <3> QED
      BY <1>2, <1>3, <1>5, <2>1, <3>1 DEF RunAction, TxIInv, TxTypeOK, fields
  <2>3. Owned'
    <3>1. \A q \in Requests : at'[q] \in Early => at[q] \in Early
      BY <1>1, <2>1 DEF Early
    <3> QED
      BY <1>2, <1>5, <3>1, OwnedKeeps DEF RunAction, TxIInv, TxTypeOK, Early
  <2>4. ~overlapped => Stage(r)'
    BY <1>1, <1>2, <1>3, <1>4, <1>5 DEF RunAction, Stage, Holds, Untried, AfterAction, fields
  <2>5. \A q \in Requests : own'[q] = own[q] /\ Own(q)' = Own(q)
    BY <1>2, <1>5 DEF RunAction, Own
  <2> QED
    BY <1>1, <1>3, <2>1, <2>2, <2>3, <2>4, <2>5, StepKeeps DEF RunAction, Inside, PCs
<1>6. CASE own[r] # Null
  <2> DEFINE t == [Own(r) EXCEPT !.rollbackOnly = only]
  <2>1. own[r] \in DOMAIN txs /\ Own(r) \in Transactions
    BY <1>6, OwnTransaction DEF TxIInv
  <2>2. t \in Transactions /\ t.owner = Own(r).owner /\ t.status = Own(r).status
        /\ t.rollbacks = Own(r).rollbacks
    BY <2>1 DEF Transactions
  <2>3. txs' = [txs EXCEPT ![own[r]] = t]
    BY <1>2, <1>6 DEF Own
  <2> HIDE DEF t
  <2>4. txs'[own[r]] = t
    BY <2>1, <2>3
  <2>5. ~overlapped => Stage(r)'
    BY <1>1, <1>3, <1>4, <2>2, <2>4 DEF RunAction, Stage, Holds, Untried, AfterAction, Own, fields
  <2>6. Raises(r)
    BY <1>1, <1>2 DEF Raises, Catches
  <2> QED
    BY <1>1, <1>3, <2>1, <2>2, <2>3, <2>5, <2>6, Completes
       DEF RunAction, TxIInv, TxTypeOK, PCs, Early, Inside, Own
<1> QED
  BY <1>5, <1>6

\* A call to Rollback in r, whose exceptions go to handler.
LEMMA CallRollbackHolds ==
    ASSUME TxIInv, NEW r \in Requests, at[r] \in Inside,
           NEW handler \in [Exceptions -> {"catch", "dispose"}], CallRollback(r, handler),
           UNCHANGED <<fields, outcome, own, overlapped>>,
           ~overlapped =>
             /\ own[r] # Null /\ transaction = own[r]
             /\ Own(r).status = "active" /\ Own(r).rollbacks = 0
             /\ outcome[r] = "none" => Own(r).rollbackOnly \/ r \in faulted
             /\ outcome[r] # "TransactionException" \/ r \in faulted
             /\ rolledback \/ handler["Exception"] = "dispose",
           handler["TransactionException"] = "dispose"
    PROVE  TxIInv'
<1> DEFINE done == [txs[transaction] EXCEPT !.rollbacks = @ + 1, !.status = "rolledback"]
           tried == [txs[transaction] EXCEPT !.rollbacks = @ + 1]
<1>1. CASE transaction = Null
  <2>1. /\ Goto(r, handler["Exception"]) /\ UNCHANGED <<txs, faulted>>
        /\ exception' = [exception EXCEPT ![r] = "Exception"]
    BY <1>1 DEF CallRollback, NullReference
  <2>2. overlapped
    BY <1>1
  <2>3. /\ handler["Exception"] \in {"catch", "dispose"} /\ "Exception" \in Exceptions
        /\ at'[r] = handler["Exception"] /\ exception'[r] = "Exception"
    BY <2>1 DEF Goto, TxIInv, TxTypeOK, Exceptions
  <2>4. Raises(r)
    BY <2>1, <2>3 DEF Raises, Catches
  <2> QED
    BY <2>1, <2>2, <2>3, <2>4, Moves DEF TxIInv, TxTypeOK, PCs, Early, fields
<1>2. CASE transaction # Null
  <2>1. transaction \in DOMAIN txs /\ txs[transaction] \in Transactions
    BY <1>2 DEF TxIInv, TxTypeOK, Null
  <2>2. /\ done \in Transactions /\ tried \in Transactions
        /\ done.owner = txs[transaction].owner /\ tried.owner = txs[transaction].owner
        /\ done.status = "rolledback" /\ tried.status = txs[transaction].status
        /\ done.rollbacks = txs[transaction].rollbacks + 1 /\ tried.rollbacks = done.rollbacks
        /\ done.rollbackOnly = txs[transaction].rollbackOnly
    <3>1. txs[transaction].rollbacks \in Nat
      BY <2>1 DEF Transactions
    <3>2. txs[transaction].rollbacks + 1 \in Nat
      BY <3>1
    <3> QED
      BY <2>1, <3>2 DEF Transactions
  <2>3. CASE /\ txs' = [txs EXCEPT ![transaction].rollbacks = @ + 1,
                                   ![transaction].status = "rolledback"]
             /\ Goto(r, "dispose") /\ UNCHANGED <<exception, faulted>>
    <3>1. txs' = [txs EXCEPT ![transaction] = done]
      BY <2>1, <2>3 DEF Transactions
    <3> HIDE DEF done
    <3>2. txs'[transaction] = done /\ at'[r] = "dispose"
      BY <2>1, <2>3, <3>1 DEF Goto, TxIInv, TxTypeOK
    <3>3. ASSUME ~overlapped
          PROVE  Stage(r)'
      <4>1. /\ own'[r] = own[r] /\ own[r] = transaction /\ transaction' = transaction
            /\ outcome'[r] = outcome[r] /\ faulted' = faulted /\ rolledback' = rolledback
        BY <2>3, <3>3 DEF fields
      <4>2. /\ Own(r)' = done /\ done.status = "rolledback" /\ done.rollbacks = 1
            /\ done.rollbackOnly = Own(r).rollbackOnly
        BY <2>2, <3>2, <3>3, <4>1 DEF Own
      <4>3. Decided(r)'
        BY <3>3, <4>1, <4>2 DEF Decided
      <4> QED
        BY <3>2, <3>3, <4>1, <4>2, <4>3 DEF Stage, AfterAction
    <3>4. Raises(r)
      BY <2>3, <3>2 DEF Raises, Catches
    <3> QED
      BY <2>1, <2>2, <2>3, <3>1, <3>3, <3>4, Completes DEF TxIInv, TxTypeOK, PCs, Early, fields
  <2>4. CASE /\ \E e \in Thrown :
                   /\ exception' = [exception EXCEPT ![r] = e]
                   /\ Goto(r, handler[e])
             /\ txs' = [txs EXCEPT ![transaction].rollbacks = @ + 1]
             /\ faulted' = faulted \cup {r}
    <3>1. PICK e \in Thrown :
            exception' = [exception EXCEPT ![r] = e] /\ Goto(r, handler[e])
      BY <2>4
    <3>2. /\ handler[e] \in {"catch", "dispose"} /\ e \in Exceptions /\ exception'[r] = e
          /\ handler[e] = "catch" => e = "Exception"
      BY <3>1 DEF TxIInv, TxTypeOK, Exceptions, Thrown
    <3>3. txs' = [txs EXCEPT ![transaction] = tried]
      BY <2>4
    <3> HIDE DEF tried, done
    <3>4. txs'[transaction] = tried /\ at'[r] = handler[e] /\ r \in faulted'
      BY <2>1, <2>4, <3>1, <3>2, <3>3 DEF Goto, TxIInv, TxTypeOK
    <3>5. ~overlapped => Stage(r)'
      <4>1. CASE handler[e] = "dispose"
        BY <2>2, <3>4, <4>1 DEF Stage, AfterAction, Decided, Own, fields
      <4>2. CASE handler[e] = "catch"
        BY <2>2, <3>1, <3>2, <3>4, <4>2 DEF Stage, AfterAction, Own, fields
      <4> QED
        BY <3>2, <4>1, <4>2
    <3>6. handler[e] \in PCs \ Early /\ outcome' \in [Requests -> Outcomes] /\ UNCHANGED outcome
      BY <3>2 DEF TxIInv, TxTypeOK, PCs, Early
    <3>7. /\ faulted' = faulted \/ faulted' = faulted \cup {r}
          /\ \A q \in Requests : q # r => outcome'[q] = outcome[q]
          /\ ~overlapped => transaction = own[r]
      BY <2>4, <3>6
    <3>8. tried \in Transactions /\ tried.owner = txs[transaction].owner
      BY <2>2
    <3>9. Raises(r)
      BY <3>1, <3>2, <3>4 DEF Raises, Catches
    <3> QED
      BY <2>1, <3>1, <3>2, <3>3, <3>5, <3>6, <3>7, <3>8, <3>9, Completes
  <2> QED
    BY <1>2, <2>3, <2>4 DEF CallRollback
<1> QED
  BY <1>1, <1>2

LEMMA RollbackHolds == ASSUME TxIInv, NEW r \in Requests, Rollback(r) PROVE TxIInv'
<1>1. at[r] = "rollback" /\ CallRollback(r, Handler) /\ UNCHANGED <<fields, outcome, own, overlapped>>
  BY DEF Rollback
<1>2. /\ Handler \in [Exceptions -> {"catch", "dispose"}]
      /\ Handler["TransactionException"] = "dispose"
  BY DEF Handler, Exceptions
<1>3. ~overlapped =>
        /\ own[r] # Null /\ transaction = own[r] /\ Own(r).status = "active"
        /\ Own(r).rollbacks = 0 /\ rolledback /\ outcome[r] = "none" /\ Own(r).rollbackOnly
  BY <1>1 DEF TxIInv, Stage, AfterAction
<1> QED
  BY <1>1, <1>2, <1>3, CallRollbackHolds DEF Inside, PCs

LEMMA UndoHolds == ASSUME TxIInv, NEW r \in Requests, Undo(r) PROVE TxIInv'
<1> DEFINE handler == [e \in Exceptions |-> "dispose"]
<1>1. at[r] = "undo" /\ CallRollback(r, handler) /\ UNCHANGED <<fields, outcome, own, overlapped>>
  BY DEF Undo
<1>2. /\ handler \in [Exceptions -> {"catch", "dispose"}]
      /\ handler["TransactionException"] = "dispose" /\ handler["Exception"] = "dispose"
  BY DEF Exceptions
<1> HIDE DEF handler
<1>3. ~overlapped =>
        /\ own[r] # Null /\ transaction = own[r] /\ Own(r).status = "active"
        /\ Own(r).rollbacks = 0
        /\ outcome[r] = "Exception" \/ r \in faulted
  BY <1>1 DEF TxIInv, Stage, AfterAction
<1> QED
  BY <1>1, <1>2, <1>3, CallRollbackHolds DEF Inside, PCs

LEMMA CommitHolds == ASSUME TxIInv, NEW r \in Requests, Commit(r) PROVE TxIInv'
<1>1. at[r] = "commit" /\ UNCHANGED <<fields, outcome, own, overlapped>>
  BY DEF Commit
<1>2. ~overlapped =>
        /\ own[r] # Null /\ transaction = own[r] /\ outcome[r] = "none"
        /\ Own(r).status = "active" /\ Own(r).rollbacks = 0 /\ ~rolledback
        /\ ~Own(r).rollbackOnly
  BY <1>1 DEF TxIInv, Stage, AfterAction, Holds, Untried
<1>3. CASE /\ transaction # Null
           /\ txs' = [txs EXCEPT ![transaction].status = "committed"]
           /\ Goto(r, "dispose") /\ UNCHANGED <<exception, faulted>>
  <2> DEFINE t == [txs[transaction] EXCEPT !.status = "committed"]
  <2>1. transaction \in DOMAIN txs /\ txs[transaction] \in Transactions
    BY <1>3 DEF TxIInv, TxTypeOK, Null
  <2>2. /\ t \in Transactions /\ t.owner = txs[transaction].owner /\ t.status = "committed"
        /\ t.rollbacks = txs[transaction].rollbacks
        /\ t.rollbackOnly = txs[transaction].rollbackOnly
    BY <2>1 DEF Transactions
  <2>3. txs' = [txs EXCEPT ![transaction] = t]
    BY <1>3
  <2> HIDE DEF t
  <2>4. txs'[transaction] = t /\ at'[r] = "dispose"
    BY <2>1, <2>3, <1>3 DEF Goto, TxIInv, TxTypeOK
  <2>5. ~overlapped => Stage(r)'
    BY <1>1, <1>2, <2>2, <2>4 DEF Stage, AfterAction, Decided, Own, fields
  <2>6. Raises(r)
    BY <1>3, <2>4 DEF Raises, Catches
  <2> QED
    BY <1>1, <1>2, <1>3, <2>1, <2>2, <2>3, <2>5, <2>6, Completes
       DEF TxIInv, TxTypeOK, PCs, Early, Inside, fields
<1>4. CASE \E e \in Thrown : Fault(r, e, Handler[e])
  BY <1>1, <1>4, TryFaults
<1>5. CASE transaction = Null /\ NullReference(r, "catch") /\ UNCHANGED <<txs, faulted>>
  <2>1. Goto(r, "catch") /\ exception' = [exception EXCEPT ![r] = "Exception"]
    BY <1>5 DEF NullReference
  <2>2. overlapped
    BY <1>2, <1>5
  <2>3. Raises(r)
    BY <2>1 DEF Goto, Raises, Catches, Exceptions, TxIInv, TxTypeOK
  <2> QED
    BY <1>1, <1>5, <2>1, <2>2, <2>3, Moves DEF TxIInv, TxTypeOK, PCs, Early, Inside, fields
<1> QED
  BY <1>3, <1>4, <1>5 DEF Commit

\* The manager disposes of the transaction, or refuses to.
LEMMA Disposes ==
    ASSUME TxIInv, NEW r \in Requests, at[r] = "dispose", transaction # Null,
           NEW d \in {"refused", "done"},
           txs' = [txs EXCEPT ![transaction].disposal = d],
           UNCHANGED <<fields, outcome, own, overlapped>>,
           Goto(r, IF d = "done" THEN "clear" ELSE "done"), Raises(r),
           IF d = "done" THEN faulted' = faulted ELSE faulted' = faulted \cup {r}
    PROVE  TxIInv'
<1> DEFINE t == [txs[transaction] EXCEPT !.disposal = d]
           to == IF d = "done" THEN "clear" ELSE "done"
<1>1. transaction \in DOMAIN txs /\ txs[transaction] \in Transactions
  BY DEF TxIInv, TxTypeOK, Null
<1>2. /\ t \in Transactions /\ t.owner = txs[transaction].owner /\ t.disposal = d
      /\ t.status = txs[transaction].status /\ t.rollbacks = txs[transaction].rollbacks
      /\ t.rollbackOnly = txs[transaction].rollbackOnly
  BY <1>1 DEF Transactions
<1>3. txs' = [txs EXCEPT ![transaction] = t]
  OBVIOUS
<1> HIDE DEF t
<1>4. txs'[transaction] = t /\ at'[r] = to
  BY <1>1, <1>3 DEF Goto, TxIInv, TxTypeOK
<1>5. ~overlapped => own[r] # Null /\ transaction = own[r] /\ Decided(r)
  BY DEF TxIInv, Stage, AfterAction
<1>6. ~overlapped => Stage(r)'
  <2>1. SUFFICES ASSUME ~overlapped PROVE Stage(r)'
    OBVIOUS
  <2>2. Own(r)' = t /\ own'[r] # Null /\ transaction' = own'[r]
    BY <1>4, <1>5, <2>1 DEF Own, fields
  <2>3. Decided(r)'
    BY <1>2, <1>5, <2>1, <2>2 DEF Decided, Own
  <2> QED
    BY <1>2, <1>4, <2>2, <2>3 DEF Stage, AfterAction, Decided
<1>7. to \in PCs \ Early /\ outcome' \in [Requests -> Outcomes] /\ UNCHANGED outcome
  BY DEF TxIInv, TxTypeOK, PCs, Early
<1> QED
  BY <1>1, <1>2, <1>3, <1>5, <1>6, <1>7, Completes DEF Inside, PCs, fields

LEMMA DisposeHolds == ASSUME TxIInv, NEW r \in Requests, Dispose(r) PROVE TxIInv'
<1>1. at[r] = "dispose" /\ UNCHANGED <<fields, outcome, own, overlapped>>
  BY DEF Dispose
<1>2. CASE /\ transaction # Null
           /\ txs' = [txs EXCEPT ![transaction].disposal = "done"]
           /\ Goto(r, "clear") /\ UNCHANGED <<exception, faulted>>
  <2>1. Raises(r)
    BY <1>2 DEF Goto, Raises, Catches, TxIInv, TxTypeOK
  <2> QED
    BY <1>1, <1>2, <2>1, Disposes
<1>3. CASE /\ \E e \in Thrown : exception' = [exception EXCEPT ![r] = e]
           /\ txs' = IF transaction = Null THEN txs
                     ELSE [txs EXCEPT ![transaction].disposal = "refused"]
           /\ faulted' = faulted \cup {r}
           /\ Goto(r, "done")
  <2>1. Raises(r)
    BY <1>3 DEF Goto, Raises, Catches, Thrown, TxIInv, TxTypeOK
  <2>2. CASE transaction # Null
    BY <1>1, <1>3, <2>1, <2>2, Disposes
  <2>3. CASE transaction = Null
    <3>1. overlapped
      BY <1>1, <2>3 DEF TxIInv, Stage, AfterAction
    <3> QED
      BY <1>1, <1>3, <2>1, <2>3, <3>1, Moves DEF TxIInv, TxTypeOK, PCs, Early, Inside, fields
  <2> QED
    BY <2>2, <2>3
<1> QED
  BY <1>2, <1>3 DEF Dispose

-----------------------------------------------------------------------------

LEMMA TxNextKeeps == TxIInv /\ [TxNext]_txVars => TxIInv'
<1> SUFFICES ASSUME TxIInv, [TxNext]_txVars PROVE TxIInv'
  OBVIOUS
<1>1. ASSUME NEW r \in Requests, Start(r) \/ Step(r) PROVE TxIInv'
  BY <1>1, StartHolds, ResetHolds, CreateTransactionHolds, TestHolds, BeginHolds, ActionHolds,
     ExecutedHolds, TryHolds, FlagHolds, RollbackHolds, CommitHolds, CatchHolds, UndoHolds,
     DisposeHolds, ClearHolds DEF Step
<1>2. CASE UNCHANGED txVars
  BY <1>2 DEF txVars, fields, TxIInv, TxTypeOK, Owned, Serial, Stage, Holds, Untried, Decided, Own, Catches
<1> QED
  BY <1>1, <1>2 DEF TxNext, AllFinished

LEMMA TxInvariance == TxSpec => []TxIInv
BY TxInitHolds, TxNextKeeps, PTL DEF TxSpec

\* The fields and transactions keep their types, however requests overlap and
\* whichever calls throw, and the catch that rolls back never gets a
\* TransactionException (MvcTransactionAttribute.cs:128-139).
THEOREM TxTypeCorrect == TxSpec => []TxTypeOK
<1>1. TxIInv => TxTypeOK
  BY DEF TxIInv
<1> QED
  BY <1>1, TxInvariance, PTL

\* OnActionExecuted of the attribute: as long as requests have not overlapped, and
\* whatever the fields of the attribute were left with by the requests before, a
\* transaction is rolled back when its action threw or asked for it, committed
\* when it returned, and left as it is after a TransactionException of the action.
THEOREM ActionDecides == TxSpec => []OutcomeDecides
<1>1. TxIInv => OutcomeDecides
  <2> SUFFICES ASSUME TxIInv, ~overlapped PROVE OutcomeDecides
    BY DEF OutcomeDecides
  <2>1. ASSUME NEW r \in Requests, Ended(r)
        PROVE  Own(r).status = CASE outcome[r] = "none" /\ ~Own(r).rollbackOnly -> "committed"
                                 [] outcome[r] = "TransactionException" -> "active"
                                 [] OTHER -> "rolledback"
    BY <2>1 DEF Ended, TxIInv, Stage, Decided
  <2>2. ASSUME NEW i \in DOMAIN txs, txs[i].status = "committed"
        PROVE  outcome[txs[i].owner] = "none" /\ ~txs[i].rollbackOnly
    <3>1. txs[i].owner \in Requests /\ own[txs[i].owner] = i /\ i # Null
      BY TransactionOwned DEF TxIInv
    <3>2. PICK r \in Requests : r = txs[i].owner /\ own[r] = i /\ Own(r) = txs[i]
      BY <3>1 DEF Own
    <3> QED
      BY <3>1, <3>2, <2>2 DEF TxIInv, TxTypeOK, PCs, Owned, Stage, Decided, Holds, AfterAction
  <2> QED
    BY <2>1, <2>2 DEF OutcomeDecides, Own
<1> QED
  BY <1>1, TxInvariance, PTL

\* The flag rolledback and the finally block: no transaction is rolled back
\* twice, and one that was begun is handed to the manager to dispose of by the end
\* of its request, whichever calls have thrown before.
THEOREM NothingLeaks == TxSpec => []CompletedOnce
<1>1. TxIInv => CompletedOnce
  <2> SUFFICES ASSUME TxIInv, ~overlapped PROVE CompletedOnce
    BY DEF CompletedOnce
  <2>1. ASSUME NEW i \in DOMAIN txs PROVE txs[i].rollbacks <= 1
    <3>1. txs[i].owner \in Requests /\ own[txs[i].owner] = i /\ i # Null
      BY TransactionOwned DEF TxIInv
    <3>2. PICK r \in Requests : r = txs[i].owner /\ own[r] = i /\ Own(r) = txs[i]
      BY <3>1 DEF Own
    <3> QED
      BY <3>1, <3>2 DEF TxIInv, TxTypeOK, PCs, Owned, Stage, Decided, Holds, Untried, AfterAction
  <2>2. ASSUME NEW r \in Requests, at[r] = "done", own[r] # Null, Own(r).status # "new"
        PROVE  /\ Own(r).disposal # "none"
               /\ r \notin faulted => Own(r).disposal = "done"
    BY <2>2 DEF TxIInv, Stage
  <2> QED
    BY <2>1, <2>2 DEF CompletedOnce, Own
<1> QED
  BY <1>1, TxInvariance, PTL

-----------------------------------------------------------------------------
(*****************************************************************************)
(* TempDataFilters.  Types, that a failure is shown once, that one           *)
(* window's failures reach its view, which value an argument has, and that   *)
(* a reload finds it again.                                                  *)
(*****************************************************************************)

\* While a request is under way its TempData is in data.
Loaded == {"executing", "action", "executed"}

\* What a request has not used yet is empty.
Unused ==
    /\ pc # "executed" => left = {}
    /\ pc \in {"executing", "action"} =>
        modelState = {} /\ passed = NoParams /\ data = session
    /\ pc = "executing" => arguments = NoParams /\ marked = {} /\ retained = {}

\* Failures that no view has shown.
Unshown(failures) == \A id \in failures : id <= ids /\ shown[id] = 0

\* Failures stored are unshown.  A view that adds the stored ones to its own has
\* marked them for removal, and nothing but a redirect retains them.
Once ==
    /\ \A id \in Ids : shown[id] <= 1 /\ (id > ids => shown[id] = 0)
    /\ pc \in {"rest", "executing", "action"} => Unshown(session[ModelKey])
    /\ pc \in Loaded => Unshown(data[ModelKey]) /\ ModelKey \notin retained
    /\ pc = "executed" =>
        /\ Unshown(modelState)
        /\ IsView /\ modelState \cap data[ModelKey] # {} => ModelKey \in marked
    /\ pc = "save" => Unshown(data[ModelKey]) \/ ModelKey \in marked \ retained

\* The parameters stored are the latest ones.
Latest ==
    /\ \A p \in Params : data[p] # Absent => data[p] = latest[p]
    /\ pc = "rest" => \A p \in Params : session[p] # Absent => session[p] = latest[p]
    /\ pc = "action" => \A p \in Params : arguments[p] # Absent => arguments[p] = data[p]

\* An argument taken from TempData is kept there, or replaced.
Kept ==
    pc \in {"action", "executed", "save"} =>
        \A p \in Params : arguments[p] # Absent =>
            (p \in retained /\ data[p] = arguments[p]) \/ passed[p] # Absent

\* The view that takes the failures: it bears the filter and has run it.
Takes == pc \in {"executed", "save"} /\ IsView /\ "model" \in filters /\ "model" \notin left

\* Where the failures of the last failing redirect are, with one window and no
\* filter that enumerates TempData: stored and unmarked, until a view takes them.
Carried ==
    open = {window} /\ (\A fs \in site : {"params", "viewdata"} \cap fs = {}) =>
        /\ pc = "rest" => expected[window] \subseteq session[ModelKey]
        /\ pc # "rest" /\ ~Takes =>
            expected[window] \subseteq data[ModelKey] /\ ModelKey \notin marked
        /\ Takes => expected[window] \subseteq modelState

IInv == TypeOK /\ Unused /\ Once /\ Latest /\ Kept /\ Carried

-----------------------------------------------------------------------------
(* Types *)

LEMMA KeyFacts ==
    /\ ModelKey \in Keys /\ ModelKey \notin Params /\ Params \subseteq Keys
    /\ MaxIds \in Nat /\ Present \subseteq Keys
BY ConstantAssumption DEF Keys, Present

LEMMA InitType == Init => TypeOK
<1> SUFFICES ASSUME Init PROVE TypeOK
  OBVIOUS
<1>1. {} \in Values
  BY DEF Values
<1>2. session \in [Keys -> Values] /\ data \in [Keys -> Values]
  BY <1>1 DEF Init, NoData, Absent
<1>3. passed \in [Params -> Values] /\ arguments \in [Params -> Values]
      /\ latest \in [Params -> Values]
  BY <1>1 DEF Init, NoParams, Absent
<1>4. modelState \in Values /\ expected \in [Windows -> Values]
  BY <1>1 DEF Init
<1>5. ids \in 0..MaxIds /\ shown \in [Ids -> Nat]
  BY KeyFacts DEF Init
<1>6. kind \in Kinds
  BY DEF Init, Kinds
<1>7. \A p \in Params : arguments[p] = Absent
  BY DEF Init, NoParams
<1> QED
  BY <1>2, <1>3, <1>4, <1>5, <1>6, <1>7 DEF Init, TypeOK

\* The failures and values of an action are new ones, within the bound.
LEMMA NewIds ==
    ASSUME TypeOK, Unused, Action
    PROVE  /\ ids' \in ids..MaxIds
           /\ \A id \in modelState' : id \in Ids /\ ids < id /\ id <= ids'
           /\ passed' \in [Params -> Values]
<1>1. PICK fails \in BOOLEAN, k \in Kinds, p \in Params \cup {ModelKey}, object \in BOOLEAN :
        /\ kind' = k
        /\ modelState' = IF fails THEN {ids + 1} ELSE {}
        /\ passed' = IF k = "redirectTo" /\ p \in Params /\ object
                     THEN [passed EXCEPT ![p] = {ids + (IF fails THEN 2 ELSE 1)}] ELSE passed
        /\ ids' = ids + Cardinality(modelState' \cup UNION {passed'[q] : q \in Params})
        /\ ids' <= MaxIds
  BY DEF Action
<1>2. passed = NoParams /\ ids \in Nat /\ MaxIds \in Nat
  BY KeyFacts DEF Action, Unused, TypeOK
<1>3. \A n \in Nat : Cardinality({n}) = 1 /\ IsFiniteSet({n})
  BY FS_Singleton
<1>4. CASE k = "redirectTo" /\ p \in Params /\ object
  <2> DEFINE new == ids + (IF fails THEN 2 ELSE 1)
  <2>1. passed' = [passed EXCEPT ![p] = {new}]
    BY <1>1, <1>4
  <2>2. passed' = [q \in Params |-> IF q = p THEN {new} ELSE {}]
    BY <1>2, <2>1 DEF NoParams, Absent
  <2>3. UNION {passed'[q] : q \in Params} = {new}
    BY <1>4, <2>2
  <2>4. CASE fails
    <3>1. modelState' \cup UNION {passed'[q] : q \in Params} = {ids + 1} \cup {ids + 2}
      BY <1>1, <2>3, <2>4
    <3>2. ids + 1 \in Nat /\ ids + 2 \in Nat /\ ids + 2 \notin {ids + 1}
      BY <1>2
    <3>3. Cardinality({ids + 1} \cup {ids + 2}) = 2
      <4>1. IsFiniteSet({ids + 1}) /\ Cardinality({ids + 1}) = 1
        BY <1>3, <3>2
      <4>2. Cardinality({ids + 1} \cup {ids + 2}) = Cardinality({ids + 1}) + 1
        BY <3>2, <4>1, FS_AddElement
      <4> QED
        BY <4>1, <4>2
    <3>4. ids' = ids + 2 /\ modelState' = {ids + 1}
      BY <1>1, <2>4, <3>1, <3>3
    <3>5. {new} \in Values
      BY <1>1, <1>2, <2>4, <3>4 DEF Values, Ids
    <3> HIDE DEF new
    <3>6. passed' \in [Params -> Values]
      BY <2>2, <3>5 DEF Values
    <3>7. ids' <= MaxIds /\ ids + 1 \in Ids /\ ids + 1 <= ids'
      BY <1>1, <1>2, <3>4 DEF Ids
    <3> QED
      BY <1>2, <3>4, <3>6, <3>7
  <2>5. CASE ~fails
    <3>1. modelState' \cup UNION {passed'[q] : q \in Params} = {ids + 1}
      BY <1>1, <2>3, <2>5
    <3>2. ids' = ids + 1 /\ modelState' = {}
      BY <1>1, <1>2, <1>3, <2>5, <3>1
    <3>3. {new} \in Values
      BY <1>1, <1>2, <2>5, <3>2 DEF Values, Ids
    <3> HIDE DEF new
    <3>4. passed' \in [Params -> Values]
      BY <2>2, <3>3 DEF Values
    <3> QED
      BY <1>1, <1>2, <3>2, <3>4
  <2> QED
    BY <2>4, <2>5
<1>5. CASE ~(k = "redirectTo" /\ p \in Params /\ object)
  <2>1. passed' = [q \in Params |-> {}]
    BY <1>1, <1>2, <1>5 DEF NoParams, Absent
  <2>2. modelState' \cup UNION {passed'[q] : q \in Params} = modelState'
    BY <2>1
  <2>3. passed' \in [Params -> Values]
    BY <2>1 DEF Values
  <2>4. CASE fails
    <3>1. modelState' = {ids + 1} /\ ids' = ids + 1
      BY <1>1, <1>2, <1>3, <2>2, <2>4
    <3>2. ids' <= MaxIds /\ ids + 1 \in Ids
      BY <1>1, <1>2, <3>1 DEF Ids
    <3> QED
      BY <1>2, <2>3, <3>1, <3>2
  <2>5. CASE ~fails
    <3>1. modelState' = {} /\ ids' = ids + 0
      BY <1>1, <1>2, <2>2, <2>5, FS_EmptySet
    <3> QED
      BY <1>1, <1>2, <2>3, <3>1
  <2> QED
    BY <2>4, <2>5
<1> QED
  BY <1>4, <1>5

LEMMA NextType == ASSUME TypeOK, Unused, Next PROVE TypeOK'
<1> USE DEF tempData, action, history
<1>1. ASSUME NEW w \in Windows, Request(w) PROVE TypeOK'
  <2>1. NoParams \in [Params -> Values] /\ {} \in Values
    BY DEF NoParams, Absent, Values
  <2>2. left = {}
    BY <1>1 DEF Request, Unused
  <2>3. \A p \in Params : arguments'[p] = Absent
    BY <1>1 DEF Request, NoParams
  <2> QED
    BY <1>1, <2>1, <2>2, <2>3 DEF Request, TypeOK
<1>2. CASE OnActionExecuting
  <2>1. arguments' \in [Params -> Values]
    <3>1. [p \in Params |-> IF p \in matching THEN data[p] ELSE Absent] \in [Params -> Values]
      BY KeyFacts DEF TypeOK, Absent, Values
    <3> QED
      BY <1>2, <3>1 DEF OnActionExecuting, TypeOK
  <2>2. marked' \subseteq Keys /\ retained' \subseteq Keys
    BY <1>2, KeyFacts DEF OnActionExecuting, TypeOK
  <2> QED
    BY <1>2, <2>1, <2>2 DEF OnActionExecuting, TypeOK
<1>3. CASE Action
  <2>1. ids' \in 0..MaxIds /\ passed' \in [Params -> Values]
    BY <1>3, NewIds, KeyFacts DEF TypeOK
  <2>2. modelState' \in Values
    BY <1>3, NewIds DEF Values
  <2> QED
    BY <1>3, <2>1, <2>2 DEF Action, TypeOK
<1>4. CASE CopyModelState
  <2>1. data[ModelKey] \in Values
    BY KeyFacts DEF TypeOK
  <2>2. modelState' \in Values /\ data' \in [Keys -> Values]
    BY <1>4, <2>1 DEF CopyModelState, TypeOK, Values
  <2>3. expected' \in [Windows -> Values] /\ marked' \subseteq Keys
    BY <1>4, KeyFacts DEF CopyModelState, TypeOK
  <2> QED
    BY <1>4, <2>2, <2>3 DEF CopyModelState, TypeOK
<1>5. CASE StoreParameters
  <2>1. data' \in [Keys -> Values]
    <3>1. \A key \in Keys :
            (IF key \in Params /\ passed[key] # Absent THEN passed[key] ELSE data[key]) \in Values
      BY DEF TypeOK
    <3> QED
      BY <1>5, <3>1 DEF StoreParameters
  <2>2. latest' \in [Params -> Values] /\ marked' \subseteq Keys
    BY <1>5 DEF StoreParameters, TypeOK
  <2> QED
    BY <1>5, <2>1, <2>2 DEF StoreParameters, TypeOK
<1>6. CASE CopyToViewData
  <2>1. marked' \subseteq Keys
    BY <1>6, KeyFacts DEF CopyToViewData, TypeOK
  <2> QED
    BY <1>6, <2>1 DEF CopyToViewData, TypeOK
<1>7. CASE ExecuteResult
  <2>1. retained' \subseteq Keys
    BY <1>7, KeyFacts DEF ExecuteResult, TypeOK
  <2>2. shown' \in [Ids -> Nat]
    BY <1>7 DEF ExecuteResult, TypeOK
  <2> QED
    BY <1>7, <2>1, <2>2 DEF ExecuteResult, TypeOK
<1>8. CASE Save
  <2>1. session' \in [Keys -> Values]
    BY <1>8 DEF Save, TypeOK, Absent, Values
  <2>2. expected' \in [Windows -> Values]
    BY <1>8 DEF Save, TypeOK, Values
  <2> QED
    BY <1>8, <2>1, <2>2 DEF Save, TypeOK
<1>9. CASE Finished
  BY <1>9 DEF Finished, vars, TypeOK
<1> QED
  BY <1>1, <1>2, <1>3, <1>4, <1>5, <1>6, <1>7, <1>8, <1>9 DEF Next

LEMMA UnusedKeeps == ASSUME TypeOK, Unused, Next PROVE Unused'
<1> USE DEF tempData, action, history
<1>1. ASSUME NEW w \in Windows, Request(w) PROVE Unused'
  BY <1>1 DEF Request, Unused
<1>2. CASE OnActionExecuting
  BY <1>2 DEF OnActionExecuting, Unused
<1>3. CASE Action
  BY <1>3 DEF Action, Unused
<1>4. CASE CopyModelState \/ StoreParameters \/ CopyToViewData
  BY <1>4 DEF CopyModelState, StoreParameters, CopyToViewData, Unused
<1>5. CASE ExecuteResult \/ Save
  BY <1>5 DEF ExecuteResult, Save, Unused
<1>6. CASE Finished
  BY <1>6 DEF Finished, vars, Unused
<1> QED
  BY <1>1, <1>2, <1>3, <1>4, <1>5, <1>6 DEF Next

-----------------------------------------------------------------------------
(* Failures are shown once *)

LEMMA OnceKeeps == ASSUME TypeOK, Unused, Once, Next PROVE Once'
<1> USE DEF tempData, action, history
<1>1. /\ \A id \in Ids : shown[id] <= 1 /\ (id > ids => shown[id] = 0)
      /\ pc \in {"rest", "executing", "action"} => Unshown(session[ModelKey])
      /\ pc \in Loaded => Unshown(data[ModelKey]) /\ ModelKey \notin retained
  BY DEF Once
<1>2. \A key \in Keys : data[key] \subseteq Ids
  BY DEF TypeOK, Values
<1>3. ASSUME NEW w \in Windows, Request(w) PROVE Once'
  <2>1. /\ UNCHANGED <<session, shown, ids>> /\ data' = session /\ retained' = {}
        /\ pc = "rest" /\ pc' = "executing"
    BY <1>3 DEF Request
  <2> QED
    BY <1>1, <2>1 DEF Once, Unshown, Loaded
<1>4. CASE OnActionExecuting
  <2>1. /\ UNCHANGED <<session, shown, ids, data>>
        /\ pc = "executing" /\ pc' = "action"
        /\ retained' \subseteq retained \cup matching
    BY <1>4 DEF OnActionExecuting
  <2>2. ModelKey \notin retained'
    BY <1>1, <2>1, KeyFacts DEF TypeOK, Loaded
  <2> QED
    BY <1>1, <2>1, <2>2 DEF Once, Unshown, Loaded
<1>5. CASE Action
  <2>1. UNCHANGED <<session, shown, data, marked, retained>> /\ pc = "action" /\ pc' = "executed"
    BY <1>5 DEF Action
  <2>2. /\ ids' \in ids..MaxIds
        /\ \A id \in modelState' : id \in Ids /\ ids < id /\ id <= ids'
    BY <1>5, NewIds
  <2>3. ids \in Nat /\ MaxIds \in Nat /\ \A id \in Ids : id \in Nat
    BY KeyFacts DEF TypeOK, Ids
  <2>4. \A id \in Ids : shown'[id] <= 1 /\ (id > ids' => shown'[id] = 0)
    BY <1>1, <2>1, <2>2, <2>3
  <2>5. data[ModelKey] \subseteq Ids
    BY <1>2, KeyFacts
  <2>6. Unshown(data[ModelKey])'
    BY <1>1, <2>1, <2>2, <2>3, <2>5 DEF Unshown, Loaded
  <2>7. Unshown(modelState)'
    BY <1>1, <2>1, <2>2, <2>3 DEF Unshown
  <2>8. modelState' \cap data[ModelKey] = {}
    BY <1>1, <2>1, <2>2, <2>3, <2>5 DEF Unshown, Loaded
  <2> QED
    BY <1>1, <2>1, <2>4, <2>6, <2>7, <2>8 DEF Once, Loaded
<1>6. CASE CopyModelState
  <2>1. UNCHANGED <<session, shown, ids, retained, kind>> /\ pc = "executed" /\ pc' = "executed"
    BY <1>6 DEF CopyModelState
  <2>2. /\ Unshown(modelState) /\ Unshown(data[ModelKey]) /\ ModelKey \notin retained
        /\ IsView /\ modelState \cap data[ModelKey] # {} => ModelKey \in marked
    BY <1>1, <2>1 DEF Once, Loaded
  <2>3. CASE IsView
    <3>1. /\ modelState' = modelState \cup data[ModelKey] /\ data' = data
          /\ marked' = marked \cup ({ModelKey} \cap Present)
      BY <1>6, <2>3 DEF CopyModelState, IsView, Redirects
    <3>2. data[ModelKey] # {} => ModelKey \in marked'
      BY <3>1, KeyFacts DEF Present, Absent
    <3> QED
      BY <1>1, <2>1, <2>2, <3>1, <3>2 DEF Once, Unshown, Loaded
  <2>4. CASE ~IsView
    <3>1. ~IsView'
      BY <2>1, <2>4 DEF IsView
    <3>2. modelState' = modelState
          /\ (data' = data \/ data' = [data EXCEPT ![ModelKey] = modelState])
      BY <1>6, <2>4 DEF CopyModelState
    <3>3. Unshown(data[ModelKey])'
      BY <2>1, <2>2, <3>2, KeyFacts DEF Unshown, TypeOK
    <3> QED
      BY <1>1, <2>1, <2>2, <3>1, <3>2, <3>3 DEF Once, Unshown, Loaded
  <2> QED
    BY <2>3, <2>4
<1>7. CASE StoreParameters
  <2>1. /\ UNCHANGED <<session, shown, ids, retained, kind, modelState>>
        /\ pc = "executed" /\ pc' = "executed"
        /\ marked' = marked \ {p \in Params : passed[p] # Absent}
    BY <1>7 DEF StoreParameters
  <2>2. data'[ModelKey] = data[ModelKey]
    BY <1>7, KeyFacts DEF StoreParameters
  <2>3. ModelKey \in marked => ModelKey \in marked'
    BY <2>1, KeyFacts
  <2> QED
    BY <2>1, <2>2, <2>3 DEF Once, Unshown, Loaded, IsView
<1>8. CASE CopyToViewData
  <2>1. /\ UNCHANGED <<session, shown, ids, retained, kind, modelState, data>>
        /\ pc = "executed" /\ pc' = "executed"
        /\ marked \subseteq marked'
    BY <1>8 DEF CopyToViewData
  <2> QED
    BY <2>1 DEF Once, Unshown, Loaded, IsView
<1>9. CASE ExecuteResult
  <2>1. /\ UNCHANGED <<session, ids, data, marked, kind, modelState>>
        /\ pc = "executed" /\ pc' = "save"
        /\ ~Redirects => retained' = retained
        /\ shown' = [id \in Ids |->
              IF IsView /\ id \in modelState THEN shown[id] + 1 ELSE shown[id]]
    BY <1>9 DEF ExecuteResult
  <2>2. /\ Unshown(modelState) /\ Unshown(data[ModelKey]) /\ ModelKey \notin retained
        /\ IsView /\ modelState \cap data[ModelKey] # {} => ModelKey \in marked
    BY <1>1, <2>1 DEF Once, Loaded
  <2>3. \A id \in Ids : shown'[id] <= 1 /\ (id > ids => shown'[id] = 0)
    <3>1. ids \in Nat /\ \A id \in Ids : id \in Nat /\ shown[id] \in Nat
      BY DEF TypeOK, Ids
    <3> QED
      BY <1>1, <2>1, <2>2, <3>1 DEF Unshown
  <2>4. Unshown(data[ModelKey])' \/ ModelKey \in marked' \ retained'
    <3>1. CASE IsView /\ modelState \cap data[ModelKey] # {}
      BY <2>1, <2>2, <3>1 DEF IsView, Redirects
    <3>2. CASE ~IsView \/ modelState \cap data[ModelKey] = {}
      <4>1. \A id \in data[ModelKey] : id \in Ids /\ shown'[id] = shown[id]
        BY <1>2, <2>1, <3>2, KeyFacts
      <4> QED
        BY <2>1, <2>2, <4>1 DEF Unshown
    <3> QED
      BY <3>1, <3>2
  <2> QED
    BY <2>1, <2>3, <2>4 DEF Once, Loaded
<1>10. CASE Save
  <2>1. /\ UNCHANGED <<shown, ids>> /\ pc = "save" /\ pc' = "rest"
        /\ session'[ModelKey] = IF ModelKey \in marked /\ ModelKey \notin retained
                                THEN Absent ELSE data[ModelKey]
    BY <1>10, KeyFacts DEF Save
  <2>2. Unshown(session[ModelKey])'
    BY <2>1 DEF Once, Unshown, Absent
  <2> QED
    BY <1>1, <2>1, <2>2 DEF Once, Loaded
<1>11. CASE Finished
  BY <1>11 DEF Finished, vars, Once, Unshown, Loaded, IsView
<1> QED
  BY <1>3, <1>4, <1>5, <1>6, <1>7, <1>8, <1>9, <1>10, <1>11 DEF Next

-----------------------------------------------------------------------------
(* Parameters *)

LEMMA LatestKeeps == ASSUME TypeOK, Unused, Latest, Next PROVE Latest'
<1> USE DEF tempData, action, history
<1>1. ASSUME NEW w \in Windows, Request(w) PROVE Latest'
  BY <1>1 DEF Request, Latest
<1>2. CASE OnActionExecuting
  <2>1. UNCHANGED <<data, latest>> /\ pc = "executing" /\ pc' = "action"
    BY <1>2 DEF OnActionExecuting
  <2>2. \A p \in Params : arguments'[p] # Absent => arguments'[p] = data[p]
    <3>1. CASE "params" \in filters
      BY <1>2, <3>1 DEF OnActionExecuting
    <3>2. CASE "params" \notin filters
      BY <1>2, <2>1, <3>2 DEF OnActionExecuting, Unused, NoParams
    <3> QED
      BY <3>1, <3>2
  <2> QED
    BY <2>1, <2>2 DEF Latest
<1>3. CASE Action
  BY <1>3 DEF Action, Latest
<1>4. CASE CopyModelState
  <2>1. UNCHANGED latest /\ pc' = "executed"
        /\ (data' = data \/ data' = [data EXCEPT ![ModelKey] = modelState])
    BY <1>4 DEF CopyModelState, IsView, Redirects
  <2>2. \A p \in Params : data'[p] = data[p]
    BY <2>1, KeyFacts DEF TypeOK
  <2> QED
    BY <2>1, <2>2 DEF Latest
<1>5. CASE StoreParameters
  <2>1. pc' = "executed"
    BY <1>5 DEF StoreParameters
  <2>2. \A p \in Params :
          /\ data'[p] = IF passed[p] # Absent THEN passed[p] ELSE data[p]
          /\ latest'[p] = IF passed[p] # Absent THEN passed[p] ELSE latest[p]
    BY <1>5, KeyFacts DEF StoreParameters
  <2> QED
    BY <2>1, <2>2 DEF Latest
<1>6. CASE CopyToViewData \/ ExecuteResult
  BY <1>6 DEF CopyToViewData, ExecuteResult, Latest
<1>7. CASE Save
  <2>1. UNCHANGED <<data, latest>> /\ pc' = "rest"
        /\ \A p \in Params : session'[p] = Absent \/ session'[p] = data[p]
    BY <1>7, KeyFacts DEF Save
  <2> QED
    BY <2>1 DEF Latest
<1>8. CASE Finished
  BY <1>8 DEF Finished, vars, Latest
<1> QED
  BY <1>1, <1>2, <1>3, <1>4, <1>5, <1>6, <1>7, <1>8 DEF Next

LEMMA KeptKeeps == ASSUME TypeOK, Unused, Kept, Next PROVE Kept'
<1> USE DEF tempData, action, history
<1>1. ASSUME NEW w \in Windows, Request(w) PROVE Kept'
  BY <1>1 DEF Request, Kept
<1>2. CASE OnActionExecuting
  <2>1. pc = "executing" /\ UNCHANGED <<data, passed>>
    BY <1>2 DEF OnActionExecuting
  <2>2. CASE "params" \in filters
    <3>1. /\ arguments' = [p \in Params |-> IF p \in matching THEN data[p] ELSE Absent]
          /\ retained' = retained \cup (matching \cap Present)
      BY <1>2, <2>2 DEF OnActionExecuting
    <3>2. \A p \in Params : arguments'[p] # Absent =>
            p \in retained' /\ data[p] = arguments'[p]
      BY <3>1, KeyFacts DEF Present
    <3> QED
      BY <2>1, <3>2 DEF Kept
  <2>3. CASE "params" \notin filters
    <3>1. arguments' = NoParams
      BY <1>2, <2>1, <2>3 DEF OnActionExecuting, Unused
    <3> QED
      BY <3>1 DEF Kept, NoParams
  <2> QED
    BY <2>2, <2>3
<1>3. CASE Action
  <2>1. UNCHANGED <<data, retained, arguments>> /\ pc = "action" /\ passed = NoParams
    BY <1>3 DEF Action, Unused
  <2> QED
    BY <2>1 DEF Kept, NoParams
<1>4. CASE CopyModelState
  <2>1. UNCHANGED <<retained, passed, arguments>> /\ pc = "executed"
        /\ (data' = data \/ data' = [data EXCEPT ![ModelKey] = modelState])
    BY <1>4 DEF CopyModelState, IsView, Redirects
  <2>2. \A p \in Params : data'[p] = data[p]
    BY <2>1, KeyFacts DEF TypeOK
  <2> QED
    BY <2>1, <2>2 DEF Kept
<1>5. CASE StoreParameters
  <2>1. UNCHANGED <<retained, passed, arguments>> /\ pc = "executed"
        /\ \A p \in Params : passed[p] = Absent => data'[p] = data[p]
    BY <1>5, KeyFacts DEF StoreParameters
  <2> QED
    BY <2>1 DEF Kept
<1>6. CASE CopyToViewData
  BY <1>6 DEF CopyToViewData, Kept
<1>7. CASE ExecuteResult
  <2>1. UNCHANGED <<data, passed, arguments>> /\ pc = "executed"
        /\ retained' = IF Redirects THEN Present ELSE retained
    BY <1>7 DEF ExecuteResult
  <2>2. \A p \in Params : p \in retained /\ data[p] # Absent => p \in retained'
    BY <2>1, KeyFacts DEF Present
  <2> QED
    BY <2>1, <2>2 DEF Kept
<1>8. CASE Save
  BY <1>8 DEF Save, Kept
<1>9. CASE Finished
  BY <1>9 DEF Finished, vars, Kept
<1> QED
  BY <1>1, <1>2, <1>3, <1>4, <1>5, <1>6, <1>7, <1>8, <1>9 DEF Next

-----------------------------------------------------------------------------
(* Failures reach the view *)

\* Where the failures are, by the place of the request.
CarriedHere ==
    /\ pc = "rest" => expected[window] \subseteq session[ModelKey]
    /\ pc # "rest" /\ ~Takes =>
        expected[window] \subseteq data[ModelKey] /\ ModelKey \notin marked
    /\ Takes => expected[window] \subseteq modelState

LEMMA CarriedKeeps == ASSUME TypeOK, Unused, Carried, Next PROVE Carried'
<1> USE DEF tempData, action, history
<1>1. site' = site /\ open' = open
  BY DEF Next, Request, OnActionExecuting, Action, CopyModelState,
         StoreParameters, CopyToViewData, ExecuteResult, Save, Finished, vars
<1>2. SUFFICES ASSUME open = {window'}, \A fs \in site : {"params", "viewdata"} \cap fs = {}
               PROVE  CarriedHere'
  BY <1>1 DEF Carried, CarriedHere
<1>3. window' = window /\ window \in open
  BY <1>2 DEF TypeOK
<1>4. CarriedHere
  BY <1>2, <1>3 DEF Carried, CarriedHere
<1>5. "params" \notin filters /\ "viewdata" \notin filters /\ left \subseteq filters
      /\ window \in DOMAIN expected
  BY <1>2 DEF TypeOK
<1>6. ASSUME NEW w \in Windows, Request(w) PROVE CarriedHere'
  <2>1. pc = "rest" /\ pc' = "executing" /\ data' = session /\ marked' = {}
        /\ expected' = expected
    BY <1>6 DEF Request
  <2> QED
    BY <1>3, <1>4, <2>1 DEF CarriedHere, Takes
<1>7. CASE OnActionExecuting
  <2>1. pc = "executing" /\ pc' = "action" /\ UNCHANGED <<data, marked, expected>>
    BY <1>5, <1>7 DEF OnActionExecuting
  <2> QED
    BY <1>3, <1>4, <2>1 DEF CarriedHere, Takes
<1>8. CASE Action
  <2>1. pc = "action" /\ pc' = "executed" /\ UNCHANGED <<data, marked, expected, filters>>
        /\ left' = filters
    BY <1>8 DEF Action
  <2> QED
    BY <1>3, <1>4, <2>1 DEF CarriedHere, Takes
<1>9. CASE CopyModelState
  <2>1. /\ pc = "executed" /\ pc' = "executed" /\ kind' = kind /\ filters' = filters
        /\ "model" \in left /\ left' = left \ {"model"}
    BY <1>9 DEF CopyModelState
  <2>2. expected[window] \subseteq data[ModelKey] /\ ModelKey \notin marked
        /\ "model" \in filters /\ (Takes' <=> IsView)
    BY <1>4, <1>5, <2>1 DEF CarriedHere, Takes, IsView
  <2>3. CASE IsView
    <3>1. modelState' = modelState \cup data[ModelKey] /\ expected' = expected
      BY <1>9, <2>3 DEF CopyModelState, IsView, Redirects
    <3> QED
      BY <1>3, <2>1, <2>2, <2>3, <3>1 DEF CarriedHere
  <2>4. CASE Redirects /\ modelState # {}
    <3>1. /\ data' = [data EXCEPT ![ModelKey] = modelState]
          /\ marked' = marked \ {ModelKey}
          /\ expected' = [expected EXCEPT ![window] = modelState]
      BY <1>9, <2>4 DEF CopyModelState, IsView, Redirects
    <3>2. data'[ModelKey] = modelState /\ expected'[window] = modelState
      BY <1>5, <3>1, KeyFacts DEF TypeOK
    <3> QED
      BY <1>3, <2>1, <2>2, <2>4, <3>1, <3>2 DEF CarriedHere, IsView, Redirects
  <2>5. CASE ~IsView /\ ~(Redirects /\ modelState # {})
    <3>1. UNCHANGED <<data, marked, expected>>
      BY <1>9, <2>5 DEF CopyModelState
    <3> QED
      BY <1>3, <2>1, <2>2, <2>5, <3>1 DEF CarriedHere
  <2> QED
    BY <2>3, <2>4, <2>5 DEF IsView, Redirects
<1>10. CASE StoreParameters \/ CopyToViewData
  BY <1>5, <1>10 DEF StoreParameters, CopyToViewData
<1>11. CASE ExecuteResult
  <2>1. /\ pc = "executed" /\ pc' = "save" /\ left = {}
        /\ UNCHANGED <<kind, filters, left, data, marked, modelState, expected>>
    BY <1>11 DEF ExecuteResult
  <2>2. Takes' <=> Takes
    BY <2>1 DEF Takes, IsView
  <2> QED
    BY <1>3, <1>4, <2>1, <2>2 DEF CarriedHere
<1>12. CASE Save
  <2>1. /\ pc = "save" /\ pc' = "rest" /\ left = {}
        /\ session'[ModelKey] = IF ModelKey \in marked /\ ModelKey \notin retained
                                THEN Absent ELSE data[ModelKey]
        /\ expected' = IF IsView /\ "model" \in filters
                       THEN [expected EXCEPT ![window] = {}] ELSE expected
    BY <1>12, KeyFacts DEF Save, Unused
  <2>2. ~Takes'
    BY <2>1 DEF Takes
  <2>3. CASE Takes
    <3>1. expected'[window] = {}
      BY <1>5, <2>1, <2>3 DEF Takes
    <3> QED
      BY <1>3, <2>1, <2>2, <3>1 DEF CarriedHere
  <2>4. CASE ~Takes
    <3>1. expected' = expected /\ session'[ModelKey] = data[ModelKey]
      BY <1>4, <2>1, <2>4 DEF Takes, CarriedHere
    <3> QED
      BY <1>3, <1>4, <2>1, <2>2, <2>4, <3>1 DEF CarriedHere
  <2> QED
    BY <2>3, <2>4
<1>13. CASE Finished
  BY <1>4, <1>13 DEF Finished, vars, CarriedHere, Takes, IsView
<1> QED
  BY <1>6, <1>7, <1>8, <1>9, <1>10, <1>11, <1>12, <1>13 DEF Next

-----------------------------------------------------------------------------
(* The invariant *)

LEMMA InitHolds == Init => IInv
<1> SUFFICES ASSUME Init PROVE IInv
  OBVIOUS
<1>1. TypeOK
  BY InitType
<1>2. pc = "rest" /\ session = NoData /\ data = NoData /\ left = {}
      /\ \A id \in Ids : shown[id] = 0
  BY DEF Init
<1>3. \A key \in Keys : NoData[key] = {}
  BY DEF NoData, Absent
<1>4. Unused
  BY <1>2 DEF Unused
<1>5. Once
  BY <1>2, <1>3, KeyFacts DEF Once, Unshown, Loaded
<1>6. Latest /\ Kept
  BY <1>2, <1>3, KeyFacts DEF Latest, Kept, Absent
<1>7. Carried
  <2>1. window \in Windows /\ expected[window] = {}
    BY DEF Init
  <2> QED
    BY <1>2, <2>1 DEF Carried, Takes
<1> QED
  BY <1>1, <1>4, <1>5, <1>6, <1>7 DEF IInv

LEMMA NextKeeps == IInv /\ [Next]_vars => IInv'
<1> SUFFICES ASSUME IInv, [Next]_vars PROVE IInv'
  OBVIOUS
<1>1. CASE Next
  BY <1>1, NextType, UnusedKeeps, OnceKeeps, LatestKeeps, KeptKeeps, CarriedKeeps DEF IInv
<1>2. CASE UNCHANGED vars
  BY <1>2 DEF IInv, TypeOK, Unused, Once, Unshown, Loaded, Latest, Kept, Carried, Takes, IsView,
              vars, tempData, action, history
<1> QED
  BY <1>1, <1>2

LEMMA Invariance == Spec => []IInv
<1>1. Init => IInv
  BY InitHolds
<1>2. IInv /\ [Next]_vars => IInv'
  BY NextKeeps
<1> QED
  BY <1>1, <1>2, PTL DEF Spec

-----------------------------------------------------------------------------
(* Theorems *)

\* All variables keep their types, and an action is only given an argument from
\* TempData for a parameter that the stored object fits
\* (PassParametersDuringRedirectAttribute.cs:106-108).
THEOREM TypeCorrect == Spec => []TypeOK
<1>1. IInv => TypeOK
  BY DEF IInv
<1> QED
  BY <1>1, Invariance, PTL

\* A failure that ModelStateToTempData carries is shown in at most one view,
\* for any windows, filters and order of requests
\* (ModelStateToTempDataAttribute.cs: OnActionExecuted, CopyTempDataToModelState).
THEOREM FailuresShownOnce == Spec => []ShownAtMostOnce
<1>1. IInv => ShownAtMostOnce
  BY DEF IInv, Once, ShownAtMostOnce
<1> QED
  BY <1>1, Invariance, PTL

\* With one window and no filter that enumerates TempData, the next view that
\* bears the filter has the failures of the last failing redirect
\* (ModelStateToTempDataAttribute.cs: OnActionExecuted).
THEOREM FailuresReach == Spec => []FailuresReachTheViewUnread
<1>1. IInv => FailuresReachTheViewUnread
  BY DEF IInv, Unused, Carried, Takes, FailuresReachTheViewUnread, FailuresReachTheView
<1> QED
  BY <1>1, Invariance, PTL

\* An argument taken from TempData is the object stored last for the parameter,
\* which later redirects that passed null, or a value for the query string, have
\* left there (PassParametersDuringRedirectAttribute.cs:79-86, :97-114).
THEOREM ArgumentsLatest == Spec => []ArgumentsAreLatest
<1>1. IInv => ArgumentsAreLatest
  BY DEF IInv, Latest, ArgumentsAreLatest
<1> QED
  BY <1>1, Invariance, PTL

\* A request leaves the parameter its action took in the session, unless it
\* stores another one (PassParametersDuringRedirectAttribute.cs: the Keep in
\* LoadParameterValuesFromTempData).
THEOREM ReloadsFindParameters == Spec => ParametersSurviveReload
<1> DEFINE Reload == \A p \in Params :
        pc = "save" /\ arguments[p] # Absent /\ session'[p] # arguments[p] => passed[p] # Absent
<1>1. ASSUME IInv, [Next]_vars PROVE [Reload]_vars
  <2>1. CASE UNCHANGED vars
    BY <2>1
  <2>2. CASE pc # "save"
    BY <2>2
  <2>3. CASE Save
    <3>1. \A p \in Params : arguments[p] # Absent /\ passed[p] = Absent =>
            p \in retained /\ data[p] = arguments[p]
      BY <1>1, <2>3 DEF IInv, Kept, Save
    <3>2. \A p \in Params : p \in retained => session'[p] = data[p]
      BY <2>3, KeyFacts DEF Save
    <3> QED
      BY <3>1, <3>2
  <2> QED
    BY <1>1, <2>1, <2>2, <2>3 DEF Next, Request, OnActionExecuting, Action,
       CopyModelState, StoreParameters, CopyToViewData, ExecuteResult, Finished
<1> QED
  BY <1>1, Invariance, PTL DEF Spec, ParametersSurviveReload
=============================================================================
