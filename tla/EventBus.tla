------------------------------ MODULE EventBus -------------------------------
(***************************************************************************)
(* What an application bus promises (IApplicationBus.cs, IMessageHandler.cs *)
(* and the way PortableAreaRegistration uses them): handlers are registered *)
(* one by one and never forgotten; a Send has to call the handlers that    *)
(* were registered when it began and accept the message, one at a time in  *)
(* registration order.  After them it may call handlers registered since.  *)
(* It succeeds only when none is left and no registration has returned     *)
(* since it began, and may fail before.                                    *)
(***************************************************************************)
EXTENDS Naturals, Sequences

CONSTANTS Senders, Types, Messages, Handles

VARIABLES
    registered, \* for every bus, its handlers in registration order
    returned,   \* and how many of their registrations have returned
    send,       \* for every sender, its Send under way: the bus, the message
                \* and what `returned` was for the bus when it began
    todo,       \* the handlers it has still to call, each with its place
    called,     \* and those it has called
    status      \* for every sender, "out", "sending", "ok" or "failed"

vars == <<registered, returned, send, todo, called, status>>

NoSend == <<>>

Recipients(list, msg) ==
    {<<p, list[p]>> : p \in {p \in DOMAIN list : msg \in Handles[list[p]]}}

Init ==
    /\ registered = <<>> /\ returned = <<>>
    /\ send = [t \in Senders |-> NoSend]
    /\ todo = [t \in Senders |-> {}]
    /\ called = [t \in Senders |-> <<>>]
    /\ status = [t \in Senders |-> "out"]

NewBus ==
    /\ registered' = Append(registered, <<>>)
    /\ returned' = Append(returned, 0)
    /\ UNCHANGED <<send, todo, called, status>>

Register ==
    /\ \E b \in DOMAIN registered, type \in Types :
          registered' = [registered EXCEPT ![b] = Append(@, type)]
    /\ UNCHANGED <<returned, send, todo, called, status>>

RegistrationReturns ==
    /\ \E b \in DOMAIN registered :
          /\ returned[b] < Len(registered[b])
          /\ returned' = [returned EXCEPT ![b] = @ + 1]
    /\ UNCHANGED <<registered, send, todo, called, status>>

Begin(t) ==
    /\ status[t] # "sending"
    /\ status' = [status EXCEPT ![t] = "sending"]
    /\ \E b \in DOMAIN registered, msg \in Messages :
          /\ send' = [send EXCEPT ![t] = <<b, msg, returned[b]>>]
          /\ todo' = [todo EXCEPT ![t] = Recipients(registered[b], msg)]
    /\ UNCHANGED <<registered, returned, called>>

\* The first handler still to call returns normally.
Deliver(t) ==
    /\ status[t] = "sending"
    /\ \E first \in todo[t] :
          /\ \A other \in todo[t] : first[1] <= other[1]
          /\ todo' = [todo EXCEPT ![t] = @ \ {first}]
          /\ called' = [called EXCEPT ![t] = Append(@, first)]
    /\ UNCHANGED <<registered, returned, send, status>>

\* So does one registered since the Send began, further on in the list.
DeliverLate(t) ==
    /\ status[t] = "sending"
    /\ todo[t] = {}
    /\ \E late \in Recipients(registered[send[t][1]], send[t][2]) :
          /\ \A i \in DOMAIN called[t] : called[t][i][1] < late[1]
          /\ called' = [called EXCEPT ![t] = Append(@, late)]
    /\ UNCHANGED <<registered, returned, send, todo, status>>

End(t, how) ==
    /\ status' = [status EXCEPT ![t] = how]
    /\ send' = [send EXCEPT ![t] = NoSend]
    /\ todo' = [todo EXCEPT ![t] = {}]
    /\ UNCHANGED <<registered, returned, called>>

Succeed(t) ==
    /\ status[t] = "sending"
    /\ todo[t] = {}
    /\ returned[send[t][1]] = send[t][3]
    /\ End(t, "ok")

\* A handler cannot be created or throws, or the list changed: the rest of
\* the recipients is never called.
Fail(t) == status[t] = "sending" /\ End(t, "failed")

Leave(t) ==
    /\ status[t] \in {"ok", "failed"}
    /\ status' = [status EXCEPT ![t] = "out"]
    /\ called' = [called EXCEPT ![t] = <<>>]
    /\ UNCHANGED <<registered, returned, send, todo>>

Next ==
    \/ NewBus \/ Register \/ RegistrationReturns
    \/ \E t \in Senders : \/ Begin(t) \/ Deliver(t) \/ DeliverLate(t)
                          \/ Succeed(t) \/ Fail(t) \/ Leave(t)

Spec == Init /\ [][Next]_vars
=============================================================================
