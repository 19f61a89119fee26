-------------------------- MODULE CallbackRegistry --------------------------
(***************************************************************************)
(* What the callback functions of the datagram service promise: a bounded  *)
(* bag of registrations.  Every intact message from another node runs      *)
(* exactly one callback that is registered for its type at that moment, if *)
(* there is one, and it does so only while the service is up.              *)
(***************************************************************************)
EXTENDS Integers, FiniteSetsExt

CONSTANTS
    Type, Callback,  \* message types; functions
    Nothing,         \* no message, no callback
    Capacity         \* size of the bag

VARIABLES
    up,              \* is the service up?
    reg,             \* how often each callback is registered for each type
    msg,             \* type of the last message, Nothing if it was refused
    running,         \* the callback that is running, with its type, or Nothing
    result           \* what the last call returned

vars == <<up, reg, msg, running, result>>

Registration == Type \X Callback

Empty == [r \in Registration |-> 0]

Total == MapThenSumSet(LAMBDA r : reg[r], Registration)

For(t) == {r \in Registration : r[1] = t /\ reg[r] > 0}

Init ==
    /\ up = FALSE
    /\ reg = Empty
    /\ msg = Nothing
    /\ running = Nothing
    /\ result = "OK"

Start ==
    /\ ~up
    /\ up' \in BOOLEAN
    /\ reg' = Empty
    /\ result' = IF up' THEN "OK" ELSE "COMM_FAIL"
    /\ UNCHANGED <<msg, running>>

\* The service goes down.  It may keep the registrations until the next start, or
\* forget them.
Stop ==
    /\ up' = FALSE
    /\ \/ reg' = reg
       \/ up /\ reg' = Empty
    /\ result' = "OK"
    /\ UNCHANGED <<msg, running>>

Add(r) ==
    /\ Total < Capacity
    /\ reg' = [reg EXCEPT ![r] = @ + 1]
    /\ result' = "OK"
    /\ UNCHANGED <<up, msg, running>>

AddFull ==
    /\ Total = Capacity
    /\ result' = "NO_MEMORY"
    /\ UNCHANGED <<up, reg, msg, running>>

Remove(t) ==
    /\ \E r \in For(t) : reg' = [reg EXCEPT ![r] = @ - 1]
    /\ result' = "OK"
    /\ UNCHANGED <<up, msg, running>>

RemoveNone(t) ==
    /\ For(t) = {}
    /\ result' = "NOT_FOUND"
    /\ UNCHANGED <<up, reg, msg, running>>

\* A message arrives that is intact and of somebody else.
Deliver(t) ==
    /\ up
    /\ running = Nothing
    /\ msg' = t
    /\ IF For(t) = {} THEN running' = Nothing ELSE running' \in For(t)
    /\ UNCHANGED <<up, reg, result>>

Refuse ==
    /\ msg' = Nothing
    /\ UNCHANGED <<up, reg, running, result>>

Finish ==
    /\ running' = Nothing
    /\ UNCHANGED <<up, reg, msg, result>>

Other ==
    /\ result' \in {"OK", "INVALID_ARG", "TIMEOUT"}
    /\ UNCHANGED <<up, reg, msg, running>>

Next ==
    \/ Start \/ Stop
    \/ \E r \in Registration : Add(r)
    \/ AddFull
    \/ \E t \in Type : Remove(t) \/ RemoveNone(t) \/ Deliver(t)
    \/ Refuse \/ Finish \/ Other

Spec == Init /\ [][Next]_vars

=============================================================================
