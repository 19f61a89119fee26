------------------------------ MODULE Dispatch ------------------------------
(***************************************************************************)
(* The receiving side of core/network.c: the callback table, comm_poll     *)
(* with process_received_message, comm_receive, and the lifecycle as far   *)
(* as they meet it.                                                        *)
(*                                                                         *)
(* A callback may call the service again, except for comm_poll: those of   *)
(* main.c only send.  Payloads, byte counters and last_seen are left out.  *)
(***************************************************************************)
EXTENDS Integers, FiniteSets, FiniteSetsExt

CONSTANTS
    Type,          \* MessageType_t
    Callback,      \* functions of the application
    Nothing,       \* NULL
    MAX_CALLBACKS,
    MaxReceived    \* BOUND: packets counted between two resets

ASSUME CallbacksAssumption == MAX_CALLBACKS \in Nat \ {0} /\ MaxReceived \in Nat
ASSUME FinitenessAssumption == IsFiniteSet(Type) /\ IsFiniteSet(Callback)
ASSUME NothingAssumption == Nothing \notin Type /\ Nothing \notin Callback /\
                            Nothing \notin Type \X Callback

VARIABLES
    callbacks,         \* g_comm.callbacks
    initialized,       \* g_comm.initialized
    open,              \* does g_comm.socket_fd name an open socket?
    pc,                \* "out", in comm_poll's loop, or in a "callback" it called
    running,           \* type and function of the callback that runs, or Nothing
    packets_received,  \* g_comm.stats
    receive_errors,
    crc_errors,
    msg,               \* history: type of the last datagram, Nothing if refused
    result             \* what the last call returned

stats == <<packets_received, receive_errors, crc_errors>>
service == <<callbacks, initialized, open>>
vars == <<service, pc, running, stats, msg, result>>

Slot == 1..MAX_CALLBACKS

CallbackEntry_t == [active : BOOLEAN, type : Type \cup {Nothing}, callback : Callback \cup {Nothing}]

NoCallbacks == [i \in Slot |-> [active |-> FALSE, type |-> Nothing, callback |-> Nothing]]

\* What recvfrom may bring: shorter than a header, without the magic, damaged, sent
\* by ourselves, or intact from another node; a type nobody knows is possible.
Datagram == {"short", "alien", "damaged", "own"} \X {Nothing} \cup {"intact"} \X Type

-----------------------------------------------------------------------------
FreeSlots == {i \in Slot : ~callbacks[i].active}

Bug_MatchesInactive(t) == {i \in Slot : callbacks[i].type = t}

Matching(t) == {i \in Slot : callbacks[i].active /\ callbacks[i].type = t}

First(S) == CHOOSE i \in S : \A j \in S : i <= j

Init ==
    /\ callbacks = NoCallbacks
    /\ initialized = FALSE
    /\ open = FALSE
    /\ pc = "out"
    /\ running = Nothing
    /\ packets_received = 0
    /\ receive_errors = 0
    /\ crc_errors = 0
    /\ msg = Nothing
    /\ result = "OK"

(* Calls, from the main program or from a callback *)

\* All is wiped before socket_init may fail.
comm_init ==
    IF initialized
    THEN result' = "OK" /\ UNCHANGED <<service, stats>>
    ELSE /\ callbacks' = NoCallbacks
         /\ packets_received' = 0
         /\ receive_errors' = 0
         /\ crc_errors' = 0
         /\ \E bound \in BOOLEAN :
               /\ open' = bound
               /\ initialized' = bound
               /\ result' = IF bound THEN "OK" ELSE "COMM_FAIL"

comm_shutdown ==
    /\ initialized' = FALSE
    /\ open' = (open /\ ~initialized)
    /\ result' = "OK"
    /\ UNCHANGED <<callbacks, stats>>

comm_register_callback(t, c) ==
    /\ IF FreeSlots # {}
       THEN /\ callbacks' = [callbacks EXCEPT ![First(FreeSlots)] =
                                [active |-> TRUE, type |-> t, callback |-> c]]
            /\ result' = "OK"
       ELSE result' = "NO_MEMORY" /\ UNCHANGED callbacks
    /\ UNCHANGED <<initialized, open, stats>>

\* A NULL callback.
RefuseCallback ==
    /\ result' = "INVALID_ARG"
    /\ UNCHANGED <<service, stats>>

Bug_LeavesSlotActive(t) ==
    /\ IF Matching(t) # {}
       THEN /\ callbacks' = [callbacks EXCEPT ![First(Matching(t))].callback = Nothing]
            /\ result' = "OK"
       ELSE result' = "NOT_FOUND" /\ UNCHANGED callbacks
    /\ UNCHANGED <<initialized, open, stats>>

\* The first one of the type goes; others of the type stay.
comm_unregister_callback(t) ==
    /\ IF Matching(t) # {}
       THEN /\ callbacks' = [callbacks EXCEPT ![First(Matching(t))] =
                                [active |-> FALSE, type |-> @.type, callback |-> Nothing]]
            /\ result' = "OK"
       ELSE result' = "NOT_FOUND" /\ UNCHANGED callbacks
    /\ UNCHANGED <<initialized, open, stats>>

\* The direct way: short and alien datagrams are passed over without being counted,
\* damaged and own ones are returned like any other.
comm_receive ==
    /\ \/ /\ open
          /\ packets_received < MaxReceived
          /\ packets_received' = packets_received + 1
          /\ result' = "OK"
       \/ result' = "TIMEOUT" /\ UNCHANGED packets_received
    /\ UNCHANGED <<service, receive_errors, crc_errors>>

Bug_ResetsPacketsOnly ==
    /\ packets_received' = 0
    /\ result' = "OK"
    /\ UNCHANGED <<service, receive_errors, crc_errors>>

comm_reset_statistics ==
    /\ packets_received' = 0
    /\ receive_errors' = 0
    /\ crc_errors' = 0
    /\ result' = "OK"
    /\ UNCHANGED service

Call ==
    /\ pc \in {"out", "callback"}
    /\ \/ comm_init
       \/ comm_shutdown
       \/ RefuseCallback
       \/ comm_receive
       \/ comm_reset_statistics
       \/ \E t \in Type :
             \/ comm_unregister_callback(t)
             \/ \E c \in Callback : comm_register_callback(t, c)
    /\ UNCHANGED <<pc, running, msg>>

(* comm_poll *)

\* Returns at once when the service is down.
comm_poll ==
    /\ pc = "out"
    /\ initialized
    /\ pc' = "poll"
    /\ UNCHANGED <<service, running, stats, msg, result>>

\* recvfrom brings nothing, or the socket is closed.
PollEnds ==
    /\ pc = "poll"
    /\ pc' = "out"
    /\ UNCHANGED <<service, running, stats, msg, result>>

\* The first slot that matches is called, no other.
RunCallback(t) ==
    IF Matching(t) = {}
    THEN UNCHANGED <<pc, running>>
    ELSE /\ running' = <<t, callbacks[First(Matching(t))].callback>>
         /\ pc' = "callback"

\* process_received_message: refused datagrams are counted, own ones are ignored.
process_received_message(d) ==
    /\ receive_errors' = IF d[1] \in {"short", "alien"} THEN receive_errors + 1 ELSE receive_errors
    /\ crc_errors' = IF d[1] = "damaged" THEN crc_errors + 1 ELSE crc_errors
    /\ msg' = d[2]
    /\ IF d[1] = "intact" THEN RunCallback(d[2]) ELSE UNCHANGED <<pc, running>>

Receive(d) ==
    /\ pc = "poll"
    /\ open
    /\ packets_received < MaxReceived
    /\ packets_received' = packets_received + 1
    /\ process_received_message(d)
    /\ UNCHANGED <<service, result>>

\* The callback returns into the loop.
CallbackReturns ==
    /\ pc = "callback"
    /\ pc' = "poll"
    /\ running' = Nothing
    /\ UNCHANGED <<service, stats, msg, result>>

Next ==
    \/ Call
    \/ comm_poll
    \/ PollEnds
    \/ \E d \in Datagram : Receive(d)
    \/ CallbackReturns

Spec == Init /\ [][Next]_vars

-----------------------------------------------------------------------------
\* The type invariant; an active slot in particular has a function to call.
DispatchTypeOK ==
    /\ callbacks \in [Slot -> CallbackEntry_t]
    /\ \A i \in Slot : callbacks[i].active => callbacks[i].type \in Type /\ callbacks[i].callback \in Callback
    /\ initialized \in BOOLEAN /\ open \in BOOLEAN
    /\ pc \in {"out", "poll", "callback"}
    /\ running \in (Type \X Callback) \cup {Nothing}
    /\ pc = "callback" <=> running # Nothing
    /\ packets_received \in Nat /\ receive_errors \in Nat /\ crc_errors \in Nat
    /\ msg \in Type \cup {Nothing}

\* How often the table holds each registration.
registered ==
    [r \in Type \X Callback |->
       Cardinality({i \in Slot \ FreeSlots : callbacks[i].type = r[1] /\ callbacks[i].callback = r[2]})]

\* Callback table and dispatch implement a bounded bag of registrations: every intact
\* message of another node that comm_poll takes runs exactly one callback which is
\* registered for its type at that moment, also when callbacks register, unregister,
\* shut the service down or start it again while a poll goes on.
Registry == INSTANCE CallbackRegistry WITH up <- initialized, reg <- registered, Capacity <- MAX_CALLBACKS
ImplementsRegistry == Registry!Spec

\* Whatever process_received_message refused and counted, comm_poll had counted as
\* received, across resets and sessions.
ErrorsWereReceived == receive_errors + crc_errors <= packets_received

=============================================================================
