---------------------------- MODULE PeerDirectory ----------------------------
(***************************************************************************)
(* What the peer functions of the datagram service promise: a map of       *)
(* bounded size from nodes to addresses and signal strengths.  Sending     *)
(* goes to the address the map holds at that moment, a broadcast goes once *)
(* to everybody in the map but oneself, and packets carry consecutive      *)
(* numbers.                                                                *)
(***************************************************************************)
EXTENDS Integers, FiniteSets

CONSTANTS
    Node, NoNode,    \* node ids; the id 0
    Addr,            \* addresses (IP and port)
    Signals,         \* what a radio may report
    Capacity,        \* size of the map
    NumberRange      \* how many packet numbers there are

VARIABLES
    up,              \* is the service up?
    self,            \* who we are
    dir,             \* the map
    used,            \* the next packet number
    out,             \* packets of the last call
    result           \* what the last call returned

vars == <<up, self, dir, used, out, result>>

Members == DOMAIN dir

\* The empty map.
Nobody == [m \in {} |-> 0]

Init ==
    /\ up = FALSE
    /\ self = NoNode
    /\ dir = Nobody
    /\ used = 0
    /\ out = {}
    /\ result = "OK"

\* A call that only returns a code.
Answer(code) == result' = code /\ out' = {}

\* A start forgets everything, also one that fails.
Start ==
    /\ ~up
    /\ up' \in BOOLEAN
    /\ \E n \in Node : self' = n
    /\ dir' = Nobody
    /\ used' = 0
    /\ Answer(IF up' THEN "OK" ELSE "COMM_FAIL")

\* The service goes down.  It may keep the map until the next start, or forget it.
Stop ==
    /\ up' = FALSE
    /\ \/ UNCHANGED <<self, dir, used>>
       \/ up /\ self' = NoNode /\ dir' = Nobody /\ used' = 0
    /\ Answer("OK")

Put(n, a) ==
    /\ n \in Members \/ Cardinality(Members) < Capacity
    /\ dir' = [m \in Members \cup {n} |->
                 IF m # n THEN dir[m]
                 ELSE [addr |-> a, rssi |-> IF n \in Members THEN dir[n].rssi ELSE 0]]
    /\ Answer("OK")
    /\ UNCHANGED <<up, self, used>>

PutFull(n) ==
    /\ n \notin Members
    /\ Cardinality(Members) = Capacity
    /\ Answer("NO_MEMORY")
    /\ UNCHANGED <<up, self, dir, used>>

Remove(n) ==
    /\ n \in Members
    /\ dir' = [m \in Members \ {n} |-> dir[m]]
    /\ Answer("OK")
    /\ UNCHANGED <<up, self, used>>

NotFound(n) ==
    /\ n \notin Members
    /\ Answer("NOT_FOUND")
    /\ UNCHANGED <<up, self, dir, used>>

Signal(n, r) ==
    /\ dir' = [m \in Members |-> IF m = n THEN [dir[m] EXCEPT !.rssi = r] ELSE dir[m]]
    /\ Answer("OK")
    /\ UNCHANGED <<up, self, used>>

\* One packet for each node of `to', at its present address and with a number of
\* its own.
Send(to) ==
    /\ to \subseteq Members
    /\ \E number \in [to -> 0..(Cardinality(to) - 1)] :
          /\ \A m, n \in to : number[m] = number[n] => m = n
          /\ out' = {[dst |-> n, addr |-> dir[n].addr,
                      seq |-> (used + number[n]) % NumberRange] : n \in to}
    /\ used' = (used + Cardinality(to)) % NumberRange
    /\ UNCHANGED <<up, self, dir>>

SendOne(n) == Send({n}) /\ result' \in {"OK", "COMM_FAIL"}

Broadcast == Send(Members \ {self}) /\ result' = "OK"

\* Whatever does not concern the map.
Other ==
    /\ \E code \in {"OK", "COMM_FAIL", "INVALID_ARG"} : Answer(code)
    /\ UNCHANGED <<up, self, dir, used>>

Next ==
    \/ Start
    \/ Stop
    \/ \E n \in Node :
          \/ PutFull(n)
          \/ Remove(n)
          \/ NotFound(n)
          \/ SendOne(n)
          \/ \E a \in Addr : Put(n, a)
          \/ \E r \in Signals : Signal(n, r)
    \/ Broadcast
    \/ Other

Spec == Init /\ [][Next]_vars

=============================================================================
