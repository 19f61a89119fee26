------------------------------ MODULE PeerTable ------------------------------
(***************************************************************************)
(* The peer table, the sending side and the lifecycle of core/network.c.   *)
(*                                                                         *)
(* Node ids, addresses (IP and port) and payloads are abstract; last_seen, *)
(* which only comm_get_peer_info reports, the byte counters and the        *)
(* receiving side (module Dispatch) are left out.                          *)
(***************************************************************************)
EXTENDS Integers, FiniteSets, FiniteSetsExt

CONSTANTS
    Node,          \* node ids a caller may use, 1..255
    NoNode,        \* the node id 0
    Addr, NoAddr,  \* addresses; what a zeroed slot holds
    Signals,       \* values passed to comm_update_peer_rssi
    MAX_PEERS,
    COMM_MIN_RSSI,
    NumberRange,   \* sequence_number has this many values, 2^32
    MaxSent        \* BOUND: packets counted between two resets

ASSUME PeersAssumption == MAX_PEERS \in Nat \ {0}
ASSUME NodesAssumption == NoNode \notin Node
\* A signal is any int8_t, which comm_update_peer_rssi does not check; the limit is
\* a define, -85.
ASSUME SignalsAssumption == Signals \subseteq -128..127 /\ COMM_MIN_RSSI \in -128..-1
ASSUME NumbersAssumption == NumberRange \in Nat \ {0} /\ MaxSent \in Nat

VARIABLES
    peers,            \* g_comm.peers
    node_id,          \* g_comm.node_id
    sequence_number,  \* g_comm.sequence_number
    initialized,      \* g_comm.initialized
    open,             \* does g_comm.socket_fd name an open socket?
    packets_sent,     \* g_comm.stats
    send_errors,
    out,              \* history: packets the last call tried to send
    result            \* what the last call returned

stats == <<packets_sent, send_errors>>
vars == <<peers, node_id, sequence_number, initialized, open, stats, out, result>>

Slot == 1..MAX_PEERS

PeerEntry_t == [active : BOOLEAN, node_id : Node \cup {NoNode},
                addr : Addr \cup {NoAddr}, rssi : Signals \cup {0}]

NoPeers == [i \in Slot |-> [active |-> FALSE, node_id |-> NoNode, addr |-> NoAddr, rssi |-> 0]]

-----------------------------------------------------------------------------
(* Looking things up *)

SlotsOf(n) == {i \in Slot : peers[i].active /\ peers[i].node_id = n}

Known(n) == SlotsOf(n) # {}

\* The first slot with a property.
First(S) == CHOOSE i \in S : \A j \in S : i <= j

find_peer(n) == First(SlotsOf(n))

FreeSlots == {i \in Slot : ~peers[i].active}

-----------------------------------------------------------------------------
(* Initialization and shutdown *)

\* Zeroed by the loader; descriptor 0 is no socket.
Init ==
    /\ peers = NoPeers
    /\ node_id = NoNode
    /\ sequence_number = 0
    /\ initialized = FALSE
    /\ open = FALSE
    /\ packets_sent = 0
    /\ send_errors = 0
    /\ out = {}
    /\ result = "OK"

\* A call that sends nothing.
Return(code) == result' = code /\ out' = {}

\* A socket of its own, unless socket, fcntl or bind fails.
socket_init(bound) == open' = bound

\* socket_init may fail; by then everything is wiped.
comm_init(n) ==
    /\ ~initialized
    /\ peers' = NoPeers
    /\ node_id' = n
    /\ sequence_number' = 0
    /\ packets_sent' = 0
    /\ send_errors' = 0
    /\ \E bound \in BOOLEAN :
          /\ socket_init(bound)
          /\ initialized' = bound
          /\ Return(IF bound THEN "OK" ELSE "COMM_FAIL")

comm_init_again ==
    /\ initialized
    /\ Return("OK")
    /\ UNCHANGED <<peers, node_id, sequence_number, initialized, open, stats>>

\* The socket is closed.  The tables stay as they are until the next comm_init.
comm_shutdown ==
    /\ initialized' = FALSE
    /\ open' = (open /\ ~initialized)
    /\ Return("OK")
    /\ UNCHANGED <<peers, node_id, sequence_number, stats>>

-----------------------------------------------------------------------------
(* Peers *)

sending == <<node_id, sequence_number, initialized, open, stats>>

Bug_TakesAFreeSlot(n, a) ==
    /\ FreeSlots # {}
    /\ peers' = [peers EXCEPT ![First(FreeSlots)] =
                    [active |-> TRUE, node_id |-> n, addr |-> a, rssi |-> 0]]
    /\ Return("OK")
    /\ UNCHANGED sending

UpdatePeer(n, a) ==
    /\ Known(n)
    /\ peers' = [peers EXCEPT ![find_peer(n)].addr = a]
    /\ Return("OK")
    /\ UNCHANGED sending

Bug_RssiOfTheLastOwner(n, a) ==
    /\ ~Known(n)
    /\ FreeSlots # {}
    /\ peers' = [peers EXCEPT ![First(FreeSlots)] =
                    [active |-> TRUE, node_id |-> n, addr |-> a, rssi |-> @.rssi]]
    /\ Return("OK")
    /\ UNCHANGED sending

AddPeer(n, a) ==
    /\ ~Known(n)
    /\ FreeSlots # {}
    /\ peers' = [peers EXCEPT ![First(FreeSlots)] =
                    [active |-> TRUE, node_id |-> n, addr |-> a, rssi |-> 0]]
    /\ Return("OK")
    /\ UNCHANGED sending

TableFull(n) ==
    /\ ~Known(n)
    /\ FreeSlots = {}
    /\ Return("NO_MEMORY")
    /\ UNCHANGED <<peers, sending>>

\* Node id 0 or no address.
RefusePeer ==
    /\ Return("INVALID_ARG")
    /\ UNCHANGED <<peers, sending>>

comm_register_peer(n, a) == UpdatePeer(n, a) \/ AddPeer(n, a) \/ TableFull(n)

comm_unregister_peer(n) ==
    /\ IF Known(n)
       THEN /\ peers' = [peers EXCEPT ![find_peer(n)].active = FALSE]
            /\ Return("OK")
       ELSE Return("NOT_FOUND") /\ UNCHANGED peers
    /\ UNCHANGED sending

comm_update_peer_rssi(n, r) ==
    /\ peers' = IF Known(n) THEN [peers EXCEPT ![find_peer(n)].rssi = r] ELSE peers
    /\ Return("OK")
    /\ UNCHANGED sending

-----------------------------------------------------------------------------
(* Sending *)

\* The table does not change while packets are sent.
table == <<peers, node_id, initialized, open>>

\* `tried' packets were handed to sendto and `failed' of them were refused, all of
\* them when the socket is closed.
Account(tried, failed) ==
    /\ ~open => failed = tried
    /\ packets_sent + send_errors + tried <= MaxSent
    /\ packets_sent' = packets_sent + tried - failed
    /\ send_errors' = send_errors + failed

Packet(n, number) ==
    [dst |-> n, addr |-> peers[find_peer(n)].addr, seq |-> number % NumberRange]

Bug_NumberNeverWraps(n) ==
    /\ Known(n)
    /\ out' = {Packet(n, sequence_number)}
    /\ sequence_number' = sequence_number + 1
    /\ \E failed \in {0, 1} :
          /\ Account(1, failed)
          /\ result' = IF failed = 1 THEN "COMM_FAIL" ELSE "OK"
    /\ UNCHANGED table

\* The sequence number is used up whether or not sendto succeeds.
SendPacket(n) ==
    /\ Known(n)
    /\ out' = {Packet(n, sequence_number)}
    /\ sequence_number' = (sequence_number + 1) % NumberRange
    /\ \E failed \in {0, 1} :
          /\ Account(1, failed)
          /\ result' = IF failed = 1 THEN "COMM_FAIL" ELSE "OK"
    /\ UNCHANGED table

\* comm_send_message comes down to this, too.  `fits': header and payload stay
\* within COMM_MAX_PACKET_SIZE.
comm_send_to_node(n, fits) ==
    \/ fits /\ SendPacket(n)
    \/ /\ ~(fits /\ Known(n))
       /\ Return(IF Known(n) THEN "INVALID_ARG" ELSE "NOT_FOUND")
       /\ UNCHANGED <<table, sequence_number, stats>>

\* The slots comm_broadcast sends to.
Targets == {i \in Slot : peers[i].active /\ peers[i].node_id # node_id}

\* Packets the loop has sent before it reaches slot i.
Before(i) == Cardinality({j \in Targets : j < i})

\* Slot by slot; a packet that fails is counted and the loop goes on.
comm_broadcast(fits) ==
    /\ result' = "OK"
    /\ IF fits
       THEN /\ out' = {Packet(peers[i].node_id, sequence_number + Before(i)) : i \in Targets}
            /\ sequence_number' = (sequence_number + Cardinality(Targets)) % NumberRange
            /\ \E failed \in 0..Cardinality(Targets) : Account(Cardinality(Targets), failed)
       ELSE out' = {} /\ UNCHANGED <<sequence_number, stats>>
    /\ UNCHANGED table

\* No header and no number; a bad address or no data is refused.
comm_send_raw_udp ==
    /\ out' = {}
    /\ \/ \E failed \in {0, 1} :
             /\ Account(1, failed)
             /\ result' = IF failed = 1 THEN "COMM_FAIL" ELSE "OK"
       \/ result' = "INVALID_ARG" /\ UNCHANGED stats
    /\ UNCHANGED <<table, sequence_number>>

comm_reset_statistics ==
    /\ packets_sent' = 0
    /\ send_errors' = 0
    /\ Return("OK")
    /\ UNCHANGED <<table, sequence_number>>

-----------------------------------------------------------------------------
(* Quality *)

Bug_StaleReports == {i \in Slot : peers[i].rssi # 0}

Reporting == {i \in Slot : peers[i].active /\ peers[i].rssi # 0}

\* Integer division of C: toward zero.
Quotient(a, b) == IF a >= 0 THEN a \div b ELSE -((-a) \div b)

avg_rssi ==
    IF Reporting = {} THEN 0
    ELSE Quotient(MapThenSumSet(LAMBDA i : peers[i].rssi, Reporting), Cardinality(Reporting))

\* Less than 5 percent of the packets counted were refused by sendto.
LossIsLow == send_errors * 100 < 5 * (packets_sent + send_errors) \/ packets_sent + send_errors = 0

comm_is_network_healthy == (avg_rssi >= COMM_MIN_RSSI \/ avg_rssi = 0) /\ LossIsLow

-----------------------------------------------------------------------------
Next ==
    \/ \E n \in Node :
          \/ comm_init(n)
          \/ comm_unregister_peer(n)
          \/ \E a \in Addr : comm_register_peer(n, a)
          \/ \E r \in Signals : comm_update_peer_rssi(n, r)
          \/ \E fits \in BOOLEAN : comm_send_to_node(n, fits)
    \/ comm_init_again
    \/ comm_shutdown
    \/ RefusePeer
    \/ \E fits \in BOOLEAN : comm_broadcast(fits)
    \/ comm_send_raw_udp
    \/ comm_reset_statistics

Spec == Init /\ [][Next]_vars

-----------------------------------------------------------------------------
\* The type invariant; the sequence number in particular wraps at its width.
PeerTypeOK ==
    /\ peers \in [Slot -> PeerEntry_t]
    /\ node_id \in Node \cup {NoNode}
    /\ sequence_number \in 0..(NumberRange - 1)
    /\ initialized \in BOOLEAN /\ open \in BOOLEAN
    /\ packets_sent \in Nat /\ send_errors \in Nat
    /\ result \in {"OK", "COMM_FAIL", "INVALID_ARG", "NOT_FOUND", "NO_MEMORY"}

\* No node occupies two slots of the peer table, and an occupied slot has an owner
\* and an address.
OneSlotPerNode ==
    \A i \in Slot : peers[i].active =>
        /\ peers[i].node_id \in Node
        /\ peers[i].addr \in Addr
        /\ \A j \in Slot : peers[j].active /\ peers[j].node_id = peers[i].node_id => j = i

\* The map that the table stands for.
Members == {peers[i].node_id : i \in Slot \ FreeSlots}
dir == [n \in Members |-> [addr |-> peers[find_peer(n)].addr, rssi |-> peers[find_peer(n)].rssi]]

\* The peer functions of network.c implement a bounded map: registering fails only
\* when MAX_PEERS others are registered, an unregistered node gets nothing more,
\* packets go to the latest address, a broadcast sends every other member one packet,
\* numbers are consecutive whatever sendto returns, a slot's new owner inherits
\* nothing, and nothing is forgotten but by a start or a shutdown.
Directory == INSTANCE PeerDirectory WITH up <- initialized, self <- node_id, used <- sequence_number,
                                         Capacity <- MAX_PEERS
ImplementsDirectory == Directory!Spec

\* comm_is_network_healthy follows the peers that are registered now: when packets
\* get out, it says yes if all that report are strong enough (or none reports), and
\* no if all that report, at least one, are too weak.
HealthFollowsMembers ==
    LET reports == {dir[n].rssi : n \in Members} \ {0}
    IN  /\ LossIsLow /\ (\A r \in reports : r >= COMM_MIN_RSSI) => comm_is_network_healthy
        /\ reports # {} /\ (\A r \in reports : r < COMM_MIN_RSSI) => ~comm_is_network_healthy

=============================================================================
