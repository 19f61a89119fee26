--------------------------- MODULE PeerTableProofs ---------------------------
(***************************************************************************)
(* What is proved of the peer table and the sending side, for every table  *)
(* size and all nodes and addresses.                                       *)
(***************************************************************************)
EXTENDS PeerTable, NaturalsInduction, WellFoundedInduction, FiniteSetTheorems, TLAPS

IInv == PeerTypeOK /\ OneSlotPerNode

LEMMA LeastNumber ==
    ASSUME NEW S \in SUBSET Nat, S # {}
    PROVE  \E x \in S : \A y \in S : x <= y
  <1> DEFINE below == {p \in Nat \X Nat : p[1] < p[2]}
  <1>1. IsWellFoundedOn(below, Nat)
    BY NatLessThanWellFounded, Zenon DEF OpToRel
  <1> HIDE DEF below
  <1>2. PICK x \in S : \A y \in S : <<y, x>> \notin below
    BY <1>1, WFMin
  <1>3. ASSUME NEW y \in S, ~(x <= y)
        PROVE  FALSE
    <2>1. <<y, x>> \in below
      BY <1>3 DEF below
    <2> QED
      BY <1>2, <2>1
  <1> QED
    BY <1>3

\* The loops over the table find the lowest slot.
LEMMA FirstIsLeast ==
    ASSUME NEW S \in SUBSET Slot, S # {}
    PROVE  First(S) \in S
  <1>1. S \in SUBSET Nat
    BY PeersAssumption DEF Slot
  <1> QED
    BY <1>1, LeastNumber DEF First

LEMMA FreeSlotIsASlot == FreeSlots # {} => First(FreeSlots) \in Slot /\ ~peers[First(FreeSlots)].active
  BY FirstIsLeast DEF FreeSlots

LEMMA KnownPeerIsASlot ==
    ASSUME NEW n \in Node, Known(n)
    PROVE  find_peer(n) \in Slot /\ peers[find_peer(n)].active /\ peers[find_peer(n)].node_id = n
  BY FirstIsLeast DEF Known, find_peer, SlotsOf

LEMMA TargetsAreFinite ==
    /\ IsFiniteSet(Slot) /\ Cardinality(Slot) = MAX_PEERS
    /\ IsFiniteSet(Targets) /\ Cardinality(Targets) \in Nat
  <1>1. IsFiniteSet(Slot) /\ Cardinality(Slot) = MAX_PEERS
    BY FS_Interval, PeersAssumption DEF Slot
  <1>2. Targets \in SUBSET Slot
    BY DEF Targets
  <1>3. IsFiniteSet(Targets)
    BY <1>1, <1>2, FS_Subset
  <1> QED
    BY <1>1, <1>3, FS_CardinalityType

-----------------------------------------------------------------------------
(* The invariant *)

LEMMA EmptyTable == NoPeers \in [Slot -> PeerEntry_t] /\ \A i \in Slot : ~NoPeers[i].active
  <1>1. [active |-> FALSE, node_id |-> NoNode, addr |-> NoAddr, rssi |-> 0] \in PeerEntry_t
    BY DEF PeerEntry_t
  <1> QED
    BY <1>1 DEF NoPeers

\* Return codes.
Codes == {"OK", "COMM_FAIL", "INVALID_ARG", "NOT_FOUND", "NO_MEMORY"}

\* Types of everything but the table.
RestTyped ==
    /\ node_id \in Node \cup {NoNode}
    /\ sequence_number \in 0..(NumberRange - 1)
    /\ initialized \in BOOLEAN /\ open \in BOOLEAN
    /\ packets_sent \in Nat /\ send_errors \in Nat
    /\ result \in Codes

TableOK == peers \in [Slot -> PeerEntry_t] /\ OneSlotPerNode

LEMMA IInvParts == IInv <=> TableOK /\ RestTyped
  BY DEF IInv, PeerTypeOK, TableOK, RestTyped, Codes

LEMMA InitIInv == Init => IInv
  <1> SUFFICES ASSUME Init
               PROVE  IInv
    OBVIOUS
  <1>1. TableOK
    BY EmptyTable DEF Init, TableOK, OneSlotPerNode
  <1>2. RestTyped
    <2>1. 0 \in 0..(NumberRange - 1)
      BY NumbersAssumption
    <2>2. /\ node_id = NoNode /\ sequence_number = 0 /\ initialized = FALSE /\ open = FALSE
          /\ packets_sent = 0 /\ send_errors = 0 /\ result = "OK"
      BY DEF Init
    <2> QED
      BY <2>1, <2>2 DEF RestTyped, Codes
  <1> QED
    BY <1>1, <1>2, IInvParts

LEMMA ChangedSlot ==
    ASSUME TableOK, NEW i \in Slot, NEW e \in PeerEntry_t, peers' = [peers EXCEPT ![i] = e],
           e.active => /\ e.node_id \in Node /\ e.addr \in Addr
                       /\ \A j \in Slot \ {i} : peers[j].active => peers[j].node_id # e.node_id
    PROVE  TableOK'
  <1>1. peers' \in [Slot -> PeerEntry_t]
    BY DEF TableOK
  <1>2. /\ peers'[i] = e
        /\ \A j \in Slot \ {i} : peers'[j] = peers[j]
    BY DEF TableOK
  <1>3. OneSlotPerNode'
    BY <1>2 DEF TableOK, OneSlotPerNode
  <1> QED
    BY <1>1, <1>3 DEF TableOK

LEMMA SentIsTyped ==
    ASSUME RestTyped, NEW k \in Nat,
           sequence_number' = (sequence_number + k) % NumberRange,
           \E failed \in 0..k : Account(k, failed),
           result' \in Codes, UNCHANGED <<node_id, initialized, open>>
    PROVE  RestTyped'
  <1>1. PICK failed \in 0..k : Account(k, failed)
    OBVIOUS
  <1>2. packets_sent' \in Nat /\ send_errors' \in Nat
    <2>1. packets_sent \in Nat /\ send_errors \in Nat
      BY DEF RestTyped
    <2> QED
      BY <1>1, <2>1 DEF Account
  <1>3. sequence_number' \in 0..(NumberRange - 1)
    BY NumbersAssumption DEF RestTyped
  <1> QED
    BY <1>2, <1>3 DEF RestTyped

LEMMA StepIInv == IInv /\ [Next]_vars => IInv'
  <1> SUFFICES ASSUME TableOK, RestTyped, [Next]_vars
               PROVE  TableOK' /\ RestTyped'
    BY IInvParts, PTL
  <1>same. ASSUME UNCHANGED peers
           PROVE  TableOK'
    BY <1>same DEF TableOK, OneSlotPerNode
  <1>1. ASSUME NEW n \in Node, comm_init(n)
        PROVE  TableOK' /\ RestTyped'
    <2>1. peers' = NoPeers
      BY <1>1 DEF comm_init
    <2>2. TableOK'
      BY <2>1, EmptyTable DEF TableOK, OneSlotPerNode
    <2>3. /\ node_id' = n /\ sequence_number' = 0 /\ packets_sent' = 0 /\ send_errors' = 0
          /\ open' \in BOOLEAN /\ initialized' \in BOOLEAN /\ result' \in Codes
      BY <1>1 DEF comm_init, socket_init, Return, Codes
    <2> QED
      BY <2>2, <2>3, NumbersAssumption DEF RestTyped
  <1>2. CASE comm_init_again
    BY <1>2, <1>same DEF comm_init_again, Return, RestTyped, Codes, stats
  <1>3. CASE comm_shutdown
    BY <1>3, <1>same DEF comm_shutdown, Return, RestTyped, Codes, stats
  <1>4. CASE RefusePeer
    BY <1>4, <1>same DEF RefusePeer, Return, RestTyped, Codes, sending, stats
  <1>5. ASSUME NEW n \in Node, NEW a \in Addr, UpdatePeer(n, a)
        PROVE  TableOK' /\ RestTyped'
    <2> DEFINE i == find_peer(n)
    <2>1. i \in Slot /\ peers[i].active /\ peers[i].node_id = n
      BY <1>5, KnownPeerIsASlot DEF UpdatePeer
    <2> DEFINE e == [peers[i] EXCEPT !.addr = a]
    <2>2. peers[i] \in PeerEntry_t
      BY <2>1 DEF TableOK
    <2>3. e \in PeerEntry_t /\ e.node_id = n /\ e.addr = a
      BY <2>1, <2>2 DEF PeerEntry_t
    <2>4. peers' = [peers EXCEPT ![i] = e]
      BY <1>5 DEF UpdatePeer
    <2>5. \A j \in Slot \ {i} : peers[j].active => peers[j].node_id # n
      BY <2>1 DEF TableOK, OneSlotPerNode
    <2>6. TableOK'
      <3> HIDE DEF i, e
      <3> QED
        BY <2>1, <2>3, <2>4, <2>5, ChangedSlot
    <2>7. RestTyped'
      BY <1>5 DEF UpdatePeer, Return, RestTyped, Codes, sending, stats
    <2> QED
      BY <2>6, <2>7
  <1>6. ASSUME NEW n \in Node, NEW a \in Addr, AddPeer(n, a)
        PROVE  TableOK' /\ RestTyped'
    <2> DEFINE i == First(FreeSlots)
    <2> DEFINE e == [active |-> TRUE, node_id |-> n, addr |-> a, rssi |-> 0]
    <2>1. i \in Slot /\ ~peers[i].active
      BY <1>6, FreeSlotIsASlot DEF AddPeer
    <2>2. e \in PeerEntry_t /\ e.node_id = n /\ e.addr = a
      BY DEF PeerEntry_t
    <2>3. peers' = [peers EXCEPT ![i] = e]
      BY <1>6 DEF AddPeer
    <2>4. \A j \in Slot : peers[j].active => peers[j].node_id # n
      BY <1>6 DEF AddPeer, Known, SlotsOf
    <2>5. TableOK'
      <3> HIDE DEF i, e
      <3> QED
        BY <2>1, <2>2, <2>3, <2>4, ChangedSlot
    <2>6. RestTyped'
      BY <1>6 DEF AddPeer, Return, RestTyped, Codes, sending, stats
    <2> QED
      BY <2>5, <2>6
  <1>7. ASSUME NEW n \in Node, TableFull(n)
        PROVE  TableOK' /\ RestTyped'
    BY <1>7, <1>same DEF TableFull, Return, RestTyped, Codes, sending, stats
  <1>8. ASSUME NEW n \in Node, comm_unregister_peer(n)
        PROVE  TableOK' /\ RestTyped'
    <2>1. RestTyped'
      BY <1>8 DEF comm_unregister_peer, Return, RestTyped, Codes, sending, stats
    <2>2. CASE Known(n)
      <3> DEFINE i == find_peer(n)
      <3>1. i \in Slot
        BY <2>2, KnownPeerIsASlot
      <3> DEFINE e == [peers[i] EXCEPT !.active = FALSE]
      <3>2. peers[i] \in PeerEntry_t
        BY <3>1 DEF TableOK
      <3>3. e \in PeerEntry_t /\ ~e.active
        BY <3>2 DEF PeerEntry_t
      <3>4. peers' = [peers EXCEPT ![i] = e]
        BY <1>8, <2>2 DEF comm_unregister_peer
      <3>5. TableOK'
        <4> HIDE DEF i, e
        <4> QED
          BY <3>1, <3>3, <3>4, ChangedSlot
      <3> QED
        BY <2>1, <3>5
    <2>3. CASE ~Known(n)
      BY <1>8, <1>same, <2>1, <2>3 DEF comm_unregister_peer
    <2> QED
      BY <2>2, <2>3
  <1>9. ASSUME NEW n \in Node, NEW r \in Signals, comm_update_peer_rssi(n, r)
        PROVE  TableOK' /\ RestTyped'
    <2>1. RestTyped'
      BY <1>9 DEF comm_update_peer_rssi, Return, RestTyped, Codes, sending, stats
    <2>2. CASE Known(n)
      <3> DEFINE i == find_peer(n)
      <3>1. i \in Slot /\ peers[i].active /\ peers[i].node_id = n
        BY <2>2, KnownPeerIsASlot
      <3> DEFINE e == [peers[i] EXCEPT !.rssi = r]
      <3>2. peers[i] \in PeerEntry_t
        BY <3>1 DEF TableOK
      <3>3. e \in PeerEntry_t /\ e.node_id = n /\ e.addr = peers[i].addr
        BY <3>1, <3>2 DEF PeerEntry_t
      <3>4. peers' = [peers EXCEPT ![i] = e]
        BY <1>9, <2>2 DEF comm_update_peer_rssi
      <3>5. /\ e.addr \in Addr
            /\ \A j \in Slot \ {i} : peers[j].active => peers[j].node_id # n
        BY <3>1, <3>3 DEF TableOK, OneSlotPerNode
      <3>6. TableOK'
        <4> HIDE DEF i, e
        <4> QED
          BY <3>1, <3>3, <3>4, <3>5, ChangedSlot
      <3> QED
        BY <2>1, <3>6
    <2>3. CASE ~Known(n)
      BY <1>9, <1>same, <2>1, <2>3 DEF comm_update_peer_rssi
    <2> QED
      BY <2>2, <2>3
  <1>10. ASSUME NEW n \in Node, NEW fits \in BOOLEAN, comm_send_to_node(n, fits)
         PROVE  TableOK' /\ RestTyped'
    <2>1. CASE SendPacket(n)
      <3>1. /\ sequence_number' = (sequence_number + 1) % NumberRange
            /\ \E failed \in 0..1 : Account(1, failed)
            /\ result' \in Codes
            /\ UNCHANGED <<peers, node_id, initialized, open>>
        BY <2>1 DEF SendPacket, table, Codes
      <3> QED
        BY <3>1, <1>same, SentIsTyped
    <2>2. CASE ~SendPacket(n)
      BY <1>10, <2>2, <1>same DEF comm_send_to_node, Return, RestTyped, Codes, table, stats
    <2> QED
      BY <2>1, <2>2
  <1>11. ASSUME NEW fits \in BOOLEAN, comm_broadcast(fits)
         PROVE  TableOK' /\ RestTyped'
    <2>1. CASE fits
      <3>1. /\ sequence_number' = (sequence_number + Cardinality(Targets)) % NumberRange
            /\ \E failed \in 0..Cardinality(Targets) : Account(Cardinality(Targets), failed)
            /\ result' \in Codes
            /\ UNCHANGED <<peers, node_id, initialized, open>>
        BY <1>11, <2>1 DEF comm_broadcast, table, Codes
      <3> QED
        BY <3>1, <1>same, SentIsTyped, TargetsAreFinite
    <2>2. CASE ~fits
      BY <1>11, <2>2, <1>same DEF comm_broadcast, RestTyped, Codes, table, stats
    <2> QED
      BY <2>1, <2>2
  <1>12. CASE comm_send_raw_udp
    <2>1. /\ UNCHANGED <<peers, node_id, initialized, open, sequence_number>>
          /\ result' \in Codes
          /\ (\E failed \in {0, 1} : Account(1, failed)) \/ UNCHANGED stats
      BY <1>12 DEF comm_send_raw_udp, table, Codes
    <2>2. packets_sent' \in Nat /\ send_errors' \in Nat
      BY <2>1 DEF Account, RestTyped, stats
    <2> QED
      BY <2>1, <2>2, <1>same DEF RestTyped
  <1>13. CASE comm_reset_statistics
    BY <1>13, <1>same DEF comm_reset_statistics, Return, RestTyped, Codes, table
  <1>14. CASE UNCHANGED vars
    BY <1>14, <1>same DEF vars, RestTyped, stats
  <1> QED
    BY <1>1, <1>2, <1>3, <1>4, <1>5, <1>6, <1>7, <1>8, <1>9, <1>10, <1>11, <1>12, <1>13, <1>14
    DEF Next, comm_register_peer

LEMMA AlwaysIInv == Spec => []IInv
  BY InitIInv, StepIInv, PTL DEF Spec

\* The table and the counters keep their types; the sequence number wraps.
THEOREM PeersTypeCorrect == Spec => []PeerTypeOK
  <1>1. IInv => PeerTypeOK
    BY DEF IInv
  <1> QED
    BY <1>1, AlwaysIInv, PTL

\* comm_register_peer never gives a node a second slot.
THEOREM NoNodeTwice == Spec => []OneSlotPerNode
  <1>1. IInv => OneSlotPerNode
    BY DEF IInv
  <1> QED
    BY <1>1, AlwaysIInv, PTL

-----------------------------------------------------------------------------
(* The table implements the directory *)

\* The directory, read off the table: whoever is in it sits in one slot.
LEMMA DirectoryOfTable ==
    OneSlotPerNode =>
        /\ DOMAIN dir = Members
        /\ \A i \in Slot : peers[i].active =>
              /\ peers[i].node_id \in Members
              /\ find_peer(peers[i].node_id) = i
              /\ dir[peers[i].node_id] = [addr |-> peers[i].addr, rssi |-> peers[i].rssi]
        /\ \A n \in Members : n \in Node /\ \E i \in Slot : peers[i].active /\ peers[i].node_id = n
        /\ \A n : Known(n) <=> n \in Members
  <1> SUFFICES ASSUME OneSlotPerNode
               PROVE  /\ DOMAIN dir = Members
                      /\ \A i \in Slot : peers[i].active =>
                            /\ peers[i].node_id \in Members
                            /\ find_peer(peers[i].node_id) = i
                            /\ dir[peers[i].node_id] = [addr |-> peers[i].addr, rssi |-> peers[i].rssi]
                      /\ \A n \in Members : n \in Node /\ \E i \in Slot : peers[i].active /\ peers[i].node_id = n
                      /\ \A n : Known(n) <=> n \in Members
    OBVIOUS
  <1>1. ASSUME NEW i \in Slot, peers[i].active
        PROVE  /\ peers[i].node_id \in Members
               /\ find_peer(peers[i].node_id) = i
    <2>1. SlotsOf(peers[i].node_id) = {i}
      BY <1>1 DEF SlotsOf, OneSlotPerNode
    <2>2. i \in Nat
      BY PeersAssumption DEF Slot
    <2>3. First({i}) = i
      BY <2>2 DEF First
    <2> QED
      BY <1>1, <2>1, <2>3 DEF Members, FreeSlots, find_peer
  <1>2. \A n \in Members : n \in Node /\ \E i \in Slot : peers[i].active /\ peers[i].node_id = n
    BY DEF Members, FreeSlots, OneSlotPerNode
  <1>3. \A n : Known(n) <=> n \in Members
    BY DEF Known, SlotsOf, Members, FreeSlots
  <1> QED
    BY <1>1, <1>2, <1>3 DEF dir

\* In the next state.
LEMMA DirectoryOfNextTable ==
    OneSlotPerNode' =>
        /\ DOMAIN dir' = Members'
        /\ \A i \in Slot : peers'[i].active =>
              /\ peers'[i].node_id \in Members'
              /\ dir'[peers'[i].node_id] = [addr |-> peers'[i].addr, rssi |-> peers'[i].rssi]
        /\ \A n \in Members' : n \in Node /\ \E i \in Slot : peers'[i].active /\ peers'[i].node_id = n
  <1>1. (OneSlotPerNode =>
        /\ DOMAIN dir = Members
        /\ \A i \in Slot : peers[i].active =>
              /\ peers[i].node_id \in Members
              /\ find_peer(peers[i].node_id) = i
              /\ dir[peers[i].node_id] = [addr |-> peers[i].addr, rssi |-> peers[i].rssi]
        /\ \A n \in Members : n \in Node /\ \E i \in Slot : peers[i].active /\ peers[i].node_id = n
        /\ \A n : Known(n) <=> n \in Members)'
    BY DirectoryOfTable, PTL
  <1> QED
    BY <1>1


LEMMA DirectoryIsAMap == dir = [m \in Members |-> dir[m]]
  BY DEF dir

LEMMA NextDirectoryIsAMap == dir' = [m \in Members' |-> dir'[m]]
  BY DEF dir

LEMMA SameTable == UNCHANGED peers => UNCHANGED <<dir, Members>>
  BY DEF dir, Members, FreeSlots, find_peer, First, SlotsOf

\* One slot is taken or rewritten.
LEMMA WrittenSlot ==
    ASSUME TableOK, TableOK', NEW i \in Slot, NEW e \in PeerEntry_t, e.active,
           peers' = [peers EXCEPT ![i] = e],
           peers[i].active => peers[i].node_id = e.node_id
    PROVE  dir' = [m \in Members \cup {e.node_id} |->
                     IF m = e.node_id THEN [addr |-> e.addr, rssi |-> e.rssi] ELSE dir[m]]
  <1> USE DEF TableOK
  <1>1. peers'[i] = e /\ \A j \in Slot \ {i} : peers'[j] = peers[j]
    OBVIOUS
  <1>2. Members' = Members \cup {e.node_id}
    <2>1. e.node_id \in Members'
      BY <1>1, DirectoryOfNextTable
    <2>2. ASSUME NEW m \in Members
          PROVE  m \in Members'
      <3>1. PICK j \in Slot : peers[j].active /\ peers[j].node_id = m
        BY DirectoryOfTable
      <3>2. peers'[j].active /\ peers'[j].node_id = m
        BY <1>1, <3>1
      <3> QED
        BY <3>2, DirectoryOfNextTable
    <2>3. ASSUME NEW m \in Members', m # e.node_id
          PROVE  m \in Members
      <3>1. PICK j \in Slot : peers'[j].active /\ peers'[j].node_id = m
        BY DirectoryOfNextTable
      <3>2. peers[j].active /\ peers[j].node_id = m
        BY <1>1, <2>3, <3>1
      <3> QED
        BY <3>2, DirectoryOfTable
    <2> QED
      BY <2>1, <2>2, <2>3
  <1>3. dir'[e.node_id] = [addr |-> e.addr, rssi |-> e.rssi]
    BY <1>1, DirectoryOfNextTable
  <1>4. ASSUME NEW m \in Members', m # e.node_id
        PROVE  dir'[m] = dir[m]
    <2>1. PICK j \in Slot : peers'[j].active /\ peers'[j].node_id = m
      BY DirectoryOfNextTable
    <2>2. peers'[j] = peers[j]
      BY <1>1, <1>4, <2>1
    <2>3. dir'[m] = [addr |-> peers'[j].addr, rssi |-> peers'[j].rssi]
      BY <2>1, DirectoryOfNextTable
    <2>4. dir[m] = [addr |-> peers[j].addr, rssi |-> peers[j].rssi]
      BY <2>1, <2>2, DirectoryOfTable
    <2> QED
      BY <2>2, <2>3, <2>4
  <1> QED
    BY <1>2, <1>3, <1>4, NextDirectoryIsAMap

\* One slot is given up.
LEMMA FreedSlot ==
    ASSUME TableOK, TableOK', NEW i \in Slot, NEW e \in PeerEntry_t, ~e.active,
           peers' = [peers EXCEPT ![i] = e], peers[i].active
    PROVE  dir' = [m \in Members \ {peers[i].node_id} |-> dir[m]]
  <1> USE DEF TableOK
  <1>1. peers'[i] = e /\ \A j \in Slot \ {i} : peers'[j] = peers[j]
    OBVIOUS
  <1>2. ASSUME NEW m \in Members \ {peers[i].node_id}
        PROVE  m \in Members' /\ dir'[m] = dir[m]
    <2>1. PICK j \in Slot : peers[j].active /\ peers[j].node_id = m
      BY DirectoryOfTable
    <2>2. peers'[j] = peers[j]
      BY <1>1, <2>1
    <2>3. peers'[j].active /\ peers'[j].node_id = m
      BY <2>1, <2>2
    <2>4. m \in Members' /\ dir'[m] = [addr |-> peers'[j].addr, rssi |-> peers'[j].rssi]
      BY <2>3, DirectoryOfNextTable
    <2>5. dir[m] = [addr |-> peers[j].addr, rssi |-> peers[j].rssi]
      BY <2>1, DirectoryOfTable
    <2> QED
      BY <2>2, <2>4, <2>5
  <1>3. ASSUME NEW m \in Members'
        PROVE  m \in Members \ {peers[i].node_id}
    <2>1. PICK j \in Slot : peers'[j].active /\ peers'[j].node_id = m
      BY DirectoryOfNextTable
    <2>2. j # i /\ peers[j] = peers'[j]
      BY <1>1, <2>1
    <2>3. m # peers[i].node_id
      BY <2>1, <2>2 DEF OneSlotPerNode
    <2> QED
      BY <2>1, <2>2, <2>3, DirectoryOfTable
  <1>4. Members' = Members \ {peers[i].node_id}
    BY <1>2, <1>3
  <1> QED
    BY <1>2, <1>4, NextDirectoryIsAMap

\* There are as many members as occupied slots.
LEMMA MembersFitIn ==
    ASSUME OneSlotPerNode, NEW T \in SUBSET Slot, \A i \in Slot \ T : ~peers[i].active
    PROVE  /\ IsFiniteSet(Members) /\ Cardinality(Members) <= Cardinality(T)
           /\ (\A i \in T : peers[i].active) => Cardinality(Members) = Cardinality(T)
  <1> DEFINE f == [n \in Members |-> find_peer(n)]
  <1>1. ASSUME NEW n \in Members
        PROVE  f[n] \in T /\ peers[f[n]].active /\ peers[f[n]].node_id = n
    <2>1. PICK i \in Slot : peers[i].active /\ peers[i].node_id = n
      BY DirectoryOfTable
    <2>2. find_peer(n) = i
      BY <2>1, DirectoryOfTable
    <2> QED
      BY <2>1, <2>2
  <1>2. f \in [Members -> T]
    BY <1>1
  <1>3. \A m, n \in Members : f[m] = f[n] => m = n
    BY <1>1
  <1>4. f \in Injection(Members, T)
    BY <1>2, <1>3 DEF Injection, IsInjective
  <1>5. IsFiniteSet(T)
    BY TargetsAreFinite, FS_Subset
  <1>6. ASSUME \A i \in T : peers[i].active
        PROVE  f \in Surjection(Members, T)
    <2>1. \A i \in T : peers[i].node_id \in Members /\ f[peers[i].node_id] = i
      BY <1>6, DirectoryOfTable
    <2> QED
      BY <1>2, <2>1 DEF Surjection
  <1> HIDE DEF f
  <1> QED
    BY <1>4, <1>5, <1>6, FS_Injection

\* The directory's cardinality is the usual one.
LEMMA SameCardinality ==
    ASSUME NEW S
    PROVE  Directory!Cardinality(S) = Cardinality(S)
  BY DEF Directory!Cardinality, Cardinality

LEMMA InitIsInit == Init => Directory!Init
  <1> SUFFICES ASSUME Init
               PROVE  Directory!Init
    OBVIOUS
  <1>1. Members = {}
    BY EmptyTable DEF Init, Members, FreeSlots
  <1>2. dir = [m \in {} |-> 0]
    BY <1>1 DEF dir
  <1> QED
    BY <1>2 DEF Init, Directory!Init, Directory!Nobody

LEMMA RegisterIsPut ==
    ASSUME TableOK, TableOK', NEW n \in Node, NEW a \in Addr, comm_register_peer(n, a)
    PROVE  Directory!Next
  <1>t. OneSlotPerNode /\ OneSlotPerNode'
    BY DEF TableOK
  <1>d. DOMAIN dir = Members
    BY <1>t, DirectoryOfTable
  <1>1. CASE UpdatePeer(n, a)
    <2> DEFINE i == find_peer(n)
    <2> DEFINE e == [peers[i] EXCEPT !.addr = a]
    <2>1. i \in Slot /\ peers[i].active /\ peers[i].node_id = n
      BY <1>1, KnownPeerIsASlot DEF UpdatePeer
    <2>2. peers[i] \in PeerEntry_t
      BY <2>1 DEF TableOK
    <2>3. e \in PeerEntry_t /\ e.active /\ e.node_id = n /\ e.addr = a /\ e.rssi = peers[i].rssi
      BY <2>1, <2>2 DEF PeerEntry_t
    <2>4. peers' = [peers EXCEPT ![i] = e]
      BY <1>1 DEF UpdatePeer
    <2>5. n \in Members /\ dir[n] = [addr |-> peers[i].addr, rssi |-> peers[i].rssi]
      BY <1>t, <2>1, DirectoryOfTable
    <2>6. UNCHANGED <<node_id, sequence_number, initialized>> /\ out' = {} /\ result' = "OK"
      BY <1>1 DEF UpdatePeer, Return, sending
    <2> HIDE DEF i, e
    <2>7. dir' = [m \in Members \cup {n} |->
                   IF m = n THEN [addr |-> e.addr, rssi |-> e.rssi] ELSE dir[m]]
      <3>1. dir' = [m \in Members \cup {e.node_id} |->
                     IF m = e.node_id THEN [addr |-> e.addr, rssi |-> e.rssi] ELSE dir[m]]
        BY <2>1, <2>3, <2>4, WrittenSlot
      <3> QED
        BY <3>1, <2>3
    <2>8. dir' = [m \in Members \cup {n} |->
                   IF m # n THEN dir[m]
                   ELSE [addr |-> a, rssi |-> IF n \in Members THEN dir[n].rssi ELSE 0]]
      BY <2>3, <2>5, <2>7
    <2>9. Directory!Put(n, a)
      BY <1>d, <2>5, <2>6, <2>8 DEF Directory!Put, Directory!Members, Directory!Answer
    <2> QED
      BY <2>9 DEF Directory!Next
  <1>2. CASE AddPeer(n, a)
    <2> DEFINE i == First(FreeSlots)
    <2> DEFINE e == [active |-> TRUE, node_id |-> n, addr |-> a, rssi |-> 0]
    <2>1. i \in Slot /\ ~peers[i].active
      BY <1>2, FreeSlotIsASlot DEF AddPeer
    <2>2. e \in PeerEntry_t /\ e.active /\ e.node_id = n /\ e.addr = a /\ e.rssi = 0
      BY DEF PeerEntry_t
    <2>3. peers' = [peers EXCEPT ![i] = e]
      BY <1>2 DEF AddPeer
    <2>4. n \notin Members
      BY <1>t, <1>2, DirectoryOfTable DEF AddPeer
    <2>5. UNCHANGED <<node_id, sequence_number, initialized>> /\ out' = {} /\ result' = "OK"
      BY <1>2 DEF AddPeer, Return, sending
    <2>6. Cardinality(Members) < MAX_PEERS
      <3>1. /\ IsFiniteSet(Members)
            /\ Cardinality(Members) <= Cardinality(Slot \ {i})
        BY <1>t, <2>1, MembersFitIn
      <3>2. Cardinality(Slot \ {i}) = MAX_PEERS - 1
        BY <2>1, TargetsAreFinite, FS_RemoveElement
      <3>3. Cardinality(Members) \in Nat
        BY <3>1, FS_CardinalityType
      <3> QED
        BY <3>1, <3>2, <3>3, PeersAssumption
    <2> HIDE DEF i, e
    <2>7. dir' = [m \in Members \cup {n} |->
                   IF m = n THEN [addr |-> e.addr, rssi |-> e.rssi] ELSE dir[m]]
      <3>1. dir' = [m \in Members \cup {e.node_id} |->
                     IF m = e.node_id THEN [addr |-> e.addr, rssi |-> e.rssi] ELSE dir[m]]
        BY <2>1, <2>2, <2>3, WrittenSlot
      <3> QED
        BY <3>1, <2>2
    <2>8. dir' = [m \in Members \cup {n} |->
                   IF m # n THEN dir[m]
                   ELSE [addr |-> a, rssi |-> IF n \in Members THEN dir[n].rssi ELSE 0]]
      BY <2>2, <2>4, <2>7
    <2>9. Cardinality(DOMAIN dir) < MAX_PEERS
      BY <1>d, <2>6
    <2>10. Directory!Put(n, a)
      BY <1>d, <2>5, <2>8, <2>9, SameCardinality DEF Directory!Put, Directory!Members, Directory!Answer
    <2> QED
      BY <2>10 DEF Directory!Next
  <1>3. CASE TableFull(n)
    <2>1. UNCHANGED <<peers, node_id, sequence_number, initialized>> /\ out' = {} /\ result' = "NO_MEMORY"
      BY <1>3 DEF TableFull, Return, sending
    <2>2. n \notin Members
      BY <1>t, <1>3, DirectoryOfTable DEF TableFull
    <2>3. \A i \in Slot : peers[i].active
      BY <1>3 DEF TableFull, FreeSlots
    <2>4. Cardinality(Members) = MAX_PEERS
      BY <1>t, <2>3, MembersFitIn, TargetsAreFinite
    <2>5. Cardinality(DOMAIN dir) = MAX_PEERS
      BY <1>d, <2>4
    <2>6. UNCHANGED dir
      BY <2>1, SameTable
    <2>7. Directory!PutFull(n)
      BY <1>d, <2>1, <2>2, <2>5, <2>6, SameCardinality DEF Directory!PutFull, Directory!Members, Directory!Answer
    <2> QED
      BY <2>7 DEF Directory!Next
  <1> QED
    BY <1>1, <1>2, <1>3 DEF comm_register_peer

LEMMA UnregisterIsRemove ==
    ASSUME TableOK, TableOK', NEW n \in Node, comm_unregister_peer(n)
    PROVE  Directory!Next
  <1>t. OneSlotPerNode /\ OneSlotPerNode'
    BY DEF TableOK
  <1>d. DOMAIN dir = Members
    BY <1>t, DirectoryOfTable
  <1>s. UNCHANGED <<node_id, sequence_number, initialized>> /\ out' = {}
    BY DEF comm_unregister_peer, Return, sending
  <1>1. CASE Known(n)
    <2> DEFINE i == find_peer(n)
    <2> DEFINE e == [peers[i] EXCEPT !.active = FALSE]
    <2>1. i \in Slot /\ peers[i].active /\ peers[i].node_id = n
      BY <1>1, KnownPeerIsASlot
    <2>2. peers[i] \in PeerEntry_t
      BY <2>1 DEF TableOK
    <2>3. e \in PeerEntry_t /\ ~e.active
      BY <2>2 DEF PeerEntry_t
    <2>4. peers' = [peers EXCEPT ![i] = e] /\ result' = "OK"
      BY <1>1 DEF comm_unregister_peer, Return
    <2> HIDE DEF i, e
    <2>5. dir' = [m \in Members \ {n} |-> dir[m]]
      BY <2>1, <2>3, <2>4, FreedSlot
    <2>6. n \in Members
      BY <1>t, <1>1, DirectoryOfTable
    <2>7. Directory!Remove(n)
      BY <1>d, <1>s, <2>4, <2>5, <2>6 DEF Directory!Remove, Directory!Members, Directory!Answer
    <2> QED
      BY <2>7 DEF Directory!Next
  <1>2. CASE ~Known(n)
    <2>1. UNCHANGED peers /\ result' = "NOT_FOUND"
      BY <1>2 DEF comm_unregister_peer, Return
    <2>2. n \notin Members
      BY <1>t, <1>2, DirectoryOfTable
    <2>3. Directory!NotFound(n)
      BY <1>d, <1>s, <2>1, <2>2, SameTable DEF Directory!NotFound, Directory!Members, Directory!Answer
    <2> QED
      BY <2>3 DEF Directory!Next
  <1> QED
    BY <1>1, <1>2

LEMMA RssiIsSignal ==
    ASSUME TableOK, TableOK', NEW n \in Node, NEW r \in Signals, comm_update_peer_rssi(n, r)
    PROVE  Directory!Next
  <1>t. OneSlotPerNode /\ OneSlotPerNode'
    BY DEF TableOK
  <1>d. DOMAIN dir = Members
    BY <1>t, DirectoryOfTable
  <1>s. UNCHANGED <<node_id, sequence_number, initialized>> /\ out' = {} /\ result' = "OK"
    BY DEF comm_update_peer_rssi, Return, sending
  <1>1. dir' = [m \in Members |-> IF m = n THEN [dir[m] EXCEPT !.rssi = r] ELSE dir[m]]
    <2>1. CASE Known(n)
      <3> DEFINE i == find_peer(n)
      <3> DEFINE e == [peers[i] EXCEPT !.rssi = r]
      <3>1. i \in Slot /\ peers[i].active /\ peers[i].node_id = n
        BY <2>1, KnownPeerIsASlot
      <3>2. peers[i] \in PeerEntry_t
        BY <3>1 DEF TableOK
      <3>3. /\ e \in PeerEntry_t /\ e.active /\ e.node_id = n
            /\ e.addr = peers[i].addr /\ e.rssi = r
        BY <3>1, <3>2 DEF PeerEntry_t
      <3>4. peers' = [peers EXCEPT ![i] = e]
        BY <2>1 DEF comm_update_peer_rssi
      <3>5. n \in Members /\ dir[n] = [addr |-> peers[i].addr, rssi |-> peers[i].rssi]
        BY <1>t, <3>1, DirectoryOfTable
      <3> HIDE DEF i, e
      <3>6. dir' = [m \in Members \cup {n} |->
                     IF m = n THEN [addr |-> e.addr, rssi |-> e.rssi] ELSE dir[m]]
        <4>1. dir' = [m \in Members \cup {e.node_id} |->
                       IF m = e.node_id THEN [addr |-> e.addr, rssi |-> e.rssi] ELSE dir[m]]
          BY <3>1, <3>3, <3>4, WrittenSlot
        <4> QED
          BY <4>1, <3>3
      <3>7. [dir[n] EXCEPT !.rssi = r] = [addr |-> e.addr, rssi |-> e.rssi]
        BY <3>3, <3>5
      <3>8. Members \cup {n} = Members
        BY <3>5
      <3> QED
        BY <3>6, <3>7, <3>8
    <2>2. CASE ~Known(n)
      <3>1. UNCHANGED <<dir, Members>>
        BY <2>2, SameTable DEF comm_update_peer_rssi
      <3>2. n \notin Members
        BY <1>t, <2>2, DirectoryOfTable
      <3>3. dir = [m \in Members |-> dir[m]]
        BY DirectoryIsAMap
      <3> QED
        BY <3>1, <3>2, <3>3
    <2> QED
      BY <2>1, <2>2
  <1>2. Directory!Signal(n, r)
    BY <1>d, <1>s, <1>1 DEF Directory!Signal, Directory!Members, Directory!Answer
  <1> QED
    BY <1>2 DEF Directory!Next

-----------------------------------------------------------------------------
(* Sending *)

LEMMA PacketGoesToMember ==
    ASSUME OneSlotPerNode, NEW i \in Slot, peers[i].active, NEW k
    PROVE  Packet(peers[i].node_id, k) =
              [dst |-> peers[i].node_id, addr |-> dir[peers[i].node_id].addr,
               seq |-> k % NumberRange]
  <1>1. find_peer(peers[i].node_id) = i
    BY DirectoryOfTable
  <1>2. dir[peers[i].node_id] = [addr |-> peers[i].addr, rssi |-> peers[i].rssi]
    BY DirectoryOfTable
  <1> QED
    BY <1>1, <1>2 DEF Packet

LEMMA SendIsSendOne ==
    ASSUME TableOK, RestTyped, NEW n \in Node, SendPacket(n)
    PROVE  Directory!Next
  <1>t. OneSlotPerNode
    BY DEF TableOK
  <1>d. DOMAIN dir = Members
    BY <1>t, DirectoryOfTable
  <1>1. PICK i \in Slot : peers[i].active /\ peers[i].node_id = n
    BY KnownPeerIsASlot DEF SendPacket
  <1>2. n \in Members
    BY <1>t, <1>1, DirectoryOfTable
  <1>3. /\ UNCHANGED <<peers, node_id, initialized>>
        /\ out' = {Packet(n, sequence_number)}
        /\ sequence_number' = (sequence_number + 1) % NumberRange
        /\ result' \in {"OK", "COMM_FAIL"}
    BY DEF SendPacket, table
  <1>4. Packet(n, sequence_number) =
           [dst |-> n, addr |-> dir[n].addr, seq |-> sequence_number % NumberRange]
    BY <1>t, <1>1, PacketGoesToMember
  <1>5. Cardinality({n}) = 1
    BY FS_Singleton
  <1> DEFINE number == [m \in {n} |-> 0]
  <1>6. number \in [{n} -> 0..(Cardinality({n}) - 1)] /\ \A m, k \in {n} : number[m] = number[k] => m = k
    BY <1>5
  <1>7. out' = {[dst |-> m, addr |-> dir[m].addr,
                 seq |-> (sequence_number + number[m]) % NumberRange] : m \in {n}}
    <2>1. sequence_number + 0 = sequence_number
      BY DEF RestTyped
    <2> QED
      BY <1>3, <1>4, <2>1
  <1>8. UNCHANGED dir
    BY <1>3, SameTable
  <1> HIDE DEF number
  <1>9. Directory!Send({n})
    BY <1>d, <1>2, <1>3, <1>5, <1>6, <1>7, <1>8, SameCardinality
    DEF Directory!Send, Directory!Members
  <1> QED
    BY <1>3, <1>9 DEF Directory!SendOne, Directory!Next

\* The loop of comm_broadcast numbers its packets without gap or repetition.
LEMMA LoopNumbers ==
    /\ \A i \in Targets : Before(i) \in 0..(Cardinality(Targets) - 1)
    /\ \A i, j \in Targets : Before(i) = Before(j) => i = j
  <1> DEFINE B(i) == {j \in Targets : j < i}
  <1>0. Targets \in SUBSET Nat
    BY PeersAssumption DEF Targets, Slot
  <1>1. ASSUME NEW i \in Targets
        PROVE  /\ IsFiniteSet(B(i)) /\ Before(i) = Cardinality(B(i))
               /\ Before(i) \in 0..(Cardinality(Targets) - 1)
    <2>1. B(i) \in SUBSET Targets /\ i \notin B(i)
      BY <1>0
    <2>2. /\ IsFiniteSet(B(i)) /\ Cardinality(B(i)) <= Cardinality(Targets)
          /\ Cardinality(B(i)) # Cardinality(Targets)
      BY <2>1, TargetsAreFinite, FS_Subset
    <2>3. Cardinality(B(i)) \in Nat
      BY <2>2, FS_CardinalityType
    <2>4. Before(i) = Cardinality(B(i))
      BY DEF Before
    <2> QED
      BY <2>2, <2>3, <2>4, TargetsAreFinite
  <1>2. ASSUME NEW i \in Targets, NEW j \in Targets, i < j
        PROVE  Before(i) # Before(j)
    <2>1. B(i) \in SUBSET B(j) /\ i \in B(j) /\ i \notin B(i)
      <3>1. i \in Nat /\ j \in Nat /\ i < j
        BY <1>0, <1>2
      <3>2. \A k \in Targets : k \in Nat /\ (k < i => k < j)
        BY <1>0, <3>1
      <3>3. ~(i < i)
        BY <3>1
      <3>4. B(i) \in SUBSET B(j)
        BY <3>2
      <3> QED
        BY <3>1, <3>3, <3>4
    <2> QED
      BY <1>1, <2>1, FS_Subset
  <1>3. ASSUME NEW i \in Targets, NEW j \in Targets, Before(i) = Before(j)
        PROVE  i = j
    <2>1. ~(i < j) /\ ~(j < i)
      BY <1>2, <1>3
    <2> QED
      BY <1>0, <2>1
  <1> QED
    BY <1>1, <1>3

LEMMA BroadcastIsBroadcast ==
    ASSUME TableOK, RestTyped, comm_broadcast(TRUE)
    PROVE  Directory!Next
  <1>t. OneSlotPerNode
    BY DEF TableOK
  <1>d. DOMAIN dir = Members
    BY <1>t, DirectoryOfTable
  <1> DEFINE to == Members \ {node_id}
  <1>1. /\ UNCHANGED <<peers, node_id, initialized>>
        /\ out' = {Packet(peers[i].node_id, sequence_number + Before(i)) : i \in Targets}
        /\ sequence_number' = (sequence_number + Cardinality(Targets)) % NumberRange
        /\ result' = "OK"
    BY DEF comm_broadcast, table
  <1> DEFINE slot == [n \in to |-> find_peer(n)]
  <1>2. ASSUME NEW i \in Targets
        PROVE  peers[i].node_id \in to /\ slot[peers[i].node_id] = i
    BY <1>t, DirectoryOfTable DEF Targets
  <1>3. ASSUME NEW n \in to
        PROVE  slot[n] \in Targets /\ peers[slot[n]].node_id = n
    <2>1. PICK i \in Slot : peers[i].active /\ peers[i].node_id = n
      BY <1>t, DirectoryOfTable
    <2>2. find_peer(n) = i
      BY <1>t, <2>1, DirectoryOfTable
    <2> QED
      BY <2>1, <2>2 DEF Targets
  <1>4. Cardinality(to) = Cardinality(Targets)
    <2>1. slot \in [to -> Targets]
      BY <1>3
    <2>2. \A m, n \in to : slot[m] = slot[n] => m = n
      BY <1>3
    <2>3. slot \in Injection(to, Targets)
      BY <2>1, <2>2 DEF Injection, IsInjective
    <2>4. slot \in Surjection(to, Targets)
      BY <2>1, <1>2 DEF Surjection
    <2> HIDE DEF slot
    <2> QED
      BY <2>3, <2>4, TargetsAreFinite, FS_Injection
  <1> DEFINE number == [n \in to |-> Before(slot[n])]
  <1>5. /\ number \in [to -> 0..(Cardinality(to) - 1)]
        /\ \A m, n \in to : number[m] = number[n] => m = n
    <2>1. \A n \in to : number[n] \in 0..(Cardinality(to) - 1)
      BY <1>3, <1>4, LoopNumbers
    <2>2. ASSUME NEW m \in to, NEW n \in to, number[m] = number[n]
          PROVE  m = n
      BY <1>3, <2>2, LoopNumbers
    <2> QED
      BY <2>1, <2>2
  <1> DEFINE packet(n) == [dst |-> n, addr |-> dir[n].addr,
                           seq |-> (sequence_number + number[n]) % NumberRange]
  <1>6. ASSUME NEW i \in Targets
        PROVE  Packet(peers[i].node_id, sequence_number + Before(i)) = packet(peers[i].node_id)
    <2>1. i \in Slot /\ peers[i].active
      BY DEF Targets
    <2>2. number[peers[i].node_id] = Before(i)
      BY <1>2
    <2> QED
      BY <1>t, <2>1, <2>2, PacketGoesToMember
  <1>7. out' = {packet(n) : n \in to}
    <2> HIDE DEF packet, slot, to
    <2> QED
      BY <1>1, <1>2, <1>3, <1>6
  <1>8. UNCHANGED dir
    BY <1>1, SameTable
  <1>9. to \subseteq Members
    OBVIOUS
  <1> HIDE DEF number, slot
  <1>10. Directory!Send(to)
    <2> HIDE DEF to
    <2> QED
      BY <1>d, <1>1, <1>4, <1>5, <1>7, <1>8, <1>9, SameCardinality
      DEF Directory!Send, Directory!Members
  <1>11. Directory!Broadcast
    BY <1>d, <1>1, <1>10 DEF Directory!Broadcast, Directory!Members
  <1> QED
    BY <1>11 DEF Directory!Next

-----------------------------------------------------------------------------
LEMMA StepIsStep ==
    TableOK /\ RestTyped /\ TableOK' /\ [Next]_vars => [Directory!Next]_(Directory!vars)
  <1> SUFFICES ASSUME TableOK, RestTyped, TableOK', [Next]_vars
               PROVE  Directory!Next \/ UNCHANGED Directory!vars
    OBVIOUS
  <1>q. ASSUME UNCHANGED <<peers, node_id, sequence_number, initialized>>, out' = {},
               result' \in {"OK", "COMM_FAIL", "INVALID_ARG"}
        PROVE  Directory!Next
    BY <1>q, SameTable DEF Directory!Next, Directory!Other, Directory!Answer
  <1>1. ASSUME NEW n \in Node, comm_init(n)
        PROVE  Directory!Next
    <2>1. /\ peers' = NoPeers /\ node_id' = n /\ sequence_number' = 0
          /\ out' = {} /\ initialized = FALSE /\ initialized' \in BOOLEAN
          /\ result' = IF initialized' THEN "OK" ELSE "COMM_FAIL"
      <3>1. PICK bound \in BOOLEAN :
               initialized' = bound /\ Return(IF bound THEN "OK" ELSE "COMM_FAIL")
        BY <1>1 DEF comm_init
      <3>2. initialized = FALSE
        BY <1>1 DEF comm_init, RestTyped
      <3> QED
        BY <1>1, <3>1, <3>2 DEF comm_init, Return
    <2>2. Members' = {}
      BY <2>1, EmptyTable DEF Members, FreeSlots
    <2>3. dir' = [m \in {} |-> 0]
      BY <2>2, NextDirectoryIsAMap
    <2>4. Directory!Start
      BY <2>1, <2>3 DEF Directory!Start, Directory!Nobody, Directory!Answer
    <2> QED
      BY <2>4 DEF Directory!Next
  <1>2. CASE comm_init_again
    BY <1>2, <1>q DEF comm_init_again, Return
  <1>3. CASE comm_shutdown
    <2>1. /\ UNCHANGED <<peers, node_id, sequence_number>>
          /\ initialized' = FALSE /\ out' = {} /\ result' = "OK"
      BY <1>3 DEF comm_shutdown, Return
    <2>2. Directory!Stop
      BY <2>1, SameTable DEF Directory!Stop, Directory!Answer
    <2> QED
      BY <2>2 DEF Directory!Next
  <1>4. CASE RefusePeer
    BY <1>4, <1>q DEF RefusePeer, Return, sending
  <1>5. ASSUME NEW n \in Node, NEW fits \in BOOLEAN, comm_send_to_node(n, fits)
        PROVE  Directory!Next
    <2>1. CASE SendPacket(n)
      BY <2>1, SendIsSendOne
    <2>2. CASE ~SendPacket(n) /\ Known(n)
      BY <1>5, <1>q, <2>2 DEF comm_send_to_node, Return, table
    <2>3. CASE ~SendPacket(n) /\ ~Known(n)
      <3>1. UNCHANGED <<peers, node_id, sequence_number, initialized>> /\ out' = {} /\ result' = "NOT_FOUND"
        BY <1>5, <2>3 DEF comm_send_to_node, Return, table
      <3>2. n \notin DOMAIN dir
        BY <2>3, DirectoryOfTable DEF TableOK
      <3>3. Directory!NotFound(n)
        BY <3>1, <3>2, SameTable DEF Directory!NotFound, Directory!Members, Directory!Answer
      <3> QED
        BY <3>3 DEF Directory!Next
    <2> QED
      BY <2>1, <2>2, <2>3
  <1>6. ASSUME NEW fits \in BOOLEAN, comm_broadcast(fits)
        PROVE  Directory!Next
    <2>1. CASE fits
      <3>1. comm_broadcast(TRUE)
        BY <1>6, <2>1
      <3> QED
        BY <3>1, BroadcastIsBroadcast
    <2>2. CASE ~fits
      BY <1>6, <1>q, <2>2 DEF comm_broadcast, table
    <2> QED
      BY <2>1, <2>2
  <1>7. CASE comm_send_raw_udp
    BY <1>7, <1>q DEF comm_send_raw_udp, table
  <1>8. CASE comm_reset_statistics
    BY <1>8, <1>q DEF comm_reset_statistics, Return, table
  <1>9. CASE UNCHANGED vars
    BY <1>9, SameTable DEF vars, Directory!vars
  <1> QED
    BY <1>1, <1>2, <1>3, <1>4, <1>5, <1>6, <1>7, <1>8, <1>9,
       RegisterIsPut, UnregisterIsRemove, RssiIsSignal DEF Next

\* The peer functions of network.c implement a bounded map from nodes to addresses:
\* see ImplementsDirectory.
THEOREM TableIsDirectory == Spec => ImplementsDirectory
  <1>1. IInv => TableOK /\ RestTyped
    BY IInvParts
  <1>2. IInv /\ IInv' /\ [Next]_vars => [Directory!Next]_(Directory!vars)
    <2>1. IInv' => TableOK'
      BY <1>1, PTL
    <2> QED
      BY <1>1, <2>1, StepIsStep
  <1> QED
    BY <1>2, InitIsInit, AlwaysIInv, PTL DEF Spec, ImplementsDirectory, Directory!Spec

-----------------------------------------------------------------------------
(* Sums over a set, element by element *)

\* it adds up the signals of g over every part of S, as the fold of the community modules does.
AddsUp(it, g, S) ==
    it = [s \in SUBSET S |->
            IF s = {} THEN 0
            ELSE LET x == CHOOSE x \in s : TRUE IN g[x].rssi + it[s \ {x}]]

\* There is such a function, as it calls itself on smaller sets only.
LEMMA SumsExist ==
    ASSUME NEW S, IsFiniteSet(S), NEW g
    PROVE  \E it : AddsUp(it, g, S)
  <1> DEFINE next(it, s) == IF s = {} THEN 0
                            ELSE LET x == CHOOSE x \in s : TRUE IN g[x].rssi + it[s \ {x}]
             upto(k, it) == \A s \in SUBSET S : Cardinality(s) <= k => it[s] = next(it, s)
             missing == {k \in Nat : ~ \E it : it = [s \in SUBSET S |-> it[s]] /\ upto(k, it)}
  <1>0. \A s \in SUBSET S : IsFiniteSet(s) /\ Cardinality(s) \in Nat
    BY FS_Subset, FS_CardinalityType
  <1>1. ASSUME NEW s \in SUBSET S, s # {}
        PROVE  LET x == CHOOSE x \in s : TRUE
               IN  x \in s /\ s \ {x} \in SUBSET S /\ Cardinality(s \ {x}) = Cardinality(s) - 1
    <2> DEFINE x == CHOOSE x \in s : TRUE
    <2>1. x \in s
      BY <1>1
    <2> HIDE DEF x
    <2>2. Cardinality(s \ {x}) = Cardinality(s) - 1
      BY <1>0, <2>1, FS_RemoveElement
    <2> QED
      BY <2>1, <2>2 DEF x
  <1>2. ASSUME missing # {}
        PROVE  FALSE
    <2>1. PICK k \in missing : \A j \in missing : k <= j
      <3>1. missing \in SUBSET Nat
        OBVIOUS
      <3> HIDE DEF missing
      <3> QED
        BY <1>2, <3>1, LeastNumber
    <2>2. k # 0
      <3> DEFINE it == [s \in SUBSET S |-> 0]
      <3>1. ASSUME NEW s \in SUBSET S, Cardinality(s) <= 0
            PROVE  it[s] = next(it, s)
        <4>1. s = {}
          BY <1>0, <3>1, FS_EmptySet
        <4> QED
          BY <4>1
      <3>2. it = [s \in SUBSET S |-> it[s]]
        OBVIOUS
      <3>3. upto(0, it)
        BY <3>1
      <3> HIDE DEF it, upto
      <3> QED
        BY <2>1, <3>2, <3>3
    <2>3. k - 1 \in Nat /\ k - 1 \notin missing
      <3>1. k \in Nat
        BY <2>1
      <3> HIDE DEF missing
      <3> QED
        BY <2>1, <2>2, <3>1
    <2>4. PICK f : f = [s \in SUBSET S |-> f[s]] /\ upto(k - 1, f)
      <3> HIDE DEF upto
      <3> QED
        BY <2>3
    <2> DEFINE it == [s \in SUBSET S |-> next(f, s)]
    <2>5. ASSUME NEW s \in SUBSET S, Cardinality(s) <= k
          PROVE  it[s] = next(it, s)
      <3>1. CASE s = {}
        BY <3>1
      <3>2. CASE s # {}
        <4> DEFINE x == CHOOSE x \in s : TRUE
                   r == s \ {x}
        <4>1. r \in SUBSET S /\ Cardinality(r) = Cardinality(s) - 1
          BY <1>1, <3>2
        <4>2. Cardinality(r) <= k - 1
          BY <1>0, <2>3, <2>5, <4>1
        <4>3. f[r] = next(f, r)
          <5> HIDE DEF r, next
          <5> QED
            BY <2>4, <4>1, <4>2
        <4>4. it[r] = next(f, r)
          <5> HIDE DEF r, next
          <5> QED
            BY <4>1
        <4>5. it[s] = g[x].rssi + f[r]
          BY <3>2
        <4>6. next(it, s) = g[x].rssi + it[r]
          <5> HIDE DEF it
          <5> QED
            BY <3>2
        <4> HIDE DEF it, next, x, r
        <4> QED
          BY <4>3, <4>4, <4>5, <4>6
      <3> QED
        BY <3>1, <3>2
    <2>6. upto(k, it) /\ it = [s \in SUBSET S |-> it[s]]
      <3>1. upto(k, it)
        BY <2>5
      <3>2. it = [s \in SUBSET S |-> it[s]]
        <4> HIDE DEF next
        <4> QED
          OBVIOUS
      <3> QED
        BY <3>1, <3>2
    <2> HIDE DEF it, upto
    <2> QED
      BY <2>1, <2>6
  <1>3. Cardinality(S) \in Nat /\ \A s \in SUBSET S : Cardinality(s) <= Cardinality(S)
    BY FS_Subset, FS_CardinalityType
  <1>4. PICK it : it = [s \in SUBSET S |-> it[s]] /\ upto(Cardinality(S), it)
    <2>1. Cardinality(S) \notin missing
      <3> HIDE DEF missing
      <3> QED
        BY <1>2
    <2> HIDE DEF upto
    <2> QED
      BY <1>3, <2>1
  <1>5. \A s \in SUBSET S : it[s] = next(it, s)
    BY <1>3, <1>4
  <1>6. it = [s \in SUBSET S |-> next(it, s)]
    <2> HIDE DEF next
    <2> QED
      BY <1>4, <1>5
  <1> QED
    BY <1>6 DEF AddsUp

\* Nothing adds up to zero, and any other set to one of its elements and the rest.
LEMMA SumByOne ==
    ASSUME NEW S, IsFiniteSet(S), NEW g, NEW it, AddsUp(it, g, S)
    PROVE  /\ it[{}] = 0
           /\ \A s \in SUBSET S : s # {} =>
                \E x \in s : /\ it[s] = g[x].rssi + it[s \ {x}]
                             /\ Cardinality(s \ {x}) = Cardinality(s) - 1
  <1>1. \A s \in SUBSET S : it[s] = IF s = {} THEN 0
                                    ELSE LET x == CHOOSE x \in s : TRUE IN g[x].rssi + it[s \ {x}]
    BY DEF AddsUp
  <1>2. it[{}] = 0
    BY <1>1
  <1>3. ASSUME NEW s \in SUBSET S, s # {}
        PROVE  \E x \in s : /\ it[s] = g[x].rssi + it[s \ {x}]
                            /\ Cardinality(s \ {x}) = Cardinality(s) - 1
    <2> DEFINE x == CHOOSE x \in s : TRUE
    <2>1. x \in s
      BY <1>3
    <2>2. it[s] = g[x].rssi + it[s \ {x}]
      BY <1>1, <1>3
    <2> HIDE DEF x
    <2>3. Cardinality(s \ {x}) = Cardinality(s) - 1
      BY <2>1, FS_Subset, FS_RemoveElement
    <2> QED
      BY <2>1, <2>2, <2>3
  <1> QED
    BY <1>2, <1>3

LEMMA Product ==
    ASSUME NEW a \in Int, NEW n \in Int
    PROVE  a * n \in Int /\ a * (n - 1) = a * n - a
  OBVIOUS

\* A sum of values between two bounds is between the bounds times their number.
LEMMA SumIsBounded ==
    ASSUME NEW S, IsFiniteSet(S), NEW g, NEW it, AddsUp(it, g, S),
           NEW lo \in Int, NEW hi \in Int,
           \A x \in S : g[x].rssi \in Int /\ lo <= g[x].rssi /\ g[x].rssi <= hi
    PROVE  /\ it[S] \in Int
           /\ lo * Cardinality(S) <= it[S] /\ it[S] <= hi * Cardinality(S)
  <1> DEFINE bounded(s) == /\ it[s] \in Int
                           /\ lo * Cardinality(s) <= it[s] /\ it[s] <= hi * Cardinality(s)
             bad == {k \in Nat : \E s \in SUBSET S : Cardinality(s) = k /\ ~bounded(s)}
  <1>0. \A s \in SUBSET S : IsFiniteSet(s) /\ Cardinality(s) \in Nat
    BY FS_Subset, FS_CardinalityType
  <1>1. ASSUME bad # {}
        PROVE  FALSE
    <2>1. PICK k \in bad : \A j \in bad : k <= j
      <3>1. bad \in SUBSET Nat
        OBVIOUS
      <3> HIDE DEF bad
      <3> QED
        BY <1>1, <3>1, LeastNumber
    <2>2. PICK s \in SUBSET S : Cardinality(s) = k /\ ~bounded(s)
      <3> HIDE DEF bounded
      <3> QED
        BY <2>1
    <2>3. s # {}
      <3>1. it[{}] = 0 /\ Cardinality({}) = 0 /\ lo * 0 = 0 /\ hi * 0 = 0
        BY SumByOne, FS_EmptySet
      <3>2. bounded({})
        BY <3>1
      <3> HIDE DEF bounded
      <3> QED
        BY <2>2, <3>2
    <2>4. PICK x \in s : /\ it[s] = g[x].rssi + it[s \ {x}]
                         /\ Cardinality(s \ {x}) = Cardinality(s) - 1
      BY <2>3, SumByOne
    <2>5. k \in Nat /\ k - 1 \in Nat /\ k - 1 \notin bad
      <3>1. Cardinality(s \ {x}) \in Nat
        BY <1>0
      <3>2. k \in Nat /\ k - 1 \in Nat
        BY <2>2, <2>4, <3>1, <1>0
      <3> HIDE DEF bad
      <3> QED
        BY <2>1, <3>2
    <2>6. bounded(s \ {x})
      <3> HIDE DEF bounded
      <3> QED
        BY <2>2, <2>4, <2>5
    <2> DEFINE r == it[s \ {x}]
    <2>7. r \in Int /\ lo * (k - 1) <= r /\ r <= hi * (k - 1)
      BY <2>2, <2>4, <2>6
    <2>8. /\ lo * k \in Int /\ lo * (k - 1) = lo * k - lo
          /\ hi * k \in Int /\ hi * (k - 1) = hi * k - hi
      BY <2>5, Product
    <2>9. g[x].rssi \in Int /\ lo <= g[x].rssi /\ g[x].rssi <= hi /\ it[s] = g[x].rssi + r
      BY <2>4
    <2>10. it[s] \in Int /\ lo * k <= it[s] /\ it[s] <= hi * k
      <3> DEFINE lk == lo * k
                 hk == hi * k
                 v == g[x].rssi
                 w == it[s]
      <3>1. lk \in Int /\ hk \in Int /\ lk - lo <= r /\ r <= hk - hi
        BY <2>7, <2>8
      <3>2. v \in Int /\ lo <= v /\ v <= hi /\ w = v + r /\ r \in Int
        BY <2>7, <2>9
      <3> HIDE DEF lk, hk, v, w, r
      <3>3. w \in Int /\ lk <= w /\ w <= hk
        BY <3>1, <3>2
      <3> QED
        BY <3>3 DEF lk, hk, w
    <2> QED
      BY <2>2, <2>10
  <1>2. Cardinality(S) \notin bad
    <2> HIDE DEF bad
    <2> QED
      BY <1>1
  <1> QED
    BY <1>0, <1>2

\* The division of C stays between the bounds of the mean, on either side of zero.
LEMMA AverageIsBetween ==
    ASSUME NEW n \in Nat \ {0}, NEW sum \in Int, NEW lo \in Int, NEW hi \in Int,
           lo * n <= sum, sum <= hi * n
    PROVE  Quotient(sum, n) \in Int /\ lo <= Quotient(sum, n) /\ Quotient(sum, n) <= hi
  <1>1. CASE sum < 0
    <2> DEFINE q == (-sum) \div n
    <2>1. q \in Int /\ q * n <= -sum /\ -sum < q * n + n
      OBVIOUS
    <2>2. Quotient(sum, n) = -q
      BY <1>1 DEF Quotient
    <2> HIDE DEF q
    <2>3. q <= -lo
      <3>1. q * n <= (-lo) * n
        BY <2>1
      <3> QED
        BY <2>1, <3>1
    <2>4. -hi <= q
      <3>1. (-hi) * n < (q + 1) * n
        BY <2>1
      <3> QED
        BY <2>1, <3>1
    <2> QED
      BY <2>1, <2>2, <2>3, <2>4
  <1>2. CASE ~(sum < 0)
    <2> DEFINE q == sum \div n
    <2>1. q \in Int /\ q * n <= sum /\ sum < q * n + n
      OBVIOUS
    <2>2. Quotient(sum, n) = q
      BY <1>2 DEF Quotient
    <2> HIDE DEF q
    <2>3. lo <= q
      <3>1. lo * n < (q + 1) * n
        BY <2>1
      <3> QED
        BY <2>1, <3>1
    <2>4. q <= hi
      <3>1. q * n <= hi * n
        BY <2>1
      <3> QED
        BY <2>1, <3>1
    <2> QED
      BY <2>1, <2>2, <2>3, <2>4
  <1> QED
    BY <1>1, <1>2

-----------------------------------------------------------------------------
(* What the table says of the quality *)

LEMMA ReportsAreSignals ==
    ASSUME IInv, NEW i \in Reporting
    PROVE  /\ i \in Slot /\ peers[i].active /\ peers[i].rssi # 0
           /\ peers[i].rssi \in Int /\ -128 <= peers[i].rssi /\ peers[i].rssi <= 127
  <1>1. i \in Slot /\ peers[i].active /\ peers[i].rssi # 0
    BY DEF Reporting
  <1>2. peers[i].rssi \in Signals
    BY <1>1 DEF IInv, PeerTypeOK, PeerEntry_t
  <1>3. peers[i].rssi \in -128..127
    BY <1>2, SignalsAssumption
  <1> QED
    BY <1>1, <1>3

\* The average of comm_is_network_healthy is between any bounds of its signals.
LEMMA AverageOfReports ==
    ASSUME IInv, Reporting # {}, NEW lo \in Int, NEW hi \in Int,
           \A i \in Reporting : lo <= peers[i].rssi /\ peers[i].rssi <= hi
    PROVE  avg_rssi \in Int /\ lo <= avg_rssi /\ avg_rssi <= hi
  <1>1. IsFiniteSet(Reporting) /\ Cardinality(Reporting) \in Nat \ {0}
    <2>1. Reporting \in SUBSET Slot
      BY DEF Reporting
    <2>2. IsFiniteSet(Reporting)
      BY <2>1, TargetsAreFinite, FS_Subset
    <2> QED
      BY <2>2, FS_CardinalityType, FS_EmptySet
  <1> DEFINE it == CHOOSE it : AddsUp(it, peers, Reporting)
  <1>2. AddsUp(it, peers, Reporting)
    BY <1>1, SumsExist
  <1>3. MapThenSumSet(LAMBDA i : peers[i].rssi, Reporting) = it[Reporting]
    BY DEF MapThenSumSet, MapThenFoldSet, AddsUp
  <1>4. \A i \in Reporting : peers[i].rssi \in Int
    BY ReportsAreSignals
  <1> HIDE DEF it
  <1>5. /\ it[Reporting] \in Int
        /\ lo * Cardinality(Reporting) <= it[Reporting]
        /\ it[Reporting] <= hi * Cardinality(Reporting)
    BY <1>1, <1>2, <1>4, SumIsBounded
  <1>6. avg_rssi = Quotient(it[Reporting], Cardinality(Reporting))
    BY <1>3 DEF avg_rssi
  <1> QED
    BY <1>1, <1>5, <1>6, AverageIsBetween

\* What the directory reports is what the slots report.
LEMMA ReportsOfTable ==
    ASSUME IInv
    PROVE  {dir[n].rssi : n \in Members} \ {0} = {peers[i].rssi : i \in Reporting}
  <1>1. OneSlotPerNode
    BY DEF IInv
  <1>2. ASSUME NEW i \in Reporting
        PROVE  peers[i].rssi \in {dir[n].rssi : n \in Members} \ {0}
    <2>1. i \in Slot /\ peers[i].active /\ peers[i].rssi # 0
      BY ReportsAreSignals
    <2>2. /\ peers[i].node_id \in Members
          /\ dir[peers[i].node_id] = [addr |-> peers[i].addr, rssi |-> peers[i].rssi]
      BY <1>1, <2>1, DirectoryOfTable
    <2>3. dir[peers[i].node_id].rssi = peers[i].rssi
      BY <2>2
    <2> QED
      BY <2>1, <2>2, <2>3
  <1>3. ASSUME NEW n \in Members, dir[n].rssi # 0
        PROVE  \E i \in Reporting : dir[n].rssi = peers[i].rssi
    <2>1. PICK i \in Slot : peers[i].active /\ peers[i].node_id = n
      BY DEF Members, FreeSlots
    <2>2. dir[n] = [addr |-> peers[i].addr, rssi |-> peers[i].rssi]
      BY <1>1, <2>1, DirectoryOfTable
    <2>3. dir[n].rssi = peers[i].rssi
      BY <2>2
    <2> QED
      BY <1>3, <2>1, <2>3 DEF Reporting
  <1> QED
    BY <1>2, <1>3

\* The verdict of comm_is_network_healthy follows the registered peers that report: it
\* is yes when less than 5 percent of the packets were refused and all that report
\* are strong enough, and no when at least one reports and all that do are too weak.
\* For any int8_t signals, any table size and any threshold below zero.
THEOREM HealthIsOfMembers == Spec => []HealthFollowsMembers
  <1>1. ASSUME IInv
        PROVE  HealthFollowsMembers
    <2> DEFINE reports == {dir[n].rssi : n \in Members} \ {0}
    <2>1. reports = {peers[i].rssi : i \in Reporting}
      BY <1>1, ReportsOfTable
    <2>2. \A r \in reports : r \in Int /\ -128 <= r /\ r <= 127
      <3> HIDE DEF reports
      <3> QED
        BY <1>1, <2>1, ReportsAreSignals
    <2> HIDE DEF reports
    <2>3. COMM_MIN_RSSI \in Int /\ -128 <= COMM_MIN_RSSI /\ COMM_MIN_RSSI <= -1
      BY SignalsAssumption
    <2>4. ASSUME LossIsLow, \A r \in reports : r >= COMM_MIN_RSSI
          PROVE  comm_is_network_healthy
      <3>1. CASE Reporting = {}
        BY <2>4, <3>1 DEF comm_is_network_healthy, avg_rssi
      <3>2. CASE Reporting # {}
        <4>1. PICK hi \in Int : hi = 127
          OBVIOUS
        <4>2. \A i \in Reporting : COMM_MIN_RSSI <= peers[i].rssi /\ peers[i].rssi <= hi
          BY <1>1, <2>1, <2>4, <4>1, ReportsAreSignals
        <4>3. COMM_MIN_RSSI <= avg_rssi
          BY <1>1, <2>3, <3>2, <4>2, AverageOfReports
        <4> QED
          BY <2>4, <4>3 DEF comm_is_network_healthy
      <3> QED
        BY <3>1, <3>2
    <2>5. ASSUME reports # {}, \A r \in reports : r < COMM_MIN_RSSI
          PROVE  ~comm_is_network_healthy
      <3>1. Reporting # {}
        BY <2>1, <2>5
      <3>2. \A i \in Reporting : -128 <= peers[i].rssi /\ peers[i].rssi <= COMM_MIN_RSSI - 1
        <4> SUFFICES ASSUME NEW i \in Reporting
                     PROVE  -128 <= peers[i].rssi /\ peers[i].rssi <= COMM_MIN_RSSI - 1
          OBVIOUS
        <4>1. peers[i].rssi \in reports
          BY <2>1
        <4> DEFINE r == peers[i].rssi
        <4>2. r \in Int /\ -128 <= r /\ r < COMM_MIN_RSSI
          BY <2>2, <2>5, <4>1
        <4> HIDE DEF r
        <4>3. -128 <= r /\ r <= COMM_MIN_RSSI - 1
          BY <2>3, <4>2
        <4> QED
          BY <4>3 DEF r
      <3>3. avg_rssi \in Int /\ avg_rssi <= COMM_MIN_RSSI - 1
        BY <1>1, <2>3, <3>1, <3>2, AverageOfReports
      <3>4. ~(avg_rssi >= COMM_MIN_RSSI) /\ avg_rssi # 0
        BY <2>3, <3>3
      <3> QED
        BY <3>4 DEF comm_is_network_healthy
    <2> QED
      BY <2>4, <2>5 DEF HealthFollowsMembers, reports
  <1> QED
    BY <1>1, AlwaysIInv, PTL

=============================================================================
