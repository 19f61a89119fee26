-------------------------- MODULE MembershipProofs ---------------------------
(***************************************************************************)
(* What is proved of Membership, for any number of nodes, any log and any  *)
(* order of calls.                                                         *)
(***************************************************************************)
EXTENDS Membership, FiniteSetTheorems, TLAPS

\* Half of an integer, as the solver needs it.
LEMMA Half ==
    ASSUME NEW k \in Nat
    PROVE  k \div 2 \in Nat /\ 2 * (k \div 2) <= k /\ k <= 2 * (k \div 2) + 1
OBVIOUS

\* A candidate that has no majority of its cluster has few votes.
FewVotes == state = "candidate" => votes <= RAFT_MAX_NODES \div 2

\* What the leader reads of a node, it took from the node in this office and since the
\* node was last added.
MatchWasReceived == \A n \in Node : match_idx[n] <= received[n]

IInv == MembershipTypeOK /\ FewVotes /\ SizeCountsMembers /\ MatchWasReceived

LEMMA InitIInv ==
    ASSUME Init
    PROVE  IInv
<1>1. MembershipTypeOK /\ FewVotes
  BY SizesAssumption, Half DEF Init, MembershipTypeOK, FewVotes, Nothing
<1>2. SizeCountsMembers
  BY FS_EmptySet DEF Init, SizeCountsMembers
<1>3. MatchWasReceived
  BY DEF Init, MatchWasReceived, Nothing
<1> QED  BY <1>1, <1>2, <1>3 DEF IInv

\* Everything as at first.
LEMMA InitAgain ==
    ASSUME raft_init
    PROVE  IInv'
<1>1. MembershipTypeOK' /\ FewVotes'
  BY SizesAssumption, Half DEF raft_init, MembershipTypeOK, FewVotes, Nothing
<1>2. SizeCountsMembers'
  BY FS_EmptySet DEF raft_init, SizeCountsMembers
<1>3. MatchWasReceived'
  BY DEF raft_init, MatchWasReceived, Nothing
<1> QED  BY <1>1, <1>2, <1>3 DEF IInv

\* The cap is out of reach while the application keeps order: even with one more
\* member the cluster has no more nodes than there are ids.
LEMMA RoomForOne ==
    ASSUME IInv, orderly, NEW n \in Node, n # Me, n \notin members
    PROVE  /\ g_cluster_size < RAFT_MAX_NODES
           /\ IsFiniteSet(members)
           /\ Cardinality(members \cup {n}) = Cardinality(members) + 1
<1>1. members \subseteq Node /\ Me \notin members /\ g_cluster_size = Cardinality(members) + 1
  BY DEF IInv, MembershipTypeOK, SizeCountsMembers
<1>2. IsFiniteSet(Node) /\ Cardinality(Node) = RAFT_MAX_NODES /\ Me \in Node
  BY NodesAssumption
<1>3. IsFiniteSet(members) /\ Cardinality(members) \in Nat
  BY <1>1, <1>2, FS_Subset, FS_CardinalityType
<1>4. Cardinality(members \cup {n}) = Cardinality(members) + 1 /\ IsFiniteSet(members \cup {n})
  BY <1>3, FS_AddElement
<1>5. Cardinality((members \cup {n}) \cup {Me}) = Cardinality(members) + 2
  <2>1. Me \notin members \cup {n}
    BY <1>1
  <2>2. Cardinality((members \cup {n}) \cup {Me}) = Cardinality(members \cup {n}) + 1
    BY <1>4, <2>1, FS_AddElement
  <2> QED  BY <1>3, <1>4, <2>2
<1>6. Cardinality((members \cup {n}) \cup {Me}) <= Cardinality(Node)
  BY <1>1, <1>2, FS_Subset
<1> QED  BY <1>1, <1>2, <1>3, <1>4, <1>5, <1>6, SizesAssumption

LEMMA AddKeeps ==
    ASSUME IInv, NEW n \in Node, raft_add_node(n)
    PROVE  IInv'
<1>1. MembershipTypeOK'
  <2>1. g_cluster_size' \in 1..RAFT_MAX_NODES
    BY SizesAssumption DEF IInv, MembershipTypeOK, raft_add_node
  <2>2. /\ match_idx' \in [Node -> Nat] /\ received' \in [Node -> Nat]
        /\ members' \subseteq Node
    BY DEF IInv, MembershipTypeOK, raft_add_node
  <2>3. orderly' \in BOOLEAN
    BY DEF raft_add_node
  <2> QED  BY <2>1, <2>2, <2>3 DEF IInv, MembershipTypeOK, raft_add_node, roleVars
<1>2. FewVotes'
  BY DEF IInv, FewVotes, raft_add_node, roleVars
<1>3. SizeCountsMembers'
  <2> SUFFICES ASSUME orderly'
               PROVE  Me \notin members' /\ g_cluster_size' = Cardinality(members') + 1
    BY DEF SizeCountsMembers
  <2>1. orderly /\ n # Me /\ n \notin members /\ members' = members \cup {n}
    BY DEF raft_add_node
  <2>2. g_cluster_size < RAFT_MAX_NODES /\ Cardinality(members \cup {n}) = Cardinality(members) + 1
    BY <2>1, RoomForOne
  <2>3. g_cluster_size' = g_cluster_size + 1
    BY <2>2 DEF raft_add_node
  <2> QED  BY <2>1, <2>2, <2>3 DEF IInv, SizeCountsMembers
<1>4. MatchWasReceived'
  BY DEF IInv, MembershipTypeOK, MatchWasReceived, raft_add_node
<1> QED  BY <1>1, <1>2, <1>3, <1>4 DEF IInv

LEMMA RemoveKeeps ==
    ASSUME IInv, NEW n \in Node, raft_remove_node(n)
    PROVE  IInv'
<1>1. MembershipTypeOK'
  BY SizesAssumption DEF IInv, MembershipTypeOK, raft_remove_node, roleVars
<1>2. FewVotes' /\ MatchWasReceived'
  BY DEF IInv, FewVotes, MatchWasReceived, raft_remove_node, roleVars
<1>3. SizeCountsMembers'
  <2> SUFFICES ASSUME orderly'
               PROVE  Me \notin members' /\ g_cluster_size' = Cardinality(members') + 1
    BY DEF SizeCountsMembers
  <2>1. orderly /\ n \in members /\ members' = members \ {n}
    BY DEF raft_remove_node
  <2>2. Me \notin members /\ g_cluster_size = Cardinality(members) + 1 /\ members \subseteq Node
    BY <2>1 DEF IInv, SizeCountsMembers, MembershipTypeOK
  <2>3. IsFiniteSet(members) /\ Cardinality(members) \in Nat
    BY <2>2, NodesAssumption, FS_Subset, FS_CardinalityType
  <2>4. Cardinality(members \ {n}) = Cardinality(members) - 1 /\ Cardinality(members \ {n}) \in Nat
    BY <2>1, <2>3, FS_RemoveElement, FS_CardinalityType
  <2>5. g_cluster_size' = g_cluster_size - 1
    BY <2>2, <2>3, <2>4 DEF raft_remove_node
  <2> QED  BY <2>1, <2>2, <2>3, <2>4, <2>5
<1> QED  BY <1>1, <1>2, <1>3 DEF IInv

\* The steps that leave the cluster as it is.
LEMMA VoteKeeps ==
    ASSUME IInv, CountVote
    PROVE  IInv'
<1> DEFINE half == g_cluster_size \div 2
           most == RAFT_MAX_NODES \div 2
<1>1. /\ g_cluster_size \in Nat /\ g_cluster_size <= RAFT_MAX_NODES /\ RAFT_MAX_NODES \in Nat
      /\ votes \in Nat /\ votes <= most
  BY SizesAssumption, Half DEF IInv, MembershipTypeOK, FewVotes, CountVote
<1>2. half \in Nat /\ most \in Nat /\ half <= most
  BY <1>1, Half
<1>3. Majority(votes + 1) \/ votes + 1 <= half
  BY <1>1, <1>2 DEF Majority
<1>4. votes' \in 0..(most + 1) /\ (state' = "candidate" => votes' <= most)
  BY <1>1, <1>2, <1>3 DEF CountVote, BecomeLeader
<1>5. /\ state' \in {"follower", "candidate", "leader"}
      /\ match_idx' \in [Node -> Nat] /\ received' \in [Node -> Nat]
      /\ MatchWasReceived'
  BY DEF IInv, MembershipTypeOK, MatchWasReceived, CountVote, BecomeLeader, Nothing
<1> QED  BY <1>4, <1>5 DEF IInv, MembershipTypeOK, FewVotes, SizeCountsMembers, CountVote, memberVars

LEMMA RoleKeeps ==
    ASSUME IInv, StartElection \/ \E t \in 0..MaxTerm : Follow(t)
    PROVE  IInv'
<1>1. CASE StartElection
  <2>1. 1 <= RAFT_MAX_NODES \div 2
    BY SizesAssumption, Half
  <2>2. term' \in 0..MaxTerm
    BY <1>1, SizesAssumption DEF IInv, MembershipTypeOK, StartElection
  <2> QED  BY <1>1, <2>1, <2>2, SizesAssumption, Half
           DEF IInv, MembershipTypeOK, FewVotes, SizeCountsMembers, MatchWasReceived, StartElection, memberVars
<1>2. ASSUME NEW t \in 0..MaxTerm, Follow(t)
      PROVE  IInv'
  <2>1. commit_idx' \in 0..Len(log)
    BY <1>2 DEF IInv, MembershipTypeOK, Follow
  <2> QED  BY <1>2, <2>1
           DEF IInv, MembershipTypeOK, FewVotes, SizeCountsMembers, MatchWasReceived, Follow, memberVars
<1> QED  BY <1>1, <1>2

LEMMA LogKeeps ==
    ASSUME IInv, raft_append_entry \/ AdvanceCommit
    PROVE  IInv'
<1>0. log \in Seq(0..MaxTerm) /\ Len(log) \in Nat /\ commit_idx \in 0..Len(log) /\ term \in 0..MaxTerm
  BY DEF IInv, MembershipTypeOK
<1>1. log' \in Seq(0..MaxTerm) /\ commit_idx' \in 0..Len(log')
  <2>1. CASE raft_append_entry
    <3>1. log' \in Seq(0..MaxTerm) /\ Len(log') = Len(log) + 1
      BY <1>0, <2>1 DEF raft_append_entry
    <3> QED  BY <1>0, <2>1, <3>1 DEF raft_append_entry
  <2>2. CASE AdvanceCommit
    <3>1. commit_idx' \in (commit_idx + 1)..Len(log) /\ log' = log
      BY <2>2 DEF AdvanceCommit, Committable
    <3> QED  BY <1>0, <3>1
  <2> QED  BY <2>1, <2>2
<1>2. UNCHANGED <<memberVars, roleVars, match_idx, received>>
  BY DEF raft_append_entry, AdvanceCommit
<1> QED  BY <1>1, <1>2
         DEF IInv, MembershipTypeOK, FewVotes, SizeCountsMembers, MatchWasReceived, memberVars, roleVars

LEMMA AckKeeps ==
    ASSUME IInv, NEW n \in Node, NEW m \in 0..RAFT_MAX_LOG_ENTRIES,
           raft_handle_append_response(n, m)
    PROVE  IInv'
<1>1. match_idx' \in [Node -> Nat] /\ received' \in [Node -> Nat] /\ m \in Nat
  BY SizesAssumption DEF IInv, MembershipTypeOK, raft_handle_append_response
<1>2. MatchWasReceived'
  BY <1>1 DEF IInv, MembershipTypeOK, MatchWasReceived, raft_handle_append_response
<1> QED  BY <1>1, <1>2 DEF IInv, MembershipTypeOK, FewVotes, SizeCountsMembers,
                           raft_handle_append_response, memberVars, roleVars

LEMMA StepIInv ==
    ASSUME IInv, [Next]_vars
    PROVE  IInv'
<1>1. CASE UNCHANGED vars
  BY <1>1 DEF IInv, MembershipTypeOK, FewVotes, SizeCountsMembers, MatchWasReceived, vars,
              memberVars, roleVars
<1> QED  BY <1>1, InitAgain, AddKeeps, RemoveKeeps, VoteKeeps, RoleKeeps, LogKeeps, AckKeeps DEF Next

LEMMA AlwaysIInv == Spec => []IInv
BY InitIInv, StepIInv, PTL DEF Spec

\* The size stays in range whatever the application calls.
THEOREM MembershipTypeCorrect == Spec => []MembershipTypeOK
<1>1. IInv => MembershipTypeOK
  BY DEF IInv
<1> QED  BY <1>1, AlwaysIInv, PTL

\* Orderly calls make the counter the size of the cluster.
THEOREM SizeIsMembership == Spec => []SizeCountsMembers
<1>1. IInv => SizeCountsMembers
  BY DEF IInv
<1> QED  BY <1>1, AlwaysIInv, PTL

\* From all that the scan counts, such an acknowledgement was taken.
LEMMA CountedWereReceived ==
    ASSUME IInv, NEW k \in Nat, Majority(Cardinality(CountedFor(k)))
    PROVE  Majority(Cardinality({Me} \cup {n \in Node \ {Me} : received[n] >= k}))
<1> DEFINE heard == {Me} \cup {n \in Node \ {Me} : received[n] >= k}
<1>1. \A n \in Node : match_idx[n] \in Nat /\ received[n] \in Nat /\ match_idx[n] <= received[n]
  BY DEF IInv, MembershipTypeOK, MatchWasReceived
<1>2. CountedFor(k) \subseteq heard
  BY <1>1 DEF CountedFor
<1>3. heard \subseteq Node
  BY NodesAssumption
<1>4. IsFiniteSet(heard)
  BY <1>3, NodesAssumption, FS_Subset
<1>5. /\ Cardinality(CountedFor(k)) <= Cardinality(heard)
      /\ Cardinality(CountedFor(k)) \in Nat /\ Cardinality(heard) \in Nat
  BY <1>2, <1>4, FS_Subset, FS_CardinalityType
<1>6. g_cluster_size \div 2 \in Nat
  BY Half DEF IInv, MembershipTypeOK
<1> QED  BY <1>5, <1>6 DEF Majority

LEMMA CommitWasReceived ==
    ASSUME IInv, [Next]_vars, state = "leader", state' = "leader", commit_idx < commit_idx'
    PROVE  Majority(Cardinality({Me} \cup {n \in Node \ {Me} : received[n] >= commit_idx'}))
<1>1. AdvanceCommit
  <2>1. commit_idx \in Nat /\ ~(commit_idx < commit_idx)
    BY DEF IInv, MembershipTypeOK
  <2> QED  BY <2>1 DEF Next, vars, raft_init, raft_add_node, raft_remove_node, raft_append_entry,
                       StartElection, CountVote, Follow, raft_handle_append_response
<1>2. commit_idx' \in Nat /\ Majority(Cardinality(CountedFor(commit_idx')))
  BY <1>1 DEF AdvanceCommit, Committable, IInv, MembershipTypeOK
<1> QED  BY <1>2, CountedWereReceived

\* A commit rests on as many acknowledgements as are a majority of the present size,
\* all taken by raft_handle_append_response in the present office and since their
\* sender was last added by raft_add_node.
THEOREM CommitsRestOnReceivedAcks == Spec => CommitsOnReceivedAcks
<1>1. IInv /\ [Next]_vars =>
        [state = "leader" /\ state' = "leader" /\ commit_idx < commit_idx' =>
          Majority(Cardinality({Me} \cup {n \in Node \ {Me} : received[n] >= commit_idx'}))]_vars
  BY CommitWasReceived
<1> QED  BY <1>1, AlwaysIInv, PTL DEF Spec, CommitsOnReceivedAcks

=============================================================================
