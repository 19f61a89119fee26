----------------------------- MODULE Membership ------------------------------
(***************************************************************************)
(* Cluster changes as one node of core/raft.c sees them: raft_add_node and *)
(* raft_remove_node, called by the application in any order, and the two   *)
(* majorities that read what they write, that of an election and that of a *)
(* commit.  g_cluster_size and match_idx are all there is: the node keeps  *)
(* no set of members.                                                      *)
(*                                                                         *)
(* The other nodes are their answers, of which nothing is known.  next_idx *)
(* and the log's contents but for their terms, which nothing here reads,   *)
(* and the vote given to others are left to ChronosRaft.                   *)
(***************************************************************************)
EXTENDS Integers, Sequences, FiniteSets

CONSTANTS
    Node,                 \* the ids idx accepts, 1..RAFT_MAX_NODES
    Me,                   \* g_my_id
    RAFT_MAX_NODES,
    RAFT_MAX_LOG_ENTRIES,
    MaxTerm               \* BOUND: terms above this one are not reached

ASSUME NodesAssumption ==
    IsFiniteSet(Node) /\ Cardinality(Node) = RAFT_MAX_NODES /\ Me \in Node
ASSUME SizesAssumption ==
    /\ RAFT_MAX_NODES \in Nat \ {0, 1}
    /\ RAFT_MAX_LOG_ENTRIES \in Nat
    /\ MaxTerm \in Nat

VARIABLES
    g_cluster_size,
    state, term, votes,
    log,          \* the term of each record
    commit_idx,
    match_idx,
    members,      \* history: the nodes added and not removed since
    orderly,      \* history: only other nodes that were absent were added, and
                  \* only members removed
    received      \* history: the furthest acknowledgement taken from each node since
                  \* this one leads and since that one was last added, whenever sent

roleVars   == <<state, term, votes>>
memberVars == <<g_cluster_size, members, orderly>>
vars == <<memberVars, roleVars, log, commit_idx, match_idx, received>>

Majority(count) == count > g_cluster_size \div 2

Nothing == [n \in Node |-> 0]

Init ==
    /\ g_cluster_size = 1
    /\ state = "follower"
    /\ term = 0
    /\ votes = 0
    /\ log = << >>
    /\ commit_idx = 0
    /\ match_idx = Nothing
    /\ members = {}
    /\ orderly = TRUE
    /\ received = Nothing

\* The application starts the engine again: everything is as it was at first.
raft_init ==
    /\ g_cluster_size' = 1
    /\ state' = "follower"
    /\ term' = 0
    /\ votes' = 0
    /\ log' = << >>
    /\ commit_idx' = 0
    /\ match_idx' = Nothing
    /\ members' = {}
    /\ orderly' = TRUE
    /\ received' = Nothing

-----------------------------------------------------------------------------
(* Calls of the application *)

Bug_CapOneShort(n) ==
    /\ g_cluster_size' = IF g_cluster_size < RAFT_MAX_NODES - 1 THEN g_cluster_size + 1
                                                                ELSE g_cluster_size
    /\ match_idx' = [match_idx EXCEPT ![n] = 0]
    /\ members' = members \cup {n}
    /\ orderly' = (orderly /\ n # Me /\ n \notin members)
    /\ received' = [received EXCEPT ![n] = 0]
    /\ UNCHANGED <<roleVars, log, commit_idx>>

Bug_KeepsMatch(n) ==
    /\ g_cluster_size' = IF g_cluster_size < RAFT_MAX_NODES THEN g_cluster_size + 1
                                                            ELSE g_cluster_size
    /\ members' = members \cup {n}
    /\ orderly' = (orderly /\ n # Me /\ n \notin members)
    /\ received' = [received EXCEPT ![n] = 0]
    /\ UNCHANGED <<roleVars, log, commit_idx, match_idx>>

\* Nobody checks whether n is a member already, or the node itself.
raft_add_node(n) ==
    /\ g_cluster_size' = IF g_cluster_size < RAFT_MAX_NODES THEN g_cluster_size + 1
                                                            ELSE g_cluster_size
    /\ match_idx' = [match_idx EXCEPT ![n] = 0]
    /\ members' = members \cup {n}
    /\ orderly' = (orderly /\ n # Me /\ n \notin members)
    /\ received' = [received EXCEPT ![n] = 0]
    /\ UNCHANGED <<roleVars, log, commit_idx>>

Bug_NoFloor(n) ==
    /\ g_cluster_size' = g_cluster_size - 1
    /\ members' = members \ {n}
    /\ orderly' = (orderly /\ n \in members)
    /\ UNCHANGED <<roleVars, log, commit_idx, match_idx, received>>

\* What n acknowledged stays.
raft_remove_node(n) ==
    /\ g_cluster_size' = IF g_cluster_size > 1 THEN g_cluster_size - 1 ELSE g_cluster_size
    /\ members' = members \ {n}
    /\ orderly' = (orderly /\ n \in members)
    /\ UNCHANGED <<roleVars, log, commit_idx, match_idx, received>>

raft_append_entry ==
    /\ state = "leader"
    /\ Len(log) < RAFT_MAX_LOG_ENTRIES
    /\ log' = Append(log, term)
    /\ UNCHANGED <<memberVars, roleVars, commit_idx, match_idx, received>>

-----------------------------------------------------------------------------
(* Elections *)

\* raft_tick finds the election timer run out.
StartElection ==
    /\ state # "leader"
    /\ term < MaxTerm
    /\ state' = "candidate"
    /\ term' = term + 1
    /\ votes' = 1
    /\ UNCHANGED <<memberVars, log, commit_idx, match_idx, received>>

\* The vote that makes a majority of the present cluster size.
BecomeLeader ==
    /\ state' = "leader"
    /\ match_idx' = Nothing
    /\ received' = Nothing

\* raft_handle_vote_response with a vote.
CountVote ==
    /\ state = "candidate"
    /\ votes' = votes + 1
    /\ \/ Majority(votes + 1) /\ BecomeLeader
       \/ ~Majority(votes + 1) /\ UNCHANGED <<state, match_idx, received>>
    /\ UNCHANGED <<memberVars, term, log, commit_idx>>

\* A datagram of a newer term, or a request of a leader of this one, which may
\* also carry a commit index.  The log stays, as no request of this program carries a
\* record its receiver would store (EntryIsCopied of ChronosRaft).
Follow(t) ==
    /\ t >= term
    /\ state' = "follower"
    /\ term' = t
    /\ \E c \in commit_idx..Len(log) : commit_idx' = c
    /\ UNCHANGED <<memberVars, votes, log, match_idx, received>>

-----------------------------------------------------------------------------
(* Commits *)

\* raft_handle_append_response with success: any node may answer, member or not, and
\* neither the term of the answer nor the time it was sent is looked at.
raft_handle_append_response(n, match_index) ==
    /\ state = "leader"
    /\ match_idx' = [match_idx EXCEPT ![n] = match_index]
    /\ received' = [received EXCEPT ![n] = IF @ < match_index THEN match_index ELSE @]
    /\ UNCHANGED <<memberVars, roleVars, log, commit_idx>>

\* The scan of match_idx, over all slots, removed nodes' too.
CountedFor(k) == {Me} \cup {n \in Node \ {Me} : match_idx[n] >= k}

Committable ==
    {k \in (commit_idx + 1)..Len(log) :
        log[k] = term /\ Majority(Cardinality(CountedFor(k)))}

\* raft_tick of a leader commits the last record that qualifies.
AdvanceCommit ==
    /\ state = "leader"
    /\ commit_idx' \in Committable
    /\ \A k \in Committable : k <= commit_idx'
    /\ UNCHANGED <<memberVars, roleVars, log, match_idx, received>>

-----------------------------------------------------------------------------
Next ==
    \/ raft_init
    \/ \E n \in Node : raft_add_node(n) \/ raft_remove_node(n)
    \/ raft_append_entry
    \/ StartElection
    \/ CountVote
    \/ \E t \in 0..MaxTerm : Follow(t)
    \/ \E n \in Node \ {Me}, m \in 0..RAFT_MAX_LOG_ENTRIES : raft_handle_append_response(n, m)
    \/ AdvanceCommit

Spec == Init /\ [][Next]_vars

-----------------------------------------------------------------------------
(* Properties *)

\* The size keeps between one and RAFT_MAX_NODES whatever is called, and with it
\* the votes of a candidate stay far below the width of their counter.
MembershipTypeOK ==
    /\ g_cluster_size \in 1..RAFT_MAX_NODES
    /\ state \in {"follower", "candidate", "leader"}
    /\ term \in 0..MaxTerm
    /\ votes \in 0..(RAFT_MAX_NODES \div 2 + 1)
    /\ log \in Seq(0..MaxTerm)
    /\ commit_idx \in 0..Len(log)
    /\ match_idx \in [Node -> Nat]
    /\ members \subseteq Node
    /\ orderly \in BOOLEAN
    /\ received \in [Node -> Nat]

\* The size is a plain counter that stops at both ends, and yet it counts the
\* cluster for an application that adds and removes in an orderly way: it never
\* needs the stops.
SizeCountsMembers ==
    orderly => Me \notin members /\ g_cluster_size = Cardinality(members) + 1

\* match_idx outlives both removal and defeat, but what a leader commits rests on
\* acknowledgements it took in its present office and, from a node that was added
\* again, since that: as many as a majority of the present cluster size.  They may
\* have been sent earlier, and by nodes that were removed since, which is less than
\* raft.c:350-352 asks for ("replicated on a majority").
CommitsOnReceivedAcks ==
    [][state = "leader" /\ state' = "leader" /\ commit_idx < commit_idx' =>
        Majority(Cardinality({Me} \cup {n \in Node \ {Me} : received[n] >= commit_idx'}))]_vars

=============================================================================
