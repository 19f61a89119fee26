----------------------------- MODULE ChronosRaft -----------------------------
(***************************************************************************)
(* A cluster of CHRONOS nodes: the consensus engine of core/raft.c, the    *)
(* callbacks and main loop of core/main.c that drive it, and the datagram  *)
(* service of core/network.c between the nodes.                            *)
(*                                                                         *)
(* Each node is one single-threaded process.  Its main loop runs raft_tick,*)
(* then drains the socket (each datagram runs one handler to completion),  *)
(* then possibly appends a demo entry; handlers are therefore atomic, and  *)
(* the interleaving is between nodes and with the network.                 *)
(*                                                                         *)
(* Time is abstracted: whether a timer has expired when raft_tick looks at *)
(* it is a nondeterministic choice.  Every node holds its own copy of the  *)
(* file-scope struct g_raft; field x of node n is written x[n].            *)
(***************************************************************************)
EXTENDS Integers, Sequences, FiniteSets

CONSTANTS
    Server,               \* the ids of the demo cluster (main.c demo_cluster)
    Nobody,               \* voted_for = -1 and leader_id = 0
    RAFT_MAX_LOG_ENTRIES, \* capacity of g_raft.log
    Duplicates,           \* may the network deliver a datagram twice?
    Lossy,                \* may the network lose a datagram?
    MaxTerm,              \* BOUND: no election starts a term above this one
    MaxInFlight,          \* BOUND: datagrams in flight
    MaxRestarts           \* BOUND: processes killed and started again

ASSUME ServerAssumption == IsFiniteSet(Server) /\ Nobody \notin Server
ASSUME CapacityAssumption == RAFT_MAX_LOG_ENTRIES \in Nat
ASSUME NetworkAssumption == Duplicates \in BOOLEAN /\ Lossy \in BOOLEAN
ASSUME BoundAssumption ==
    /\ MaxTerm \in Nat
    /\ MaxInFlight \in Nat
    /\ MaxRestarts \in Nat

VARIABLES
    pc,           \* main loop: "tick" when raft_tick must come next, else "poll"
    term, voted_for, log, state, commit_idx, last_applied, leader_id,
    next_idx, match_idx, votes,
    applied,      \* the entries handed to the commit callback, in order
    net,          \* datagrams sent and not yet received
    cast,         \* history: every vote given, <<voter, candidate, term>>
    elected,      \* history: every election won, <<leader, term>>
    restarts      \* how many restarts there were (for MaxRestarts)

voteVars    == <<term, voted_for, state, votes>>
logVars     == <<log, commit_idx>>
applyVars   == <<last_applied, applied>>
leaderVars  == <<next_idx, match_idx>>
historyVars == <<cast, elected>>
vars == <<pc, voteVars, logVars, applyVars, leader_id, leaderVars, net, historyVars, restarts>>

\* Each operator named Bug_... is a slip someone could make in the definition
\* that follows it.  No action uses it: it is there to be put in the place of
\* that definition, to see which property notices.

-----------------------------------------------------------------------------
(* Data *)

RAFT_FOLLOWER  == "follower"
RAFT_CANDIDATE == "candidate"
RAFT_LEADER    == "leader"
RaftState_t == {RAFT_FOLLOWER, RAFT_CANDIDATE, RAFT_LEADER}

\* A log record.  Its payload (the demo entry) is abstracted to the node that
\* created it: that is all the properties need to tell two payloads apart.
RaftLogEntry_t == [term : Nat, index : Nat, data : Server]

\* A datagram is the payload struct together with the two header fields the
\* callbacks use.  candidate_id and leader_id always equal src, so they are
\* not repeated; entry is << >>, or <<e>> when entry_len says that e is attached.
VoteRequest_t ==
    [type : {"VoteRequest"}, src : Server, dst : Server, term : Nat,
     last_log_index : Nat, last_log_term : Nat]
VoteResponse_t ==
    [type : {"VoteResponse"}, src : Server, dst : Server, term : Nat,
     vote_granted : BOOLEAN]
AppendEntriesRequest_t ==
    [type : {"AppendRequest"}, src : Server, dst : Server, term : Nat,
     prev_log_index : Nat, prev_log_term : Nat, leader_commit : Nat,
     entry : Seq(RaftLogEntry_t)]
AppendEntriesResponse_t ==
    [type : {"AppendResponse"}, src : Server, dst : Server, term : Nat,
     success : BOOLEAN, match_index : Nat]
Message == VoteRequest_t \cup VoteResponse_t
              \cup AppendEntriesRequest_t \cup AppendEntriesResponse_t

\* The term of the last record of a log, 0 for an empty log.
LastTerm(lg) == IF Len(lg) > 0 THEN lg[Len(lg)].term ELSE 0

\* g_cluster_size: raft_init sets 1, register_demo_cluster adds every other node.
g_cluster_size == Cardinality(Server)

Peers(n) == Server \ {n}

-----------------------------------------------------------------------------
(* The datagram service *)

\* What is left in the network once m has been received.
AfterReceiving(m) == {net \ {m}} \cup (IF Duplicates THEN {net} ELSE {})

\* BOUND: with at most MaxInFlight datagrams on their way.
Uncongested == Cardinality(net') <= MaxInFlight

\* Hand packets to the network, where inTransit is already under way.  Each
\* sendto may fail on its own and each packet may be lost; UDP neither orders
\* packets nor reports the loss.  The excess over MaxInFlight is lost; where
\* nothing is lost, a handler may exceed it and only a node that sends on its own
\* account (a tick, a new record) waits.
Transmit(inTransit, packets) ==
    \E arriving \in SUBSET packets :
        /\ Lossy \/ arriving = packets
        /\ net' = inTransit \cup arriving
        /\ Lossy => Uncongested

\* broadcast_vote_request, for the term t that n has just started.
VoteRequests(n, t) ==
    {[type |-> "VoteRequest", src |-> n, dst |-> p, term |-> t,
      last_log_index |-> Len(log[n]), last_log_term |-> LastTerm(log[n])] :
        p \in Peers(n)}

\* broadcast_append_entries: lg is n's log at the time of the call and entry
\* the attached record, << >> for a heartbeat.
AppendRequests(n, lg, entry) ==
    {[type |-> "AppendRequest", src |-> n, dst |-> p, term |-> term[n],
      prev_log_index |-> Len(lg), prev_log_term |-> LastTerm(lg),
      leader_commit |-> commit_idx[n], entry |-> entry] : p \in Peers(n)}

-----------------------------------------------------------------------------
(* Start of a node: raft_init, then register_demo_cluster *)

InitialNext(n) == [p \in Server |-> IF p = n THEN 0 ELSE 1]

Init ==
    /\ pc = [n \in Server |-> "tick"]
    /\ term = [n \in Server |-> 0]
    /\ voted_for = [n \in Server |-> Nobody]
    /\ log = [n \in Server |-> << >>]
    /\ state = [n \in Server |-> RAFT_FOLLOWER]
    /\ commit_idx = [n \in Server |-> 0]
    /\ last_applied = [n \in Server |-> 0]
    /\ leader_id = [n \in Server |-> Nobody]
    /\ next_idx = [n \in Server |-> InitialNext(n)]
    /\ match_idx = [n \in Server |-> [p \in Server |-> 0]]
    /\ votes = [n \in Server |-> 0]
    /\ applied = [n \in Server |-> << >>]
    /\ net = {}
    /\ cast = {}
    /\ elected = {}
    /\ restarts = 0

-----------------------------------------------------------------------------
(* raft_tick, which starts an iteration of the main loop.  A node that is      *)
(* polling gets here when maybe_append_demo_entry has found nothing to do: it *)
(* is not the leader, the last entry is too recent, or the log is full.       *)

Bug_AckedByOneShort(n, k) == {n} \cup {p \in Peers(n) : match_idx[n][p] + 1 >= k}

\* The nodes n counts as holding record k: itself, and every peer whose last
\* successful acknowledgement reached k.
AckedBy(n, k) == {n} \cup {p \in Peers(n) : match_idx[n][p] >= k}

Bug_MajorityPlusOne(count) == count > (g_cluster_size \div 2) + 1

Majority(count) == count > g_cluster_size \div 2

\* The records the commit scan may stop at.  The scan goes down from the end of
\* the log, skips records of older terms and stops at the first that qualifies.
Committable(n) ==
    {k \in (commit_idx[n] + 1)..Len(log[n]) :
        /\ log[n][k].term = term[n]
        /\ Majority(Cardinality(AckedBy(n, k)))}

Bug_ApplyAgain(n, c) ==
    /\ applied' = [applied EXCEPT ![n] = @ \o SubSeq(log[n], last_applied[n] + 1, c)]
    /\ UNCHANGED last_applied

\* The loop at the end of raft_tick: everything up to commit index c that was
\* not applied yet goes to the commit callback, in order.
ApplyUpTo(n, c) ==
    /\ applied' = [applied EXCEPT ![n] = @ \o SubSeq(log[n], last_applied[n] + 1, c)]
    /\ last_applied' = [last_applied EXCEPT ![n] = IF @ < c THEN c ELSE @]

Bug_ApplyBeforeCommit(n) ==
    /\ state[n] = RAFT_LEADER
    /\ \/ net' = net
       \/ Transmit(net, AppendRequests(n, log[n], << >>)) /\ Uncongested
    /\ ApplyUpTo(n, commit_idx[n])
    /\ \E c \in {commit_idx[n]} \cup Committable(n) :
        /\ \A k \in Committable(n) : k <= c
        /\ commit_idx' = [commit_idx EXCEPT ![n] = c]
    /\ UNCHANGED <<voteVars, log, historyVars>>

\* Tick of a leader.  The heartbeat, when it is due, goes out before the commit
\* index advances and so carries the old one.
TickLeader(n) ==
    /\ state[n] = RAFT_LEADER
    /\ \/ net' = net
       \/ Transmit(net, AppendRequests(n, log[n], << >>)) /\ Uncongested
    /\ \E c \in {commit_idx[n]} \cup Committable(n) :
        /\ \A k \in Committable(n) : k <= c
        /\ commit_idx' = [commit_idx EXCEPT ![n] = c]
        /\ ApplyUpTo(n, c)
    /\ UNCHANGED <<voteVars, log, historyVars>>

\* Tick of a follower or candidate whose election timer has expired.
TickElection(n) ==
    /\ state[n] # RAFT_LEADER
    /\ term[n] < MaxTerm
    /\ state' = [state EXCEPT ![n] = RAFT_CANDIDATE]
    /\ term' = [term EXCEPT ![n] = @ + 1]
    /\ voted_for' = [voted_for EXCEPT ![n] = n]
    /\ votes' = [votes EXCEPT ![n] = 1]
    /\ cast' = cast \cup {<<n, n, term[n] + 1>>}
    /\ Transmit(net, VoteRequests(n, term[n] + 1)) /\ Uncongested
    /\ ApplyUpTo(n, commit_idx[n])
    /\ UNCHANGED <<logVars, elected>>

\* Tick of a follower or candidate whose election timer is still running.
TickIdle(n) ==
    /\ state[n] # RAFT_LEADER
    /\ ApplyUpTo(n, commit_idx[n])
    /\ UNCHANGED <<voteVars, logVars, net, historyVars>>

raft_tick(n) ==
    /\ TickLeader(n) \/ TickElection(n) \/ TickIdle(n)
    /\ pc' = [pc EXCEPT ![n] = "poll"]
    /\ UNCHANGED <<leader_id, leaderVars>>

-----------------------------------------------------------------------------
(* The message handlers, each run by comm_poll through its callback *)

\* A handler of node n reacts to datagram m addressed to it.
Receives(n, m, type) ==
    /\ pc[n] = "poll"
    /\ m.dst = n
    /\ m.type = type

Bug_LogMustBeLonger(n, m) ==
    \/ m.last_log_term > LastTerm(log[n])
    \/ /\ m.last_log_term = LastTerm(log[n])
       /\ m.last_log_index > Len(log[n])

\* The candidate's log is at least as up to date as n's.
LogOk(n, m) ==
    \/ m.last_log_term > LastTerm(log[n])
    \/ /\ m.last_log_term = LastTerm(log[n])
       /\ m.last_log_index >= Len(log[n])

Bug_SameTermIsNewer(n, m) == m.term >= term[n]

NewerTerm(n, m) == m.term > term[n]

Bug_VoteAgain(prior, candidate) == TRUE

\* The vote is free, or already the candidate's.
VoteIsFree(prior, candidate) == prior \in {Nobody, candidate}

\* The conditions of a vote, which is decided after a newer term has cleared the
\* earlier one.
GrantsVote(n, m) ==
    /\ m.term >= term[n]
    /\ VoteIsFree(IF NewerTerm(n, m) THEN Nobody ELSE voted_for[n], m.src)
    /\ LogOk(n, m)

\* raft_handle_vote_request.  A newer term makes the receiver a follower that
\* has not voted.
raft_handle_vote_request(n, m) ==
    /\ Receives(n, m, "VoteRequest")
    /\ LET newer == NewerTerm(n, m)
           t     == IF newer THEN m.term ELSE term[n]
           prior == IF newer THEN Nobody ELSE voted_for[n]
           grant == GrantsVote(n, m)
       IN  /\ state' = [state EXCEPT ![n] = IF newer THEN RAFT_FOLLOWER ELSE @]
           /\ term' = [term EXCEPT ![n] = t]
           /\ voted_for' = [voted_for EXCEPT ![n] = IF grant THEN m.src ELSE prior]
           /\ cast' = IF grant THEN cast \cup {<<n, m.src, t>>} ELSE cast
           /\ \E rest \in AfterReceiving(m) :
                Transmit(rest, {[type |-> "VoteResponse", src |-> n, dst |-> m.src,
                                 term |-> t, vote_granted |-> grant]})
    /\ UNCHANGED <<pc, votes, logVars, applyVars, leader_id, leaderVars, elected>>

\* Step down because a response carries a newer term.
StepDown(n, m) ==
    /\ NewerTerm(n, m)
    /\ state' = [state EXCEPT ![n] = RAFT_FOLLOWER]
    /\ term' = [term EXCEPT ![n] = m.term]
    /\ voted_for' = [voted_for EXCEPT ![n] = Nobody]
    /\ net' \in AfterReceiving(m)
    /\ UNCHANGED <<votes, leader_id, leaderVars, elected>>

\* The vote that makes the majority: the candidate becomes leader, resets its
\* view of the peers and broadcasts a first heartbeat.
BecomeLeader(n, m) ==
    /\ state' = [state EXCEPT ![n] = RAFT_LEADER]
    /\ leader_id' = [leader_id EXCEPT ![n] = n]
    /\ next_idx' = [next_idx EXCEPT ![n] = [p \in Server |-> Len(log[n]) + 1]]
    /\ match_idx' = [match_idx EXCEPT ![n] = [p \in Server |-> 0]]
    /\ elected' = elected \cup {<<n, term[n]>>}
    /\ \E rest \in AfterReceiving(m) : Transmit(rest, AppendRequests(n, log[n], << >>))

Bug_AnyAnswer(m) == TRUE

IsVote(m) == m.vote_granted

\* A granted vote is counted whoever sent it and whatever older term it is for.
CountVote(n, m) ==
    /\ ~NewerTerm(n, m)
    /\ IsVote(m)
    /\ votes' = [votes EXCEPT ![n] = @ + 1]
    /\ \/ /\ Majority(votes[n] + 1)
          /\ BecomeLeader(n, m)
       \/ /\ ~Majority(votes[n] + 1)
          /\ net' \in AfterReceiving(m)
          /\ UNCHANGED <<state, leader_id, leaderVars, elected>>
    /\ UNCHANGED <<term, voted_for>>

\* The response changes nothing: n is no candidate (any more), or the vote was
\* refused.
IgnoreVoteResponse(n, m) ==
    /\ state[n] # RAFT_CANDIDATE \/ (~NewerTerm(n, m) /\ ~m.vote_granted)
    /\ net' \in AfterReceiving(m)
    /\ UNCHANGED <<voteVars, leader_id, leaderVars, elected>>

raft_handle_vote_response(n, m) ==
    /\ Receives(n, m, "VoteResponse")
    /\ \/ state[n] = RAFT_CANDIDATE /\ (StepDown(n, m) \/ CountVote(n, m))
       \/ IgnoreVoteResponse(n, m)
    /\ UNCHANGED <<pc, logVars, applyVars, cast>>

\* The log check: n has a record at prev_log_index, of the term the leader says.
PrevMatches(n, m) ==
    /\ m.prev_log_index <= Len(log[n])
    /\ m.prev_log_index > 0 => log[n][m.prev_log_index].term = m.prev_log_term

\* The attached record is stored only if it is the next one n needs.
StoresEntry(n, m) ==
    /\ m.entry # << >>
    /\ Len(log[n]) < RAFT_MAX_LOG_ENTRIES
    /\ m.entry[1].index = Len(log[n]) + 1

AppendResponse(n, m, t, ok, match) ==
    [type |-> "AppendResponse", src |-> n, dst |-> m.src, term |-> t,
     success |-> ok, match_index |-> match]

\* "A newer or equal term means the sender is the current leader."
CurrentLeader(n, m) == m.term >= term[n]

\* A request of an older term is refused and changes nothing.
RejectStaleLeader(n, m) ==
    /\ m.term < term[n]
    /\ \E rest \in AfterReceiving(m) :
        Transmit(rest, {AppendResponse(n, m, term[n], FALSE, Len(log[n]))})
    /\ UNCHANGED <<voteVars, logVars, leader_id>>

Bug_LeaderIdNotKept(n, m) ==
    /\ CurrentLeader(n, m)
    /\ state' = [state EXCEPT ![n] = RAFT_FOLLOWER]
    /\ term' = [term EXCEPT ![n] = m.term]
    /\ voted_for' = [voted_for EXCEPT ![n] = Nobody]
    /\ UNCHANGED <<leader_id, votes>>

\* A request of n's term or a newer one: n follows its sender and forgets its
\* vote, even when the term is the one it voted in.
FollowLeader(n, m) ==
    /\ CurrentLeader(n, m)
    /\ state' = [state EXCEPT ![n] = RAFT_FOLLOWER]
    /\ term' = [term EXCEPT ![n] = m.term]
    /\ leader_id' = [leader_id EXCEPT ![n] = m.src]
    /\ voted_for' = [voted_for EXCEPT ![n] = Nobody]
    /\ UNCHANGED votes

\* ... and its log does not match what the leader refers to.
RejectPrev(n, m) ==
    /\ ~PrevMatches(n, m)
    /\ \E rest \in AfterReceiving(m) :
        Transmit(rest, {AppendResponse(n, m, m.term, FALSE, Len(log[n]))})
    /\ UNCHANGED logVars

Bug_FollowAnyCommit(own, leader, len) == IF leader < len THEN leader ELSE len

\* The follower's commit index after the leader's, in a log of length len.
FollowCommit(own, leader, len) ==
    IF leader <= own THEN own ELSE IF leader < len THEN leader ELSE len

\* ... and its log matches: store the record if it is the next one, follow the
\* leader's commit index, and acknowledge the full length of the log.
AcceptPrev(n, m) ==
    /\ PrevMatches(n, m)
    /\ log' = [log EXCEPT ![n] = IF StoresEntry(n, m) THEN Append(@, m.entry[1]) ELSE @]
    /\ LET len == Len(log'[n])
       IN  /\ commit_idx' = [commit_idx EXCEPT ![n] = FollowCommit(@, m.leader_commit, len)]
           /\ \E rest \in AfterReceiving(m) :
                Transmit(rest, {AppendResponse(n, m, m.term, TRUE, len)})

raft_handle_append_entries(n, m) ==
    /\ Receives(n, m, "AppendRequest")
    /\ \/ RejectStaleLeader(n, m)
       \/ FollowLeader(n, m) /\ (RejectPrev(n, m) \/ AcceptPrev(n, m))
    /\ UNCHANGED <<pc, applyVars, leaderVars, historyVars>>

Bug_BackUpNoFloor(i) == i - 1

BackUp(i) == IF i > 1 THEN i - 1 ELSE i

\* A leader notes how far the sender's log reaches, or backs next_idx up.
\* Nothing reads next_idx again.
NoteMatch(n, m) ==
    /\ ~NewerTerm(n, m)
    /\ IF m.success
       THEN /\ match_idx' = [match_idx EXCEPT ![n][m.src] = m.match_index]
            /\ next_idx' = [next_idx EXCEPT ![n][m.src] = m.match_index + 1]
       ELSE /\ next_idx' = [next_idx EXCEPT ![n][m.src] = BackUp(@)]
            /\ UNCHANGED match_idx
    /\ net' \in AfterReceiving(m)
    /\ UNCHANGED <<voteVars, leader_id, elected>>

IgnoreAppendResponse(n, m) ==
    /\ net' \in AfterReceiving(m)
    /\ UNCHANGED <<voteVars, leader_id, leaderVars, elected>>

raft_handle_append_response(n, m) ==
    /\ Receives(n, m, "AppendResponse")
    /\ \/ state[n] = RAFT_LEADER /\ (StepDown(n, m) \/ NoteMatch(n, m))
       \/ state[n] # RAFT_LEADER /\ IgnoreAppendResponse(n, m)
    /\ UNCHANGED <<pc, logVars, applyVars, cast>>

-----------------------------------------------------------------------------
(* The end of an iteration of the main loop *)

Bug_EntryIndexFromZero(n) == [term |-> term[n], index |-> Len(log[n]), data |-> n]

NewEntry(n) == [term |-> term[n], index |-> Len(log[n]) + 1, data |-> n]

\* maybe_append_demo_entry on a leader, five seconds or more after its last
\* entry: raft_append_entry stores the record, then broadcasts it.  The request
\* is built after the record is in the log.
raft_append_entry(n) ==
    /\ pc[n] = "poll"
    /\ state[n] = RAFT_LEADER
    /\ Len(log[n]) < RAFT_MAX_LOG_ENTRIES
    /\ LET lg == Append(log[n], NewEntry(n))
       IN  /\ log' = [log EXCEPT ![n] = lg]
           /\ Transmit(net, AppendRequests(n, lg, <<NewEntry(n)>>)) /\ Uncongested
    /\ pc' = [pc EXCEPT ![n] = "tick"]
    /\ UNCHANGED <<voteVars, commit_idx, applyVars, leader_id, leaderVars, historyVars>>

-----------------------------------------------------------------------------
(* A process is killed and started again: nothing is kept on disk *)

Bug_JournalKeepsCommit(n) ==
    /\ log' = [log EXCEPT ![n] = << >>]
    /\ last_applied' = [last_applied EXCEPT ![n] = 0]
    /\ applied' = [applied EXCEPT ![n] = << >>]
    /\ UNCHANGED commit_idx

ResetJournal(n) ==
    /\ log' = [log EXCEPT ![n] = << >>]
    /\ commit_idx' = [commit_idx EXCEPT ![n] = 0]
    /\ last_applied' = [last_applied EXCEPT ![n] = 0]
    /\ applied' = [applied EXCEPT ![n] = << >>]

Bug_RoleSurvives(n) ==
    /\ term' = [term EXCEPT ![n] = 0]
    /\ voted_for' = [voted_for EXCEPT ![n] = Nobody]
    /\ votes' = [votes EXCEPT ![n] = 0]
    /\ leader_id' = [leader_id EXCEPT ![n] = Nobody]
    /\ UNCHANGED state

ResetRole(n) ==
    /\ state' = [state EXCEPT ![n] = RAFT_FOLLOWER]
    /\ term' = [term EXCEPT ![n] = 0]
    /\ voted_for' = [voted_for EXCEPT ![n] = Nobody]
    /\ votes' = [votes EXCEPT ![n] = 0]
    /\ leader_id' = [leader_id EXCEPT ![n] = Nobody]

Restart(n) ==
    /\ restarts < MaxRestarts
    /\ restarts' = restarts + 1
    /\ pc' = [pc EXCEPT ![n] = "tick"]
    /\ ResetRole(n)
    /\ ResetJournal(n)
    /\ next_idx' = [next_idx EXCEPT ![n] = InitialNext(n)]
    /\ match_idx' = [match_idx EXCEPT ![n] = [p \in Server |-> 0]]
    /\ UNCHANGED <<net, historyVars>>

-----------------------------------------------------------------------------
Handle(n, m) ==
    \/ raft_handle_vote_request(n, m)
    \/ raft_handle_vote_response(n, m)
    \/ raft_handle_append_entries(n, m)
    \/ raft_handle_append_response(n, m)

NodeStep(n) ==
    \/ raft_tick(n)
    \/ \E m \in net : Handle(n, m)
    \/ raft_append_entry(n)

Next == (\E n \in Server : NodeStep(n)) /\ UNCHANGED restarts

Spec == Init /\ [][Next]_vars

\* The same cluster when processes may also be killed and started again.
CrashNext == Next \/ \E n \in Server : Restart(n)
CrashSpec == Init /\ [][CrashNext]_vars

\* The main loop is a while (1): every node keeps ticking.  A heartbeat is due
\* sooner or later because nothing postpones its timer; an election timer is
\* never assumed to expire, for a leader's requests may postpone it for ever.
LoopFairness ==
    \A n \in Server : WF_vars(raft_tick(n) /\ UNCHANGED <<term, restarts>>)

\* Each iteration drains the socket: neither the votes nor the append traffic of
\* a sender waits for ever.
PollFairness ==
    \A n \in Server : \A s \in Peers(n) :
        \A types \in {{"VoteRequest", "VoteResponse"}, {"AppendRequest", "AppendResponse"}} :
            WF_vars(/\ \E m \in net : m.src = s /\ m.type \in types /\ Handle(n, m)
                    /\ UNCHANGED restarts)

FairSpec == Spec /\ LoopFairness /\ PollFairness

-----------------------------------------------------------------------------
(* Properties *)

\* Every variable keeps its type; next_idx in particular never goes below zero
\* (raft_handle_append_response backs it up on every refusal).
TypeOK ==
    /\ pc \in [Server -> {"tick", "poll"}]
    /\ term \in [Server -> Nat]
    /\ voted_for \in [Server -> Server \cup {Nobody}]
    /\ log \in [Server -> Seq(RaftLogEntry_t)]
    /\ state \in [Server -> RaftState_t]
    /\ commit_idx \in [Server -> Nat]
    /\ last_applied \in [Server -> Nat]
    /\ leader_id \in [Server -> Server \cup {Nobody}]
    /\ next_idx \in [Server -> [Server -> Nat]]
    /\ match_idx \in [Server -> [Server -> Nat]]
    /\ votes \in [Server -> Nat]
    /\ applied \in [Server -> Seq(RaftLogEntry_t)]
    /\ net \subseteq Message
    /\ cast \subseteq Server \X Server \X Nat
    /\ elected \subseteq Server \X Nat
    /\ restarts \in Nat

(* What holds of the code *)

\* raft_tick hands the application exactly the committed prefix of the log: the
\* records up to last_applied, each once and in order, and no commit index, own
\* or learned from a leader, points past the end of the log it indexes.
AppliedIsPrefix ==
    \A n \in Server :
        /\ last_applied[n] <= commit_idx[n]
        /\ commit_idx[n] <= Len(log[n])
        /\ applied[n] = SubSeq(log[n], 1, last_applied[n])

\* Records sit at the position they name, and their terms never decrease along
\* the log nor exceed the node's own: what the log checks of the vote and append
\* handlers take for granted.
LogWellFormed ==
    \A n \in Server : \A i \in DOMAIN log[n] :
        /\ log[n][i].index = i
        /\ log[n][i].term <= term[n]
        /\ \A j \in 1..i : log[n][j].term <= log[n][i].term

\* A leader won an election of the term it leads, and the leader a node believes
\* in won one of a term the node has reached.
LeadersWereElected ==
    \A n \in Server :
        /\ state[n] = RAFT_LEADER => <<n, term[n]>> \in elected
        /\ leader_id[n] # Nobody =>
              \E t \in 0..term[n] : <<leader_id[n], t>> \in elected

\* The append handler forgets the vote, so a node can vote for two candidates of
\* a term; but only once somebody has won that term.
SecondVoteNeedsLeader ==
    \A b, d \in cast :
        b[1] = d[1] /\ b[3] = d[3] /\ b[2] # d[2] => \E e \in elected : e[2] = b[3]

\* Whatever the network repeats or delivers late, and whoever lost its memory, no
\* node leads on its own vote alone: a leader holds the vote of another node, of
\* its term or an earlier one.
LeadersHaveSupport ==
    \A e \in elected :
        \E b \in cast : b[2] = e[1] /\ b[1] # e[1] /\ b[3] <= e[2]

\* A committed index is backed by a majority of logs that reach it (which records
\* they hold there is another matter), as long as nobody loses a log.
CommitsAreBacked ==
    \A n \in Server : \A k \in 1..commit_idx[n] :
        Majority(Cardinality({p \in Server : Len(log[p]) >= k}))

\* A candidate counts a vote only if somebody gave it one, in its term or an
\* earlier one, when the network duplicates nothing.
VotesWereCast ==
    \A n \in Server :
        votes[n] <= Cardinality({b \in cast : b[2] = n /\ b[3] <= term[n]})

\* "If a majority is reached, the node becomes leader" (raft.c:486): no candidate
\* holds more than half of the cluster's votes.
CandidateLacksMajority ==
    \A n \in Server : state[n] = RAFT_CANDIDATE => 2 * votes[n] <= g_cluster_size

\* No step but a restart moves a node back: its term and commit index never fall
\* (raft.c:638, 465), and its log and the records it applied only grow at the end,
\* in whatever order and however often the datagrams arrive.
NeverBack ==
    [][restarts' = restarts => \A n \in Server :
        /\ term[n] <= term'[n]
        /\ commit_idx[n] <= commit_idx'[n]
        /\ Len(log[n]) <= Len(log'[n])
        /\ log[n] = SubSeq(log'[n], 1, Len(log[n]))
        /\ Len(applied[n]) <= Len(applied'[n])
        /\ applied[n] = SubSeq(applied'[n], 1, Len(applied[n]))]_vars

\* No tick leaves a committed record behind: the application has every record up
\* to the commit index, whatever the role of the node.
TickAppliesAll ==
    [][\A n \in Server :
        raft_tick(n) => Len(applied'[n]) = commit_idx'[n]]_vars

\* A leader gives up only for a newer term, or for another node that won its own.
LeaderYieldsForCause ==
    [][\A n \in Server :
        state[n] = RAFT_LEADER /\ state'[n] # RAFT_LEADER =>
            \/ term[n] < term'[n]
            \/ \E l \in Peers(n) : <<l, term[n]>> \in elected]_vars

\* An election nobody contests ends: when every datagram arrives, a candidate
\* leads or gives up, unless another node is a candidate or leader as well or has
\* a log that is ahead of the candidate's.
ElectionCompletes ==
    \A n \in Server :
        (state[n] = RAFT_CANDIDATE) ~>
            \/ state[n] # RAFT_CANDIDATE
            \/ \E p \in Peers(n) :
                  \/ state[p] # RAFT_FOLLOWER
                  \/ LastTerm(log[p]) > LastTerm(log[n])
                  \/ LastTerm(log[p]) = LastTerm(log[n]) /\ Len(log[p]) > Len(log[n])

\* A new leader makes itself known: every peer comes to follow it, unless its
\* leadership ends or the peer has reached a newer term.
LeaderBecomesKnown ==
    \A n, p \in Server :
        (state[n] = RAFT_LEADER /\ p # n) ~>
            (leader_id[p] = n \/ state[n] # RAFT_LEADER \/ term[p] > term[n])

\* What the application of each node can rely on: a journal that only grows, by one
\* record at the position the record names, and is delivered in order; a crash
\* empties the journal and restarts the stream.
Journals ==
    INSTANCE LocalJournals WITH Node <- Server, Capacity <- RAFT_MAX_LOG_ENTRIES,
                                journal <- log, delivered <- applied
KeepsLocalJournals == Journals!Spec

-----------------------------------------------------------------------------
(* What the comments of the code promise and the code does not keep *)

\* raft.c:580: a request of the same term "means the sender is the current
\* leader", which needs a term to have one leader.
OneLeaderPerTerm ==
    \A a, b \in elected : a[2] = b[2] => a[1] = b[1]

\* raft.c:485-486: "Candidates count granted votes. If a majority is reached, the
\* node becomes leader": whoever leads was chosen by a majority of the cluster.
LeaderHasQuorum ==
    \A e \in elected :
        Majority(Cardinality({v \in Server : <<v, e[1], e[2]>> \in cast}))

\* raft.c:350-352: an entry is committed when it "is replicated on a majority".
CommittedIsReplicated ==
    \A n \in Server : \A k \in 1..commit_idx[n] :
        Majority(Cardinality({p \in Server : k \in DOMAIN log[p] /\ log[p][k] = log[n][k]}))

\* raft.c:618-620: "If the packet carries a log entry, copy it into the follower
\* log."  A follower that accepts the sender as its leader, has room and holds
\* exactly the records in front of the new one has it afterwards.
EntryIsCopied ==
    [][\A n \in Server : \A m \in net :
        /\ raft_handle_append_entries(n, m)
        /\ CurrentLeader(n, m)
        /\ StoresEntry(n, m)
        /\ log[n] = SubSeq(log[m.src], 1, Len(log[n]))
        => log'[n] = Append(log[n], m.entry[1])]_vars

=============================================================================
