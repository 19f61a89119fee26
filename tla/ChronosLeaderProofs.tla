------------------------- MODULE ChronosLeaderProofs -------------------------
(***************************************************************************)
(* Who leads, whose records a log holds, and what the votes amount to.     *)
(* The argument about leaders runs through the append requests: only a     *)
(* node that won the request's term sends one, and one that carries a      *)
(* record names that very record as the one before it, so that no receiver *)
(* ever stores it.  The argument about votes runs through the granted      *)
(* responses: each stands for a vote its sender gave, so what is counted   *)
(* was cast, and a majority of one term is a majority of the cluster unless*)
(* a vote of an earlier term is in it.  The rest is what a commit index    *)
(* rests on, as long as nobody loses a log, and what the logs are for the  *)
(* applications: journals of their own nodes.                              *)
(***************************************************************************)
EXTENDS ChronosRaftProofs

\* What the append requests in flight say.
RequestsFromLeaders ==
    \A m \in net :
        m.type = "AppendRequest" =>
            /\ m.src # m.dst
            /\ <<m.src, m.term>> \in elected
            /\ m.entry # << >> => m.prev_log_index = m.entry[1].index

\* The fault behind EntryIsCopied, as an invariant: every log holds only what its
\* own node wrote while it led.  No part of the code promises this; the proofs
\* below need it, since it says what the logs of this code can contain.
EntriesStayWithAuthor ==
    \A n \in Server : \A i \in DOMAIN log[n] :
        /\ log[n][i].data = n
        /\ <<n, log[n][i].term>> \in elected

Led == LeadersWereElected /\ EntriesStayWithAuthor /\ RequestsFromLeaders

-----------------------------------------------------------------------------
(* Requests *)

\* Steps that send no append request.
LEMMA RequestsKept ==
    ASSUME RequestsFromLeaders, elected \subseteq elected',
           \A m \in net' : m.type = "AppendRequest" => m \in net
    PROVE  RequestsFromLeaders'
BY DEF RequestsFromLeaders

\* Taking a datagram out of the network.
LEMMA RequestsReceived ==
    ASSUME NEW m, net' \in AfterReceiving(m)
    PROVE  \A r \in net' : r.type = "AppendRequest" => r \in net
BY DEF AfterReceiving

\* Taking a datagram out of the network and answering it with something else.
LEMMA RequestsAnswered ==
    ASSUME NEW m, NEW answer, answer.type # "AppendRequest",
           NEW rest \in AfterReceiving(m), Transmit(rest, {answer})
    PROVE  \A r \in net' : r.type = "AppendRequest" => r \in net
BY DEF AfterReceiving, Transmit

\* A broadcast of append requests by a node that won its term.
LEMMA RequestsSent ==
    ASSUME RequestsFromLeaders, elected \subseteq elected',
           NEW n \in Server, NEW lg, NEW entry, <<n, term[n]>> \in elected',
           entry # << >> => entry[1].index = Len(lg),
           NEW rest \in SUBSET net, Transmit(rest, AppendRequests(n, lg, entry))
    PROVE  RequestsFromLeaders'
<1> SUFFICES ASSUME NEW m \in net', m.type = "AppendRequest"
             PROVE  /\ m.src # m.dst
                    /\ <<m.src, m.term>> \in elected'
                    /\ m.entry # << >> => m.prev_log_index = m.entry[1].index
  BY DEF RequestsFromLeaders
<1>1. m \in net \/ m \in AppendRequests(n, lg, entry)
  BY DEF Transmit
<1>2. CASE m \in net
  BY <1>2 DEF RequestsFromLeaders
<1>3. CASE m \in AppendRequests(n, lg, entry)
  <2>1. PICK p \in Peers(n) :
           m = [type |-> "AppendRequest", src |-> n, dst |-> p, term |-> term[n],
                prev_log_index |-> Len(lg), prev_log_term |-> LastTerm(lg),
                leader_commit |-> commit_idx[n], entry |-> entry]
    BY <1>3 DEF AppendRequests
  <2> QED  BY <2>1 DEF Peers
<1> QED  BY <1>1, <1>2, <1>3

-----------------------------------------------------------------------------
(* Frames: when the steps that do not touch a part leave it true *)

\* A node whose term does not fall keeps a leader it knows.
LEMMA LeadersKept ==
    ASSUME TypeOK, LeadersWereElected, elected \subseteq elected', NEW n \in Server,
           \A p \in Server \ {n} :
               state'[p] = state[p] /\ term'[p] = term[p] /\ leader_id'[p] = leader_id[p],
           state'[n] = RAFT_LEADER => <<n, term'[n]>> \in elected',
           term'[n] \in Nat,
           \/ leader_id'[n] = Nobody
           \/ leader_id'[n] = leader_id[n] /\ term[n] <= term'[n]
           \/ \E t \in 0..term'[n] : <<leader_id'[n], t>> \in elected'
    PROVE  LeadersWereElected'
<1> SUFFICES ASSUME NEW p \in Server
             PROVE  /\ state'[p] = RAFT_LEADER => <<p, term'[p]>> \in elected'
                    /\ leader_id'[p] # Nobody =>
                          \E t \in 0..term'[p] : <<leader_id'[p], t>> \in elected'
  BY DEF LeadersWereElected
<1>1. CASE p # n
  BY <1>1 DEF LeadersWereElected
<1>2. CASE p = n
  <2>1. CASE leader_id'[n] = leader_id[n] /\ term[n] <= term'[n] /\ leader_id[n] # Nobody
    <3>1. PICK t \in 0..term[n] : <<leader_id[n], t>> \in elected
      BY <2>1 DEF LeadersWereElected
    <3>2. t \in 0..term'[n]
      <4>1. term[n] \in Nat
        BY DEF TypeOK
      <4> QED  BY <2>1, <3>1, <4>1
    <3> QED  BY <1>2, <2>1, <3>1, <3>2
  <2> QED  BY <1>2, <2>1
<1> QED  BY <1>1, <1>2

\* Logs that are as they were keep their authors.
LEMMA AuthorsKept ==
    ASSUME EntriesStayWithAuthor, elected \subseteq elected', log' = log
    PROVE  EntriesStayWithAuthor'
BY DEF EntriesStayWithAuthor

-----------------------------------------------------------------------------
(* The steps *)

LEMMA InitLed ==
    ASSUME Init
    PROVE  Led
<1>1. DOMAIN << >> = {}
  BY EmptySeq
<1> QED  BY <1>1 DEF Init, Led, LeadersWereElected, EntriesStayWithAuthor, RequestsFromLeaders,
                     RAFT_FOLLOWER, RAFT_LEADER

LEMMA TickLed ==
    ASSUME Typed, Led, NEW n \in Server, raft_tick(n)
    PROVE  Led'
<1> USE DEF Led
<1>0. TypeOK /\ leader_id' = leader_id /\ term[n] \in Nat
  BY DEF Typed, TypeOK, raft_tick
<1>1. CASE TickLeader(n)
  <2>1. UNCHANGED <<state, term, elected, log>>
    BY <1>1 DEF TickLeader, voteVars, historyVars
  <2>2. LeadersWereElected' /\ EntriesStayWithAuthor'
    BY <1>0, <2>1 DEF LeadersWereElected, EntriesStayWithAuthor
  <2>3. CASE net' = net
    BY <2>1, <2>2, <2>3, RequestsKept
  <2>4. CASE Transmit(net, AppendRequests(n, log[n], << >>))
    <3>1. <<n, term[n]>> \in elected'
      BY <1>1, <2>1 DEF TickLeader, LeadersWereElected
    <3> QED  BY <2>1, <2>2, <2>4, <3>1, RequestsSent
  <2> QED  BY <1>1, <2>3, <2>4 DEF TickLeader
<1>2. CASE TickElection(n)
  <2>1. UNCHANGED <<elected, log>>
    BY <1>2 DEF TickElection, logVars
  <2>2. \A m \in net' : m.type = "AppendRequest" => m \in net
    BY <1>2 DEF TickElection, Transmit, VoteRequests
  <2>3. /\ \A p \in Server \ {n} : state'[p] = state[p] /\ term'[p] = term[p]
        /\ state'[n] = RAFT_CANDIDATE
        /\ term'[n] = term[n] + 1
    BY <1>0, <1>2 DEF TickElection, TypeOK
  <2>4. LeadersWereElected'
    <3>1. state'[n] # RAFT_LEADER
      BY <2>3 DEF RAFT_CANDIDATE, RAFT_LEADER
    <3>2. term'[n] \in Nat /\ term[n] <= term'[n]
      BY <1>0, <2>3
    <3> QED  BY <1>0, <2>1, <2>3, <3>1, <3>2, LeadersKept
  <2> QED  BY <2>1, <2>2, <2>4, RequestsKept, AuthorsKept
<1>3. CASE TickIdle(n)
  BY <1>0, <1>3 DEF TickIdle, voteVars, historyVars, logVars,
                    LeadersWereElected, EntriesStayWithAuthor, RequestsFromLeaders
<1> QED  BY <1>1, <1>2, <1>3 DEF raft_tick

LEMMA VoteRequestLed ==
    ASSUME Typed, Led, NEW n \in Server, NEW m \in net, raft_handle_vote_request(n, m)
    PROVE  Led'
<1> USE DEF Led
<1>0. /\ TypeOK
      /\ UNCHANGED <<leader_id, elected, log>>
      /\ term[n] \in Nat /\ m.term \in Nat
  BY MessageFields DEF Typed, TypeOK, raft_handle_vote_request, GrantsVote, logVars
<1>1. \A r \in net' : r.type = "AppendRequest" => r \in net
  BY RequestsAnswered DEF raft_handle_vote_request
<1>2. /\ \A p \in Server \ {n} : state'[p] = state[p] /\ term'[p] = term[p]
      /\ term'[n] = IF NewerTerm(n, m) THEN m.term ELSE term[n]
      /\ state'[n] = IF NewerTerm(n, m) THEN RAFT_FOLLOWER ELSE state[n]
  BY <1>0 DEF raft_handle_vote_request, TypeOK
<1>3. LeadersWereElected'
  <2>1. term'[n] \in Nat /\ term[n] <= term'[n]
    BY <1>0, <1>2 DEF NewerTerm
  <2>2. state'[n] = RAFT_LEADER => <<n, term'[n]>> \in elected'
    BY <1>0, <1>2 DEF LeadersWereElected, RAFT_FOLLOWER, RAFT_LEADER
  <2> QED  BY <1>0, <1>2, <2>1, <2>2, LeadersKept
<1> QED  BY <1>0, <1>1, <1>3, RequestsKept, AuthorsKept

\* A leader or candidate that steps down.
LEMMA StepDownLed ==
    ASSUME TypeOK, Led, NEW n \in Server, NEW m \in net, StepDown(n, m), log' = log
    PROVE  Led'
<1> USE DEF Led
<1>0. /\ UNCHANGED <<leader_id, elected>>
      /\ term[n] \in Nat /\ m.term \in Nat
  BY MessageFields DEF TypeOK, StepDown
<1>1. \A r \in net' : r.type = "AppendRequest" => r \in net
  BY RequestsReceived DEF StepDown
<1>2. /\ \A p \in Server \ {n} : state'[p] = state[p] /\ term'[p] = term[p]
      /\ term'[n] = m.term
      /\ state'[n] = RAFT_FOLLOWER
  BY <1>0 DEF StepDown, TypeOK
<1>3. LeadersWereElected'
  <2>1. term'[n] \in Nat /\ term[n] <= term'[n]
    BY <1>0, <1>2 DEF StepDown, NewerTerm
  <2>2. state'[n] # RAFT_LEADER
    BY <1>2 DEF RAFT_FOLLOWER, RAFT_LEADER
  <2> QED  BY <1>0, <1>2, <2>1, <2>2, LeadersKept
<1> QED  BY <1>0, <1>1, <1>3, RequestsKept, AuthorsKept

\* A handler that leaves roles, terms, leaders and logs alone and only takes its
\* datagram out of the network.
LEMMA ReceivedLed ==
    ASSUME Led, NEW m, net' \in AfterReceiving(m),
           UNCHANGED <<state, term, leader_id, elected, log>>
    PROVE  Led'
<1>1. RequestsFromLeaders'
  BY RequestsReceived, RequestsKept DEF Led
<1> QED  BY <1>1 DEF Led, LeadersWereElected, EntriesStayWithAuthor

LEMMA VoteResponseLed ==
    ASSUME Typed, Led, NEW n \in Server, NEW m \in net, raft_handle_vote_response(n, m)
    PROVE  Led'
<1> USE DEF Led
<1>0. TypeOK /\ log' = log /\ term[n] \in Nat
  BY DEF Typed, TypeOK, raft_handle_vote_response, logVars
<1>1. CASE StepDown(n, m)
  BY <1>0, <1>1, StepDownLed
<1>2. CASE CountVote(n, m) /\ BecomeLeader(n, m)
  <2>1. PICK rest \in AfterReceiving(m) : Transmit(rest, AppendRequests(n, log[n], << >>))
    BY <1>2 DEF BecomeLeader
  <2>2. rest \in SUBSET net
    BY <2>1 DEF AfterReceiving
  <2>3. elected' = elected \cup {<<n, term[n]>>} /\ term' = term
    BY <1>2 DEF BecomeLeader, CountVote
  <2>4. RequestsFromLeaders'
    BY <2>1, <2>2, <2>3, RequestsSent
  <2>5. \A p \in Server \ {n} : state'[p] = state[p] /\ leader_id'[p] = leader_id[p]
    BY <1>0, <1>2 DEF BecomeLeader, TypeOK
  <2>6. leader_id'[n] = n /\ <<n, term'[n]>> \in elected' /\ term'[n] \in 0..term'[n]
    BY <1>0, <1>2, <2>3 DEF BecomeLeader, TypeOK
  <2>7. LeadersWereElected'
    BY <1>0, <2>3, <2>5, <2>6, LeadersKept
  <2> QED  BY <1>0, <2>3, <2>4, <2>7, AuthorsKept
<1>3. CASE CountVote(n, m) /\ ~BecomeLeader(n, m)
  BY <1>0, <1>3, ReceivedLed DEF CountVote
<1>4. CASE IgnoreVoteResponse(n, m)
  BY <1>0, <1>4, ReceivedLed DEF IgnoreVoteResponse, voteVars
<1> QED  BY <1>1, <1>2, <1>3, <1>4 DEF raft_handle_vote_response

\* The record a request carries is never the next one its receiver needs.
LEMMA NothingStored ==
    ASSUME Typed, RequestsFromLeaders, NEW n \in Server, NEW m \in net,
           m.type = "AppendRequest", AcceptPrev(n, m)
    PROVE  log' = log
<1>1. m \in AppendEntriesRequest_t /\ log \in [Server -> Seq(RaftLogEntry_t)]
  BY MessageFields DEF Typed, TypeOK
<1>2. m.prev_log_index \in Nat /\ Len(log[n]) \in Nat
  BY <1>1, LenProperties DEF AppendEntriesRequest_t
<1>3. m.prev_log_index <= Len(log[n])
  BY DEF AcceptPrev, PrevMatches
<1>4. ~StoresEntry(n, m)
  <2>1. m.entry # << >> => m.prev_log_index = m.entry[1].index
    BY DEF RequestsFromLeaders
  <2>2. m.prev_log_index # Len(log[n]) + 1
    BY <1>2, <1>3
  <2> QED  BY <2>1, <2>2 DEF StoresEntry
<1> QED  BY <1>1, <1>4 DEF AcceptPrev

LEMMA AppendEntriesLed ==
    ASSUME Typed, Led, NEW n \in Server, NEW m \in net, raft_handle_append_entries(n, m)
    PROVE  Led'
<1> USE DEF Led
<1>0. /\ TypeOK
      /\ elected' = elected
      /\ m.type = "AppendRequest"
      /\ term[n] \in Nat /\ m.term \in Nat
  BY MessageFields DEF Typed, TypeOK, raft_handle_append_entries, historyVars, Receives
<1>1. ASSUME NEW t, NEW ok, NEW match,
             \E rest \in AfterReceiving(m) : Transmit(rest, {AppendResponse(n, m, t, ok, match)})
      PROVE  RequestsFromLeaders'
  <2>1. AppendResponse(n, m, t, ok, match).type # "AppendRequest"
    BY DEF AppendResponse
  <2>2. \A r \in net' : r.type = "AppendRequest" => r \in net
    BY <1>1, <2>1, RequestsAnswered
  <2> QED  BY <1>0, <2>2, RequestsKept
<1>2. CASE RejectStaleLeader(n, m)
  <2>1. RequestsFromLeaders'
    BY <1>1, <1>2 DEF RejectStaleLeader
  <2> QED  BY <1>0, <1>2, <2>1 DEF RejectStaleLeader, voteVars, logVars,
                                  LeadersWereElected, EntriesStayWithAuthor
<1>3. CASE FollowLeader(n, m) /\ (RejectPrev(n, m) \/ AcceptPrev(n, m))
  <2>1. RequestsFromLeaders'
    BY <1>1, <1>3 DEF RejectPrev, AcceptPrev
  <2>2. log' = log
    BY <1>0, <1>3, NothingStored DEF RejectPrev, logVars
  <2>3. /\ \A p \in Server \ {n} :
              state'[p] = state[p] /\ term'[p] = term[p] /\ leader_id'[p] = leader_id[p]
        /\ state'[n] # RAFT_LEADER
        /\ term'[n] = m.term
        /\ leader_id'[n] = m.src
    BY <1>0, <1>3 DEF FollowLeader, TypeOK, RAFT_FOLLOWER, RAFT_LEADER
  <2>4. <<leader_id'[n], m.term>> \in elected' /\ m.term \in 0..term'[n]
    BY <1>0, <2>3 DEF RequestsFromLeaders
  <2>5. LeadersWereElected'
    BY <1>0, <2>3, <2>4, LeadersKept
  <2> QED  BY <1>0, <2>1, <2>2, <2>5, AuthorsKept
<1> QED  BY <1>2, <1>3 DEF raft_handle_append_entries

LEMMA AppendResponseLed ==
    ASSUME Typed, Led, NEW n \in Server, NEW m \in net, raft_handle_append_response(n, m)
    PROVE  Led'
<1>0. TypeOK /\ log' = log
  BY DEF Typed, raft_handle_append_response, logVars
<1>1. CASE StepDown(n, m)
  BY <1>0, <1>1, StepDownLed
<1>2. CASE NoteMatch(n, m)
  BY <1>0, <1>2, ReceivedLed DEF NoteMatch, voteVars
<1>3. CASE IgnoreAppendResponse(n, m)
  BY <1>0, <1>3, ReceivedLed DEF IgnoreAppendResponse, voteVars
<1> QED  BY <1>1, <1>2, <1>3 DEF raft_handle_append_response

LEMMA AppendEntryLed ==
    ASSUME Typed, Led, NEW n \in Server, raft_append_entry(n)
    PROVE  Led'
<1> USE DEF Led
<1> DEFINE lg == Append(log[n], NewEntry(n))
<1>0. /\ TypeOK
      /\ UNCHANGED <<state, term, leader_id, elected>>
      /\ log' = [log EXCEPT ![n] = lg]
      /\ Transmit(net, AppendRequests(n, lg, <<NewEntry(n)>>))
      /\ <<n, term[n]>> \in elected
  BY DEF Typed, raft_append_entry, voteVars, historyVars, LeadersWereElected
<1>1. log[n] \in Seq(RaftLogEntry_t) /\ Len(log[n]) \in Nat
  BY <1>0, LenProperties DEF TypeOK
<1>2. NewEntry(n) \in RaftLogEntry_t
  <2>1. Len(log[n]) + 1 \in Nat /\ term[n] \in Nat
    BY <1>0, <1>1 DEF TypeOK
  <2> QED  BY <2>1 DEF NewEntry, RaftLogEntry_t
<1>3. /\ lg \in Seq(RaftLogEntry_t)
      /\ Len(lg) = Len(log[n]) + 1
      /\ \A i \in 1..Len(log[n]) : lg[i] = log[n][i]
      /\ lg[Len(lg)] = NewEntry(n)
  BY <1>1, <1>2, AppendProperties
<1> HIDE DEF lg
<1>4. RequestsFromLeaders'
  <2>1. <<NewEntry(n)>>[1].index = Len(lg)
    BY <1>3 DEF NewEntry
  <2> QED  BY <1>0, <2>1, RequestsSent
<1>5. EntriesStayWithAuthor'
  <2> SUFFICES ASSUME NEW p \in Server, NEW i \in DOMAIN log'[p]
               PROVE  log'[p][i].data = p /\ <<p, log'[p][i].term>> \in elected
    BY <1>0 DEF EntriesStayWithAuthor
  <2>1. CASE p # n
    BY <1>0, <2>1 DEF EntriesStayWithAuthor, TypeOK
  <2>2. CASE p = n
    <3>1. log'[p] = lg
      BY <1>0, <2>2 DEF TypeOK
    <3>2. i \in 1..Len(log[n]) \/ i = Len(lg)
      BY <1>1, <1>3, <3>1, LenProperties
    <3>3. CASE i \in 1..Len(log[n])
      <4>1. i \in DOMAIN log[n]
        BY <1>1, <3>3, LenProperties
      <4> QED  BY <1>3, <2>2, <3>1, <3>3, <4>1 DEF EntriesStayWithAuthor
    <3>4. CASE i = Len(lg)
      <4>1. log'[p][i] = NewEntry(n)
        BY <1>3, <3>1, <3>4
      <4> QED  BY <1>0, <2>2, <4>1 DEF NewEntry
    <3> QED  BY <3>2, <3>3, <3>4
  <2> QED  BY <2>1, <2>2
<1>6. LeadersWereElected'
  BY <1>0 DEF LeadersWereElected
<1> QED  BY <1>4, <1>5, <1>6

LEMMA RestartLed ==
    ASSUME Typed, Led, NEW n \in Server, Restart(n)
    PROVE  Led'
<1> USE DEF Led
<1>0. TypeOK /\ UNCHANGED <<net, elected>>
  BY DEF Typed, Restart, historyVars
<1>1. RequestsFromLeaders'
  BY <1>0 DEF RequestsFromLeaders
<1>2. LeadersWereElected'
  <2>1. /\ \A p \in Server \ {n} :
              state'[p] = state[p] /\ term'[p] = term[p] /\ leader_id'[p] = leader_id[p]
        /\ state'[n] # RAFT_LEADER
        /\ leader_id'[n] = Nobody
        /\ term'[n] \in Nat
    BY <1>0 DEF Restart, ResetRole, TypeOK, RAFT_FOLLOWER, RAFT_LEADER
  <2> QED  BY <1>0, <2>1, LeadersKept
<1>3. EntriesStayWithAuthor'
  <2>1. DOMAIN << >> = {}
    BY EmptySeq
  <2>2. \A p \in Server : log'[p] = IF p = n THEN << >> ELSE log[p]
    BY <1>0 DEF Restart, ResetJournal, TypeOK
  <2> QED  BY <1>0, <2>1, <2>2 DEF EntriesStayWithAuthor
<1> QED  BY <1>1, <1>2, <1>3

LEMMA StepLed ==
    ASSUME Typed, Led, [CrashNext]_vars
    PROVE  Led'
<1>1. ASSUME NEW n \in Server, NEW m \in net, Handle(n, m)
      PROVE  Led'
  BY <1>1, VoteRequestLed, VoteResponseLed, AppendEntriesLed, AppendResponseLed DEF Handle
<1>2. CASE UNCHANGED vars
  BY <1>2 DEF Led, LeadersWereElected, EntriesStayWithAuthor, RequestsFromLeaders,
              vars, voteVars, logVars, historyVars
<1> QED  BY <1>1, <1>2, TickLed, AppendEntryLed, RestartLed DEF CrashNext, Next, NodeStep

LEMMA LedInvariant == CrashSpec => [](Typed /\ Led)
<1>1. Init => Typed /\ Led
  BY InitTyped, InitLed
<1>2. Typed /\ Led /\ [CrashNext]_vars => (Typed /\ Led)'
  BY StepTyped, StepLed
<1> QED  BY <1>1, <1>2, PTL DEF CrashSpec

-----------------------------------------------------------------------------
\* A node leads only in a term it won, and believes only in leaders that won one.
THEOREM LeadersElected == CrashSpec => []LeadersWereElected
<1>1. Typed /\ Led => LeadersWereElected
  BY DEF Led
<1> QED  BY <1>1, LedInvariant, PTL

\* The fault that the run no_replication finds is there in every cluster and every
\* history: broadcast_append_entries names the new record as the one before it,
\* every follower refuses it, and no log ever holds a record of another node.
THEOREM RecordsStayHome == CrashSpec => []EntriesStayWithAuthor
<1>1. Typed /\ Led => EntriesStayWithAuthor
  BY DEF Led
<1> QED  BY <1>1, LedInvariant, PTL

\* The one step that ends a leadership without a newer term is a request from
\* another node that won the same term.
LEMMA StepYields ==
    ASSUME Typed, Led, [Next]_vars, NEW n \in Server,
           state[n] = RAFT_LEADER, state'[n] # RAFT_LEADER
    PROVE  term[n] < term'[n] \/ \E l \in Peers(n) : <<l, term[n]>> \in elected
<1>0. TypeOK /\ term[n] \in Nat
  BY DEF Typed, TypeOK
<1>1. ASSUME NEW p \in Server, raft_tick(p)
      PROVE  FALSE
  <2>1. p # n \/ state' = state
    BY <1>1 DEF raft_tick, TickLeader, TickElection, TickIdle, voteVars
  <2>2. CASE p # n
    BY <1>0, <1>1, <2>2 DEF raft_tick, TickLeader, TickElection, TickIdle, voteVars, TypeOK
  <2> QED  BY <2>1, <2>2
<1>2. ASSUME NEW p \in Server, NEW m \in net, p # n, Handle(p, m)
      PROVE  FALSE
  BY <1>0, <1>2 DEF Handle, raft_handle_vote_request, GrantsVote, raft_handle_vote_response,
       raft_handle_append_entries, raft_handle_append_response, StepDown, CountVote,
       BecomeLeader, IgnoreVoteResponse, RejectStaleLeader, FollowLeader, NoteMatch,
       IgnoreAppendResponse, voteVars, TypeOK
<1>3. ASSUME NEW m \in net, raft_handle_vote_request(n, m)
      PROVE  term[n] < term'[n]
  <2>1. NewerTerm(n, m)
    BY <1>0, <1>3 DEF raft_handle_vote_request, TypeOK
  <2>2. term'[n] = m.term
    BY <1>0, <1>3, <2>1 DEF raft_handle_vote_request, TypeOK
  <2> QED  BY <2>1, <2>2 DEF NewerTerm
<1>4. ASSUME NEW m \in net, StepDown(n, m)
      PROVE  term[n] < term'[n]
  BY <1>0, <1>4 DEF StepDown, NewerTerm, TypeOK
<1>5. ASSUME NEW m \in net, raft_handle_vote_response(n, m)
      PROVE  term[n] < term'[n]
  <2>1. state[n] # RAFT_CANDIDATE
    BY DEF RAFT_LEADER, RAFT_CANDIDATE
  <2>2. UNCHANGED state
    BY <1>5, <2>1 DEF raft_handle_vote_response, IgnoreVoteResponse, voteVars
  <2> QED  BY <2>2
<1>6. ASSUME NEW m \in net, raft_handle_append_response(n, m)
      PROVE  term[n] < term'[n]
  <2>1. StepDown(n, m) \/ NoteMatch(n, m)
    BY <1>6 DEF raft_handle_append_response
  <2>2. ~NoteMatch(n, m)
    BY DEF NoteMatch, voteVars
  <2> QED  BY <1>4, <2>1, <2>2
<1>7. ASSUME NEW m \in net, raft_handle_append_entries(n, m)
      PROVE  term[n] < term'[n] \/ \E l \in Peers(n) : <<l, term[n]>> \in elected
  <2>1. /\ m.type = "AppendRequest" /\ m.dst = n
        /\ m.src \in Server /\ m.term \in Nat
    BY <1>0, <1>7, MessageFields DEF raft_handle_append_entries, Receives, TypeOK
  <2>2. m.src \in Peers(n) /\ <<m.src, m.term>> \in elected
    BY <2>1 DEF Led, RequestsFromLeaders, Peers
  <2>3. FollowLeader(n, m)
    BY <1>7 DEF raft_handle_append_entries, RejectStaleLeader, voteVars
  <2>4. term'[n] = m.term /\ m.term >= term[n]
    BY <1>0, <2>3 DEF FollowLeader, CurrentLeader, TypeOK
  <2>5. term[n] < term'[n] \/ m.term = term[n]
    BY <1>0, <2>1, <2>4
  <2> QED  BY <2>2, <2>5
<1>8. ASSUME NEW m \in net, Handle(n, m)
      PROVE  term[n] < term'[n] \/ \E l \in Peers(n) : <<l, term[n]>> \in elected
  BY <1>3, <1>5, <1>6, <1>7, <1>8 DEF Handle
<1>9. ASSUME NEW p \in Server, raft_append_entry(p)
      PROVE  FALSE
  BY <1>9 DEF raft_append_entry, voteVars
<1>10. CASE UNCHANGED vars
  BY <1>10 DEF vars, voteVars
<1> QED  BY <1>1, <1>2, <1>8, <1>9, <1>10 DEF Next, NodeStep

\* A leader gives up only for a newer term or for another winner of its own.
THEOREM LeadersYieldForCause == Spec => LeaderYieldsForCause
<1>1. Typed /\ Led /\ [Next]_vars =>
        [\A n \in Server :
            state[n] = RAFT_LEADER /\ state'[n] # RAFT_LEADER =>
                \/ term[n] < term'[n]
                \/ \E l \in Peers(n) : <<l, term[n]>> \in elected]_vars
  BY StepYields
<1> QED  BY <1>1, LedInvariant, SpecImpliesCrashSpec, PTL DEF Spec, LeaderYieldsForCause

-----------------------------------------------------------------------------
(* What the votes of a term amount to *)

\* A vote once given is of a term its voter has reached; in the voter's current
\* term it is the one voted_for holds, unless somebody has won that term.
VotesRemembered ==
    \A b \in cast :
        /\ b[3] <= term[b[1]]
        /\ b[3] = term[b[1]] =>
              voted_for[b[1]] = b[2] \/ \E e \in elected : e[2] = b[3]

Voted == VotesRemembered /\ SecondVoteNeedsLeader

-----------------------------------------------------------------------------
(* Steps of node n that give no vote, and steps that give one *)

LEMMA NoVoteGiven ==
    ASSUME TypeOK, Voted, NEW n \in Server, cast' = cast, elected \subseteq elected',
           \A p \in Server \ {n} : term'[p] = term[p] /\ voted_for'[p] = voted_for[p],
           term'[n] \in Nat, term[n] <= term'[n],
           term'[n] = term[n] =>
              voted_for'[n] = voted_for[n] \/ \E e \in elected' : e[2] = term[n]
    PROVE  Voted'
<1>1. SecondVoteNeedsLeader'
  BY DEF Voted, SecondVoteNeedsLeader
<1>2. ASSUME NEW b \in cast
      PROVE  /\ b[3] <= term'[b[1]]
             /\ b[3] = term'[b[1]] =>
                   voted_for'[b[1]] = b[2] \/ \E e \in elected' : e[2] = b[3]
  <2>1. b[1] \in Server /\ b[3] \in Nat /\ term[n] \in Nat
    BY DEF TypeOK
  <2>2. /\ b[3] <= term[b[1]]
        /\ b[3] = term[b[1]] =>
              voted_for[b[1]] = b[2] \/ \E e \in elected' : e[2] = b[3]
    BY DEF Voted, VotesRemembered
  <2>3. CASE b[1] = n
    <3>1. b[3] <= term'[n]
      BY <2>1, <2>2, <2>3
    <3>2. b[3] = term'[n] => term'[n] = term[n]
      BY <2>1, <2>2, <2>3
    <3> QED  BY <2>2, <2>3, <3>1, <3>2
  <2>4. CASE b[1] # n
    BY <2>1, <2>2, <2>4
  <2> QED  BY <2>3, <2>4
<1> QED  BY <1>1, <1>2 DEF Voted, VotesRemembered

LEMMA VoteGiven ==
    ASSUME TypeOK, Voted, NEW n \in Server, NEW c \in Server,
           cast' = cast \cup {<<n, c, term'[n]>>}, elected' = elected,
           \A p \in Server \ {n} : term'[p] = term[p] /\ voted_for'[p] = voted_for[p],
           term'[n] \in Nat, term[n] <= term'[n], voted_for'[n] = c,
           term'[n] = term[n] => voted_for[n] \in {Nobody, c}
    PROVE  Voted'
<1> DEFINE new == <<n, c, term'[n]>>
<1>0. Nobody \notin Server
  BY ServerAssumption
<1>1. new[1] = n /\ new[2] = c /\ new[3] = term'[n]
  OBVIOUS
<1> HIDE DEF new
<1>2. ASSUME NEW b \in cast
      PROVE  /\ b[1] \in Server /\ b[2] \in Server /\ b[3] \in Nat
             /\ b[3] <= term[b[1]]
             /\ b[3] = term[b[1]] =>
                   voted_for[b[1]] = b[2] \/ \E e \in elected : e[2] = b[3]
  BY DEF TypeOK, Voted, VotesRemembered
<1>3. ASSUME NEW b \in cast, b[1] = n, b[3] = term'[n]
      PROVE  b[2] = c \/ \E e \in elected : e[2] = b[3]
  <2>1. b[3] = term[n] /\ term'[n] = term[n]
    <3>1. term[n] \in Nat
      BY DEF TypeOK
    <3> QED  BY <1>2, <1>3, <3>1
  <2>2. CASE voted_for[n] = b[2]
    BY <1>0, <1>2, <2>1, <2>2
  <2>3. CASE \E e \in elected : e[2] = b[3]
    BY <2>3
  <2> QED  BY <1>2, <1>3, <2>1, <2>2, <2>3
<1>4. ASSUME NEW b \in cast
      PROVE  /\ b[3] <= term'[b[1]]
             /\ b[3] = term'[b[1]] =>
                   voted_for'[b[1]] = b[2] \/ \E e \in elected' : e[2] = b[3]
  <2>1. CASE b[1] = n
    <3>1. term[n] \in Nat
      BY DEF TypeOK
    <3>2. b[3] <= term'[n]
      BY <1>2, <2>1, <3>1
    <3> QED  BY <1>3, <2>1, <3>2
  <2>2. CASE b[1] # n
    BY <1>2, <2>2
  <2> QED  BY <2>1, <2>2
<1>5. VotesRemembered'
  <2>1. \A b \in cast' : b \in cast \/ b = new
    BY DEF new
  <2>2. /\ new[3] <= term'[new[1]]
        /\ voted_for'[new[1]] = new[2]
    BY <1>1
  <2> QED  BY <1>4, <2>1, <2>2 DEF VotesRemembered
<1>6. SecondVoteNeedsLeader'
  <2> SUFFICES ASSUME NEW b \in cast', NEW d \in cast', b[1] = d[1], b[3] = d[3], b[2] # d[2]
               PROVE  \E e \in elected : e[2] = b[3]
    BY DEF SecondVoteNeedsLeader
  <2>1. (b \in cast \/ b = new) /\ (d \in cast \/ d = new)
    BY DEF new
  <2>2. CASE b \in cast /\ d \in cast
    BY <2>2 DEF Voted, SecondVoteNeedsLeader
  <2>3. CASE b \in cast /\ d = new
    BY <1>1, <1>3, <2>3
  <2>4. CASE d \in cast /\ b = new
    BY <1>1, <1>3, <2>4
  <2> QED  BY <2>1, <2>2, <2>3, <2>4
<1> QED  BY <1>5, <1>6 DEF Voted

-----------------------------------------------------------------------------
(* The steps *)

LEMMA StepVoted ==
    ASSUME Typed, Led, Voted, [Next]_vars
    PROVE  Voted'
<1>0. TypeOK /\ \A n \in Server : term[n] \in Nat
  BY DEF Typed, TypeOK
<1>1. ASSUME UNCHANGED <<cast, term, voted_for>>, elected \subseteq elected'
      PROVE  Voted'
  BY <1>1 DEF Voted, VotesRemembered, SecondVoteNeedsLeader
<1>2. ASSUME NEW n \in Server, raft_tick(n)
      PROVE  Voted'
  <2>1. CASE TickElection(n)
    <3>1. /\ cast' = cast \cup {<<n, n, term[n] + 1>>}
          /\ elected' = elected
          /\ term'[n] = term[n] + 1
          /\ voted_for'[n] = n
          /\ \A p \in Server \ {n} : term'[p] = term[p] /\ voted_for'[p] = voted_for[p]
      BY <1>0, <2>1 DEF TickElection, TypeOK
    <3>2. term'[n] \in Nat /\ term[n] <= term'[n] /\ term'[n] # term[n]
      BY <1>0, <3>1
    <3> QED  BY <1>0, <3>1, <3>2, VoteGiven
  <2>2. CASE TickLeader(n) \/ TickIdle(n)
    BY <1>1, <2>2 DEF TickLeader, TickIdle, voteVars, historyVars
  <2> QED  BY <1>2, <2>1, <2>2 DEF raft_tick
<1>3. ASSUME NEW n \in Server, NEW m \in net, raft_handle_vote_request(n, m)
      PROVE  Voted'
  <2> DEFINE newer == NewerTerm(n, m)
             t     == IF newer THEN m.term ELSE term[n]
             prior == IF newer THEN Nobody ELSE voted_for[n]
             grant == GrantsVote(n, m)
  <2>1. m.src \in Server /\ m.term \in Nat
    BY <1>0, MessageFields DEF TypeOK
  <2>2. /\ term' = [term EXCEPT ![n] = t]
        /\ voted_for' = [voted_for EXCEPT ![n] = IF grant THEN m.src ELSE prior]
        /\ cast' = IF grant THEN cast \cup {<<n, m.src, t>>} ELSE cast
        /\ elected' = elected
    BY <1>3 DEF raft_handle_vote_request
  <2>3. t \in Nat /\ term[n] <= t /\ (t = term[n] => prior = voted_for[n])
    BY <1>0, <2>1 DEF NewerTerm
  <2>4. grant => prior \in {Nobody, m.src}
    BY DEF GrantsVote, VoteIsFree
  <2> HIDE DEF t, prior, grant, newer
  <2>5. /\ term'[n] = t
        /\ voted_for'[n] = IF grant THEN m.src ELSE prior
        /\ \A p \in Server \ {n} : term'[p] = term[p] /\ voted_for'[p] = voted_for[p]
    BY <1>0, <2>2 DEF TypeOK
  <2>6. CASE grant
    BY <1>0, <2>1, <2>2, <2>3, <2>4, <2>5, <2>6, VoteGiven
  <2>7. CASE ~grant
    BY <1>0, <2>2, <2>3, <2>5, <2>7, NoVoteGiven
  <2> QED  BY <2>6, <2>7
<1>4. ASSUME NEW n \in Server, NEW m \in net, StepDown(n, m), cast' = cast
      PROVE  Voted'
  <2>1. m.term \in Nat /\ m.term > term[n] /\ elected' = elected
    BY <1>0, <1>4, MessageFields DEF TypeOK, StepDown, NewerTerm
  <2>2. /\ term'[n] = m.term
        /\ \A p \in Server \ {n} : term'[p] = term[p] /\ voted_for'[p] = voted_for[p]
    BY <1>0, <1>4 DEF StepDown, TypeOK
  <2>3. term'[n] \in Nat /\ term[n] <= term'[n] /\ term'[n] # term[n]
    BY <1>0, <2>1, <2>2
  <2> QED  BY <1>0, <1>4, <2>1, <2>2, <2>3, NoVoteGiven
<1>5. ASSUME NEW n \in Server, NEW m \in net, raft_handle_vote_response(n, m)
      PROVE  Voted'
  <2>1. cast' = cast
    BY <1>5 DEF raft_handle_vote_response
  <2>2. CASE CountVote(n, m) \/ IgnoreVoteResponse(n, m)
    BY <1>1, <2>1, <2>2 DEF CountVote, BecomeLeader, IgnoreVoteResponse, voteVars
  <2> QED  BY <1>4, <1>5, <2>1, <2>2 DEF raft_handle_vote_response
<1>6. ASSUME NEW n \in Server, NEW m \in net, raft_handle_append_entries(n, m)
      PROVE  Voted'
  <2>1. /\ UNCHANGED <<cast, elected>>
        /\ m.type = "AppendRequest"
        /\ m.term \in Nat
    BY <1>0, <1>6, MessageFields
       DEF raft_handle_append_entries, historyVars, Receives, TypeOK
  <2>2. CASE RejectStaleLeader(n, m)
    BY <1>1, <2>1, <2>2 DEF RejectStaleLeader, voteVars
  <2>3. CASE FollowLeader(n, m)
    <3>1. <<m.src, m.term>> \in elected
      BY <2>1 DEF Led, RequestsFromLeaders
    <3>2. /\ m.term >= term[n]
          /\ term'[n] = m.term
          /\ \A p \in Server \ {n} : term'[p] = term[p] /\ voted_for'[p] = voted_for[p]
      BY <1>0, <2>3 DEF FollowLeader, CurrentLeader, TypeOK
    <3>3. \E e \in elected' : e[2] = m.term
      BY <2>1, <3>1
    <3>4. term[n] <= term'[n] /\ term'[n] \in Nat
      BY <1>0, <2>1, <3>2
    <3> QED  BY <1>0, <2>1, <3>2, <3>3, <3>4, NoVoteGiven
  <2> QED  BY <1>6, <2>2, <2>3 DEF raft_handle_append_entries
<1>7. ASSUME NEW n \in Server, NEW m \in net, raft_handle_append_response(n, m)
      PROVE  Voted'
  <2>1. cast' = cast
    BY <1>7 DEF raft_handle_append_response
  <2>2. CASE NoteMatch(n, m) \/ IgnoreAppendResponse(n, m)
    BY <1>1, <2>1, <2>2 DEF NoteMatch, IgnoreAppendResponse, voteVars
  <2> QED  BY <1>4, <1>7, <2>1, <2>2 DEF raft_handle_append_response
<1>8. ASSUME NEW n \in Server, raft_append_entry(n)
      PROVE  Voted'
  BY <1>1, <1>8 DEF raft_append_entry, voteVars, historyVars
<1>9. CASE UNCHANGED vars
  BY <1>1, <1>9 DEF vars, voteVars, historyVars
<1> QED  BY <1>2, <1>3, <1>5, <1>6, <1>7, <1>8, <1>9 DEF Next, NodeStep, Handle

\* The append handler forgets the vote of the term it serves, so a node may vote
\* twice in a term; it does so only when somebody has won that term already.
THEOREM SecondVoteAfterElection == Spec => []SecondVoteNeedsLeader
<1>1. Init => Voted
  BY DEF Init, Voted, VotesRemembered, SecondVoteNeedsLeader
<1>2. Typed /\ Led /\ Voted /\ [Next]_vars => Voted'
  BY StepVoted
<1>3. Voted => SecondVoteNeedsLeader
  BY DEF Voted
<1> QED  BY <1>1, <1>2, <1>3, LedInvariant, SpecImpliesCrashSpec, PTL DEF Spec

-----------------------------------------------------------------------------
(* A candidate that reaches the majority is a candidate no more.  A cluster of *)
(* one is left out: a lone candidate holds its own vote, and becomes leader    *)
(* only when an answer arrives.                                                *)

LEMMA StepLacksMajority ==
    ASSUME Cardinality(Server) >= 2, Typed, CandidateLacksMajority, [CrashNext]_vars
    PROVE  CandidateLacksMajority'
<1>0. TypeOK /\ g_cluster_size \in Nat /\ g_cluster_size >= 2
  BY ServerAssumption, FS_CardinalityType DEF Typed, g_cluster_size
<1>1. ASSUME NEW n \in Server,
             \A p \in Server \ {n} : state'[p] = state[p] /\ votes'[p] = votes[p],
             state'[n] = RAFT_CANDIDATE => 2 * votes'[n] <= g_cluster_size
      PROVE  CandidateLacksMajority'
  BY <1>1 DEF CandidateLacksMajority, g_cluster_size
<1>2. ASSUME UNCHANGED <<state, votes>>
      PROVE  CandidateLacksMajority'
  BY <1>2 DEF CandidateLacksMajority, g_cluster_size
<1>3. ASSUME NEW n \in Server, UNCHANGED votes,
             \A p \in Server \ {n} : state'[p] = state[p],
             state'[n] = RAFT_FOLLOWER \/ state'[n] = state[n]
      PROVE  CandidateLacksMajority'
  <2>1. CASE state'[n] = RAFT_FOLLOWER
    BY <1>1, <1>3, <2>1 DEF RAFT_CANDIDATE, RAFT_FOLLOWER
  <2>2. CASE state'[n] = state[n]
    BY <1>1, <1>3, <2>2 DEF CandidateLacksMajority
  <2> QED  BY <1>3, <2>1, <2>2
<1>4. ASSUME NEW n \in Server, raft_tick(n)
      PROVE  CandidateLacksMajority'
  <2>1. CASE TickElection(n)
    <3>1. /\ \A p \in Server \ {n} : state'[p] = state[p] /\ votes'[p] = votes[p]
          /\ votes'[n] = 1
      BY <1>0, <2>1 DEF TickElection, TypeOK
    <3>2. 2 * votes'[n] <= g_cluster_size
      BY <1>0, <3>1
    <3> QED  BY <1>1, <3>1, <3>2
  <2>2. CASE TickLeader(n) \/ TickIdle(n)
    BY <1>2, <2>2 DEF TickLeader, TickIdle, voteVars
  <2> QED  BY <1>4, <2>1, <2>2 DEF raft_tick
<1>5. ASSUME NEW n \in Server, NEW m \in net, StepDown(n, m)
      PROVE  CandidateLacksMajority'
  BY <1>0, <1>3, <1>5 DEF StepDown, TypeOK
<1>6. ASSUME NEW n \in Server, NEW m \in net, raft_handle_vote_request(n, m)
      PROVE  CandidateLacksMajority'
  BY <1>0, <1>3, <1>6 DEF raft_handle_vote_request, TypeOK
<1>7. ASSUME NEW n \in Server, NEW m \in net, CountVote(n, m)
      PROVE  CandidateLacksMajority'
  <2>1. /\ votes[n] \in Nat
        /\ \A p \in Server \ {n} : votes'[p] = votes[p]
        /\ votes'[n] = votes[n] + 1
    BY <1>0, <1>7 DEF CountVote, TypeOK
  <2>2. CASE BecomeLeader(n, m)
    <3>1. state'[n] # RAFT_CANDIDATE /\ \A p \in Server \ {n} : state'[p] = state[p]
      BY <1>0, <2>2 DEF BecomeLeader, TypeOK, RAFT_LEADER, RAFT_CANDIDATE
    <3> QED  BY <1>1, <2>1, <3>1
  <2>3. CASE ~BecomeLeader(n, m)
    <3>1. ~Majority(votes[n] + 1) /\ UNCHANGED state
      BY <1>7, <2>3 DEF CountVote
    <3>2. 2 * (votes[n] + 1) <= g_cluster_size
      BY <1>0, <2>1, <3>1 DEF Majority
    <3>3. 2 * votes'[n] <= g_cluster_size
      BY <2>1, <3>2
    <3>4. \A p \in Server \ {n} : state'[p] = state[p] /\ votes'[p] = votes[p]
      BY <2>1, <3>1
    <3> QED  BY <1>1, <3>3, <3>4
  <2> QED  BY <2>2, <2>3
<1>8. ASSUME NEW n \in Server, NEW m \in net, raft_handle_vote_response(n, m)
      PROVE  CandidateLacksMajority'
  <2>1. CASE IgnoreVoteResponse(n, m)
    BY <1>2, <2>1 DEF IgnoreVoteResponse, voteVars
  <2> QED  BY <1>5, <1>7, <1>8, <2>1 DEF raft_handle_vote_response
<1>9. ASSUME NEW n \in Server, NEW m \in net, raft_handle_append_entries(n, m)
      PROVE  CandidateLacksMajority'
  <2>1. CASE RejectStaleLeader(n, m)
    BY <1>2, <2>1 DEF RejectStaleLeader, voteVars
  <2>2. CASE FollowLeader(n, m)
    BY <1>0, <1>3, <2>2 DEF FollowLeader, TypeOK
  <2> QED  BY <1>9, <2>1, <2>2 DEF raft_handle_append_entries
<1>10. ASSUME NEW n \in Server, NEW m \in net, raft_handle_append_response(n, m)
       PROVE  CandidateLacksMajority'
  <2>1. CASE NoteMatch(n, m) \/ IgnoreAppendResponse(n, m)
    BY <1>2, <2>1 DEF NoteMatch, IgnoreAppendResponse, voteVars
  <2> QED  BY <1>5, <1>10, <2>1 DEF raft_handle_append_response
<1>11. ASSUME NEW n \in Server, raft_append_entry(n)
       PROVE  CandidateLacksMajority'
  BY <1>2, <1>11 DEF raft_append_entry, voteVars
<1>12. ASSUME NEW n \in Server, Restart(n)
       PROVE  CandidateLacksMajority'
  <2>1. /\ \A p \in Server \ {n} : state'[p] = state[p] /\ votes'[p] = votes[p]
        /\ votes'[n] = 0
    BY <1>0, <1>12 DEF Restart, ResetRole, TypeOK
  <2>2. 2 * votes'[n] <= g_cluster_size
    BY <1>0, <2>1
  <2> QED  BY <1>1, <2>1, <2>2
<1>13. CASE UNCHANGED vars
  BY <1>2, <1>13 DEF vars, voteVars
<1> QED  BY <1>4, <1>6, <1>8, <1>9, <1>10, <1>11, <1>12, <1>13
         DEF CrashNext, Next, NodeStep, Handle

\* In a cluster of two or more, no candidate ever sits on a majority of votes.
THEOREM MajorityEndsCandidacy ==
    ASSUME Cardinality(Server) >= 2
    PROVE  CrashSpec => []CandidateLacksMajority
<1>1. Init => CandidateLacksMajority
  BY DEF Init, CandidateLacksMajority, RAFT_FOLLOWER, RAFT_CANDIDATE
<1>2. Typed /\ CandidateLacksMajority /\ [CrashNext]_vars => CandidateLacksMajority'
  BY StepLacksMajority
<1>3. CrashSpec => []Typed
  BY LedInvariant, PTL
<1> QED  BY <1>1, <1>2, <1>3, PTL DEF CrashSpec

-----------------------------------------------------------------------------
(* Each granted response in flight stands for a vote of its sender, and no node *)
(* asks itself: so nobody becomes leader without the vote of another node.      *)

VoteTypes == {"VoteRequest", "VoteResponse"}

VoteTraffic ==
    \A m \in net :
        /\ m.type \in VoteTypes => m.src # m.dst
        /\ m.type = "VoteResponse" /\ m.vote_granted => <<m.src, m.dst, m.term>> \in cast

Supported == VoteTraffic /\ LeadersHaveSupport

\* The vote traffic after a step was in flight before it.
NoNewVoteTraffic == \A m \in net' : m.type \in VoteTypes => m \in net

LEMMA TrafficKept ==
    ASSUME VoteTraffic, NoNewVoteTraffic, cast \subseteq cast'
    PROVE  VoteTraffic'
BY DEF VoteTraffic, NoNewVoteTraffic, VoteTypes

LEMMA SupportKept ==
    ASSUME Supported, NoNewVoteTraffic, cast \subseteq cast', elected' = elected
    PROVE  Supported'
BY TrafficKept DEF Supported, LeadersHaveSupport

\* The ways to send nothing that belongs to an election.
LEMMA NothingOfVotes ==
    /\ net' = net => NoNewVoteTraffic
    /\ \A m : net' \in AfterReceiving(m) => NoNewVoteTraffic
    /\ \A n, lg, entry : \A rest \in SUBSET net :
          Transmit(rest, AppendRequests(n, lg, entry)) => NoNewVoteTraffic
    /\ \A m, n, t, ok, match : \A rest \in AfterReceiving(m) :
          Transmit(rest, {AppendResponse(n, m, t, ok, match)}) => NoNewVoteTraffic
<1>1. ASSUME NEW rest \in SUBSET net, NEW packets, Transmit(rest, packets),
             \A p \in packets : p.type \notin VoteTypes
      PROVE  NoNewVoteTraffic
  BY <1>1 DEF Transmit, NoNewVoteTraffic
<1>2. ASSUME NEW n, NEW lg, NEW entry
      PROVE  \A p \in AppendRequests(n, lg, entry) : p.type \notin VoteTypes
  BY DEF AppendRequests, VoteTypes
<1>3. ASSUME NEW n, NEW m, NEW t, NEW ok, NEW match
      PROVE  \A p \in {AppendResponse(n, m, t, ok, match)} : p.type \notin VoteTypes
  BY DEF AppendResponse, VoteTypes
<1>4. ASSUME NEW m, NEW rest \in AfterReceiving(m)
      PROVE  rest \in SUBSET net
  BY DEF AfterReceiving
<1>5. net' = net => NoNewVoteTraffic
  BY DEF NoNewVoteTraffic
<1>6. \A m : net' \in AfterReceiving(m) => NoNewVoteTraffic
  BY <1>4 DEF NoNewVoteTraffic
<1>7. ASSUME NEW rest \in SUBSET net, NEW n, NEW lg, NEW entry,
             Transmit(rest, AppendRequests(n, lg, entry))
      PROVE  NoNewVoteTraffic
  BY <1>1, <1>2, <1>7
<1>8. ASSUME NEW m, NEW n, NEW t, NEW ok, NEW match, NEW rest \in AfterReceiving(m),
             Transmit(rest, {AppendResponse(n, m, t, ok, match)})
      PROVE  NoNewVoteTraffic
  <2>1. rest \in SUBSET net
    BY <1>4
  <2> QED  BY <1>1, <1>3, <1>8, <2>1
<1> QED  BY <1>5, <1>6, <1>7, <1>8

\* The steps that send nothing of an election and elect nobody.
LEMMA AppendTrafficQuiet ==
    ASSUME NEW n \in Server, NEW m \in net,
           raft_handle_append_entries(n, m) \/ raft_handle_append_response(n, m)
    PROVE  NoNewVoteTraffic /\ cast' = cast /\ elected' = elected
<1>1. CASE raft_handle_append_entries(n, m)
  <2>1. UNCHANGED <<cast, elected>>
    BY <1>1 DEF raft_handle_append_entries, historyVars
  <2>2. NoNewVoteTraffic
    BY <1>1, NothingOfVotes DEF raft_handle_append_entries, RejectStaleLeader, RejectPrev, AcceptPrev
  <2> QED  BY <2>1, <2>2
<1>2. CASE raft_handle_append_response(n, m)
  <2>1. net' \in AfterReceiving(m) /\ cast' = cast /\ elected' = elected
    BY <1>2 DEF raft_handle_append_response, StepDown, NoteMatch, IgnoreAppendResponse
  <2> QED  BY <2>1, NothingOfVotes
<1> QED  BY <1>1, <1>2

LEMMA StepSupported ==
    ASSUME Typed, Supported, [CrashNext]_vars
    PROVE  Supported'
<1>0. TypeOK /\ net \in SUBSET net /\ \A m \in net : m.src \in Server /\ m.term \in Nat
  BY MessageFields DEF Typed, TypeOK
<1>1. ASSUME NEW n \in Server, raft_tick(n)
      PROVE  Supported'
  <2>1. CASE TickElection(n)
    <3>1. cast \subseteq cast' /\ elected' = elected
      BY <2>1 DEF TickElection
    <3>2. \A m \in net' : m \in net \/ m \in VoteRequests(n, term[n] + 1)
      BY <2>1 DEF TickElection, Transmit
    <3>3. \A m \in VoteRequests(n, term[n] + 1) : m.src # m.dst /\ m.type = "VoteRequest"
      BY DEF VoteRequests, Peers
    <3>4. VoteTraffic'
      BY <3>1, <3>2, <3>3 DEF Supported, VoteTraffic
    <3> QED  BY <3>1, <3>4 DEF Supported, LeadersHaveSupport
  <2>2. CASE TickLeader(n)
    BY <1>0, <2>2, NothingOfVotes, SupportKept DEF TickLeader, historyVars
  <2>3. CASE TickIdle(n)
    BY <2>3, NothingOfVotes, SupportKept DEF TickIdle, historyVars
  <2> QED  BY <1>1, <2>1, <2>2, <2>3 DEF raft_tick
<1>2. ASSUME NEW n \in Server, NEW m \in net, raft_handle_vote_request(n, m)
      PROVE  Supported'
  <2> DEFINE newer == NewerTerm(n, m)
             t     == IF newer THEN m.term ELSE term[n]
             prior == IF newer THEN Nobody ELSE voted_for[n]
             grant == GrantsVote(n, m)
             reply == [type |-> "VoteResponse", src |-> n, dst |-> m.src,
                       term |-> t, vote_granted |-> grant]
  <2>1. /\ elected' = elected
        /\ cast' = IF grant THEN cast \cup {<<n, m.src, t>>} ELSE cast
        /\ \E rest \in AfterReceiving(m) : Transmit(rest, {reply})
        /\ m.dst = n /\ m.type = "VoteRequest"
    BY <1>2 DEF raft_handle_vote_request, Receives
  <2>2. /\ reply.type = "VoteResponse"
        /\ reply.src = n /\ reply.dst = m.src /\ reply.term = t
        /\ reply.vote_granted <=> grant
    OBVIOUS
  <2>3. m.src # n
    BY <2>1 DEF Supported, VoteTraffic, VoteTypes
  <2> HIDE DEF newer, t, prior, grant, reply
  <2>4. cast \subseteq cast' /\ (grant => <<n, m.src, t>> \in cast')
    BY <2>1
  <2>5. \A r \in net' : r \in net \/ r = reply
    BY <2>1 DEF AfterReceiving, Transmit
  <2>6. VoteTraffic'
    BY <2>2, <2>3, <2>4, <2>5 DEF Supported, VoteTraffic
  <2> QED  BY <2>1, <2>4, <2>6 DEF Supported, LeadersHaveSupport
<1>3. ASSUME NEW n \in Server, NEW m \in net, raft_handle_vote_response(n, m)
      PROVE  Supported'
  <2>0. cast' = cast /\ m.dst = n /\ m.type = "VoteResponse"
    BY <1>3 DEF raft_handle_vote_response, Receives
  <2>1. CASE CountVote(n, m) /\ BecomeLeader(n, m)
    <3>1. NoNewVoteTraffic
      BY <2>1, NothingOfVotes DEF BecomeLeader, AfterReceiving
    <3>2. VoteTraffic'
      BY <2>0, <3>1, TrafficKept DEF Supported
    <3>3. m.term <= term[n] /\ m.vote_granted
      BY <1>0, <2>1 DEF CountVote, NewerTerm, IsVote, TypeOK
    <3>4. <<m.src, n, m.term>> \in cast /\ m.src # n
      BY <2>0, <3>3 DEF Supported, VoteTraffic, VoteTypes
    <3>5. elected' = elected \cup {<<n, term[n]>>}
      BY <2>1 DEF BecomeLeader
    <3>6. LeadersHaveSupport'
      BY <2>0, <3>3, <3>4, <3>5 DEF Supported, LeadersHaveSupport
    <3> QED  BY <3>2, <3>6 DEF Supported
  <2>2. CASE (CountVote(n, m) /\ ~BecomeLeader(n, m)) \/ StepDown(n, m) \/ IgnoreVoteResponse(n, m)
    <3>1. net' \in AfterReceiving(m) /\ elected' = elected
      BY <2>2 DEF CountVote, StepDown, IgnoreVoteResponse
    <3> QED  BY <2>0, <3>1, NothingOfVotes, SupportKept
  <2> QED  BY <1>3, <2>1, <2>2 DEF raft_handle_vote_response
<1>4. ASSUME NEW n \in Server, NEW m \in net,
             raft_handle_append_entries(n, m) \/ raft_handle_append_response(n, m)
      PROVE  Supported'
  BY <1>4, AppendTrafficQuiet, SupportKept
<1>5. ASSUME NEW n \in Server, raft_append_entry(n)
      PROVE  Supported'
  BY <1>0, <1>5, NothingOfVotes, SupportKept DEF raft_append_entry, historyVars
<1>6. ASSUME NEW n \in Server, Restart(n)
      PROVE  Supported'
  BY <1>6, NothingOfVotes, SupportKept DEF Restart, historyVars
<1>7. CASE UNCHANGED vars
  BY <1>7, NothingOfVotes, SupportKept DEF vars, historyVars
<1> QED  BY <1>1, <1>2, <1>3, <1>4, <1>5, <1>6, <1>7 DEF CrashNext, Next, NodeStep, Handle

\* No node leads on its own vote alone, whatever the network repeats and however
\* often processes lose their memory.
THEOREM LeadersAreSupported == CrashSpec => []LeadersHaveSupport
<1>1. Init => Supported
  BY DEF Init, Supported, VoteTraffic, LeadersHaveSupport
<1>2. Typed /\ Supported /\ [CrashNext]_vars => Supported'
  BY StepSupported
<1>3. Supported => LeadersHaveSupport
  BY DEF Supported
<1> QED  BY <1>1, <1>2, <1>3, TypedInvariant, PTL DEF CrashSpec

-----------------------------------------------------------------------------
(* A vote is counted once.  A request in flight is one its addressee has not     *)
(* answered, each vote given travels in one response at most, and a response is   *)
(* gone once it is counted.                                                       *)

Requests == {m \in net : m.type = "VoteRequest"}
Grants(c) == {m \in net : m.type = "VoteResponse" /\ m.vote_granted /\ m.dst = c}
CastFor(c) == {b \in cast : b[2] = c}

RequestsOpen ==
    \A m \in Requests :
        /\ m.term <= term[m.src]
        /\ <<m.dst, m.src, m.term>> \notin cast
        /\ \A r \in Requests : r.src = m.src /\ r.dst = m.dst /\ r.term = m.term => r = m

CastInTerm == \A b \in cast : b[3] <= term[b[2]]

Tallied ==
    /\ IsFiniteSet(cast)
    /\ \A c \in Server :
          /\ IsFiniteSet(Grants(c))
          /\ votes[c] + Cardinality(Grants(c)) <= Cardinality(CastFor(c))

Counting == VoteTraffic /\ RequestsOpen /\ CastInTerm /\ Tallied

TermsRise == \A p \in Server : term[p] <= term'[p]

LEMMA InitCounting ==
    ASSUME Init
    PROVE  Counting
<1>1. cast = {} /\ net = {} /\ \A c \in Server : votes[c] = 0
  BY DEF Init
<1>2. \A c : Grants(c) = {} /\ CastFor(c) = {}
  BY <1>1 DEF Grants, CastFor
<1>3. Tallied
  BY <1>1, <1>2, FS_EmptySet DEF Tallied
<1> QED  BY <1>1, <1>3 DEF Counting, VoteTraffic, RequestsOpen, Requests, CastInTerm

\* What fewer grants and the same votes count to.
LEMMA TallyKept ==
    ASSUME Tallied, NEW c \in Server, votes[c] \in Nat, Grants(c)' \subseteq Grants(c),
           IsFiniteSet(cast'), CastFor(c) \subseteq CastFor(c)', votes'[c] = votes[c]
    PROVE  /\ IsFiniteSet(Grants(c)')
           /\ votes'[c] + Cardinality(Grants(c)') <= Cardinality(CastFor(c)')
<1>1. IsFiniteSet(Grants(c)) /\ votes[c] + Cardinality(Grants(c)) <= Cardinality(CastFor(c))
  BY DEF Tallied
<1>2. IsFiniteSet(CastFor(c)')
  BY FS_Subset DEF CastFor
<1>3. IsFiniteSet(CastFor(c)) /\ Cardinality(CastFor(c)) <= Cardinality(CastFor(c)')
  BY <1>2, FS_Subset
<1>4. IsFiniteSet(Grants(c)') /\ Cardinality(Grants(c)') <= Cardinality(Grants(c))
  BY <1>1, FS_Subset
<1>5. /\ Cardinality(Grants(c)) \in Nat /\ Cardinality(Grants(c)') \in Nat
      /\ Cardinality(CastFor(c)) \in Nat /\ Cardinality(CastFor(c)') \in Nat
  BY <1>1, <1>2, <1>3, <1>4, FS_CardinalityType
<1> QED  BY <1>1, <1>3, <1>4, <1>5

\* Requests and grants are no more than before a step that sends no vote.
LEMMA QuietTraffic ==
    ASSUME NoNewVoteTraffic
    PROVE  Requests' \subseteq Requests /\ \A c : Grants(c)' \subseteq Grants(c)
BY DEF Requests, Grants, NoNewVoteTraffic, VoteTypes

\* Steps that ask nobody and give no vote.
LEMMA OpenKept ==
    ASSUME TypeOK, TypeOK', Counting, Requests' \subseteq Requests, TermsRise, cast' = cast
    PROVE  RequestsOpen' /\ CastInTerm'
<1>1. \A m \in Requests : m.src \in Server /\ m.term \in Nat
  BY MessageFields DEF Requests, TypeOK
<1>2. \A p \in Server : term[p] \in Nat /\ term'[p] \in Nat /\ votes[p] \in Nat
  BY DEF TypeOK
<1>3. RequestsOpen'
  <2> SUFFICES ASSUME NEW m \in Requests'
               PROVE  /\ m.term <= term'[m.src]
                      /\ <<m.dst, m.src, m.term>> \notin cast'
                      /\ \A r \in Requests' :
                            r.src = m.src /\ r.dst = m.dst /\ r.term = m.term => r = m
    BY DEF RequestsOpen
  <2>1. m \in Requests /\ m.src \in Server /\ m.term \in Nat /\ m.term <= term[m.src]
    BY <1>1 DEF Counting, RequestsOpen
  <2>2. m.term <= term'[m.src]
    <3>1. /\ term[m.src] \in Nat /\ term'[m.src] \in Nat
          /\ term[m.src] <= term'[m.src]
      BY <1>2, <2>1 DEF TermsRise
    <3> QED  BY <2>1, <3>1
  <2> QED  BY <2>1, <2>2 DEF Counting, RequestsOpen
<1>4. CastInTerm'
  <2>1. \A b \in cast : b[2] \in Server /\ b[3] \in Nat
    BY DEF TypeOK
  <2>2. \A b \in cast : b[3] <= term[b[2]] /\ term[b[2]] <= term'[b[2]]
    BY <2>1 DEF Counting, CastInTerm, TermsRise
  <2>3. \A b \in cast : b[3] <= term'[b[2]]
    BY <1>2, <2>1, <2>2
  <2> QED  BY <2>3 DEF CastInTerm
<1> QED  BY <1>3, <1>4

\* Steps that neither ask for a vote nor give nor count one.
LEMMA CountingKept ==
    ASSUME TypeOK, TypeOK', Counting, VoteTraffic', TermsRise, cast' = cast, votes' = votes,
           Requests' \subseteq Requests, \A c : Grants(c)' \subseteq Grants(c)
    PROVE  Counting'
<1>1. RequestsOpen' /\ CastInTerm'
  BY OpenKept
<1>2. \A c : CastFor(c) \subseteq CastFor(c)'
  BY DEF CastFor
<1>3. \A p \in Server : votes[p] \in Nat
  BY DEF TypeOK
<1>4. Tallied'
  BY <1>2, <1>3, TallyKept DEF Counting, Tallied
<1> QED  BY <1>1, <1>4 DEF Counting

\* A vote given: what the tally of its candidate gains.
LEMMA OneVoteMore ==
    ASSUME Tallied, NEW new, NEW c, new \notin cast, new[2] = c, cast' = cast \cup {new}
    PROVE  /\ IsFiniteSet(cast')
           /\ Cardinality(CastFor(c)) \in Nat
           /\ Cardinality(CastFor(c)') = Cardinality(CastFor(c)) + 1
           /\ \A d : CastFor(d) \subseteq CastFor(d)'
<1>1. IsFiniteSet(cast)
  BY DEF Tallied
<1>2. IsFiniteSet(cast')
  BY <1>1, FS_AddElement
<1>3. IsFiniteSet(CastFor(c)) /\ new \notin CastFor(c)
  BY <1>1, FS_Subset DEF CastFor
<1>4. CastFor(c)' = CastFor(c) \cup {new}
  BY DEF CastFor
<1>5. Cardinality(CastFor(c)') = Cardinality(CastFor(c)) + 1
  BY <1>3, <1>4, FS_AddElement
<1>6. \A d : CastFor(d) \subseteq CastFor(d)'
  BY DEF CastFor
<1> QED  BY <1>2, <1>3, <1>5, <1>6, FS_CardinalityType

LEMMA ElectionCounting ==
    ASSUME TypeOK, Counting, NEW n \in Server, TickElection(n)
    PROVE  Counting'
<1> DEFINE new == <<n, n, term[n] + 1>>
<1>0. /\ cast' = cast \cup {new}
      /\ term' = [term EXCEPT ![n] = term[n] + 1]
      /\ votes' = [votes EXCEPT ![n] = 1]
      /\ \A m \in net' : m \in net \/ m \in VoteRequests(n, term[n] + 1)
  BY DEF TickElection, Transmit
<1>1. /\ \A p \in Server : term[p] \in Nat /\ votes[p] \in Nat
      /\ \A p \in Server : term'[p] = IF p = n THEN term[n] + 1 ELSE term[p]
      /\ \A p \in Server : votes'[p] = IF p = n THEN 1 ELSE votes[p]
  BY <1>0 DEF TypeOK
<1>2. ASSUME NEW m \in VoteRequests(n, term[n] + 1)
      PROVE  m.src = n /\ m.dst # n /\ m.type = "VoteRequest" /\ m.term = term[n] + 1
  BY DEF VoteRequests, Peers
<1>3. ASSUME NEW m \in VoteRequests(n, term[n] + 1), NEW r \in VoteRequests(n, term[n] + 1), r.dst = m.dst
      PROVE  r = m
  BY <1>3 DEF VoteRequests
<1>4. ASSUME NEW m \in Requests
      PROVE  /\ m.src \in Server /\ m.term \in Nat /\ m.src # m.dst
             /\ m.term <= term[m.src]
             /\ <<m.dst, m.src, m.term>> \notin cast
  BY MessageFields DEF Requests, TypeOK, Counting, RequestsOpen, VoteTraffic, VoteTypes
<1>5. ASSUME NEW b \in cast
      PROVE  b[2] \in Server /\ b[3] \in Nat /\ b[3] <= term[b[2]]
  BY DEF TypeOK, Counting, CastInTerm
<1>6. new[2] = n /\ new[3] = term[n] + 1 /\ new \notin cast
  <2>1. new[2] = n /\ new[3] = term[n] + 1
    OBVIOUS
  <2> HIDE DEF new
  <2>2. new \notin cast
    BY <1>1, <1>5, <2>1
  <2> QED  BY <2>1, <2>2
<1>7. VoteTraffic'
  <2>1. cast \subseteq cast'
    BY <1>0
  <2> QED  BY <1>0, <1>2, <2>1 DEF Counting, VoteTraffic
<1>8. ASSUME NEW m \in Requests'
      PROVE  m \in Requests \/ m \in VoteRequests(n, term[n] + 1)
  BY <1>0 DEF Requests
<1>9. RequestsOpen'
  <2> SUFFICES ASSUME NEW m \in Requests'
               PROVE  /\ m.term <= term'[m.src]
                      /\ <<m.dst, m.src, m.term>> \notin cast'
                      /\ \A r \in Requests' :
                            r.src = m.src /\ r.dst = m.dst /\ r.term = m.term => r = m
    BY DEF RequestsOpen
  <2>1. CASE m \in Requests
    <3>0. m.src \in Server /\ m.term \in Nat /\ m.term <= term[m.src]
      BY <1>4, <2>1
    <3>1. m.term <= term'[m.src]
      <4>1. CASE m.src = n
        BY <1>1, <3>0, <4>1
      <4>2. CASE m.src # n
        BY <1>1, <3>0, <4>2
      <4> QED  BY <4>1, <4>2
    <3>2. <<m.dst, m.src, m.term>> \notin cast'
      <4>1. <<m.dst, m.src, m.term>> # new
        BY <1>4, <2>1
      <4> QED  BY <1>0, <1>4, <2>1, <4>1
    <3>3. ASSUME NEW r \in Requests', r.src = m.src, r.dst = m.dst, r.term = m.term
          PROVE  r = m
      <4>1. CASE r \in Requests
        BY <2>1, <3>3, <4>1 DEF Counting, RequestsOpen
      <4>2. CASE r \in VoteRequests(n, term[n] + 1)
        <5>1. m.src = n /\ m.term = term[n] + 1
          BY <1>2, <3>3, <4>2
        <5> QED  BY <1>1, <3>0, <5>1
      <4> QED  BY <1>8, <4>1, <4>2
    <3> QED  BY <3>1, <3>2, <3>3
  <2>2. CASE m \in VoteRequests(n, term[n] + 1)
    <3>1. m.src = n /\ m.dst # n /\ m.term = term[n] + 1
      BY <1>2, <2>2
    <3>2. <<m.dst, m.src, m.term>> \notin cast'
      <4> DEFINE v == <<m.dst, m.src, m.term>>
      <4>1. v[1] = m.dst /\ v[2] = n /\ v[3] = term[n] + 1 /\ v # new
        BY <3>1
      <4> HIDE DEF v
      <4>2. v \notin cast
        BY <1>1, <1>5, <4>1
      <4>3. v \notin cast'
        BY <1>0, <4>1, <4>2
      <4> QED  BY <4>3 DEF v
    <3>3. ASSUME NEW r \in Requests', r.src = m.src, r.dst = m.dst, r.term = m.term
          PROVE  r = m
      <4>1. CASE r \in Requests
        <5>1. r.term <= term[n]
          BY <1>4, <3>1, <3>3, <4>1
        <5> QED  BY <1>1, <3>1, <3>3, <5>1
      <4>2. CASE r \in VoteRequests(n, term[n] + 1)
        BY <1>3, <2>2, <3>3, <4>2
      <4> QED  BY <1>8, <4>1, <4>2
    <3>4. m.term <= term'[m.src]
      BY <1>1, <3>1
    <3> QED  BY <3>2, <3>3, <3>4
  <2> QED  BY <1>8, <2>1, <2>2
<1>10. CastInTerm'
  <2>1. ASSUME NEW b \in cast'
        PROVE  b[3] <= term'[b[2]]
    <3>1. CASE b \in cast
      BY <1>1, <1>5, <3>1
    <3>2. CASE b = new
      BY <1>1, <1>6, <3>2
    <3> QED  BY <1>0, <3>1, <3>2
  <2> QED  BY <2>1 DEF CastInTerm
<1>11. Tallied'
  <2> HIDE DEF new
  <2>1. Tallied
    BY DEF Counting
  <2>2. /\ IsFiniteSet(cast')
        /\ Cardinality(CastFor(n)) \in Nat
        /\ Cardinality(CastFor(n)') = Cardinality(CastFor(n)) + 1
        /\ \A d : CastFor(d) \subseteq CastFor(d)'
    BY <1>0, <1>6, <2>1, OneVoteMore
  <2>3. \A c : Grants(c)' \subseteq Grants(c)
    BY <1>0, <1>2 DEF Grants
  <2>4. ASSUME NEW c \in Server, c # n
        PROVE  /\ IsFiniteSet(Grants(c)')
               /\ votes'[c] + Cardinality(Grants(c)') <= Cardinality(CastFor(c)')
    BY <1>1, <2>1, <2>2, <2>3, <2>4, TallyKept
  <2>5. /\ IsFiniteSet(Grants(n)')
        /\ votes'[n] + Cardinality(Grants(n)') <= Cardinality(CastFor(n)')
    <3>1. IsFiniteSet(Grants(n)) /\ votes[n] + Cardinality(Grants(n)) <= Cardinality(CastFor(n))
      BY <2>1 DEF Tallied
    <3>2. /\ IsFiniteSet(Grants(n)')
          /\ Cardinality(Grants(n)') <= Cardinality(Grants(n))
      BY <2>3, <3>1, FS_Subset
    <3>3. Cardinality(Grants(n)) \in Nat /\ Cardinality(Grants(n)') \in Nat
      BY <3>1, <3>2, FS_CardinalityType
    <3>4. votes[n] \in Nat /\ votes'[n] = 1
      BY <1>1
    <3> QED  BY <2>2, <3>1, <3>2, <3>3, <3>4
  <2> QED  BY <2>2, <2>4, <2>5 DEF Tallied
<1> QED  BY <1>7, <1>9, <1>10, <1>11 DEF Counting

LEMMA AnswerCounting ==
    ASSUME ~Duplicates, TypeOK, TypeOK', Counting, VoteTraffic', TermsRise,
           NEW n \in Server, NEW m \in net, raft_handle_vote_request(n, m)
    PROVE  Counting'
<1> DEFINE newer == NewerTerm(n, m)
           t     == IF newer THEN m.term ELSE term[n]
           prior == IF newer THEN Nobody ELSE voted_for[n]
           grant == GrantsVote(n, m)
           reply == [type |-> "VoteResponse", src |-> n, dst |-> m.src,
                     term |-> t, vote_granted |-> grant]
           new   == <<n, m.src, t>>
<1>1. /\ votes' = votes
      /\ cast' = IF grant THEN cast \cup {new} ELSE cast
      /\ \E rest \in AfterReceiving(m) : Transmit(rest, {reply})
      /\ m.dst = n /\ m.type = "VoteRequest"
  BY DEF raft_handle_vote_request, Receives
<1>2. /\ reply.type = "VoteResponse"
      /\ reply.dst = m.src
      /\ reply.vote_granted <=> grant
      /\ new[2] = m.src /\ new[3] = t
  OBVIOUS
<1>3. m.src \in Server /\ m.term \in Nat /\ term[n] \in Nat
  BY MessageFields DEF TypeOK
<1>4. grant => t = m.term
  BY <1>3 DEF NewerTerm, GrantsVote
<1>5. new = <<n, m.src, t>>
  OBVIOUS
<1> HIDE DEF newer, t, prior, grant, reply, new
<1>6. m \in Requests
  BY <1>1 DEF Requests
<1>7. \A r \in net' : r = reply \/ (r \in net /\ r # m)
  BY <1>1 DEF AfterReceiving, Transmit
<1>8. Requests' \subseteq Requests /\ m \notin Requests'
  <2>1. reply # m
    BY <1>1, <1>2
  <2> QED  BY <1>2, <1>7, <2>1 DEF Requests
<1>9. \A c : c # m.src \/ ~grant => Grants(c)' \subseteq Grants(c)
  BY <1>2, <1>7 DEF Grants
<1>10. CASE ~grant
  BY <1>1, <1>8, <1>9, <1>10, CountingKept
<1>11. CASE grant
  <2>1. new = <<m.dst, m.src, m.term>> /\ new[3] = m.term /\ new \notin cast /\ cast' = cast \cup {new}
    <3>1. new = <<m.dst, m.src, m.term>> /\ new[3] = m.term
      BY <1>1, <1>2, <1>4, <1>5, <1>11
    <3> QED  BY <1>1, <1>6, <1>11, <3>1 DEF Counting, RequestsOpen
  <2>2. RequestsOpen'
    <3> SUFFICES ASSUME NEW r \in Requests'
                 PROVE  /\ r.term <= term'[r.src]
                        /\ <<r.dst, r.src, r.term>> \notin cast'
                        /\ \A s \in Requests' :
                              s.src = r.src /\ s.dst = r.dst /\ s.term = r.term => s = r
      BY DEF RequestsOpen
    <3>1. r \in Requests /\ r # m
      BY <1>8
    <3>2. r.term \in Nat /\ r.src \in Server /\ r.term <= term[r.src]
      BY <3>1, MessageFields DEF Requests, TypeOK, Counting, RequestsOpen
    <3>3. r.term <= term'[r.src]
      <4>1. term[r.src] \in Nat /\ term'[r.src] \in Nat /\ term[r.src] <= term'[r.src]
        BY <3>2 DEF TypeOK, TermsRise
      <4> QED  BY <3>2, <4>1
    <3>4. <<r.dst, r.src, r.term>> # new
      <4>1. ~(m.src = r.src /\ m.dst = r.dst /\ m.term = r.term)
        BY <1>6, <3>1 DEF Counting, RequestsOpen
      <4> QED  BY <2>1, <4>1
    <3>5. <<r.dst, r.src, r.term>> \notin cast'
      BY <2>1, <3>1, <3>4 DEF Counting, RequestsOpen
    <3> QED  BY <1>8, <3>1, <3>3, <3>5 DEF Counting, RequestsOpen
  <2>3. CastInTerm'
    <3>1. ASSUME NEW b \in cast'
          PROVE  b[3] <= term'[b[2]]
      <4>1. b[2] \in Server /\ b[3] \in Nat
        BY DEF TypeOK
      <4>2. b[3] <= term[b[2]]
        <5>1. CASE b \in cast
          BY <5>1 DEF Counting, CastInTerm
        <5>2. CASE b = new
          BY <1>2, <1>6, <2>1, <5>2 DEF Counting, RequestsOpen
        <5> QED  BY <2>1, <5>1, <5>2
      <4>3. /\ term[b[2]] \in Nat /\ term'[b[2]] \in Nat
            /\ term[b[2]] <= term'[b[2]]
        BY <4>1 DEF TypeOK, TermsRise
      <4> QED  BY <4>1, <4>2, <4>3
    <3> QED  BY <3>1 DEF CastInTerm
  <2>4. Tallied'
    <3>1. Tallied
      BY DEF Counting
    <3>2. /\ IsFiniteSet(cast')
          /\ Cardinality(CastFor(m.src)) \in Nat
          /\ Cardinality(CastFor(m.src)') = Cardinality(CastFor(m.src)) + 1
          /\ \A d : CastFor(d) \subseteq CastFor(d)'
      BY <1>2, <2>1, <3>1, OneVoteMore
    <3>3. \A c \in Server : votes[c] \in Nat
      BY DEF TypeOK
    <3>4. ASSUME NEW c \in Server, c # m.src
          PROVE  /\ IsFiniteSet(Grants(c)')
                 /\ votes'[c] + Cardinality(Grants(c)') <= Cardinality(CastFor(c)')
      BY <1>1, <1>9, <3>1, <3>2, <3>3, <3>4, TallyKept
    <3>5. /\ IsFiniteSet(Grants(m.src)')
          /\ votes'[m.src] + Cardinality(Grants(m.src)') <= Cardinality(CastFor(m.src)')
      <4> DEFINE G == Grants(m.src)
                 more == G \cup {reply}
      <4>1. IsFiniteSet(G) /\ votes[m.src] + Cardinality(G) <= Cardinality(CastFor(m.src))
        BY <1>3, <3>1 DEF Tallied
      <4>2. G' \subseteq more
        BY <1>7 DEF Grants
      <4> HIDE DEF G
      <4>3. /\ IsFiniteSet(more) /\ Cardinality(G) \in Nat
            /\ Cardinality(more) <= Cardinality(G) + 1
        <5>1. IsFiniteSet(G) /\ Cardinality(G) \in Nat
          BY <4>1, FS_CardinalityType
        <5>2. /\ IsFiniteSet(more)
              /\ Cardinality(more) = IF reply \in G THEN Cardinality(G) ELSE Cardinality(G) + 1
          BY <5>1, FS_AddElement
        <5> QED  BY <5>1, <5>2
      <4> HIDE DEF more
      <4>4. /\ IsFiniteSet(G') /\ Cardinality(G') \in Nat
            /\ Cardinality(G') <= Cardinality(more)
            /\ Cardinality(more) \in Nat
        BY <4>2, <4>3, FS_Subset, FS_CardinalityType
      <4>5. votes'[m.src] = votes[m.src] /\ votes[m.src] \in Nat
        BY <1>1, <1>3, <3>3
      <4>6. votes'[m.src] + Cardinality(G') <= Cardinality(CastFor(m.src)')
        BY <3>2, <4>1, <4>3, <4>4, <4>5
      <4> QED  BY <4>4, <4>6 DEF G
    <3> QED  BY <3>2, <3>4, <3>5 DEF Tallied
  <2> QED  BY <2>2, <2>3, <2>4 DEF Counting
<1> QED  BY <1>10, <1>11

LEMMA TallyCounting ==
    ASSUME ~Duplicates, TypeOK, TypeOK', Counting, VoteTraffic', TermsRise,
           NEW n \in Server, NEW m \in net, m.dst = n, m.type = "VoteResponse",
           CountVote(n, m), cast' = cast
    PROVE  Counting'
<1>1. /\ m.vote_granted
      /\ votes' = [votes EXCEPT ![n] = votes[n] + 1]
  BY DEF CountVote, IsVote
<1>2. \A r \in net' : r.type \in VoteTypes => r \in net /\ r # m
  <2>1. CASE BecomeLeader(n, m)
    <3>1. PICK rest \in AfterReceiving(m) : Transmit(rest, AppendRequests(n, log[n], << >>))
      BY <2>1 DEF BecomeLeader
    <3>2. \A r \in net' : r \in rest \/ r.type = "AppendRequest"
      BY <3>1 DEF Transmit, AppendRequests
    <3> QED  BY <3>1, <3>2 DEF AfterReceiving, VoteTypes
  <2>2. CASE ~BecomeLeader(n, m)
    BY <2>2 DEF CountVote, AfterReceiving
  <2> QED  BY <2>1, <2>2
<1>3. Requests' \subseteq Requests /\ \A c : Grants(c)' \subseteq Grants(c) \ {m}
  BY <1>2 DEF Requests, Grants, VoteTypes
<1>4. RequestsOpen' /\ CastInTerm'
  BY <1>3, OpenKept
<1>5. Tallied'
  <2>1. Tallied
    BY DEF Counting
  <2>2. \A c : CastFor(c)' = CastFor(c)
    BY DEF CastFor
  <2>3. IsFiniteSet(cast') /\ \A c : IsFiniteSet(CastFor(c))
    BY <2>1, FS_Subset DEF Tallied, CastFor
  <2>4. \A c \in Server : votes[c] \in Nat /\ votes'[c] = IF c = n THEN votes[n] + 1 ELSE votes[c]
    BY <1>1 DEF TypeOK
  <2>5. ASSUME NEW c \in Server, c # n
        PROVE  /\ IsFiniteSet(Grants(c)')
               /\ votes'[c] + Cardinality(Grants(c)') <= Cardinality(CastFor(c)')
    BY <1>3, <2>1, <2>2, <2>3, <2>4, <2>5, TallyKept
  <2>6. /\ IsFiniteSet(Grants(n)')
        /\ votes'[n] + Cardinality(Grants(n)') <= Cardinality(CastFor(n)')
    <3> DEFINE G == Grants(n)
               fewer == G \ {m}
    <3>1. IsFiniteSet(G) /\ votes[n] + Cardinality(G) <= Cardinality(CastFor(n))
      BY <2>1 DEF Tallied
    <3>2. m \in G /\ G' \subseteq fewer
      BY <1>1, <1>3 DEF Grants
    <3> HIDE DEF G
    <3>3. /\ IsFiniteSet(fewer) /\ Cardinality(G) \in Nat
          /\ Cardinality(fewer) = Cardinality(G) - 1
      BY <3>1, <3>2, FS_RemoveElement, FS_CardinalityType
    <3> HIDE DEF fewer
    <3>4. IsFiniteSet(G') /\ Cardinality(G') \in Nat /\ Cardinality(G') <= Cardinality(fewer)
      BY <3>2, <3>3, FS_Subset, FS_CardinalityType
    <3>5. Cardinality(CastFor(n)) \in Nat
      BY <2>3, FS_CardinalityType
    <3>6. votes'[n] + Cardinality(G') <= Cardinality(CastFor(n)')
      BY <2>2, <2>4, <3>1, <3>3, <3>4, <3>5
    <3> QED  BY <3>4, <3>6 DEF G
  <2> QED  BY <2>3, <2>5, <2>6 DEF Tallied
<1> QED  BY <1>4, <1>5 DEF Counting

LEMMA StepCounting ==
    ASSUME ~Duplicates, Typed, Supported, Counting, [Next]_vars
    PROVE  Counting'
<1>0. /\ TypeOK /\ TypeOK' /\ VoteTraffic' /\ net \in SUBSET net
      /\ [CrashNext]_vars
  BY StepTyped, StepSupported DEF Typed, Supported, CrashNext
<1>1. TermsRise
  BY StepForward DEF Forward, TermsRise
<1>2. ASSUME NoNewVoteTraffic, cast' = cast, votes' = votes
      PROVE  Counting'
  BY <1>0, <1>1, <1>2, QuietTraffic, CountingKept
<1>3. ASSUME NEW n \in Server, raft_tick(n)
      PROVE  Counting'
  <2>1. CASE TickElection(n)
    BY <1>0, <2>1, ElectionCounting
  <2>2. CASE TickLeader(n)
    BY <1>0, <1>2, <2>2, NothingOfVotes DEF TickLeader, historyVars, voteVars
  <2>3. CASE TickIdle(n)
    BY <1>2, <2>3, NothingOfVotes DEF TickIdle, historyVars, voteVars
  <2> QED  BY <1>3, <2>1, <2>2, <2>3 DEF raft_tick
<1>4. ASSUME NEW n \in Server, NEW m \in net, raft_handle_vote_request(n, m)
      PROVE  Counting'
  BY <1>0, <1>1, <1>4, AnswerCounting
<1>5. ASSUME NEW n \in Server, NEW m \in net, raft_handle_vote_response(n, m)
      PROVE  Counting'
  <2>1. cast' = cast /\ m.dst = n /\ m.type = "VoteResponse"
    BY <1>5 DEF raft_handle_vote_response, Receives
  <2>2. CASE CountVote(n, m)
    BY <1>0, <1>1, <2>1, <2>2, TallyCounting
  <2>3. CASE StepDown(n, m) \/ IgnoreVoteResponse(n, m)
    <3>1. net' \in AfterReceiving(m) /\ votes' = votes
      BY <2>3 DEF StepDown, IgnoreVoteResponse, voteVars
    <3> QED  BY <1>2, <2>1, <3>1, NothingOfVotes
  <2> QED  BY <1>5, <2>2, <2>3 DEF raft_handle_vote_response
<1>6. ASSUME NEW n \in Server, NEW m \in net,
             raft_handle_append_entries(n, m) \/ raft_handle_append_response(n, m)
      PROVE  Counting'
  <2>1. votes' = votes
    BY <1>6 DEF raft_handle_append_entries, RejectStaleLeader, FollowLeader,
                raft_handle_append_response, StepDown, NoteMatch, IgnoreAppendResponse, voteVars
  <2> QED  BY <1>2, <1>6, <2>1, AppendTrafficQuiet
<1>7. ASSUME NEW n \in Server, raft_append_entry(n)
      PROVE  Counting'
  BY <1>0, <1>2, <1>7, NothingOfVotes DEF raft_append_entry, historyVars, voteVars
<1>8. CASE UNCHANGED vars
  BY <1>2, <1>8, NothingOfVotes DEF vars, historyVars, voteVars
<1> QED  BY <1>3, <1>4, <1>5, <1>6, <1>7, <1>8 DEF Next, NodeStep, Handle

\* When the network duplicates nothing, a candidate never counts more votes than
\* it was given, although it does not remember who voted, nor in which term.
THEOREM CountedVotesWereCast ==
    ASSUME ~Duplicates
    PROVE  Spec => []VotesWereCast
<1>1. Init => Counting
  BY InitCounting
<1>2. Init => Supported
  BY DEF Init, Supported, VoteTraffic, LeadersHaveSupport
<1>3. Typed /\ Supported /\ [CrashNext]_vars => Supported'
  BY StepSupported
<1>4. Typed /\ Supported /\ Counting /\ [Next]_vars => Counting'
  BY StepCounting
<1>5. Typed /\ Counting => VotesWereCast
  <2> SUFFICES ASSUME Typed, Counting, NEW n \in Server
               PROVE  votes[n] <= Cardinality({b \in cast : b[2] = n /\ b[3] <= term[n]})
    BY DEF VotesWereCast
  <2>1. CastFor(n) = {b \in cast : b[2] = n /\ b[3] <= term[n]}
    BY DEF CastFor, Counting, CastInTerm
  <2>2. /\ IsFiniteSet(Grants(n)) /\ IsFiniteSet(CastFor(n))
        /\ votes[n] + Cardinality(Grants(n)) <= Cardinality(CastFor(n))
    BY FS_Subset DEF Counting, Tallied, CastFor
  <2>3. Cardinality(Grants(n)) \in Nat /\ Cardinality(CastFor(n)) \in Nat /\ votes[n] \in Nat
    BY <2>2, FS_CardinalityType DEF Typed, TypeOK
  <2>4. votes[n] <= Cardinality(CastFor(n))
    BY <2>2, <2>3
  <2> QED  BY <2>1, <2>4
<1>6. [Next]_vars => [CrashNext]_vars
  BY DEF CrashNext
<1> QED  BY <1>1, <1>2, <1>3, <1>4, <1>5, <1>6, TypedInvariant, SpecImpliesCrashSpec, PTL DEF Spec

-----------------------------------------------------------------------------
(* What an election was won on.  Apart from its own vote a candidate counts only  *)
(* votes that others gave it, each at most once; so a winner has its own vote of  *)
(* the term it won and, with what it was given up to that term, a majority.       *)

GivenTo(c) == {b \in cast : b[2] = c /\ b[1] # c}
GivenUpTo(c, t) == {b \in GivenTo(c) : b[3] <= t}

CountsGifts(c) ==
    /\ Cardinality(Grants(c)) <= Cardinality(GivenTo(c))
    /\ votes[c] + Cardinality(Grants(c)) <= 1 + Cardinality(GivenTo(c))

StandsOnOwnVote(c) == state[c] = RAFT_CANDIDATE => <<c, c, term[c]>> \in cast

WonOnVotes(e) ==
    /\ <<e[1], e[1], e[2]>> \in cast
    /\ Majority(1 + Cardinality(GivenUpTo(e[1], e[2])))

Earned ==
    /\ \A c \in Server : CountsGifts(c) /\ StandsOnOwnVote(c)
    /\ \A e \in elected : WonOnVotes(e)

\* Sets of votes are finite and only grow.
LEMMA GiftsGrow ==
    ASSUME IsFiniteSet(cast'), cast \subseteq cast', NEW c, NEW t
    PROVE  /\ IsFiniteSet(GivenTo(c)) /\ IsFiniteSet(GivenTo(c)')
           /\ Cardinality(GivenTo(c)) \in Nat /\ Cardinality(GivenTo(c)') \in Nat
           /\ Cardinality(GivenTo(c)) <= Cardinality(GivenTo(c)')
           /\ Cardinality(GivenUpTo(c, t)) \in Nat /\ Cardinality(GivenUpTo(c, t)') \in Nat
           /\ Cardinality(GivenUpTo(c, t)) <= Cardinality(GivenUpTo(c, t)')
<1>1. GivenTo(c)' \subseteq cast' /\ GivenTo(c) \subseteq GivenTo(c)'
  BY DEF GivenTo
<1>2. GivenUpTo(c, t)' \subseteq cast' /\ GivenUpTo(c, t) \subseteq GivenUpTo(c, t)'
  BY DEF GivenTo, GivenUpTo
<1>3. IsFiniteSet(GivenTo(c)') /\ IsFiniteSet(GivenUpTo(c, t)')
  BY <1>1, <1>2, FS_Subset
<1>4. /\ IsFiniteSet(GivenTo(c)) /\ Cardinality(GivenTo(c)) <= Cardinality(GivenTo(c)')
      /\ IsFiniteSet(GivenUpTo(c, t))
      /\ Cardinality(GivenUpTo(c, t)) <= Cardinality(GivenUpTo(c, t)')
  BY <1>1, <1>2, <1>3, FS_Subset
<1> QED  BY <1>3, <1>4, FS_CardinalityType

\* A majority stays one when the count grows.
LEMMA MajorityGrows ==
    ASSUME NEW i \in Nat, NEW j \in Nat, i <= j, Majority(i)
    PROVE  Majority(j)
<1>1. g_cluster_size \in Nat
  BY ServerAssumption, FS_CardinalityType DEF g_cluster_size
<1> QED  BY <1>1 DEF Majority

\* No vote is taken back, so nobody loses what an election was won on.
LEMMA WinnersStay ==
    ASSUME IsFiniteSet(cast'), cast \subseteq cast', NEW e, WonOnVotes(e)
    PROVE  WonOnVotes(e)'
<1>1. /\ Cardinality(GivenUpTo(e[1], e[2])) \in Nat /\ Cardinality(GivenUpTo(e[1], e[2])') \in Nat
      /\ Cardinality(GivenUpTo(e[1], e[2])) <= Cardinality(GivenUpTo(e[1], e[2])')
  BY GiftsGrow
<1> DEFINE i == Cardinality(GivenUpTo(e[1], e[2]))
           j == Cardinality(GivenUpTo(e[1], e[2])')
<1>2. Majority(1 + i)
  BY DEF WonOnVotes
<1> HIDE DEF i, j
<1>3. 1 + i \in Nat /\ 1 + j \in Nat /\ 1 + i <= 1 + j
  BY <1>1 DEF i, j
<1>4. Majority(1 + j)
  BY <1>2, <1>3, MajorityGrows
<1> QED  BY <1>4 DEF WonOnVotes, Majority, g_cluster_size, j

\* What fewer grants and no more votes count to.
LEMMA GiftsKept ==
    ASSUME TypeOK, TypeOK', NEW c \in Server, CountsGifts(c), IsFiniteSet(cast'), cast \subseteq cast',
           IsFiniteSet(Grants(c)), Grants(c)' \subseteq Grants(c), votes'[c] = votes[c]
    PROVE  CountsGifts(c)'
<1>1. /\ Cardinality(GivenTo(c)) \in Nat /\ Cardinality(GivenTo(c)') \in Nat
      /\ Cardinality(GivenTo(c)) <= Cardinality(GivenTo(c)')
  BY GiftsGrow
<1>2. IsFiniteSet(Grants(c)') /\ Cardinality(Grants(c)') <= Cardinality(Grants(c))
  BY FS_Subset
<1>3. Cardinality(Grants(c)) \in Nat /\ Cardinality(Grants(c)') \in Nat /\ votes[c] \in Nat
  BY <1>2, FS_CardinalityType DEF TypeOK
<1> QED  BY <1>1, <1>2, <1>3 DEF CountsGifts

\* Steps that give and count no vote, and start no candidacy.
LEMMA EarnedKept ==
    ASSUME TypeOK, TypeOK', Tallied, Earned, cast' = cast, votes' = votes, elected' = elected,
           \A c : Grants(c)' \subseteq Grants(c),
           \A c \in Server : state'[c] = RAFT_CANDIDATE => state[c] = RAFT_CANDIDATE /\ term'[c] = term[c]
    PROVE  Earned'
<1>1. IsFiniteSet(cast') /\ cast \subseteq cast'
  BY DEF Tallied
<1>2. ASSUME NEW c \in Server
      PROVE  CountsGifts(c)' /\ StandsOnOwnVote(c)'
  <2>1. CountsGifts(c)'
    BY <1>1, GiftsKept DEF Earned, Tallied
  <2> QED  BY <2>1 DEF Earned, StandsOnOwnVote
<1>3. \A e \in elected : WonOnVotes(e)'
  BY <1>1, WinnersStay DEF Earned
<1> QED  BY <1>2, <1>3 DEF Earned

\* A candidate votes for itself and has one vote.
LEMMA ElectionEarned ==
    ASSUME TypeOK, TypeOK', Tallied, Tallied', Earned, NEW n \in Server, TickElection(n)
    PROVE  Earned'
<1>1. /\ elected' = elected
      /\ cast' = cast \cup {<<n, n, term[n] + 1>>}
      /\ \A c \in Server : votes'[c] = IF c = n THEN 1 ELSE votes[c]
      /\ \A c \in Server : c # n => state'[c] = state[c] /\ term'[c] = term[c]
      /\ term'[n] = term[n] + 1
      /\ \A m \in net' : m \in net \/ m \in VoteRequests(n, term[n] + 1)
  BY DEF TickElection, Transmit, TypeOK
<1>2. \A c : Grants(c)' \subseteq Grants(c)
  <2>1. \A m \in VoteRequests(n, term[n] + 1) : m.type = "VoteRequest"
    BY DEF VoteRequests
  <2> QED  BY <1>1, <2>1 DEF Grants
<1>3. IsFiniteSet(cast') /\ cast \subseteq cast'
  BY <1>1 DEF Tallied
<1>4. ASSUME NEW c \in Server
      PROVE  CountsGifts(c)'
  <2>1. CASE c # n
    BY <1>1, <1>2, <1>3, <2>1, GiftsKept DEF Earned, Tallied
  <2>2. CASE c = n
    <3>1. /\ Cardinality(GivenTo(c)) \in Nat /\ Cardinality(GivenTo(c)') \in Nat
          /\ Cardinality(GivenTo(c)) <= Cardinality(GivenTo(c)')
      BY <1>3, GiftsGrow
    <3>2. IsFiniteSet(Grants(c)) /\ Cardinality(Grants(c)) <= Cardinality(GivenTo(c))
      BY DEF Earned, CountsGifts, Tallied
    <3>3. IsFiniteSet(Grants(c)') /\ Cardinality(Grants(c)') <= Cardinality(Grants(c))
      BY <1>2, <3>2, FS_Subset
    <3>4. Cardinality(Grants(c)) \in Nat /\ Cardinality(Grants(c)') \in Nat
      BY <3>2, <3>3, FS_CardinalityType
    <3>5. votes'[c] = 1
      BY <1>1, <2>2
    <3> QED  BY <3>1, <3>2, <3>3, <3>4, <3>5 DEF CountsGifts
  <2> QED  BY <2>1, <2>2
<1>5. ASSUME NEW c \in Server
      PROVE  StandsOnOwnVote(c)'
  BY <1>1 DEF Earned, StandsOnOwnVote
<1>6. \A e \in elected : WonOnVotes(e)'
  BY <1>3, WinnersStay DEF Earned
<1> QED  BY <1>1, <1>4, <1>5, <1>6 DEF Earned

\* A vote given is one more for its candidate, and one more grant at most.
LEMMA AnswerEarned ==
    ASSUME TypeOK, TypeOK', Counting, Counting', Earned, NEW n \in Server, NEW m \in net,
           raft_handle_vote_request(n, m)
    PROVE  Earned'
<1> DEFINE newer == NewerTerm(n, m)
           t     == IF newer THEN m.term ELSE term[n]
           prior == IF newer THEN Nobody ELSE voted_for[n]
           grant == GrantsVote(n, m)
           reply == [type |-> "VoteResponse", src |-> n, dst |-> m.src,
                     term |-> t, vote_granted |-> grant]
           new   == <<n, m.src, t>>
<1>1. /\ votes' = votes /\ elected' = elected
      /\ state' = [state EXCEPT ![n] = IF newer THEN RAFT_FOLLOWER ELSE @]
      /\ term' = [term EXCEPT ![n] = t]
      /\ cast' = IF grant THEN cast \cup {new} ELSE cast
      /\ \E rest \in AfterReceiving(m) : Transmit(rest, {reply})
      /\ m.dst = n /\ m.type = "VoteRequest"
  BY DEF raft_handle_vote_request, Receives
<1>2. /\ reply.dst = m.src
      /\ reply.vote_granted <=> grant
      /\ new[1] = n /\ new[2] = m.src /\ new[3] = t
      /\ ~newer => t = term[n]
      /\ new = <<n, m.src, t>>
      /\ grant => t = m.term
  <2>1. m.term \in Nat /\ term[n] \in Nat
    BY MessageFields DEF TypeOK
  <2> QED  BY <2>1 DEF GrantsVote, NewerTerm
<1> HIDE DEF newer, t, prior, grant, reply, new
<1>3. m \in Requests /\ m.src # n /\ m.src \in Server
  BY <1>1, MessageFields DEF Requests, Counting, VoteTraffic, VoteTypes, TypeOK
<1>4. ASSUME NEW c \in Server
      PROVE  StandsOnOwnVote(c)'
  <2>1. CASE c # n
    BY <1>1, <2>1 DEF TypeOK, Earned, StandsOnOwnVote
  <2>2. CASE c = n
    BY <1>1, <1>2, <2>2 DEF TypeOK, Earned, StandsOnOwnVote, RAFT_FOLLOWER, RAFT_CANDIDATE
  <2> QED  BY <2>1, <2>2
<1>5. IsFiniteSet(cast') /\ cast \subseteq cast'
  BY <1>1 DEF Counting, Tallied
<1>6. \A r \in net' : r = reply \/ r \in net
  BY <1>1 DEF AfterReceiving, Transmit
<1>7. ASSUME NEW c \in Server
      PROVE  CountsGifts(c)'
  <2>0. IsFiniteSet(Grants(c)) /\ CountsGifts(c) /\ votes[c] \in Nat /\ votes'[c] = votes[c]
    BY <1>1 DEF Counting, Tallied, Earned, TypeOK
  <2>1. CASE c # m.src \/ ~grant
    <3>1. Grants(c)' \subseteq Grants(c)
      BY <1>2, <1>6, <2>1 DEF Grants
    <3> QED  BY <1>5, <2>0, <3>1, GiftsKept
  <2>2. CASE c = m.src /\ grant
    <3>1. new \notin cast
      <4>1. new = <<m.dst, m.src, m.term>>
        BY <1>1, <1>2, <2>2
      <4> QED  BY <1>3, <4>1 DEF Counting, RequestsOpen
    <3>2. GivenTo(c)' = GivenTo(c) \cup {new} /\ new \notin GivenTo(c)
      BY <1>1, <1>2, <1>3, <2>2, <3>1 DEF GivenTo
    <3>3. IsFiniteSet(GivenTo(c)) /\ Cardinality(GivenTo(c)) \in Nat
      BY <1>5, GiftsGrow
    <3>4. Cardinality(GivenTo(c)') = Cardinality(GivenTo(c)) + 1
      BY <3>2, <3>3, FS_AddElement
    <3>5. Grants(c)' \subseteq Grants(c) \cup {reply}
      BY <1>6 DEF Grants
    <3> DEFINE G == Grants(c)
               more == G \cup {reply}
    <3>6. /\ IsFiniteSet(G) /\ Cardinality(G) \in Nat
          /\ IsFiniteSet(more)
          /\ Cardinality(more) = IF reply \in G THEN Cardinality(G) ELSE Cardinality(G) + 1
      <4> HIDE DEF G
      <4> QED  BY <2>0, FS_CardinalityType, FS_AddElement DEF G
    <3>7. IsFiniteSet(Grants(c)') /\ Cardinality(Grants(c)') <= Cardinality(more)
      BY <3>5, <3>6, FS_Subset
    <3>8. Cardinality(Grants(c)') \in Nat
      BY <3>7, FS_CardinalityType
    <3>9. Cardinality(Grants(c)') <= Cardinality(G) + 1
      BY <3>6, <3>7, <3>8
    <3>10. /\ Cardinality(G) <= Cardinality(GivenTo(c))
           /\ votes[c] + Cardinality(G) <= 1 + Cardinality(GivenTo(c))
      BY <2>0 DEF CountsGifts
    <3> HIDE DEF G
    <3> QED  BY <2>0, <3>3, <3>4, <3>6, <3>8, <3>9, <3>10 DEF CountsGifts
  <2> QED  BY <2>1, <2>2
<1>8. \A e \in elected : WonOnVotes(e)'
  BY <1>5, WinnersStay DEF Earned
<1> QED  BY <1>1, <1>4, <1>7, <1>8 DEF Earned

\* A vote counted was a grant; the one that makes the majority makes a winner.
LEMMA TallyEarned ==
    ASSUME ~Duplicates, TypeOK, TypeOK', Counting, Counting', Earned,
           NEW n \in Server, NEW m \in net, m.dst = n, m.type = "VoteResponse",
           state[n] = RAFT_CANDIDATE, CountVote(n, m), cast' = cast
    PROVE  Earned'
<1>1. /\ m.vote_granted /\ term' = term
      /\ \A c \in Server : votes'[c] = IF c = n THEN votes[n] + 1 ELSE votes[c]
      /\ \A c \in Server : votes[c] \in Nat
  BY DEF CountVote, IsVote, TypeOK
<1>2. \A r \in net' : r.type \in VoteTypes => r \in net /\ r # m
  <2>1. CASE BecomeLeader(n, m)
    <3>1. PICK rest \in AfterReceiving(m) : Transmit(rest, AppendRequests(n, log[n], << >>))
      BY <2>1 DEF BecomeLeader
    <3>2. \A r \in net' : r \in rest \/ r.type = "AppendRequest"
      BY <3>1 DEF Transmit, AppendRequests
    <3> QED  BY <3>1, <3>2 DEF AfterReceiving, VoteTypes
  <2>2. CASE ~BecomeLeader(n, m)
    BY <2>2 DEF CountVote, AfterReceiving
  <2> QED  BY <2>1, <2>2
<1>3. \A c : Grants(c)' \subseteq Grants(c) \ {m}
  BY <1>2 DEF Grants, VoteTypes
<1>4. IsFiniteSet(cast') /\ cast \subseteq cast' /\ \A c \in Server : IsFiniteSet(Grants(c))
  BY DEF Counting, Tallied
<1>5. \A c : GivenTo(c)' = GivenTo(c)
  BY DEF GivenTo
<1>6. ASSUME NEW c \in Server
      PROVE  CountsGifts(c)'
  <2>1. CASE c # n
    BY <1>1, <1>3, <1>4, <2>1, GiftsKept DEF Earned
  <2>2. CASE c = n
    <3> DEFINE G == Grants(c)
               fewer == G \ {m}
    <3>1. m \in G /\ Grants(c)' \subseteq fewer /\ IsFiniteSet(G) /\ CountsGifts(c)
      BY <1>1, <1>3, <1>4, <2>2 DEF Grants, Earned
    <3>2. /\ Cardinality(G) <= Cardinality(GivenTo(c))
          /\ votes[c] + Cardinality(G) <= 1 + Cardinality(GivenTo(c))
      BY <3>1 DEF CountsGifts
    <3> HIDE DEF G
    <3>3. /\ IsFiniteSet(fewer) /\ Cardinality(G) \in Nat
          /\ Cardinality(fewer) = Cardinality(G) - 1
      BY <3>1, FS_RemoveElement, FS_CardinalityType
    <3> HIDE DEF fewer
    <3>4. IsFiniteSet(Grants(c)') /\ Cardinality(Grants(c)') <= Cardinality(fewer)
      BY <3>1, <3>3, FS_Subset
    <3>5. Cardinality(Grants(c)') \in Nat /\ Cardinality(GivenTo(c)) \in Nat
      BY <1>4, <3>4, FS_CardinalityType, GiftsGrow
    <3>6. votes'[c] = votes[c] + 1 /\ votes[c] \in Nat
      BY <1>1, <2>2
    <3> QED  BY <1>5, <3>2, <3>3, <3>4, <3>5, <3>6 DEF CountsGifts
  <2> QED  BY <2>1, <2>2
<1>7. ASSUME NEW c \in Server
      PROVE  StandsOnOwnVote(c)'
  <2>1. state'[c] = RAFT_CANDIDATE => state[c] = RAFT_CANDIDATE
    BY DEF CountVote, BecomeLeader, TypeOK, RAFT_LEADER, RAFT_CANDIDATE
  <2> QED  BY <1>1, <2>1 DEF Earned, StandsOnOwnVote
<1>8. ASSUME NEW e \in elected
      PROVE  WonOnVotes(e)'
  BY <1>4, <1>8, WinnersStay DEF Earned
<1>9. CASE Majority(votes[n] + 1) /\ BecomeLeader(n, m)
  <2>1. PICK t \in Nat : t = term[n]
    BY DEF TypeOK
  <2>2. elected' = elected \cup {<<n, t>>}
    BY <1>9, <2>1 DEF BecomeLeader
  <2>3. votes'[n] = votes[n] + 1 /\ votes[n] \in Nat
    BY <1>1
  <2>4. /\ votes'[n] + Cardinality(Grants(n)') <= 1 + Cardinality(GivenTo(n)')
        /\ IsFiniteSet(Grants(n)')
    BY <1>6 DEF CountsGifts, Counting, Tallied
  <2>5. Cardinality(Grants(n)') \in Nat /\ Cardinality(GivenTo(n)) \in Nat
    BY <1>4, <2>4, GiftsGrow, FS_CardinalityType
  <2>6. votes[n] + 1 <= 1 + Cardinality(GivenTo(n)) /\ 1 + Cardinality(GivenTo(n)) \in Nat
    BY <1>5, <2>3, <2>4, <2>5
  <2>7. Majority(1 + Cardinality(GivenTo(n)))
    BY <1>9, <2>3, <2>6, MajorityGrows
  <2>8. GivenUpTo(n, t)' = GivenTo(n)
    BY <1>1, <2>1 DEF GivenTo, GivenUpTo, Counting, CastInTerm
  <2>9. <<n, n, t>> \in cast'
    BY <2>1 DEF Earned, StandsOnOwnVote
  <2>10. WonOnVotes(<<n, t>>)'
    <3>1. Majority(1 + Cardinality(GivenUpTo(n, t)))'
      BY <2>7, <2>8 DEF Majority, g_cluster_size
    <3> QED  BY <2>9, <3>1 DEF WonOnVotes
  <2> QED  BY <1>6, <1>7, <1>8, <2>2, <2>10 DEF Earned
<1>10. CASE elected' = elected
  BY <1>6, <1>7, <1>8, <1>10 DEF Earned
<1> QED  BY <1>9, <1>10 DEF CountVote

LEMMA StepEarned ==
    ASSUME ~Duplicates, Typed, Supported, Counting, Counting', Earned, [Next]_vars
    PROVE  Earned'
<1>0. /\ TypeOK /\ TypeOK' /\ net \in SUBSET net /\ Tallied /\ Tallied'
      /\ RAFT_FOLLOWER # RAFT_CANDIDATE
  BY StepTyped DEF Typed, CrashNext, Counting, RAFT_FOLLOWER, RAFT_CANDIDATE
<1>1. ASSUME NoNewVoteTraffic, UNCHANGED <<cast, votes, elected>>,
             \A c \in Server : state'[c] = RAFT_CANDIDATE => state[c] = RAFT_CANDIDATE /\ term'[c] = term[c]
      PROVE  Earned'
  BY <1>0, <1>1, QuietTraffic, EarnedKept
<1>2. ASSUME NEW n \in Server, NEW m \in net, StepDown(n, m), cast' = cast
      PROVE  Earned'
  <2>1. /\ net' \in AfterReceiving(m) /\ UNCHANGED <<votes, elected>>
        /\ \A c \in Server : c # n => state'[c] = state[c] /\ term'[c] = term[c]
        /\ state'[n] = RAFT_FOLLOWER
    BY <1>0, <1>2 DEF StepDown, TypeOK
  <2>2. \A c \in Server : state'[c] = RAFT_CANDIDATE => state[c] = RAFT_CANDIDATE /\ term'[c] = term[c]
    BY <1>0, <2>1
  <2> QED  BY <1>1, <1>2, <2>1, <2>2, NothingOfVotes
<1>3. ASSUME NEW n \in Server, raft_tick(n)
      PROVE  Earned'
  <2>1. CASE TickElection(n)
    BY <1>0, <2>1, ElectionEarned
  <2>2. CASE TickLeader(n)
    BY <1>0, <1>1, <2>2, NothingOfVotes DEF TickLeader, historyVars, voteVars
  <2>3. CASE TickIdle(n)
    BY <1>1, <2>3, NothingOfVotes DEF TickIdle, historyVars, voteVars
  <2> QED  BY <1>3, <2>1, <2>2, <2>3 DEF raft_tick
<1>4. ASSUME NEW n \in Server, NEW m \in net, raft_handle_vote_request(n, m)
      PROVE  Earned'
  BY <1>0, <1>4, AnswerEarned
<1>5. ASSUME NEW n \in Server, NEW m \in net, raft_handle_vote_response(n, m)
      PROVE  Earned'
  <2>1. cast' = cast /\ m.dst = n /\ m.type = "VoteResponse"
    BY <1>5 DEF raft_handle_vote_response, Receives
  <2>2. CASE state[n] = RAFT_CANDIDATE /\ CountVote(n, m)
    BY <1>0, <2>1, <2>2, TallyEarned
  <2>3. CASE StepDown(n, m)
    BY <1>2, <2>1, <2>3
  <2>4. CASE IgnoreVoteResponse(n, m)
    <3>1. net' \in AfterReceiving(m) /\ UNCHANGED <<votes, state, term, elected>>
      BY <2>4 DEF IgnoreVoteResponse, voteVars
    <3> QED  BY <1>1, <2>1, <3>1, NothingOfVotes
  <2> QED  BY <1>5, <2>2, <2>3, <2>4 DEF raft_handle_vote_response
<1>6. ASSUME NEW n \in Server, NEW m \in net, raft_handle_append_entries(n, m)
      PROVE  Earned'
  <2>1. NoNewVoteTraffic /\ cast' = cast /\ elected' = elected
    BY <1>6, AppendTrafficQuiet
  <2>2. CASE RejectStaleLeader(n, m)
    BY <1>1, <2>1, <2>2 DEF RejectStaleLeader, voteVars
  <2>3. CASE FollowLeader(n, m)
    <3>1. /\ votes' = votes /\ state'[n] = RAFT_FOLLOWER
          /\ \A c \in Server : c # n => state'[c] = state[c] /\ term'[c] = term[c]
      BY <1>0, <2>3 DEF FollowLeader, TypeOK
    <3> QED  BY <1>0, <1>1, <2>1, <3>1
  <2> QED  BY <1>6, <2>2, <2>3 DEF raft_handle_append_entries
<1>7. ASSUME NEW n \in Server, NEW m \in net, raft_handle_append_response(n, m)
      PROVE  Earned'
  <2>1. NoNewVoteTraffic /\ cast' = cast /\ elected' = elected
    BY <1>7, AppendTrafficQuiet
  <2>2. CASE NoteMatch(n, m) \/ IgnoreAppendResponse(n, m)
    BY <1>1, <2>1, <2>2 DEF NoteMatch, IgnoreAppendResponse, voteVars
  <2> QED  BY <1>2, <1>7, <2>1, <2>2 DEF raft_handle_append_response
<1>8. ASSUME NEW n \in Server, raft_append_entry(n)
      PROVE  Earned'
  BY <1>0, <1>1, <1>8, NothingOfVotes DEF raft_append_entry, historyVars, voteVars
<1>9. CASE UNCHANGED vars
  BY <1>1, <1>9, NothingOfVotes DEF vars, historyVars, voteVars
<1> QED  BY <1>3, <1>4, <1>5, <1>6, <1>7, <1>8, <1>9 DEF Next, NodeStep, Handle

\* A winner that nobody else voted for in an earlier term was chosen by a majority
\* of the cluster in the term it won.
LEMMA FreshWinner ==
    ASSUME TypeOK, Tallied, NEW e \in elected, WonOnVotes(e),
           \A b \in GivenTo(e[1]) : ~(b[3] < e[2])
    PROVE  Majority(Cardinality({v \in Server : <<v, e[1], e[2]>> \in cast}))
<1> DEFINE c == e[1]
           t == e[2]
           gifts == GivenUpTo(c, t)
           V == {v \in Server : <<v, c, t>> \in cast}
           others == V \ {c}
           voter == [b \in gifts |-> b[1]]
<1>1. c \in Server /\ t \in Nat /\ <<c, c, t>> \in cast /\ Majority(1 + Cardinality(gifts))
  BY DEF TypeOK, WonOnVotes
<1>2. \A b \in gifts : b[1] \in others /\ b = <<b[1], c, t>>
  <2> SUFFICES ASSUME NEW b \in gifts
               PROVE  b[1] \in others /\ b = <<b[1], c, t>>
    OBVIOUS
  <2>1. /\ b \in cast /\ b[2] = c /\ b[1] # c /\ b[3] <= t /\ ~(b[3] < t)
        /\ b[1] \in Server /\ b[3] \in Nat /\ b = <<b[1], b[2], b[3]>>
    BY DEF GivenUpTo, GivenTo, TypeOK
  <2>2. b[3] = t
    BY <1>1, <2>1
  <2> QED  BY <2>1, <2>2
<1>3. voter \in Injection(gifts, others)
  BY <1>2 DEF Injection, IsInjective
<1>4. IsFiniteSet(V) /\ IsFiniteSet(others) /\ c \in V
  <2>1. IsFiniteSet(V)
    BY ServerAssumption, FS_Subset
  <2> QED  BY <1>1, <2>1, FS_Subset
<1> HIDE DEF voter, gifts, V
<1>5. Cardinality(others) = Cardinality(V) - 1 /\ Cardinality(V) \in Nat
  BY <1>4, FS_RemoveElement, FS_CardinalityType
<1> HIDE DEF others
<1>6. IsFiniteSet(gifts) /\ Cardinality(gifts) <= Cardinality(others)
  BY <1>3, <1>4, FS_Injection
<1>7. 1 + Cardinality(gifts) <= Cardinality(V) /\ 1 + Cardinality(gifts) \in Nat
  BY <1>5, <1>6, FS_CardinalityType
<1>8. Majority(Cardinality(V))
  BY <1>1, <1>5, <1>7, MajorityGrows
<1> QED  BY <1>8 DEF V

LEMMA EarnedInvariant ==
    ASSUME ~Duplicates
    PROVE  Spec => [](TypeOK /\ Tallied /\ Earned)
<1>1. Init => Counting
  BY InitCounting
<1>2. Init => Supported
  BY DEF Init, Supported, VoteTraffic, LeadersHaveSupport
<1>3. Init => Earned
  <2> SUFFICES ASSUME Init
               PROVE  \A c \in Server : CountsGifts(c) /\ StandsOnOwnVote(c)
    BY DEF Init, Earned
  <2>1. \A c \in Server : Grants(c) = {} /\ GivenTo(c) = {} /\ votes[c] = 0 /\ state[c] = RAFT_FOLLOWER
    BY DEF Init, Grants, GivenTo
  <2> QED  BY <2>1, FS_EmptySet DEF CountsGifts, StandsOnOwnVote, RAFT_FOLLOWER, RAFT_CANDIDATE
<1>4. Typed /\ Supported /\ [CrashNext]_vars => Supported'
  BY StepSupported
<1>5. Typed /\ Supported /\ Counting /\ [Next]_vars => Counting'
  BY StepCounting
<1>6. Typed /\ Supported /\ Counting /\ Counting' /\ Earned /\ [Next]_vars => Earned'
  BY StepEarned
<1>7. Typed /\ Counting => TypeOK /\ Tallied
  BY DEF Typed, Counting
<1>8. [Next]_vars => [CrashNext]_vars
  BY DEF CrashNext
<1> QED  BY <1>1, <1>2, <1>3, <1>4, <1>5, <1>6, <1>7, <1>8, TypedInvariant, SpecImpliesCrashSpec, PTL DEF Spec

\* What LeaderHasQuorum of ChronosRaft lacks (raft.c:485-486 promises it): where the
\* network duplicates nothing and nobody restarts, a leader without a majority of the
\* votes of its term was voted for by another node in an earlier term, and
\* raft.c:510 counted the late answer.  There is no other way.
MissingQuorumForCause ==
    \A e \in elected :
        \/ Majority(Cardinality({v \in Server : <<v, e[1], e[2]>> \in cast}))
        \/ \E b \in cast : b[2] = e[1] /\ b[1] # e[1] /\ b[3] < e[2]

\* What OneLeaderPerTerm lacks (raft.c:580 relies on it): if a term has two leaders,
\* a node voted for both of them in that term, which the vote forgotten at raft.c:590
\* allows, or another node had voted for one of them in an earlier term.
TwoLeadersForCause ==
    \A d, e \in elected : d[2] = e[2] /\ d[1] # e[1] =>
        \/ \E v \in Server : <<v, d[1], d[2]>> \in cast /\ <<v, e[1], e[2]>> \in cast
        \/ \E b \in cast : b[2] \in {d[1], e[1]} /\ b[1] # b[2] /\ b[3] < d[2]

\* Two majorities of one cluster have a node in common.
LEMMA QuorumsMeet ==
    ASSUME NEW V \in SUBSET Server, NEW W \in SUBSET Server,
           Majority(Cardinality(V)), Majority(Cardinality(W))
    PROVE  V \cap W # {}
<1>1. IsFiniteSet(Server) /\ IsFiniteSet(V) /\ IsFiniteSet(W)
  BY ServerAssumption, FS_Subset
<1>2. Cardinality(V) \in Nat /\ Cardinality(W) \in Nat /\ Cardinality(Server) \in Nat
  BY <1>1, FS_CardinalityType
<1>3. Cardinality(V) + Cardinality(W) > Cardinality(Server)
  BY <1>2 DEF Majority, g_cluster_size
<1> QED  BY <1>1, <1>3, FS_MajoritiesIntersect

\* A leader that a majority did not vote for in its term owes its office to a vote
\* of an earlier one.
THEOREM MissingQuorumHasCause ==
    ASSUME ~Duplicates
    PROVE  Spec => []MissingQuorumForCause
<1>1. TypeOK /\ Tallied /\ Earned => MissingQuorumForCause
  BY FreshWinner DEF Earned, GivenTo, MissingQuorumForCause
<1> QED  BY <1>1, EarnedInvariant, PTL

\* A term has two leaders only where a node voted twice in it, or where one of them
\* had a vote of an earlier term.
THEOREM TwoLeadersHaveCause ==
    ASSUME ~Duplicates
    PROVE  Spec => []TwoLeadersForCause
<1>1. ASSUME TypeOK, Tallied, Earned
      PROVE  TwoLeadersForCause
  <2> SUFFICES ASSUME NEW d \in elected, NEW e \in elected, d[2] = e[2],
                      ~\E b \in cast : b[2] \in {d[1], e[1]} /\ b[1] # b[2] /\ b[3] < d[2]
               PROVE  \E v \in Server : <<v, d[1], d[2]>> \in cast /\ <<v, e[1], e[2]>> \in cast
    BY DEF TwoLeadersForCause
  <2> DEFINE V(w) == {v \in Server : <<v, w[1], w[2]>> \in cast}
  <2>1. Majority(Cardinality(V(d))) /\ Majority(Cardinality(V(e)))
    BY <1>1, FreshWinner DEF Earned, GivenTo
  <2>2. V(d) \cap V(e) # {}
    BY <2>1, QuorumsMeet
  <2> QED  BY <2>2
<1> QED  BY <1>1, EarnedInvariant, PTL

-----------------------------------------------------------------------------
(* A commit index is backed by logs that reach it.  A leader counts lengths its  *)
(* peers reported, a follower takes over a commit index that was backed when it  *)
(* was sent, and logs never get shorter.                                         *)

Backed(k) == Majority(Cardinality({p \in Server : Len(log[p]) >= k}))

MatchesAreReal == \A n, p \in Server : match_idx[n][p] <= Len(log[p])

DatagramBacked(m) ==
    /\ m.type = "AppendResponse" => m.match_index <= Len(log[m.src])
    /\ m.type = "AppendRequest" => \A k \in 1..m.leader_commit : Backed(k)

Backing == CommitsAreBacked /\ MatchesAreReal /\ \A m \in net : DatagramBacked(m)

\* A majority of one set is a majority of any larger one.
LEMMA LargerMajority ==
    ASSUME NEW A \in SUBSET Server, NEW B \in SUBSET Server, A \subseteq B, Majority(Cardinality(A))
    PROVE  Majority(Cardinality(B))
<1>1. IsFiniteSet(Server)
  BY ServerAssumption
<1>2. IsFiniteSet(B) /\ IsFiniteSet(A)
  BY <1>1, FS_Subset
<1>3. Cardinality(A) <= Cardinality(B)
  BY <1>2, FS_Subset
<1>4. Cardinality(A) \in Nat /\ Cardinality(B) \in Nat /\ g_cluster_size \in Nat
  BY <1>1, <1>2, FS_CardinalityType DEF g_cluster_size
<1> QED  BY <1>3, <1>4 DEF Majority

\* What was backed stays so while logs only grow.
LEMMA BackedStays ==
    ASSUME Typed, Typed', Forward, NEW k \in Nat, Backed(k)
    PROVE  Backed(k)'
<1> DEFINE A == {p \in Server : Len(log[p]) >= k}
           B == {p \in Server : Len(log'[p]) >= k}
<1>1. A \subseteq B
  <2> SUFFICES ASSUME NEW p \in Server, Len(log[p]) >= k
               PROVE  Len(log'[p]) >= k
    OBVIOUS
  <2>1. Len(log[p]) \in Nat /\ Len(log'[p]) \in Nat
    BY LenProperties DEF Typed, TypeOK
  <2>2. Len(log[p]) <= Len(log'[p])
    BY DEF Forward, Extends
  <2> QED  BY <2>1, <2>2
<1>2. Majority(Cardinality(A))
  BY DEF Backed
<1>3. Majority(Cardinality(B))
  BY <1>1, <1>2, LargerMajority
<1> QED  BY <1>3 DEF Backed, Majority, g_cluster_size

\* What the invariant says of the old commit indexes, acknowledgements and
\* datagrams is still true of the new logs.
LEMMA Carried ==
    ASSUME Typed, Typed', Forward, Backing
    PROVE  /\ \A n \in Server : \A k \in 1..commit_idx[n] : Backed(k)'
           /\ \A n, p \in Server : match_idx[n][p] <= Len(log'[p])
           /\ \A m \in net : /\ m.type = "AppendResponse" => m.match_index <= Len(log'[m.src])
                             /\ m.type = "AppendRequest" =>
                                   \A k \in 1..m.leader_commit : Backed(k)'
<1>1. \A p \in Server :
         Len(log[p]) \in Nat /\ Len(log'[p]) \in Nat /\ Len(log[p]) <= Len(log'[p])
  BY LenProperties DEF Typed, TypeOK, Forward, Extends
<1>2. ASSUME NEW n \in Server, NEW k \in 1..commit_idx[n]
      PROVE  Backed(k)'
  <2>1. Backed(k)
    BY DEF Backing, CommitsAreBacked, Backed
  <2>2. k \in Nat
    BY DEF Typed, TypeOK
  <2> QED  BY <2>1, <2>2, BackedStays
<1>3. ASSUME NEW n \in Server, NEW p \in Server
      PROVE  match_idx[n][p] <= Len(log'[p])
  <2>1. match_idx[n][p] \in Nat
    BY DEF Typed, TypeOK
  <2> QED  BY <1>1, <2>1 DEF Backing, MatchesAreReal
<1>4. ASSUME NEW m \in net, m.type = "AppendResponse"
      PROVE  m.match_index <= Len(log'[m.src])
  <2>1. m.src \in Server /\ m \in AppendEntriesResponse_t
    BY <1>4, MessageFields DEF Typed, TypeOK
  <2>2. m.match_index \in Nat
    BY <2>1 DEF AppendEntriesResponse_t
  <2>3. m.match_index <= Len(log[m.src])
    BY <1>4 DEF Backing, DatagramBacked
  <2> QED  BY <1>1, <2>1, <2>2, <2>3
<1>5. ASSUME NEW m \in net, m.type = "AppendRequest", NEW k \in 1..m.leader_commit
      PROVE  Backed(k)'
  BY <1>5, BackedStays DEF Backing, DatagramBacked
<1> QED  BY <1>2, <1>3, <1>4, <1>5

\* A step that leaves the commit indexes and acknowledgements alone and sends only
\* datagrams that are backed.
LEMMA BackingKept ==
    ASSUME Typed, Typed', Forward, Backing, UNCHANGED <<commit_idx, match_idx>>,
           \A m \in net' : m \in net \/ DatagramBacked(m)'
    PROVE  Backing'
<1>1. CommitsAreBacked'
  BY Carried DEF CommitsAreBacked, Backed
<1>2. MatchesAreReal'
  BY Carried DEF MatchesAreReal
<1>3. \A m \in net' : DatagramBacked(m)'
  BY Carried DEF DatagramBacked
<1> QED  BY <1>1, <1>2, <1>3 DEF Backing

\* The broadcasts of append requests carry the sender's commit index.
LEMMA RequestsBacked ==
    ASSUME Typed, Typed', Forward, Backing, NEW n \in Server, NEW lg, NEW entry,
           NEW rest \in SUBSET net, Transmit(rest, AppendRequests(n, lg, entry))
    PROVE  \A m \in net' : m \in net \/ DatagramBacked(m)'
<1> SUFFICES ASSUME NEW m \in AppendRequests(n, lg, entry)
             PROVE  DatagramBacked(m)'
  BY DEF Transmit
<1>1. m.type = "AppendRequest" /\ m.leader_commit = commit_idx[n]
  BY DEF AppendRequests
<1> QED  BY <1>1, Carried DEF DatagramBacked

\* The index a leader commits is the length a majority has reached.
LEMMA CommittableIsBacked ==
    ASSUME Typed, Backing, NEW n \in Server, NEW c \in Committable(n), NEW k \in 1..c
    PROVE  Backed(k)
<1>1. c \in Nat /\ c <= Len(log[n]) /\ k \in Nat /\ k <= c
  <2>1. commit_idx[n] \in Nat /\ Len(log[n]) \in Nat
    BY LenProperties DEF Typed, TypeOK
  <2> QED  BY <2>1 DEF Committable
<1> DEFINE B == {p \in Server : Len(log[p]) >= k}
<1>2. AckedBy(n, c) \subseteq B
  <2> SUFFICES ASSUME NEW p \in AckedBy(n, c)
               PROVE  p \in Server /\ Len(log[p]) >= k
    OBVIOUS
  <2>1. p \in Server
    BY DEF AckedBy, Peers
  <2>2. Len(log[p]) \in Nat /\ match_idx[n][p] \in Nat /\ match_idx[n][p] <= Len(log[p])
    BY <2>1, LenProperties DEF Typed, TypeOK, Backing, MatchesAreReal
  <2>3. p = n \/ match_idx[n][p] >= c
    BY DEF AckedBy
  <2> QED  BY <1>1, <2>1, <2>2, <2>3
<1>3. Majority(Cardinality(AckedBy(n, c)))
  BY DEF Committable
<1>4. B \in SUBSET Server /\ AckedBy(n, c) \in SUBSET Server
  BY DEF AckedBy, Peers
<1>5. Majority(Cardinality(B))
  BY <1>2, <1>3, <1>4, LargerMajority
<1> QED  BY <1>5 DEF Backed

LEMMA StepBacking ==
    ASSUME Typed, Led, Backing, [Next]_vars
    PROVE  Backing'
<1>0. /\ Typed' /\ Forward /\ TypeOK /\ TypeOK'
      /\ \A p \in Server : Len(log'[p]) \in Nat
  <2>1. Typed'
    BY StepTyped DEF CrashNext
  <2> QED  BY <2>1, StepForward, LenProperties DEF Typed, TypeOK
<1>1. ASSUME UNCHANGED <<commit_idx, match_idx>>,
             \A m \in net' : m \in net \/ m.type \in {"VoteRequest", "VoteResponse"}
      PROVE  Backing'
  BY <1>0, <1>1, BackingKept DEF DatagramBacked
<1>2. ASSUME NEW m, net' \in AfterReceiving(m)
      PROVE  net' \subseteq net
  BY <1>2 DEF AfterReceiving
<1>3. ASSUME NEW m, NEW packets, NEW rest \in AfterReceiving(m), Transmit(rest, packets)
      PROVE  net' \subseteq net \cup packets
  BY <1>3 DEF AfterReceiving, Transmit
<1>4. ASSUME NEW n \in Server, raft_tick(n)
      PROVE  Backing'
  <2>1. match_idx' = match_idx
    BY <1>4 DEF raft_tick, leaderVars
  <2>2. CASE TickLeader(n)
    <3>1. PICK c \in {commit_idx[n]} \cup Committable(n) :
             commit_idx' = [commit_idx EXCEPT ![n] = c]
      BY <2>2 DEF TickLeader
    <3>2. \A k \in 1..c : Backed(k)
      BY <3>1, CommittableIsBacked DEF Backing, CommitsAreBacked, Backed
    <3>3. log' = log
      BY <2>2 DEF TickLeader
    <3>4. CommitsAreBacked'
      <4> SUFFICES ASSUME NEW p \in Server, NEW k \in 1..commit_idx'[p]
                   PROVE  Backed(k)'
        BY DEF CommitsAreBacked, Backed
      <4>1. CASE p = n
        <5>1. commit_idx'[p] = c
          BY <1>0, <3>1, <4>1 DEF TypeOK
        <5>2. Backed(k)
          BY <3>2, <5>1
        <5> QED  BY <3>3, <5>2 DEF Backed, Majority, g_cluster_size
      <4>2. CASE p # n
        <5>1. commit_idx'[p] = commit_idx[p]
          BY <1>0, <3>1, <4>2 DEF TypeOK
        <5> QED  BY <1>0, <5>1, Carried
      <4> QED  BY <4>1, <4>2
    <3>5. \A m \in net' : m \in net \/ DatagramBacked(m)'
      BY <1>0, <2>2, RequestsBacked DEF TickLeader
    <3>6. \A m \in net' : DatagramBacked(m)'
      BY <1>0, <3>5, Carried DEF DatagramBacked
    <3>7. MatchesAreReal'
      BY <1>0, <2>1, Carried DEF MatchesAreReal
    <3> QED  BY <3>4, <3>6, <3>7 DEF Backing
  <2>3. CASE TickElection(n) \/ TickIdle(n)
    <3>1. \A m \in net' : m \in net \/ m.type \in {"VoteRequest", "VoteResponse"}
      BY <2>3 DEF TickElection, TickIdle, Transmit, VoteRequests
    <3>2. commit_idx' = commit_idx
      BY <2>3 DEF TickElection, TickIdle, logVars
    <3> QED  BY <1>1, <2>1, <3>1, <3>2
  <2> QED  BY <1>4, <2>2, <2>3 DEF raft_tick
<1>5. ASSUME NEW n \in Server, NEW m \in net, raft_handle_vote_request(n, m)
      PROVE  Backing'
  <2>1. PICK answer : /\ answer.type = "VoteResponse"
                      /\ \E rest \in AfterReceiving(m) : Transmit(rest, {answer})
    BY <1>5 DEF raft_handle_vote_request
  <2>2. \A r \in net' : r \in net \/ r.type \in {"VoteRequest", "VoteResponse"}
    BY <1>3, <2>1
  <2> QED  BY <1>1, <1>5, <2>2 DEF raft_handle_vote_request, logVars, leaderVars
<1>6. ASSUME NEW n \in Server, NEW m \in net, StepDown(n, m), UNCHANGED logVars
      PROVE  Backing'
  BY <1>1, <1>2, <1>6 DEF StepDown, logVars, leaderVars
<1>7. ASSUME NEW n \in Server, NEW m \in net, raft_handle_vote_response(n, m)
      PROVE  Backing'
  <2>1. UNCHANGED <<log, commit_idx>>
    BY <1>7 DEF raft_handle_vote_response, logVars
  <2>2. CASE CountVote(n, m) /\ BecomeLeader(n, m)
    <3>1. \A r \in net' : r \in net \/ DatagramBacked(r)'
      <4>1. PICK rest \in AfterReceiving(m) : Transmit(rest, AppendRequests(n, log[n], << >>))
        BY <2>2 DEF BecomeLeader
      <4>2. rest \in SUBSET net
        BY <4>1 DEF AfterReceiving
      <4> QED  BY <1>0, <4>1, <4>2, RequestsBacked
    <3>2. \A r \in net' : DatagramBacked(r)'
      BY <1>0, <3>1, Carried DEF DatagramBacked
    <3>3. CommitsAreBacked'
      BY <1>0, <2>1, Carried DEF CommitsAreBacked, Backed
    <3>4. MatchesAreReal'
      <4> SUFFICES ASSUME NEW l \in Server, NEW p \in Server
                   PROVE  match_idx'[l][p] <= Len(log'[p])
        BY DEF MatchesAreReal
      <4>1. CASE l = n
        <5>1. match_idx'[l] = [q \in Server |-> 0]
          BY <1>0, <2>2, <4>1 DEF BecomeLeader, TypeOK
        <5> QED  BY <1>0, <5>1
      <4>2. CASE l # n
        <5>1. match_idx'[l] = match_idx[l]
          BY <1>0, <2>2, <4>2 DEF BecomeLeader, TypeOK
        <5> QED  BY <1>0, <5>1, Carried
      <4> QED  BY <4>1, <4>2
    <3> QED  BY <3>2, <3>3, <3>4 DEF Backing
  <2>3. CASE CountVote(n, m) /\ ~BecomeLeader(n, m)
    BY <1>1, <1>2, <2>1, <2>3 DEF CountVote, leaderVars
  <2>4. CASE IgnoreVoteResponse(n, m)
    BY <1>1, <1>2, <2>1, <2>4 DEF IgnoreVoteResponse, leaderVars
  <2> QED  BY <1>6, <1>7, <2>2, <2>3, <2>4 DEF raft_handle_vote_response
<1>8. ASSUME NEW n \in Server, NEW m \in net, raft_handle_append_entries(n, m)
      PROVE  Backing'
  <2>1. /\ match_idx' = match_idx
        /\ m.type = "AppendRequest"
        /\ m.leader_commit \in Nat
        /\ commit_idx[n] \in Nat
    <3>1. m \in AppendEntriesRequest_t
      BY <1>0, <1>8, MessageFields DEF raft_handle_append_entries, Receives, TypeOK
    <3> QED  BY <1>0, <1>8, <3>1
             DEF raft_handle_append_entries, leaderVars, Receives, TypeOK, AppendEntriesRequest_t
  <2>2. log' = log
    <3>1. CASE AcceptPrev(n, m)
      BY <2>1, <3>1, NothingStored DEF Led
    <3>2. CASE RejectStaleLeader(n, m) \/ RejectPrev(n, m)
      BY <3>2 DEF RejectStaleLeader, RejectPrev, logVars
    <3> QED  BY <1>8, <3>1, <3>2 DEF raft_handle_append_entries
  <2>3. ASSUME NEW t, NEW ok,
               \E rest \in AfterReceiving(m) :
                  Transmit(rest, {AppendResponse(n, m, t, ok, Len(log[n]))})
        PROVE  \A r \in net' : r \in net \/ DatagramBacked(r)'
    <3>1. \A r \in net' : r \in net \/ r = AppendResponse(n, m, t, ok, Len(log[n]))
      BY <1>3, <2>3
    <3>2. ASSUME NEW r, r = AppendResponse(n, m, t, ok, Len(log[n]))
          PROVE  DatagramBacked(r)'
      <4>1. r.type = "AppendResponse" /\ r.src = n /\ r.match_index = Len(log'[n])
        BY <2>2, <3>2 DEF AppendResponse
      <4> QED  BY <1>0, <4>1 DEF DatagramBacked
    <3> QED  BY <3>1, <3>2
  <2>4. CASE RejectStaleLeader(n, m) \/ RejectPrev(n, m)
    <3>1. \A r \in net' : r \in net \/ DatagramBacked(r)'
      BY <2>3, <2>4 DEF RejectStaleLeader, RejectPrev
    <3>2. commit_idx' = commit_idx
      BY <2>4 DEF RejectStaleLeader, RejectPrev, logVars
    <3> QED  BY <1>0, <2>1, <3>1, <3>2, BackingKept
  <2>5. CASE AcceptPrev(n, m)
    <3>1. \A r \in net' : r \in net \/ DatagramBacked(r)'
      BY <2>2, <2>3, <2>5 DEF AcceptPrev
    <3>2. \A r \in net' : DatagramBacked(r)'
      BY <1>0, <3>1, Carried DEF DatagramBacked
    <3>3. MatchesAreReal'
      BY <1>0, <2>1, Carried DEF MatchesAreReal
    <3>4. PICK c : c = FollowCommit(commit_idx[n], m.leader_commit, Len(log[n]))
      OBVIOUS
    <3>5. commit_idx' = [commit_idx EXCEPT ![n] = c]
      BY <2>2, <2>5, <3>4 DEF AcceptPrev
    <3>6. c <= commit_idx[n] \/ c <= m.leader_commit
      <4>1. Len(log[n]) \in Nat
        BY <1>0, <2>2
      <4> QED  BY <2>1, <3>4, <4>1 DEF FollowCommit
    <3>7. CommitsAreBacked'
      <4> SUFFICES ASSUME NEW p \in Server, NEW k \in 1..commit_idx'[p]
                   PROVE  Backed(k)'
        BY DEF CommitsAreBacked, Backed
      <4>1. CASE p = n
        <5>1. commit_idx'[p] = c
          BY <1>0, <3>5, <4>1 DEF TypeOK
        <5>2. c \in Nat
          BY <1>0, <5>1 DEF TypeOK
        <5>3. k \in 1..commit_idx[n] \/ k \in 1..m.leader_commit
          BY <2>1, <3>6, <5>1, <5>2
        <5> QED  BY <1>0, <2>1, <5>3, Carried
      <4>2. CASE p # n
        <5>1. commit_idx'[p] = commit_idx[p]
          BY <1>0, <3>5, <4>2 DEF TypeOK
        <5> QED  BY <1>0, <5>1, Carried
      <4> QED  BY <4>1, <4>2
    <3> QED  BY <3>2, <3>3, <3>7 DEF Backing
  <2> QED  BY <1>8, <2>4, <2>5 DEF raft_handle_append_entries
<1>9. ASSUME NEW n \in Server, NEW m \in net, raft_handle_append_response(n, m)
      PROVE  Backing'
  <2>1. UNCHANGED logVars
    BY <1>9 DEF raft_handle_append_response
  <2>2. CASE NoteMatch(n, m)
    <3>1. \A r \in net' : DatagramBacked(r)'
      BY <1>0, <1>2, <2>2, Carried DEF NoteMatch, DatagramBacked
    <3>2. CommitsAreBacked'
      BY <1>0, <2>1, Carried DEF CommitsAreBacked, Backed, logVars
    <3>3. MatchesAreReal'
      <4> SUFFICES ASSUME NEW l \in Server, NEW p \in Server
                   PROVE  match_idx'[l][p] <= Len(log'[p])
        BY DEF MatchesAreReal
      <4>1. CASE m.success /\ l = n /\ p = m.src
        <5>1. match_idx'[l][p] = m.match_index
          BY <1>0, <2>2, <4>1 DEF NoteMatch, TypeOK
        <5>2. m.type = "AppendResponse"
          BY <1>9 DEF raft_handle_append_response, Receives
        <5> QED  BY <1>0, <4>1, <5>1, <5>2, Carried
      <4>2. CASE ~(m.success /\ l = n /\ p = m.src)
        <5>1. match_idx'[l][p] = match_idx[l][p]
          <6>1. CASE m.success
            <7>1. match_idx \in [Server -> [Server -> Nat]] /\ match_idx[n] \in [Server -> Nat]
              BY <1>0 DEF TypeOK
            <7>2. match_idx' = [match_idx EXCEPT ![n] =
                                   [match_idx[n] EXCEPT ![m.src] = m.match_index]]
              BY <2>2, <6>1, <7>1 DEF NoteMatch
            <7>3. CASE l # n
              BY <7>1, <7>2, <7>3
            <7>4. CASE l = n /\ p # m.src
              BY <7>1, <7>2, <7>4
            <7> QED  BY <4>2, <6>1, <7>3, <7>4
          <6>2. CASE ~m.success
            BY <2>2, <6>2 DEF NoteMatch
          <6> QED  BY <6>1, <6>2
        <5> QED  BY <1>0, <5>1, Carried
      <4> QED  BY <4>1, <4>2
    <3> QED  BY <3>1, <3>2, <3>3 DEF Backing
  <2>3. CASE IgnoreAppendResponse(n, m)
    BY <1>1, <1>2, <2>1, <2>3 DEF IgnoreAppendResponse, logVars, leaderVars
  <2> QED  BY <1>6, <1>9, <2>1, <2>2, <2>3 DEF raft_handle_append_response
<1>10. ASSUME NEW n \in Server, raft_append_entry(n)
       PROVE  Backing'
  <2>1. \A r \in net' : r \in net \/ DatagramBacked(r)'
    BY <1>0, <1>10, RequestsBacked DEF raft_append_entry
  <2> QED  BY <1>0, <1>10, <2>1, BackingKept DEF raft_append_entry, leaderVars
<1>11. CASE UNCHANGED vars
  BY <1>1, <1>11 DEF vars, logVars, leaderVars
<1> QED  BY <1>4, <1>5, <1>7, <1>8, <1>9, <1>10, <1>11 DEF Next, NodeStep, Handle

LEMMA InitBacking ==
    ASSUME Init
    PROVE  Backing
<1>1. \A n \in Server : 1..commit_idx[n] = {}
  BY DEF Init
<1>2. MatchesAreReal
  BY EmptySeq DEF Init, MatchesAreReal
<1> QED  BY <1>1, <1>2 DEF Init, Backing, CommitsAreBacked

\* Every committed index is backed by a majority of logs that reach it.
THEOREM CommitsBacked == Spec => []CommitsAreBacked
<1>1. Init => Backing
  BY InitBacking
<1>2. Typed /\ Led /\ Backing /\ [Next]_vars => Backing'
  BY StepBacking
<1>3. Backing => CommitsAreBacked
  BY DEF Backing
<1> QED  BY <1>1, <1>2, <1>3, LedInvariant, SpecImpliesCrashSpec, PTL DEF Spec

-----------------------------------------------------------------------------
(* Only three kinds of step touch a log or what was applied of it *)

LEMMA LogSteps ==
    ASSUME Typed, Led, [CrashNext]_vars
    PROVE  \/ UNCHANGED <<log, applied>> /\ [Next]_vars
           \/ \E n \in Server : raft_tick(n) /\ UNCHANGED restarts
           \/ \E n \in Server : raft_append_entry(n) /\ UNCHANGED restarts
           \/ \E n \in Server : Restart(n)
<1>1. ASSUME NEW n \in Server, NEW m \in net, Handle(n, m)
      PROVE  UNCHANGED <<log, applied>>
  <2>1. CASE raft_handle_append_entries(n, m)
    <3>1. applied' = applied /\ m.type = "AppendRequest"
      BY <2>1 DEF raft_handle_append_entries, applyVars, Receives
    <3>2. AcceptPrev(n, m) => log' = log
      BY <3>1, NothingStored DEF Led
    <3>3. log' = log
      BY <2>1, <3>2 DEF raft_handle_append_entries, RejectStaleLeader, RejectPrev, logVars
    <3> QED  BY <3>1, <3>3
  <2>2. CASE ~raft_handle_append_entries(n, m)
    BY <1>1, <2>2 DEF Handle, raft_handle_vote_request, GrantsVote, raft_handle_vote_response,
                      raft_handle_append_response, logVars, applyVars
  <2> QED  BY <2>1, <2>2
<1>2. CASE UNCHANGED vars
  BY <1>2 DEF vars, logVars, applyVars
<1>3. CASE \E n \in Server : Restart(n)
  BY <1>3
<1>4. CASE Next
  BY <1>1, <1>4 DEF Next, NodeStep
<1> QED  BY <1>2, <1>3, <1>4 DEF CrashNext

\* The log of a node that writes a record.
LEMMA LogWritten ==
    ASSUME Typed, NEW n \in Server, raft_append_entry(n)
    PROVE  /\ log' = [log EXCEPT ![n] = Append(log[n], NewEntry(n))]
           /\ Len(log[n]) \in Nat
           /\ DOMAIN log[n] = 1..Len(log[n])
           /\ DOMAIN log'[n] = 1..(Len(log[n]) + 1)
           /\ Len(log'[n]) = Len(log[n]) + 1
           /\ \A i \in 1..Len(log[n]) : log'[n][i] = log[n][i]
           /\ log'[n][Len(log[n]) + 1] = NewEntry(n)
           /\ UNCHANGED <<term, applied>>
<1>1. /\ log' = [log EXCEPT ![n] = Append(log[n], NewEntry(n))]
      /\ UNCHANGED <<term, applied>>
  BY DEF raft_append_entry, voteVars, applyVars
<1>2. log[n] \in Seq(RaftLogEntry_t) /\ log'[n] = Append(log[n], NewEntry(n))
  BY <1>1 DEF Typed, TypeOK
<1>3. NewEntry(n) \in RaftLogEntry_t
  <2>1. Len(log[n]) + 1 \in Nat /\ term[n] \in Nat
    BY <1>2, LenProperties DEF Typed, TypeOK
  <2> QED  BY <2>1 DEF NewEntry, RaftLogEntry_t
<1>4. /\ log'[n] \in Seq(RaftLogEntry_t)
      /\ Len(log'[n]) = Len(log[n]) + 1
      /\ \A i \in 1..Len(log[n]) : log'[n][i] = log[n][i]
      /\ log'[n][Len(log[n]) + 1] = NewEntry(n)
  BY <1>2, <1>3, AppendProperties
<1>5. /\ Len(log[n]) \in Nat
      /\ DOMAIN log[n] = 1..Len(log[n])
      /\ DOMAIN log'[n] = 1..(Len(log[n]) + 1)
  BY <1>2, <1>4, LenProperties
<1> QED  BY <1>1, <1>4, <1>5

LEMMA WellFormedKept ==
    ASSUME Typed, LogWellFormed, NEW n \in Server, log'[n] = log[n],
           term[n] <= term'[n], term'[n] \in Nat
    PROVE  \A i \in DOMAIN log'[n] :
              /\ log'[n][i].index = i
              /\ log'[n][i].term <= term'[n]
              /\ \A j \in 1..i : log'[n][j].term <= log'[n][i].term
<1>1. ASSUME NEW i \in DOMAIN log[n]
      PROVE  log[n][i].term <= term'[n]
  <2>1. log[n][i].term \in Nat /\ term[n] \in Nat
    <3>1. log[n] \in Seq(RaftLogEntry_t) /\ term[n] \in Nat
      BY DEF Typed, TypeOK
    <3>2. log[n][i] \in RaftLogEntry_t
      BY <3>1, LenProperties, ElementOfSeq
    <3> QED  BY <3>1, <3>2 DEF RaftLogEntry_t
  <2>2. log[n][i].term <= term[n]
    BY DEF LogWellFormed
  <2> QED  BY <2>1, <2>2
<1> QED  BY <1>1 DEF LogWellFormed

LEMMA StepWellFormed ==
    ASSUME Typed, Led, LogWellFormed, [CrashNext]_vars
    PROVE  LogWellFormed'
<1>0. TypeOK /\ TypeOK'
  BY StepTyped DEF Typed
<1>1. ASSUME NEW n \in Server, log'[n] = log[n], term[n] <= term'[n]
      PROVE  \A i \in DOMAIN log'[n] :
                /\ log'[n][i].index = i
                /\ log'[n][i].term <= term'[n]
                /\ \A j \in 1..i : log'[n][j].term <= log'[n][i].term
  BY <1>0, <1>1, WellFormedKept DEF TypeOK
<1>2. ASSUME [Next]_vars, log' = log
      PROVE  LogWellFormed'
  <2>1. \A n \in Server : term[n] <= term'[n]
    BY <1>2, StepForward DEF Forward
  <2> QED  BY <1>1, <1>2, <2>1 DEF LogWellFormed
<1>3. ASSUME NEW n \in Server, raft_tick(n), UNCHANGED restarts
      PROVE  LogWellFormed'
  <2>1. Next
    BY <1>3 DEF Next, NodeStep
  <2>2. log' = log
    BY <1>3 DEF raft_tick, TickLeader, TickElection, TickIdle, logVars
  <2> QED  BY <1>2, <2>1, <2>2
<1>4. ASSUME NEW n \in Server, raft_append_entry(n)
      PROVE  LogWellFormed'
  <2>1. /\ log' = [log EXCEPT ![n] = Append(log[n], NewEntry(n))]
        /\ Len(log[n]) \in Nat
        /\ DOMAIN log[n] = 1..Len(log[n])
        /\ DOMAIN log'[n] = 1..(Len(log[n]) + 1)
        /\ \A i \in 1..Len(log[n]) : log'[n][i] = log[n][i]
        /\ log'[n][Len(log[n]) + 1] = NewEntry(n)
        /\ term' = term
    BY <1>4, LogWritten
  <2>2. ASSUME NEW i \in DOMAIN log'[n]
        PROVE  /\ log'[n][i].index = i
               /\ log'[n][i].term <= term'[n]
               /\ \A j \in 1..i : log'[n][j].term <= log'[n][i].term
    <3>1. CASE i \in 1..Len(log[n])
      <4>1. \A j \in 1..i : j \in 1..Len(log[n])
        BY <2>1, <3>1
      <4> QED  BY <2>1, <3>1, <4>1 DEF LogWellFormed
    <3>2. CASE i = Len(log[n]) + 1
      <4>1. log'[n][i].index = i /\ log'[n][i].term = term[n] /\ term[n] \in Nat
        BY <1>0, <2>1, <3>2 DEF NewEntry, TypeOK
      <4>2. ASSUME NEW j \in 1..i
            PROVE  log'[n][j].term <= term[n]
        <5>1. CASE j \in 1..Len(log[n])
          BY <2>1, <5>1 DEF LogWellFormed
        <5>2. CASE j = i
          BY <4>1, <5>2
        <5> QED  BY <2>1, <3>2, <5>1, <5>2
      <4> QED  BY <2>1, <4>1, <4>2
    <3> QED  BY <2>1, <3>1, <3>2
  <2>3. \A p \in Server \ {n} : log'[p] = log[p] /\ term[p] <= term'[p]
    BY <1>0, <2>1 DEF TypeOK
  <2> QED  BY <1>1, <2>2, <2>3 DEF LogWellFormed
<1>5. ASSUME NEW n \in Server, Restart(n)
      PROVE  LogWellFormed'
  <2>1. /\ log'[n] = << >>
        /\ \A p \in Server \ {n} : log'[p] = log[p] /\ term'[p] = term[p] /\ term[p] \in Nat
    BY <1>0, <1>5 DEF Restart, ResetRole, ResetJournal, TypeOK
  <2>2. DOMAIN << >> = {}
    BY EmptySeq
  <2>3. \A p \in Server \ {n} : term[p] <= term'[p]
    BY <2>1
  <2> QED  BY <1>1, <2>1, <2>2, <2>3 DEF LogWellFormed
<1> QED  BY <1>2, <1>3, <1>4, <1>5, LogSteps

\* Records sit where they say, in the order of their terms, also after restarts.
THEOREM LogsAreWellFormed == CrashSpec => []LogWellFormed
<1>1. Init => LogWellFormed
  <2>1. DOMAIN << >> = {}
    BY EmptySeq
  <2> QED  BY <2>1 DEF Init, LogWellFormed
<1>2. Typed /\ Led /\ LogWellFormed /\ [CrashNext]_vars => LogWellFormed'
  BY StepWellFormed
<1> QED  BY <1>1, <1>2, LedInvariant, PTL DEF CrashSpec

-----------------------------------------------------------------------------
(* The logs implement the journals of LocalJournals *)

LEMMA StepJournals ==
    ASSUME Typed, Led, LogWellFormed, [CrashNext]_vars
    PROVE  [Journals!Next]_(Journals!vars)
<1> USE DEF Journals!vars
<1>0. TypeOK /\ Typed' /\ TypeOK'
  BY StepTyped DEF Typed
<1>1. ASSUME NEW n \in Server, raft_tick(n), UNCHANGED restarts
      PROVE  Journals!Next
  <2>1. PICK c : ApplyUpTo(n, c)
    BY <1>1 DEF raft_tick, TickLeader, TickElection, TickIdle
  <2>2. log' = log
    BY <1>1 DEF raft_tick, TickLeader, TickElection, TickIdle, logVars
  <2> DEFINE k == last_applied'[n]
  <2>3. applied'[n] = SubSeq(log[n], 1, k) /\ k \in Nat /\ k <= Len(log[n])
    <3>1. /\ applied'[n] = SubSeq(log'[n], 1, k) /\ k <= commit_idx'[n]
          /\ commit_idx'[n] <= Len(log'[n])
      BY <1>0 DEF Typed, AppliedIsPrefix
    <3>2. k \in Nat /\ commit_idx'[n] \in Nat /\ Len(log[n]) \in Nat
      BY <1>0, LenProperties DEF TypeOK
    <3> QED  BY <2>2, <3>1, <3>2
  <2>4. Len(applied[n]) <= k
    <3>1. Len(applied[n]) <= Len(applied'[n])
      BY <1>1, StepForward DEF Forward, Extends, Next, NodeStep
    <3>2. Len(applied'[n]) = k
      BY <1>0, <2>3, PrefixIsSeq DEF TypeOK
    <3> QED  BY <3>1, <3>2
  <2>5. Len(applied[n]) \in Nat /\ Len(log[n]) \in Nat
    BY <1>0, LenProperties DEF TypeOK
  <2>6. applied' = [applied EXCEPT ![n] = SubSeq(log[n], 1, k)]
    <3>1. applied' = [applied EXCEPT ![n] = applied'[n]]
      BY <1>0, <2>1 DEF ApplyUpTo, TypeOK
    <3> QED  BY <2>3, <3>1
  <2>7. k \in Len(applied[n])..Len(log[n])
    BY <2>3, <2>4, <2>5
  <2> HIDE DEF k
  <2>8. Journals!Deliver(n, k)
    BY <2>2, <2>6 DEF Journals!Deliver
  <2> QED  BY <2>7, <2>8 DEF Journals!Next
<1>2. ASSUME NEW n \in Server, raft_append_entry(n)
      PROVE  Journals!Next
  <2>1. /\ log' = [log EXCEPT ![n] = Append(log[n], NewEntry(n))]
        /\ Len(log'[n]) = Len(log[n]) + 1
        /\ log'[n][Len(log[n]) + 1] = NewEntry(n)
        /\ applied' = applied
    BY <1>2, LogWritten
  <2>2. Journals!Stored(n) = NewEntry(n)
    BY <2>1 DEF Journals!Stored
  <2>3. /\ NewEntry(n).data \in Server
        /\ NewEntry(n).index = Len(log[n]) + 1
        /\ NewEntry(n).term = term[n]
    BY DEF NewEntry
  <2>4. \A i \in DOMAIN log[n] : log[n][i].term <= NewEntry(n).term
    BY <2>3 DEF LogWellFormed
  <2>5. Len(log[n]) < RAFT_MAX_LOG_ENTRIES
    BY <1>2 DEF raft_append_entry
  <2>6. Journals!Store(n)
    BY <2>1, <2>2, <2>3, <2>4, <2>5 DEF Journals!Store
  <2> QED  BY <2>6 DEF Journals!Next
<1>3. ASSUME NEW n \in Server, Restart(n)
      PROVE  Journals!Next
  BY <1>3 DEF Restart, ResetJournal, Journals!Lose, Journals!Next
<1> QED  BY <1>1, <1>2, <1>3, LogSteps

\* Seen from the applications, each node keeps an append-only journal that is
\* delivered in order, restarts included.
THEOREM ImplementsLocalJournals == CrashSpec => KeepsLocalJournals
<1>1. Init => Journals!Init
  BY DEF Init, Journals!Init
<1>2. Typed /\ Led /\ LogWellFormed /\ [CrashNext]_vars => [Journals!Next]_(Journals!vars)
  BY StepJournals
<1> QED  BY <1>1, <1>2, LedInvariant, LogsAreWellFormed, PTL
         DEF CrashSpec, KeepsLocalJournals, Journals!Spec

-----------------------------------------------------------------------------
LEMMA TickApplies ==
    ASSUME Typed, NEW n \in Server, raft_tick(n), UNCHANGED restarts
    PROVE  Len(applied'[n]) = commit_idx'[n]
<1>0. TypeOK /\ Typed' /\ TypeOK'
  BY TickTyped DEF Typed
<1>1. PICK c : ApplyUpTo(n, c) /\ commit_idx'[n] = c /\ commit_idx[n] <= c
  <2>1. commit_idx[n] \in Nat /\ Len(log[n]) \in Nat
    BY <1>0, LenProperties DEF TypeOK
  <2>2. CASE TickLeader(n)
    <3>1. PICK c \in {commit_idx[n]} \cup Committable(n) :
             commit_idx' = [commit_idx EXCEPT ![n] = c] /\ ApplyUpTo(n, c)
      BY <2>2 DEF TickLeader
    <3>2. commit_idx'[n] = c /\ commit_idx[n] <= c
      BY <1>0, <2>1, <3>1 DEF TypeOK, Committable
    <3> QED  BY <3>1, <3>2
  <2>3. CASE TickElection(n) \/ TickIdle(n)
    <3>1. ApplyUpTo(n, commit_idx[n]) /\ commit_idx' = commit_idx
      BY <2>3 DEF TickElection, TickIdle, logVars
    <3> QED  BY <2>1, <3>1
  <2> QED  BY <2>2, <2>3 DEF raft_tick
<1>2. last_applied[n] \in Nat /\ commit_idx[n] \in Nat /\ last_applied[n] <= commit_idx[n]
  BY <1>0 DEF Typed, TypeOK, AppliedIsPrefix
<1>3. c \in Nat
  BY <1>0, <1>1 DEF TypeOK
<1>4. last_applied'[n] = c
  BY <1>0, <1>1, <1>2, <1>3 DEF ApplyUpTo, TypeOK
<1>5. applied'[n] = SubSeq(log'[n], 1, c) /\ c <= Len(log'[n])
  BY <1>0, <1>1, <1>4 DEF Typed, AppliedIsPrefix
<1>6. Len(applied'[n]) = c
  BY <1>0, <1>3, <1>5, PrefixIsSeq DEF TypeOK
<1> QED  BY <1>1, <1>6

\* Every tick hands over all that is committed, whatever the role of the node.
THEOREM TicksApplyAll == Spec => TickAppliesAll
<1>1. Typed /\ [Next]_vars =>
        [\A n \in Server : raft_tick(n) => Len(applied'[n]) = commit_idx'[n]]_vars
  <2>1. ASSUME Typed, Next, NEW n \in Server, raft_tick(n)
        PROVE  Len(applied'[n]) = commit_idx'[n]
    BY <2>1, TickApplies DEF Next
  <2> QED  BY <2>1
<1> QED  BY <1>1, TypedInvariant, SpecImpliesCrashSpec, PTL DEF Spec, TickAppliesAll

=============================================================================
