-------------------------- MODULE ChronosRaftProofs --------------------------
(***************************************************************************)
(* Theorems about ChronosRaft, for every cluster, log capacity and bound.  *)
(***************************************************************************)
EXTENDS ChronosRaft, FiniteSetTheorems, SequenceTheorems, TLAPS

-----------------------------------------------------------------------------
(* Messages and the datagram service *)

\* The fields of a datagram, by its type.
LEMMA MessageFields ==
    ASSUME NEW m \in Message
    PROVE  /\ m.src \in Server
           /\ m.dst \in Server
           /\ m.term \in Nat
           /\ m.type = "VoteRequest" => m \in VoteRequest_t
           /\ m.type = "VoteResponse" => m \in VoteResponse_t
           /\ m.type = "AppendRequest" => m \in AppendEntriesRequest_t
           /\ m.type = "AppendResponse" => m \in AppendEntriesResponse_t
BY DEF Message, VoteRequest_t, VoteResponse_t, AppendEntriesRequest_t, AppendEntriesResponse_t

\* Whatever is sent, only datagrams are in flight afterwards.
LEMMA TransmitType ==
    ASSUME NEW inTransit \in SUBSET Message,
           NEW packets \in SUBSET Message,
           Transmit(inTransit, packets)
    PROVE  net' \in SUBSET Message
BY DEF Transmit

\* Receiving leaves nothing in flight that was not there.
LEMMA ReceiveType ==
    ASSUME net \in SUBSET Message, NEW m, NEW rest \in AfterReceiving(m)
    PROVE  rest \in SUBSET Message
BY DEF AfterReceiving

\* The term of the last record is a number.
LEMMA LastTermType ==
    ASSUME NEW lg \in Seq(RaftLogEntry_t)
    PROVE  LastTerm(lg) \in Nat
<1>1. CASE Len(lg) > 0
  <2>1. lg[Len(lg)] \in RaftLogEntry_t
    BY <1>1, ElementOfSeq, LenProperties
  <2> QED  BY <1>1, <2>1 DEF LastTerm, RaftLogEntry_t
<1>2. CASE ~(Len(lg) > 0)
  BY <1>2 DEF LastTerm
<1> QED  BY <1>1, <1>2

\* The two broadcasts and the reply to an append request are well formed.
LEMMA PacketTypes ==
    ASSUME TypeOK, NEW n \in Server
    PROVE  /\ \A t \in Nat : VoteRequests(n, t) \in SUBSET Message
           /\ \A lg \in Seq(RaftLogEntry_t), entry \in Seq(RaftLogEntry_t) :
                 AppendRequests(n, lg, entry) \in SUBSET Message
           /\ \A m \in Message, t \in Nat, ok \in BOOLEAN, match \in Nat :
                 AppendResponse(n, m, t, ok, match) \in Message
<1>1. ASSUME NEW t \in Nat PROVE VoteRequests(n, t) \in SUBSET Message
  <2>1. log[n] \in Seq(RaftLogEntry_t)
    BY DEF TypeOK
  <2>2. LastTerm(log[n]) \in Nat /\ Len(log[n]) \in Nat
    BY <2>1, LastTermType
  <2> QED  BY <2>2 DEF VoteRequests, Message, VoteRequest_t, Peers
<1>2. ASSUME NEW lg \in Seq(RaftLogEntry_t), NEW entry \in Seq(RaftLogEntry_t)
      PROVE  AppendRequests(n, lg, entry) \in SUBSET Message
  <2>1. LastTerm(lg) \in Nat /\ Len(lg) \in Nat
    BY LastTermType
  <2>2. term[n] \in Nat /\ commit_idx[n] \in Nat
    BY DEF TypeOK
  <2> QED  BY <2>1, <2>2 DEF AppendRequests, Message, AppendEntriesRequest_t, Peers
<1>3. ASSUME NEW m \in Message, NEW t \in Nat, NEW ok \in BOOLEAN, NEW match \in Nat
      PROVE  AppendResponse(n, m, t, ok, match) \in Message
  BY MessageFields DEF AppendResponse, Message, AppendEntriesResponse_t
<1> QED  BY <1>1, <1>2, <1>3

-----------------------------------------------------------------------------
(* Logs and the stream of applied records *)

\* What the apply loop appends completes the prefix handed out so far.
LEMMA ApplyExtendsPrefix ==
    ASSUME NEW S, NEW lg \in Seq(S), NEW a \in Nat, NEW c \in Nat, a <= c, c <= Len(lg)
    PROVE  SubSeq(lg, 1, a) \o SubSeq(lg, a + 1, c) = SubSeq(lg, 1, c)
<1>1. Len(lg) \in Nat
  BY LenProperties
<1>2. 1 \in 1..Len(lg) + 1 /\ a \in 1-1..Len(lg) /\ c \in a..Len(lg)
  BY <1>1
<1> QED  BY <1>2, ConcatAdjacentSubSeq

\* A prefix of a log is a log.
LEMMA PrefixIsSeq ==
    ASSUME NEW S, NEW lg \in Seq(S), NEW a \in Nat, a <= Len(lg)
    PROVE  SubSeq(lg, 1, a) \in Seq(S) /\ Len(SubSeq(lg, 1, a)) = a
<1>1. Len(lg) \in Nat /\ \A i \in 1..a : lg[i] \in S
  BY LenProperties, ElementOfSeq
<1> QED  BY <1>1, SubSeqProperties

\* Appending a record leaves the prefixes of the log as they were.
LEMMA AppendKeepsPrefix ==
    ASSUME NEW S, NEW lg \in Seq(S), NEW e \in S, NEW a \in Nat, a <= Len(lg)
    PROVE  SubSeq(Append(lg, e), 1, a) = SubSeq(lg, 1, a)
<1> DEFINE app == Append(lg, e)
<1>1. /\ app \in Seq(S)
      /\ Len(app) = Len(lg) + 1
      /\ \A i \in 1..Len(lg) : app[i] = lg[i]
      /\ Len(lg) \in Nat
  BY AppendProperties, LenProperties
<1>2. a <= Len(app)
  BY <1>1
<1> HIDE DEF app
<1>3. \A i \in 1..a : lg[i] \in S /\ app[i] \in S
  BY <1>1, <1>2, ElementOfSeq
<1>4. /\ SubSeq(app, 1, a) \in Seq(S)
      /\ Len(SubSeq(app, 1, a)) = a
      /\ \A i \in 1..a : SubSeq(app, 1, a)[i] = app[i]
  BY <1>3, SubSeqProperties
<1>5. /\ SubSeq(lg, 1, a) \in Seq(S)
      /\ Len(SubSeq(lg, 1, a)) = a
      /\ \A i \in 1..a : SubSeq(lg, 1, a)[i] = lg[i]
  BY <1>3, SubSeqProperties
<1>6. \A i \in 1..a : SubSeq(app, 1, a)[i] = SubSeq(lg, 1, a)[i]
  BY <1>1, <1>4, <1>5
<1>7. SubSeq(app, 1, a) = SubSeq(lg, 1, a)
  BY <1>4, <1>5, <1>6, SeqEqual
<1> QED  BY <1>7 DEF app

-----------------------------------------------------------------------------
(* Type correctness and the applied prefix.  Neither is inductive alone: what  *)
(* the apply loop hands out is a sequence of records only because the commit   *)
(* index stays within the log.                                                 *)

Typed == TypeOK /\ AppliedIsPrefix

LEMMA InitTyped ==
    ASSUME Init
    PROVE  Typed
<1>1. << >> \in Seq(RaftLogEntry_t) /\ Len(<< >>) = 0
  BY EmptySeq
<1>2. SubSeq(<< >>, 1, 0) = << >>
  BY SubSeqEmpty
<1>3. TypeOK
  BY <1>1 DEF Init, TypeOK, InitialNext, RaftState_t, RAFT_FOLLOWER
<1>4. AppliedIsPrefix
  BY <1>1, <1>2 DEF Init, AppliedIsPrefix
<1> QED  BY <1>3, <1>4 DEF Typed

\* The apply loop, up to any index c between the old commit index and the end of
\* the log that is the commit index afterwards.
LEMMA ApplyTyped ==
    ASSUME Typed, NEW n \in Server, NEW c \in Nat,
           commit_idx[n] <= c, c <= Len(log[n]),
           ApplyUpTo(n, c),
           log' = log, commit_idx' = [commit_idx EXCEPT ![n] = c]
    PROVE  /\ last_applied' \in [Server -> Nat]
           /\ applied' \in [Server -> Seq(RaftLogEntry_t)]
           /\ commit_idx' \in [Server -> Nat]
           /\ AppliedIsPrefix'
<1>1. /\ log \in [Server -> Seq(RaftLogEntry_t)]
      /\ last_applied \in [Server -> Nat]
      /\ commit_idx \in [Server -> Nat]
      /\ applied \in [Server -> Seq(RaftLogEntry_t)]
  BY DEF Typed, TypeOK
<1>2. last_applied[n] <= commit_idx[n] /\ applied[n] = SubSeq(log[n], 1, last_applied[n])
  BY DEF Typed, AppliedIsPrefix
<1>3. last_applied[n] \in Nat /\ last_applied[n] <= c
  BY <1>1, <1>2
<1>4. last_applied' = [last_applied EXCEPT ![n] = c]
  <2>1. (IF last_applied[n] < c THEN c ELSE last_applied[n]) = c
    BY <1>3
  <2> QED  BY <2>1 DEF ApplyUpTo
<1>5. applied' = [applied EXCEPT ![n] = SubSeq(log[n], 1, c)]
  <2>1. SubSeq(log[n], 1, last_applied[n]) \o SubSeq(log[n], last_applied[n] + 1, c)
           = SubSeq(log[n], 1, c)
    BY <1>1, <1>3, ApplyExtendsPrefix
  <2> QED  BY <1>1, <1>2, <2>1 DEF ApplyUpTo
<1>6. SubSeq(log[n], 1, c) \in Seq(RaftLogEntry_t)
  BY <1>1, PrefixIsSeq
<1>7. AppliedIsPrefix'
  BY <1>1, <1>4, <1>5 DEF Typed, AppliedIsPrefix
<1> QED  BY <1>1, <1>4, <1>5, <1>6, <1>7

\* The same when the commit index stays where it is.
LEMMA ApplySameTyped ==
    ASSUME Typed, NEW n \in Server, ApplyUpTo(n, commit_idx[n]), log' = log, commit_idx' = commit_idx
    PROVE  /\ last_applied' \in [Server -> Nat]
           /\ applied' \in [Server -> Seq(RaftLogEntry_t)]
           /\ AppliedIsPrefix'
<1>1. PICK c : c = commit_idx[n]
  OBVIOUS
<1>2. c \in Nat /\ commit_idx[n] <= c /\ c <= Len(log[n])
  BY <1>1 DEF Typed, TypeOK, AppliedIsPrefix
<1>3. commit_idx' = [commit_idx EXCEPT ![n] = c]
  BY <1>1 DEF Typed, TypeOK
<1>4. ApplyUpTo(n, c)
  BY <1>1
<1> QED  BY <1>2, <1>3, <1>4, ApplyTyped

LEMMA TickTyped ==
    ASSUME Typed, NEW n \in Server, raft_tick(n), UNCHANGED restarts
    PROVE  Typed'
<1> USE DEF Typed
<1>0. commit_idx[n] \in Nat /\ commit_idx[n] <= Len(log[n]) /\ Len(log[n]) \in Nat
  BY LenProperties DEF TypeOK, AppliedIsPrefix
<1>1. CASE TickLeader(n)
  <2>1. PICK c \in {commit_idx[n]} \cup Committable(n) :
           /\ commit_idx' = [commit_idx EXCEPT ![n] = c]
           /\ ApplyUpTo(n, c)
    BY <1>1 DEF TickLeader
  <2>2. c \in Nat /\ commit_idx[n] <= c /\ c <= Len(log[n])
    BY <1>0 DEF Committable
  <2>3. net' \in SUBSET Message
    <3>1. AppendRequests(n, log[n], << >>) \in SUBSET Message
      BY PacketTypes, EmptySeq DEF TypeOK
    <3> QED  BY <1>1, <3>1, TransmitType DEF TickLeader, TypeOK
  <2> QED  BY <1>1, <2>1, <2>2, <2>3, ApplyTyped
           DEF TickLeader, raft_tick, TypeOK, voteVars, leaderVars, historyVars
<1>2. CASE TickElection(n)
  <2>1. commit_idx' = commit_idx /\ log' = log
    BY <1>2 DEF TickElection, logVars
  <2>2. ApplyUpTo(n, commit_idx[n])
    BY <1>2 DEF TickElection
  <2>3. net' \in SUBSET Message
    <3>1. term[n] + 1 \in Nat
      BY DEF TypeOK
    <3>2. VoteRequests(n, term[n] + 1) \in SUBSET Message
      BY <3>1, PacketTypes
    <3> QED  BY <1>2, <3>2, TransmitType DEF TickElection, TypeOK
  <2>4. /\ last_applied' \in [Server -> Nat]
        /\ applied' \in [Server -> Seq(RaftLogEntry_t)]
        /\ AppliedIsPrefix'
    BY <2>1, <2>2, ApplySameTyped
  <2>5. /\ term' \in [Server -> Nat]
        /\ state' \in [Server -> RaftState_t]
        /\ voted_for' \in [Server -> Server \cup {Nobody}]
        /\ votes' \in [Server -> Nat]
        /\ cast' \subseteq Server \X Server \X Nat
    BY <1>2 DEF TickElection, TypeOK, RaftState_t
  <2> QED  BY <1>2, <2>1, <2>3, <2>4, <2>5 DEF TickElection, raft_tick, TypeOK, leaderVars
<1>3. CASE TickIdle(n)
  <2>1. commit_idx' = commit_idx /\ log' = log
    BY <1>3 DEF TickIdle, logVars
  <2>2. ApplyUpTo(n, commit_idx[n])
    BY <1>3 DEF TickIdle
  <2> QED  BY <1>3, <2>1, <2>2, ApplySameTyped
           DEF TickIdle, raft_tick, TypeOK, voteVars, leaderVars, historyVars
<1> QED  BY <1>1, <1>2, <1>3 DEF raft_tick

LEMMA VoteRequestTyped ==
    ASSUME Typed, NEW n \in Server, NEW m \in net,
           raft_handle_vote_request(n, m), UNCHANGED restarts
    PROVE  Typed'
<1> DEFINE newer == NewerTerm(n, m)
           t == IF newer THEN m.term ELSE term[n]
           prior == IF newer THEN Nobody ELSE voted_for[n]
           grant == GrantsVote(n, m)
           reply == [type |-> "VoteResponse", src |-> n, dst |-> m.src,
                     term |-> t, vote_granted |-> grant]
<1>1. m \in Message /\ m.src \in Server /\ m.term \in Nat
  BY MessageFields DEF Typed, TypeOK
<1>2. t \in Nat /\ prior \in Server \cup {Nobody} /\ grant \in BOOLEAN
  BY <1>1 DEF Typed, TypeOK, GrantsVote
<1>3. /\ state' = [state EXCEPT ![n] = IF newer THEN RAFT_FOLLOWER ELSE @]
      /\ term' = [term EXCEPT ![n] = t]
      /\ voted_for' = [voted_for EXCEPT ![n] = IF grant THEN m.src ELSE prior]
      /\ cast' = IF grant THEN cast \cup {<<n, m.src, t>>} ELSE cast
      /\ \E rest \in AfterReceiving(m) : Transmit(rest, {reply})
      /\ UNCHANGED <<pc, votes, logVars, applyVars, leader_id, leaderVars, elected>>
  BY DEF raft_handle_vote_request
<1>4. net' \in SUBSET Message
  <2>1. PICK rest \in AfterReceiving(m) : Transmit(rest, {reply})
    BY <1>3
  <2>2. {reply} \in SUBSET Message
    BY <1>1, <1>2 DEF Message, VoteResponse_t
  <2>3. rest \in SUBSET Message
    BY ReceiveType DEF Typed, TypeOK
  <2> QED  BY <2>1, <2>2, <2>3, TransmitType
<1> HIDE DEF newer, t, prior, grant, reply
<1>5. TypeOK'
  <2>1. state' \in [Server -> RaftState_t]
    BY <1>3 DEF Typed, TypeOK, RaftState_t
  <2>2. (IF grant THEN m.src ELSE prior) \in Server \cup {Nobody}
    BY <1>1, <1>2
  <2>3. /\ term' \in [Server -> Nat]
        /\ voted_for' \in [Server -> Server \cup {Nobody}]
    BY <1>2, <1>3, <2>2 DEF Typed, TypeOK
  <2>4. cast' \subseteq Server \X Server \X Nat
    <3>1. <<n, m.src, t>> \in Server \X Server \X Nat
      BY <1>1, <1>2
    <3>2. cast \subseteq Server \X Server \X Nat
      BY DEF Typed, TypeOK
    <3>3. cast' \subseteq cast \cup {<<n, m.src, t>>}
      BY <1>3
    <3> QED  BY <3>1, <3>2, <3>3
  <2> QED  BY <1>3, <1>4, <2>1, <2>3, <2>4
           DEF Typed, TypeOK, logVars, applyVars, leaderVars
<1>6. AppliedIsPrefix'
  BY <1>3 DEF Typed, AppliedIsPrefix, logVars, applyVars
<1> QED  BY <1>5, <1>6 DEF Typed

\* Stepping down keeps every type.
LEMMA StepDownTyped ==
    ASSUME TypeOK, NEW n \in Server, NEW m \in net, StepDown(n, m)
    PROVE  /\ state' \in [Server -> RaftState_t]
           /\ term' \in [Server -> Nat]
           /\ voted_for' \in [Server -> Server \cup {Nobody}]
           /\ net' \in SUBSET Message
           /\ UNCHANGED <<votes, leader_id, leaderVars, elected>>
<1>1. m.term \in Nat
  BY MessageFields DEF TypeOK
<1>2. net' \in SUBSET Message
  BY ReceiveType DEF StepDown, TypeOK
<1> QED  BY <1>1, <1>2 DEF StepDown, TypeOK, RaftState_t

LEMMA VoteResponseTyped ==
    ASSUME Typed, NEW n \in Server, NEW m \in net,
           raft_handle_vote_response(n, m), UNCHANGED restarts
    PROVE  Typed'
<1>0. TypeOK /\ UNCHANGED <<pc, logVars, applyVars, cast, restarts>>
  BY DEF Typed, raft_handle_vote_response
<1> SUFFICES TypeOK'
  BY <1>0 DEF Typed, AppliedIsPrefix, logVars, applyVars
<1>1. CASE StepDown(n, m)
  BY <1>0, <1>1, StepDownTyped DEF TypeOK, logVars, applyVars, leaderVars
<1>2. CASE CountVote(n, m) /\ BecomeLeader(n, m)
  <2>1. PICK rest \in AfterReceiving(m) : Transmit(rest, AppendRequests(n, log[n], << >>))
    BY <1>2 DEF BecomeLeader
  <2>2. AppendRequests(n, log[n], << >>) \in SUBSET Message
    BY <1>0, PacketTypes, EmptySeq DEF TypeOK
  <2>3. net' \in SUBSET Message
    <3>1. net \in SUBSET Message
      BY <1>0 DEF TypeOK
    <3>2. rest \in SUBSET Message
      BY <3>1, ReceiveType
    <3> QED  BY <2>1, <2>2, <3>2, TransmitType
  <2>4. Len(log[n]) \in Nat
    BY <1>0, LenProperties DEF TypeOK
  <2>5. /\ next_idx' \in [Server -> [Server -> Nat]]
        /\ match_idx' \in [Server -> [Server -> Nat]]
    BY <1>0, <1>2, <2>4 DEF BecomeLeader, TypeOK
  <2>6. elected' \subseteq Server \X Nat
    BY <1>0, <1>2 DEF BecomeLeader, TypeOK
  <2>7. /\ state' \in [Server -> RaftState_t]
        /\ leader_id' \in [Server -> Server \cup {Nobody}]
        /\ votes' \in [Server -> Nat]
    BY <1>0, <1>2 DEF CountVote, BecomeLeader, TypeOK, RaftState_t
  <2>8. UNCHANGED <<term, voted_for>>
    BY <1>2 DEF CountVote
  <2> QED  BY <1>0, <2>3, <2>5, <2>6, <2>7, <2>8 DEF TypeOK, logVars, applyVars
<1>3. CASE CountVote(n, m) /\ ~BecomeLeader(n, m)
  <2>1. net' \in SUBSET Message
    BY <1>0, <1>3, ReceiveType DEF CountVote, TypeOK
  <2> QED  BY <1>0, <1>3, <2>1 DEF CountVote, TypeOK, logVars, applyVars, leaderVars
<1>4. CASE IgnoreVoteResponse(n, m)
  <2>1. net' \in SUBSET Message
    BY <1>0, <1>4, ReceiveType DEF IgnoreVoteResponse, TypeOK
  <2> QED  BY <1>0, <1>4, <2>1
           DEF IgnoreVoteResponse, TypeOK, voteVars, logVars, applyVars, leaderVars
<1> QED  BY <1>1, <1>2, <1>3, <1>4 DEF raft_handle_vote_response

\* A follower's commit index stays within its log.
LEMMA FollowCommitBounds ==
    ASSUME NEW own \in Nat, NEW leader \in Nat, NEW len \in Nat, own <= len
    PROVE  /\ FollowCommit(own, leader, len) \in Nat
           /\ own <= FollowCommit(own, leader, len)
           /\ FollowCommit(own, leader, len) <= len
BY DEF FollowCommit

\* The log after an append request: at most one record more, and every prefix
\* of the old log still one of the new.
LEMMA AcceptPrevLog ==
    ASSUME Typed, NEW n \in Server, NEW m \in net, m.type = "AppendRequest", AcceptPrev(n, m)
    PROVE  /\ log' \in [Server -> Seq(RaftLogEntry_t)]
           /\ \A p \in Server \ {n} : log'[p] = log[p]
           /\ Len(log[n]) <= Len(log'[n])
           /\ \A a \in Nat : a <= Len(log[n]) => SubSeq(log'[n], 1, a) = SubSeq(log[n], 1, a)
<1>1. log \in [Server -> Seq(RaftLogEntry_t)] /\ log[n] \in Seq(RaftLogEntry_t)
  BY DEF Typed, TypeOK
<1>2. CASE StoresEntry(n, m)
  <2>1. m.entry \in Seq(RaftLogEntry_t) /\ m.entry # << >>
    BY <1>2, MessageFields DEF Typed, TypeOK, AppendEntriesRequest_t, StoresEntry
  <2>2. m.entry[1] \in RaftLogEntry_t
    BY <2>1, EmptySeq, ElementOfSeq, LenProperties
  <2>3. log' = [log EXCEPT ![n] = Append(log[n], m.entry[1])]
    BY <1>2 DEF AcceptPrev
  <2>4. Append(log[n], m.entry[1]) \in Seq(RaftLogEntry_t)
        /\ Len(Append(log[n], m.entry[1])) = Len(log[n]) + 1
    BY <1>1, <2>2, AppendProperties
  <2>5. Len(log[n]) <= Len(log'[n])
    BY <1>1, <2>3, <2>4, LenProperties
  <2>6. \A a \in Nat : a <= Len(log[n]) => SubSeq(log'[n], 1, a) = SubSeq(log[n], 1, a)
    BY <1>1, <2>2, <2>3, AppendKeepsPrefix
  <2> QED  BY <1>1, <2>3, <2>4, <2>5, <2>6
<1>3. CASE ~StoresEntry(n, m)
  <2>1. log' = log
    BY <1>1, <1>3 DEF AcceptPrev
  <2> QED  BY <1>1, <2>1, LenProperties
<1> QED  BY <1>2, <1>3

LEMMA AppendEntriesTyped ==
    ASSUME Typed, NEW n \in Server, NEW m \in net,
           raft_handle_append_entries(n, m), UNCHANGED restarts
    PROVE  Typed'
<1>0. /\ TypeOK
      /\ AppliedIsPrefix
      /\ UNCHANGED <<pc, applyVars, leaderVars, historyVars, restarts>>
      /\ m.type = "AppendRequest"
  BY DEF Typed, raft_handle_append_entries, Receives
<1>1. m \in Message /\ m.src \in Server /\ m.term \in Nat /\ m.leader_commit \in Nat
  BY <1>0, MessageFields DEF TypeOK, AppendEntriesRequest_t
<1>2. Len(log[n]) \in Nat /\ term[n] \in Nat
  BY <1>0, LenProperties DEF TypeOK
<1>3. ASSUME NEW t \in Nat, NEW ok \in BOOLEAN, NEW match \in Nat,
             \E rest \in AfterReceiving(m) : Transmit(rest, {AppendResponse(n, m, t, ok, match)})
      PROVE  net' \in SUBSET Message
  <2>1. PICK rest \in AfterReceiving(m) : Transmit(rest, {AppendResponse(n, m, t, ok, match)})
    BY <1>3
  <2>2. {AppendResponse(n, m, t, ok, match)} \in SUBSET Message
    BY <1>0, <1>1, PacketTypes
  <2>3. rest \in SUBSET Message
    BY <1>0, ReceiveType DEF TypeOK
  <2> QED  BY <2>1, <2>2, <2>3, TransmitType
<1>4. CASE RejectStaleLeader(n, m)
  <2>1. net' \in SUBSET Message
    BY <1>2, <1>3, <1>4 DEF RejectStaleLeader
  <2>2. TypeOK'
    BY <1>0, <1>4, <2>1
       DEF RejectStaleLeader, TypeOK, voteVars, logVars, applyVars, leaderVars, historyVars
  <2>3. AppliedIsPrefix'
    BY <1>0, <1>4 DEF RejectStaleLeader, AppliedIsPrefix, logVars, applyVars
  <2> QED  BY <2>2, <2>3 DEF Typed
<1>5. ASSUME FollowLeader(n, m)
      PROVE  /\ state' \in [Server -> RaftState_t]
             /\ term' \in [Server -> Nat]
             /\ leader_id' \in [Server -> Server \cup {Nobody}]
             /\ voted_for' \in [Server -> Server \cup {Nobody}]
             /\ votes' \in [Server -> Nat]
  BY <1>0, <1>1, <1>5 DEF FollowLeader, TypeOK, RaftState_t
<1>6. CASE FollowLeader(n, m) /\ RejectPrev(n, m)
  <2>1. net' \in SUBSET Message
    BY <1>1, <1>2, <1>3, <1>6 DEF RejectPrev
  <2>2. UNCHANGED logVars
    BY <1>6 DEF RejectPrev
  <2>3. TypeOK'
    BY <1>0, <1>5, <1>6, <2>1, <2>2 DEF TypeOK, logVars, applyVars, leaderVars, historyVars
  <2>4. AppliedIsPrefix'
    BY <1>0, <2>2 DEF AppliedIsPrefix, logVars, applyVars
  <2> QED  BY <2>3, <2>4 DEF Typed
<1>7. CASE FollowLeader(n, m) /\ AcceptPrev(n, m)
  <2>1. /\ log' \in [Server -> Seq(RaftLogEntry_t)]
        /\ \A p \in Server \ {n} : log'[p] = log[p]
        /\ Len(log[n]) <= Len(log'[n])
        /\ \A a \in Nat : a <= Len(log[n]) => SubSeq(log'[n], 1, a) = SubSeq(log[n], 1, a)
    BY <1>0, <1>7, AcceptPrevLog
  <2>2. Len(log'[n]) \in Nat
    BY <2>1, LenProperties
  <2>3. PICK c : c = FollowCommit(commit_idx[n], m.leader_commit, Len(log'[n]))
    OBVIOUS
  <2>4. commit_idx[n] \in Nat /\ commit_idx[n] <= Len(log[n])
    BY <1>0 DEF TypeOK, AppliedIsPrefix
  <2>5. c \in Nat /\ commit_idx[n] <= c /\ c <= Len(log'[n])
    <3>1. commit_idx[n] <= Len(log'[n])
      BY <1>2, <2>1, <2>2, <2>4
    <3> QED  BY <1>1, <2>2, <2>3, <2>4, <3>1, FollowCommitBounds
  <2>6. commit_idx' = [commit_idx EXCEPT ![n] = c]
    BY <1>7, <2>3 DEF AcceptPrev
  <2>7. net' \in SUBSET Message
    <3>1. \E rest \in AfterReceiving(m) :
             Transmit(rest, {AppendResponse(n, m, m.term, TRUE, Len(log'[n]))})
      BY <1>7 DEF AcceptPrev
    <3> QED  BY <1>1, <1>3, <2>2, <3>1
  <2>8. commit_idx' \in [Server -> Nat]
    BY <1>0, <2>5, <2>6 DEF TypeOK
  <2>9. TypeOK'
    BY <1>0, <1>5, <1>7, <2>1, <2>7, <2>8 DEF TypeOK, applyVars, leaderVars, historyVars
  <2>10. AppliedIsPrefix'
    <3> SUFFICES ASSUME NEW p \in Server
                 PROVE  /\ last_applied[p] <= commit_idx'[p]
                        /\ commit_idx'[p] <= Len(log'[p])
                        /\ applied[p] = SubSeq(log'[p], 1, last_applied[p])
      BY <1>0 DEF AppliedIsPrefix, applyVars
    <3>1. /\ last_applied[p] \in Nat
          /\ last_applied[p] <= commit_idx[p]
          /\ commit_idx[p] <= Len(log[p])
          /\ applied[p] = SubSeq(log[p], 1, last_applied[p])
      BY <1>0 DEF TypeOK, AppliedIsPrefix
    <3>2. CASE p = n
      <4>1. commit_idx'[p] = c
        BY <1>0, <2>6, <3>2 DEF TypeOK
      <4>2. last_applied[p] <= Len(log[n]) /\ last_applied[p] <= c
        BY <1>2, <2>4, <2>5, <3>1, <3>2
      <4> QED  BY <2>1, <2>5, <3>1, <3>2, <4>1, <4>2
    <3>3. CASE p # n
      <4>1. log'[p] = log[p] /\ commit_idx'[p] = commit_idx[p]
        BY <1>0, <2>1, <2>6, <3>3 DEF TypeOK
      <4> QED  BY <3>1, <4>1
    <3> QED  BY <3>2, <3>3
  <2> QED  BY <2>9, <2>10 DEF Typed
<1> QED  BY <1>4, <1>6, <1>7 DEF raft_handle_append_entries

\* Setting what one node holds about one peer keeps the table's type.
LEMMA UpdateOne ==
    ASSUME NEW table \in [Server -> [Server -> Nat]],
           NEW n \in Server, NEW p \in Server, NEW x \in Nat
    PROVE  [table EXCEPT ![n][p] = x] \in [Server -> [Server -> Nat]]
<1>1. [table[n] EXCEPT ![p] = x] \in [Server -> Nat]
  OBVIOUS
<1> QED  BY <1>1

LEMMA AppendResponseTyped ==
    ASSUME Typed, NEW n \in Server, NEW m \in net,
           raft_handle_append_response(n, m), UNCHANGED restarts
    PROVE  Typed'
<1>0. /\ TypeOK
      /\ UNCHANGED <<pc, logVars, applyVars, cast, restarts>>
      /\ m.type = "AppendResponse"
  BY DEF Typed, raft_handle_append_response, Receives
<1> SUFFICES TypeOK'
  BY <1>0 DEF Typed, AppliedIsPrefix, logVars, applyVars
<1>1. CASE StepDown(n, m)
  BY <1>0, <1>1, StepDownTyped DEF TypeOK, logVars, applyVars, leaderVars
<1>2. CASE NoteMatch(n, m)
  <2>1. m.match_index \in Nat /\ m.src \in Server
    <3>1. m \in AppendEntriesResponse_t
      BY <1>0, MessageFields DEF TypeOK
    <3> QED  BY <3>1 DEF AppendEntriesResponse_t
  <2>2. net' \in SUBSET Message
    BY <1>0, <1>2, ReceiveType DEF NoteMatch, TypeOK
  <2>3. BackUp(next_idx[n][m.src]) \in Nat
    <3>1. PICK i \in Nat : i = next_idx[n][m.src]
      BY <1>0, <2>1 DEF TypeOK
    <3>2. i > 1 => i - 1 \in Nat
      BY <3>1
    <3> QED  BY <3>1, <3>2 DEF BackUp
  <2>4. next_idx' \in [Server -> [Server -> Nat]] /\ match_idx' \in [Server -> [Server -> Nat]]
    <3>1. next_idx \in [Server -> [Server -> Nat]] /\ match_idx \in [Server -> [Server -> Nat]]
      BY <1>0 DEF TypeOK
    <3>2. CASE m.success
      <4>1. m.match_index + 1 \in Nat
        BY <2>1
      <4>2. /\ next_idx' = [next_idx EXCEPT ![n][m.src] = m.match_index + 1]
            /\ match_idx' = [match_idx EXCEPT ![n][m.src] = m.match_index]
        BY <1>2, <3>2 DEF NoteMatch
      <4> QED  BY <2>1, <3>1, <4>1, <4>2, UpdateOne
    <3>3. CASE ~m.success
      <4>1. /\ next_idx' = [next_idx EXCEPT ![n][m.src] = BackUp(next_idx[n][m.src])]
            /\ UNCHANGED match_idx
        BY <1>2, <3>3 DEF NoteMatch
      <4> QED  BY <2>1, <2>3, <3>1, <4>1, UpdateOne
    <3> QED  BY <3>2, <3>3
  <2> QED  BY <1>0, <1>2, <2>2, <2>4 DEF NoteMatch, TypeOK, voteVars, logVars, applyVars
<1>3. CASE IgnoreAppendResponse(n, m)
  <2>1. net' \in SUBSET Message
    BY <1>0, <1>3, ReceiveType DEF IgnoreAppendResponse, TypeOK
  <2> QED  BY <1>0, <1>3, <2>1
           DEF IgnoreAppendResponse, TypeOK, voteVars, logVars, applyVars, leaderVars
<1> QED  BY <1>1, <1>2, <1>3 DEF raft_handle_append_response

LEMMA AppendEntryTyped ==
    ASSUME Typed, NEW n \in Server, raft_append_entry(n), UNCHANGED restarts
    PROVE  Typed'
<1> DEFINE lg == Append(log[n], NewEntry(n))
<1>0. TypeOK /\ AppliedIsPrefix
  BY DEF Typed
<1>1. log[n] \in Seq(RaftLogEntry_t) /\ Len(log[n]) \in Nat
  BY <1>0, LenProperties DEF TypeOK
<1>2. NewEntry(n) \in RaftLogEntry_t
  <2>1. Len(log[n]) + 1 \in Nat /\ term[n] \in Nat
    BY <1>0, <1>1 DEF TypeOK
  <2> QED  BY <2>1 DEF NewEntry, RaftLogEntry_t
<1>3. lg \in Seq(RaftLogEntry_t) /\ Len(lg) = Len(log[n]) + 1
  BY <1>1, <1>2, AppendProperties
<1>4. /\ log' = [log EXCEPT ![n] = lg]
      /\ Transmit(net, AppendRequests(n, lg, <<NewEntry(n)>>))
      /\ pc' = [pc EXCEPT ![n] = "tick"]
      /\ UNCHANGED <<voteVars, commit_idx, applyVars, leader_id, leaderVars, historyVars, restarts>>
  BY DEF raft_append_entry
<1>5. \A a \in Nat : a <= Len(log[n]) => SubSeq(lg, 1, a) = SubSeq(log[n], 1, a)
  BY <1>1, <1>2, AppendKeepsPrefix
<1> HIDE DEF lg
<1>6. net' \in SUBSET Message
  <2>1. <<NewEntry(n)>> \in Seq(RaftLogEntry_t)
    BY <1>2
  <2>2. AppendRequests(n, lg, <<NewEntry(n)>>) \in SUBSET Message
    BY <1>0, <1>3, <2>1, PacketTypes
  <2> QED  BY <1>0, <1>4, <2>2, TransmitType DEF TypeOK
<1>7. TypeOK'
  BY <1>0, <1>3, <1>4, <1>6 DEF TypeOK, voteVars, applyVars, leaderVars, historyVars
<1>8. AppliedIsPrefix'
  <2> SUFFICES ASSUME NEW p \in Server
               PROVE  /\ last_applied[p] <= commit_idx[p]
                      /\ commit_idx[p] <= Len(log'[p])
                      /\ applied[p] = SubSeq(log'[p], 1, last_applied[p])
    BY <1>4 DEF AppliedIsPrefix, applyVars
  <2>1. /\ last_applied[p] \in Nat
        /\ commit_idx[p] \in Nat
        /\ last_applied[p] <= commit_idx[p]
        /\ commit_idx[p] <= Len(log[p])
        /\ applied[p] = SubSeq(log[p], 1, last_applied[p])
    BY <1>0 DEF TypeOK, AppliedIsPrefix
  <2>2. CASE p = n
    <3>1. log'[p] = lg
      BY <1>0, <1>4, <2>2 DEF TypeOK
    <3>2. last_applied[p] <= Len(log[n]) /\ commit_idx[p] <= Len(lg)
      BY <1>1, <1>3, <2>1, <2>2
    <3> QED  BY <1>5, <2>1, <2>2, <3>1, <3>2
  <2>3. CASE p # n
    BY <1>0, <1>4, <2>1, <2>3 DEF TypeOK
  <2> QED  BY <2>2, <2>3
<1> QED  BY <1>7, <1>8 DEF Typed

LEMMA RestartTyped ==
    ASSUME Typed, NEW n \in Server, Restart(n)
    PROVE  Typed'
<1>0. TypeOK /\ AppliedIsPrefix
  BY DEF Typed
<1>1. << >> \in Seq(RaftLogEntry_t) /\ Len(<< >>) = 0 /\ SubSeq(<< >>, 1, 0) = << >>
  BY EmptySeq, SubSeqEmpty
<1>2. /\ log' \in [Server -> Seq(RaftLogEntry_t)]
      /\ commit_idx' \in [Server -> Nat]
      /\ last_applied' \in [Server -> Nat]
      /\ applied' \in [Server -> Seq(RaftLogEntry_t)]
  BY <1>0, <1>1 DEF Restart, ResetJournal, TypeOK
<1>3. /\ state' \in [Server -> RaftState_t]
      /\ term' \in [Server -> Nat]
      /\ voted_for' \in [Server -> Server \cup {Nobody}]
      /\ votes' \in [Server -> Nat]
      /\ leader_id' \in [Server -> Server \cup {Nobody}]
  BY <1>0 DEF Restart, ResetRole, TypeOK, RaftState_t
<1>4. /\ next_idx' \in [Server -> [Server -> Nat]]
      /\ match_idx' \in [Server -> [Server -> Nat]]
  BY <1>0 DEF Restart, InitialNext, TypeOK
<1>5. pc' \in [Server -> {"tick", "poll"}] /\ restarts' \in Nat /\ UNCHANGED <<net, cast, elected>>
  BY <1>0 DEF Restart, TypeOK, historyVars
<1>6. TypeOK'
  BY <1>0, <1>2, <1>3, <1>4, <1>5 DEF TypeOK
<1>7. AppliedIsPrefix'
  <2> SUFFICES ASSUME NEW p \in Server
               PROVE  /\ last_applied'[p] <= commit_idx'[p]
                      /\ commit_idx'[p] <= Len(log'[p])
                      /\ applied'[p] = SubSeq(log'[p], 1, last_applied'[p])
    BY DEF AppliedIsPrefix
  <2>1. CASE p = n
    <3>1. log'[p] = << >> /\ applied'[p] = << >> /\ commit_idx'[p] = 0 /\ last_applied'[p] = 0
      BY <1>0, <2>1 DEF Restart, ResetJournal, TypeOK
    <3> QED  BY <1>1, <3>1
  <2>2. CASE p # n
    <3>1. /\ log'[p] = log[p] /\ applied'[p] = applied[p]
          /\ commit_idx'[p] = commit_idx[p] /\ last_applied'[p] = last_applied[p]
      BY <1>0, <2>2 DEF Restart, ResetJournal, TypeOK
    <3> QED  BY <1>0, <3>1 DEF AppliedIsPrefix
  <2> QED  BY <2>1, <2>2
<1> QED  BY <1>6, <1>7 DEF Typed

\* Every step of a cluster, restarts included.
LEMMA StepTyped ==
    ASSUME Typed, [CrashNext]_vars
    PROVE  Typed'
<1>1. ASSUME NEW n \in Server, raft_tick(n), UNCHANGED restarts
      PROVE  Typed'
  BY <1>1, TickTyped
<1>2. ASSUME NEW n \in Server, NEW m \in net, Handle(n, m), UNCHANGED restarts
      PROVE  Typed'
  BY <1>2, VoteRequestTyped, VoteResponseTyped, AppendEntriesTyped, AppendResponseTyped DEF Handle
<1>3. ASSUME NEW n \in Server, raft_append_entry(n), UNCHANGED restarts
      PROVE  Typed'
  BY <1>3, AppendEntryTyped
<1>4. ASSUME NEW n \in Server, Restart(n)
      PROVE  Typed'
  BY <1>4, RestartTyped
<1>5. CASE UNCHANGED vars
  BY <1>5 DEF Typed, TypeOK, AppliedIsPrefix, vars, voteVars, logVars, applyVars,
              leaderVars, historyVars
<1> QED  BY <1>1, <1>2, <1>3, <1>4, <1>5 DEF CrashNext, Next, NodeStep

LEMMA TypedInvariant == CrashSpec => []Typed
<1>1. Init => Typed
  BY InitTyped
<1>2. Typed /\ [CrashNext]_vars => Typed'
  BY StepTyped
<1> QED  BY <1>1, <1>2, PTL DEF CrashSpec

\* A run without restarts is a run.
LEMMA SpecImpliesCrashSpec == Spec => CrashSpec
<1>1. [Next]_vars => [CrashNext]_vars
  BY DEF CrashNext
<1> QED  BY <1>1, PTL DEF Spec, CrashSpec

\* Every node's state and every datagram is well typed for ever, whatever the
\* network does and however often processes restart: next_idx never drops below
\* zero however many refusals raft_handle_append_response sees.
THEOREM TypeCorrect == CrashSpec => []TypeOK
<1>1. Typed => TypeOK
  BY DEF Typed
<1> QED  BY <1>1, TypedInvariant, PTL

\* raft_tick hands the application exactly the committed prefix of the log, each
\* record once and in order, also when processes restart.
THEOREM AppliesCommittedPrefix == CrashSpec => []AppliedIsPrefix
<1>1. Typed => AppliedIsPrefix
  BY DEF Typed
<1> QED  BY <1>1, TypedInvariant, PTL

-----------------------------------------------------------------------------
(* No step moves a node back *)

\* t is s, possibly with more at its end.
Extends(s, t) == Len(s) <= Len(t) /\ s = SubSeq(t, 1, Len(s))

Forward ==
    \A n \in Server :
        /\ term[n] <= term'[n]
        /\ commit_idx[n] <= commit_idx'[n]
        /\ Extends(log[n], log'[n])
        /\ Extends(applied[n], applied'[n])

LEMMA ExtendsItself ==
    ASSUME NEW S, NEW s \in Seq(S)
    PROVE  Extends(s, s)
BY SubSeqFull, LenProperties DEF Extends

\* Appending one sequence to another only adds at the end.
LEMMA ExtendsConcat ==
    ASSUME NEW S, NEW s \in Seq(S), NEW t \in Seq(S)
    PROVE  Extends(s, s \o t)
<1> DEFINE u == s \o t
<1>1. /\ u \in Seq(S)
      /\ Len(u) = Len(s) + Len(t)
      /\ \A i \in 1..Len(s) : u[i] = s[i]
      /\ Len(s) \in Nat /\ Len(t) \in Nat
  BY ConcatProperties, LenProperties
<1> HIDE DEF u
<1>2. \A i \in 1..Len(s) : u[i] \in S
  BY <1>1, ElementOfSeq
<1>3. /\ SubSeq(u, 1, Len(s)) \in Seq(S)
      /\ Len(SubSeq(u, 1, Len(s))) = Len(s)
      /\ \A i \in 1..Len(s) : SubSeq(u, 1, Len(s))[i] = u[i]
  BY <1>1, <1>2, SubSeqProperties
<1>4. s = SubSeq(u, 1, Len(s))
  BY <1>1, <1>3, SeqEqual
<1> QED  BY <1>1, <1>4 DEF Extends, u

\* Raising one node's number lowers nobody's.
LEMMA RaiseOne ==
    ASSUME NEW f \in [Server -> Nat], NEW n \in Server, NEW x \in Nat, f[n] <= x
    PROVE  \A p \in Server : f[p] <= [f EXCEPT ![n] = x][p]
<1> TAKE p \in Server
<1>1. f[p] \in Nat /\ f[p] <= f[p]
  OBVIOUS
<1>2. CASE p = n
  BY <1>2
<1>3. CASE p # n
  BY <1>1, <1>3
<1> QED  BY <1>2, <1>3

\* Steps that leave a node's logs and applied records alone.
LEMMA ForwardByTerm ==
    ASSUME TypeOK, NEW n \in Server, UNCHANGED <<log, commit_idx, applied>>,
           \A p \in Server \ {n} : term'[p] = term[p],
           term[n] <= term'[n]
    PROVE  Forward
<1> SUFFICES ASSUME NEW p \in Server
             PROVE  /\ term[p] <= term'[p]
                    /\ commit_idx[p] <= commit_idx'[p]
                    /\ Extends(log[p], log'[p])
                    /\ Extends(applied[p], applied'[p])
  BY DEF Forward
<1>1. Extends(log[p], log[p]) /\ Extends(applied[p], applied[p])
  BY ExtendsItself DEF TypeOK
<1>2. term[p] \in Nat /\ commit_idx[p] \in Nat
  BY DEF TypeOK
<1>3. term[p] <= term'[p]
  BY <1>2
<1>4. commit_idx[p] <= commit_idx'[p]
  BY <1>2
<1> QED  BY <1>1, <1>3, <1>4

LEMMA ForwardByNothing ==
    ASSUME TypeOK, UNCHANGED <<term, log, commit_idx, applied>>
    PROVE  Forward
<1>1. ASSUME NEW p \in Server
      PROVE  term[p] \in Nat /\ commit_idx[p] \in Nat
  BY DEF TypeOK
<1>2. \A p \in Server : Extends(log[p], log[p]) /\ Extends(applied[p], applied[p])
  BY ExtendsItself DEF TypeOK
<1>3. \A p \in Server : term[p] <= term'[p] /\ commit_idx[p] <= commit_idx'[p]
  BY <1>1
<1> QED  BY <1>2, <1>3 DEF Forward

\* The apply loop only adds to what was applied.
LEMMA ApplyExtends ==
    ASSUME Typed, NEW n \in Server, NEW c \in Nat, c <= Len(log[n]), ApplyUpTo(n, c)
    PROVE  \A p \in Server : Extends(applied[p], applied'[p])
<1>1. /\ log[n] \in Seq(RaftLogEntry_t)
      /\ applied \in [Server -> Seq(RaftLogEntry_t)]
      /\ last_applied[n] \in Nat
  BY DEF Typed, TypeOK
<1> DEFINE new == SubSeq(log[n], last_applied[n] + 1, c)
<1>2. new \in Seq(RaftLogEntry_t)
  <2>1. Len(log[n]) \in Nat
    BY <1>1, LenProperties
  <2>2. \A i \in last_applied[n] + 1..c : log[n][i] \in RaftLogEntry_t
    BY <1>1, <2>1, ElementOfSeq
  <2> QED  BY <1>1, <2>2, SubSeqProperties
<1>3. applied' = [applied EXCEPT ![n] = applied[n] \o new]
  BY <1>1 DEF ApplyUpTo
<1> HIDE DEF new
<1>4. Extends(applied[n], applied[n] \o new)
  BY <1>1, <1>2, ExtendsConcat
<1>5. \A p \in Server : Extends(applied[p], applied[p])
  BY <1>1, ExtendsItself
<1> QED  BY <1>1, <1>3, <1>4, <1>5

LEMMA StepForward ==
    ASSUME Typed, [Next]_vars
    PROVE  Forward
<1>0. /\ TypeOK
      /\ \A p \in Server : /\ term[p] \in Nat
                           /\ commit_idx[p] \in Nat
                           /\ commit_idx[p] <= Len(log[p])
                           /\ log[p] \in Seq(RaftLogEntry_t)
                           /\ Len(log[p]) \in Nat
                           /\ applied[p] \in Seq(RaftLogEntry_t)
  BY LenProperties DEF Typed, TypeOK, AppliedIsPrefix
<1>1. \A p \in Server : Extends(log[p], log[p]) /\ Extends(applied[p], applied[p])
  BY <1>0, ExtendsItself
<1>2. ASSUME NEW n \in Server, raft_tick(n)
      PROVE  Forward
  <2>1. CASE TickLeader(n)
    <3>1. PICK c \in {commit_idx[n]} \cup Committable(n) :
             /\ commit_idx' = [commit_idx EXCEPT ![n] = c]
             /\ ApplyUpTo(n, c)
      BY <2>1 DEF TickLeader
    <3>2. c \in Nat /\ commit_idx[n] <= c /\ c <= Len(log[n])
      BY <1>0 DEF Committable
    <3>3. \A p \in Server : Extends(applied[p], applied'[p])
      BY <3>1, <3>2, ApplyExtends
    <3>4. \A p \in Server : commit_idx[p] <= commit_idx'[p]
      BY <3>1, <3>2, RaiseOne DEF Typed, TypeOK
    <3>5. UNCHANGED <<term, log>>
      BY <2>1 DEF TickLeader, voteVars
    <3>6. \A p \in Server : term[p] <= term'[p]
      BY <1>0, <3>5
    <3> QED  BY <1>1, <3>3, <3>4, <3>5, <3>6 DEF Forward
  <2>2. CASE TickElection(n) \/ TickIdle(n)
    <3>1. UNCHANGED <<log, commit_idx>> /\ ApplyUpTo(n, commit_idx[n])
      BY <2>2 DEF TickElection, TickIdle, logVars
    <3>2. PICK c : c = commit_idx[n]
      OBVIOUS
    <3>3. \A p \in Server : Extends(applied[p], applied'[p])
      BY <1>0, <3>1, <3>2, ApplyExtends
    <3>4. \A p \in Server : term[p] <= term'[p]
      <4>1. CASE TickElection(n)
        <5>1. term' = [term EXCEPT ![n] = term[n] + 1]
          BY <4>1 DEF TickElection
        <5>2. term[n] + 1 \in Nat /\ term[n] <= term[n] + 1
          BY <1>0
        <5> QED  BY <5>1, <5>2, RaiseOne DEF Typed, TypeOK
      <4>2. CASE TickIdle(n)
        BY <1>0, <4>2 DEF TickIdle, voteVars
      <4> QED  BY <2>2, <4>1, <4>2
    <3>5. \A p \in Server : commit_idx[p] <= commit_idx'[p]
      BY <1>0, <3>1
    <3> QED  BY <1>1, <3>1, <3>3, <3>4, <3>5 DEF Forward
  <2> QED  BY <1>2, <2>1, <2>2 DEF raft_tick
<1>3. ASSUME NEW n \in Server, NEW m \in net, raft_handle_vote_request(n, m)
      PROVE  Forward
  <2>1. m.term \in Nat /\ UNCHANGED <<log, commit_idx, applied>>
    BY <1>0, <1>3, MessageFields DEF TypeOK, raft_handle_vote_request, GrantsVote, logVars, applyVars
  <2>2. /\ \A p \in Server \ {n} : term'[p] = term[p]
        /\ term'[n] = IF NewerTerm(n, m) THEN m.term ELSE term[n]
    BY <1>0, <1>3 DEF raft_handle_vote_request, TypeOK
  <2>3. term[n] <= term'[n]
    BY <1>0, <2>1, <2>2 DEF NewerTerm
  <2> QED  BY <1>0, <2>1, <2>2, <2>3, ForwardByTerm
<1>4. ASSUME NEW n \in Server, NEW m \in net, StepDown(n, m), UNCHANGED <<logVars, applyVars>>
      PROVE  Forward
  <2>1. m.term \in Nat /\ m.term > term[n]
    BY <1>0, <1>4, MessageFields DEF TypeOK, StepDown, NewerTerm
  <2>2. (\A p \in Server \ {n} : term'[p] = term[p]) /\ term'[n] = m.term
    BY <1>0, <1>4 DEF StepDown, TypeOK
  <2>3. term[n] <= term'[n]
    BY <1>0, <2>1, <2>2
  <2> QED  BY <1>0, <1>4, <2>2, <2>3, ForwardByTerm DEF logVars, applyVars
<1>5. ASSUME NEW n \in Server, NEW m \in net, raft_handle_vote_response(n, m)
      PROVE  Forward
  <2>1. UNCHANGED <<logVars, applyVars>>
    BY <1>5 DEF raft_handle_vote_response
  <2>2. CASE CountVote(n, m) \/ IgnoreVoteResponse(n, m)
    BY <1>0, <2>1, <2>2, ForwardByNothing
       DEF CountVote, IgnoreVoteResponse, voteVars, logVars, applyVars
  <2> QED  BY <1>4, <1>5, <2>1, <2>2 DEF raft_handle_vote_response
<1>6. ASSUME NEW n \in Server, NEW m \in net, raft_handle_append_entries(n, m)
      PROVE  Forward
  <2>1. /\ applied' = applied
        /\ m.type = "AppendRequest"
        /\ m.term \in Nat /\ m.leader_commit \in Nat
    BY <1>0, <1>6, MessageFields
       DEF raft_handle_append_entries, applyVars, Receives, TypeOK, AppendEntriesRequest_t
  <2>2. CASE RejectStaleLeader(n, m)
    BY <1>0, <2>1, <2>2, ForwardByNothing DEF RejectStaleLeader, voteVars, logVars
  <2>3. ASSUME FollowLeader(n, m)
        PROVE  (\A p \in Server \ {n} : term'[p] = term[p]) /\ term[n] <= term'[n]
    BY <1>0, <2>1, <2>3 DEF FollowLeader, CurrentLeader, TypeOK
  <2>4. CASE FollowLeader(n, m) /\ RejectPrev(n, m)
    BY <1>0, <2>1, <2>3, <2>4, ForwardByTerm DEF RejectPrev, logVars
  <2>5. CASE FollowLeader(n, m) /\ AcceptPrev(n, m)
    <3>1. /\ log' \in [Server -> Seq(RaftLogEntry_t)]
          /\ \A p \in Server \ {n} : log'[p] = log[p]
          /\ Len(log[n]) <= Len(log'[n])
          /\ \A a \in Nat : a <= Len(log[n]) => SubSeq(log'[n], 1, a) = SubSeq(log[n], 1, a)
      BY <2>1, <2>5, AcceptPrevLog
    <3>2. Extends(log[n], log'[n])
      <4>1. SubSeq(log'[n], 1, Len(log[n])) = SubSeq(log[n], 1, Len(log[n]))
        BY <1>0, <3>1
      <4>2. SubSeq(log[n], 1, Len(log[n])) = log[n]
        BY <1>0, SubSeqFull
      <4> QED  BY <3>1, <4>1, <4>2 DEF Extends
    <3>3. \A p \in Server : Extends(log[p], log'[p])
      BY <1>1, <3>1, <3>2
    <3>4. PICK c : c = FollowCommit(commit_idx[n], m.leader_commit, Len(log'[n]))
      OBVIOUS
    <3>5. commit_idx' = [commit_idx EXCEPT ![n] = c]
      BY <2>5, <3>4 DEF AcceptPrev
    <3>6. commit_idx[n] <= c /\ c \in Nat
      <4>1. Len(log'[n]) \in Nat /\ commit_idx[n] <= Len(log'[n])
        BY <1>0, <3>1, LenProperties
      <4> QED  BY <1>0, <2>1, <3>4, <4>1, FollowCommitBounds
    <3>7. \A p \in Server : commit_idx[p] <= commit_idx'[p]
      BY <3>5, <3>6, RaiseOne DEF Typed, TypeOK
    <3>8. \A p \in Server : term[p] <= term'[p]
      BY <1>0, <2>3, <2>5
    <3> QED  BY <1>1, <2>1, <3>3, <3>7, <3>8 DEF Forward
  <2> QED  BY <1>6, <2>2, <2>4, <2>5 DEF raft_handle_append_entries
<1>7. ASSUME NEW n \in Server, NEW m \in net, raft_handle_append_response(n, m)
      PROVE  Forward
  <2>1. UNCHANGED <<logVars, applyVars>>
    BY <1>7 DEF raft_handle_append_response
  <2>2. CASE NoteMatch(n, m) \/ IgnoreAppendResponse(n, m)
    BY <1>0, <2>1, <2>2, ForwardByNothing
       DEF NoteMatch, IgnoreAppendResponse, voteVars, logVars, applyVars
  <2> QED  BY <1>4, <1>7, <2>1, <2>2 DEF raft_handle_append_response
<1>8. ASSUME NEW n \in Server, raft_append_entry(n)
      PROVE  Forward
  <2>1. /\ log' = [log EXCEPT ![n] = Append(log[n], NewEntry(n))]
        /\ UNCHANGED <<term, commit_idx, applied>>
    BY <1>8 DEF raft_append_entry, voteVars, applyVars
  <2>2. NewEntry(n) \in RaftLogEntry_t
    <3>1. Len(log[n]) + 1 \in Nat /\ term[n] \in Nat
      BY <1>0
    <3> QED  BY <3>1 DEF NewEntry, RaftLogEntry_t
  <2>3. Extends(log[n], Append(log[n], NewEntry(n)))
    <3>1. Append(log[n], NewEntry(n)) = log[n] \o <<NewEntry(n)>>
      BY <1>0, <2>2, AppendIsConcat
    <3>2. <<NewEntry(n)>> \in Seq(RaftLogEntry_t)
      BY <2>2
    <3> QED  BY <1>0, <3>1, <3>2, ExtendsConcat
  <2>4. \A p \in Server : Extends(log[p], log'[p])
    BY <1>0, <1>1, <2>1, <2>3 DEF TypeOK
  <2>5. \A p \in Server : term[p] <= term'[p] /\ commit_idx[p] <= commit_idx'[p]
    BY <1>0, <2>1
  <2> QED  BY <1>1, <2>1, <2>4, <2>5 DEF Forward
<1>9. CASE UNCHANGED vars
  BY <1>0, <1>9, ForwardByNothing DEF vars, voteVars, logVars, applyVars
<1> QED  BY <1>2, <1>3, <1>5, <1>6, <1>7, <1>8, <1>9 DEF Next, NodeStep, Handle

\* Terms and commit indexes never fall, and logs and applied records only grow at
\* the end, in every step but a restart, also among nodes that restarted before.
THEOREM NothingIsTakenBack == CrashSpec => NeverBack
<1>1. Typed /\ [CrashNext]_vars =>
        [restarts' = restarts => \A n \in Server :
            /\ term[n] <= term'[n]
            /\ commit_idx[n] <= commit_idx'[n]
            /\ Len(log[n]) <= Len(log'[n])
            /\ log[n] = SubSeq(log'[n], 1, Len(log[n]))
            /\ Len(applied[n]) <= Len(applied'[n])
            /\ applied[n] = SubSeq(applied'[n], 1, Len(applied[n]))]_vars
  <2>1. ASSUME Typed, [CrashNext]_vars, restarts' = restarts
        PROVE  [Next]_vars
    <3>1. restarts \in Nat
      BY <2>1 DEF Typed, TypeOK
    <3>2. ~(\E n \in Server : Restart(n))
      BY <2>1, <3>1 DEF Restart
    <3> QED  BY <2>1, <3>2 DEF CrashNext
  <2> QED  BY <2>1, StepForward DEF Forward, Extends
<1> QED  BY <1>1, TypedInvariant, PTL DEF CrashSpec, NeverBack

=============================================================================
