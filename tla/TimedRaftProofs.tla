--------------------------- MODULE TimedRaftProofs ---------------------------
(***************************************************************************)
(* Theorems about TimedRaft, for every cluster and every setting of the    *)
(* timers that TimerAssumption and HeartbeatAssumption admit.              *)
(***************************************************************************)
EXTENDS TimedRaft, ChronosLeaderProofs

-----------------------------------------------------------------------------
(* The clocks only restrict the cluster *)

LEMMA TimedInitIsInit == TimedInit => Init
BY DEF TimedInit

\* What a node does in TimedRaft, it may do in ChronosRaft.
LEMMA TimedStepIsStep ==
    ASSUME NEW n \in Server, TimedStep(n)
    PROVE  NodeStep(n)
BY DEF TimedStep, NodeStep, TimedTick, TimedHeartbeat, TimedElection, TimedQuietTick,
       TimedHandle, TimedVoteRequest, TimedVoteResponse, TimedAppendEntries,
       TimedAppendResponse, Handle, TimedAppend

LEMMA TimedNextIsNext ==
    ASSUME [TimedNext]_timedVars
    PROVE  [Next]_vars
BY TimedStepIsStep DEF TimedNext, Next, Pass, timedVars

\* The cluster with its clocks is a cluster of ChronosRaft: all that holds there,
\* where any timer may run out at any time, holds with the timers of raft.c.
THEOREM ImplementsUntimed == TimedSpec => Spec
<1>1. TimedInit => Init
  BY TimedInitIsInit
<1>2. [TimedNext]_timedVars => [Next]_vars
  BY TimedNextIsNext
<1> QED  BY <1>1, <1>2, PTL DEF TimedSpec, Spec

LEMMA UntimedFacts == TimedSpec => [](Typed /\ Led)
<1>1. TimedSpec => CrashSpec
  BY ImplementsUntimed, SpecImpliesCrashSpec
<1> QED  BY <1>1, LedInvariant, PTL

-----------------------------------------------------------------------------
(* Steps of one node *)

\* Only n changes its role, its term and its vote.
AtHome(n) ==
    \A p \in Server \ {n} :
        state'[p] = state[p] /\ term'[p] = term[p] /\ voted_for'[p] = voted_for[p]

LEMMA NodeStepsAtHome ==
    ASSUME TypeOK, NEW n \in Server, NodeStep(n)
    PROVE  AtHome(n)
<1>1. CASE raft_tick(n)
  BY <1>1 DEF raft_tick, TickLeader, TickElection, TickIdle, voteVars, AtHome, TypeOK
<1>2. ASSUME NEW m \in net, raft_handle_vote_request(n, m)
      PROVE  AtHome(n)
  BY <1>2 DEF raft_handle_vote_request, AtHome, TypeOK
<1>3. ASSUME NEW m \in net, raft_handle_vote_response(n, m)
      PROVE  AtHome(n)
  BY <1>3 DEF raft_handle_vote_response, StepDown, CountVote, BecomeLeader,
              IgnoreVoteResponse, voteVars, AtHome, TypeOK
<1>4. ASSUME NEW m \in net, raft_handle_append_entries(n, m)
      PROVE  AtHome(n)
  BY <1>4 DEF raft_handle_append_entries, RejectStaleLeader, FollowLeader, voteVars,
              AtHome, TypeOK
<1>5. ASSUME NEW m \in net, raft_handle_append_response(n, m)
      PROVE  AtHome(n)
  BY <1>5 DEF raft_handle_append_response, StepDown, NoteMatch, IgnoreAppendResponse,
              voteVars, AtHome, TypeOK
<1>6. CASE raft_append_entry(n)
  BY <1>6 DEF raft_append_entry, voteVars, AtHome
<1> QED  BY <1>1, <1>2, <1>3, <1>4, <1>5, <1>6 DEF NodeStep, Handle

\* What a step of n does to the timers: they run on, start again with the old
\* timeout, or are reset; the others' are left alone.
TimerStep(n) == UNCHANGED timers \/ RestartTimer(n) \/ reset_timer(n)

LEMMA TimerSteps ==
    ASSUME NEW n \in Server, TimedStep(n)
    PROVE  TimerStep(n)
BY DEF TimedStep, TimerStep, TimedTick, TimedHeartbeat, TimedElection, TimedQuietTick,
       TimedHandle, TimedVoteRequest, TimedVoteResponse, TimedAppendEntries,
       TimedAppendResponse, TimedAppend

\* The same in terms of the values.
LEMMA TimerStepValues ==
    ASSUME TimedTypeOK, NEW n \in Server, TimerStep(n)
    PROVE  /\ timer_age' \in [Server -> Nat]
           /\ election_timeout_ms' \in [Server -> Timeouts]
           /\ \A p \in Server \ {n} :
                 /\ timer_age'[p] = timer_age[p]
                 /\ election_timeout_ms'[p] = election_timeout_ms[p]
           /\ \/ timer_age'[n] = 0
              \/ /\ timer_age'[n] = timer_age[n]
                 /\ election_timeout_ms'[n] = election_timeout_ms[n]
<1>0. timer_age \in [Server -> Nat] /\ election_timeout_ms \in [Server -> Timeouts]
  BY DEF TimedTypeOK
<1>1. CASE UNCHANGED timers
  BY <1>0, <1>1 DEF timers
<1>2. CASE RestartTimer(n)
  BY <1>0, <1>2 DEF RestartTimer
<1>3. CASE reset_timer(n)
  <2>1. PICK t \in Timeouts : election_timeout_ms' = [election_timeout_ms EXCEPT ![n] = t]
    BY <1>3 DEF reset_timer
  <2>2. timer_age' = [timer_age EXCEPT ![n] = 0]
    BY <1>3 DEF reset_timer
  <2> QED  BY <1>0, <2>1, <2>2
<1> QED  BY <1>1, <1>2, <1>3 DEF TimerStep

\* The shortest timeout is longer than nothing, and at least a heartbeat interval.
LEMMA TimeoutRange ==
    ASSUME NEW t \in Timeouts
    PROVE  t \in Nat /\ ELECTION_TIMEOUT_BASE <= t /\ HB_INTERVAL <= t /\ 1 <= t
BY TimerAssumption DEF Timeouts

-----------------------------------------------------------------------------
(* Types, and timers that are served *)

\* Every timer, seen from the node's last tick, had not run out then.
Served ==
    \A n \in Server :
        timer_age[n] <= loop_age[n] - 1 +
            (IF state[n] = RAFT_LEADER THEN HB_INTERVAL ELSE election_timeout_ms[n])

Clocked == TimedTypeOK /\ Served

LEMMA InitClocked ==
    ASSUME TimedInit
    PROVE  Clocked
<1>1. TimedTypeOK
  <2>1. sent_ago \in [net -> 0..MaxDelay]
    <3>1. net = {} /\ DOMAIN sent_ago = {}
      BY EmptySeq DEF TimedInit, Init
    <3>2. sent_ago = [m \in {} |-> sent_ago[m]]
      BY <3>1 DEF TimedInit
    <3> QED  BY <3>1, <3>2
  <2> QED  BY <2>1, TimerAssumption DEF TimedTypeOK, TimedInit
<1>2. Served
  BY TimerAssumption, TimeoutRange DEF Served, TimedInit, Init, RAFT_FOLLOWER, RAFT_LEADER
<1> QED  BY <1>1, <1>2 DEF Clocked

\* What a step leaves of the ages of the datagrams.
LEMMA PostedType ==
    ASSUME TimedTypeOK, Posted
    PROVE  sent_ago' \in [net' -> 0..MaxDelay]
BY TimerAssumption DEF TimedTypeOK, Posted

\* A node whose timer starts again, or runs on in a role that waits no shorter, is
\* served as before.
LEMMA ServedKept ==
    ASSUME Clocked, NEW n \in Server, AtHome(n), TimerStep(n), UNCHANGED loop_age,
           \/ timer_age'[n] = 0
           \/ UNCHANGED timers /\ (state'[n] = state[n] \/ state'[n] # RAFT_LEADER)
    PROVE  Served'
<1> SUFFICES ASSUME NEW p \in Server
             PROVE  timer_age'[p] <= loop_age'[p] - 1 +
                        (IF state'[p] = RAFT_LEADER THEN HB_INTERVAL ELSE election_timeout_ms'[p])
  BY DEF Served
<1> DEFINE bound(q) == IF state[q] = RAFT_LEADER THEN HB_INTERVAL ELSE election_timeout_ms[q]
<1>1. /\ loop_age[p] \in Nat /\ timer_age[p] \in Nat /\ HB_INTERVAL \in Nat /\ 1 <= HB_INTERVAL
      /\ election_timeout_ms[p] \in Nat /\ HB_INTERVAL <= election_timeout_ms[p]
      /\ election_timeout_ms'[p] \in Nat /\ 1 <= election_timeout_ms'[p]
      /\ timer_age[p] <= loop_age[p] - 1 + bound(p)
  <2>1. election_timeout_ms[p] \in Timeouts /\ election_timeout_ms'[p] \in Timeouts
    BY TimerStepValues DEF Clocked, TimedTypeOK
  <2>2. loop_age[p] \in Nat /\ timer_age[p] \in Nat
    BY TimerAssumption DEF Clocked, TimedTypeOK
  <2> QED  BY <2>1, <2>2, TimeoutRange, TimerAssumption DEF Clocked, Served
<1>2. CASE p # n
  <2>1. /\ timer_age'[p] = timer_age[p] /\ election_timeout_ms'[p] = election_timeout_ms[p]
        /\ state'[p] = state[p]
    BY <1>2, TimerStepValues DEF Clocked, AtHome
  <2> QED  BY <1>1, <2>1
<1>3. CASE p = n /\ timer_age'[n] = 0
  BY <1>1, <1>3
<1>4. CASE p = n /\ UNCHANGED timers /\ (state'[n] = state[n] \/ state'[n] # RAFT_LEADER)
  BY <1>1, <1>4 DEF timers
<1> QED  BY <1>2, <1>3, <1>4

LEMMA TickClocked ==
    ASSUME TypeOK, Clocked, NEW n \in Server, AtHome(n), TimedTick(n), Posted
    PROVE  Clocked'
<1>1. TimerStep(n)
  BY DEF TimedTick, TimedHeartbeat, TimedElection, TimedQuietTick, TimerStep
<1>2. /\ timer_age' \in [Server -> Nat] /\ election_timeout_ms' \in [Server -> Timeouts]
      /\ loop_age \in [Server -> 0..LoopPeriod] /\ loop_age' = [loop_age EXCEPT ![n] = 0]
  BY <1>1, TimerStepValues DEF Clocked, TimedTypeOK, TimedTick
<1>3. loop_age' \in [Server -> 0..LoopPeriod]
  BY <1>2, TimerAssumption
<1>4. heard' \in [Server -> {<< >>} \cup (Server \X Nat)]
  <2> DEFINE Values == {<< >>} \cup (Server \X Nat)
  <2>1. heard \in [Server -> Values] /\ << >> \in Values
    BY DEF Clocked, TimedTypeOK
  <2> HIDE DEF Values
  <2>2. heard' = heard => heard' \in [Server -> Values]
    BY <2>1
  <2>3. TimedHeartbeat(n) => heard' \in [Server -> Values]
    BY <2>1 DEF TimedHeartbeat
  <2>4. heard' \in [Server -> Values]
    BY <2>2, <2>3 DEF TimedTick, TimedElection, TimedQuietTick
  <2> QED  BY <2>4 DEF Values
<1>5. TimedTypeOK'
  BY <1>2, <1>3, <1>4, PostedType DEF Clocked, TimedTypeOK
<1>6. Served'
  <2> SUFFICES ASSUME NEW p \in Server
               PROVE  timer_age'[p] <= loop_age'[p] - 1 +
                          (IF state'[p] = RAFT_LEADER THEN HB_INTERVAL ELSE election_timeout_ms'[p])
    BY DEF Served
  <2>1. /\ election_timeout_ms[p] \in Nat /\ election_timeout_ms'[p] \in Nat
        /\ 1 <= election_timeout_ms'[p] /\ timer_age[p] \in Nat /\ loop_age[p] \in Nat
        /\ HB_INTERVAL \in Nat /\ 1 <= HB_INTERVAL
    <3>1. election_timeout_ms[p] \in Timeouts /\ election_timeout_ms'[p] \in Timeouts
      BY <1>2 DEF Clocked, TimedTypeOK
    <3>2. timer_age[p] \in Nat /\ loop_age[p] \in Nat
      BY <1>2 DEF Clocked, TimedTypeOK
    <3> QED  BY <3>1, <3>2, TimeoutRange, TimerAssumption
  <2>2. CASE p # n
    <3>1. /\ timer_age'[p] = timer_age[p] /\ election_timeout_ms'[p] = election_timeout_ms[p]
          /\ loop_age'[p] = loop_age[p] /\ state'[p] = state[p]
      BY <1>1, <1>2, <2>2, TimerStepValues DEF Clocked, AtHome
    <3> QED  BY <2>1, <3>1 DEF Clocked, Served
  <2>3. CASE p = n /\ (TimedHeartbeat(n) \/ TimedElection(n))
    <3>1. timer_age'[n] = 0 /\ loop_age'[n] = 0
      BY <1>2, <2>3 DEF TimedHeartbeat, TimedElection, RestartTimer, reset_timer, Clocked, TimedTypeOK
    <3> QED  BY <2>1, <2>3, <3>1
  <2>4. CASE p = n /\ TimedQuietTick(n)
    <3>1. timer_age' = timer_age /\ election_timeout_ms' = election_timeout_ms /\ loop_age'[n] = 0
      BY <1>2, <2>4 DEF TimedQuietTick, timers
    <3>2. state' = state
      <4>1. ~TickElection(n)
        <5>1. CASE TickElection(n)
          <6>1. term'[n] = term[n] + 1 /\ term[n] \in Nat
            BY <5>1 DEF TickElection, TypeOK
          <6>2. term'[n] = term[n]
            BY <2>4 DEF TimedQuietTick
          <6> QED  BY <6>1, <6>2
        <5> QED  BY <5>1
      <4> QED  BY <2>4, <4>1 DEF TimedQuietTick, raft_tick, TickLeader, TickIdle, voteVars
    <3>3. IF state[n] = RAFT_LEADER THEN timer_age[n] < HB_INTERVAL
                                    ELSE timer_age[n] < election_timeout_ms[n]
      BY <2>1, <2>4 DEF TimedQuietTick, HeartbeatDue, ElectionExpired
    <3> QED  BY <2>1, <2>4, <3>1, <3>2, <3>3
  <2> QED  BY <2>2, <2>3, <2>4 DEF TimedTick
<1> QED  BY <1>5, <1>6 DEF Clocked

\* What the handlers leave of a node whose timer they do not touch.
LEMMA HandlerTimers ==
    ASSUME TypeOK, TimedTypeOK, NEW n \in Server, NEW m \in net, TimedHandle(n, m)
    PROVE  /\ TimerStep(n)
           /\ \/ timer_age'[n] = 0
              \/ UNCHANGED timers /\ (state'[n] = state[n] \/ state'[n] # RAFT_LEADER)
           /\ UNCHANGED loop_age
           /\ heard' \in [Server -> {<< >>} \cup (Server \X Nat)]
<1> DEFINE Values == {<< >>} \cup (Server \X Nat)
<1>0. /\ timer_age \in [Server -> Nat] /\ heard \in [Server -> Values]
      /\ m.src \in Server /\ m.term \in Nat
  BY MessageFields DEF TimedTypeOK, TypeOK
<1>1. UNCHANGED loop_age
  BY DEF TimedHandle
<1>2. CASE TimedVoteRequest(n, m)
  <2>1. state'[n] = state[n] \/ state'[n] # RAFT_LEADER
    BY <1>2 DEF TimedVoteRequest, raft_handle_vote_request, TypeOK, RAFT_FOLLOWER, RAFT_LEADER
  <2>2. (UNCHANGED timers \/ (reset_timer(n) /\ timer_age'[n] = 0)) /\ heard' = heard
    BY <1>0, <1>2 DEF TimedVoteRequest, reset_timer
  <2> QED  BY <1>0, <1>1, <2>1, <2>2 DEF TimerStep
<1>3. CASE TimedVoteResponse(n, m)
  <2>1. /\ \/ UNCHANGED timers /\ state'[n] = state[n]
           \/ (reset_timer(n) \/ RestartTimer(n)) /\ timer_age'[n] = 0
        /\ heard' = heard
    BY <1>0, <1>3 DEF TimedVoteResponse, reset_timer, RestartTimer
  <2> QED  BY <1>0, <1>1, <2>1 DEF TimerStep
<1>4. CASE TimedAppendEntries(n, m)
  <2>1. CASE CurrentLeader(n, m)
    <3>1. reset_timer(n) /\ timer_age'[n] = 0
      BY <1>0, <1>4, <2>1 DEF TimedAppendEntries, reset_timer
    <3>2. heard' = [heard EXCEPT ![n] = <<m.src, m.term>>] /\ <<m.src, m.term>> \in Values
      BY <1>0, <1>4, <2>1 DEF TimedAppendEntries
    <3> HIDE DEF Values
    <3>3. heard' \in [Server -> Values]
      BY <1>0, <3>2
    <3> QED  BY <1>1, <3>1, <3>3 DEF TimerStep, Values
  <2>2. CASE ~CurrentLeader(n, m)
    <3>1. UNCHANGED timers /\ heard' = heard
      BY <1>4, <2>2 DEF TimedAppendEntries
    <3>2. state'[n] = state[n]
      BY <1>4, <2>2 DEF TimedAppendEntries, raft_handle_append_entries, FollowLeader,
                        RejectStaleLeader, voteVars
    <3> QED  BY <1>0, <1>1, <3>1, <3>2 DEF TimerStep
  <2> QED  BY <2>1, <2>2
<1>5. CASE TimedAppendResponse(n, m)
  <2>1. /\ \/ UNCHANGED timers /\ state'[n] = state[n]
           \/ reset_timer(n) /\ timer_age'[n] = 0
        /\ heard' = heard
    BY <1>0, <1>5 DEF TimedAppendResponse, reset_timer
  <2> QED  BY <1>0, <1>1, <2>1 DEF TimerStep
<1> QED  BY <1>2, <1>3, <1>4, <1>5 DEF TimedHandle

LEMMA HandleClocked ==
    ASSUME TypeOK, Clocked, NEW n \in Server, AtHome(n), NEW m \in net, TimedHandle(n, m), Posted
    PROVE  Clocked'
<1>1. /\ TimerStep(n)
      /\ \/ timer_age'[n] = 0
         \/ UNCHANGED timers /\ (state'[n] = state[n] \/ state'[n] # RAFT_LEADER)
      /\ UNCHANGED loop_age
      /\ heard' \in [Server -> {<< >>} \cup (Server \X Nat)]
  BY HandlerTimers DEF Clocked
<1>2. TimedTypeOK'
  BY <1>1, TimerStepValues, PostedType DEF Clocked, TimedTypeOK
<1> QED  BY <1>1, <1>2, ServedKept DEF Clocked

LEMMA AppendClocked ==
    ASSUME Clocked, NEW n \in Server, AtHome(n), TimedAppend(n), Posted
    PROVE  Clocked'
<1>1. TimerStep(n) /\ UNCHANGED <<timers, loop_age, heard>> /\ state' = state
  BY DEF TimedAppend, TimerStep, raft_append_entry, voteVars
<1>2. TimedTypeOK'
  BY <1>1, TimerStepValues, PostedType DEF Clocked, TimedTypeOK
<1> QED  BY <1>1, <1>2, ServedKept DEF Clocked

LEMMA PassClocked ==
    ASSUME Clocked, Pass
    PROVE  Clocked'
<1>1. timer_age' \in [Server -> Nat] /\ loop_age' \in [Server -> 0..LoopPeriod]
  BY TimerAssumption DEF Clocked, TimedTypeOK, Pass
<1>2. sent_ago' \in [net' -> 0..MaxDelay]
  BY TimerAssumption DEF Clocked, TimedTypeOK, Pass, vars
<1>3. UNCHANGED <<state, election_timeout_ms, heard>>
  BY DEF Pass, vars, voteVars
<1>4. TimedTypeOK'
  BY <1>1, <1>2, <1>3 DEF Clocked, TimedTypeOK
<1>5. Served'
  <2> SUFFICES ASSUME NEW n \in Server
               PROVE  timer_age'[n] <= loop_age'[n] - 1 +
                          (IF state'[n] = RAFT_LEADER THEN HB_INTERVAL ELSE election_timeout_ms'[n])
    BY DEF Served
  <2>1. timer_age'[n] = timer_age[n] + 1 /\ loop_age'[n] = loop_age[n] + 1
    BY DEF Pass
  <2>2. timer_age[n] \in Nat /\ loop_age[n] \in Nat /\ HB_INTERVAL \in Nat
    BY TimerAssumption DEF Clocked, TimedTypeOK
  <2>3. election_timeout_ms[n] \in Nat
    BY TimeoutRange DEF Clocked, TimedTypeOK
  <2>4. timer_age[n] <= loop_age[n] - 1 +
            (IF state[n] = RAFT_LEADER THEN HB_INTERVAL ELSE election_timeout_ms[n])
    BY DEF Clocked, Served
  <2> QED  BY <1>3, <2>1, <2>2, <2>3, <2>4
<1> QED  BY <1>4, <1>5 DEF Clocked

LEMMA StepClocked ==
    ASSUME TypeOK, Clocked, [TimedNext]_timedVars
    PROVE  Clocked'
<1>1. ASSUME NEW n \in Server, TimedStep(n), Posted
      PROVE  Clocked'
  <2>1. AtHome(n)
    BY <1>1, TimedStepIsStep, NodeStepsAtHome
  <2> QED  BY <1>1, <2>1, TickClocked, HandleClocked, AppendClocked DEF TimedStep
<1>2. CASE UNCHANGED timedVars
  BY <1>2 DEF timedVars, timers, vars, voteVars, Clocked, TimedTypeOK, Served
<1> QED  BY <1>1, <1>2, PassClocked DEF TimedNext

LEMMA ClockedInvariant == TimedSpec => []Clocked
<1>1. Typed => TypeOK
  BY DEF Typed
<1> QED  BY <1>1, UntimedFacts, InitClocked, StepClocked, PTL DEF TimedSpec

\* The ages and timeouts keep their types; in particular no datagram outlives
\* MaxDelay and no loop LoopPeriod.
THEOREM ClocksTyped == TimedSpec => []TimedTypeOK
<1>1. Clocked => TimedTypeOK
  BY DEF Clocked
<1> QED  BY <1>1, ClockedInvariant, PTL

LEMMA ServedInTime ==
    ASSUME Clocked
    PROVE  TimersAreServed
<1> SUFFICES ASSUME NEW n \in Server
             PROVE  timer_age[n] <= LoopPeriod - 1 +
                        (IF state[n] = RAFT_LEADER THEN HB_INTERVAL ELSE election_timeout_ms[n])
  BY DEF TimersAreServed
<1>1. /\ timer_age[n] \in Nat /\ loop_age[n] \in 0..LoopPeriod
      /\ LoopPeriod \in Nat /\ HB_INTERVAL \in Nat
  BY TimerAssumption DEF Clocked, TimedTypeOK
<1>2. election_timeout_ms[n] \in Nat
  BY TimeoutRange DEF Clocked, TimedTypeOK
<1>3. timer_age[n] <= loop_age[n] - 1 +
          (IF state[n] = RAFT_LEADER THEN HB_INTERVAL ELSE election_timeout_ms[n])
  BY DEF Clocked, Served
<1> QED  BY <1>1, <1>2, <1>3

\* Heartbeats and elections are never later than one loop after their timer.
THEOREM TimersServed == TimedSpec => []TimersAreServed
BY ServedInTime, ClockedInvariant, PTL

-----------------------------------------------------------------------------
(* Office: what ChronosRaft guarantees of candidates and leaders.  A candidate   *)
(* has not won its term before, and whoever stands or leads keeps its own vote,  *)
(* so that it grants none and no vote resets a leader's heartbeat timer.         *)

CandidatesAreNew ==
    \A e \in elected :
        /\ e[2] <= term[e[1]]
        /\ state[e[1]] = RAFT_CANDIDATE => e[2] < term[e[1]]

OwnVote == \A n \in Server : state[n] # RAFT_FOLLOWER => voted_for[n] = n

Office == CandidatesAreNew /\ OwnVote

\* A node that keeps its role, term and vote, or follows, keeps all this true.
LEMMA OfficeKept ==
    ASSUME TypeOK, TypeOK', Office, NEW n \in Server, AtHome(n), elected' = elected,
           term[n] <= term'[n],
           \/ state'[n] = RAFT_FOLLOWER
           \/ state'[n] = state[n] /\ term'[n] = term[n] /\ voted_for'[n] = voted_for[n]
    PROVE  Office'
<1>1. ASSUME NEW e \in elected
      PROVE  /\ e[2] <= term'[e[1]]
             /\ state'[e[1]] = RAFT_CANDIDATE => e[2] < term'[e[1]]
  <2>1. /\ e[1] \in Server /\ e[2] \in Nat /\ term[n] \in Nat /\ term'[n] \in Nat
        /\ e[2] <= term[e[1]] /\ (state[e[1]] = RAFT_CANDIDATE => e[2] < term[e[1]])
    BY DEF TypeOK, Office, CandidatesAreNew
  <2>2. CASE e[1] # n
    BY <2>1, <2>2 DEF AtHome
  <2>3. CASE e[1] = n
    BY <2>1, <2>3 DEF RAFT_FOLLOWER, RAFT_CANDIDATE
  <2> QED  BY <2>2, <2>3
<1>2. OwnVote'
  BY DEF Office, OwnVote, AtHome
<1> QED  BY <1>1, <1>2 DEF Office, CandidatesAreNew

\* A node that stands has a new term, which it has not won.
LEMMA ElectionOffice ==
    ASSUME TypeOK, Office, NEW n \in Server, AtHome(n), TickElection(n)
    PROVE  Office'
<1>1. /\ elected' = elected /\ term'[n] = term[n] + 1 /\ term[n] \in Nat
      /\ state'[n] = RAFT_CANDIDATE /\ voted_for'[n] = n
  BY DEF TickElection, TypeOK
<1>2. ASSUME NEW e \in elected
      PROVE  /\ e[2] <= term'[e[1]]
             /\ state'[e[1]] = RAFT_CANDIDATE => e[2] < term'[e[1]]
  <2>1. /\ e[1] \in Server /\ e[2] \in Nat
        /\ e[2] <= term[e[1]] /\ (state[e[1]] = RAFT_CANDIDATE => e[2] < term[e[1]])
    BY DEF TypeOK, Office, CandidatesAreNew
  <2>2. CASE e[1] # n
    BY <2>1, <2>2 DEF AtHome
  <2>3. CASE e[1] = n
    BY <1>1, <2>1, <2>3
  <2> QED  BY <2>2, <2>3
<1>3. OwnVote'
  BY <1>1 DEF Office, OwnVote, AtHome
<1> QED  BY <1>1, <1>2, <1>3 DEF Office, CandidatesAreNew

\* A winner leads its term and leaves candidacy.
LEMMA WinnerOffice ==
    ASSUME TypeOK, Office, NEW n \in Server, AtHome(n), state[n] = RAFT_CANDIDATE,
           NEW m \in net, BecomeLeader(n, m), UNCHANGED <<term, voted_for>>
    PROVE  Office'
<1>1. state'[n] = RAFT_LEADER /\ elected' = elected \cup {<<n, term[n]>>} /\ term[n] \in Nat
  BY DEF BecomeLeader, TypeOK
<1>2. ASSUME NEW e \in elected'
      PROVE  /\ e[2] <= term'[e[1]]
             /\ state'[e[1]] = RAFT_CANDIDATE => e[2] < term'[e[1]]
  <2>1. CASE e \in elected /\ e[1] # n
    BY <2>1 DEF TypeOK, Office, CandidatesAreNew, AtHome
  <2>2. CASE e \in elected /\ e[1] = n
    BY <1>1, <2>2 DEF Office, CandidatesAreNew, RAFT_CANDIDATE, RAFT_LEADER
  <2>3. CASE e = <<n, term[n]>>
    BY <1>1, <2>3 DEF RAFT_CANDIDATE, RAFT_LEADER
  <2> QED  BY <1>1, <2>1, <2>2, <2>3
<1>3. OwnVote'
  BY DEF Office, OwnVote, AtHome, RAFT_CANDIDATE, RAFT_FOLLOWER
<1> QED  BY <1>2, <1>3 DEF Office, CandidatesAreNew

LEMMA StepDownOffice ==
    ASSUME TypeOK, TypeOK', Office, NEW n \in Server, AtHome(n), NEW m \in net, StepDown(n, m)
    PROVE  Office'
<1>1. elected' = elected /\ state'[n] = RAFT_FOLLOWER /\ term[n] <= term'[n]
  BY MessageFields DEF StepDown, NewerTerm, TypeOK
<1> QED  BY <1>1, OfficeKept

LEMMA StepOffice ==
    ASSUME TypeOK, TypeOK', VoteTraffic, Office, [Next]_vars
    PROVE  Office'
<1>0. /\ \A n \in Server : NodeStep(n) => AtHome(n)
      /\ \A m \in net : m.src \in Server /\ m.term \in Nat
      /\ \A n \in Server : term[n] \in Nat /\ n # Nobody
  BY NodeStepsAtHome, MessageFields, ServerAssumption DEF TypeOK
<1>1. ASSUME NEW n \in Server, raft_tick(n)
      PROVE  Office'
  <2>1. AtHome(n)
    BY <1>0, <1>1 DEF NodeStep
  <2>2. CASE TickElection(n)
    BY <2>1, <2>2, ElectionOffice
  <2>3. CASE TickLeader(n) \/ TickIdle(n)
    <3>1. UNCHANGED <<state, term, voted_for, elected>>
      BY <2>3 DEF TickLeader, TickIdle, voteVars, historyVars
    <3> QED  BY <1>0, <2>1, <3>1, OfficeKept
  <2> QED  BY <1>1, <2>2, <2>3 DEF raft_tick
<1>2. ASSUME NEW n \in Server, NEW m \in net, raft_handle_vote_request(n, m)
      PROVE  Office'
  <2>1. AtHome(n) /\ elected' = elected
    BY <1>0, <1>2 DEF NodeStep, Handle, raft_handle_vote_request
  <2>2. CASE NewerTerm(n, m)
    <3>1. state'[n] = RAFT_FOLLOWER /\ term'[n] = m.term
      BY <1>2, <2>2 DEF raft_handle_vote_request, TypeOK
    <3> QED  BY <1>0, <2>1, <2>2, <3>1, OfficeKept DEF NewerTerm
  <2>3. CASE ~NewerTerm(n, m)
    <3>1. /\ state'[n] = state[n] /\ term'[n] = term[n]
          /\ voted_for'[n] = IF GrantsVote(n, m) THEN m.src ELSE voted_for[n]
      BY <1>2, <2>3 DEF raft_handle_vote_request, TypeOK
    <3>2. state[n] # RAFT_FOLLOWER => ~GrantsVote(n, m)
      <4>1. m.src # n
        BY <1>2 DEF VoteTraffic, VoteTypes, raft_handle_vote_request, Receives
      <4> QED  BY <1>0, <2>3, <4>1 DEF GrantsVote, VoteIsFree, Office, OwnVote
    <3>3. (state'[n] = RAFT_FOLLOWER) \/ voted_for'[n] = voted_for[n]
      BY <3>1, <3>2
    <3> QED  BY <1>0, <2>1, <3>1, <3>3, OfficeKept
  <2> QED  BY <2>2, <2>3
<1>3. ASSUME NEW n \in Server, NEW m \in net, raft_handle_vote_response(n, m)
      PROVE  Office'
  <2>1. AtHome(n)
    BY <1>0, <1>3 DEF NodeStep, Handle
  <2>2. CASE StepDown(n, m)
    BY <2>1, <2>2, StepDownOffice
  <2>3. CASE state[n] = RAFT_CANDIDATE /\ CountVote(n, m) /\ BecomeLeader(n, m)
    BY <2>1, <2>3, WinnerOffice DEF CountVote
  <2>4. CASE UNCHANGED <<state, term, voted_for, elected>>
    BY <1>0, <2>1, <2>4, OfficeKept
  <2> QED  BY <1>3, <2>2, <2>3, <2>4
           DEF raft_handle_vote_response, CountVote, IgnoreVoteResponse, voteVars
<1>4. ASSUME NEW n \in Server, NEW m \in net, raft_handle_append_entries(n, m)
      PROVE  Office'
  <2>1. AtHome(n) /\ elected' = elected
    BY <1>0, <1>4 DEF NodeStep, Handle, raft_handle_append_entries, historyVars
  <2>2. CASE FollowLeader(n, m)
    <3>1. state'[n] = RAFT_FOLLOWER /\ term'[n] = m.term /\ term[n] <= m.term
      BY <1>0, <2>2 DEF FollowLeader, CurrentLeader, TypeOK
    <3> QED  BY <2>1, <3>1, OfficeKept
  <2>3. CASE RejectStaleLeader(n, m)
    <3>1. UNCHANGED <<state, term, voted_for>>
      BY <2>3 DEF RejectStaleLeader, voteVars
    <3> QED  BY <1>0, <2>1, <3>1, OfficeKept
  <2> QED  BY <1>4, <2>2, <2>3 DEF raft_handle_append_entries
<1>5. ASSUME NEW n \in Server, NEW m \in net, raft_handle_append_response(n, m)
      PROVE  Office'
  <2>1. AtHome(n)
    BY <1>0, <1>5 DEF NodeStep, Handle
  <2>2. CASE StepDown(n, m)
    BY <2>1, <2>2, StepDownOffice
  <2>3. CASE UNCHANGED <<state, term, voted_for, elected>>
    BY <1>0, <2>1, <2>3, OfficeKept
  <2> QED  BY <1>5, <2>2, <2>3 DEF raft_handle_append_response, NoteMatch,
                                   IgnoreAppendResponse, voteVars
<1>6. ASSUME NEW n \in Server, raft_append_entry(n)
      PROVE  Office'
  <2>1. AtHome(n) /\ UNCHANGED <<state, term, voted_for, elected>>
    BY <1>0, <1>6 DEF NodeStep, raft_append_entry, voteVars, historyVars
  <2> QED  BY <1>0, <2>1, OfficeKept
<1>7. CASE UNCHANGED vars
  BY <1>7 DEF vars, voteVars, historyVars, Office, CandidatesAreNew, OwnVote
<1> QED  BY <1>1, <1>2, <1>3, <1>4, <1>5, <1>6, <1>7 DEF Next, NodeStep, Handle

Grounds == TypeOK /\ Led /\ VoteTraffic /\ Office

LEMMA OfficeInvariant == TimedSpec => []Grounds
<1>1. Init => Supported /\ Office
  BY DEF Init, Supported, VoteTraffic, LeadersHaveSupport, Office, CandidatesAreNew, OwnVote
<1>2. Typed /\ Supported /\ [CrashNext]_vars => Supported'
  BY StepSupported
<1>3. TypeOK /\ TypeOK' /\ VoteTraffic /\ Office /\ [Next]_vars => Office'
  BY StepOffice
<1>4. [Next]_vars => [CrashNext]_vars
  BY DEF CrashNext
<1>5. Typed => TypeOK
  BY DEF Typed
<1>6. Supported => VoteTraffic
  BY DEF Supported
<1>7. TypeOK /\ Led /\ VoteTraffic /\ Office => Grounds
  BY DEF Grounds
<1> QED  BY <1>1, <1>2, <1>3, <1>4, <1>5, <1>6, <1>7, ImplementsUntimed, UntimedFacts, PTL DEF Spec

-----------------------------------------------------------------------------
(* Heartbeats against election timers.  A node in touch with its leader either   *)
(* reset its timer after the leader last sent, or a request of the leader is on   *)
(* its way that was sent before the timer had run longer than heartbeats are      *)
(* apart.                                                                         *)

OnTheWay(l, p) ==
    \E m \in net :
        /\ m.type = "AppendRequest" /\ m.src = l /\ m.dst = p /\ m.term = term[l]
        /\ timer_age[p] <= HB_INTERVAL + LoopPeriod - 1 + sent_ago[m]

Held ==
    \A l, p \in Server :
        InTouch(l, p) => timer_age[p] <= timer_age[l] \/ OnTheWay(l, p)

\* What a node heard, it heard from a winner, in a term it has reached.
HeardWinners ==
    \A p \in Server : heard[p] # << >> => heard[p] \in elected /\ heard[p][2] <= term[p]

LEMMA ElectedGrows ==
    ASSUME NEW n \in Server, NodeStep(n)
    PROVE  elected \subseteq elected'
BY DEF NodeStep, Handle, raft_tick, TickLeader, TickElection, TickIdle, raft_handle_vote_request,
       raft_handle_vote_response, StepDown, CountVote, BecomeLeader, IgnoreVoteResponse,
       raft_handle_append_entries, raft_handle_append_response, NoteMatch,
       IgnoreAppendResponse, raft_append_entry, historyVars

\* A node loses what it heard, keeps it, or hears something new; what it hears
\* resets its timer and sets its term.
LEMMA HeardSteps ==
    ASSUME TypeOK, TimedTypeOK, NEW n \in Server, TimedStep(n), NEW p \in Server
    PROVE  \/ heard'[p] = << >>
           \/ heard'[p] = heard[p]
           \/ /\ p = n /\ timer_age'[p] = 0
              /\ \E m \in net : /\ m.type = "AppendRequest" /\ heard'[p] = <<m.src, m.term>>
                                /\ term'[p] = m.term
<1>1. CASE TimedTick(n) \/ TimedAppend(n)
  BY <1>1 DEF TimedTick, TimedHeartbeat, TimedElection, TimedQuietTick, TimedAppend
<1>2. ASSUME NEW m \in net, TimedHandle(n, m)
      PROVE  \/ heard'[p] = heard[p]
             \/ /\ p = n /\ timer_age'[p] = 0 /\ m.type = "AppendRequest"
                /\ heard'[p] = <<m.src, m.term>> /\ term'[p] = m.term
  <2>1. CASE TimedAppendEntries(n, m) /\ CurrentLeader(n, m)
    <3>1. heard' = [heard EXCEPT ![n] = <<m.src, m.term>>] /\ timer_age'[n] = 0
      BY <2>1 DEF TimedAppendEntries, reset_timer, TimedTypeOK
    <3>2. m.type = "AppendRequest"
      BY <2>1 DEF TimedAppendEntries, raft_handle_append_entries, Receives
    <3>0. m.term \in Nat /\ term[n] \in Nat
      BY MessageFields DEF TypeOK
    <3>3. ~RejectStaleLeader(n, m)
      BY <2>1, <3>0 DEF RejectStaleLeader, CurrentLeader
    <3>4. term'[n] = m.term
      BY <2>1, <3>3 DEF TimedAppendEntries, raft_handle_append_entries, FollowLeader, TypeOK
    <3> QED  BY <3>1, <3>2, <3>4 DEF TimedTypeOK
  <2>2. CASE heard' = heard
    BY <2>2
  <2> QED  BY <1>2, <2>1, <2>2
           DEF TimedHandle, TimedVoteRequest, TimedVoteResponse, TimedAppendEntries, TimedAppendResponse
<1> QED  BY <1>1, <1>2 DEF TimedStep

LEMMA StepHeard ==
    ASSUME Typed, Led, TimedTypeOK, HeardWinners, [TimedNext]_timedVars
    PROVE  HeardWinners'
<1>0. TypeOK /\ TypeOK' /\ Forward
  <2>1. [Next]_vars
    BY TimedNextIsNext
  <2>2. [CrashNext]_vars
    BY <2>1 DEF CrashNext
  <2>3. Typed'
    BY <2>2, StepTyped
  <2> QED  BY <2>1, <2>3, StepForward DEF Typed
<1>1. ASSUME NEW n \in Server, TimedStep(n), NEW p \in Server, heard'[p] # << >>
      PROVE  heard'[p] \in elected' /\ heard'[p][2] <= term'[p]
  <2>1. elected \subseteq elected'
    BY <1>1, TimedStepIsStep, ElectedGrows
  <2>2. term[p] \in Nat /\ term'[p] \in Nat /\ term[p] <= term'[p]
    BY <1>0 DEF Forward, TypeOK
  <2>3. CASE heard'[p] = heard[p]
    <3>1. heard[p] \in elected /\ heard[p][2] <= term[p]
      BY <1>1, <2>3 DEF HeardWinners
    <3>2. heard[p][2] \in Nat
      <4>1. elected \subseteq Server \X Nat
        BY <1>0 DEF TypeOK
      <4>2. heard[p] \in Server \X Nat
        BY <3>1, <4>1
      <4> QED  BY <4>2
    <3> QED  BY <2>1, <2>2, <2>3, <3>1, <3>2
  <2>4. ASSUME NEW m \in net, m.type = "AppendRequest", heard'[p] = <<m.src, m.term>>,
               term'[p] = m.term
        PROVE  heard'[p] \in elected' /\ heard'[p][2] <= term'[p]
    <3>1. <<m.src, m.term>> \in elected
      BY <2>4 DEF Led, RequestsFromLeaders
    <3> QED  BY <2>1, <2>2, <2>4, <3>1
  <2> QED  BY <1>0, <1>1, <2>3, <2>4, HeardSteps
<1>2. CASE Pass \/ UNCHANGED timedVars
  BY <1>2 DEF Pass, timedVars, vars, voteVars, historyVars, HeardWinners
<1> QED  BY <1>1, <1>2 DEF TimedNext, HeardWinners

\* A node that leads after a step led its term before, or has just won it.
LEMMA LeaderAfter ==
    ASSUME TypeOK, NEW n \in Server, NodeStep(n), NEW l \in Server, state'[l] = RAFT_LEADER
    PROVE  term'[l] = term[l] /\ state[l] \in {RAFT_CANDIDATE, RAFT_LEADER}
<1>1. CASE l # n
  BY <1>1, NodeStepsAtHome DEF AtHome
<1>2. CASE l = n /\ raft_tick(n)
  BY <1>2 DEF raft_tick, TickLeader, TickElection, TickIdle, voteVars, TypeOK, RaftState_t,
              RAFT_FOLLOWER, RAFT_CANDIDATE, RAFT_LEADER
<1>3. ASSUME l = n, NEW m \in net, Handle(n, m)
      PROVE  term'[l] = term[l] /\ state[l] \in {RAFT_CANDIDATE, RAFT_LEADER}
  <2>1. CASE raft_handle_vote_request(n, m)
    BY <1>3, <2>1 DEF raft_handle_vote_request, TypeOK, RAFT_FOLLOWER, RAFT_LEADER
  <2>2. CASE raft_handle_vote_response(n, m)
    BY <1>3, <2>2 DEF raft_handle_vote_response, StepDown, CountVote, BecomeLeader,
         IgnoreVoteResponse, voteVars, TypeOK, RAFT_FOLLOWER, RAFT_LEADER
  <2>3. CASE raft_handle_append_entries(n, m)
    BY <1>3, <2>3 DEF raft_handle_append_entries, RejectStaleLeader, FollowLeader, voteVars,
         TypeOK, RAFT_FOLLOWER, RAFT_LEADER
  <2>4. CASE raft_handle_append_response(n, m)
    BY <1>3, <2>4 DEF raft_handle_append_response, StepDown, NoteMatch, IgnoreAppendResponse,
         voteVars, TypeOK, RAFT_FOLLOWER, RAFT_LEADER
  <2> QED  BY <1>3, <2>1, <2>2, <2>3, <2>4 DEF Handle
<1>4. CASE l = n /\ raft_append_entry(n)
  BY <1>4 DEF raft_append_entry, voteVars
<1> QED  BY <1>1, <1>2, <1>3, <1>4 DEF NodeStep

\* Touch with a leader begins only with a request of it.
LEMMA InTouchBefore ==
    ASSUME TypeOK, TypeOK', Forward, Office, HeardWinners, NEW n \in Server, NodeStep(n),
           NEW l \in Server, NEW p \in Server, InTouch(l, p)', heard'[p] = heard[p]
    PROVE  InTouch(l, p) /\ term'[l] = term[l]
<1>1. term'[l] = term[l] /\ state[l] \in {RAFT_CANDIDATE, RAFT_LEADER}
  BY LeaderAfter DEF InTouch
<1>2. heard[p] = <<l, term[l]>>
  BY <1>1 DEF InTouch
<1>3. <<l, term[l]>> \in elected /\ term[l] <= term[p]
  BY <1>2 DEF HeardWinners
<1>4. term[p] \in Nat /\ term'[p] \in Nat /\ term[l] \in Nat /\ term[p] <= term'[p]
  BY DEF TypeOK, Forward
<1>5. state[l] # RAFT_CANDIDATE
  BY <1>3, <1>4 DEF Office, CandidatesAreNew
<1>6. term'[p] = term'[l]
  BY DEF InTouch
<1> QED  BY <1>1, <1>2, <1>3, <1>4, <1>5, <1>6 DEF InTouch

\* The timer of a node that leads before and after a step runs on, unless the
\* step is its heartbeat.
LEMMA LeaderTimer ==
    ASSUME TypeOK, TimedTypeOK, VoteTraffic, Office, NEW n \in Server, TimedStep(n),
           NEW l \in Server, state[l] = RAFT_LEADER, state'[l] = RAFT_LEADER
    PROVE  timer_age'[l] = timer_age[l] \/ (n = l /\ TimedHeartbeat(l))
<1>1. CASE n # l
  BY <1>1, TimerSteps, TimerStepValues
<1>2. CASE n = l /\ (TimedTick(n) \/ TimedAppend(n))
  BY <1>2 DEF TimedTick, TimedElection, TimedQuietTick, TimedAppend, timers
<1>3. ASSUME n = l, NEW m \in net, TimedHandle(n, m)
      PROVE  UNCHANGED timers
  <2>0. m.src \in Server /\ m.term \in Nat /\ term[n] \in Nat /\ n # Nobody
    BY MessageFields, ServerAssumption DEF TypeOK
  <2>1. CASE TimedVoteRequest(n, m)
    <3>1. ~NewerTerm(n, m)
      BY <1>3, <2>1 DEF TimedVoteRequest, raft_handle_vote_request, TypeOK, RAFT_FOLLOWER, RAFT_LEADER
    <3>2. m.src # n /\ voted_for[n] = n
      BY <1>3, <2>1 DEF VoteTraffic, VoteTypes, Office, OwnVote, TimedVoteRequest,
                        raft_handle_vote_request, Receives, RAFT_FOLLOWER, RAFT_LEADER
    <3>3. ~GrantsVote(n, m)
      BY <2>0, <3>1, <3>2 DEF GrantsVote, VoteIsFree
    <3> QED  BY <2>1, <3>3 DEF TimedVoteRequest
  <2>2. CASE TimedVoteResponse(n, m)
    BY <1>3, <2>2 DEF TimedVoteResponse
  <2>3. CASE TimedAppendEntries(n, m)
    <3>1. ~FollowLeader(n, m)
      BY <1>3 DEF FollowLeader, TypeOK, RAFT_FOLLOWER, RAFT_LEADER
    <3>2. ~CurrentLeader(n, m)
      BY <2>0, <2>3, <3>1 DEF TimedAppendEntries, raft_handle_append_entries, RejectStaleLeader,
                              CurrentLeader
    <3> QED  BY <2>3, <3>2 DEF TimedAppendEntries
  <2>4. CASE TimedAppendResponse(n, m)
    BY <1>3, <2>4 DEF TimedAppendResponse
  <2> QED  BY <1>3, <2>1, <2>2, <2>3, <2>4 DEF TimedHandle
<1> QED  BY <1>1, <1>2, <1>3 DEF TimedStep, timers

\* A datagram that is gone after a step was handled by it.
LEMMA Taken ==
    ASSUME NEW n \in Server, TimedStep(n), NEW m \in net, m \notin net'
    PROVE  TimedHandle(n, m)
<1>1. CASE TimedTick(n) \/ TimedAppend(n)
  <2>1. net \subseteq net'
    BY <1>1 DEF TimedTick, TimedHeartbeat, TimedElection, TimedQuietTick, TimedAppend,
                raft_append_entry, TickElection, Transmit
  <2> QED  BY <2>1
<1>2. ASSUME NEW r \in net, TimedHandle(n, r), r # m
      PROVE  FALSE
  <2>1. net \ {r} \subseteq net'
    <3>1. \A rest \in AfterReceiving(r) : net \ {r} \subseteq rest
      BY DEF AfterReceiving
    <3>2. \A packets : \A rest \in AfterReceiving(r) : Transmit(rest, packets) => net \ {r} \subseteq net'
      BY <3>1 DEF Transmit
    <3> QED  BY <1>2, <3>1, <3>2
             DEF TimedHandle, TimedVoteRequest, raft_handle_vote_request, TimedVoteResponse,
               raft_handle_vote_response, StepDown, CountVote, BecomeLeader, IgnoreVoteResponse,
               TimedAppendEntries, raft_handle_append_entries, RejectStaleLeader, RejectPrev,
               AcceptPrev, TimedAppendResponse, raft_handle_append_response, NoteMatch,
               IgnoreAppendResponse
  <2> QED  BY <1>2, <2>1
<1> QED  BY <1>1, <1>2 DEF TimedStep

\* Any other datagram keeps its age.
LEMMA AgesKept ==
    ASSUME TimedTypeOK, Posted, NEW m \in net, m \in net'
    PROVE  sent_ago'[m] = sent_ago[m] /\ sent_ago[m] \in Nat
BY TimerAssumption DEF Posted, TimedTypeOK

\* p's timer runs on while l sends its heartbeat to it.
LEMMA HeartbeatHeld ==
    ASSUME TypeOK, Led, Clocked, NEW l \in Server, TimedHeartbeat(l), Posted,
           NEW p \in Server, p # l, InTouch(l, p), heard'[p] = heard[p],
           timer_age[p] <= timer_age[l], timer_age'[p] = timer_age[p], term'[l] = term[l]
    PROVE  OnTheWay(l, p)'
<1> DEFINE beat == [type |-> "AppendRequest", src |-> l, dst |-> p, term |-> term[l],
                    prev_log_index |-> Len(log[l]), prev_log_term |-> LastTerm(log[l]),
                    leader_commit |-> commit_idx[l], entry |-> << >>]
<1>1. beat \in AppendRequests(l, log[l], << >>) /\ beat.dst = p
  BY DEF AppendRequests, Peers
<1>2. heard'[p] # << >>
  BY DEF InTouch
<1>3. p \notin MissedBy(l)
  BY <1>2 DEF TimedHeartbeat
<1>4. beat \in net'
  BY <1>1, <1>3 DEF MissedBy
<1>5. sent_ago'[beat] \in Nat
  <2>1. beat \in net => sent_ago[beat] \in Nat
    BY TimerAssumption DEF Clocked, TimedTypeOK
  <2> QED  BY <1>4, <2>1 DEF Posted
<1>6. timer_age[l] <= HB_INTERVAL + LoopPeriod - 1
  <2>1. TimersAreServed
    BY ServedInTime
  <2>2. state[l] = RAFT_LEADER /\ timer_age[l] \in Nat
    BY DEF InTouch, Clocked, TimedTypeOK
  <2> QED  BY <2>1, <2>2, TimerAssumption DEF TimersAreServed
<1>7. timer_age'[p] <= HB_INTERVAL + LoopPeriod - 1 + sent_ago'[beat]
  <2>1. timer_age[l] \in Nat /\ timer_age[p] \in Nat
    BY DEF Clocked, TimedTypeOK
  <2> QED  BY <1>5, <1>6, <2>1, TimerAssumption
<1> QED  BY <1>1, <1>4, <1>7 DEF OnTheWay

\* A request of p's leader that p takes resets p's timer.
LEMMA TakenHeld ==
    ASSUME TypeOK, TimedTypeOK, NEW n \in Server, NEW m \in net, TimedHandle(n, m),
           m.type = "AppendRequest", m.term = term[n]
    PROVE  timer_age'[n] = 0
<1>1. TimedAppendEntries(n, m)
  BY DEF TimedHandle, TimedVoteRequest, TimedVoteResponse, TimedAppendResponse, Receives,
         raft_handle_vote_request, raft_handle_vote_response, raft_handle_append_response
<1>2. CurrentLeader(n, m)
  BY DEF CurrentLeader, TypeOK
<1> QED  BY <1>1, <1>2 DEF TimedAppendEntries, reset_timer, TimedTypeOK

LEMMA StepHeld ==
    ASSUME TypeOK, TypeOK', Forward, Led, VoteTraffic, Office, Clocked, HeardWinners, Held,
           NEW n \in Server, TimedStep(n), Posted
    PROVE  Held'
<1> SUFFICES ASSUME NEW l \in Server, NEW p \in Server, InTouch(l, p)'
             PROVE  timer_age'[p] <= timer_age'[l] \/ OnTheWay(l, p)'
  BY DEF Held
<1>0. /\ NodeStep(n) /\ TimerStep(n) /\ TimedTypeOK
      /\ timer_age[p] \in Nat /\ timer_age[l] \in Nat
      /\ timer_age'[p] \in Nat /\ timer_age'[l] \in Nat
      /\ timer_age'[p] = 0 \/ timer_age'[p] = timer_age[p]
  BY TimedStepIsStep, TimerSteps, TimerStepValues DEF Clocked, TimedTypeOK
<1>1. CASE timer_age'[p] = 0
  BY <1>0, <1>1
<1>2. CASE timer_age'[p] = timer_age[p] /\ timer_age'[p] # 0 /\ l # p
  <2>1. heard'[p] = heard[p]
    <3>1. heard'[p] # << >>
      BY DEF InTouch
    <3> QED  BY <1>0, <1>2, <3>1, HeardSteps
  <2>2. InTouch(l, p) /\ term'[l] = term[l]
    BY <1>0, <2>1, InTouchBefore
  <2>3. CASE timer_age[p] <= timer_age[l]
    <3>1. timer_age'[l] = timer_age[l] \/ (n = l /\ TimedHeartbeat(l))
      BY <1>0, <2>2, LeaderTimer DEF InTouch
    <3> QED  BY <1>2, <2>1, <2>2, <2>3, <3>1, HeartbeatHeld
  <2>4. ASSUME NEW m \in net, m.type = "AppendRequest", m.src = l, m.dst = p, m.term = term[l],
               timer_age[p] <= HB_INTERVAL + LoopPeriod - 1 + sent_ago[m]
        PROVE  OnTheWay(l, p)'
    <3>1. m \in net'
      <4>1. ASSUME m \notin net'
            PROVE  FALSE
        <5>1. TimedHandle(n, m)
          BY <4>1, Taken
        <5>2. n = p
          BY <2>4, <5>1 DEF TimedHandle, TimedVoteRequest, raft_handle_vote_request,
               TimedVoteResponse, raft_handle_vote_response, TimedAppendEntries,
               raft_handle_append_entries, TimedAppendResponse, raft_handle_append_response,
               Receives
        <5>3. m.term = term[n]
          BY <2>2, <2>4, <5>2 DEF InTouch
        <5> QED  BY <1>0, <1>2, <2>4, <5>1, <5>2, <5>3, TakenHeld
      <4> QED  BY <4>1
    <3>2. sent_ago'[m] = sent_ago[m]
      BY <1>0, <3>1, AgesKept
    <3> QED  BY <1>2, <2>2, <2>4, <3>1, <3>2 DEF OnTheWay
  <2> QED  BY <2>2, <2>3, <2>4 DEF Held, OnTheWay
<1>3. CASE l = p
  BY <1>0, <1>3
<1> QED  BY <1>0, <1>1, <1>2, <1>3

LEMMA PassHeld ==
    ASSUME Clocked, Held, Pass
    PROVE  Held'
<1> SUFFICES ASSUME NEW l \in Server, NEW p \in Server, InTouch(l, p)'
             PROVE  timer_age'[p] <= timer_age'[l] \/ OnTheWay(l, p)'
  BY DEF Held
<1>1. /\ timer_age'[p] = timer_age[p] + 1 /\ timer_age'[l] = timer_age[l] + 1
      /\ net' = net /\ term' = term /\ InTouch(l, p)
      /\ timer_age[p] \in Nat /\ timer_age[l] \in Nat
      /\ \A m \in net : sent_ago'[m] = sent_ago[m] + 1 /\ sent_ago[m] \in Nat
  BY TimerAssumption DEF Pass, vars, voteVars, InTouch, Clocked, TimedTypeOK
<1>2. CASE timer_age[p] <= timer_age[l]
  BY <1>1, <1>2
<1>3. ASSUME NEW m \in net, m.type = "AppendRequest", m.src = l, m.dst = p, m.term = term[l],
             timer_age[p] <= HB_INTERVAL + LoopPeriod - 1 + sent_ago[m]
      PROVE  OnTheWay(l, p)'
  <2>1. timer_age'[p] <= HB_INTERVAL + LoopPeriod - 1 + sent_ago'[m]
    BY <1>1, <1>3, TimerAssumption
  <2> QED  BY <1>1, <1>3, <2>1 DEF OnTheWay
<1> QED  BY <1>1, <1>2, <1>3 DEF Held, OnTheWay

Touch == HeardWinners /\ Held

LEMMA StepTouch ==
    ASSUME Typed, Grounds, Clocked, Touch, [TimedNext]_timedVars
    PROVE  Touch'
<1>0. TypeOK /\ TypeOK' /\ Forward
  <2>1. [Next]_vars
    BY TimedNextIsNext
  <2>2. [CrashNext]_vars
    BY <2>1 DEF CrashNext
  <2>3. Typed'
    BY <2>2, StepTyped
  <2> QED  BY <2>1, <2>3, StepForward DEF Typed
<1>1. HeardWinners'
  BY StepHeard DEF Grounds, Clocked, Touch
<1>2. ASSUME NEW n \in Server, TimedStep(n), Posted
      PROVE  Held'
  BY <1>0, <1>2, StepHeld DEF Grounds, Touch
<1>3. ASSUME UNCHANGED timedVars
      PROVE  Held'
  <2>1. UNCHANGED <<state, term, net, timer_age, sent_ago, heard>>
    BY <1>3 DEF timedVars, timers, vars, voteVars
  <2>2. \A l, p \in Server : (InTouch(l, p)' <=> InTouch(l, p)) /\ (OnTheWay(l, p)' <=> OnTheWay(l, p))
    BY <2>1 DEF InTouch, OnTheWay
  <2> QED  BY <2>1, <2>2 DEF Touch, Held
<1> QED  BY <1>1, <1>2, <1>3, PassHeld DEF TimedNext, Touch

LEMMA TouchInvariant == TimedSpec => []Touch
<1>1. TimedInit => Touch
  BY DEF TimedInit, Touch, HeardWinners, Held, InTouch
<1> QED  BY <1>1, StepTouch, UntimedFacts, OfficeInvariant, ClockedInvariant, PTL DEF TimedSpec

LEMMA TouchHolds ==
    ASSUME Clocked, Held
    PROVE  HeartbeatsHoldTimers
<1> SUFFICES ASSUME NEW l \in Server, NEW p \in Server, InTouch(l, p)
             PROVE  ~ElectionExpired(p)
  BY DEF HeartbeatsHoldTimers
<1>1. /\ timer_age[p] \in Nat /\ timer_age[l] \in Nat
      /\ HB_INTERVAL \in Nat /\ LoopPeriod \in Nat /\ MaxDelay \in Nat
      /\ ELECTION_TIMEOUT_BASE \in Nat
  BY TimerAssumption DEF Clocked, TimedTypeOK
<1>2. election_timeout_ms[p] \in Nat /\ ELECTION_TIMEOUT_BASE <= election_timeout_ms[p]
  BY TimeoutRange DEF Clocked, TimedTypeOK
<1>3. timer_age[l] <= HB_INTERVAL + LoopPeriod - 1
  <2>1. TimersAreServed
    BY ServedInTime
  <2> QED  BY <1>1, <2>1 DEF TimersAreServed, InTouch
<1>4. timer_age[p] <= HB_INTERVAL + LoopPeriod - 1 + MaxDelay
  <2>1. CASE timer_age[p] <= timer_age[l]
    BY <1>1, <1>3, <2>1
  <2>2. ASSUME NEW m \in net, timer_age[p] <= HB_INTERVAL + LoopPeriod - 1 + sent_ago[m]
        PROVE  timer_age[p] <= HB_INTERVAL + LoopPeriod - 1 + MaxDelay
    <3>1. sent_ago[m] \in 0..MaxDelay
      BY DEF Clocked, TimedTypeOK
    <3> QED  BY <1>1, <2>2, <3>1
  <2> QED  BY <2>1, <2>2 DEF Held, OnTheWay
<1>5. HB_INTERVAL + LoopPeriod - 1 + MaxDelay < ELECTION_TIMEOUT_BASE
  BY HeartbeatAssumption DEF HeartbeatsInTime
<1> QED  BY <1>1, <1>2, <1>4, <1>5 DEF ElectionExpired

\* A node that follows a leader and loses none of its heartbeats never stands.
THEOREM HeartbeatsHold == TimedSpec => []HeartbeatsHoldTimers
<1>1. Touch => Held
  BY DEF Touch
<1> QED  BY <1>1, TouchHolds, TouchInvariant, ClockedInvariant, PTL

-----------------------------------------------------------------------------
(* A settled leader.  Nothing any node may do raises a term or speaks for another *)
(* leader, as long as no heartbeat is lost.                                       *)

\* What a step of a settled cluster leaves: roles and terms, no traffic but the
\* leader's, and nobody who hears anyone else.
Calm(l) ==
    /\ UNCHANGED <<state, term>>
    /\ \A m \in net' :
        m \in net \/ (m.term = term[l] /\ (m.type = "AppendRequest" => m.src = l))
    /\ \A p \in Peers(l) : heard'[p] \in {heard[p], <<l, term[l]>>, << >>}

LEMMA CalmTick ==
    ASSUME TypeOK, TimedTypeOK, HeartbeatsHoldTimers, NEW l \in Server, Settled(l),
           NEW n \in Server, TimedTick(n)
    PROVE  Calm(l)
<1>1. CASE n = l
  <2>1. state[l] = RAFT_LEADER
    BY DEF Settled
  <2>2. CASE TimedHeartbeat(l)
    <3>1. UNCHANGED <<state, term>>
      BY <2>1, <2>2 DEF TimedHeartbeat, raft_tick, TickLeader, TickElection, TickIdle, voteVars
    <3>2. \A m \in net' : m \in net \/ m \in AppendRequests(l, log[l], << >>)
      BY <2>2 DEF TimedHeartbeat, Transmit
    <3>3. \A p \in Peers(l) : heard'[p] \in {heard[p], << >>}
      BY <2>2 DEF TimedHeartbeat, Peers
    <3> QED  BY <3>1, <3>2, <3>3 DEF Calm, AppendRequests
  <2>3. CASE TimedQuietTick(l)
    <3>1. UNCHANGED <<state, term>> /\ net' = net /\ heard' = heard
      BY <2>1, <2>3 DEF TimedQuietTick, raft_tick, TickLeader, TickElection, TickIdle, voteVars
    <3> QED  BY <3>1 DEF Calm
  <2> QED  BY <1>1, <2>1, <2>2, <2>3 DEF TimedTick, TimedElection
<1>2. CASE n # l
  <2>1. InTouch(l, n) /\ state[n] = RAFT_FOLLOWER
    BY <1>2 DEF Settled, Peers
  <2>2. ~ElectionExpired(n)
    BY <2>1 DEF HeartbeatsHoldTimers
  <2>3. TimedQuietTick(n)
    BY <2>1, <2>2 DEF TimedTick, TimedHeartbeat, TimedElection, RAFT_FOLLOWER, RAFT_LEADER
  <2>4. UNCHANGED term /\ net' = net /\ heard' = heard
    BY <2>3 DEF TimedQuietTick
  <2>5. ~TickElection(n)
    <3>1. ASSUME TickElection(n)
          PROVE  FALSE
      <4>1. term'[n] = term[n] + 1 /\ term[n] \in Nat
        BY <3>1 DEF TickElection, TypeOK
      <4> QED  BY <2>4, <4>1
    <3> QED  BY <3>1
  <2>6. UNCHANGED state
    BY <2>3, <2>5 DEF TimedQuietTick, raft_tick, TickLeader, TickIdle, voteVars
  <2> QED  BY <2>4, <2>6 DEF Calm
<1> QED  BY <1>1, <1>2

\* Roles of the settled cluster, and what a datagram it receives may say.
LEMMA SettledReceives ==
    ASSUME TypeOK, Led, NEW l \in Server, Settled(l), NEW n \in Server, NEW m \in net
    PROVE  /\ term[n] = term[l] /\ term[n] \in Nat /\ m.term \in Nat
           /\ state[n] = IF n = l THEN RAFT_LEADER ELSE RAFT_FOLLOWER
           /\ ~NewerTerm(n, m)
           /\ m.type = "AppendRequest" /\ m.dst = n /\ CurrentLeader(n, m) =>
                 n # l /\ m.src = l /\ m.term = term[l]
<1>1. term[n] = term[l] /\ state[n] = IF n = l THEN RAFT_LEADER ELSE RAFT_FOLLOWER
  BY DEF Settled, Peers, InTouch
<1>2. term[n] \in Nat /\ m.term \in Nat
  BY MessageFields DEF TypeOK
<1>3. m.term <= term[l] /\ (m.type = "AppendRequest" /\ m.term = term[l] => m.src = l)
  BY DEF Settled
<1>4. m.type = "AppendRequest" => m.src # m.dst
  BY DEF Led, RequestsFromLeaders
<1> QED  BY <1>1, <1>2, <1>3, <1>4 DEF NewerTerm, CurrentLeader

\* An answer or nothing is all a handler of the settled cluster sends.
LEMMA CalmAnswer ==
    ASSUME NEW l \in Server, NEW m, NEW rest \in AfterReceiving(m), NEW answer,
           Transmit(rest, {answer}), answer.term = term[l], answer.type # "AppendRequest"
    PROVE  \A r \in net' : r \in net \/ (r.term = term[l] /\ (r.type = "AppendRequest" => r.src = l))
<1>1. rest \subseteq net
  BY DEF AfterReceiving
<1> QED  BY <1>1 DEF Transmit

LEMMA CalmHandle ==
    ASSUME TypeOK, TimedTypeOK, Led, NEW l \in Server, Settled(l),
           NEW n \in Server, NEW m \in net, TimedHandle(n, m)
    PROVE  Calm(l)
<1>0. /\ term[n] = term[l] /\ term[n] \in Nat /\ m.term \in Nat
      /\ state[n] = IF n = l THEN RAFT_LEADER ELSE RAFT_FOLLOWER
      /\ ~NewerTerm(n, m)
      /\ m.type = "AppendRequest" /\ m.dst = n /\ CurrentLeader(n, m) =>
            n # l /\ m.src = l /\ m.term = term[l]
      /\ \A rest \in AfterReceiving(m) : rest \subseteq net
  BY SettledReceives DEF AfterReceiving
<1>1. CASE TimedVoteRequest(n, m)
  <2>1. UNCHANGED <<state, term>> /\ heard' = heard
    BY <1>0, <1>1 DEF TimedVoteRequest, raft_handle_vote_request, TypeOK
  <2>2. \E rest \in AfterReceiving(m), grant \in {GrantsVote(n, m)} :
            Transmit(rest, {[type |-> "VoteResponse", src |-> n, dst |-> m.src,
                             term |-> term[n], vote_granted |-> grant]})
    BY <1>0, <1>1 DEF TimedVoteRequest, raft_handle_vote_request
  <2> QED  BY <1>0, <2>1, <2>2, CalmAnswer DEF Calm
<1>2. CASE TimedVoteResponse(n, m)
  <2>1. IgnoreVoteResponse(n, m)
    BY <1>0, <1>2 DEF TimedVoteResponse, raft_handle_vote_response, RAFT_FOLLOWER, RAFT_CANDIDATE,
                      RAFT_LEADER
  <2> QED  BY <1>0, <1>2, <2>1 DEF TimedVoteResponse, IgnoreVoteResponse, voteVars, Calm
<1>3. CASE TimedAppendEntries(n, m) /\ CurrentLeader(n, m)
  <2>1. n # l /\ m.src = l /\ m.term = term[l]
    BY <1>0, <1>3 DEF TimedAppendEntries, raft_handle_append_entries, Receives
  <2>2. FollowLeader(n, m) /\ (RejectPrev(n, m) \/ AcceptPrev(n, m))
    BY <1>0, <1>3 DEF TimedAppendEntries, raft_handle_append_entries, RejectStaleLeader,
                      CurrentLeader
  <2>3. UNCHANGED <<state, term>>
    BY <1>0, <2>1, <2>2 DEF FollowLeader, TypeOK
  <2>4. \A p \in Peers(l) : heard'[p] \in {heard[p], <<l, term[l]>>}
    BY <1>3, <2>1 DEF TimedAppendEntries, Peers, TimedTypeOK
  <2>5. \E rest \in AfterReceiving(m) : \E ok \in BOOLEAN : \E len :
            Transmit(rest, {AppendResponse(n, m, m.term, ok, len)})
    BY <2>2 DEF RejectPrev, AcceptPrev
  <2>6. \A ok, len : /\ AppendResponse(n, m, m.term, ok, len).term = term[l]
                     /\ AppendResponse(n, m, m.term, ok, len).type # "AppendRequest"
    BY <2>1 DEF AppendResponse
  <2> QED  BY <2>3, <2>4, <2>5, <2>6, CalmAnswer DEF Calm
<1>4. CASE TimedAppendEntries(n, m) /\ ~CurrentLeader(n, m)
  <2>1. RejectStaleLeader(n, m) /\ heard' = heard
    BY <1>4 DEF TimedAppendEntries, raft_handle_append_entries, FollowLeader
  <2>2. /\ AppendResponse(n, m, term[n], FALSE, Len(log[n])).term = term[l]
        /\ AppendResponse(n, m, term[n], FALSE, Len(log[n])).type # "AppendRequest"
    BY <1>0 DEF AppendResponse
  <2> QED  BY <2>1, <2>2, CalmAnswer DEF RejectStaleLeader, voteVars, Calm
<1>5. CASE TimedAppendResponse(n, m)
  <2>1. NoteMatch(n, m) \/ IgnoreAppendResponse(n, m)
    BY <1>0, <1>5 DEF TimedAppendResponse, raft_handle_append_response, StepDown
  <2> QED  BY <1>0, <1>5, <2>1
           DEF TimedAppendResponse, NoteMatch, IgnoreAppendResponse, voteVars, Calm
<1> QED  BY <1>1, <1>2, <1>3, <1>4, <1>5 DEF TimedHandle

LEMMA CalmAppend ==
    ASSUME TypeOK, Led, NEW l \in Server, Settled(l), NEW n \in Server, TimedAppend(n)
    PROVE  Calm(l)
<1>1. n = l
  BY DEF TimedAppend, raft_append_entry, Settled, Peers, RAFT_FOLLOWER, RAFT_LEADER
<1>2. UNCHANGED <<state, term>> /\ heard' = heard
  BY DEF TimedAppend, raft_append_entry, voteVars
<1>3. \A m \in net' : m \in net \/ (m.term = term[l] /\ m.src = l)
  BY <1>1 DEF TimedAppend, raft_append_entry, Transmit, AppendRequests
<1> QED  BY <1>2, <1>3 DEF Calm

LEMMA CalmStays ==
    ASSUME TypeOK, NEW l \in Server, Settled(l), Calm(l)
    PROVE  /\ UNCHANGED term
           /\ state'[l] = RAFT_LEADER
           /\ Settled(l)' \/ \E p \in Peers(l) : heard[p] # << >> /\ heard'[p] = << >>
<1>1. UNCHANGED term /\ state'[l] = RAFT_LEADER
  BY DEF Calm, Settled
<1>2. ASSUME \A p \in Peers(l) : ~(heard[p] # << >> /\ heard'[p] = << >>)
      PROVE  Settled(l)'
  <2>1. ASSUME NEW p \in Peers(l)
        PROVE  InTouch(l, p)' /\ state'[p] = RAFT_FOLLOWER
    <3>1. InTouch(l, p) /\ state[p] = RAFT_FOLLOWER
      BY DEF Settled
    <3>2. heard[p] = <<l, term[l]>> /\ heard[p] # << >>
      BY <3>1 DEF InTouch
    <3>3. heard'[p] = <<l, term[l]>>
      BY <1>2, <3>2 DEF Calm
    <3> QED  BY <3>1, <3>3 DEF InTouch, Calm
  <2>2. ASSUME NEW m \in net'
        PROVE  /\ m.term <= term'[l]
               /\ m.type = "AppendRequest" /\ m.term = term'[l] => m.src = l
    BY DEF Calm, Settled, TypeOK
  <2>3. (\A p \in Peers(l) : InTouch(l, p) /\ state[p] = RAFT_FOLLOWER)'
    BY <2>1 DEF Peers
  <2> QED  BY <1>1, <2>2, <2>3 DEF Settled
<1> QED  BY <1>1, <1>2

LEMMA StepSettled ==
    ASSUME Typed, Grounds, Clocked, Touch, [TimedNext]_timedVars,
           NEW l \in Server, Settled(l)
    PROVE  \/ UNCHANGED timedVars
           \/ /\ UNCHANGED term
              /\ state'[l] = RAFT_LEADER
              /\ Settled(l)' \/ \E p \in Peers(l) : heard[p] # << >> /\ heard'[p] = << >>
<1>0. TypeOK /\ TimedTypeOK /\ Led /\ HeartbeatsHoldTimers
  BY TouchHolds DEF Grounds, Clocked, Touch
<1>1. ASSUME NEW n \in Server, TimedStep(n)
      PROVE  Calm(l)
  BY <1>0, <1>1, CalmTick, CalmHandle, CalmAppend DEF TimedStep
<1>2. Pass => Calm(l)
  BY DEF Pass, vars, voteVars, Calm
<1>3. UNCHANGED timedVars \/ Calm(l)
  BY <1>1, <1>2 DEF TimedNext
<1> QED  BY <1>0, <1>3, CalmStays

\* A leader whom every node follows stays in office, in its term, until one of its
\* heartbeats is lost.
THEOREM SettledStays == TimedSpec => SettledLeaderStays
<1>1. Typed /\ Grounds /\ Clocked /\ Touch /\ [TimedNext]_timedVars
        => [\A l \in Server : Settled(l) =>
              /\ UNCHANGED term
              /\ state'[l] = RAFT_LEADER
              /\ Settled(l)' \/ \E p \in Peers(l) : heard[p] # << >> /\ heard'[p] = << >>]_timedVars
  BY StepSettled
<1> QED  BY <1>1, UntimedFacts, OfficeInvariant, ClockedInvariant, TouchInvariant, PTL
         DEF TimedSpec, SettledLeaderStays
=============================================================================
