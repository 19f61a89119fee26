------------------------------ MODULE TimedRaft ------------------------------
(***************************************************************************)
(* The cluster of ChronosRaft with its clocks: timer_ms and                *)
(* election_timeout_ms of core/raft.c, the period of the main loop of      *)
(* core/main.c, and the time a datagram is under way.                      *)
(*                                                                         *)
(* hal_get_time_ms counts from the start of its own process and only       *)
(* differences of one node's readings are ever taken, so a time stamp is   *)
(* kept as its age: the clock minus the stamp.  All clocks run at the same *)
(* rate; an action takes no time, Pass lets time go by for everybody.      *)
(***************************************************************************)
EXTENDS ChronosRaft

CONSTANTS
    HB_INTERVAL,             \* HB_INTERVAL_MS
    ELECTION_TIMEOUT_BASE,   \* ELECTION_TIMEOUT_BASE_MS
    ELECTION_TIMEOUT_JITTER, \* ELECTION_TIMEOUT_JITTER_MS
    LoopPeriod,              \* the longest time between two raft_tick of a node
    MaxDelay                 \* the longest time from sendto to the handler

\* The defines of raft.c, in units of 10 ms: 10, 15 and 15.
ASSUME TimerAssumption ==
    /\ HB_INTERVAL \in Nat \ {0}
    /\ ELECTION_TIMEOUT_BASE \in Nat
    /\ ELECTION_TIMEOUT_JITTER \in Nat \ {0}
    /\ LoopPeriod \in Nat \ {0}
    /\ MaxDelay \in Nat
    /\ HB_INTERVAL <= ELECTION_TIMEOUT_BASE

\* A leader sends when a tick finds the interval over, so a heartbeat may be late
\* by almost a loop; it must still arrive before the shortest timeout is over.
HeartbeatsInTime == HB_INTERVAL + LoopPeriod - 1 + MaxDelay < ELECTION_TIMEOUT_BASE
ASSUME HeartbeatAssumption == HeartbeatsInTime

VARIABLES
    timer_age,           \* now - g_raft.timer_ms
    election_timeout_ms, \* g_raft.election_timeout_ms
    loop_age,            \* how long ago raft_tick ran
    sent_ago,            \* how long ago each datagram of net was sent
    heard                \* history: sender and term of the leader's request a node
                         \* handled last; << >> once a heartbeat to it was lost

timers    == <<timer_age, election_timeout_ms>>
timedVars == <<vars, timers, loop_age, sent_ago, heard>>

Timeouts == ELECTION_TIMEOUT_BASE..(ELECTION_TIMEOUT_BASE + ELECTION_TIMEOUT_JITTER - 1)

TimedInit ==
    /\ Init
    /\ timer_age = [n \in Server |-> 0]
    /\ election_timeout_ms \in [Server -> Timeouts]
    /\ loop_age = [n \in Server |-> 0]
    /\ sent_ago = << >>
    /\ heard = [n \in Server |-> << >>]

-----------------------------------------------------------------------------
(* Timers *)

Bug_TimeoutInclusive(n) ==
    /\ timer_age' = [timer_age EXCEPT ![n] = 0]
    /\ \E j \in 0..ELECTION_TIMEOUT_JITTER :
          election_timeout_ms' = [election_timeout_ms EXCEPT ![n] = ELECTION_TIMEOUT_BASE + j]

\* reset_timer: start again, with a new timeout.
reset_timer(n) ==
    /\ timer_age' = [timer_age EXCEPT ![n] = 0]
    /\ \E t \in Timeouts : election_timeout_ms' = [election_timeout_ms EXCEPT ![n] = t]

\* g_raft.timer_ms = now, with the timeout as it is.
RestartTimer(n) ==
    /\ timer_age' = [timer_age EXCEPT ![n] = 0]
    /\ UNCHANGED election_timeout_ms

\* Datagrams sent by this step are new; the others keep their age.
Posted == sent_ago' = [m \in net' |-> IF m \in net THEN sent_ago[m] ELSE 0]

Bug_DueWhenOver(n) == timer_age[n] > HB_INTERVAL

HeartbeatDue(n)    == timer_age[n] >= HB_INTERVAL
ElectionExpired(n) == timer_age[n] >= election_timeout_ms[n]

-----------------------------------------------------------------------------
(* raft_tick with the tests of its two timers *)

\* The nodes whose heartbeat from n is lost in this step.
MissedBy(n) == {m.dst : m \in AppendRequests(n, log[n], << >>) \ net'}

TimedHeartbeat(n) ==
    /\ state[n] = RAFT_LEADER
    /\ HeartbeatDue(n)
    /\ raft_tick(n)
    /\ Transmit(net, AppendRequests(n, log[n], << >>))
    /\ RestartTimer(n)
    /\ heard' = [p \in Server |-> IF p \in MissedBy(n) THEN << >> ELSE heard[p]]

\* An attempt of a follower, or another one of a candidate: both reset the timer.
TimedElection(n) ==
    /\ state[n] # RAFT_LEADER
    /\ ElectionExpired(n)
    /\ raft_tick(n)
    /\ TickElection(n)
    /\ reset_timer(n)
    /\ UNCHANGED heard

\* Neither timer has run out.
TimedQuietTick(n) ==
    /\ state[n] = RAFT_LEADER => ~HeartbeatDue(n)
    /\ state[n] # RAFT_LEADER => ~ElectionExpired(n)
    /\ raft_tick(n)
    /\ net' = net /\ term' = term
    /\ UNCHANGED <<timers, heard>>

TimedTick(n) ==
    /\ TimedHeartbeat(n) \/ TimedElection(n) \/ TimedQuietTick(n)
    /\ loop_age' = [loop_age EXCEPT ![n] = 0]

-----------------------------------------------------------------------------
(* The handlers: where they reset the timer *)

\* Only a granted vote resets it; stepping down for the request does not.
TimedVoteRequest(n, m) ==
    /\ raft_handle_vote_request(n, m)
    /\ \/ GrantsVote(n, m) /\ reset_timer(n)
       \/ ~GrantsVote(n, m) /\ UNCHANGED timers
    /\ UNCHANGED heard

Bug_WinnerKeepsTimer(n, m) ==
    /\ raft_handle_vote_response(n, m)
    /\ \/ state'[n] # RAFT_FOLLOWER /\ UNCHANGED timers
       \/ state'[n] = RAFT_FOLLOWER /\ state[n] = RAFT_FOLLOWER /\ UNCHANGED timers
       \/ state'[n] = RAFT_FOLLOWER /\ state[n] # RAFT_FOLLOWER /\ reset_timer(n)
    /\ UNCHANGED heard

\* A candidate that steps down resets it; one that wins restarts it, behind its
\* first heartbeat.
TimedVoteResponse(n, m) ==
    /\ raft_handle_vote_response(n, m)
    /\ \/ state'[n] = state[n] /\ UNCHANGED timers
       \/ state'[n] # state[n] /\ state'[n] = RAFT_FOLLOWER /\ reset_timer(n)
       \/ state'[n] # state[n] /\ state'[n] = RAFT_LEADER /\ RestartTimer(n)
    /\ UNCHANGED heard

Bug_ResetForNewLeader(n, m) ==
    /\ raft_handle_append_entries(n, m)
    /\ \/ /\ CurrentLeader(n, m)
          /\ \/ leader_id[n] # m.src /\ reset_timer(n)
             \/ leader_id[n] = m.src /\ UNCHANGED timers
          /\ heard' = [heard EXCEPT ![n] = <<m.src, m.term>>]
       \/ ~CurrentLeader(n, m) /\ UNCHANGED <<timers, heard>>

\* Every request of the current term resets it, whatever becomes of its record.
TimedAppendEntries(n, m) ==
    /\ raft_handle_append_entries(n, m)
    /\ \/ /\ CurrentLeader(n, m)
          /\ reset_timer(n)
          /\ heard' = [heard EXCEPT ![n] = <<m.src, m.term>>]
       \/ ~CurrentLeader(n, m) /\ UNCHANGED <<timers, heard>>

TimedAppendResponse(n, m) ==
    /\ raft_handle_append_response(n, m)
    /\ \/ state'[n] = state[n] /\ UNCHANGED timers
       \/ state'[n] # state[n] /\ reset_timer(n)
    /\ UNCHANGED heard

TimedHandle(n, m) ==
    /\ \/ TimedVoteRequest(n, m)
       \/ TimedVoteResponse(n, m)
       \/ TimedAppendEntries(n, m)
       \/ TimedAppendResponse(n, m)
    /\ UNCHANGED loop_age

TimedAppend(n) ==
    /\ raft_append_entry(n)
    /\ UNCHANGED <<timers, loop_age, heard>>

TimedStep(n) ==
    \/ TimedTick(n)
    \/ \E m \in net : TimedHandle(n, m)
    \/ TimedAppend(n)

-----------------------------------------------------------------------------
(* Time *)

\* BOUND: time stops before the timer of a node in term MaxTerm runs out.
MayStand(n) ==
    state[n] # RAFT_LEADER /\ term[n] = MaxTerm => timer_age[n] + 1 < election_timeout_ms[n]

\* A unit of time goes by, if no main loop and no datagram is overdue.
Pass ==
    /\ \A n \in Server : loop_age[n] < LoopPeriod /\ MayStand(n)
    /\ \A m \in net : sent_ago[m] < MaxDelay
    /\ timer_age' = [n \in Server |-> timer_age[n] + 1]
    /\ loop_age' = [n \in Server |-> loop_age[n] + 1]
    /\ sent_ago' = [m \in net |-> sent_ago[m] + 1]
    /\ UNCHANGED <<vars, election_timeout_ms, heard>>

TimedNext ==
    \/ (\E n \in Server : TimedStep(n)) /\ Posted /\ UNCHANGED restarts
    \/ Pass

TimedSpec == TimedInit /\ [][TimedNext]_timedVars

-----------------------------------------------------------------------------
(* Properties *)

\* The clocks' ages and the datagrams' ages keep their types.
TimedTypeOK ==
    /\ timer_age \in [Server -> Nat]
    /\ election_timeout_ms \in [Server -> Timeouts]
    /\ loop_age \in [Server -> 0..LoopPeriod]
    /\ sent_ago \in [net -> 0..MaxDelay]
    /\ heard \in [Server -> {<< >>} \cup (Server \X Nat)]

\* Both timers are acted on within one loop of running out, through every change
\* of role: a leader's next heartbeat and anybody else's next election are never
\* later than that, although the roles share timer_ms and not every change of role
\* resets it.
TimersAreServed ==
    \A n \in Server :
        timer_age[n] <= LoopPeriod - 1 +
            (IF state[n] = RAFT_LEADER THEN HB_INTERVAL ELSE election_timeout_ms[n])

\* p follows the leader l and has lost none of its heartbeats since it heard it.
InTouch(l, p) ==
    /\ state[l] = RAFT_LEADER
    /\ term[p] = term[l]
    /\ heard[p] = <<l, term[l]>>

\* The election timer of a node in touch with its leader never runs out: one
\* heartbeat arrives before the timeout counted from the one before it.
HeartbeatsHoldTimers ==
    \A l, p \in Server : InTouch(l, p) => ~ElectionExpired(p)

\* l leads everybody, and nothing under way speaks for anyone else.
Settled(l) ==
    /\ state[l] = RAFT_LEADER
    /\ \A p \in Peers(l) : InTouch(l, p) /\ state[p] = RAFT_FOLLOWER
    /\ \A m \in net :
        /\ m.term <= term[l]
        /\ m.type = "AppendRequest" /\ m.term = term[l] => m.src = l

\* A leader everybody follows is not deposed: no step raises a term or takes its
\* office, and only a lost heartbeat ends this.
SettledLeaderStays ==
    [][\A l \in Server : Settled(l) =>
        /\ UNCHANGED term
        /\ state'[l] = RAFT_LEADER
        /\ Settled(l)' \/ \E p \in Peers(l) : heard[p] # << >> /\ heard'[p] = << >>]_timedVars

=============================================================================
