# A TLA+ model of the CHRONOS consensus program

This directory models the C program of `src/core`: a Raft-like consensus engine,
the datagram service it talks through, and the demo program that drives it. TLC
checks the modules on small clusters; TLAPS proves the main safety properties
for every cluster.

The program in one paragraph: every node is one process with one thread. Its
main loop (`main.c:572`) calls `raft_tick`, drains a non-blocking UDP socket,
may append a demo record if the node leads, sleeps 10 ms and starts over. All
state is in file-scope structs in RAM; nothing is written to disk. Nodes share
nothing but datagrams.

## 1. Inventory

| Component | State | Operations | Talks to |
|---|---|---|---|
| Consensus engine, `raft.c` | `g_raft`: term, vote, log, role, commit and apply index, known leader, per-peer indexes, votes, timer; cluster size; election statistics | `raft_init`, `raft_tick`, four message handlers, `raft_append_entry`, `raft_add_node`, `raft_remove_node`, getters | broadcasts through `comm_broadcast`; calls the state and commit callbacks |
| Node program, `main.c` | own id, demo sequence, time of the last append and of the last election start | main loop, four message callbacks, `register_demo_cluster`, `maybe_append_demo_entry` | feeds handlers, answers requests with `comm_send_to_node` |
| Datagram service, `network.c` | socket, peer table, callback table, sequence number, counters | init and shutdown, register and unregister peers and callbacks, send, broadcast, poll, receive, quality and health | UDP; one callback per received datagram |
| Hardware layer, `hal.c` | time origin, xorshift state | clock, sleep, console log, random number | called by everything |
| RISC-V helpers, `raft_core.S` | none (a word passed by address) | time, timeout, atomic increment, majority | linked, not called from C |
| Types, `common_types.h` | | message structs, log record, limits | |
| Build and empty files | `Makefile`; `scripts/*`, `paper/main.tex` are empty | | |

What is hard about it:

* **Order and loss of datagrams.** Handlers meet messages of earlier terms,
  acknowledgements that overtake each other, and duplicates. Several checks that
  textbook Raft makes are missing here, so it is not obvious what still holds.
* **The handlers' conditions interact.** The vote is reset by a heartbeat of the
  same term; commit counting uses lengths reported by peers; the append request
  is built after the record is in the log.
* **Restart** loses everything while other nodes and datagrams remember.
* **Timers** (heartbeat 100 ms, election 150 to 299 ms, loop 10 ms) decide
  whether a leader keeps its followers.
* **Tables and counters** of the datagram service have a fixed capacity, reuse
  slots and survive `comm_shutdown` until the next `comm_init`.

`PROJECT.json` lists each hazard at its line with the properties that cover it.

What makes each part correct:

* engine: leaders were elected, votes are cast before they are counted, a commit
  index is backed by logs, the application sees each committed record once and
  in order, terms and indexes go back at restarts only, elections end, leaders become known;
* datagram service: the peer table is a map, a broadcast reaches exactly the
  registered peers, sequence numbers are not reused, a registered callback gets
  each intact foreign packet of its type, the counters add up;
* timers: each is served in time whatever role the node takes, and a leader that is
  heard in time is not deposed;
* membership: the size counts the members, and a commit rests on acknowledgements received
  since the node leads and since their sender was added;
* hardware layer: times compare, sleeps show, nodes draw different jitter;
* helpers: the atomic increment loses no update, the majority and the timeout
  mean what their C counterparts mean.

## 2. Modules

| Module | Models |
|---|---|
| `ChronosRaft` | a cluster of nodes: `raft.c` + the parts of `main.c` that call it + the network between the nodes |
| `MCChronosRaft` | model values and symmetry for TLC |
| `ChronosRaftProofs` | type correctness and the applied prefix |
| `ChronosLeaderProofs` | who leads, on whose votes, and how far the fault of `no_replication` goes; what a commit index rests on; `ChronosRaft` implements `LocalJournals` |
| `LocalJournals` | abstract: what each application sees, a journal that only grows, delivered in order; whose records it holds is left open |
| `TimedRaft`, `MCTimedRaft` | `ChronosRaft` with the timers of `raft.c`, the period of the main loop and the delay of datagrams |
| `TimedRaftProofs` | `TimedRaft` implements `ChronosRaft`; timers and heartbeats for every timing within the assumptions |
| `Membership`, `MCMembership` | one node whose cluster changes: `raft_add_node`, `raft_remove_node` and the two majorities |
| `MembershipProofs` | size and members; the acknowledgements a commit rests on |
| `Hal`, `MCHal` | clock, sleep and random numbers of `hal.c`, in several processes |
| `HalProofs` | times compare and sleeps show, for every resolution of the clock; jitter differs exactly if the start milliseconds do |
| `PeerDirectory` | abstract: a bounded map from nodes to addresses and signals, and what is sent through it |
| `PeerTable`, `MCPeerTable` | the peer slots, sending, lifecycle and quality test of `network.c` |
| `PeerTableProofs` | one slot per node; `PeerTable` implements `PeerDirectory`; the health test follows the members' signals |
| `CallbackRegistry` | abstract: a bounded bag of callback registrations and how messages reach them |
| `Dispatch`, `MCDispatch` | the callback slots, `comm_poll`, `process_received_message`, `comm_receive` |
| `DispatchProofs` | types of the callback table; the receive counters; `Dispatch` implements `CallbackRegistry` |
| `TermCounter` | abstract: a word that every call raises by one |
| `RaftCoreAsm`, `MCRaftCoreAsm` | the assembly helpers of `raft_core.S` |
| `RaftCoreAsmProofs` | the LR/SC loop implements `TermCounter`; timeout and majority |

### How `ChronosRaft` corresponds to the code

Field `x` of node `n`'s `g_raft` is `x[n]`: `term`, `voted_for`, `log`, `state`,
`commit_idx`, `last_applied`, `leader_id`, `next_idx`, `match_idx`, `votes`.
`log_cnt` is `Len(log[n])`. `applied[n]` is what the commit callback got, `net`
the datagrams in flight. `cast`, `elected` and `restarts` are history.

| Action | Code |
|---|---|
| `raft_tick(n)` = `TickLeader`, `TickElection` or `TickIdle` | `raft_tick`: heartbeat, commit scan, election timeout, apply loop |
| `raft_handle_vote_request(n, m)` | the handler and the reply sent by `on_vote_request` |
| `raft_handle_vote_response(n, m)` | `StepDown`, `CountVote` (with `BecomeLeader`), `IgnoreVoteResponse` |
| `raft_handle_append_entries(n, m)` | `RejectStaleLeader`, or `FollowLeader` with `RejectPrev` or `AcceptPrev`, and the reply |
| `raft_handle_append_response(n, m)` | `StepDown`, `NoteMatch`, `IgnoreAppendResponse` |
| `raft_append_entry(n)` | `maybe_append_demo_entry` when it does append |
| `Restart(n)` | the process is killed and `main` runs again |

A handler runs to completion on one thread and touches only its own node, so each
is one atomic action. `pc[n]` keeps the order of the loop: after an append the
next thing is a tick; otherwise a node polls, appends or ticks (a poll that finds
nothing and a `maybe_append_demo_entry` that does nothing change no state).

Abstractions: a record's payload is the node that wrote it; the clock is a choice
of whether a timer has expired at the moment `raft_tick` looks; datagrams form a
set, so two identical ones in flight are one (the constant `Duplicates` lets a
datagram be received again and again). A broadcast or reply may lose any subset
of its packets: that is a failed `sendto`, a full buffer or the network.
`candidate_id` and `leader_id` of a message always equal the header's `src`.
The commit scan of `raft_tick` is the set `Committable`; it goes down from the end
of the log, so it stops at its maximum.

### How the datagram service corresponds to the code

Two modules, because the peer side and the callback side of `g_comm` share only
`initialized`, the socket and the counters' reset: each models the lifecycle as far
as it meets it. Both are the library as any sequence of legal calls drives it;
`ChronosRaft` is the one program that uses it.

`PeerTable`: `peers` is the array `g_comm.peers`, whose inactive slots keep their
contents; `open` says whether `socket_fd` is a socket. Each C function is an action
with its return value in `result` and the packets it handed to `sendto` in `out`.
`comm_register_peer` is `UpdatePeer`, `AddPeer` or `TableFull`, in the order of the
code's tests. `comm_broadcast` runs on one thread and nothing it calls changes the
table, so its loop is one action; `Before(i)` is how many packets it has sent when it
comes to slot `i`. `comm_send_message` is `comm_send_to_node` with the header's
destination. `comm_init` wipes everything before it opens the socket, also when it
fails then.

`Dispatch`: `comm_poll` is a loop in steps (`comm_poll`, `Receive`, `CallbackReturns`,
`PollEnds`), because a callback runs in the middle of it and may call the service.
A datagram is one of the five things `process_received_message` tells apart. The
callbacks of `main.c` send and never poll, so nested polls are excluded; calls from a
callback are otherwise unrestricted. `comm_receive` takes a datagram past the checks
of `comm_poll`, or times out.

### How `TimedRaft` corresponds to the code

`TimedRaft` EXTENDS `ChronosRaft` and conjoins each of its actions with what the
handler does to `timer_ms` and `election_timeout_ms`, and with the tests of the two
timers that `ChronosRaft` leaves open: `TimedHeartbeat`, `TimedElection` and
`TimedQuietTick` are `raft_tick` by the outcome of its test. A time stamp is kept as
its age (`timer_age[n]` is `now - timer_ms`), because the clock of each process counts
from its own start and the code only takes differences. `heard` is history. The start
marks of an election in `raft.c` and `main.c` are left out: they serve the printed
latencies only.

Handlers take no time: all clock readings inside one tick or handler (`raft_tick` reads
`now` once and `reset_timer` reads again) are one instant, and what a handler really
takes counts as part of the loop period. `Pass` lets a unit of time go by for everybody. It waits for a
node whose last tick is `LoopPeriod` ago and for a datagram that is `MaxDelay` old, which
states what the theorems need: loops and datagrams keep their limits. Lost datagrams
are never late. All nodes start together, and no process restarts.

### How `Membership` corresponds to the code

One node, as `raft_add_node` and `raft_remove_node` only touch the node they are called
on. The other nodes are arbitrary: their votes, acknowledgements and requests come
at any time with any value, since these properties must not rest on what peers do.
`members`, `orderly` and `received` are history: the set the application has in mind, whether
it added only absent nodes and removed only members, and the furthest acknowledgement
taken from each node since this one leads and that one was last added. It says when
an acknowledgement came in, not when it was sent: the handler looks at neither. `next_idx`, which nothing here reads, is left to `ChronosRaft`.

### How `Hal` corresponds to the code

Several processes share `CLOCK_MONOTONIC` (`now`) and keep `g_initialized`,
`g_start_time_ms` and `g_rng_state` each. A 32-bit word is the set of its one bits, so
exclusive-or is the symmetric difference and the xorshift is computed in full. The
clock calls run `hal_init` if nobody has. `hal_delay_ms` keeps the process from any
call until the time is over. `mark`, `slept`, `draws` and `inits` are history.

### How `RaftCoreAsm` corresponds to the code

`Enter`, `LoadReserved`, `StoreConditional` and `StoreFails` are the call and the
memory instructions of `atomic_inc_term_u32`, run by any number of contexts.
`check_timeout_ticks` and `raft_majority_reached` are operators on registers twice as
wide as a `uint32_t`, which the RV64 calling convention sign-extends (the Makefile
builds for `riscv64`).

## 3. Runs

Bounds: three nodes, the size of the demo cluster (`main.c`, nodes 1 to 3) and the
smallest in which a majority is not everybody. `MaxTerm` 2 gives messages of an
older term; `MaxInFlight` 2 or 3 is enough for overtaking and for a stale message
next to a current one. The log capacity is 1 (2 in `membership`) in place of 128, so
the full log is reached; the theorems about logs hold for every capacity. Exceeding `MaxInFlight` is excluded by the guard; with `Lossy` the same
step without the surplus packets is there, as if they were lost.

| Run | Specification and bounds | Shows |
|---|---|---|
| `restart` | `CrashSpec`, 1 term, log of 1, one restart, lossy and duplicating | types; logs are well formed; a leader got another node's vote; the application's stream and the leaders when a node loses all its state; every application sees a journal that only grows, and a tick leaves nothing committed behind; nothing but a restart takes a node back, with requests repeated and reordered |
| `live` | `FairSpec`, 2 terms, log of 1, no loss | an uncontested election ends; a leader becomes known; second votes; no vote is counted that was not cast; no candidate sits on a majority; a leader yields only for cause; a committed index is reached by a majority of logs |
| `timers` | `TimedSpec`, 2 nodes, 2 terms, log of 1, lossy, scaled timers | timers are served in time; heartbeats hold off elections; a followed leader stays |
| `membership` | `Membership!Spec`, 4 ids, 2 terms, log of 2 | the size counts the members; commits rest on acknowledgements taken in this office and since their sender was added |
| `hal` | `Hal!Spec`, 2 processes, 2 draws, 2 starts, 3 ticks of half a millisecond | readings of both clocks compare; sleeps show; jitter differs exactly if the start milliseconds do |
| `peers` | `PeerTable!Spec`, 3 node ids on 2 slots, 2 addresses, 4 signals of both signs | the table implements the map; no node twice; the health test follows the members |
| `dispatch` | `Dispatch!Spec`, 2 types, 2 functions, 3 slots | table and dispatch implement the bag; counters; active slots can be called |
| `asm_helpers` | `RaftCoreAsm!FairSpec`, 3 contexts, 3 calls, a word of 4 values, time to 9 | no update is lost, the word keeps its width, somebody gets out of the loop |
| `two_leaders` | expected violation | two nodes win the same term |
| `stale_votes` | expected violation | a leader without a quorum of votes |
| `lone_commit` | expected violation | a committed record that only its author has |
| `no_replication` | expected violation | a follower that has all earlier records refuses the next one |

`MaxInFlight` also bounds a node's election: `Uncongested` in `ElectionCompletes` says that
the broadcasts of the vote fit into the network, which the guard would otherwise refuse;
the code has no such limit. The commit properties run without loss (`live`); the theorem
`CommitsBacked` covers the lossy and duplicating networks.

In `timers` the timers are scaled down: heartbeat 3, timeouts 7 and 8, loop 2, delay 2. A
heartbeat may then arrive 6 units after the one before, which is as late as
`HeartbeatsInTime` allows. The code's own numbers are 100 ms, 150 to 299 ms and a loop that
sleeps 10 ms (`hal_delay_ms`) and runs its handlers and their console output on top; the
assumption holds for them as long as the longest loop and the longest delay are together
no more than 50 ms. `MayStand` stops the clock before a node of the last term would
stand again. Two nodes are enough for both roles, both timers and a lost heartbeat; three have more than two million
states, and `TimedRaftProofs` covers every number of nodes. In `membership` four ids let
the counter reach both of its ends and let a node leave and return while another
acknowledges. In `hal` the clock starts on or off a whole millisecond, so that every rounding
occurs, and a draw may come before, between and after two starts.

In `peers` two slots for three ids reach the full table, holes and reuse; two signals are
too weak and two strong enough, one of them positive, and their averages round; the sequence
number wraps after 3 and the packets counted between two resets stop at `MaxSent`. In
`dispatch` three slots hold two registrations of one type and one of the other, with a
hole anywhere. In `asm_helpers` the 4-valued word wraps within the 3 calls; `MaxTime`
keeps the 64-bit time from wrapping, which takes longer than any machine runs.

Deadlock is checked in every run: a node can always tick, and the service can always
be called.

### Fairness (`FairSpec`)

* `LoopFairness`: the main loop is `while (1)`, so every node keeps ticking. The
  fair action is a tick that starts no election, as an election timer may be
  postponed for ever by a leader's requests; a heartbeat is due sooner or later
  because nothing resets a leader's timer but the heartbeat itself. A leader's
  tick with and without heartbeat are both this action, so the runs do not rely on
  heartbeats being sent: the first one goes out with the election.
* `PollFairness`: `comm_poll` reads until the socket is empty, so neither the vote
  traffic nor the append traffic of a sender waits for ever.
* The run is lossless: with loss nothing eventually arrives. Both properties are
  stated with the ways out the code allows (a rival, a better log, a newer term).

`RaftCoreAsm!FairSpec`: contexts keep running, and of the contexts in a load-reserved /
store-conditional loop of this constrained form the architecture lets one succeed
eventually; it does not say which one, so the strong fairness is of their disjunction.

### What the code does not keep

Four runs refute what comments of the code state:

* `two_leaders`: line 580 takes a request of an equal term to come from *the* current
  leader. Line 590 forgets the vote on such a request, so a node can vote again in
  the term, and two nodes can win it.
* `stale_votes`: lines 485-486 say a candidate that reaches a majority becomes leader.
  Line 510 does not compare the response's term, so votes of an earlier election
  count.
* `lone_commit`: lines 350-352 say a committed entry is replicated on a majority.
  Line 647 acknowledges the length of the whole log, and line 670 lets responses
  of older terms through, so logs of the same length but other content count.
* `no_replication`: lines 618-620 copy the record of a request into the follower's log, and
  lines 737-739 promise to replicate what was stored. `broadcast_append_entries` runs
  after `log_cnt` was raised, so `prev_log_index` is the index of the attached record and
  the follower refuses it (line 599), although it has every earlier record.

The first two are all there is: `MissingQuorumHasCause` proves that a leader without a
quorum of its term was voted for by another node in an earlier term, and
`TwoLeadersHaveCause` that two leaders of one term share a voter of that term, or one
of them was voted for in an earlier term (no restarts, nothing duplicated).

How far `no_replication` goes: `RecordsStayHome` proves that the store at `raft.c:630` is never
reached at all, in any cluster; records exist only where they were written. The
`Limitations` of the repository's README say "No log replication (leader election
only)". `KeepsLocalJournals` does not rest on it: it lets a record of any node into a
journal.

Three more comments promise more than the code does, without a run of their own:

* **Removed nodes.** Lines 350-352 again. `raft_remove_node` leaves the removed node's
  `match_idx` in the scan of lines 360-370, so with an orderly caller a leader may commit
  a record that less than a majority of the remaining cluster acknowledged: with two
  peers, one of which acknowledged and was removed then, that one still makes the
  majority. `CommitsOnReceivedAcks` says what is left: the acknowledgements were taken in
  this office and since their sender was last added, as many as the present size asks
  for. They may have been sent in an earlier term (line 670 lets those through).
  `main.c` never removes a node.
* **Shutdown.** `network.h:71` says `comm_shutdown` clears the module state, and
  `network.c:204-220` only closes the socket. Peers, callbacks and counters stay until the
  next `comm_init`, as `comm_shutdown` of both modules has it. `PeerDirectory` and
  `CallbackRegistry` allow a shutdown both, so the refinements do not certify either.
* **Timeouts.** `raft_core.S:44` promises 0 within the timeout, and line 51 that the
  subtraction is safe when the counter wraps. The 32-bit tick is subtracted, sign-extended,
  from the 64-bit time: for a tick of 2^31 or more, and for every tick once the time has
  passed 2^32, the answer is 1 at once. No run checks the routine; the theorem
  `TimeoutsExpireInTime` is what holds. Nothing in C calls it.

The jitter has a limit that `StartsSetApart` makes exact: two nodes whose `hal_init` ran in
the same millisecond (of their own clocks, which count from boot on a board) draw the
same timeouts for as long as they draw equally often. It leaves out a process whose
seed cancels the generator's state, so that `hal.c:133` puts the default there: another
start may reach the default, too. And the seed takes 32 bits of the milliseconds, so starts
49 days apart count as one. `raft.c:203-204` adds the jitter "so that nodes do
not always time out together"; it does so for all other nodes.

`common_types.h:19-21` gives a heartbeat of 50 ms and timeouts of 150 to 300 ms; nothing uses
these names, and `raft.c:72-74` (100 ms, 150 to 299 ms) is what runs and what is modelled.

## 4. Proofs

The theorems about `ChronosRaft` hold for every set of servers, log capacity, term bound and network
(lossy or not, duplicating or not). Assumptions on constants are those of
`ChronosRaft`: the servers are a finite set that does not contain `Nobody`, the
capacity and the bounds are natural numbers. `MajorityEndsCandidacy` needs at
least two servers: a lone candidate holds its own vote until an answer arrives.

| Theorem | Of | Inductive invariant |
|---|---|---|
| `TypeCorrect`, `AppliesCommittedPrefix` | `CrashSpec` | `Typed`: types and the applied prefix together. What the apply loop hands out is a sequence of records only because the commit index stays within the log, and the prefix needs the types |
| `NothingIsTakenBack` | `CrashSpec` | `Typed`; lemmas on what extends a sequence |
| `LeadersElected`, `RecordsStayHome` | `CrashSpec` | `Led` adds `RequestsFromLeaders`: an append request was sent by a winner of its term, never to itself, and one with a record names that record as its predecessor. The last part makes `StoresEntry` false in every handler (`NothingStored`) |
| `LeadersYieldForCause` | `Spec` | `Led`, by cases on the step |
| `SecondVoteAfterElection` | `Spec` | `VotesRemembered`: a vote is of a term its voter has reached, and in the current term it is the one in `voted_for` unless the term has a winner. The append handler may forget a vote because, by `Led`, its sender won the term |
| `MajorityEndsCandidacy` | `CrashSpec` | itself, with `Typed` |
| `LeadersAreSupported` | `CrashSpec` | a vote in flight and a vote counted were cast, by another node, in a term not above the receiver's |
| `CountedVotesWereCast` | `Spec` without duplication | votes counted and votes in flight for a node are together no more than the votes it was given: a receipt moves one from the network to the count, and what is not duplicated is received once |
| `CommitsBacked` | `Spec` | `Backing`: acknowledgements in `match_idx` and in flight do not exceed the log they speak of, and a commit index in flight is backed already. Logs do not shrink, so all of it stays true |
| `MissingQuorumHasCause`, `TwoLeadersHaveCause` | `Spec` without duplication | `Earned`: besides its own vote a candidate counts only votes others gave it, so a winner has, with its own, a majority of votes up to its term. Where none of them is older, its voters of the term are a majority (`FreshWinner`), and two majorities meet. The bare tally of `CountedVotesWereCast` is not enough: it would let a candidate's own votes of earlier terms stand for others' |
| `LogsAreWellFormed` | `CrashSpec` | records of a log are its owner's (`Led`), numbered by `NewEntry` and of terms the owner has passed |
| `TicksApplyAll` | `Spec` | `Typed`, by cases on the tick |
| `ImplementsLocalJournals` | `CrashSpec` | refinement: the mapping is the identity on logs and applied records; a tick delivers, an append stores, and no handler writes (`NothingStored`) |

Each step lemma goes through the actions one by one; frame lemmas (`LeadersKept`,
`NoVoteGiven`, `VoteGiven`, `BackingKept`, `ForwardByTerm`) say when the actions that
leave a part alone keep its invariant.

`TimedRaftProofs` builds on these: `ImplementsUntimed` maps every timed step to a step of
`ChronosRaft` or a stutter, so `TypeCorrect` and `Led` are at hand. The timing itself is
assumed as the constants' `HeartbeatAssumption`, which the code's numbers meet if loop and
delivery together take no more than 50 ms.

| Theorem | Inductive invariant |
|---|---|
| `ImplementsUntimed` | none: each timed action is one of `ChronosRaft` with a guard and the clocks |
| `ClocksTyped`, `TimersServed` | `Clocked`: types, and `Served`: seen from the node's last loop no timer had run out. A change of role that leaves the timer alone (stepping down for a vote request) takes a leader or candidate to follower, whose timeout is no shorter than the heartbeat interval; the change that could hurt, candidate to leader, restarts it |
| `HeartbeatsHold` | `Grounds`: types, `Led`, the vote traffic, and `Office`: a candidate has not won its term yet, and whoever stands or leads holds its own vote. `Touch`: a node heard only winners, and `Held`: its timer is no older than its leader's, or a request of the leader is under way that was sent when the timer had run no longer than heartbeats are apart |
| `SettledStays` | none of its own; `Calm` says what a step of a settled cluster leaves: by `HeartbeatsHold` no follower stands, so roles and terms stay and all new traffic is the leader's |

About the other modules, for every value of their constants:

| Theorem | Of | Argument |
|---|---|---|
| `PeersTypeCorrect`, `NoNodeTwice` | `PeerTable!Spec` | `IInv`: the types and one slot per node together; each write goes to one slot (`ChangedSlot`) |
| `TableIsDirectory` | `PeerTable!Spec` | refinement: `dir` reads the map off the slots (`DirectoryOfTable`); a written or freed slot changes one entry (`WrittenSlot`, `FreedSlot`); occupied slots and members are equally many (`MembersFitIn`); `LoopNumbers` shows that the loop of `comm_broadcast` numbers its packets without gap or repetition |
| `HealthIsOfMembers` | `PeerTable!Spec` | a sum lies between its number of terms times the bounds of the terms (`SumIsBounded`), so the average, divided toward zero as C divides, lies between the bounds (`AverageIsBetween`), whatever the signs of the signals; the reports the slots hold are those of the members (`ReportsOfTable`), as inactive slots are not looked at |
| `TableIsRegistry` | `Dispatch!Spec` | refinement: `registered` counts the slots of each registration. The counts add up to the active slots (`SumIsCount`, `TotalIsActive`), so full means full; a taken or freed slot changes one count by one (`TakenSlot`, `FreedSlot`); the first match is registered for the type whatever the holes (`MatchingIsFor`); the socket is open exactly while the service is up (`OpenWhileUp`). Types and functions are finite sets (`FinitenessAssumption`) |
| `DispatchTypeCorrect`, `ErrorsAreCounted` | `Dispatch!Spec` | inductive as a pair; `FirstIsLeast` for the loops over the table |
| `MembershipTypeCorrect`, `SizeIsMembership`, `CommitsRestOnReceivedAcks` | `Membership!Spec` | `IInv`: types; `FewVotes`, a candidate without a majority has few votes; the size as the number of members while the caller is orderly (the stops of the counter are never met as there are only `RAFT_MAX_NODES` ids); `MatchWasReceived`, `match_idx` is never above `received` |
| `ElapsedTimesAreReal`, `AllSleepShows` | `Hal!Spec` | `ClockInv`: a mark is what a clock showed at its moment, and that moment and the time slept since come before now, or before the end of the sleep; the rest is rounding down (`Floor`, `Whole`, `Distribute`) |
| `HalTypeCorrect`, `StartsAreSetApart` | `Hal!Spec` | `HalInv`: the state is what the seed of the start becomes after the draws since (`Draws`, a trace of generator steps). One step loses nothing: two words that differ have a lowest and a highest differing bit, which a shift to the left and to the right keep (`ShlInjective`, `ShrInjective`), so `Xorshift` is injective (`XorshiftInjective`) and keeps zero to itself; different seeds stay different for ever (`DrawsInjective`) |
| `WordsTellNumbersApart` | constants | `Word` is injective below 2^32 (halving, bit by bit), so within 49 days `StartsSetApart` speaks of the milliseconds themselves |
| `AsmTypeCorrect`, `CallsAreAtomic` | `RaftCoreAsm!Spec` | `ReservedIsFresh`: while a reservation stands, the register holds the word's successor |
| `TimeoutsExpireInTime` | `RaftCoreAsm!Spec` | `TickIsLowHalf` and two lemmas on `%`; needs that the 64-bit time stays one 32-bit range below its end (`AsmBoundAssumption`) |
| `MajorityAgreesWithC` | constants | the shift-and-compare equals `votes > size / 2` below half the range |

Sums and repeated draws are recursive functions over sets and numbers. The induction
theorems of the library take an operator, which the provers cannot instantiate, so the
proofs go by least counterexample: a non-empty set of numbers has a least element
(`LeastNumber`), and that the recursion has a value at all is shown the same way
(`SumsExist`).

Only model-checked: the liveness properties `ElectionCompletes`, `LeaderBecomesKnown` and
`SomeCallReturns`, as liveness under fairness and `ENABLED` are out of the prover's reach.
Every other property of a passing run is a theorem.

## 5. Plan

1. `ChronosRaft` with its runs and proofs: done.
2. The datagram service, `PeerTable` and `Dispatch`, with their abstract
   specifications: done.
3. `RaftCoreAsm`: done.
4. `TimedRaft`: done. The whole cluster with its clocks.
5. `Membership`: done.
6. `Hal`: done.
7. What could still follow: clocks that drift or start apart and process restarts in
   `TimedRaft`; the election statistics.

Not modelled, and why: the election statistics and `raft_reset_statistics` (counters of
what the actions do, read by nobody but a caller that prints them), `raft_shutdown` (returns), the arithmetic of the checksum and the byte counters (a damaged
packet is one that fails the test), console output and the status line (no state), Windows code
paths (the same behaviour through other calls), `raft_get_cluster_info` (clears its
argument and returns), the Makefile, and the empty scripts and paper.
