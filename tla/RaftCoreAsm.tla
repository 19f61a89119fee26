----------------------------- MODULE RaftCoreAsm -----------------------------
(***************************************************************************)
(* The RISC-V helpers of core/raft_core.S.                                 *)
(*                                                                         *)
(* atomic_inc_term_u32 is a load-reserved / store-conditional loop that    *)
(* several contexts (harts, threads, interrupt handlers) may run on one    *)
(* word; each instruction that touches memory is a step.                   *)
(*                                                                         *)
(* check_timeout_ticks compares the 64-bit time with a tick that a caller  *)
(* keeps in a uint32_t.  On RV64 a uint32_t travels sign-extended in a     *)
(* 64-bit register, and the routine computes on the whole registers.       *)
(***************************************************************************)
EXTENDS Integers

CONSTANTS
    Context,    \* whoever may call atomic_inc_term_u32 on the word
    Word,       \* how many values 32 bits have; 64 bits have Word * Word
    MaxCalls,   \* BOUND: calls of atomic_inc_term_u32
    MaxTime     \* BOUND: the time register stops here

ASSUME WordAssumption == Word \in Nat /\ Word >= 2 /\ Word % 2 = 0
ASSUME AsmBoundAssumption ==
    /\ MaxCalls \in Nat
    /\ MaxTime \in Nat
    /\ MaxTime < Word * Word - Word     \* time itself never gets near its 64 bits

VARIABLES
    term,       \* the word that a0 points to
    pc,         \* per context: "out", or before "lr" or "sc" of the loop
    t0,         \* per context: the register the loop works in
    reserved,   \* per context: does its reservation on the word still stand?
    started,    \* calls begun (for MaxCalls)
    calls,      \* history: calls returned
    time,       \* the time CSR
    last_tick,  \* a caller's uint32_t, set from rdtime32
    since       \* history: the time at which last_tick was read

loopVars == <<term, pc, t0, reserved, started, calls>>
timeVars == <<time, last_tick, since>>
vars == <<loopVars, timeVars>>

-----------------------------------------------------------------------------
(* Registers *)

\* A uint32_t in a 64-bit register.
SignExtend(x) == IF x < Word \div 2 THEN x ELSE x + Word * Word - Word

rdtime32 == time % Word

\* sub and bgeu on whole registers.
check_timeout_ticks(last, timeout) ==
    (time - SignExtend(last)) % (Word * Word) >= SignExtend(timeout)

\* srli, addi and bltu on whole registers.
raft_majority_reached(votes, total_nodes) ==
    SignExtend(votes) >= (SignExtend(total_nodes) \div 2) + 1

-----------------------------------------------------------------------------
Init ==
    /\ term \in 0..(Word - 1)
    /\ pc = [c \in Context |-> "out"]
    /\ t0 = [c \in Context |-> 0]
    /\ reserved = [c \in Context |-> FALSE]
    /\ started = 0
    /\ calls = 0
    /\ time = 0
    /\ last_tick = 0
    /\ since = 0

(* atomic_inc_term_u32 *)

Enter(c) ==
    /\ pc[c] = "out"
    /\ started < MaxCalls
    /\ started' = started + 1
    /\ pc' = [pc EXCEPT ![c] = "lr"]
    /\ UNCHANGED <<term, t0, reserved, calls>>

\* lr.w, and the addi behind it, which touches no memory.  The addi is as wide as
\* the register, so t0 may reach Word.
LoadReserved(c) ==
    /\ pc[c] = "lr"
    /\ t0' = [t0 EXCEPT ![c] = term + 1]
    /\ reserved' = [reserved EXCEPT ![c] = TRUE]
    /\ pc' = [pc EXCEPT ![c] = "sc"]
    /\ UNCHANGED <<term, started, calls>>

Bug_PlainStore(c) ==
    /\ pc[c] = "sc"
    /\ term' = t0[c] % Word
    /\ reserved' = [d \in Context |-> FALSE]
    /\ pc' = [pc EXCEPT ![c] = "out"]
    /\ calls' = calls + 1
    /\ UNCHANGED <<t0, started>>

Bug_StoreWholeRegister(c) ==
    /\ pc[c] = "sc"
    /\ reserved[c]
    /\ term' = t0[c]
    /\ reserved' = [d \in Context |-> FALSE]
    /\ pc' = [pc EXCEPT ![c] = "out"]
    /\ calls' = calls + 1
    /\ UNCHANGED <<t0, started>>

\* sc.w succeeds: the low half of t0 is stored, every reservation on the word is
\* gone.
StoreConditional(c) ==
    /\ pc[c] = "sc"
    /\ reserved[c]
    /\ term' = t0[c] % Word
    /\ reserved' = [d \in Context |-> FALSE]
    /\ pc' = [pc EXCEPT ![c] = "out"]
    /\ calls' = calls + 1
    /\ UNCHANGED <<t0, started>>

Bug_RetryTheStore(c) ==
    /\ pc[c] = "sc"
    /\ reserved' = [reserved EXCEPT ![c] = FALSE]
    /\ UNCHANGED <<term, pc, t0, started, calls>>

\* sc.w fails, because the reservation was lost or for no reason the program can
\* see (a trap, an evicted line), and bnez goes back to the load.
StoreFails(c) ==
    /\ pc[c] = "sc"
    /\ reserved' = [reserved EXCEPT ![c] = FALSE]
    /\ pc' = [pc EXCEPT ![c] = "lr"]
    /\ UNCHANGED <<term, t0, started, calls>>

LoopStep(c) == LoadReserved(c) \/ StoreConditional(c) \/ StoreFails(c)

(* A caller of the timeout helper *)

Pass ==
    /\ time < MaxTime
    /\ time' = time + 1
    /\ UNCHANGED <<last_tick, since>>

Arm ==
    /\ last_tick' = rdtime32
    /\ since' = time
    /\ UNCHANGED time

Next ==
    \/ \E c \in Context : (Enter(c) \/ LoopStep(c)) /\ UNCHANGED timeVars
    \/ (Pass \/ Arm) /\ UNCHANGED loopVars

Spec == Init /\ [][Next]_vars

\* Contexts keep running, and the architecture promises that of the contexts in a
\* loop of this form one succeeds eventually (not which one).
FairSpec ==
    /\ Spec
    /\ \A c \in Context : WF_vars(LoopStep(c) /\ UNCHANGED timeVars)
    /\ SF_vars(\E c \in Context : StoreConditional(c) /\ UNCHANGED timeVars)

-----------------------------------------------------------------------------
\* The type invariant; the word in particular never leaves its 32 bits.
AsmTypeOK ==
    /\ term \in 0..(Word - 1)
    /\ pc \in [Context -> {"out", "lr", "sc"}]
    /\ t0 \in [Context -> 0..Word]
    /\ reserved \in [Context -> BOOLEAN]
    /\ started \in Nat
    /\ calls \in Nat
    /\ time \in 0..MaxTime
    /\ last_tick \in 0..(Word - 1)
    /\ since \in 0..time

\* However the contexts interleave in atomic_inc_term_u32, the word moves as a
\* counter that every call raises once: no update is lost.
Counter == INSTANCE TermCounter WITH value <- term
NoUpdateLost == Counter!Spec

\* A standing reservation means that the register still holds the word's successor.
ReservedIsFresh ==
    \A c \in Context : pc[c] = "sc" /\ reserved[c] => t0[c] = term + 1

\* A caller's tick is what a 32-bit variable keeps of the time.
TickIsLowHalf == last_tick = since % Word

\* As long as somebody is in the loop of atomic_inc_term_u32, somebody gets out.
SomeCallReturns ==
    \A k \in 0..MaxCalls :
        (calls = k /\ \E c \in Context : pc[c] # "out") ~> calls > k

\* check_timeout_ticks never reports a timeout below half the range of a tick too
\* late, however often the tick wrapped; and it reports it exactly as long as the
\* tick was read in the first half of the first round.  That is less than the comment
\* of the routine promises (0 "if still within timeout", raft_core.S:44): for any
\* other tick it answers 1 at once.
TimeoutNeverLate ==
    \A timeout \in 0..(Word \div 2 - 1) :
        /\ time - since >= timeout => check_timeout_ticks(last_tick, timeout)
        /\ since < Word \div 2 =>
              (check_timeout_ticks(last_tick, timeout) <=> time - since >= timeout)

=============================================================================
