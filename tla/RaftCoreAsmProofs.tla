-------------------------- MODULE RaftCoreAsmProofs --------------------------
(***************************************************************************)
(* What is proved of the RISC-V helpers, for every word size and any       *)
(* number of contexts.                                                     *)
(***************************************************************************)
EXTENDS RaftCoreAsm, TLAPS

IInv == AsmTypeOK /\ ReservedIsFresh /\ TickIsLowHalf

LEMMA InitIInv == Init => IInv
  <1>1. Word \in Nat /\ Word >= 2
    BY WordAssumption
  <1>2. 0 % Word = 0
    BY <1>1
  <1> QED
    BY <1>1, <1>2, AsmBoundAssumption
    DEF Init, IInv, AsmTypeOK, ReservedIsFresh, TickIsLowHalf

LEMMA StepIInv == IInv /\ [Next]_vars => IInv'
  <1> SUFFICES ASSUME IInv, [Next]_vars
               PROVE  IInv'
    OBVIOUS
  <1> USE DEF IInv, AsmTypeOK, ReservedIsFresh, TickIsLowHalf, loopVars, timeVars
  <1>w. Word \in Nat /\ Word >= 2
    BY WordAssumption
  <1>m. MaxTime \in Nat /\ MaxTime < Word * Word /\ Word * Word \in Nat
    <2>1. Word * Word \in Nat
      BY <1>w
    <2> QED
      BY <1>w, <2>1, AsmBoundAssumption
  <1>1. ASSUME NEW c \in Context, Enter(c), UNCHANGED timeVars
        PROVE  IInv'
    BY <1>1 DEF Enter
  <1>2. ASSUME NEW c \in Context, LoadReserved(c), UNCHANGED timeVars
        PROVE  IInv'
    BY <1>2, <1>w DEF LoadReserved
  <1>3. ASSUME NEW c \in Context, StoreConditional(c), UNCHANGED timeVars
        PROVE  IInv'
    <2>1. t0[c] % Word \in 0..(Word - 1)
      BY <1>w
    <2> QED
      BY <1>3, <2>1 DEF StoreConditional
  <1>4. ASSUME NEW c \in Context, StoreFails(c), UNCHANGED timeVars
        PROVE  IInv'
    BY <1>4 DEF StoreFails
  <1>5. CASE Pass /\ UNCHANGED loopVars
    BY <1>5, <1>m DEF Pass
  <1>6. CASE Arm /\ UNCHANGED loopVars
    <2>1. time % Word \in 0..(Word - 1)
      BY <1>w, <1>m
    <2> QED
      BY <1>6, <2>1, <1>m DEF Arm, rdtime32
  <1>7. CASE UNCHANGED vars
    BY <1>7 DEF vars
  <1> QED
    BY <1>1, <1>2, <1>3, <1>4, <1>5, <1>6, <1>7 DEF Next, LoopStep

LEMMA AlwaysIInv == Spec => []IInv
  BY InitIInv, StepIInv, PTL DEF Spec

\* The word never leaves its 32 bits, and the registers and ticks keep their types.
THEOREM AsmTypeCorrect == Spec => []AsmTypeOK
  <1>1. IInv => AsmTypeOK
    BY DEF IInv
  <1> QED
    BY <1>1, AlwaysIInv, PTL

-----------------------------------------------------------------------------
\* atomic_inc_term_u32 implements a counter that every call raises by one,
\* however many contexts run it on the word.
THEOREM CallsAreAtomic == Spec => NoUpdateLost
  <1>1. Init => Counter!Init
    BY DEF Init, Counter!Init
  <1>2. IInv /\ [Next]_vars => [Counter!Increment]_<<term, calls>>
    <2> SUFFICES ASSUME IInv, [Next]_vars
                 PROVE  [Counter!Increment]_<<term, calls>>
      OBVIOUS
    <2>1. ASSUME NEW c \in Context, StoreConditional(c)
          PROVE  Counter!Increment
      BY <2>1 DEF StoreConditional, Counter!Increment, IInv, ReservedIsFresh
    <2>2. ASSUME NEW c \in Context, Enter(c) \/ LoadReserved(c) \/ StoreFails(c)
          PROVE  UNCHANGED <<term, calls>>
      BY <2>2 DEF Enter, LoadReserved, StoreFails
    <2> QED
      BY <2>1, <2>2 DEF Next, LoopStep, vars, loopVars
  <1> QED
    BY <1>1, <1>2, AlwaysIInv, PTL DEF Spec, NoUpdateLost, Counter!Spec

-----------------------------------------------------------------------------
(* Arithmetic on registers *)

LEMMA SmallModulo ==
    ASSUME NEW b \in Nat, b > 0, NEW a \in 0..(b - 1)
    PROVE  a % b = a
  OBVIOUS

LEMMA NegativeModulo ==
    ASSUME NEW b \in Nat, b > 0, NEW a \in Int, -b <= a, a < 0
    PROVE  a % b = a + b
  OBVIOUS

\* check_timeout_ticks is never late, and exact for ticks of the first half.
THEOREM TimeoutsExpireInTime == Spec => []TimeoutNeverLate
  <1>1. IInv => TimeoutNeverLate
    <2> SUFFICES ASSUME IInv, NEW timeout \in 0..(Word \div 2 - 1)
                 PROVE  /\ time - since >= timeout => check_timeout_ticks(last_tick, timeout)
                        /\ since < Word \div 2 =>
                              (check_timeout_ticks(last_tick, timeout) <=> time - since >= timeout)
      BY DEF TimeoutNeverLate
    <2> DEFINE Wide == Word * Word
    <2>1. Word \in Nat /\ Word >= 2 /\ Word \div 2 \in Nat /\ 2 * (Word \div 2) = Word
      BY WordAssumption
    <2>2. Wide \in Nat /\ Wide >= Word /\ Wide > 0
      BY <2>1
    <2>3. time \in Nat /\ since \in 0..time /\ time < Wide - Word
      <3>1. time \in 0..MaxTime /\ since \in 0..time
        BY DEF IInv, AsmTypeOK
      <3>2. MaxTime \in Nat /\ MaxTime < Wide - Word
        BY AsmBoundAssumption
      <3> HIDE DEF Wide
      <3> QED
        BY <2>1, <2>2, <3>1, <3>2
    <2>4. last_tick \in 0..(Word - 1) /\ last_tick <= since
      BY <2>1, <2>3 DEF IInv, AsmTypeOK, TickIsLowHalf
    <2>5. SignExtend(timeout) = timeout
      BY <2>1 DEF SignExtend
    <2> DEFINE elapsed == (time - SignExtend(last_tick)) % Wide
    <2>6. check_timeout_ticks(last_tick, timeout) <=> elapsed >= timeout
      BY <2>5 DEF check_timeout_ticks
    <2>7. CASE last_tick < Word \div 2
      <3>1. SignExtend(last_tick) = last_tick
        BY <2>7 DEF SignExtend
      <3>2. time - last_tick \in 0..(Wide - 1)
        BY <2>1, <2>2, <2>3, <2>4
      <3>3. elapsed = time - last_tick
        <4> HIDE DEF Wide
        <4> QED
          BY <2>2, <3>1, <3>2, SmallModulo
      <3>4. since < Word \div 2 => last_tick = since
        BY <2>1, <2>3, SmallModulo DEF IInv, TickIsLowHalf
      <3> HIDE DEF elapsed, Wide
      <3> QED
        BY <2>1, <2>3, <2>4, <2>6, <3>3, <3>4
    <2>8. CASE ~(last_tick < Word \div 2)
      <3>1. SignExtend(last_tick) = last_tick + Wide - Word
        BY <2>8 DEF SignExtend
      <3>2. SignExtend(last_tick) \in Nat /\ time - SignExtend(last_tick) = time - last_tick - Wide + Word
        <4> HIDE DEF Wide
        <4> QED
          BY <2>1, <2>2, <2>3, <2>4, <3>1
      <3>3. elapsed = time - last_tick + Word
        <4> HIDE DEF Wide
        <4>1. -Wide <= time - last_tick - Wide + Word /\ time - last_tick - Wide + Word < 0
          BY <2>1, <2>2, <2>3, <2>4
        <4> QED
          BY <2>1, <2>2, <2>3, <2>4, <3>2, <4>1, NegativeModulo
      <3>4. ~(since < Word \div 2)
        BY <2>3, <2>4, <2>8, <2>1
      <3> HIDE DEF elapsed, Wide
      <3> QED
        BY <2>1, <2>3, <2>4, <2>6, <3>3, <3>4
    <2> QED
      BY <2>7, <2>8
  <1> QED
    BY <1>1, AlwaysIInv, PTL

\* raft_majority_reached is the majority test that raft.c spells out in C, votes >
\* size / 2 (raft.c:372 and 514), as long as both numbers are below half the word.
THEOREM MajorityAgreesWithC ==
    ASSUME NEW votes \in 0..(Word \div 2 - 1), NEW total_nodes \in 0..(Word \div 2 - 1)
    PROVE  raft_majority_reached(votes, total_nodes) <=> votes > total_nodes \div 2
  <1>1. Word \in Nat /\ Word >= 2
    BY WordAssumption
  <1>2. SignExtend(votes) = votes /\ SignExtend(total_nodes) = total_nodes
    BY <1>1 DEF SignExtend
  <1> QED
    BY <1>1, <1>2 DEF raft_majority_reached

=============================================================================
