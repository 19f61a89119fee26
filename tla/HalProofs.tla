------------------------------ MODULE HalProofs ------------------------------
(***************************************************************************)
(* What is proved of Hal, for any number of processes, any resolution of   *)
(* the system clock, any time at which the processes start and any number  *)
(* of draws: times compare, sleeps show, and the generator is never zero and*)
(* sets processes of different start milliseconds apart.                   *)
(***************************************************************************)
EXTENDS Hal, NaturalsInduction, WellFoundedInduction, TLAPS

-----------------------------------------------------------------------------
(* Rounding *)

\* x \div Milli is the whole milliseconds of x.
LEMMA Floor ==
    ASSUME NEW x \in Int
    PROVE  /\ x \div Milli \in Int
           /\ (x \div Milli) * Milli <= x
           /\ x < (x \div Milli) * Milli + Milli
BY HalAssumption

\* Nothing is lost to rounding down when whole milliseconds are compared.
LEMMA Whole ==
    ASSUME NEW x \in Int, NEW k \in Int, k * Milli <= x
    PROVE  k <= x \div Milli
BY HalAssumption

LEMMA WholeIs ==
    ASSUME NEW x \in Int, NEW k \in Int, k * Milli <= x, x < k * Milli + Milli
    PROVE  x \div Milli = k
BY HalAssumption

LEMMA Distribute ==
    ASSUME NEW j \in Int, NEW k \in Int
    PROVE  /\ (j + k) * Milli = j * Milli + k * Milli
           /\ (j - k) * Milli = j * Milli - k * Milli
           /\ j * Milli \in Int
BY HalAssumption

-----------------------------------------------------------------------------
(* The invariant: a reading is the clock of its moment, and what was slept      *)
(* since it is over or is what the process still waits for.                     *)

Reading == Int \X Nat

ClockTypes ==
    /\ now \in Nat
    /\ g_start_time_ms \in [Node -> Nat]
    /\ wake \in [Node -> Int]
    /\ slept \in [Node -> Nat]
    /\ mark \in [Node -> {<< >>} \cup Reading]

\* What either clock shows at time t, with this origin.
Shown(start, t) == {((t \div Milli) - start) * Milli, t - start * Milli}

GoodMark(n) ==
    mark[n] # << >> =>
        /\ mark[n][1] \in Shown(g_start_time_ms[n], mark[n][2])
        /\ mark[n][2] <= now
        /\ \/ mark[n][2] + slept[n] * Milli <= now
           \/ mark[n][2] + slept[n] * Milli <= wake[n]

ClockInv == ClockTypes /\ \A n \in Node : GoodMark(n)

LEMMA InitClock ==
    ASSUME Init
    PROVE  ClockInv
<1>1. now \in Nat
  BY HalAssumption DEF Init
<1> QED  BY <1>1 DEF Init, ClockInv, ClockTypes, GoodMark

\* A step that leaves a process's clock alone keeps its mark good.
LEMMA MarkKept ==
    ASSUME ClockInv, now' \in Nat, now <= now', NEW n \in Node,
           mark'[n] = mark[n], slept'[n] = slept[n], wake'[n] = wake[n],
           g_start_time_ms'[n] = g_start_time_ms[n]
    PROVE  GoodMark(n)'
<1> SUFFICES ASSUME mark[n] # << >>
             PROVE  /\ mark[n][1] \in Shown(g_start_time_ms[n], mark[n][2])
                    /\ mark[n][2] <= now'
                    /\ \/ mark[n][2] + slept[n] * Milli <= now'
                       \/ mark[n][2] + slept[n] * Milli <= wake[n]
  BY DEF GoodMark, Shown
<1>1. mark[n][2] \in Nat /\ now \in Nat /\ slept[n] \in Nat /\ wake[n] \in Int
  BY DEF ClockInv, ClockTypes, Reading
<1>3. slept[n] * Milli \in Int
  BY <1>1, HalAssumption
<1>2. GoodMark(n)
  BY DEF ClockInv
<1> QED  BY <1>1, <1>2, <1>3 DEF GoodMark

\* Starting the module sets the origin of one process.
LEMMA StartedTypes ==
    ASSUME ClockInv, NEW n \in Node, Started(n) \/ Start(n), now' = now
    PROVE  /\ g_start_time_ms' \in [Node -> Nat]
           /\ \A p \in Node \ {n} : g_start_time_ms'[p] = g_start_time_ms[p]
<1>1. system_time_ms \in Nat
  <2>1. now \in Nat
    BY DEF ClockInv, ClockTypes
  <2>2. now \div Milli \in Nat
    BY <2>1, HalAssumption
  <2> QED  BY <2>2 DEF system_time_ms
<1>2. g_start_time_ms \in [Node -> Nat]
  BY DEF ClockInv, ClockTypes
<1>3. \/ g_start_time_ms' = [g_start_time_ms EXCEPT ![n] = system_time_ms]
      \/ g_start_time_ms' = g_start_time_ms
  BY DEF Started, Start, clockVars
<1> QED  BY <1>1, <1>2, <1>3

\* A reading taken now is a good mark.
LEMMA Noted ==
    ASSUME ClockInv, NEW n \in Node, Started(n), UNCHANGED <<now, wake>>,
           NEW reading \in Shown(g_start_time_ms'[n], now), Note(n, reading)
    PROVE  ClockInv'
<1>1. now \in Nat /\ now' = now /\ wake' = wake
  BY DEF ClockInv, ClockTypes
<1>2. g_start_time_ms' \in [Node -> Nat]
  BY <1>1, StartedTypes
<1>3. reading \in Int
  <2>1. g_start_time_ms'[n] \in Int /\ now \div Milli \in Int
    BY <1>1, <1>2, Floor
  <2>2. g_start_time_ms'[n] * Milli \in Int
    BY <2>1, Distribute
  <2>3. ((now \div Milli) - g_start_time_ms'[n]) * Milli \in Int
    <3> DEFINE k == (now \div Milli) - g_start_time_ms'[n]
    <3>1. k \in Int
      BY <2>1
    <3> HIDE DEF k
    <3>2. k * Milli \in Int
      BY <3>1, HalAssumption
    <3> QED  BY <3>2 DEF k
  <2> QED  BY <1>1, <2>2, <2>3 DEF Shown
<1>4. /\ mark \in [Node -> {<< >>} \cup Reading] /\ slept \in [Node -> Nat]
      /\ wake \in [Node -> Int]
  BY DEF ClockInv, ClockTypes
<1>5. ClockTypes'
  BY <1>1, <1>2, <1>3, <1>4 DEF ClockTypes, Note, Reading
<1>6. ASSUME NEW p \in Node
      PROVE  GoodMark(p)'
  <2>1. CASE p = n
    <3>1. mark'[n] = <<reading, now>> /\ slept'[n] = 0
      BY <1>4 DEF Note
    <3>2. now + 0 * Milli <= now
      BY <1>1, HalAssumption
    <3> QED  BY <1>1, <2>1, <3>1, <3>2 DEF GoodMark, Shown
  <2>2. CASE p # n
    <3>1. mark'[p] = mark[p] /\ slept'[p] = slept[p]
      BY <1>4, <2>2 DEF Note
    <3>2. g_start_time_ms'[p] = g_start_time_ms[p]
      BY <1>1, <2>2, StartedTypes
    <3> QED  BY <1>1, <3>1, <3>2, MarkKept
  <2> QED  BY <2>1, <2>2
<1> QED  BY <1>5, <1>6 DEF ClockInv

LEMMA StepClock ==
    ASSUME ClockInv, [Next]_vars
    PROVE  ClockInv'
<1>0. /\ now \in Nat /\ g_start_time_ms \in [Node -> Nat] /\ wake \in [Node -> Int]
      /\ slept \in [Node -> Nat] /\ mark \in [Node -> {<< >>} \cup Reading]
  BY DEF ClockInv, ClockTypes
<1>1. ASSUME NEW n \in Node, hal_init(n)
      PROVE  ClockInv'
  <2>1. now' = now /\ wake' = wake /\ Start(n)
    BY <1>1 DEF hal_init
  <2>2. ClockTypes'
    BY <1>0, <1>1, <2>1, StartedTypes DEF hal_init, ClockTypes
  <2>3. ASSUME NEW p \in Node
        PROVE  GoodMark(p)'
    <3>1. CASE p = n
      BY <1>0, <1>1, <3>1 DEF hal_init, GoodMark
    <3>2. CASE p # n
      <4>1. mark'[p] = mark[p] /\ slept'[p] = slept[p]
        BY <1>0, <1>1, <3>2 DEF hal_init
      <4>2. g_start_time_ms'[p] = g_start_time_ms[p]
        BY <2>1, <3>2, StartedTypes
      <4> QED  BY <1>0, <2>1, <4>1, <4>2, MarkKept
    <3> QED  BY <3>1, <3>2
  <2> QED  BY <2>2, <2>3 DEF ClockInv
<1>2. ASSUME NEW n \in Node, hal_get_time_ms(n)
      PROVE  ClockInv'
  <2>1. Millis(g_start_time_ms'[n]) * Milli \in Shown(g_start_time_ms'[n], now)
    BY DEF Shown, Millis, system_time_ms
  <2> QED  BY <1>2, <2>1, Noted DEF hal_get_time_ms
<1>3. ASSUME NEW n \in Node, hal_get_time_us(n)
      PROVE  ClockInv'
  <2>1. Micros(g_start_time_ms'[n]) \in Shown(g_start_time_ms'[n], now)
    BY DEF Shown, Micros
  <2> QED  BY <1>3, <2>1, Noted DEF hal_get_time_us
<1>4. ASSUME NEW n \in Node, NEW d \in Delays, hal_delay_ms(n, d)
      PROVE  ClockInv'
  <2>1. d \in Nat /\ d * Milli \in Nat
    BY HalAssumption
  <2>2. /\ wake' = [wake EXCEPT ![n] = now + d * Milli]
        /\ slept' = [slept EXCEPT ![n] = @ + d]
        /\ UNCHANGED <<now, g_start_time_ms, mark>>
    BY <1>4 DEF hal_delay_ms, clockVars
  <2>3. ClockTypes'
    BY <1>0, <2>1, <2>2 DEF ClockTypes
  <2>4. ASSUME NEW p \in Node
        PROVE  GoodMark(p)'
    <3>1. CASE p = n /\ mark[n] # << >>
      <4>1. wake[n] <= now
        BY <1>4 DEF hal_delay_ms, Awake
      <4>2. mark[n][2] \in Nat /\ wake[n] \in Int /\ slept[n] \in Nat
        BY <1>0, <3>1 DEF Reading
      <4>3. slept[n] * Milli \in Int /\ (slept[n] + d) * Milli = slept[n] * Milli + d * Milli
        BY <2>1, <4>2, HalAssumption
      <4>4. /\ mark[n][1] \in Shown(g_start_time_ms[n], mark[n][2]) /\ mark[n][2] <= now
            /\ \/ mark[n][2] + slept[n] * Milli <= now
               \/ mark[n][2] + slept[n] * Milli <= wake[n]
        BY <3>1 DEF ClockInv, GoodMark
      <4>5. mark[n][2] + (slept[n] + d) * Milli <= now + d * Milli
        BY <1>0, <2>1, <4>1, <4>2, <4>3, <4>4
      <4>6. slept'[n] = slept[n] + d /\ wake'[n] = now + d * Milli
        BY <1>0, <2>2
      <4> QED  BY <2>2, <3>1, <4>4, <4>5, <4>6 DEF GoodMark, Shown
    <3>2. CASE p = n /\ mark[n] = << >>
      BY <2>2, <3>2 DEF GoodMark
    <3>3. CASE p # n
      BY <1>0, <2>2, <3>3, MarkKept
    <3> QED  BY <3>1, <3>2, <3>3
  <2> QED  BY <2>3, <2>4 DEF ClockInv
<1>5. ASSUME now' \in Nat, now <= now', UNCHANGED <<g_start_time_ms, wake, slept, mark>>
      PROVE  ClockInv'
  <2>1. ClockTypes'
    BY <1>0, <1>5 DEF ClockTypes
  <2>2. \A n \in Node : GoodMark(n)'
    BY <1>5, MarkKept
  <2> QED  BY <2>1, <2>2 DEF ClockInv
<1>6. ASSUME NEW n \in Node, hal_shutdown(n)
      PROVE  ClockInv'
  BY <1>0, <1>5, <1>6 DEF hal_shutdown
<1>7. ASSUME NEW n \in Node, hal_random_u32(n)
      PROVE  ClockInv'
  BY <1>0, <1>5, <1>7 DEF hal_random_u32, clockVars
<1>8. CASE ClockRuns
  BY <1>0, <1>5, <1>8 DEF ClockRuns, clockVars
<1>9. CASE UNCHANGED vars
  BY <1>0, <1>5, <1>9 DEF vars, clockVars
<1> QED
  BY <1>1, <1>2, <1>3, <1>4, <1>6, <1>7, <1>8, <1>9 DEF Next

LEMMA ClockInvariant == Spec => []ClockInv
<1>1. Init => ClockInv
  BY InitClock
<1>2. ClockInv /\ [Next]_vars => ClockInv'
  BY StepClock
<1> QED  BY <1>1, <1>2, PTL DEF Spec

-----------------------------------------------------------------------------
(* What it gives *)

\* Readings of either clock compare to within a millisecond, for any resolution.
THEOREM ElapsedTimesAreReal == Spec => []ElapsedIsReal
<1>1. ASSUME ClockInv
      PROVE  ElapsedIsReal
  <2> SUFFICES ASSUME NEW n \in Node, mark[n] # << >>,
                      NEW clock \in {Millis(g_start_time_ms[n]) * Milli,
                                     Micros(g_start_time_ms[n])}
               PROVE  /\ -Milli < (clock - mark[n][1]) - (now - mark[n][2])
                      /\ (clock - mark[n][1]) - (now - mark[n][2]) < Milli
    BY DEF ElapsedIsReal
  <2> DEFINE s == g_start_time_ms[n]
             at == mark[n][2]
             f == at \div Milli
             g == now \div Milli
  <2>1. s \in Nat /\ at \in Nat /\ now \in Nat /\ Milli \in Nat \ {0}
    BY <1>1, HalAssumption DEF ClockInv, ClockTypes, Reading
  <2>2. f \in Int /\ f * Milli <= at /\ at < f * Milli + Milli
    BY <2>1, Floor
  <2>3. g \in Int /\ g * Milli <= now /\ now < g * Milli + Milli
    BY <2>1, Floor
  <2>4. /\ (f - s) * Milli = f * Milli - s * Milli
        /\ (g - s) * Milli = g * Milli - s * Milli
        /\ f * Milli \in Int /\ g * Milli \in Int /\ s * Milli \in Int
    <3> HIDE DEF s, f, g
    <3> QED  BY <2>1, <2>2, <2>3
  <2>5. mark[n][1] \in {(f - s) * Milli, at - s * Milli}
    BY <1>1 DEF ClockInv, GoodMark, Shown
  <2>6. clock \in {(g - s) * Milli, now - s * Milli}
    BY DEF Millis, Micros, system_time_ms
  <2> HIDE DEF s, at, f, g
  <2> DEFINE r == mark[n][1]
             sm == s * Milli
             fm == f * Milli
             gm == g * Milli
  <2>7. r \in {fm - sm, at - sm} /\ clock \in {gm - sm, now - sm}
    BY <2>4, <2>5, <2>6
  <2>8. /\ fm \in Int /\ gm \in Int /\ sm \in Int
        /\ fm <= at /\ at < fm + Milli /\ gm <= now /\ now < gm + Milli
    BY <2>2, <2>3, <2>4
  <2>9. -Milli < (clock - r) - (now - at) /\ (clock - r) - (now - at) < Milli
    <3> HIDE DEF r, sm, fm, gm
    <3> QED  BY <2>1, <2>7, <2>8
  <2> QED  BY <2>9 DEF at, r
<1> QED  BY <1>1, ClockInvariant, PTL

\* The millisecond clock shows all of every sleep, for any resolution and delay.
THEOREM AllSleepShows == Spec => []SleepsShow
<1>1. ASSUME ClockInv
      PROVE  SleepsShow
  <2> SUFFICES ASSUME NEW n \in Node, mark[n] # << >>, Awake(n)
               PROVE  Millis(g_start_time_ms[n]) >= mark[n][1] \div Milli + slept[n]
    BY DEF SleepsShow
  <2> DEFINE s == g_start_time_ms[n]
             at == mark[n][2]
             f == at \div Milli
             g == now \div Milli
  <2>1. /\ s \in Nat /\ at \in Nat /\ now \in Nat /\ slept[n] \in Nat
        /\ wake[n] \in Int /\ Milli \in Nat \ {0}
    BY <1>1, HalAssumption DEF ClockInv, ClockTypes, Reading
  <2>2. f \in Int /\ f * Milli <= at /\ at < f * Milli + Milli
    <3>1. at \in Int
      BY <2>1
    <3> HIDE DEF at
    <3> QED  BY <3>1, Floor DEF f
  <2>10. g \in Int
    BY <2>1, Floor
  <2>3. /\ (f - s) * Milli = f * Milli - s * Milli
        /\ (f + slept[n]) * Milli = f * Milli + slept[n] * Milli
        /\ f * Milli \in Int /\ s * Milli \in Int /\ slept[n] * Milli \in Int
    <3> HIDE DEF s, f
    <3> QED  BY <2>1, <2>2
  <2>4. mark[n][1] \in {(f - s) * Milli, at - s * Milli}
    BY <1>1 DEF ClockInv, GoodMark, Shown
  <2>5. at + slept[n] * Milli <= now
    <3>1. wake[n] <= now
      BY DEF Awake
    <3>2. at + slept[n] * Milli <= now \/ at + slept[n] * Milli <= wake[n]
      BY <1>1 DEF ClockInv, GoodMark
    <3> DEFINE sum == at + slept[n] * Milli
    <3>3. sum \in Int
      <4>1. at \in Int /\ slept[n] * Milli \in Int
        BY <2>1, <2>3
      <4> HIDE DEF at
      <4> QED  BY <4>1
    <3>4. sum <= now \/ sum <= wake[n]
      BY <3>2
    <3> HIDE DEF sum
    <3>5. sum <= now
      BY <2>1, <3>1, <3>3, <3>4
    <3> QED  BY <3>5 DEF sum
  <2> HIDE DEF s, at, f, g
  <2>6. mark[n][1] \div Milli = f - s
    <3>1. mark[n][1] \in Int
      BY <2>1, <2>3, <2>4
    <3>2. (f - s) * Milli <= mark[n][1] /\ mark[n][1] < (f - s) * Milli + Milli
      <4> DEFINE fm == f * Milli
                 sm == s * Milli
                 r == mark[n][1]
                 fs == (f - s) * Milli
      <4>1. fm \in Int /\ sm \in Int /\ fs = fm - sm /\ fm <= at /\ at < fm + Milli
        BY <2>2, <2>3
      <4>2. r \in {fs, at - sm}
        BY <2>4
      <4>3. fs <= r /\ r < fs + Milli
        <5> HIDE DEF fm, sm, r, fs
        <5> QED  BY <2>1, <4>1, <4>2
      <4> QED  BY <4>3
    <3>3. f - s \in Int
      BY <2>1, <2>2
    <3> QED  BY <3>1, <3>2, <3>3, WholeIs
  <2>7. f + slept[n] <= g
    <3>1. (f + slept[n]) * Milli <= now
      <4> DEFINE fm == f * Milli
                 lm == slept[n] * Milli
                 both == (f + slept[n]) * Milli
      <4>1. fm \in Int /\ lm \in Int /\ both = fm + lm /\ fm <= at /\ at + lm <= now
        BY <2>2, <2>3, <2>5
      <4>2. both <= now
        <5> HIDE DEF fm, lm, both
        <5> QED  BY <2>1, <4>1
      <4> QED  BY <4>2
    <3>2. f + slept[n] \in Int /\ now \in Int
      BY <2>1, <2>2
    <3> QED  BY <3>1, <3>2, Whole DEF g
  <2>8. Millis(s) = g - s
    BY DEF Millis, system_time_ms, g
  <2>9. g - s >= (f - s) + slept[n]
    BY <2>1, <2>2, <2>7, <2>10
  <2> QED  BY <2>6, <2>8, <2>9 DEF s
<1> QED  BY <1>1, ClockInvariant, PTL

-----------------------------------------------------------------------------
(* Words and the generator *)

LEMMA LeastNumber ==
    ASSUME NEW S \in SUBSET Nat, S # {}
    PROVE  \E x \in S : \A y \in S : x <= y
<1> DEFINE below == {p \in Nat \X Nat : p[1] < p[2]}
<1>1. IsWellFoundedOn(below, Nat)
  BY NatLessThanWellFounded, Zenon DEF OpToRel
<1> HIDE DEF below
<1>2. PICK x \in S : \A y \in S : <<y, x>> \notin below
  BY <1>1, WFMin
<1>3. ASSUME NEW y \in S, ~(x <= y)
      PROVE  FALSE
  <2>1. <<y, x>> \in below
    BY <1>3 DEF below
  <2> QED  BY <1>2, <2>1
<1> QED  BY <1>3

LEMMA GreatestBit ==
    ASSUME NEW S \in SUBSET Bit, S # {}
    PROVE  \E x \in S : \A y \in S : y <= x
<1> DEFINE above == {31 - i : i \in S}
<1>1. above \in SUBSET Nat /\ above # {}
  <2>1. \A i \in S : 31 - i \in Nat
    BY DEF Bit
  <2>2. above \in SUBSET Nat
    BY <2>1
  <2>3. PICK i \in S : TRUE
    OBVIOUS
  <2>4. 31 - i \in above
    OBVIOUS
  <2> QED  BY <2>2, <2>4
<1>2. PICK a \in above : \A b \in above : a <= b
  <2> HIDE DEF above
  <2> QED  BY <1>1, LeastNumber
<1>3. PICK x \in S : a = 31 - x
  OBVIOUS
<1>4. ASSUME NEW y \in S
      PROVE  y <= x
  <2>1. a <= 31 - y
    BY <1>2
  <2> QED  BY <1>3, <2>1 DEF Bit
<1> QED  BY <1>4

\* Exclusive-or with a word shifted to the left loses nothing: the lowest bit in
\* which two words differ is left alone.
LEMMA ShlInjective ==
    ASSUME NEW v \in SUBSET Bit, NEW w \in SUBSET Bit, NEW k \in Nat \ {0},
           SymDiff(v, Shl(v, k)) = SymDiff(w, Shl(w, k))
    PROVE  v = w
<1> SUFFICES ASSUME v # w
             PROVE  FALSE
  OBVIOUS
<1>1. PICK x \in SymDiff(v, w) : \A y \in SymDiff(v, w) : x <= y
  <2>1. SymDiff(v, w) \in SUBSET Nat /\ SymDiff(v, w) # {}
    BY DEF SymDiff, Bit
  <2> QED  BY <2>1, LeastNumber
<1>2. x \in Bit /\ x - k \notin SymDiff(v, w)
  BY <1>1 DEF SymDiff, Bit
<1>3. \A u \in {v, w} : x \in Shl(u, k) <=> x - k \in u
  BY <1>2 DEF Shl, Bit
<1> QED  BY <1>1, <1>2, <1>3 DEF SymDiff

\* To the right, it is the highest bit.
LEMMA ShrInjective ==
    ASSUME NEW v \in SUBSET Bit, NEW w \in SUBSET Bit, NEW k \in Nat \ {0},
           SymDiff(v, Shr(v, k)) = SymDiff(w, Shr(w, k))
    PROVE  v = w
<1> SUFFICES ASSUME v # w
             PROVE  FALSE
  OBVIOUS
<1>1. PICK x \in SymDiff(v, w) : \A y \in SymDiff(v, w) : y <= x
  <2>1. SymDiff(v, w) \in SUBSET Bit /\ SymDiff(v, w) # {}
    BY DEF SymDiff
  <2> QED  BY <2>1, GreatestBit
<1>2. x \in Bit /\ x + k \notin SymDiff(v, w)
  BY <1>1 DEF SymDiff, Bit
<1>3. \A u \in {v, w} : x \in Shr(u, k) <=> x + k \in u
  BY <1>2 DEF Shr, Bit
<1> QED  BY <1>1, <1>2, <1>3 DEF SymDiff

GoodWord == (SUBSET Bit) \ {{}}

\* The three exclusive-ors, before a zero is replaced.
Mixed(w) ==
    LET up   == SymDiff(w, Shl(w, 13))
        down == SymDiff(up, Shr(up, 17))
    IN  SymDiff(down, Shl(down, 5))

LEMMA ShiftedWords ==
    ASSUME NEW w \in SUBSET Bit, NEW k
    PROVE  SymDiff(w, Shl(w, k)) \in SUBSET Bit /\ SymDiff(w, Shr(w, k)) \in SUBSET Bit
BY DEF SymDiff, Shl, Shr

LEMMA MixedInjective ==
    ASSUME NEW v \in SUBSET Bit, NEW w \in SUBSET Bit, Mixed(v) = Mixed(w)
    PROVE  v = w
<1> DEFINE up(x) == SymDiff(x, Shl(x, 13))
           down(x) == SymDiff(up(x), Shr(up(x), 17))
<1>1. /\ up(v) \in SUBSET Bit /\ up(w) \in SUBSET Bit
      /\ down(v) \in SUBSET Bit /\ down(w) \in SUBSET Bit
  BY ShiftedWords
<1>2. SymDiff(down(v), Shl(down(v), 5)) = SymDiff(down(w), Shl(down(w), 5))
  BY DEF Mixed
<1>3. down(v) = down(w)
  <2> HIDE DEF down
  <2> QED  BY <1>1, <1>2, ShlInjective
<1>4. up(v) = up(w)
  <2> HIDE DEF up
  <2> QED  BY <1>1, <1>3, ShrInjective
<1> QED  BY <1>4, ShlInjective

LEMMA MixedWord ==
    ASSUME NEW w \in GoodWord
    PROVE  Mixed(w) \in GoodWord /\ Xorshift(w) = Mixed(w)
<1>1. Mixed(w) \in SUBSET Bit
  BY ShiftedWords DEF Mixed, GoodWord
<1>2. Mixed({}) = {}
  BY DEF Mixed, SymDiff, Shl, Shr
<1>3. Mixed(w) # {}
  BY <1>2, MixedInjective DEF GoodWord
<1>4. Xorshift(w) = NonZero(Mixed(w))
  BY DEF Xorshift, Mixed
<1> QED  BY <1>1, <1>3, <1>4 DEF NonZero, GoodWord

\* The generator's step keeps to words that are not zero and maps no two of them
\* to the same one.
LEMMA XorshiftInjective ==
    /\ \A w \in GoodWord : Xorshift(w) \in GoodWord
    /\ \A v, w \in GoodWord : Xorshift(v) = Xorshift(w) => v = w
<1>1. ASSUME NEW v \in GoodWord, NEW w \in GoodWord, Xorshift(v) = Xorshift(w)
      PROVE  v = w
  <2>1. Mixed(v) = Mixed(w)
    BY <1>1, MixedWord
  <2> QED  BY <2>1, MixedInjective DEF GoodWord
<1> QED  BY <1>1, MixedWord

LEMMA DefaultIsGood == DefaultState \in GoodWord
<1>1. 2^0 = 1
  BY SMT
<1>2. 8 \div 4 = 2 /\ 8 % 4 = 0 /\ (1 \div 1) % 2 = 1
  BY SMT
<1>3. 8 \in DefaultState
  BY <1>1, <1>2 DEF DefaultState, Hex, Bit
<1>4. DefaultState \in SUBSET Bit
  BY DEF DefaultState, Hex
<1> QED  BY <1>3, <1>4 DEF GoodWord

LEMMA SeedIsWord == \A start : Seed(start) \in SUBSET Bit
BY DEF Seed, SymDiff, Word, SeedMask, Hex

\* What hal_init makes of the state.
Seeded(w, start) == NonZero(SymDiff(w, Seed(start)))

LEMMA SeededIsGood ==
    ASSUME NEW w \in GoodWord, NEW start
    PROVE  Seeded(w, start) \in GoodWord
<1>1. SymDiff(w, Seed(start)) \in SUBSET Bit
  BY SeedIsWord DEF SymDiff, GoodWord
<1> QED  BY <1>1, DefaultIsGood DEF Seeded, NonZero, GoodWord

\* Two starts agree on the state they make exactly if they agree on their low bits,
\* unless a seed cancels the state it meets.
LEMMA SeededInjective ==
    ASSUME NEW w \in GoodWord, NEW a, NEW b, w # Seed(a), w # Seed(b)
    PROVE  Seeded(w, a) = Seeded(w, b) <=> Word(a) = Word(b)
<1>1. Seeded(w, a) = SymDiff(w, Seed(a)) /\ Seeded(w, b) = SymDiff(w, Seed(b))
  BY DEF Seeded, NonZero, SymDiff
<1>2. SymDiff(w, Seed(a)) = SymDiff(w, Seed(b)) <=> Seed(a) = Seed(b)
  BY DEF SymDiff
<1>3. Seed(a) = Seed(b) <=> Word(a) = Word(b)
  BY DEF Seed, SymDiff
<1> QED  BY <1>1, <1>2, <1>3

-----------------------------------------------------------------------------
(* Draws: w is what k draws make of v *)

Draws(k, v, w) ==
    \E t \in [0..k -> GoodWord] :
        t[0] = v /\ t[k] = w /\ \A i \in 1..k : t[i] = Xorshift(t[i - 1])

LEMMA NoDraw ==
    ASSUME NEW w \in GoodWord
    PROVE  Draws(0, w, w)
<1> DEFINE t == [i \in 0..0 |-> w]
<1>1. t \in [0..0 -> GoodWord] /\ t[0] = w /\ \A i \in 1..0 : t[i] = Xorshift(t[i - 1])
  OBVIOUS
<1> QED  BY <1>1 DEF Draws

LEMMA OneMoreDraw ==
    ASSUME NEW k \in Nat, NEW v, NEW w, Draws(k, v, w)
    PROVE  Draws(k + 1, v, Xorshift(w))
<1>1. PICK t \in [0..k -> GoodWord] :
        t[0] = v /\ t[k] = w /\ \A i \in 1..k : t[i] = Xorshift(t[i - 1])
  BY DEF Draws
<1> DEFINE u == [i \in 0..(k + 1) |-> IF i \in 0..k THEN t[i] ELSE Xorshift(w)]
<1>2. Xorshift(w) \in GoodWord
  BY <1>1, XorshiftInjective
<1>3. u \in [0..(k + 1) -> GoodWord]
  BY <1>2
<1>4. u[0] = v /\ u[k + 1] = Xorshift(w)
  BY <1>1
<1>5. ASSUME NEW i \in 1..(k + 1)
      PROVE  u[i] = Xorshift(u[i - 1])
  <2>1. CASE i \in 1..k
    BY <1>1, <2>1
  <2>2. CASE i = k + 1
    BY <1>1, <2>2
  <2> QED  BY <2>1, <2>2
<1> HIDE DEF u
<1> QED  BY <1>3, <1>4, <1>5 DEF Draws

\* Equally many draws from the same state end in the same state.
LEMMA SameDraws ==
    ASSUME NEW k \in Nat, NEW v, NEW w, NEW x, Draws(k, v, w), Draws(k, v, x)
    PROVE  w = x
<1>1. PICK t \in [0..k -> GoodWord] :
        t[0] = v /\ t[k] = w /\ \A i \in 1..k : t[i] = Xorshift(t[i - 1])
  BY DEF Draws
<1>2. PICK u \in [0..k -> GoodWord] :
        u[0] = v /\ u[k] = x /\ \A i \in 1..k : u[i] = Xorshift(u[i - 1])
  BY DEF Draws
<1> DEFINE apart == {i \in 0..k : t[i] # u[i]}
<1>3. ASSUME apart # {}
      PROVE  FALSE
  <2>1. PICK i \in apart : \A j \in apart : i <= j
    <3>1. apart \in SUBSET Nat
      OBVIOUS
    <3> HIDE DEF apart
    <3> QED  BY <1>3, <3>1, LeastNumber
  <2>2. i \in 1..k /\ i - 1 \in 0..k
    BY <1>1, <1>2, <2>1
  <2>3. t[i - 1] = u[i - 1]
    BY <2>1, <2>2
  <2> QED  BY <1>1, <1>2, <2>1, <2>2, <2>3
<1> QED  BY <1>1, <1>2, <1>3

\* And only those do.
LEMMA DrawsInjective ==
    ASSUME NEW k \in Nat, NEW v, NEW x, NEW w, Draws(k, v, w), Draws(k, x, w)
    PROVE  v = x
<1>1. PICK t \in [0..k -> GoodWord] :
        t[0] = v /\ t[k] = w /\ \A i \in 1..k : t[i] = Xorshift(t[i - 1])
  BY DEF Draws
<1>2. PICK u \in [0..k -> GoodWord] :
        u[0] = x /\ u[k] = w /\ \A i \in 1..k : u[i] = Xorshift(u[i - 1])
  BY DEF Draws
<1> DEFINE apart == {i \in 0..k : t[k - i] # u[k - i]}
<1>3. ASSUME apart # {}
      PROVE  FALSE
  <2>1. PICK i \in apart : \A j \in apart : i <= j
    <3>1. apart \in SUBSET Nat
      OBVIOUS
    <3> HIDE DEF apart
    <3> QED  BY <1>3, <3>1, LeastNumber
  <2>2. i \in 1..k /\ i - 1 \in 0..k
    BY <1>1, <1>2, <2>1
  <2>3. t[k - (i - 1)] = u[k - (i - 1)]
    BY <2>1, <2>2
  <2> DEFINE j == k - i
  <2>4. j \in 0..k /\ j + 1 \in 1..k /\ k - (i - 1) = j + 1 /\ (j + 1) - 1 = j
    BY <2>2
  <2>5. Xorshift(t[j]) = Xorshift(u[j])
    BY <1>1, <1>2, <2>3, <2>4
  <2>6. t[j] = u[j]
    BY <2>4, <2>5, XorshiftInjective
  <2> QED  BY <2>1, <2>6
<1>4. k \in 0..k /\ k - k = 0
  OBVIOUS
<1>5. k \notin apart
  <2> HIDE DEF apart
  <2> QED  BY <1>3
<1>6. t[k - k] = u[k - k]
  BY <1>4, <1>5
<1> QED  BY <1>1, <1>2, <1>4, <1>6

LEMMA DrawsAreGood ==
    ASSUME NEW k \in Nat, NEW v, NEW w, Draws(k, v, w)
    PROVE  v \in GoodWord /\ w \in GoodWord
BY DEF Draws

-----------------------------------------------------------------------------
(* The state of each generator comes from the default by draws, from the default *)
(* seed by seed once the module has started.                                     *)

\* An origin, draws, and whether the seed cancelled the state.
InitRecord == Nat \X Nat \X BOOLEAN

GenTypes ==
    /\ draws \in [Node -> Nat]
    /\ inits \in [Node -> Seq(InitRecord)]

\* w is the state the first start of n met.
StartedFrom(n, w) ==
    LET first == inits[n][1]
    IN  /\ first[2] <= draws[n]
        /\ Draws(first[2], DefaultState, w)
        /\ first[3] <=> w = Seed(first[1])
        /\ Draws(draws[n] - first[2], Seeded(w, first[1]), g_rng_state[n])

Drawn(n) ==
    /\ inits[n] = << >> => Draws(draws[n], DefaultState, g_rng_state[n])
    /\ Len(inits[n]) = 1 => \E w \in GoodWord : StartedFrom(n, w)

HalInv == HalTypeOK /\ GenTypes /\ \A n \in Node : Drawn(n)

LEMMA InitHal ==
    ASSUME Init
    PROVE  HalInv
<1>1. HalTypeOK
  <2>1. now \in Nat
    BY HalAssumption DEF Init
  <2> QED  BY <2>1, DefaultIsGood DEF Init, HalTypeOK, GoodWord
<1>2. GenTypes
  BY DEF Init, GenTypes
<1>3. ASSUME NEW n \in Node
      PROVE  Drawn(n)
  <2>1. inits[n] = << >> /\ draws[n] = 0 /\ g_rng_state[n] = DefaultState
    BY DEF Init
  <2>2. Draws(0, DefaultState, DefaultState)
    BY NoDraw, DefaultIsGood
  <2>3. Len(inits[n]) # 1
    BY <2>1
  <2> QED  BY <2>1, <2>2, <2>3 DEF Drawn
<1> QED  BY <1>1, <1>2, <1>3 DEF HalInv

\* A process whose generator and starts stay keeps what is known of them.
LEMMA DrawnKept ==
    ASSUME NEW n \in Node, Drawn(n), draws'[n] = draws[n], inits'[n] = inits[n],
           g_rng_state'[n] = g_rng_state[n]
    PROVE  Drawn(n)'
BY DEF Drawn, StartedFrom

LEMMA StartKeepsHal ==
    ASSUME HalInv, NEW n \in Node, Start(n), UNCHANGED <<now, wake>>
    PROVE  HalInv'
<1>0. g_rng_state[n] \in GoodWord /\ system_time_ms \in Nat
  <2>1. now \in Nat
    BY DEF HalInv, HalTypeOK
  <2>2. now \div Milli \in Nat
    BY <2>1, HalAssumption
  <2> QED  BY <2>2 DEF HalInv, HalTypeOK, GoodWord, system_time_ms
<1>1. PICK w \in GoodWord, s \in Nat : w = g_rng_state[n] /\ s = system_time_ms
  BY <1>0
<1>10. draws[n] \in Nat /\ inits[n] \in Seq(InitRecord)
  BY DEF HalInv, GenTypes
<1> DEFINE first == <<s, draws[n], w = Seed(s)>>
<1>2. /\ g_initialized' = [g_initialized EXCEPT ![n] = TRUE]
      /\ g_start_time_ms' = [g_start_time_ms EXCEPT ![n] = s]
      /\ g_rng_state' = [g_rng_state EXCEPT ![n] = Seeded(w, s)]
      /\ inits' = [inits EXCEPT ![n] = Append(inits[n], first)]
      /\ draws' = draws
  BY <1>1 DEF Start, Seeded
<1>3. Seeded(w, s) \in GoodWord /\ first \in InitRecord
  BY <1>10, SeededIsGood DEF InitRecord
<1> HIDE DEF first
<1>4. HalTypeOK'
  BY <1>1, <1>2, <1>3 DEF HalInv, HalTypeOK, GoodWord
<1>5. GenTypes'
  BY <1>10, <1>2, <1>3 DEF HalInv, GenTypes
<1>6. Drawn(n)'
  <2>1. /\ inits'[n] = Append(inits[n], first) /\ draws'[n] = draws[n]
        /\ g_rng_state'[n] = Seeded(w, s)
    BY <1>2 DEF HalInv, GenTypes, HalTypeOK
  <2>2. inits'[n] # << >>
    BY <1>10, <1>3, <2>1
  <2>3. ASSUME Len(inits'[n]) = 1
        PROVE  StartedFrom(n, w)'
    <3>1. inits[n] = << >>
      BY <1>10, <1>3, <2>1, <2>3
    <3>2. inits'[n][1] = first
      BY <2>1, <3>1
    <3>3. Draws(draws[n], DefaultState, w)
      BY <1>1, <3>1 DEF HalInv, Drawn
    <3>4. Draws(0, Seeded(w, s), Seeded(w, s))
      BY <1>3, NoDraw
    <3>5. first[1] = s /\ first[2] = draws[n] /\ (first[3] <=> w = Seed(s))
      BY DEF first
    <3>6. draws'[n] - first[2] = 0 /\ first[2] <= draws'[n]
      BY <1>10, <2>1, <3>5
    <3> QED  BY <2>1, <3>2, <3>3, <3>4, <3>5, <3>6 DEF StartedFrom
  <2>5. Len(inits'[n]) = 1 => \E v \in GoodWord : StartedFrom(n, v)'
    BY <2>3
  <2> QED  BY <2>2, <2>5 DEF Drawn
<1>7. ASSUME NEW p \in Node \ {n}
      PROVE  Drawn(p)'
  <2>1. draws'[p] = draws[p] /\ inits'[p] = inits[p] /\ g_rng_state'[p] = g_rng_state[p]
    BY <1>2 DEF HalInv, GenTypes, HalTypeOK
  <2> QED  BY <2>1, DrawnKept DEF HalInv
<1> QED  BY <1>4, <1>5, <1>6, <1>7 DEF HalInv

LEMMA DrawKeepsHal ==
    ASSUME HalInv, NEW n \in Node, hal_random_u32(n)
    PROVE  HalInv'
<1> DEFINE w == g_rng_state[n]
<1>1. w \in GoodWord /\ draws[n] \in Nat /\ inits[n] \in Seq(InitRecord)
  BY DEF HalInv, HalTypeOK, GenTypes, GoodWord
<1>2. /\ g_rng_state' = [g_rng_state EXCEPT ![n] = Xorshift(w)]
      /\ draws' = [draws EXCEPT ![n] = draws[n] + 1]
      /\ UNCHANGED <<now, g_initialized, g_start_time_ms, inits, wake>>
  BY DEF hal_random_u32, clockVars
<1>3. Xorshift(w) \in GoodWord
  BY <1>1, XorshiftInjective
<1>4. HalTypeOK'
  <2> HIDE DEF w
  <2> QED  BY <1>2, <1>3 DEF HalInv, HalTypeOK, GoodWord
<1>5. GenTypes'
  BY <1>1, <1>2 DEF HalInv, GenTypes
<1>6. /\ inits'[n] = inits[n] /\ draws'[n] = draws[n] + 1
      /\ g_rng_state'[n] = Xorshift(w)
  BY <1>2 DEF HalInv, GenTypes, HalTypeOK
<1>7. Drawn(n)'
  <2>1. ASSUME inits[n] = << >>
        PROVE  Draws(draws[n] + 1, DefaultState, Xorshift(w))
    BY <1>1, <2>1, OneMoreDraw DEF HalInv, Drawn
  <2>2. ASSUME Len(inits[n]) = 1, NEW v \in GoodWord, StartedFrom(n, v)
        PROVE  StartedFrom(n, v)'
    <3> DEFINE first == inits[n][1]
               later == draws[n] - first[2]
    <3>1. first[2] \in Nat /\ first[2] <= draws[n] /\ later \in Nat
      BY <1>1, <2>2 DEF StartedFrom, InitRecord
    <3>2. Draws(later, Seeded(v, first[1]), w)
      BY <2>2 DEF StartedFrom
    <3>3. Draws(later + 1, Seeded(v, first[1]), Xorshift(w))
      <4> HIDE DEF later, w
      <4> QED  BY <3>1, <3>2, OneMoreDraw
    <3>4. (draws[n] + 1) - first[2] = later + 1 /\ first[2] <= draws[n] + 1
      BY <1>1, <3>1
    <3>5. /\ Draws(first[2], DefaultState, v)
          /\ first[3] <=> v = Seed(first[1])
      BY <2>2 DEF StartedFrom
    <3> QED  BY <1>6, <3>3, <3>4, <3>5 DEF StartedFrom
  <2>3. Drawn(n)
    BY DEF HalInv
  <2> HIDE DEF w
  <2>4. inits'[n] = << >> => Draws(draws'[n], DefaultState, g_rng_state'[n])
    BY <1>6, <2>1
  <2>5. Len(inits'[n]) = 1 => \E v \in GoodWord : StartedFrom(n, v)'
    BY <1>6, <2>2, <2>3 DEF Drawn
  <2> QED  BY <2>4, <2>5 DEF Drawn
<1>8. ASSUME NEW p \in Node \ {n}
      PROVE  Drawn(p)'
  <2>1. draws'[p] = draws[p] /\ inits'[p] = inits[p] /\ g_rng_state'[p] = g_rng_state[p]
    BY <1>2 DEF HalInv, GenTypes, HalTypeOK
  <2> QED  BY <2>1, DrawnKept DEF HalInv
<1> QED  BY <1>4, <1>5, <1>7, <1>8 DEF HalInv

LEMMA StepHal ==
    ASSUME HalInv, [Next]_vars
    PROVE  HalInv'
<1>0. now \in Nat /\ g_initialized \in [Node -> BOOLEAN] /\ wake \in [Node -> Nat]
  BY DEF HalInv, HalTypeOK
<1>1. ASSUME now' \in Nat, g_initialized' \in [Node -> BOOLEAN], wake' \in [Node -> Nat],
             UNCHANGED <<g_start_time_ms, inits, genVars>>
      PROVE  HalInv'
  <2>1. UNCHANGED <<g_start_time_ms, inits, g_rng_state, draws>>
    BY <1>1 DEF genVars
  <2>2. HalTypeOK' /\ GenTypes'
    BY <1>1, <2>1 DEF HalInv, HalTypeOK, GenTypes
  <2>3. \A n \in Node : Drawn(n)'
    BY <2>1, DrawnKept DEF HalInv
  <2> QED  BY <2>2, <2>3 DEF HalInv
<1>2. ASSUME NEW n \in Node, hal_init(n)
      PROVE  HalInv'
  BY <1>2, StartKeepsHal DEF hal_init
<1>3. ASSUME NEW n \in Node, Started(n), UNCHANGED <<now, wake>>
      PROVE  HalInv'
  <2>1. CASE Start(n)
    BY <1>3, <2>1, StartKeepsHal
  <2>2. CASE UNCHANGED <<clockVars, genVars>>
    BY <1>0, <1>1, <1>3, <2>2 DEF clockVars
  <2> QED  BY <1>3, <2>1, <2>2 DEF Started
<1>4. ASSUME NEW n \in Node, hal_get_time_ms(n) \/ hal_get_time_us(n)
      PROVE  HalInv'
  BY <1>3, <1>4 DEF hal_get_time_ms, hal_get_time_us
<1>5. ASSUME NEW n \in Node, hal_shutdown(n)
      PROVE  HalInv'
  BY <1>0, <1>1, <1>5 DEF hal_shutdown
<1>6. ASSUME NEW n \in Node, NEW d \in Delays, hal_delay_ms(n, d)
      PROVE  HalInv'
  <2>1. now + d * Milli \in Nat
    <3>1. d \in Nat /\ Milli \in Nat
      BY HalAssumption
    <3>2. d * Milli \in Nat
      BY <3>1
    <3> QED  BY <1>0, <3>2
  <2>2. wake' = [wake EXCEPT ![n] = now + d * Milli] /\ UNCHANGED <<now, clockVars, genVars>>
    BY <1>6 DEF hal_delay_ms
  <2> QED  BY <1>0, <1>1, <2>1, <2>2 DEF clockVars
<1>7. ASSUME NEW n \in Node, hal_random_u32(n)
      PROVE  HalInv'
  BY <1>7, DrawKeepsHal
<1>8. CASE ClockRuns
  BY <1>0, <1>1, <1>8 DEF ClockRuns, clockVars
<1>9. CASE UNCHANGED vars
  BY <1>0, <1>1, <1>9 DEF vars, clockVars
<1> QED
  BY <1>2, <1>4, <1>5, <1>6, <1>7, <1>8, <1>9 DEF Next

LEMMA HalInvariant == Spec => []HalInv
<1>1. Init => HalInv
  BY InitHal
<1>2. HalInv /\ [Next]_vars => HalInv'
  BY StepHal
<1> QED  BY <1>1, <1>2, PTL DEF Spec

\* The generator never gets stuck at zero, however it is seeded and as often as
\* numbers are drawn, and every variable keeps its type.
THEOREM HalTypeCorrect == Spec => []HalTypeOK
<1>1. HalInv => HalTypeOK
  BY DEF HalInv
<1> QED  BY <1>1, HalInvariant, PTL

\* After equally many draws two generators agree exactly if they were seeded alike,
\* for any number of draws, before the start and after.
THEOREM StartsAreSetApart == Spec => []StartsSetApart
<1>1. ASSUME HalInv
      PROVE  StartsSetApart
  <2> SUFFICES ASSUME NEW n \in Node, NEW p \in Node,
                      Len(inits[n]) = 1, Len(inits[p]) = 1,
                      draws[n] = draws[p], inits[n][1][2] = inits[p][1][2],
                      ~inits[n][1][3], ~inits[p][1][3]
               PROVE  g_rng_state[n] = g_rng_state[p] <=> Word(inits[n][1][1]) = Word(inits[p][1][1])
    BY DEF StartsSetApart
  <2>1. PICK v \in GoodWord : StartedFrom(n, v)
    BY <1>1 DEF HalInv, Drawn
  <2>2. PICK w \in GoodWord : StartedFrom(p, w)
    BY <1>1 DEF HalInv, Drawn
  <2> DEFINE before == inits[n][1][2]
             later == draws[n] - before
             a == inits[n][1][1]
             b == inits[p][1][1]
  <2>3. before \in Nat /\ draws[n] \in Nat /\ before <= draws[n]
    <3>1. draws[n] \in Nat /\ inits[n] \in Seq(InitRecord)
      BY <1>1 DEF HalInv, GenTypes
    <3>2. inits[n][1] \in InitRecord
      BY <3>1
    <3> QED  BY <2>1, <3>1, <3>2 DEF StartedFrom, InitRecord
  <2>4. later \in Nat
    BY <2>3
  <2>5. v = w
    <3>1. Draws(before, DefaultState, v) /\ Draws(before, DefaultState, w)
      BY <2>1, <2>2 DEF StartedFrom
    <3> HIDE DEF before
    <3> QED  BY <2>3, <3>1, SameDraws
  <2>6. /\ Draws(later, Seeded(v, a), g_rng_state[n])
        /\ Draws(later, Seeded(v, b), g_rng_state[p])
    BY <2>1, <2>2, <2>5 DEF StartedFrom
  <2>7. v # Seed(a) /\ v # Seed(b)
    BY <2>1, <2>2, <2>5 DEF StartedFrom
  <2> HIDE DEF later, a, b
  <2>8. Seeded(v, a) = Seeded(v, b) => g_rng_state[n] = g_rng_state[p]
    BY <2>4, <2>6, SameDraws
  <2>9. g_rng_state[n] = g_rng_state[p] => Seeded(v, a) = Seeded(v, b)
    BY <2>4, <2>6, DrawsInjective
  <2> QED  BY <2>7, <2>8, <2>9, SeededInjective DEF a, b
<1> QED  BY <1>1, HalInvariant, PTL

-----------------------------------------------------------------------------
(* What Word keeps of a number *)

\* h halves x again and again, as Word does.
Halves(x, h) == h = [i \in Bit |-> IF i = 0 THEN x ELSE h[i - 1] \div 2]

LEMMA HalvesExist ==
    ASSUME NEW x \in Nat
    PROVE  \E h \in [Bit -> Nat] : Halves(x, h)
<1> DEFINE upto(k, h) == \A i \in 0..k : h[i] = IF i = 0 THEN x ELSE h[i - 1] \div 2
           missing == {k \in Bit : ~ \E h \in [Bit -> Nat] : upto(k, h)}
<1>1. ASSUME missing # {}
      PROVE  FALSE
  <2>1. PICK k \in missing : \A j \in missing : k <= j
    <3>1. missing \in SUBSET Nat
      BY DEF Bit
    <3> HIDE DEF missing
    <3> QED  BY <1>1, <3>1, LeastNumber
  <2>2. k # 0
    <3>1. upto(0, [i \in Bit |-> x])
      BY DEF Bit
    <3>2. [i \in Bit |-> x] \in [Bit -> Nat]
      OBVIOUS
    <3> HIDE DEF upto
    <3> QED  BY <2>1, <3>1, <3>2
  <2>3. PICK h \in [Bit -> Nat] : upto(k - 1, h)
    <3>1. k - 1 \in Bit /\ k - 1 \notin missing
      <4>1. k \in Bit
        BY <2>1
      <4> HIDE DEF missing
      <4> QED  BY <2>1, <2>2, <4>1 DEF Bit
    <3> HIDE DEF upto
    <3> QED  BY <3>1
  <2> DEFINE g == [h EXCEPT ![k] = h[k - 1] \div 2]
  <2>4. k \in Bit /\ h[k - 1] \div 2 \in Nat
    BY <2>1, <2>2 DEF Bit
  <2>5. g \in [Bit -> Nat]
    BY <2>4
  <2>6. \A i \in Bit \ {k} : g[i] = h[i]
    BY <2>4
  <2>7. g[k] = h[k - 1] \div 2
    BY <2>4
  <2> HIDE DEF g
  <2>8. upto(k, g)
    BY <2>2, <2>3, <2>4, <2>6, <2>7 DEF Bit
  <2> HIDE DEF upto
  <2> QED  BY <2>1, <2>5, <2>8
<1>2. PICK h \in [Bit -> Nat] : upto(31, h)
  <2>1. 31 \in Bit /\ 31 \notin missing
    <3>1. 31 \in Bit
      BY DEF Bit
    <3> HIDE DEF missing
    <3> QED  BY <1>1, <3>1
  <2> HIDE DEF upto
  <2> QED  BY <2>1
<1>3. h = [i \in Bit |-> h[i]] /\ \A i \in Bit : h[i] = IF i = 0 THEN x ELSE h[i - 1] \div 2
  BY <1>2 DEF Bit
<1>4. Halves(x, h)
  BY <1>3 DEF Halves
<1> QED  BY <1>4

\* The bits of a word are the parities met on the way.
LEMMA WordByHalves ==
    ASSUME NEW x \in Nat
    PROVE  \E h \in [Bit -> Nat] :
              /\ Word(x) = {i \in Bit : h[i] % 2 = 1}
              /\ h[0] = x
              /\ \A i \in 1..31 : h[i] = h[i - 1] \div 2
<1> DEFINE half == CHOOSE h : Halves(x, h)
<1>1. PICK g \in [Bit -> Nat] : Halves(x, g)
  BY HalvesExist
<1>2. Halves(x, half)
  BY <1>1
<1>3. Word(x) = {i \in Bit : half[i] % 2 = 1}
  BY DEF Word, Halves
<1> HIDE DEF half
<1>4. \A i \in Bit : half[i] = IF i = 0 THEN x ELSE half[i - 1] \div 2
  BY <1>2 DEF Halves
<1>5. \A i \in Bit : g[i] = IF i = 0 THEN x ELSE g[i - 1] \div 2
  BY <1>1 DEF Halves
<1> DEFINE apart == {i \in Bit : half[i] # g[i]}
<1>6. ASSUME apart # {}
      PROVE  FALSE
  <2>1. PICK i \in apart : \A j \in apart : i <= j
    <3>1. apart \in SUBSET Nat
      BY DEF Bit
    <3> HIDE DEF apart
    <3> QED  BY <1>6, <3>1, LeastNumber
  <2>2. i \in Bit /\ half[i] # g[i]
    BY <2>1
  <2>3. i # 0
    BY <1>4, <1>5, <2>2
  <2>4. half[i - 1] = g[i - 1]
    <3>1. i - 1 \in Bit /\ i - 1 \notin apart
      <4> HIDE DEF apart
      <4> QED  BY <2>1, <2>2, <2>3 DEF Bit
    <3> QED  BY <3>1
  <2> QED  BY <1>4, <1>5, <2>2, <2>3, <2>4
<1>7. \A i \in Bit : half[i] = g[i]
  BY <1>6
<1>8. g[0] = x /\ \A i \in 1..31 : g[i] = g[i - 1] \div 2
  BY <1>5 DEF Bit
<1>9. Word(x) = {i \in Bit : g[i] % 2 = 1}
  BY <1>3, <1>7
<1> QED  BY <1>8, <1>9

\* One more than the largest uint32_t.
WordLimit == 4294967296

LEMMA HalvesGetSmall ==
    ASSUME NEW h \in [Bit -> Nat], h[0] < WordLimit,
           \A i \in 1..31 : h[i] = h[i - 1] \div 2
    PROVE  h[31] < 2
<1>1. \A i \in 0..27 : LET a == h[i] IN h[i + 4] = (((a \div 2) \div 2) \div 2) \div 2
  OBVIOUS
<1>2. ASSUME NEW i \in 0..27, NEW b \in Nat, h[i] < 16 * b
      PROVE  h[i + 4] < b
  <2>1. h[i] \in Nat
    BY DEF Bit
  <2> QED  BY <1>1, <1>2, <2>1
<1>3. h[4] < 268435456
  BY <1>2 DEF WordLimit
<1>4. h[8] < 16777216
  BY <1>2, <1>3
<1>5. h[12] < 1048576
  BY <1>2, <1>4
<1>6. h[16] < 65536
  BY <1>2, <1>5
<1>7. h[20] < 4096
  BY <1>2, <1>6
<1>8. h[24] < 256
  BY <1>2, <1>7
<1>9. h[28] < 16
  BY <1>2, <1>8
<1>10. h[29] = h[28] \div 2 /\ h[30] = h[29] \div 2 /\ h[31] = h[30] \div 2 /\ h[28] \in Nat
  BY DEF Bit
<1> QED  BY <1>9, <1>10

\* Numbers below 2^32 have words of their own: within 49 days the low bits of two
\* start times differ exactly if the times do.
THEOREM WordsTellNumbersApart ==
    ASSUME NEW x \in Nat, x < WordLimit, NEW y \in Nat, y < WordLimit, Word(x) = Word(y)
    PROVE  x = y
<1>1. PICK f \in [Bit -> Nat] :
        Word(x) = {i \in Bit : f[i] % 2 = 1} /\ f[0] = x /\ \A i \in 1..31 : f[i] = f[i - 1] \div 2
  BY WordByHalves
<1>2. PICK g \in [Bit -> Nat] :
        Word(y) = {i \in Bit : g[i] % 2 = 1} /\ g[0] = y /\ \A i \in 1..31 : g[i] = g[i - 1] \div 2
  BY WordByHalves
<1>3. f[31] < 2 /\ g[31] < 2
  BY <1>1, <1>2, HalvesGetSmall
<1>4. \A i \in Bit : f[i] % 2 = g[i] % 2
  <2>1. \A i \in Bit : f[i] \in Nat /\ g[i] \in Nat
    OBVIOUS
  <2>2. \A i \in Bit : f[i] % 2 = 1 <=> g[i] % 2 = 1
    BY <1>1, <1>2
  <2> QED  BY <2>1, <2>2
<1> DEFINE apart == {i \in Bit : f[31 - i] # g[31 - i]}
<1>5. ASSUME apart # {}
      PROVE  FALSE
  <2>1. PICK i \in apart : \A j \in apart : i <= j
    <3>1. apart \in SUBSET Nat
      BY DEF Bit
    <3> HIDE DEF apart
    <3> QED  BY <1>5, <3>1, LeastNumber
  <2> DEFINE k == 31 - i
  <2>2. k \in Bit /\ i \in Bit /\ f[k] # g[k]
    BY <2>1 DEF Bit
  <2>3. k # 31
    <3>1. f[31] \in Nat /\ g[31] \in Nat /\ f[31] % 2 = g[31] % 2
      BY <1>4 DEF Bit
    <3>2. f[31] = g[31]
      BY <1>3, <3>1
    <3> QED  BY <2>2, <3>2
  <2>4. k + 1 \in 1..31 /\ f[k + 1] = g[k + 1]
    <3>1. i - 1 \in Bit /\ 31 - (i - 1) = k + 1 /\ k + 1 \in 1..31
      BY <2>2, <2>3 DEF Bit
    <3>2. i - 1 \notin apart
      <4> HIDE DEF apart, k
      <4> QED  BY <2>1, <2>2, <3>1 DEF Bit
    <3> QED  BY <3>1, <3>2
  <2>5. f[k + 1] = f[k] \div 2 /\ g[k + 1] = g[k] \div 2
    <3> HIDE DEF k
    <3>1. (k + 1) - 1 = k
      BY <2>2 DEF Bit
    <3> QED  BY <1>1, <1>2, <2>4, <3>1
  <2>6. f[k] \in Nat /\ g[k] \in Nat /\ f[k] % 2 = g[k] % 2
    <3> HIDE DEF k
    <3> QED  BY <1>4, <2>2
  <2>7. f[k] = g[k]
    <3> DEFINE fk == f[k]
               gk == g[k]
    <3>1. fk \in Nat /\ gk \in Nat /\ fk % 2 = gk % 2 /\ fk \div 2 = gk \div 2
      BY <2>4, <2>5, <2>6
    <3> HIDE DEF fk, gk
    <3>2. fk = gk
      BY <3>1
    <3> QED  BY <3>2 DEF fk, gk
  <2> QED  BY <2>2, <2>7
<1>6. 31 \in Bit /\ 31 \notin apart
  <2>1. 31 \in Bit
    BY DEF Bit
  <2> HIDE DEF apart
  <2> QED  BY <1>5, <2>1
<1>7. f[0] = g[0]
  BY <1>6
<1>8. f[0] = x /\ g[0] = y
  BY <1>1, <1>2
<1> HIDE DEF apart
<1> QED  BY <1>7, <1>8

=============================================================================
