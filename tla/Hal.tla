--------------------------------- MODULE Hal ---------------------------------
(***************************************************************************)
(* core/hal.c in several processes of one machine: the clock, the sleep    *)
(* and the xorshift generator.  The processes share CLOCK_MONOTONIC and    *)
(* nothing else.  A 32-bit word is the set of its one bits.                *)
(***************************************************************************)
EXTENDS Integers, Sequences, FiniteSetsExt

CONSTANTS
    Node,
    Milli,       \* clock readings in a millisecond, 1000 for microseconds
    MaxNow,      \* BOUND: the clock stops here
    MaxDraws,    \* BOUND: random numbers a process draws
    MaxInits,    \* BOUND: how often a process runs hal_init past its first test
    Delays       \* the sleeps, in milliseconds

ASSUME HalAssumption ==
    /\ Milli \in Nat \ {0} /\ MaxNow \in Nat /\ MaxDraws \in Nat /\ MaxInits \in Nat \ {0}
    /\ Delays \subseteq Nat

VARIABLES
    now,              \* CLOCK_MONOTONIC in microseconds
    g_initialized,
    g_start_time_ms,
    g_rng_state,
    wake,             \* when the process returns from nanosleep
    draws,            \* history: how many random numbers a process drew
    inits,            \* history: of each hal_init its origin, the draws before it, and
                      \* whether its seed cancelled the state
    mark,             \* history: the last reading since then, and when it was taken
    slept             \* history: the milliseconds a process has slept since then

genVars   == <<g_rng_state, draws>>
clockVars == <<g_initialized, g_start_time_ms, inits>>
vars == <<now, clockVars, genVars, wake, mark, slept>>

-----------------------------------------------------------------------------
(* Words *)

Bit == 0..31

\* A word from its hexadecimal digits.
Hex(digit) == {i \in Bit : (digit[8 - i \div 4] \div 2^(i % 4)) % 2 = 1}

DefaultState == Hex(<<10, 3, 4, 1, 3, 1, 6, 12>>)
SeedMask     == Hex(<<7, 15, 4, 10, 7, 12, 1, 5>>)

\* The low 32 bits of a number.
Word(x) ==
    LET half[i \in Bit] == IF i = 0 THEN x ELSE half[i - 1] \div 2
    IN  {i \in Bit : half[i] % 2 = 1}

Bug_ShiftWide(w, k) == {i + k : i \in w}

Shl(w, k) == {i + k : i \in w} \cap Bit
Shr(w, k) == {i - k : i \in w} \cap Bit

NonZero(w) == IF w = {} THEN DefaultState ELSE w

Xorshift(w) ==
    LET up   == SymDiff(w, Shl(w, 13))
        down == SymDiff(up, Shr(up, 17))
    IN  NonZero(SymDiff(down, Shl(down, 5)))

Bug_CoarseSeed(start) == SymDiff(Word(start \div 2), SeedMask)

Seed(start) == SymDiff(Word(start), SeedMask)

-----------------------------------------------------------------------------
Awake(n) == wake[n] <= now

system_time_ms == now \div Milli

Init ==
    /\ now \in 0..(Milli - 1)
    /\ g_initialized = [n \in Node |-> FALSE]
    /\ g_start_time_ms = [n \in Node |-> 0]
    /\ g_rng_state = [n \in Node |-> DefaultState]
    /\ wake = [n \in Node |-> 0]
    /\ draws = [n \in Node |-> 0]
    /\ inits = [n \in Node |-> << >>]
    /\ mark = [n \in Node |-> << >>]
    /\ slept = [n \in Node |-> 0]

\* What hal_init does the first time, and again after hal_shutdown.  Readings
\* from before no longer compare with later ones.
Start(n) ==
    /\ ~g_initialized[n]
    /\ g_initialized' = [g_initialized EXCEPT ![n] = TRUE]
    /\ g_start_time_ms' = [g_start_time_ms EXCEPT ![n] = system_time_ms]
    /\ g_rng_state' =
         [g_rng_state EXCEPT ![n] = NonZero(SymDiff(@, Seed(system_time_ms)))]
    /\ inits' =
         [inits EXCEPT ![n] =
            Append(@, <<system_time_ms, draws[n], g_rng_state[n] = Seed(system_time_ms)>>)]
    /\ UNCHANGED draws

hal_init(n) ==
    /\ Awake(n)
    /\ Start(n)
    /\ mark' = [mark EXCEPT ![n] = << >>]
    /\ slept' = [slept EXCEPT ![n] = 0]
    /\ UNCHANGED <<now, wake>>

\* The state of the generator stays.
hal_shutdown(n) ==
    /\ Awake(n)
    /\ g_initialized[n]
    /\ Len(inits[n]) < MaxInits
    /\ g_initialized' = [g_initialized EXCEPT ![n] = FALSE]
    /\ UNCHANGED <<now, g_start_time_ms, inits, genVars, wake, mark, slept>>

\* The clock calls start the module if nobody has.
Started(n) ==
    \/ Start(n)
    \/ g_initialized[n] /\ UNCHANGED <<clockVars, genVars>>

Bug_MicrosFromNow(start) == now - start

\* What the two calls return with this origin.
Millis(start) == system_time_ms - start
Micros(start) == now - start * Milli

Note(n, reading) ==
    /\ mark' = [mark EXCEPT ![n] = <<reading, now>>]
    /\ slept' = [slept EXCEPT ![n] = 0]

hal_get_time_ms(n) ==
    /\ Awake(n)
    /\ Started(n)
    /\ Note(n, Millis(g_start_time_ms'[n]) * Milli)
    /\ UNCHANGED <<now, wake>>

hal_get_time_us(n) ==
    /\ Awake(n)
    /\ Started(n)
    /\ Note(n, Micros(g_start_time_ms'[n]))
    /\ UNCHANGED <<now, wake>>

Bug_SleepFromTick(n, delay_ms) ==
    /\ Awake(n)
    /\ now + delay_ms * Milli <= MaxNow
    /\ wake' = [wake EXCEPT ![n] = (system_time_ms + delay_ms - 1) * Milli]
    /\ slept' = [slept EXCEPT ![n] = @ + delay_ms]
    /\ UNCHANGED <<now, clockVars, genVars, mark>>

\* nanosleep; no signal interrupts it, as the program handles none.
hal_delay_ms(n, delay_ms) ==
    /\ Awake(n)
    /\ now + delay_ms * Milli <= MaxNow
    /\ wake' = [wake EXCEPT ![n] = now + delay_ms * Milli]
    /\ slept' = [slept EXCEPT ![n] = @ + delay_ms]
    /\ UNCHANGED <<now, clockVars, genVars, mark>>

hal_random_u32(n) ==
    /\ Awake(n)
    /\ draws[n] < MaxDraws
    /\ g_rng_state' = [g_rng_state EXCEPT ![n] = Xorshift(@)]
    /\ draws' = [draws EXCEPT ![n] = @ + 1]
    /\ UNCHANGED <<now, clockVars, wake, mark, slept>>

\* A microsecond goes by.
ClockRuns ==
    /\ now < MaxNow
    /\ now' = now + 1
    /\ UNCHANGED <<clockVars, genVars, wake, mark, slept>>

Next ==
    \/ \E n \in Node :
        \/ hal_init(n) \/ hal_shutdown(n)
        \/ hal_get_time_ms(n) \/ hal_get_time_us(n)
        \/ \E d \in Delays : hal_delay_ms(n, d)
        \/ hal_random_u32(n)
    \/ ClockRuns

Spec == Init /\ [][Next]_vars

-----------------------------------------------------------------------------
(* Properties *)

\* The generator keeps to 32 bits and never gets stuck at zero.
HalTypeOK ==
    /\ now \in Nat
    /\ g_initialized \in [Node -> BOOLEAN]
    /\ g_start_time_ms \in [Node -> Nat]
    /\ g_rng_state \in [Node -> (SUBSET Bit) \ {{}}]
    /\ wake \in [Node -> Nat]

\* Times taken by either call compare: since a reading, either clock has advanced
\* by the time that went by, give or take less than a millisecond, although the
\* origin is kept in whole milliseconds and the clock does not start at one.
ElapsedIsReal ==
    \A n \in Node : mark[n] # << >> /\ g_initialized[n] =>
        \A clock \in {Millis(g_start_time_ms[n]) * Milli, Micros(g_start_time_ms[n])} :
            LET error == (clock - mark[n][1]) - (now - mark[n][2])
            IN  -Milli < error /\ error < Milli

\* The millisecond clock shows all of what a process slept since its last reading,
\* of either clock, with nothing lost to rounding at the two ends: to the timers a
\* sleep of the main loop is never shorter than it was asked to be.
SleepsShow ==
    \A n \in Node : mark[n] # << >> /\ g_initialized[n] /\ Awake(n) =>
        Millis(g_start_time_ms[n]) >= mark[n][1] \div Milli + slept[n]

\* Jitter sets nodes apart exactly if they started in different milliseconds:
\* nodes of one start draw the same timeouts for ever, nodes of different starts
\* never have the same generator after equally many draws.  The seed takes the low 32
\* bits of the start, which come round after 49 days, and a seed that happens to
\* cancel the state gives way to the default, which another start may reach, too.
StartsSetApart ==
    \A n, p \in Node :
        /\ Len(inits[n]) = 1 /\ Len(inits[p]) = 1
        /\ draws[n] = draws[p] /\ inits[n][1][2] = inits[p][1][2]
        /\ ~inits[n][1][3] /\ ~inits[p][1][3]
        => (g_rng_state[n] = g_rng_state[p] <=> Word(inits[n][1][1]) = Word(inits[p][1][1]))

=============================================================================
