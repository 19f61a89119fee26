----------------------------- MODULE TermCounter -----------------------------
(***************************************************************************)
(* What atomic_inc_term_u32 promises: a counter of one machine word that   *)
(* every call raises by exactly one.                                       *)
(***************************************************************************)
EXTENDS Integers

CONSTANT Word        \* how many values a word has: 2^32

VARIABLES value,     \* the word
          calls      \* how many calls have returned

Init == value \in 0..(Word - 1) /\ calls = 0

Increment ==
    /\ value' = (value + 1) % Word
    /\ calls' = calls + 1

Spec == Init /\ [][Increment]_<<value, calls>>

=============================================================================
