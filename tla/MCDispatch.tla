------------------------------ MODULE MCDispatch ------------------------------
(* Dispatch for TLC. *)
EXTENDS Dispatch, TLC

CONSTANTS t1, t2, f, g

MCType == {t1, t2}
MCCallback == {f, g}

\* Types are interchangeable, and so are functions.
Symmetry == Permutations(MCType) \cup Permutations(MCCallback)

===============================================================================
