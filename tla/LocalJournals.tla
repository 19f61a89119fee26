---------------------------- MODULE LocalJournals ----------------------------
(***************************************************************************)
(* What the log of core/raft.c promises the application of each node: a    *)
(* journal of its own that nothing is ever removed from or inserted into.  *)
(* Each step adds one record at the end, whoever wrote it, or hands the    *)
(* application a longer prefix; a crash empties both at once.  Whether the *)
(* journals of different nodes agree is not promised here.                 *)
(***************************************************************************)
EXTENDS Integers, Sequences

CONSTANTS
    Node,
    Capacity      \* records a journal holds

VARIABLES
    journal,      \* the records each node holds, in order
    delivered     \* what each application has received since its node started

vars == <<journal, delivered>>

Init ==
    /\ journal = [n \in Node |-> << >>]
    /\ delivered = [n \in Node |-> << >>]

\* The record n holds at the end, after a step in which it stored one.
Stored(n) == journal'[n][Len(journal[n]) + 1]

\* n stores a record, its own or another node's, at the position the record names;
\* its term is no older than those before it.
Store(n) ==
    /\ Len(journal[n]) < Capacity
    /\ Len(journal'[n]) = Len(journal[n]) + 1
    /\ Stored(n).data \in Node
    /\ Stored(n).index = Len(journal[n]) + 1
    /\ \A i \in DOMAIN journal[n] : journal[n][i].term <= Stored(n).term
    /\ journal' = [journal EXCEPT ![n] = Append(@, Stored(n))]
    /\ UNCHANGED delivered

\* The application of n receives the records up to k that it has not seen.
Deliver(n, k) ==
    /\ delivered' = [delivered EXCEPT ![n] = SubSeq(journal[n], 1, k)]
    /\ UNCHANGED journal

\* n is killed and started again.
Lose(n) ==
    /\ journal' = [journal EXCEPT ![n] = << >>]
    /\ delivered' = [delivered EXCEPT ![n] = << >>]

Next ==
    \E n \in Node :
        \/ Store(n)
        \/ \E k \in Len(delivered[n])..Len(journal[n]) : Deliver(n, k)
        \/ Lose(n)

Spec == Init /\ [][Next]_vars

=============================================================================
