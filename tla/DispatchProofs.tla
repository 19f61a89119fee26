--------------------------- MODULE DispatchProofs ---------------------------
(***************************************************************************)
(* What is proved of the receiving side, for every size of the callback    *)
(* table and all finite sets of types and functions: its types and counters,*)
(* and that it implements CallbackRegistry.  The bag is read off the slots *)
(* by counting, so the proof of the refinement is about cardinalities.     *)
(***************************************************************************)
EXTENDS Dispatch, NaturalsInduction, WellFoundedInduction, FiniteSetTheorems, TLAPS

IInv == DispatchTypeOK /\ ErrorsWereReceived

LEMMA LeastNumber ==
    ASSUME NEW S \in SUBSET Nat, S # {}
    PROVE  \E x \in S : \A y \in S : x <= y
  <1> DEFINE below == {p \in Nat \X Nat : p[1] < p[2]}
  <1>1. IsWellFoundedOn(below, Nat)
    BY NatLessThanWellFounded, Zenon DEF OpToRel
  <1> HIDE DEF below
  <1>2. PICK x \in S : \A y \in S : <<y, x>> \notin below
    BY <1>1, WFMin
  <1>3. ASSUME NEW y \in S, ~(x <= y)
        PROVE  FALSE
    <2>1. <<y, x>> \in below
      BY <1>3 DEF below
    <2> QED
      BY <1>2, <2>1
  <1> QED
    BY <1>3

\* The loops over the table find the lowest slot.
LEMMA FirstIsLeast ==
    ASSUME NEW S \in SUBSET Slot, S # {}
    PROVE  First(S) \in S /\ \A j \in S : First(S) <= j
  <1>1. S \in SUBSET Nat
    BY CallbacksAssumption DEF Slot
  <1> QED
    BY <1>1, LeastNumber DEF First

LEMMA OneMore ==
    ASSUME NEW r \in Nat, NEW c \in Nat, NEW p \in Nat, NEW r2 \in Nat, NEW c2 \in Nat,
           r + c <= p, r2 + c2 <= r + c + 1
    PROVE  r2 + c2 <= p + 1
  OBVIOUS

LEMMA EmptyTable ==
    /\ NoCallbacks \in [Slot -> CallbackEntry_t]
    /\ \A i \in Slot : ~NoCallbacks[i].active
  <1>1. [active |-> FALSE, type |-> Nothing, callback |-> Nothing] \in CallbackEntry_t
    BY DEF CallbackEntry_t
  <1> QED
    BY <1>1 DEF NoCallbacks

LEMMA InitIInv == Init => IInv
  <1> SUFFICES ASSUME Init
               PROVE  IInv
    OBVIOUS
  <1>1. /\ callbacks \in [Slot -> CallbackEntry_t]
        /\ \A i \in Slot : ~callbacks[i].active
    BY EmptyTable DEF Init
  <1>2. packets_received = 0 /\ receive_errors = 0 /\ crc_errors = 0
    BY DEF Init
  <1>3. pc = "out" /\ running = Nothing /\ msg = Nothing /\ initialized = FALSE /\ open = FALSE
    BY DEF Init
  <1> QED
    <2>1. DispatchTypeOK
      BY <1>1, <1>2, <1>3 DEF DispatchTypeOK
    <2>2. ErrorsWereReceived
      BY <1>2 DEF ErrorsWereReceived
    <2> QED
      BY <2>1, <2>2 DEF IInv

LEMMA CallKeepsIInv ==
    ASSUME IInv, Call
    PROVE  IInv'
  <1> USE DEF IInv, DispatchTypeOK, ErrorsWereReceived, service, stats
  <1>1. CASE comm_init
    <2>1. CASE initialized
      BY <1>1, <2>1 DEF Call, comm_init
    <2>2. CASE ~initialized
      <3>1. /\ callbacks' = NoCallbacks
            /\ packets_received' = 0 /\ receive_errors' = 0 /\ crc_errors' = 0
            /\ initialized' \in BOOLEAN /\ open' \in BOOLEAN
            /\ UNCHANGED <<pc, running, msg>>
        BY <1>1, <2>2 DEF Call, comm_init
      <3> QED
        BY <3>1, EmptyTable
    <2> QED
      BY <2>1, <2>2
  <1>2. CASE comm_shutdown
    BY <1>2 DEF Call, comm_shutdown
  <1>3. CASE RefuseCallback
    BY <1>3 DEF Call, RefuseCallback
  <1>4. CASE comm_receive
    BY <1>4 DEF Call, comm_receive
  <1>5. CASE comm_reset_statistics
    BY <1>5 DEF Call, comm_reset_statistics
  <1>6. ASSUME NEW t \in Type, comm_unregister_callback(t)
        PROVE  IInv'
    <2>1. Matching(t) # {} => First(Matching(t)) \in Slot
      BY FirstIsLeast DEF Matching
    <2>2. ASSUME NEW i \in Slot
          PROVE  [active |-> FALSE, type |-> callbacks[i].type, callback |-> Nothing] \in CallbackEntry_t
      BY DEF CallbackEntry_t
    <2> DEFINE i == First(Matching(t))
    <2> DEFINE freed == [active |-> FALSE, type |-> callbacks[i].type, callback |-> Nothing]
    <2>3. \/ UNCHANGED callbacks
          \/ i \in Slot /\ freed \in CallbackEntry_t /\ ~freed.active
             /\ callbacks' = [callbacks EXCEPT ![i] = freed]
      <3>1. CASE Matching(t) = {}
        BY <1>6, <3>1 DEF comm_unregister_callback
      <3>2. CASE Matching(t) # {}
        <4>1. callbacks' = [callbacks EXCEPT ![i] = freed]
          BY <1>6, <3>2 DEF comm_unregister_callback
        <4> QED
          BY <2>1, <2>2, <3>2, <4>1
      <3> QED
        BY <3>1, <3>2
    <2>4. UNCHANGED <<initialized, open, stats, pc, running, msg>>
      BY <1>6 DEF Call, comm_unregister_callback
    <2> HIDE DEF freed, i
    <2>5. callbacks' \in [Slot -> CallbackEntry_t]
      BY <2>3
    <2>6. \A j \in Slot : callbacks'[j].active => callbacks'[j].type \in Type /\ callbacks'[j].callback \in Callback
      BY <2>3
    <2> QED
      BY <2>4, <2>5, <2>6
  <1>7. ASSUME NEW t \in Type, NEW c \in Callback, comm_register_callback(t, c)
        PROVE  IInv'
    <2> DEFINE new == [active |-> TRUE, type |-> t, callback |-> c]
    <2>1. FreeSlots # {} => First(FreeSlots) \in Slot
      BY FirstIsLeast DEF FreeSlots
    <2>2. new \in CallbackEntry_t /\ new.type \in Type /\ new.callback \in Callback
      BY DEF CallbackEntry_t
    <2>3. \/ UNCHANGED callbacks
          \/ First(FreeSlots) \in Slot /\ callbacks' = [callbacks EXCEPT ![First(FreeSlots)] = new]
      BY <1>7, <2>1 DEF comm_register_callback
    <2>4. UNCHANGED <<initialized, open, stats, pc, running, msg>>
      BY <1>7 DEF Call, comm_register_callback
    <2> HIDE DEF new
    <2>5. callbacks' \in [Slot -> CallbackEntry_t]
      BY <2>2, <2>3
    <2>6. \A i \in Slot : callbacks'[i].active => callbacks'[i].type \in Type /\ callbacks'[i].callback \in Callback
      BY <2>2, <2>3
    <2> QED
      BY <2>4, <2>5, <2>6
  <1> QED
    BY <1>1, <1>2, <1>3, <1>4, <1>5, <1>6, <1>7 DEF Call

LEMMA ReceiveKeepsIInv ==
    ASSUME IInv, NEW d \in Datagram, Receive(d)
    PROVE  IInv'
  <1> USE DEF IInv, DispatchTypeOK, service, stats
  <1>1. process_received_message(d) /\ pc = "poll" /\ running = Nothing /\ UNCHANGED service
    BY DEF Receive
  <1>2. d[1] \in {"short", "alien", "damaged", "own", "intact"} /\ d[2] \in Type \cup {Nothing}
        /\ (d[1] = "intact" => d[2] \in Type)
    BY DEF Datagram
  <1>3. /\ packets_received' = packets_received + 1
        /\ receive_errors' \in Nat /\ crc_errors' \in Nat
        /\ receive_errors' + crc_errors' <= receive_errors + crc_errors + 1
    BY <1>1 DEF Receive, process_received_message
  <1>4. ErrorsWereReceived'
    <2>1. /\ packets_received \in Nat /\ receive_errors \in Nat /\ crc_errors \in Nat
          /\ receive_errors + crc_errors <= packets_received
      BY DEF ErrorsWereReceived
    <2>2. receive_errors' + crc_errors' <= packets_received'
      BY <1>3, <2>1, OneMore
    <2> QED
      BY <2>2 DEF ErrorsWereReceived
  <1>5. msg' \in Type \cup {Nothing}
    BY <1>1, <1>2 DEF process_received_message
  <1>6. /\ pc' \in {"poll", "callback"}
        /\ running' \in (Type \X Callback) \cup {Nothing}
        /\ pc' = "callback" <=> running' # Nothing
    <2>1. CASE d[1] = "intact" /\ Matching(d[2]) # {}
      <3>1. Matching(d[2]) \in SUBSET Slot
        BY DEF Matching
      <3>2. First(Matching(d[2])) \in Matching(d[2])
        BY <2>1, <3>1, FirstIsLeast
      <3>3. callbacks[First(Matching(d[2]))].callback \in Callback
        BY <3>2 DEF Matching
      <3>4. pc' = "callback" /\ running' = <<d[2], callbacks[First(Matching(d[2]))].callback>>
        BY <1>1, <2>1 DEF process_received_message, RunCallback
      <3>5. running' \in Type \X Callback
        BY <1>2, <2>1, <3>3, <3>4
      <3> QED
        BY <3>4, <3>5, NothingAssumption
    <2>2. CASE ~(d[1] = "intact" /\ Matching(d[2]) # {})
      BY <1>1, <2>2 DEF process_received_message, RunCallback
    <2> QED
      BY <2>1, <2>2
  <1> QED
    BY <1>1, <1>3, <1>4, <1>5, <1>6

LEMMA StepIInv == IInv /\ [Next]_vars => IInv'
  <1> SUFFICES ASSUME IInv, [Next]_vars
               PROVE  IInv'
    OBVIOUS
  <1> USE DEF IInv, DispatchTypeOK, ErrorsWereReceived, service, stats
  <1>1. CASE comm_poll
    BY <1>1 DEF comm_poll
  <1>2. CASE PollEnds
    BY <1>2 DEF PollEnds
  <1>3. CASE CallbackReturns
    BY <1>3 DEF CallbackReturns
  <1>4. CASE UNCHANGED vars
    BY <1>4 DEF vars
  <1> QED
    BY <1>1, <1>2, <1>3, <1>4, CallKeepsIInv, ReceiveKeepsIInv DEF Next

LEMMA AlwaysIInv == Spec => []IInv
  BY InitIInv, StepIInv, PTL DEF Spec

\* Every active slot has a type and a function, and the poll loop is inside a
\* callback exactly while one runs.
THEOREM DispatchTypeCorrect == Spec => []DispatchTypeOK
  <1>1. IInv => DispatchTypeOK
    BY DEF IInv
  <1> QED
    BY <1>1, AlwaysIInv, PTL

\* The error counters never exceed the packets received.
THEOREM ErrorsAreCounted == Spec => []ErrorsWereReceived
  <1>1. IInv => ErrorsWereReceived
    BY DEF IInv
  <1> QED
    BY <1>1, AlwaysIInv, PTL

-----------------------------------------------------------------------------
(* Sums over a set, element by element *)

\* it adds up g over every part of S, as the fold of the community modules does.
AddsUp(it, g, S) ==
    it = [s \in SUBSET S |->
            IF s = {} THEN 0
            ELSE LET x == CHOOSE x \in s : TRUE IN g[x] + it[s \ {x}]]

\* There is such a function, as it calls itself on smaller sets only.
LEMMA SumsExist ==
    ASSUME NEW S, IsFiniteSet(S), NEW g
    PROVE  \E it : AddsUp(it, g, S)
  <1> DEFINE next(it, s) == IF s = {} THEN 0
                            ELSE LET x == CHOOSE x \in s : TRUE IN g[x] + it[s \ {x}]
             upto(k, it) == \A s \in SUBSET S : Cardinality(s) <= k => it[s] = next(it, s)
             missing == {k \in Nat : ~ \E it : it = [s \in SUBSET S |-> it[s]] /\ upto(k, it)}
  <1>0. \A s \in SUBSET S : IsFiniteSet(s) /\ Cardinality(s) \in Nat
    BY FS_Subset, FS_CardinalityType
  <1>1. ASSUME NEW s \in SUBSET S, s # {}
        PROVE  LET x == CHOOSE x \in s : TRUE
               IN  x \in s /\ s \ {x} \in SUBSET S /\ Cardinality(s \ {x}) = Cardinality(s) - 1
    <2> DEFINE x == CHOOSE x \in s : TRUE
    <2>1. x \in s
      BY <1>1
    <2> HIDE DEF x
    <2>2. Cardinality(s \ {x}) = Cardinality(s) - 1
      BY <1>0, <2>1, FS_RemoveElement
    <2> QED
      BY <2>1, <2>2 DEF x
  <1>2. ASSUME missing # {}
        PROVE  FALSE
    <2>1. PICK k \in missing : \A j \in missing : k <= j
      <3>1. missing \in SUBSET Nat
        OBVIOUS
      <3> HIDE DEF missing
      <3> QED
        BY <1>2, <3>1, LeastNumber
    <2>2. k # 0
      <3> DEFINE it == [s \in SUBSET S |-> 0]
      <3>1. ASSUME NEW s \in SUBSET S, Cardinality(s) <= 0
            PROVE  it[s] = next(it, s)
        <4>1. s = {}
          BY <1>0, <3>1, FS_EmptySet
        <4> QED
          BY <4>1
      <3>2. it = [s \in SUBSET S |-> it[s]]
        OBVIOUS
      <3>3. upto(0, it)
        BY <3>1
      <3> HIDE DEF it, upto
      <3> QED
        BY <2>1, <3>2, <3>3
    <2>3. k - 1 \in Nat /\ k - 1 \notin missing
      <3>1. k \in Nat
        BY <2>1
      <3> HIDE DEF missing
      <3> QED
        BY <2>1, <2>2, <3>1
    <2>4. PICK f : f = [s \in SUBSET S |-> f[s]] /\ upto(k - 1, f)
      <3> HIDE DEF upto
      <3> QED
        BY <2>3
    <2> DEFINE it == [s \in SUBSET S |-> next(f, s)]
    <2>5. ASSUME NEW s \in SUBSET S, Cardinality(s) <= k
          PROVE  it[s] = next(it, s)
      <3>1. CASE s = {}
        BY <3>1
      <3>2. CASE s # {}
        <4> DEFINE x == CHOOSE x \in s : TRUE
                   r == s \ {x}
        <4>1. r \in SUBSET S /\ Cardinality(r) = Cardinality(s) - 1
          BY <1>1, <3>2
        <4>2. Cardinality(r) <= k - 1
          BY <1>0, <2>3, <2>5, <4>1
        <4>3. f[r] = next(f, r)
          <5> HIDE DEF r, next
          <5> QED
            BY <2>4, <4>1, <4>2
        <4>4. it[r] = next(f, r)
          <5> HIDE DEF r, next
          <5> QED
            BY <4>1
        <4>5. it[s] = g[x] + f[r]
          BY <3>2
        <4>6. next(it, s) = g[x] + it[r]
          <5> HIDE DEF it
          <5> QED
            BY <3>2
        <4> HIDE DEF it, next, x, r
        <4> QED
          BY <4>3, <4>4, <4>5, <4>6
      <3> QED
        BY <3>1, <3>2
    <2>6. upto(k, it) /\ it = [s \in SUBSET S |-> it[s]]
      <3>1. upto(k, it)
        BY <2>5
      <3>2. it = [s \in SUBSET S |-> it[s]]
        <4> HIDE DEF next
        <4> QED
          OBVIOUS
      <3> QED
        BY <3>1, <3>2
    <2> HIDE DEF it, upto
    <2> QED
      BY <2>1, <2>6
  <1>3. Cardinality(S) \in Nat /\ \A s \in SUBSET S : Cardinality(s) <= Cardinality(S)
    BY FS_Subset, FS_CardinalityType
  <1>4. PICK it : it = [s \in SUBSET S |-> it[s]] /\ upto(Cardinality(S), it)
    <2>1. Cardinality(S) \notin missing
      <3> HIDE DEF missing
      <3> QED
        BY <1>2
    <2> HIDE DEF upto
    <2> QED
      BY <1>3, <2>1
  <1>5. \A s \in SUBSET S : it[s] = next(it, s)
    BY <1>3, <1>4
  <1>6. it = [s \in SUBSET S |-> next(it, s)]
    <2> HIDE DEF next
    <2> QED
      BY <1>4, <1>5
  <1> QED
    BY <1>6 DEF AddsUp

\* Nothing adds up to zero, and any other set to one of its elements and the rest.
LEMMA SumByOne ==
    ASSUME NEW S, IsFiniteSet(S), NEW g, NEW it, AddsUp(it, g, S)
    PROVE  /\ it[{}] = 0
           /\ \A s \in SUBSET S : s # {} =>
                \E x \in s : /\ it[s] = g[x] + it[s \ {x}]
                             /\ Cardinality(s \ {x}) = Cardinality(s) - 1
  <1>1. \A s \in SUBSET S : it[s] = IF s = {} THEN 0
                                    ELSE LET x == CHOOSE x \in s : TRUE IN g[x] + it[s \ {x}]
    BY DEF AddsUp
  <1>2. it[{}] = 0
    BY <1>1
  <1>3. ASSUME NEW s \in SUBSET S, s # {}
        PROVE  \E x \in s : /\ it[s] = g[x] + it[s \ {x}]
                            /\ Cardinality(s \ {x}) = Cardinality(s) - 1
    <2> DEFINE x == CHOOSE x \in s : TRUE
    <2>1. x \in s
      BY <1>3
    <2>2. it[s] = g[x] + it[s \ {x}]
      BY <1>1, <1>3
    <2> HIDE DEF x
    <2>3. Cardinality(s \ {x}) = Cardinality(s) - 1
      BY <2>1, FS_Subset, FS_RemoveElement
    <2> QED
      BY <2>1, <2>2, <2>3
  <1> QED
    BY <1>2, <1>3

\* When g counts the members of A by what h says of them, the sum is their number.
LEMMA SumIsCount ==
    ASSUME NEW S, IsFiniteSet(S), NEW g, NEW it, AddsUp(it, g, S),
           NEW A, IsFiniteSet(A), NEW h \in [A -> S],
           \A x \in S : g[x] = Cardinality({i \in A : h[i] = x})
    PROVE  it[S] = Cardinality(A)
  <1> DEFINE part(s) == {i \in A : h[i] \in s}
             right(s) == it[s] = Cardinality(part(s))
             wrong == {k \in Nat : \E s \in SUBSET S : Cardinality(s) = k /\ ~right(s)}
  <1>0. \A s \in SUBSET S : IsFiniteSet(s) /\ Cardinality(s) \in Nat
    BY FS_Subset, FS_CardinalityType
  <1>p. \A s : part(s) \in SUBSET A /\ IsFiniteSet(part(s)) /\ Cardinality(part(s)) \in Nat
    <2> TAKE s
    <2>1. part(s) \in SUBSET A
      OBVIOUS
    <2>2. IsFiniteSet(part(s))
      <3> HIDE DEF part
      <3> QED
        BY <2>1, FS_Subset
    <2> HIDE DEF part
    <2> QED
      BY <2>1, <2>2, FS_CardinalityType
  <1>1. ASSUME wrong # {}
        PROVE  FALSE
    <2>1. PICK k \in wrong : \A j \in wrong : k <= j
      <3>1. wrong \in SUBSET Nat
        OBVIOUS
      <3> HIDE DEF wrong
      <3> QED
        BY <1>1, <3>1, LeastNumber
    <2>2. PICK s \in SUBSET S : Cardinality(s) = k /\ ~right(s)
      <3> HIDE DEF right
      <3> QED
        BY <2>1
    <2>3. s # {}
      <3>1. part({}) = {}
        OBVIOUS
      <3>2. it[{}] = 0 /\ Cardinality({}) = 0
        BY SumByOne, FS_EmptySet
      <3>3. right({})
        BY <3>1, <3>2
      <3> HIDE DEF right
      <3> QED
        BY <2>2, <3>3
    <2>4. PICK x \in s : /\ it[s] = g[x] + it[s \ {x}]
                         /\ Cardinality(s \ {x}) = Cardinality(s) - 1
      BY <2>3, SumByOne
    <2>5. k - 1 \in Nat /\ k - 1 \notin wrong
      <3>1. k \in Nat /\ k - 1 \in Nat
        BY <1>0, <2>2, <2>4
      <3> HIDE DEF wrong
      <3> QED
        BY <2>1, <3>1
    <2>6. right(s \ {x})
      <3> HIDE DEF right
      <3> QED
        BY <2>2, <2>4, <2>5
    <2> DEFINE one == {i \in A : h[i] = x}
               rest == part(s \ {x})
    <2>7. part(s) = one \cup rest /\ one \cap rest = {} /\ one = part({x})
      OBVIOUS
    <2>8. IsFiniteSet(one) /\ IsFiniteSet(rest) /\ Cardinality(one) \in Nat /\ Cardinality(rest) \in Nat
      <3> HIDE DEF one, part
      <3> QED
        BY <1>p, <2>7 DEF rest
    <2>9. Cardinality(part(s)) = Cardinality(one) + Cardinality(rest)
      <3> HIDE DEF one, rest, part
      <3>1. Cardinality(one \cup rest) = Cardinality(one) + Cardinality(rest) - Cardinality(one \cap rest)
        BY <2>8, FS_Union
      <3>2. Cardinality(one \cap rest) = 0
        BY <2>7, FS_EmptySet
      <3>3. Cardinality(part(s)) = Cardinality(one \cup rest)
        <4>1. part(s) = one \cup rest
          BY <2>7
        <4> QED
          BY <4>1, Zenon
      <3>4. \A m, n, z \in Int : z = 0 => m + n - z = m + n
        OBVIOUS
      <3>5. Cardinality(one) + Cardinality(rest) - Cardinality(one \cap rest)
              = Cardinality(one) + Cardinality(rest)
        BY <2>8, <3>2, <3>4
      <3> QED
        BY <3>1, <3>3, <3>5, Zenon
    <2>10. g[x] = Cardinality(one) /\ it[s \ {x}] = Cardinality(rest)
      BY <2>6
    <2>11. right(s)
      <3> HIDE DEF one, rest, part
      <3> QED
        BY <2>4, <2>9, <2>10
    <2> HIDE DEF right
    <2> QED
      BY <2>2, <2>11
  <1>2. Cardinality(S) \notin wrong
    <2> HIDE DEF wrong
    <2> QED
      BY <1>1
  <1>3. right(S)
    <2> HIDE DEF right
    <2> QED
      BY <1>0, <1>2
  <1>4. part(S) = A
    OBVIOUS
  <1> QED
    BY <1>3, <1>4

-----------------------------------------------------------------------------
(* The bag the table stands for *)

Active == Slot \ FreeSlots

Holding(r) == {i \in Active : callbacks[i].type = r[1] /\ callbacks[i].callback = r[2]}

LEMMA SlotsAreFinite ==
    /\ IsFiniteSet(Slot) /\ Cardinality(Slot) = MAX_CALLBACKS
    /\ \A T \in SUBSET Slot : IsFiniteSet(T) /\ Cardinality(T) \in Nat
  <1>1. IsFiniteSet(Slot) /\ Cardinality(Slot) = MAX_CALLBACKS
    BY FS_Interval, CallbacksAssumption DEF Slot
  <1> QED
    BY <1>1, FS_Subset, FS_CardinalityType

LEMMA RegisteredCounts ==
    /\ registered = [r \in Type \X Callback |-> Cardinality(Holding(r))]
    /\ \A r : IsFiniteSet(Holding(r)) /\ Cardinality(Holding(r)) \in Nat
    /\ \A r : Cardinality(Holding(r)) > 0 <=> Holding(r) # {}
  <1>1. registered = [r \in Type \X Callback |-> Cardinality(Holding(r))]
    BY DEF registered, Holding, Active
  <1>2. \A r : Holding(r) \in SUBSET Slot
    BY DEF Holding, Active
  <1>3. \A r : IsFiniteSet(Holding(r)) /\ Cardinality(Holding(r)) \in Nat
    BY <1>2, SlotsAreFinite
  <1>4. \A r : Cardinality(Holding(r)) > 0 <=> Holding(r) # {}
    BY <1>3, FS_EmptySet
  <1> QED
    BY <1>1, <1>3, <1>4

\* All registrations together are as many as the slots in use.
LEMMA TotalIsActive ==
    ASSUME DispatchTypeOK
    PROVE  Registry!Total = Cardinality(Active)
  <1> DEFINE S == Type \X Callback
             h == [i \in Active |-> <<callbacks[i].type, callbacks[i].callback>>]
             it == CHOOSE it : AddsUp(it, registered, S)
  <1>1. IsFiniteSet(S)
    BY FinitenessAssumption, FS_Product
  <1>2. h \in [Active -> S]
    BY DEF DispatchTypeOK, Active, FreeSlots
  <1>3. \A x \in S : registered[x] = Cardinality({i \in Active : h[i] = x})
    <2> TAKE x \in S
    <2>1. Holding(x) = {i \in Active : h[i] = x}
      BY DEF Holding
    <2> QED
      BY <2>1, RegisteredCounts
  <1>4. AddsUp(it, registered, S)
    BY <1>1, SumsExist
  <1>5. Registry!Total = it[S]
    BY DEF Registry!Total, Registry!MapThenSumSet, Registry!MapThenFoldSet, Registry!Registration, AddsUp
  <1>6. IsFiniteSet(Active)
    BY SlotsAreFinite DEF Active
  <1> HIDE DEF S, h, it
  <1> QED
    BY <1>1, <1>2, <1>3, <1>4, <1>5, <1>6, SumIsCount

\* A slot that matches a type is a registration for it, and the other way round.
LEMMA MatchingIsFor ==
    ASSUME DispatchTypeOK, NEW t \in Type
    PROVE  /\ \A i \in Matching(t) : <<t, callbacks[i].callback>> \in Registry!For(t)
           /\ Matching(t) = {} => Registry!For(t) = {}
  <1>1. ASSUME NEW i \in Matching(t)
        PROVE  <<t, callbacks[i].callback>> \in Registry!For(t)
    <2> DEFINE r == <<t, callbacks[i].callback>>
    <2>1. r \in Type \X Callback
      BY DEF Matching, DispatchTypeOK
    <2>2. i \in Holding(r)
      BY DEF Matching, Holding, Active, FreeSlots
    <2>3. registered[r] > 0
      <3> HIDE DEF r
      <3> QED
        BY <2>1, <2>2, RegisteredCounts
    <2>4. r[1] = t
      OBVIOUS
    <2> HIDE DEF r
    <2> QED
      BY <2>1, <2>3, <2>4 DEF Registry!For, Registry!Registration, r
  <1>2. ASSUME Matching(t) = {}, NEW r \in Registry!For(t)
        PROVE  FALSE
    <2>1. r \in Type \X Callback /\ r[1] = t /\ registered[r] > 0
      BY DEF Registry!For, Registry!Registration
    <2>2. Holding(r) # {}
      BY <2>1, RegisteredCounts
    <2> QED
      BY <1>2, <2>1, <2>2 DEF Holding, Matching, Active, FreeSlots
  <1> QED
    BY <1>1, <1>2

\* Slot i is given to the registration r.
LEMMA TakenSlot ==
    ASSUME DispatchTypeOK, NEW i \in FreeSlots, NEW r \in Type \X Callback,
           callbacks' = [callbacks EXCEPT ![i] =
                           [active |-> TRUE, type |-> r[1], callback |-> r[2]]]
    PROVE  registered' = [registered EXCEPT ![r] = @ + 1]
  <1>0. i \in Slot /\ i \notin Active /\ callbacks \in [Slot -> CallbackEntry_t]
    BY DEF FreeSlots, Active, DispatchTypeOK
  <1>1. /\ callbacks'[i] = [active |-> TRUE, type |-> r[1], callback |-> r[2]]
        /\ \A j \in Slot \ {i} : callbacks'[j] = callbacks[j]
    BY <1>0
  <1>2. Active' = Active \cup {i}
    BY <1>0, <1>1 DEF Active, FreeSlots
  <1>3. Active \in SUBSET Slot
    BY DEF Active
  <1>4. \A q \in Type \X Callback : Holding(q)' = IF q = r THEN Holding(q) \cup {i} ELSE Holding(q)
    <2> TAKE q \in Type \X Callback
    <2>1. q = r <=> r[1] = q[1] /\ r[2] = q[2]
      OBVIOUS
    <2>2. \A j \in Active : callbacks'[j] = callbacks[j]
      BY <1>0, <1>1, <1>3
    <2> QED
      BY <1>0, <1>1, <1>2, <2>1, <2>2 DEF Holding
  <1>5. i \notin Holding(r) /\ IsFiniteSet(Holding(r))
    BY <1>0, RegisteredCounts DEF Holding
  <1>6. Cardinality(Holding(r) \cup {i}) = Cardinality(Holding(r)) + 1
    BY <1>5, FS_AddElement
  <1>7. registered' = [q \in Type \X Callback |-> Cardinality(Holding(q)')]
    BY DEF registered, Holding, Active
  <1>8. \A q \in Type \X Callback :
          Cardinality(Holding(q)') = IF q = r THEN registered[q] + 1 ELSE registered[q]
    BY <1>4, <1>6, RegisteredCounts
  <1>9. registered = [q \in Type \X Callback |-> registered[q]]
    BY DEF registered
  <1> QED
    BY <1>7, <1>8, <1>9

\* Slot i is freed of the registration r.
LEMMA FreedSlot ==
    ASSUME DispatchTypeOK, NEW r \in Type \X Callback, NEW i \in Holding(r), NEW e,
           ~e.active, callbacks' = [callbacks EXCEPT ![i] = e]
    PROVE  registered' = [registered EXCEPT ![r] = @ - 1]
  <1>0. /\ i \in Slot /\ i \in Active /\ callbacks \in [Slot -> CallbackEntry_t]
        /\ callbacks[i].type = r[1] /\ callbacks[i].callback = r[2]
    BY DEF Holding, Active, DispatchTypeOK
  <1>1. callbacks'[i] = e /\ \A j \in Slot \ {i} : callbacks'[j] = callbacks[j]
    BY <1>0
  <1>2. Active' = Active \ {i}
    BY <1>0, <1>1 DEF Active, FreeSlots
  <1>3. Active \in SUBSET Slot
    BY DEF Active
  <1>4. \A q \in Type \X Callback : Holding(q)' = IF q = r THEN Holding(q) \ {i} ELSE Holding(q)
    <2> TAKE q \in Type \X Callback
    <2>1. q = r <=> r[1] = q[1] /\ r[2] = q[2]
      OBVIOUS
    <2>2. \A j \in Active \ {i} : callbacks'[j] = callbacks[j]
      BY <1>1, <1>3
    <2>3. Holding(q)' = {j \in Active \ {i} : callbacks[j].type = q[1] /\ callbacks[j].callback = q[2]}
      BY <1>2, <2>2 DEF Holding
    <2>4. q # r => i \notin Holding(q)
      BY <1>0, <2>1 DEF Holding
    <2>5. Holding(q)' = Holding(q) \ {i}
      BY <2>3 DEF Holding
    <2> QED
      BY <2>4, <2>5
  <1>5. IsFiniteSet(Holding(r))
    BY RegisteredCounts
  <1>6. Cardinality(Holding(r) \ {i}) = Cardinality(Holding(r)) - 1
    BY <1>5, FS_RemoveElement
  <1>7. registered' = [q \in Type \X Callback |-> Cardinality(Holding(q)')]
    BY DEF registered, Holding, Active
  <1>8. \A q \in Type \X Callback :
          Cardinality(Holding(q)') = IF q = r THEN registered[q] - 1 ELSE registered[q]
    BY <1>4, <1>6, RegisteredCounts
  <1>9. registered = [q \in Type \X Callback |-> registered[q]]
    BY DEF registered
  <1> QED
    BY <1>7, <1>8, <1>9

LEMMA EmptyTableIsEmptyBag ==
    /\ callbacks = NoCallbacks => registered = Registry!Empty
    /\ callbacks' = NoCallbacks => registered' = Registry!Empty
  <1>1. \A i \in Slot : ~NoCallbacks[i].active
    BY EmptyTable
  <1>2. Cardinality({}) = 0
    BY FS_EmptySet
  <1>3. ASSUME callbacks = NoCallbacks
        PROVE  registered = Registry!Empty
    <2>1. \A r : Holding(r) = {}
      BY <1>1, <1>3 DEF Holding, Active, FreeSlots
    <2>2. \A r \in Type \X Callback : Cardinality(Holding(r)) = 0
      BY <1>2, <2>1
    <2> QED
      BY <2>2, RegisteredCounts DEF Registry!Empty, Registry!Registration
  <1>4. ASSUME callbacks' = NoCallbacks
        PROVE  registered' = Registry!Empty
    <2>1. \A r : Holding(r)' = {}
      BY <1>1, <1>4 DEF Holding, Active, FreeSlots
    <2>2. registered' = [r \in Type \X Callback |-> Cardinality(Holding(r)')]
      BY DEF registered, Holding, Active
    <2>3. \A r \in Type \X Callback : Cardinality(Holding(r)') = 0
      BY <1>2, <2>1
    <2> QED
      BY <2>2, <2>3 DEF Registry!Empty, Registry!Registration
  <1> QED
    BY <1>3, <1>4

LEMMA SameBag == UNCHANGED callbacks => UNCHANGED registered
  BY DEF registered, FreeSlots

-----------------------------------------------------------------------------
(* Every step is one of the registry, or none *)

\* The socket is open exactly while the service is up, which is why a poll that
\* goes on after a callback shut the service down receives nothing.
OpenWhileUp == open = initialized

LEMMA AlwaysOpenWhileUp == Spec => []OpenWhileUp
  <1>1. Init => OpenWhileUp
    BY DEF Init, OpenWhileUp
  <1>2. OpenWhileUp /\ IInv /\ [Next]_vars => OpenWhileUp'
    <2> SUFFICES ASSUME OpenWhileUp, IInv, [Next]_vars
                 PROVE  OpenWhileUp'
      OBVIOUS
    <2> USE DEF OpenWhileUp, service, IInv, DispatchTypeOK
    <2>1. CASE Call
      <3>1. CASE comm_init
        BY <3>1 DEF comm_init
      <3>2. CASE comm_shutdown
        BY <3>2 DEF comm_shutdown
      <3>3. CASE RefuseCallback \/ comm_receive \/ comm_reset_statistics
        BY <3>3 DEF RefuseCallback, comm_receive, comm_reset_statistics
      <3>4. ASSUME NEW t \in Type, comm_unregister_callback(t)
            PROVE  OpenWhileUp'
        BY <3>4 DEF comm_unregister_callback
      <3>5. ASSUME NEW t \in Type, NEW c \in Callback, comm_register_callback(t, c)
            PROVE  OpenWhileUp'
        BY <3>5 DEF comm_register_callback
      <3> QED
        BY <2>1, <3>1, <3>2, <3>3, <3>4, <3>5 DEF Call
    <2>2. CASE comm_poll \/ PollEnds \/ CallbackReturns
      BY <2>2 DEF comm_poll, PollEnds, CallbackReturns
    <2>3. ASSUME NEW d \in Datagram, Receive(d)
          PROVE  OpenWhileUp'
      BY <2>3 DEF Receive
    <2>4. CASE UNCHANGED vars
      BY <2>4 DEF vars
    <2> QED
      BY <2>1, <2>2, <2>3, <2>4 DEF Next
  <1> QED
    BY <1>1, <1>2, AlwaysIInv, PTL DEF Spec

LEMMA RegisterIsAdd ==
    ASSUME DispatchTypeOK, NEW t \in Type, NEW c \in Callback,
           comm_register_callback(t, c), UNCHANGED <<running, msg>>
    PROVE  Registry!Next
  <1> DEFINE r == <<t, c>>
  <1>0. /\ r \in Registry!Registration /\ r \in Type \X Callback /\ r[1] = t /\ r[2] = c
        /\ UNCHANGED <<initialized, running, msg>>
    BY DEF comm_register_callback, Registry!Registration
  <1>1. Registry!Total = Cardinality(Active)
    BY TotalIsActive
  <1>2. Active \in SUBSET Slot
    BY DEF Active
  <1>3. CASE FreeSlots # {}
    <2>1. First(FreeSlots) \in FreeSlots
      BY <1>3, FirstIsLeast DEF FreeSlots
    <2>2. /\ callbacks' = [callbacks EXCEPT ![First(FreeSlots)] =
                             [active |-> TRUE, type |-> r[1], callback |-> r[2]]]
          /\ result' = "OK"
      BY <1>3 DEF comm_register_callback
    <2> HIDE DEF r
    <2>3. registered' = [registered EXCEPT ![r] = @ + 1]
      BY <1>0, <2>1, <2>2, TakenSlot
    <2>4. Registry!Total < MAX_CALLBACKS
      <3>1. Active # Slot
        BY <2>1 DEF Active, FreeSlots
      <3>2. Cardinality(Active) <= MAX_CALLBACKS /\ Cardinality(Active) # MAX_CALLBACKS
        BY <1>2, <3>1, SlotsAreFinite, FS_Subset
      <3>3. Cardinality(Active) \in Nat
        BY <1>2, SlotsAreFinite
      <3> QED
        BY <1>1, <3>2, <3>3, CallbacksAssumption
    <2>5. Registry!Add(r)
      BY <1>0, <2>2, <2>3, <2>4 DEF Registry!Add
    <2> QED
      BY <1>0, <2>5 DEF Registry!Next
  <1>4. CASE FreeSlots = {}
    <2>1. Active = Slot
      BY <1>4 DEF Active
    <2>2. Registry!Total = MAX_CALLBACKS
      BY <1>1, <2>1, SlotsAreFinite
    <2>3. result' = "NO_MEMORY" /\ UNCHANGED registered
      BY <1>4, SameBag DEF comm_register_callback
    <2>4. Registry!AddFull
      BY <1>0, <2>2, <2>3 DEF Registry!AddFull
    <2> QED
      BY <2>4 DEF Registry!Next
  <1> QED
    BY <1>3, <1>4

LEMMA UnregisterIsRemove ==
    ASSUME DispatchTypeOK, NEW t \in Type, comm_unregister_callback(t), UNCHANGED <<running, msg>>
    PROVE  Registry!Next
  <1>0. UNCHANGED <<initialized, running, msg>>
    BY DEF comm_unregister_callback
  <1>1. CASE Matching(t) # {}
    <2> DEFINE i == First(Matching(t))
               r == <<t, callbacks[i].callback>>
               e == [active |-> FALSE, type |-> callbacks[i].type, callback |-> Nothing]
    <2>1. i \in Matching(t)
      BY <1>1, FirstIsLeast DEF Matching
    <2>2. callbacks' = [callbacks EXCEPT ![i] = e] /\ ~e.active /\ result' = "OK"
      BY <1>1 DEF comm_unregister_callback
    <2> HIDE DEF i, e
    <2>3. r \in Registry!For(t)
      BY <2>1, MatchingIsFor
    <2>4. r \in Type \X Callback /\ i \in Holding(r)
      BY <2>1 DEF Matching, Holding, Active, FreeSlots, DispatchTypeOK
    <2>5. registered' = [registered EXCEPT ![r] = @ - 1]
      <3> HIDE DEF r
      <3> QED
        BY <2>2, <2>4, FreedSlot
    <2>6. Registry!Remove(t)
      BY <1>0, <2>2, <2>3, <2>5 DEF Registry!Remove
    <2> QED
      BY <2>6 DEF Registry!Next
  <1>2. CASE Matching(t) = {}
    <2>1. result' = "NOT_FOUND" /\ UNCHANGED registered
      BY <1>2, SameBag DEF comm_unregister_callback
    <2>2. Registry!For(t) = {}
      BY <1>2, MatchingIsFor
    <2>3. Registry!RemoveNone(t)
      BY <1>0, <2>1, <2>2 DEF Registry!RemoveNone
    <2> QED
      BY <2>3 DEF Registry!Next
  <1> QED
    BY <1>1, <1>2

LEMMA ReceiveIsDeliver ==
    ASSUME DispatchTypeOK, OpenWhileUp, NEW d \in Datagram, Receive(d)
    PROVE  Registry!Next
  <1>1. /\ initialized /\ running = Nothing /\ process_received_message(d)
        /\ UNCHANGED <<initialized, callbacks, result>>
    BY DEF Receive, OpenWhileUp, DispatchTypeOK, service
  <1>2. UNCHANGED registered
    BY <1>1, SameBag
  <1>3. msg' = d[2]
    BY <1>1 DEF process_received_message
  <1>4. CASE d[1] = "intact"
    <2>1. d[2] \in Type
      BY <1>4 DEF Datagram
    <2>2. RunCallback(d[2])
      BY <1>1, <1>4 DEF process_received_message
    <2>3. CASE Matching(d[2]) = {}
      <3>1. running' = Nothing /\ Registry!For(d[2]) = {}
        BY <1>1, <2>1, <2>2, <2>3, MatchingIsFor DEF RunCallback
      <3>2. Registry!Deliver(d[2])
        BY <1>1, <1>2, <1>3, <3>1 DEF Registry!Deliver
      <3> QED
        BY <2>1, <3>2 DEF Registry!Next
    <2>4. CASE Matching(d[2]) # {}
      <3>1. First(Matching(d[2])) \in Matching(d[2])
        BY <2>4, FirstIsLeast DEF Matching
      <3>2. running' = <<d[2], callbacks[First(Matching(d[2]))].callback>>
        BY <2>2, <2>4 DEF RunCallback
      <3>3. running' \in Registry!For(d[2])
        BY <2>1, <3>1, <3>2, MatchingIsFor
      <3>4. Registry!Deliver(d[2])
        BY <1>1, <1>2, <1>3, <3>3 DEF Registry!Deliver
      <3> QED
        BY <2>1, <3>4 DEF Registry!Next
    <2> QED
      BY <2>3, <2>4
  <1>5. CASE d[1] # "intact"
    <2>1. d[2] = Nothing
      BY <1>5 DEF Datagram
    <2>2. UNCHANGED running
      BY <1>1, <1>5 DEF process_received_message
    <2>3. Registry!Refuse
      BY <1>1, <1>2, <1>3, <2>1, <2>2 DEF Registry!Refuse
    <2> QED
      BY <2>3 DEF Registry!Next
  <1> QED
    BY <1>4, <1>5

LEMMA CallIsCall ==
    ASSUME DispatchTypeOK, Call
    PROVE  Registry!Next
  <1>0. UNCHANGED <<running, msg>>
    BY DEF Call
  <1>other. ASSUME UNCHANGED service, result' \in {"OK", "INVALID_ARG", "TIMEOUT"}
            PROVE  Registry!Next
    <2>1. UNCHANGED registered /\ UNCHANGED initialized
      BY <1>other, SameBag DEF service
    <2>2. Registry!Other
      BY <1>0, <1>other, <2>1 DEF Registry!Other
    <2> QED
      BY <2>2 DEF Registry!Next
  <1>1. CASE comm_init
    <2>1. CASE initialized
      BY <1>1, <1>other, <2>1 DEF comm_init
    <2>2. CASE ~initialized
      <3>1. /\ callbacks' = NoCallbacks /\ initialized' \in BOOLEAN
            /\ result' = IF initialized' THEN "OK" ELSE "COMM_FAIL"
        BY <1>1, <2>2 DEF comm_init
      <3>2. registered' = Registry!Empty
        BY <3>1, EmptyTableIsEmptyBag
      <3>3. Registry!Start
        BY <1>0, <2>2, <3>1, <3>2 DEF Registry!Start
      <3> QED
        BY <3>3 DEF Registry!Next
    <2> QED
      BY <2>1, <2>2
  <1>2. CASE comm_shutdown
    <2>1. UNCHANGED registered
      BY <1>2, SameBag DEF comm_shutdown
    <2>2. Registry!Stop
      BY <1>0, <1>2, <2>1 DEF comm_shutdown, Registry!Stop
    <2> QED
      BY <2>2 DEF Registry!Next
  <1>3. CASE RefuseCallback
    BY <1>3, <1>other DEF RefuseCallback
  <1>4. CASE comm_receive
    BY <1>4, <1>other DEF comm_receive
  <1>5. CASE comm_reset_statistics
    BY <1>5, <1>other DEF comm_reset_statistics
  <1> QED
    BY <1>0, <1>1, <1>2, <1>3, <1>4, <1>5, RegisterIsAdd, UnregisterIsRemove DEF Call

LEMMA StepIsStep ==
    DispatchTypeOK /\ OpenWhileUp /\ [Next]_vars => [Registry!Next]_(Registry!vars)
  <1> SUFFICES ASSUME DispatchTypeOK, OpenWhileUp, [Next]_vars
               PROVE  Registry!Next \/ UNCHANGED Registry!vars
    OBVIOUS
  <1>1. CASE comm_poll \/ PollEnds \/ UNCHANGED vars
    <2>1. UNCHANGED <<initialized, callbacks, msg, running, result>>
      BY <1>1 DEF comm_poll, PollEnds, vars, service
    <2> QED
      BY <2>1, SameBag DEF Registry!vars
  <1>2. CASE CallbackReturns
    <2>1. UNCHANGED registered
      BY <1>2, SameBag DEF CallbackReturns, service
    <2>2. Registry!Finish
      BY <1>2, <2>1 DEF CallbackReturns, service, Registry!Finish
    <2> QED
      BY <2>2 DEF Registry!Next
  <1> QED
    BY <1>1, <1>2, CallIsCall, ReceiveIsDeliver DEF Next

\* The callback table and comm_poll implement the bounded bag of registrations, for
\* tables of any size, all types and functions, and callbacks that call back in.
THEOREM TableIsRegistry == Spec => ImplementsRegistry
  <1>1. Init => Registry!Init
    <2>1. Init => registered = Registry!Empty
      BY EmptyTableIsEmptyBag DEF Init
    <2> QED
      BY <2>1 DEF Init, Registry!Init
  <1>2. IInv => DispatchTypeOK
    BY DEF IInv
  <1>3. DispatchTypeOK /\ OpenWhileUp /\ [Next]_vars => [Registry!Next]_(Registry!vars)
    BY StepIsStep
  <1> QED
    BY <1>1, <1>2, <1>3, AlwaysIInv, AlwaysOpenWhileUp, PTL DEF Spec, ImplementsRegistry, Registry!Spec

=============================================================================
