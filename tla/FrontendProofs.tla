--------------------------- MODULE FrontendProofs ---------------------------
(***************************************************************************)
(* Proofs about what frontends get: that no frontend is shut out of a       *)
(* flooded service, that what the monitor reports of a peer is not older    *)
(* than it says, and that the adapter accounts for every command.           *)
(***************************************************************************)
EXTENDS ManagementRuntime, LiveMonitor, FrontendAdapter, FiniteSetTheorems, SequenceTheorems,
        WellFoundedInduction, NaturalsInduction, TLAPS

-----------------------------------------------------------------------------
(* Numbers: a remainder, the smaller of two, a sequence less one element.   *)

LEMMA RestIs ==
  ASSUME NEW a \in Nat, NEW n \in Nat, n > 0
  PROVE  /\ a % n \in 0 .. n - 1
         /\ a < n => a % n = a
         /\ a = n => a % n = 0
<1>1. a % n \in 0 .. n - 1
  BY SMT
<1>2. ASSUME a < n PROVE a % n = a
  BY <1>2, SMT
<1>3. n % n = 0
  BY SMT
<1> QED BY <1>1, <1>2, <1>3

LEMMA LeastOfTwo ==
  ASSUME NEW a \in Nat, NEW b \in Nat
  PROVE  Min({a, b}) = IF a < b THEN a ELSE b
<1> DEFINE m == IF a < b THEN a ELSE b
<1>1. m \in {a, b} /\ \A x \in {a, b} : m <= x
  OBVIOUS
<1>2. \A x \in {a, b} : (\A y \in {a, b} : x <= y) => x = m
  OBVIOUS
<1> QED BY <1>1, <1>2 DEF Min

LEMMA LessOne ==
  ASSUME NEW S, NEW s \in Seq(S), NEW i \in 1 .. Len(s)
  PROVE  /\ RemoveAt(s, i) \in Seq(S) /\ Len(RemoveAt(s, i)) = Len(s) - 1
         /\ \A j \in 1 .. Len(s) - 1 : RemoveAt(s, i)[j] = IF j < i THEN s[j] ELSE s[j + 1]
<1> DEFINE p == SubSeq(s, 1, i - 1)
           q == SubSeq(s, i + 1, Len(s))
<1>1. /\ p \in Seq(S) /\ Len(p) = i - 1 /\ \A j \in 1 .. i - 1 : p[j] = s[j]
      /\ q \in Seq(S) /\ Len(q) = Len(s) - i /\ \A j \in 1 .. Len(s) - i : q[j] = s[i + j]
  OBVIOUS
<1> HIDE DEF p, q
<1>2. /\ p \o q \in Seq(S) /\ Len(p \o q) = Len(s) - 1
      /\ \A j \in 1 .. Len(s) - 1 : (p \o q)[j] = IF j < i THEN s[j] ELSE s[j + 1]
  <2>1. /\ p \o q \in Seq(S) /\ Len(p \o q) = Len(s) - 1
        /\ \A j \in 1 .. Len(s) - 1 : (p \o q)[j] = IF j <= Len(p) THEN p[j] ELSE q[j - Len(p)]
    <3>1. /\ p \o q \in Seq(S) /\ Len(p \o q) = Len(p) + Len(q)
          /\ \A j \in 1 .. Len(p) + Len(q) : (p \o q)[j] = IF j <= Len(p) THEN p[j] ELSE q[j - Len(p)]
      BY <1>1, ConcatProperties
    <3>2. Len(p) + Len(q) = Len(s) - 1
      BY <1>1
    <3> QED BY <3>1, <3>2
  <2>2. ASSUME NEW j \in 1 .. Len(s) - 1, ~(j < i) PROVE q[j - Len(p)] = s[j + 1]
    <3>1. j - Len(p) \in 1 .. Len(s) - i /\ i + (j - Len(p)) = j + 1
      BY <1>1, <2>2
    <3> QED BY <3>1, <1>1
  <2>3. ASSUME NEW j \in 1 .. Len(s) - 1, j < i PROVE p[j] = s[j]
    BY <1>1, <2>3
  <2>4. \A j \in 1 .. Len(s) - 1 : j <= Len(p) <=> j < i
    BY <1>1
  <2> QED BY <2>1, <2>2, <2>3, <2>4
<1>3. RemoveAt(s, i) = p \o q
  BY DEF RemoveAt, p, q
<1> QED BY <1>2, <1>3

(* A property of a non-empty set of numbers: it has a lowest one.           *)
LEMMA LowestExists ==
  ASSUME NEW S \in SUBSET Nat, S # {}
  PROVE  \E n \in S : \A m \in S : n <= m
<1>1. PICK n \in S : \A m \in S : ~(<<m, n>> \in OpToRel(<, Nat))
  BY NatLessThanWellFounded, WFMin
<1>2. ASSUME NEW m \in S, m < n  PROVE FALSE
  <2>1. <<m, n>> \in Nat \X Nat /\ <<m, n>>[1] < <<m, n>>[2]
    BY <1>2
  <2>2. <<m, n>> \in OpToRel(<, Nat)
    BY <2>1 DEF OpToRel
  <2>3. QED BY <1>1, <2>2
<1>3. QED BY <1>2

(* The numbers of a finite set can be put in order: if a bound had a set    *)
(* that cannot, the lowest such bound would have one less than it.          *)
Ordered(S) ==
  /\ Cardinality(S) \in Nat
  /\ \E f \in [1 .. Cardinality(S) -> S] : \A a, b \in DOMAIN f : a < b => f[a] < f[b]

LEMMA NumbersOrdered ==
  ASSUME NEW n \in Nat
  PROVE  \A S \in SUBSET (1 .. n) : Ordered(S)
<1> DEFINE Bad == {k \in Nat : \E S \in SUBSET (1 .. k) : ~Ordered(S)}
<1>1. SUFFICES ASSUME Bad # {}  PROVE FALSE
  OBVIOUS
<1>2. PICK k \in Bad : \A m \in Bad : k <= m
  BY <1>1, LowestExists
<1>3. k \in Nat
  OBVIOUS
<1>4. PICK S \in SUBSET (1 .. k) : ~Ordered(S)
  OBVIOUS
<1>5. IsFiniteSet(S) /\ Cardinality(S) \in Nat
  <2>1. k \in Int /\ 1 \in Int
    BY <1>3
  <2>2. IsFiniteSet(1 .. k)
    BY <2>1, FS_Interval
  <2>3. IsFiniteSet(S)
    BY <2>2, FS_Subset
  <2>4. QED BY <2>3, FS_CardinalityType
<1>6. CASE k = 0
  <2>1. S = {} /\ Cardinality(S) = 0
    <3>1. 1 .. k = {}
      BY <1>6
    <3>2. S = {}
      BY <3>1
    <3>3. QED BY <3>2, FS_EmptySet
  <2>2. << >> \in [1 .. Cardinality(S) -> S]
    BY <2>1
  <2>3. QED BY <1>4, <1>5, <2>1, <2>2 DEF Ordered
<1>7. CASE k # 0
  <2>1. k - 1 \in Nat /\ k - 1 \notin Bad
    BY <1>2, <1>3, <1>7
  <2>2. \A T \in SUBSET (1 .. k - 1) : Ordered(T)
    BY <2>1
  <2> DEFINE T == S \ {k}
  <2>3. T \in SUBSET (1 .. k - 1)
    BY <1>3
  <2>4. Ordered(T)
    BY <2>2, <2>3
  <2>5. S = T \/ k \in S
    OBVIOUS
  <2>6. CASE k \in S
    <3>1. Cardinality(T) = Cardinality(S) - 1
      BY <1>5, <2>6, FS_RemoveElement
    <3> DEFINE c == Cardinality(S)
    <3>2. PICK f \in [1 .. c - 1 -> T] : \A a, b \in DOMAIN f : a < b => f[a] < f[b]
      BY <2>4, <3>1 DEF Ordered
    <3> DEFINE g == [a \in 1 .. c |-> IF a = c THEN k ELSE f[a]]
    <3>3. \A a \in 1 .. c - 1 : f[a] \in S /\ f[a] < k
      <4>1. \A a \in 1 .. c - 1 : f[a] \in T
        OBVIOUS
      <4>2. \A j \in 1 .. k - 1 : j < k
        BY <1>3
      <4>3. QED BY <2>3, <4>1, <4>2
    <3>4. \A a \in 1 .. c : a # c => a \in 1 .. c - 1
      BY <1>5
    <3>5. g \in [1 .. c -> S]
      BY <2>6, <3>3, <3>4
    <3>6. ASSUME NEW a \in 1 .. c, NEW b \in 1 .. c, a < b
          PROVE  g[a] < g[b]
      <4>1. a # c /\ a \in 1 .. c - 1
        BY <1>5, <3>4, <3>6
      <4>2. CASE b = c
        BY <3>3, <4>1, <4>2
      <4>3. CASE b # c
        BY <3>2, <3>4, <3>6, <4>1, <4>3
      <4>4. QED BY <4>2, <4>3
    <3>7. QED
      <4>1. \A a, b \in DOMAIN g : a < b => g[a] < g[b]
        BY <3>6
      <4>2. QED BY <1>4, <1>5, <3>5, <4>1 DEF Ordered
  <2>7. QED BY <1>4, <2>4, <2>5, <2>6
<1>8. QED BY <1>6, <1>7

LEMMA InOrderIs ==
  ASSUME NEW n \in Nat, NEW S \in SUBSET (1 .. n)
  PROVE  /\ Cardinality(S) \in Nat
         /\ InOrder(S) \in [1 .. Cardinality(S) -> S]
         /\ \A a, b \in DOMAIN InOrder(S) : a < b => InOrder(S)[a] < InOrder(S)[b]
BY NumbersOrdered DEF Ordered, InOrder

(* Every place is taken up, once.                                           *)
LEMMA PlacesAre ==
  ASSUME NEW n \in Nat, NEW P \in SUBSET (1 .. n)
  PROVE  /\ Cardinality(P) \in Nat
         /\ \A a \in 1 .. Cardinality(P) : InOrder(P)[a] \in P
         /\ \A a, b \in 1 .. Cardinality(P) : InOrder(P)[a] = InOrder(P)[b] => a = b
         /\ \A i \in P : \E a \in 1 .. Cardinality(P) : InOrder(P)[a] = i
<1> DEFINE c == Cardinality(P)
           f == InOrder(P)
<1>1. c \in Nat /\ f \in [1 .. c -> P] /\ \A a, b \in 1 .. c : a < b => f[a] < f[b]
  BY InOrderIs
<1>2. IsFiniteSet(P) /\ IsFiniteSet(1 .. c) /\ Cardinality(1 .. c) = c
  <2>1. IsFiniteSet(1 .. n)
    BY FS_Interval
  <2>2. c > 0 \/ c = 0
    BY <1>1
  <2>3. IsFiniteSet(1 .. c) /\ Cardinality(1 .. c) = IF 1 > c THEN 0 ELSE c - 1 + 1
    BY <1>1, FS_Interval
  <2>4. IsFiniteSet(P)
    BY <2>1, FS_Subset
  <2> HIDE DEF c
  <2> QED BY <2>2, <2>3, <2>4, <1>1
<1> HIDE DEF f, c
<1>3. \A a \in 1 .. c : f[a] \in P /\ f[a] \in Nat
  <2>1. \A i \in P : i \in Nat
    OBVIOUS
  <2> QED BY <1>1, <2>1
<1>4. ASSUME NEW a \in 1 .. c, NEW b \in 1 .. c, f[a] = f[b] PROVE a = b
  <2>1. ~(f[a] < f[b]) /\ ~(f[b] < f[a])
    BY <1>3, <1>4
  <2>2. ~(a < b) /\ ~(b < a)
    BY <1>1, <2>1
  <2> QED BY <2>2, <1>1
<1>5. f \in Injection(1 .. c, P)
  BY <1>1, <1>4 DEF Injection, IsInjective
<1>6. f \in Surjection(1 .. c, P)
  BY <1>2, <1>5, FS_Injection DEF c
<1>7. \A i \in P : \E a \in 1 .. c : f[a] = i
  BY <1>6 DEF Surjection
<1> QED BY <1>1, <1>3, <1>4, <1>7 DEF f, c

(* What is picked are the elements at the places, each once.                *)
LEMMA PickedIs ==
  ASSUME NEW T, NEW s \in Seq(T), NEW P \in SUBSET (1 .. Len(s))
  PROVE  /\ Picked(s, P) \in Seq(T) /\ Len(Picked(s, P)) = Cardinality(P) /\ Cardinality(P) \in Nat
         /\ \A a \in 1 .. Cardinality(P) : InOrder(P)[a] \in P /\ Picked(s, P)[a] = s[InOrder(P)[a]]
         /\ \A a, b \in 1 .. Cardinality(P) : InOrder(P)[a] = InOrder(P)[b] => a = b
         /\ \A i \in P : \E a \in 1 .. Cardinality(P) : Picked(s, P)[a] = s[i]
<1> DEFINE c == Cardinality(P)
           f == InOrder(P)
<1>1. Picked(s, P) = [a \in 1 .. c |-> s[f[a]]]
  BY DEF Picked
<1>2. /\ c \in Nat
      /\ \A a \in 1 .. c : f[a] \in P
      /\ \A a, b \in 1 .. c : f[a] = f[b] => a = b
      /\ \A i \in P : \E a \in 1 .. c : f[a] = i
  <2>1. Len(s) \in Nat
    OBVIOUS
  <2> QED BY <2>1, PlacesAre
<1> HIDE DEF f, c
<1>3. \A i \in P : s[i] \in T
  OBVIOUS
<1>4. Picked(s, P) \in Seq(T) /\ Len(Picked(s, P)) = c
  <2>1. \A a \in 1 .. c : s[f[a]] \in T
    BY <1>2, <1>3
  <2>2. Picked(s, P) \in [1 .. c -> T]
    BY <1>1, <2>1
  <2> QED BY <1>2, <2>2
<1> QED BY <1>1, <1>2, <1>4 DEF f, c

LEMMA LessOneApart ==
  ASSUME NEW S, NEW s \in Seq(S), IsInjective(s), NEW i \in 1 .. Len(s)
  PROVE  RemoveAt(s, i) \in Seq(S) /\ IsInjective(RemoveAt(s, i))
<1> DEFINE r == RemoveAt(s, i)
           at(j) == IF j < i THEN j ELSE j + 1
<1>1. r \in Seq(S) /\ Len(r) = Len(s) - 1 /\ \A j \in 1 .. Len(r) : r[j] = IF j < i THEN s[j] ELSE s[j + 1]
  BY LessOne
<1> HIDE DEF r
<1>2. ASSUME NEW a \in 1 .. Len(r), NEW b \in 1 .. Len(r), r[a] = r[b] PROVE a = b
  <2>1. /\ at(a) \in 1 .. Len(s) /\ r[a] = s[at(a)]
        /\ at(b) \in 1 .. Len(s) /\ r[b] = s[at(b)]
    BY <1>1
  <2>0. \A c, d \in 1 .. Len(s) : s[c] = s[d] => c = d
    BY DEF IsInjective
  <2>2. at(a) = at(b)
    BY <1>2, <2>0, <2>1
  <2> QED BY <2>2
<1> QED BY <1>1, <1>2 DEF IsInjective, r

-----------------------------------------------------------------------------
(* ManagementRuntime.                                                       *)

(* What the requests of a tick leave: the queue is never filled beyond its  *)
(* size, and the request of the first turn finds a place.                   *)
LEMMA TakesWhatFits ==
  ASSUME RuntimeTypeOK
  PROVE  /\ IsFiniteSet(Accepted) /\ Cardinality(Accepted) \in 0 .. DepthMax - depth
         /\ 1 \in Polled => 1 \in Accepted
<1> DEFINE Before(k) == {j \in Polled : j < k}
           room == DepthMax - depth
<1>1. room \in Nat \ {0} /\ depth \in Nat /\ DepthMax \in Nat /\ Turns \in Nat
  BY RuntimeSizes DEF RuntimeTypeOK, Turns
<1>2. Polled \subseteq 1 .. Turns /\ IsFiniteSet(Polled) /\ Accepted \subseteq Polled
  <2>1. IsFiniteSet(1 .. Turns)
    BY <1>1, FS_Interval
  <2> QED BY <2>1, FS_Subset DEF Polled, Accepted
<1>3. \A k : IsFiniteSet(Before(k)) /\ Cardinality(Before(k)) \in Nat
  BY <1>2, FS_Subset, FS_CardinalityType
<1>4. \A k \in Polled : k \in Accepted <=> Cardinality(Before(k)) < room
  BY <1>1, <1>3 DEF Accepted
<1>5. IsFiniteSet(Accepted) /\ Cardinality(Accepted) \in Nat
  BY <1>2, FS_Subset, FS_CardinalityType
<1>6. Cardinality(Accepted) <= room
  <2> DEFINE f == [k \in Accepted |-> Cardinality(Before(k))]
             T == 0 .. room - 1
  <2>0. \A k \in Accepted : Cardinality(Before(k)) \in T
    BY <1>1, <1>2, <1>3, <1>4
  <2> HIDE DEF Before, T
  <2>1. f \in [Accepted -> T]
    BY <2>0
  <2>2. ASSUME NEW k \in Accepted, NEW l \in Accepted, k < l PROVE f[k] # f[l]
    <3>1. Before(k) \subseteq Before(l) /\ k \in Before(l) /\ k \notin Before(k)
      <4>1. k \in Polled /\ k \in Nat /\ l \in Nat /\ \A j \in Polled : j \in Nat
        BY <1>1, <1>2
      <4>2. \A j \in Polled : j < k => j < l
        BY <2>2, <4>1
      <4>3. ~(k < k)
        BY <4>1
      <4> QED BY <2>2, <4>1, <4>2, <4>3 DEF Before
    <3>2. Cardinality(Before(k)) # Cardinality(Before(l))
      BY <3>1, <1>3, FS_Subset
    <3> QED BY <3>2
  <2>3. f \in Injection(Accepted, T)
    BY <2>1, <2>2, <1>1, <1>2 DEF Injection, IsInjective
  <2>4. IsFiniteSet(T) /\ Cardinality(T) = room
    BY <1>1, FS_Interval DEF T
  <2> QED BY <2>3, <2>4, FS_Injection
<1>7. 1 \in Polled => 1 \in Accepted
  <2>1. \A j \in Polled : ~(j < 1)
    BY <1>1, <1>2
  <2>2. Before(1) = {}
    BY <2>1
  <2> QED BY <2>2, <1>1, <1>4, FS_EmptySet
<1> QED BY <1>1, <1>5, <1>6, <1>7

(* The turn the transport at position i has in the next tick, from 0.       *)
Away(i) == IF i > FirstTurn THEN i - 1 - FirstTurn ELSE i - 1 - FirstTurn + Len(transports)

(* A frontend that was refused for some ticks has its first turn before it  *)
(* was refused as often as there are transports.                            *)
Waits == \A i \in 1 .. Len(transports) : shut[transports[i]] > 0 =>
           cursor < Len(transports) /\ shut[transports[i]] + Away(i) < Len(transports)
Apart == \A f \in Frontends : ~Contains(transports, f) => shut[f] = 0
RuntimeInv == RuntimeTypeOK /\ Waits /\ Apart

LEMMA RuntimeInitInv == RuntimeInit => RuntimeInv
  BY RuntimeSizes DEF RuntimeInit, RuntimeInv, RuntimeTypeOK, Waits, Apart, IsInjective

LEMMA EnqueueKeeps ==
  ASSUME RuntimeInv, NEW f \in Frontends, Enqueue(f)
  PROVE  RuntimeInv'
<1>1. backlog' \in [Frontends -> 0 .. BacklogMax]
  BY RuntimeSizes DEF RuntimeInv, RuntimeTypeOK, Enqueue
<1> QED BY <1>1 DEF RuntimeInv, RuntimeTypeOK, Waits, Apart, Enqueue, Away, FirstTurn

LEMMA AddTransportKeeps ==
  ASSUME RuntimeInv, NEW f \in Frontends, AddTransport(f)
  PROVE  RuntimeInv'
<1> DEFINE n == Len(transports)
<1>1. /\ transports \in Seq(Frontends) /\ n \in Nat /\ cursor \in Nat
      /\ transports' = Append(transports, f) /\ shut' = shut /\ cursor' = cursor
      /\ shut[f] = 0 /\ shut \in [Frontends -> Nat]
      /\ \A i \in 1 .. n : transports[i] # f
  BY DEF RuntimeInv, RuntimeTypeOK, AddTransport, Apart, Contains
<1>2. /\ transports' \in Seq(Frontends) /\ Len(transports') = n + 1
      /\ \A i \in 1 .. n : transports'[i] = transports[i]
      /\ transports'[n + 1] = f
  BY <1>1
<1>3. IsInjective(transports')
  BY <1>1, <1>2 DEF RuntimeInv, RuntimeTypeOK, IsInjective
<1>4. Waits'
  <2> SUFFICES ASSUME NEW i \in 1 .. n, shut[transports[i]] > 0
               PROVE  cursor < n + 1 /\ shut[transports[i]] + Away(i)' < n + 1
    BY <1>1, <1>2 DEF Waits
  <2>1. cursor < n /\ shut[transports[i]] + Away(i) < n /\ shut[transports[i]] \in Nat
    BY <1>1 DEF Waits, RuntimeInv
  <2>2. FirstTurn = cursor /\ FirstTurn' = cursor
    <3>1. n > 0 /\ n + 1 \in Nat /\ n + 1 > 0 /\ cursor < n + 1
      BY <2>1, <1>1
    <3>2. cursor % n = cursor /\ cursor % (n + 1) = cursor
      BY <2>1, <3>1, <1>1, RestIs
    <3> QED BY <3>2, <1>1, <1>2 DEF FirstTurn
  <2>3. Away(i)' <= Away(i) + 1 /\ Away(i) \in Int /\ Away(i)' \in Int
    BY <2>1, <2>2, <1>1, <1>2 DEF Away
  <2> QED BY <2>1, <2>3, <1>1
<1>5. Apart'
  BY <1>1, <1>2 DEF Apart, Contains, RuntimeInv
<1> QED BY <1>1, <1>2, <1>3, <1>4, <1>5 DEF RuntimeInv, RuntimeTypeOK, AddTransport

LEMMA RemoveTransportKeeps ==
  ASSUME RuntimeInv, NEW f \in Frontends, RemoveTransport(f)
  PROVE  RuntimeInv'
<1>1. PICK i \in 1 .. Len(transports) : transports' = RemoveAt(transports, i)
  BY DEF RemoveTransport
<1>2. transports \in Seq(Frontends) /\ IsInjective(transports)
  BY DEF RuntimeInv, RuntimeTypeOK
<1>3. /\ transports' \in Seq(Frontends) /\ Len(transports') = Len(transports) - 1
      /\ \A j \in 1 .. Len(transports') : transports'[j] = IF j < i THEN transports[j] ELSE transports[j + 1]
  BY <1>1, <1>2, LessOne
<1>4. IsInjective(transports')
  BY <1>1, <1>2, LessOneApart
<1>5. shut' = [g \in Frontends |-> 0] /\ UNCHANGED <<cursor, backlog, depth>>
  BY DEF RemoveTransport
<1>6. Waits' /\ Apart'
  BY <1>3, <1>5 DEF Waits, Apart
<1> QED BY <1>3, <1>4, <1>5, <1>6 DEF RuntimeInv, RuntimeTypeOK

LEMMA ClearTransportsKeeps ==
  ASSUME RuntimeInv, ClearTransports
  PROVE  RuntimeInv'
  BY DEF RuntimeInv, RuntimeTypeOK, ClearTransports, Waits, Apart, IsInjective

LEMMA TickKeeps ==
  ASSUME RuntimeInv, Tick
  PROVE  RuntimeInv'
<1> DEFINE n == Len(transports)
           heard == {Turn(k).of : k \in Accepted}
           queued == depth + Cardinality(Accepted)
<1>1. /\ transports \in Seq(Frontends) /\ n \in Nat /\ cursor \in Nat /\ IsInjective(transports)
      /\ shut \in [Frontends -> Nat] /\ backlog \in [Frontends -> 0 .. BacklogMax]
      /\ depth \in 0 .. DepthMax - 1 /\ DepthMax \in Nat \ {0} /\ RoundMax \in Nat \ {0} /\ BacklogMax \in Nat
  BY RuntimeSizes DEF RuntimeInv, RuntimeTypeOK
<1>2. /\ depth' = IF queued = 0 THEN 0 ELSE queued - 1
      /\ cursor' = CursorAfter /\ transports' = transports
      /\ backlog' = [f \in Frontends |-> backlog[f] - Taken(f)]
      /\ shut' = [f \in Frontends |-> IF f \in heard \/ Taken(f) = 0 THEN 0 ELSE shut[f] + 1]
  BY DEF Tick
<1>3. \A f \in Frontends : Taken(f) \in 0 .. backlog[f]
  <2> SUFFICES ASSUME NEW f \in Frontends PROVE Taken(f) \in 0 .. backlog[f]
    OBVIOUS
  <2>1. backlog[f] \in Nat /\ RoundMax \in Nat
    BY <1>1
  <2>2. Min({backlog[f], RoundMax}) \in 0 .. backlog[f]
    BY <2>1, LeastOfTwo
  <2> QED BY <2>1, <2>2 DEF Taken
<1>4. depth' \in 0 .. DepthMax - 1
  BY <1>1, <1>2, TakesWhatFits DEF RuntimeInv
<1>5. backlog' \in [Frontends -> 0 .. BacklogMax] /\ shut' \in [Frontends -> Nat]
  BY <1>1, <1>2, <1>3
<1>6. transports # <<>> => n > 0 /\ FirstTurn \in 0 .. n - 1
  <2>1. transports # <<>> => n > 0
    BY <1>1
  <2> QED BY <2>1, <1>1, RestIs DEF FirstTurn
<1>7. cursor' \in Nat
  <2>1. transports # <<>> => (FirstTurn + 1) % n \in Nat
    BY <1>1, <1>6, RestIs
  <2> QED BY <2>1, <1>1, <1>2 DEF CursorAfter
<1>8. Apart'
  BY <1>2 DEF Taken, Apart
<1>9. ASSUME NEW i \in 1 .. n, shut'[transports[i]] > 0
      PROVE  cursor' < n /\ shut'[transports[i]] + Away(i)' < n
  <2> DEFINE f == transports[i]
  <2>1. f \in Frontends /\ n > 0 /\ FirstTurn \in 0 .. n - 1
    BY <1>1, <1>6
  <2>2. f \notin heard /\ Taken(f) # 0 /\ shut'[f] = shut[f] + 1 /\ shut[f] \in Nat
    BY <1>1, <1>2, <1>9, <2>1
  <2>3. backlog[f] >= 1
    <3>1. Taken(f) \in 0 .. backlog[f] /\ backlog[f] \in Nat
      BY <1>1, <1>3, <2>1
    <3>2. Taken(f) # 0
      BY <2>2
    <3> QED BY <3>1, <3>2
  <2>4. i # FirstTurn + 1
    <3>1. Turn(1) = [of |-> transports[1 + FirstTurn], round |-> 1]
      <4>1. FirstTurn \in Nat /\ FirstTurn < n /\ FirstTurn + 1 - 1 = FirstTurn /\ 1 - 1 = 0
        BY <2>1, <1>1
      <4>3. FirstTurn % n = FirstTurn
        BY <4>1, <2>1, <1>1, RestIs
      <4>2. 0 \div n = 0
        BY <2>1, <1>1, SMT
      <4> QED BY <4>1, <4>2, <4>3 DEF Turn
    <3>2. Turns \in Nat \ {0}
      BY <2>1, <1>1, Z3 DEF Turns
    <3>3. i = FirstTurn + 1 => 1 \in Polled
      BY <3>1, <3>2, <2>1, <2>3 DEF Polled
    <3>4. i = FirstTurn + 1 => f \in heard
      BY <3>1, <3>3, <2>1, TakesWhatFits DEF RuntimeInv
    <3> QED BY <3>4, <2>2
  <2>5. /\ cursor' = IF FirstTurn + 1 = n THEN 0 ELSE FirstTurn + 1
        /\ FirstTurn' = cursor'
    <3>1. cursor' = (FirstTurn + 1) % n
      BY <1>2, <2>1 DEF CursorAfter
    <3>2. cursor' = IF FirstTurn + 1 = n THEN 0 ELSE FirstTurn + 1
      <4>1. FirstTurn + 1 \in Nat /\ (FirstTurn + 1 < n \/ FirstTurn + 1 = n)
        BY <2>1, <1>1
      <4> QED BY <3>1, <4>1, <2>1, <1>1, RestIs
    <3>3. cursor' \in Nat /\ cursor' < n
      BY <3>2, <2>1
    <3>4. FirstTurn' = cursor' % n
      BY <1>2 DEF FirstTurn
    <3> QED BY <3>2, <3>3, <3>4, <2>1, <1>1, RestIs
  <2>6. Away(i) \in 1 .. n - 1 /\ Away(i)' = Away(i) - 1
    BY <2>1, <2>4, <2>5, <1>2 DEF Away
  <2>7. shut[f] > 0 => shut[f] + Away(i) < n
    BY DEF RuntimeInv, Waits
  <2>8. cursor' < n
    BY <2>5, <2>1
  <2> QED BY <2>1, <2>2, <2>6, <2>7, <2>8
<1>10. Waits'
  BY <1>2, <1>9 DEF Waits
<1> QED BY <1>1, <1>2, <1>4, <1>5, <1>7, <1>8, <1>10 DEF RuntimeInv, RuntimeTypeOK

LEMMA RuntimeNextInv == RuntimeInv /\ [RuntimeNext]_runtimeVars => RuntimeInv'
<1> SUFFICES ASSUME RuntimeInv, [RuntimeNext]_runtimeVars PROVE RuntimeInv'
  OBVIOUS
<1>1. CASE UNCHANGED runtimeVars
  BY <1>1 DEF runtimeVars, RuntimeInv, RuntimeTypeOK, Waits, Apart, Away, FirstTurn
<1> QED BY <1>1, EnqueueKeeps, AddTransportKeeps, RemoveTransportKeeps, ClearTransportsKeeps,
           TickKeeps DEF RuntimeNext

(* The state of the runtime has its type: whatever frontends come, go and   *)
(* flood it, the queue of the service has a free place between two ticks.   *)
THEOREM RuntimeTypeCorrect == RuntimeSpec => []RuntimeTypeOK
<1>1. RuntimeInv => RuntimeTypeOK
  BY DEF RuntimeInv
<1> QED BY <1>1, RuntimeInitInv, RuntimeNextInv, PTL DEF RuntimeSpec

(* However many frontends flood the service and however small its queue,    *)
(* none of them is shut out: one that offers a request in every tick gets   *)
(* one accepted within as many ticks as there are transports.               *)
THEOREM EveryFrontendHeard == RuntimeSpec => []NobodyShutOut
<1>1. RuntimeInv => NobodyShutOut
  <2> SUFFICES ASSUME RuntimeInv, NEW f \in Frontends, shut[f] > 0 PROVE shut[f] < Len(transports)
    BY DEF NobodyShutOut
  <2>1. PICK i \in 1 .. Len(transports) : transports[i] = f
    BY DEF RuntimeInv, Apart, Contains
  <2>2. cursor < Len(transports) /\ shut[f] + Away(i) < Len(transports)
    BY <2>1 DEF RuntimeInv, Waits
  <2>3. cursor \in Nat /\ Len(transports) \in Nat /\ shut[f] \in Nat
    BY DEF RuntimeInv, RuntimeTypeOK
  <2>4. FirstTurn = cursor
    BY <2>2, <2>3, RestIs DEF FirstTurn
  <2>5. Away(i) >= 0 /\ Away(i) \in Int
    BY <2>2, <2>3, <2>4 DEF Away
  <2> QED BY <2>2, <2>3, <2>5
<1> QED BY <1>1, RuntimeInitInv, RuntimeNextInv, PTL DEF RuntimeSpec

-----------------------------------------------------------------------------
(* LiveMonitor.                                                             *)

(* The slaves that are offline or silent for too long.                      *)
Quiet(w) == {w[i].peer : i \in {k \in 1 .. Len(w) : ~w[k].online \/ w[k].age >= Silence}}

(* A list of slaves without repetition, on which no slave is quiet that was *)
(* not on w.                                                                *)
Watchlist(v, w) == v \in Seq(Entries) /\ NoneTwice(v) /\ Quiet(v) \subseteq Quiet(w)

LEMMA JustSeenEntry ==
  ASSUME NEW s \in Watched
  PROVE  /\ JustSeen(s) \in Entries /\ JustSeen(s).peer = s
         /\ JustSeen(s).online /\ ~(JustSeen(s).age >= Silence)
  BY MonitorAssumption DEF JustSeen, Entries

(* A list in which element by element the slave is the same and none that   *)
(* was not quiet is quiet.                                                  *)
LEMMA SameSlaves ==
  ASSUME NEW w \in Seq(Entries), NoneTwice(w), NEW v \in Seq(Entries), Len(v) = Len(w),
         \A i \in 1 .. Len(w) : v[i].peer = w[i].peer,
         \A i \in 1 .. Len(w) : (~v[i].online \/ v[i].age >= Silence) =>
                                (~w[i].online \/ w[i].age >= Silence)
  PROVE  Watchlist(v, w)
  BY DEF Watchlist, NoneTwice, Quiet

LEMMA SyncIs ==
  ASSUME kept \in Seq(Watched), IsInjective(kept), NEW w \in Seq(Entries), NoneTwice(w)
  PROVE  Watchlist(SyncLiveMonitorPeers(w), w)
<1> DEFINE P == {i \in 1 .. Len(w) : w[i].peer \in ToSet(kept)}
           Q == {i \in 1 .. Len(kept) : kept[i] \notin OnList(w)}
           known == Picked(w, P)
           added == Picked(kept, Q)
           anew == [i \in 1 .. Len(added) |-> JustSeen(added[i])]
           v == known \o anew
           k == Cardinality(P)
           a == Cardinality(Q)
           f == InOrder(P)
           g == InOrder(Q)
<1>1. SyncLiveMonitorPeers(w) = v
  BY DEF SyncLiveMonitorPeers
<1>0. P \in SUBSET (1 .. Len(w)) /\ Q \in SUBSET (1 .. Len(kept))
  OBVIOUS
<1>q. ASSUME NEW i \in Q PROVE i \in 1 .. Len(kept) /\ kept[i] \notin OnList(w)
  OBVIOUS
<1> HIDE DEF P, Q
<1>2. /\ known \in Seq(Entries) /\ Len(known) = k /\ k \in Nat
      /\ \A i \in 1 .. k : f[i] \in P /\ known[i] = w[f[i]]
      /\ \A i, j \in 1 .. k : f[i] = f[j] => i = j
  BY <1>0, PickedIs
<1>3. /\ added \in Seq(Watched) /\ Len(added) = a /\ a \in Nat
      /\ \A i \in 1 .. a : g[i] \in Q /\ added[i] = kept[g[i]]
      /\ \A i, j \in 1 .. a : g[i] = g[j] => i = j
  BY <1>0, PickedIs
<1> HIDE DEF f, g, k, a, known, added
<1>4. \A i \in 1 .. k : f[i] \in 1 .. Len(w)
  BY <1>0, <1>2
<1>5. \A i \in 1 .. a : g[i] \in 1 .. Len(kept) /\ added[i] \in Watched /\ added[i] \notin OnList(w)
  BY <1>q, <1>3
<1>6. /\ anew \in Seq(Entries) /\ Len(anew) = a
      /\ \A i \in 1 .. a : anew[i] = JustSeen(added[i])
  <2>1. \A i \in 1 .. a : JustSeen(added[i]) \in Entries
    BY <1>5, JustSeenEntry
  <2>2. anew \in [1 .. a -> Entries]
    BY <1>3, <2>1
  <2> QED BY <1>3, <2>2
<1> HIDE DEF anew
<1>7. /\ v \in Seq(Entries) /\ Len(v) = k + a
      /\ \A i \in 1 .. k + a : v[i] = IF i <= k THEN known[i] ELSE anew[i - k]
  <2>1. /\ v \in Seq(Entries) /\ Len(v) = Len(known) + Len(anew)
        /\ \A i \in 1 .. Len(known) + Len(anew) :
             v[i] = IF i <= Len(known) THEN known[i] ELSE anew[i - Len(known)]
    <3>1. known \in Seq(Entries) /\ anew \in Seq(Entries)
      BY <1>2, <1>6
    <3> QED BY <3>1, ConcatProperties
  <2> HIDE DEF v
  <2> QED BY <2>1, <1>2, <1>6
<1> HIDE DEF v
<1>8. ASSUME NEW i \in 1 .. k + a
      PROVE  \/ i \in 1 .. k /\ v[i] = w[f[i]]
             \/ i - k \in 1 .. a /\ v[i] = JustSeen(added[i - k])
  <2>1. CASE i <= k
    BY <2>1, <1>2, <1>7
  <2>2. CASE ~(i <= k)
    <3>1. i - k \in 1 .. a
      BY <2>2, <1>2, <1>3
    <3> QED BY <2>2, <3>1, <1>6, <1>7
  <2> QED BY <2>1, <2>2
<1>9. NoneTwice(v)
  <2> SUFFICES ASSUME NEW i \in 1 .. k + a, NEW j \in 1 .. k + a, v[i].peer = v[j].peer
               PROVE  i = j
    BY <1>7 DEF NoneTwice
  <2>1. \A x \in 1 .. k : w[f[x]].peer \in OnList(w)
    BY <1>4 DEF OnList
  <2>2. \A x \in 1 .. a : JustSeen(added[x]).peer = added[x] /\ added[x] \notin OnList(w)
    BY <1>5, JustSeenEntry
  <2>3. CASE i \in 1 .. k /\ v[i] = w[f[i]] /\ j \in 1 .. k /\ v[j] = w[f[j]]
    BY <2>3, <1>2, <1>4 DEF NoneTwice
  <2>4. CASE /\ i - k \in 1 .. a /\ v[i] = JustSeen(added[i - k])
             /\ j - k \in 1 .. a /\ v[j] = JustSeen(added[j - k])
    <3>1. kept[g[i - k]] = kept[g[j - k]]
      BY <2>2, <2>4, <1>3
    <3>2. i - k = j - k
      BY <2>4, <3>1, <1>3, <1>5 DEF IsInjective
    <3> QED BY <3>2, <1>2, <1>3
  <2> QED BY <2>1, <2>2, <2>3, <2>4, <1>8
<1>10. Quiet(v) \subseteq Quiet(w)
  <2> SUFFICES ASSUME NEW i \in 1 .. k + a, ~v[i].online \/ v[i].age >= Silence
               PROVE  v[i].peer \in Quiet(w)
    BY <1>7 DEF Quiet
  <2>1. i \in 1 .. k /\ v[i] = w[f[i]]
    BY <1>5, <1>8, JustSeenEntry
  <2> QED BY <2>1, <1>4 DEF Quiet
<1> QED BY <1>1, <1>7, <1>9, <1>10 DEF Watchlist

LEMMA MarkedIs ==
  ASSUME NEW w \in Seq(Entries), NoneTwice(w), NEW s \in Watched
  PROVE  Watchlist(Marked(w, s), w)
<1> DEFINE e == JustSeen(s)
<1>1. e \in Entries /\ e.peer = s /\ e.online /\ ~(e.age >= Silence)
  BY JustSeenEntry
<1> HIDE DEF e
<1>2. CASE s \notin ToSet(kept)
  BY <1>2 DEF Marked, Watchlist
<1>3. CASE s \in ToSet(kept) /\ s \notin OnList(w)
  <2> DEFINE v == Append(w, e)
  <2>1. /\ v \in Seq(Entries) /\ Len(v) = Len(w) + 1 /\ v[Len(w) + 1] = e
        /\ \A i \in 1 .. Len(w) : v[i] = w[i]
    BY <1>1
  <2>2. Marked(w, s) = v
    BY <1>3 DEF Marked, e
  <2> HIDE DEF v
  <2>3. \A i \in 1 .. Len(v) : i \in 1 .. Len(w) \/ i = Len(w) + 1
    BY <2>1
  <2>4. \A i \in 1 .. Len(w) : w[i].peer # s
    BY <1>3 DEF OnList
  <2>5. NoneTwice(v)
    BY <1>1, <2>1, <2>3, <2>4 DEF NoneTwice
  <2>6. Quiet(v) \subseteq Quiet(w)
    BY <1>1, <2>1, <2>3 DEF Quiet
  <2> QED BY <2>1, <2>2, <2>5, <2>6 DEF Watchlist
<1>4. CASE s \in ToSet(kept) /\ s \in OnList(w)
  <2> DEFINE v == [i \in 1 .. Len(w) |-> IF w[i].peer = s THEN e ELSE w[i]]
  <2>1. \A i \in 1 .. Len(w) : w[i] \in Entries
    OBVIOUS
  <2>2. v \in Seq(Entries) /\ Len(v) = Len(w)
    <3>1. v \in [1 .. Len(w) -> Entries]
      BY <1>1, <2>1
    <3> QED BY <3>1
  <2>3. /\ \A i \in 1 .. Len(w) : v[i].peer = w[i].peer
        /\ \A i \in 1 .. Len(w) : (~v[i].online \/ v[i].age >= Silence) =>
                                   (~w[i].online \/ w[i].age >= Silence)
    BY <1>1
  <2>4. Marked(w, s) = v
    BY <1>4 DEF Marked, e
  <2> HIDE DEF v
  <2> QED BY <2>2, <2>3, <2>4, SameSlaves
<1> QED BY <1>2, <1>3, <1>4

(* The same list, each slave aged, checked or probed.                       *)
LEMMA EachIs ==
  ASSUME NEW w \in Seq(Entries), NoneTwice(w), NEW v, DOMAIN v = 1 .. Len(w),
         v = [i \in 1 .. Len(w) |-> v[i]],
         \A i \in 1 .. Len(w) : /\ v[i] \in Entries /\ v[i].peer = w[i].peer
                                /\ (~v[i].online \/ v[i].age >= Silence) =>
                                     (~w[i].online \/ w[i].age >= Silence)
  PROVE  Watchlist(v, w) /\ Len(v) = Len(w)
<1>1. v \in [1 .. Len(w) -> Entries]
  OBVIOUS
<1>2. v \in Seq(Entries) /\ Len(v) = Len(w)
  BY <1>1
<1> QED BY <1>2, SameSlaves

LEMMA SettledIs ==
  ASSUME NEW e \in Entries
  PROVE  /\ Settled(e) \in Entries /\ Settled(e).peer = e.peer
         /\ Settled(e).online = e.online /\ Settled(e).age = e.age
<1>1. 0 \in 0 .. ProbeWait
  BY MonitorAssumption
<1> DEFINE d == [e EXCEPT !.pending = FALSE]
<1>2. d \in Entries /\ d.peer = e.peer /\ d.online = e.online /\ d.age = e.age
  BY DEF Entries
<1>3. Settled(e) = [d EXCEPT !.sent = 0]
  BY DEF Settled
<1> HIDE DEF d
<1>4. /\ Settled(e) \in Entries /\ Settled(e).peer = d.peer
      /\ Settled(e).online = d.online /\ Settled(e).age = d.age
  BY <1>1, <1>2, <1>3 DEF Entries
<1> QED BY <1>2, <1>4

LEMMA RecheckedIs ==
  ASSUME NEW e \in Entries
  PROVE  /\ Rechecked(e) \in Entries /\ Rechecked(e).peer = e.peer /\ Rechecked(e).age = e.age
         /\ ~Rechecked(e).online => ~e.online \/ e.age >= Silence
<1> DEFINE d == Settled(e)
<1>1. d \in Entries /\ d.peer = e.peer /\ d.online = e.online /\ d.age = e.age
  BY SettledIs
<1>2. Rechecked(e) = [d EXCEPT !.online = @ /\ e.age < Silence]
  BY DEF Rechecked
<1> HIDE DEF d
<1>3. e.age \in Nat /\ Silence \in Nat /\ (d.online /\ e.age < Silence) \in BOOLEAN
  BY MonitorAssumption DEF Entries
<1>4. PICK b \in BOOLEAN : b = (d.online /\ e.age < Silence)
  BY <1>3
<1>5. Rechecked(e) = [d EXCEPT !.online = b]
  BY <1>2, <1>4
<1>6. /\ Rechecked(e) \in Entries /\ Rechecked(e).peer = d.peer /\ Rechecked(e).age = d.age
      /\ Rechecked(e).online = b
  BY <1>1, <1>5 DEF Entries
<1>7. ~b => ~e.online \/ e.age >= Silence
  <2>1. ~(e.age < Silence) => e.age >= Silence
    BY <1>3
  <2> QED BY <1>1, <1>4, <2>1, Zenon
<1> QED BY <1>1, <1>6, <1>7

LEMMA TimedIs ==
  ASSUME NEW e \in Entries
  PROVE  /\ Timed(e) \in Entries /\ Timed(e).peer = e.peer /\ Timed(e).age = e.age
         /\ ~Timed(e).online => ~e.online \/ e.age >= Silence
  BY RecheckedIs, SettledIs DEF Timed

(* What a tick makes of the list, step by step.                             *)
LEMMA OlderIs ==
  ASSUME NEW w \in Seq(Entries), NoneTwice(w), NEW d \in Nat
  PROVE  /\ Older(w, d) \in Seq(Entries) /\ NoneTwice(Older(w, d))
         /\ OnList(Older(w, d)) = OnList(w)
<1> DEFINE v == Older(w, d)
           Age(e) == IF e.age + d > Silence THEN Silence ELSE e.age + d
           Sent(e) == IF ~e.pending THEN 0 ELSE IF e.sent + d > ProbeWait THEN ProbeWait ELSE e.sent + d
<1>1. ASSUME NEW e \in Entries
      PROVE  /\ [e EXCEPT !.age = Age(e), !.sent = Sent(e)] \in Entries
             /\ [e EXCEPT !.age = Age(e), !.sent = Sent(e)].peer = e.peer
  <2>1. Age(e) \in 0 .. Silence /\ Sent(e) \in 0 .. ProbeWait
    <3>1. /\ e.age \in 0 .. Silence /\ e.sent \in 0 .. ProbeWait /\ e.pending \in BOOLEAN
          /\ Silence \in Nat /\ ProbeWait \in Nat
      BY MonitorAssumption DEF Entries
    <3>2. Age(e) \in 0 .. Silence
      BY <3>1
    <3>3. Sent(e) \in 0 .. ProbeWait
      BY <3>1
    <3> QED BY <3>2, <3>3
  <2>2. PICK a \in 0 .. Silence, b \in 0 .. ProbeWait : a = Age(e) /\ b = Sent(e)
    BY <2>1
  <2>3. [e EXCEPT !.age = a, !.sent = b] \in Entries /\ [e EXCEPT !.age = a, !.sent = b].peer = e.peer
    BY DEF Entries
  <2> QED BY <2>2, <2>3
<1>2. v = [i \in 1 .. Len(w) |-> [w[i] EXCEPT !.age = Age(w[i]), !.sent = Sent(w[i])]]
  BY DEF Older
<1> HIDE DEF v, Age, Sent
<1>3. \A i \in 1 .. Len(w) : w[i] \in Entries
  OBVIOUS
<1>4. \A i \in 1 .. Len(w) : v[i] \in Entries /\ v[i].peer = w[i].peer
  BY <1>1, <1>2, <1>3
<1>5. v \in Seq(Entries) /\ Len(v) = Len(w)
  <2>1. v \in [1 .. Len(w) -> Entries]
    BY <1>2, <1>4
  <2> QED BY <2>1
<1>6. NoneTwice(v) /\ OnList(v) = OnList(w)
  BY <1>4, <1>5 DEF NoneTwice, OnList
<1> QED BY <1>5, <1>6 DEF v

LEMMA QuietListed == ASSUME NEW w PROVE Quiet(w) \subseteq OnList(w)
  BY DEF Quiet, OnList

(* MonitorTypeOK without what the monitor does not change.                  *)
MonitorInv == MonitorTypeOK /\ ShownIsHeld

(* What emitLivePeerTransition tells the frontends keeps up with the list,  *)
(* whatever it has become, if no slave is new to it and offline.            *)
LEMMA ReportKeeps ==
  ASSUME MonitorInv, Report(watch, watch'), watch' \in Seq(Entries), NoneTwice(watch'),
         Quiet(watch') \subseteq OnList(watch)
  PROVE  shown' \in [Watched -> BOOLEAN] /\ muted' \subseteq Watched /\ ShownIsHeld'
<1> DEFINE w == watch
           v == watch'
           changed == {s \in OnList(w) \cap OnList(v) : OnlineIn(w, s) # OnlineIn(v, s)}
           told == IF monitor.enabled THEN changed ELSE {}
           new == OnList(v) \ OnList(w)
<1>1. /\ w \in Seq(Entries) /\ NoneTwice(w) /\ shown \in [Watched -> BOOLEAN] /\ muted \subseteq Watched
      /\ \A i \in 1 .. Len(w) : w[i].peer \notin muted => shown[w[i].peer] = w[i].online
  BY DEF MonitorInv, MonitorTypeOK, ShownIsHeld
<1>2. /\ shown' = [s \in Watched |-> IF s \in told THEN OnlineIn(v, s) ELSE shown[s]]
      /\ muted' = ((muted \ told) \cup (changed \ told) \cup new) \ {s \in new : shown[s]}
  BY DEF Report
<1>3. ASSUME NEW q \in Seq(Entries), NoneTwice(q), NEW i \in 1 .. Len(q)
      PROVE  /\ OnlineIn(q, q[i].peer) = q[i].online /\ q[i].peer \in OnList(q)
             /\ q[i].peer \in Watched /\ q[i].online \in BOOLEAN
  <2>1. q[i] \in Entries
    BY <1>3
  <2>2. q[i].peer \in Watched /\ q[i].online \in BOOLEAN
    BY <2>1 DEF Entries
  <2>3. \A j \in 1 .. Len(q) : q[j].peer = q[i].peer => q[j].online = q[i].online
    BY <1>3 DEF NoneTwice
  <2>4. OnlineIn(q, q[i].peer) <=> q[i].online
    BY <2>2, <2>3 DEF OnlineIn
  <2>5. OnlineIn(q, q[i].peer) \in BOOLEAN
    BY DEF OnlineIn
  <2> QED BY <2>2, <2>4, <2>5 DEF OnList
<1>4. OnList(v) \subseteq Watched
  BY <1>3 DEF OnList
<1>5. shown' \in [Watched -> BOOLEAN] /\ muted' \subseteq Watched
  <2>1. \A s : OnlineIn(v, s) \in BOOLEAN
    BY DEF OnlineIn
  <2> QED BY <1>1, <1>2, <1>4, <2>1
<1>6. ASSUME NEW i \in 1 .. Len(v), v[i].peer \notin muted'
      PROVE  shown'[v[i].peer] = v[i].online
  <2> DEFINE s == v[i].peer
  <2>1. OnlineIn(v, s) = v[i].online /\ s \in OnList(v) /\ s \in Watched /\ v[i].online \in BOOLEAN
    BY <1>3
  <2>2. CASE s \in OnList(w)
    <3>1. PICK j \in 1 .. Len(w) : w[j].peer = s
      BY <2>2 DEF OnList
    <3>2. OnlineIn(w, s) = w[j].online
      BY <1>1, <1>3, <3>1
    <3>3. CASE s \in changed
      <4>1. s \in told
        BY <3>3, <2>2, <1>2, <1>6
      <4> QED BY <4>1, <1>2, <2>1
    <3>4. CASE s \notin changed
      <4>1. s \notin told /\ s \notin muted /\ OnlineIn(w, s) = OnlineIn(v, s)
        BY <3>4, <2>1, <2>2, <1>2, <1>6
      <4>2. shown[s] = w[j].online
        BY <4>1, <3>1, <1>1
      <4> QED BY <4>1, <4>2, <3>2, <2>1, <1>2
    <3> QED BY <3>3, <3>4
  <2>3. CASE s \notin OnList(w)
    <3>1. s \in new /\ s \notin told /\ shown[s] = TRUE
      BY <2>1, <2>3, <1>1, <1>2, <1>6
    <3>2. s \notin Quiet(v)
      BY <2>3
    <3>3. v[i].online = TRUE
      BY <3>2, <2>1 DEF Quiet
    <3> QED BY <3>1, <3>3, <2>1, <1>2
  <2> QED BY <2>2, <2>3
<1>7. ShownIsHeld'
  BY <1>6 DEF ShownIsHeld
<1> QED BY <1>5, <1>7

(* A step that leaves slaves and verdicts alone needs no report.            *)
LEMMA NothingNew ==
  ASSUME MonitorInv, Len(watch') = Len(watch), UNCHANGED <<shown, muted>>,
         \A i \in 1 .. Len(watch) : watch'[i].peer = watch[i].peer /\ watch'[i].online = watch[i].online
  PROVE  ShownIsHeld'
  BY DEF MonitorInv, ShownIsHeld

LEMMA MonitorInitInv == MonitorInit => MonitorInv
<1> SUFFICES ASSUME MonitorInit PROVE MonitorInv
  OBVIOUS
<1>1. ASSUME NEW S \in SUBSET Watched
      PROVE  SetToSeq(S) \in Seq(Watched) /\ IsInjective(SetToSeq(S))
  <2>1. IsFiniteSet(S)
    BY MonitorAssumption, FS_Subset
  <2>2. Cardinality(S) \in Nat /\ ExistsBijection(1 .. Cardinality(S), S)
    BY <2>1, FS_CardinalityType
  <2>3. PICK f \in [1 .. Cardinality(S) -> S] : IsInjective(f)
    BY <2>2 DEF ExistsBijection, Bijection, Injection
  <2>4. SetToSeq(S) \in [1 .. Cardinality(S) -> S] /\ IsInjective(SetToSeq(S))
    BY <2>3 DEF SetToSeq
  <2> QED BY <2>2, <2>4
<1>2. kept \in Seq(Watched) /\ IsInjective(kept)
  BY <1>1 DEF MonitorInit
<1>3. watch = [i \in 1 .. Len(kept) |-> JustSeen(kept[i])]
  BY DEF MonitorInit
<1>4. \A i \in 1 .. Len(kept) : /\ kept[i] \in Watched /\ JustSeen(kept[i]) \in Entries
                                /\ JustSeen(kept[i]).peer = kept[i] /\ JustSeen(kept[i]).online
  BY <1>2, JustSeenEntry
<1>5. watch \in Seq(Entries) /\ Len(watch) = Len(kept)
  <2>1. watch \in [1 .. Len(kept) -> Entries]
    BY <1>3, <1>4
  <2> QED BY <1>2, <2>1
<1>6. \A i \in 1 .. Len(watch) : /\ watch[i].peer = kept[i] /\ kept[i] \in Watched
                                 /\ watch[i].online = TRUE
  BY <1>3, <1>4, <1>5 DEF JustSeen
<1>7. NoneTwice(watch)
  BY <1>2, <1>5, <1>6 DEF NoneTwice, IsInjective
<1>8. ShownIsHeld
  BY <1>6 DEF MonitorInit, ShownIsHeld
<1>11. monitor \in [enabled : BOOLEAN, ignoring : BOOLEAN, cursor : Nat]
  <2>1. monitor \in [enabled : BOOLEAN, ignoring : {FALSE}, cursor : {0}]
    BY DEF MonitorInit
  <2>2. PICK b \in BOOLEAN : monitor = [enabled |-> b, ignoring |-> FALSE, cursor |-> 0]
    BY <2>1
  <2> QED BY <2>2
<1>9. /\ occupied \in BOOLEAN /\ wanted \subseteq Watched /\ alive \subseteq Watched /\ probes \subseteq Watched
  BY DEF MonitorInit
<1>10. /\ shown \in [Watched -> BOOLEAN] /\ muted \subseteq Watched /\ turns \in 0 .. MaxTurns /\ parity \in 0 .. 1
  BY MonitorAssumption DEF MonitorInit
<1> QED BY <1>2, <1>5, <1>7, <1>8, <1>9, <1>10, <1>11 DEF MonitorInv, MonitorTypeOK

(* A step that changes nothing but the list, and reports it.                *)
LEMMA WatchKeeps ==
  ASSUME MonitorInv, NEW w \in Seq(Entries), OnList(w) = OnList(watch), Watchlist(watch', w),
         Report(watch, watch')
  PROVE  /\ watch' \in Seq(Entries) /\ NoneTwice(watch')
         /\ shown' \in [Watched -> BOOLEAN] /\ muted' \subseteq Watched /\ ShownIsHeld'
<1>1. Quiet(watch') \subseteq OnList(watch)
  BY QuietListed DEF Watchlist
<1> QED BY <1>1, ReportKeeps DEF Watchlist

LEMMA MonitorTickKeeps ==
  ASSUME MonitorInv, NEW d \in Steps, NEW critical \in BOOLEAN, NEW broken, MonitorTick(d, critical, broken)
  PROVE  MonitorInv'
<1> DEFINE aged == Older(watch, d)
           old == SyncLiveMonitorPeers(aged)
           resumed == IF monitor.ignoring THEN Each(old, Rechecked) ELSE old
           timed == Each(resumed, Timed)
           chosen == IF timed = << >> THEN {} ELSE Probed(timed, Budget(old), broken)
           active == monitor.enabled /\ ~occupied /\ ~critical
<1>1. /\ monitor' = [monitor EXCEPT !.ignoring = occupied \/ critical,
                                   !.cursor = IF active /\ timed # << >> THEN (@ + 1) % Len(timed) ELSE @]
      /\ watch' = IF ~active THEN old
                  ELSE [i \in 1 .. Len(timed) |->
                          IF timed[i].peer \in chosen THEN [timed[i] EXCEPT !.pending = TRUE, !.sent = 0] ELSE timed[i]]
      /\ probes' = IF active THEN probes \cup chosen ELSE probes
      /\ Report(watch, watch') /\ parity' = (parity + d) % 2
      /\ UNCHANGED <<turns, kept, occupied, wanted, alive>>
  BY DEF MonitorTick, PumpLiveMonitor
<1>2. /\ kept \in Seq(Watched) /\ IsInjective(kept) /\ watch \in Seq(Entries) /\ NoneTwice(watch)
      /\ monitor \in [enabled : BOOLEAN, ignoring : BOOLEAN, cursor : Nat] /\ occupied \in BOOLEAN
      /\ probes \subseteq Watched /\ parity \in Nat /\ d \in Nat
  BY MonitorAssumption DEF MonitorInv, MonitorTypeOK
<1>3. aged \in Seq(Entries) /\ NoneTwice(aged) /\ OnList(aged) = OnList(watch)
  BY <1>2, OlderIs
<1> HIDE DEF aged
<1>4. Watchlist(old, aged)
  BY <1>2, <1>3, SyncIs
<1> HIDE DEF old
<1>5. Watchlist(resumed, old)
  <2> DEFINE v == [i \in 1 .. Len(old) |-> Rechecked(old[i])]
  <2>1. Watchlist(old, old) /\ \A i \in 1 .. Len(old) : old[i] \in Entries
    BY <1>4 DEF Watchlist
  <2>2. old \in Seq(Entries) /\ NoneTwice(old) /\ DOMAIN v = 1 .. Len(old)
    BY <2>1 DEF Watchlist
  <2>3. \A i \in 1 .. Len(old) : /\ v[i] \in Entries /\ v[i].peer = old[i].peer
                                 /\ (~v[i].online \/ v[i].age >= Silence) =>
                                      (~old[i].online \/ old[i].age >= Silence)
    BY <2>1, RecheckedIs
  <2>4. v = [i \in 1 .. Len(old) |-> v[i]]
    OBVIOUS
  <2> HIDE DEF v
  <2>5. Watchlist(v, old)
    BY <2>2, <2>3, <2>4, EachIs
  <2>6. resumed = IF monitor.ignoring THEN v ELSE old
    BY DEF Each, v
  <2> HIDE DEF resumed
  <2> QED BY <2>1, <2>5, <2>6
<1> HIDE DEF resumed
<1>6. Watchlist(timed, resumed)
  <2> DEFINE v == [i \in 1 .. Len(resumed) |-> Timed(resumed[i])]
  <2>1. \A i \in 1 .. Len(resumed) : resumed[i] \in Entries
    BY <1>5 DEF Watchlist
  <2>2. Watchlist(v, resumed)
    BY <2>1, <1>5, TimedIs, EachIs DEF Watchlist
  <2> QED BY <2>2 DEF Each
<1> HIDE DEF timed
<1>7. chosen \subseteq Watched
  <2> SUFFICES ASSUME timed # << >> PROVE Probed(timed, Budget(old), broken) \subseteq Watched
    OBVIOUS
  <2>1. timed \in Seq(Entries) /\ Len(timed) > 0 /\ Len(timed) \in Nat
    BY <1>6 DEF Watchlist
  <2>2. \A k \in 1 .. Len(timed) : ((monitor.cursor + k - 1) % Len(timed)) + 1 \in 1 .. Len(timed)
    <3> SUFFICES ASSUME NEW k \in 1 .. Len(timed)
                 PROVE  ((monitor.cursor + k - 1) % Len(timed)) + 1 \in 1 .. Len(timed)
      OBVIOUS
    <3>1. monitor.cursor + k - 1 \in Nat
      BY <1>2, <2>1
    <3>2. (monitor.cursor + k - 1) % Len(timed) \in 0 .. Len(timed) - 1
      BY <3>1, <2>1, RestIs
    <3> QED BY <3>2, <2>1
  <2>3. \A i \in 1 .. Len(timed) : timed[i].peer \in Watched
    <3>1. \A i \in 1 .. Len(timed) : timed[i] \in Entries
      BY <2>1
    <3> QED BY <3>1 DEF Entries
  <2> QED BY <2>2, <2>3 DEF Probed
<1> HIDE DEF chosen
<1>8. Watchlist(watch', aged)
  <2>1. CASE ~active
    BY <2>1, <1>1, <1>4
  <2>2. CASE active
    <3> DEFINE probed(e) == [e EXCEPT !.pending = TRUE, !.sent = 0]
               v == [i \in 1 .. Len(timed) |-> IF timed[i].peer \in chosen THEN probed(timed[i]) ELSE timed[i]]
    <3>1. \A i \in 1 .. Len(timed) : timed[i] \in Entries
      BY <1>6 DEF Watchlist
    <3>2. \A e \in Entries : /\ probed(e) \in Entries /\ probed(e).peer = e.peer
                             /\ probed(e).online = e.online /\ probed(e).age = e.age
      <4> SUFFICES ASSUME NEW e \in Entries
                   PROVE  /\ probed(e) \in Entries /\ probed(e).peer = e.peer
                          /\ probed(e).online = e.online /\ probed(e).age = e.age
        OBVIOUS
      <4>1. 0 \in 0 .. ProbeWait
        BY MonitorAssumption
      <4> DEFINE x == [e EXCEPT !.pending = TRUE]
      <4>2. x \in Entries /\ x.peer = e.peer /\ x.online = e.online /\ x.age = e.age
        BY DEF Entries
      <4> HIDE DEF x
      <4>3. /\ [x EXCEPT !.sent = 0] \in Entries /\ [x EXCEPT !.sent = 0].peer = x.peer
            /\ [x EXCEPT !.sent = 0].online = x.online /\ [x EXCEPT !.sent = 0].age = x.age
        BY <4>1, <4>2 DEF Entries
      <4> QED BY <4>2, <4>3 DEF x
    <3>3. watch' = v
      BY <2>2, <1>1
    <3> HIDE DEF probed
    <3>4. Watchlist(v, timed)
      BY <3>1, <3>2, <1>6, EachIs DEF Watchlist
    <3> QED BY <3>3, <3>4, <1>4, <1>5, <1>6 DEF Watchlist
  <2> QED BY <2>1, <2>2
<1>9. /\ watch' \in Seq(Entries) /\ NoneTwice(watch')
      /\ shown' \in [Watched -> BOOLEAN] /\ muted' \subseteq Watched /\ ShownIsHeld'
  BY <1>1, <1>3, <1>8, WatchKeeps
<1>10. monitor' \in [enabled : BOOLEAN, ignoring : BOOLEAN, cursor : Nat]
  <2>1. timed \in Seq(Entries) /\ Len(timed) \in Nat /\ (timed # << >> => Len(timed) > 0)
    BY <1>6 DEF Watchlist
  <2>2. timed # << >> => (monitor.cursor + 1) % Len(timed) \in Nat
    BY <1>2, <2>1, RestIs
  <2> DEFINE c == IF active /\ timed # << >> THEN (monitor.cursor + 1) % Len(timed) ELSE monitor.cursor
             g == occupied \/ critical
  <2>3. c \in Nat /\ g \in BOOLEAN
    BY <1>2, <2>2
  <2>4. monitor' = [monitor EXCEPT !.ignoring = g, !.cursor = c]
    BY <1>1
  <2> HIDE DEF c, g
  <2> QED BY <2>3, <2>4, <1>2
<1>11. probes' \subseteq Watched
  BY <1>1, <1>2, <1>7
<1>12. parity' \in 0 .. 1
  <2>1. parity + d \in Nat
    BY <1>2
  <2>2. (parity + d) % 2 \in 0 .. 2 - 1
    BY <2>1, RestIs
  <2>3. parity' = (parity + d) % 2
    BY DEF MonitorTick
  <2> QED BY <2>2, <2>3
<1> QED BY <1>1, <1>9, <1>10, <1>11, <1>12 DEF MonitorInv, MonitorTypeOK

(* The other steps.                                                         *)
LEMMA NoteKeeps ==
  ASSUME MonitorInv, NEW s \in Watched, NoteLivePeerSeen(s), probes' \subseteq Watched,
         UNCHANGED <<turns, parity, kept, monitor, occupied, wanted, alive>>
  PROVE  MonitorInv'
<1>1. watch \in Seq(Entries) /\ NoneTwice(watch)
  BY DEF MonitorInv, MonitorTypeOK
<1>2. Watchlist(watch', watch) /\ Report(watch, watch')
  BY <1>1, MarkedIs DEF NoteLivePeerSeen
<1>3. /\ watch' \in Seq(Entries) /\ NoneTwice(watch')
      /\ shown' \in [Watched -> BOOLEAN] /\ muted' \subseteq Watched /\ ShownIsHeld'
  BY <1>1, <1>2, WatchKeeps
<1> QED BY <1>3 DEF MonitorInv, MonitorTypeOK

LEMMA ProbeAndRxKeep ==
  ASSUME MonitorInv, NEW s \in Watched, ProbeAnswered(s) \/ ProbeLost(s) \/ PassiveRx(s)
  PROVE  MonitorInv'
<1>1. probes \subseteq Watched
  BY DEF MonitorInv, MonitorTypeOK
<1>2. CASE ProbeAnswered(s)
  BY <1>1, <1>2, NoteKeeps DEF ProbeAnswered
<1>3. CASE ProbeLost(s)
  BY <1>3 DEF ProbeLost, MonitorInv, MonitorTypeOK, ShownIsHeld
<1>4. CASE PassiveRx(s)
  BY <1>1, <1>4, NoteKeeps DEF PassiveRx
<1> QED BY <1>2, <1>3, <1>4

LEMMA TurnsStay == MonitorInv /\ Turning => turns' \in 0 .. MaxTurns
  BY MonitorAssumption DEF Turning, MonitorInv, MonitorTypeOK

LEMMA LiveMonitorEnableKeeps ==
  ASSUME MonitorInv, LiveMonitorEnable
  PROVE  MonitorInv'
<1>1. kept \in Seq(Watched) /\ IsInjective(kept) /\ watch \in Seq(Entries) /\ NoneTwice(watch)
  BY DEF MonitorInv, MonitorTypeOK
<1>2. Watchlist(watch', watch) /\ Report(watch, watch')
  BY <1>1, SyncIs DEF LiveMonitorEnable
<1>3. /\ watch' \in Seq(Entries) /\ NoneTwice(watch')
      /\ shown' \in [Watched -> BOOLEAN] /\ muted' \subseteq Watched /\ ShownIsHeld'
  BY <1>1, <1>2, WatchKeeps
<1>4. /\ monitor' \in [enabled : BOOLEAN, ignoring : BOOLEAN, cursor : Nat]
      /\ turns' \in 0 .. MaxTurns /\ UNCHANGED <<kept, occupied, wanted, alive, probes, parity>>
  <2>1. monitor' \in [enabled : BOOLEAN, ignoring : BOOLEAN, cursor : Nat]
    BY DEF LiveMonitorEnable, MonitorInv, MonitorTypeOK
  <2>2. turns' \in 0 .. MaxTurns
    BY TurnsStay DEF LiveMonitorEnable
  <2> QED BY <2>1, <2>2 DEF LiveMonitorEnable, Turning
<1> QED BY <1>3, <1>4 DEF MonitorInv, MonitorTypeOK

LEMMA LiveMonitorDisableKeeps ==
  ASSUME MonitorInv, LiveMonitorDisable
  PROVE  MonitorInv'
<1> DEFINE v == [i \in 1 .. Len(watch) |-> Settled(watch[i])]
<1>1. watch \in Seq(Entries) /\ NoneTwice(watch) /\ watch' = v
  BY DEF MonitorInv, MonitorTypeOK, LiveMonitorDisable, Each
<1>2. \A i \in 1 .. Len(watch) : watch[i] \in Entries
  BY <1>1
<1>3. Watchlist(v, watch) /\ Len(v) = Len(watch)
  BY <1>1, <1>2, SettledIs, EachIs
<1>4. ShownIsHeld'
  <2>1. UNCHANGED <<shown, muted>>
    BY DEF LiveMonitorDisable
  <2>2. \A i \in 1 .. Len(watch) : v[i].peer = watch[i].peer /\ v[i].online = watch[i].online
    BY <1>2, SettledIs
  <2> HIDE DEF v
  <2> QED BY <1>1, <1>3, <2>1, <2>2, NothingNew
<1>5. /\ monitor' \in [enabled : BOOLEAN, ignoring : BOOLEAN, cursor : Nat]
      /\ turns' \in 0 .. MaxTurns
      /\ UNCHANGED <<kept, occupied, wanted, alive, probes, shown, muted, parity>>
  <2>1. monitor' \in [enabled : BOOLEAN, ignoring : BOOLEAN, cursor : Nat]
    BY DEF LiveMonitorDisable, MonitorInv, MonitorTypeOK
  <2>2. turns' \in 0 .. MaxTurns
    BY TurnsStay DEF LiveMonitorDisable
  <2> QED BY <2>1, <2>2 DEF LiveMonitorDisable, Turning
<1> HIDE DEF v
<1> QED BY <1>1, <1>3, <1>4, <1>5 DEF MonitorInv, MonitorTypeOK, Watchlist

LEMMA PairedEventKeeps ==
  ASSUME MonitorInv, NEW s \in Watched, PairedEvent(s)
  PROVE  MonitorInv'
<1>1. kept \in Seq(Watched) /\ IsInjective(kept) /\ watch \in Seq(Entries) /\ NoneTwice(watch)
  BY DEF MonitorInv, MonitorTypeOK
<1> DEFINE v == SyncLiveMonitorPeers(watch)
<1>2. watch' = Marked(v, s) /\ Report(watch, watch')
  BY DEF PairedEvent
<1>3. Watchlist(v, watch)
  BY <1>1, SyncIs
<1> HIDE DEF v
<1>4. Watchlist(Marked(v, s), v)
  BY <1>3, MarkedIs DEF Watchlist
<1>5. Watchlist(watch', watch)
  BY <1>2, <1>3, <1>4 DEF Watchlist
<1>6. /\ watch' \in Seq(Entries) /\ NoneTwice(watch')
      /\ shown' \in [Watched -> BOOLEAN] /\ muted' \subseteq Watched /\ ShownIsHeld'
  BY <1>1, <1>2, <1>5, WatchKeeps
<1> QED BY <1>6 DEF MonitorInv, MonitorTypeOK, PairedEvent

LEMMA RemoveLivePeerStateKeeps ==
  ASSUME MonitorInv, NEW s \in Watched, RemoveLivePeerState(s)
  PROVE  MonitorInv'
<1>1. kept \in Seq(Watched) /\ IsInjective(kept) /\ watch \in Seq(Entries) /\ NoneTwice(watch)
  BY DEF MonitorInv, MonitorTypeOK
<1> DEFINE P == {i \in 1 .. Len(watch) : watch[i].peer # s}
           v == Picked(watch, P)
<1>2. watch' = SyncLiveMonitorPeers(v) /\ Report(watch, watch')
  BY DEF RemoveLivePeerState
<1>3. Watchlist(v, watch)
  <2>1. P \in SUBSET (1 .. Len(watch))
    OBVIOUS
  <2> HIDE DEF P
  <2>2. /\ v \in Seq(Entries) /\ Len(v) = Cardinality(P)
        /\ \A a \in 1 .. Cardinality(P) : InOrder(P)[a] \in P /\ v[a] = watch[InOrder(P)[a]]
        /\ \A a, b \in 1 .. Cardinality(P) : InOrder(P)[a] = InOrder(P)[b] => a = b
    BY <1>1, <2>1, PickedIs
  <2> HIDE DEF v
  <2>3. \A a \in 1 .. Len(v) : InOrder(P)[a] \in 1 .. Len(watch) /\ v[a] = watch[InOrder(P)[a]]
    BY <2>1, <2>2
  <2>4. NoneTwice(v)
    <3> SUFFICES ASSUME NEW a \in 1 .. Len(v), NEW b \in 1 .. Len(v), v[a].peer = v[b].peer PROVE a = b
      BY DEF NoneTwice
    <3>1. InOrder(P)[a] = InOrder(P)[b]
      BY <1>1, <2>3 DEF NoneTwice
    <3> QED BY <2>2, <3>1
  <2>5. Quiet(v) \subseteq Quiet(watch)
    BY <2>3 DEF Quiet
  <2> QED BY <2>2, <2>4, <2>5 DEF Watchlist
<1> HIDE DEF v
<1>4. Watchlist(SyncLiveMonitorPeers(v), v)
  BY <1>1, <1>3, SyncIs DEF Watchlist
<1>5. Watchlist(watch', watch)
  BY <1>2, <1>3, <1>4 DEF Watchlist
<1>6. /\ watch' \in Seq(Entries) /\ NoneTwice(watch')
      /\ shown' \in [Watched -> BOOLEAN] /\ muted' \subseteq Watched /\ ShownIsHeld'
  BY <1>1, <1>2, <1>5, WatchKeeps
<1> QED BY <1>6 DEF MonitorInv, MonitorTypeOK, RemoveLivePeerState

(* Pairing, and what else goes on around the monitor.                       *)
LEMMA PairKeptKeeps ==
  ASSUME MonitorInv, NEW s \in Watched, PairKept(s)
  PROVE  MonitorInv'
<1>1. kept \in Seq(Watched) /\ IsInjective(kept) /\ s \notin ToSet(kept) /\ kept' = Append(kept, s)
  BY DEF MonitorInv, MonitorTypeOK, PairKept
<1>2. /\ kept' \in Seq(Watched) /\ Len(kept') = Len(kept) + 1 /\ kept'[Len(kept) + 1] = s
      /\ \A i \in 1 .. Len(kept) : kept'[i] = kept[i] /\ kept[i] # s
  BY <1>1 DEF ToSet
<1>3. \A i \in 1 .. Len(kept') : i \in 1 .. Len(kept) \/ i = Len(kept) + 1
  BY <1>1, <1>2
<1>4. IsInjective(kept')
  BY <1>1, <1>2, <1>3 DEF IsInjective
<1>5. turns' \in 0 .. MaxTurns
  BY TurnsStay DEF PairKept
<1> QED BY <1>2, <1>4, <1>5 DEF MonitorInv, MonitorTypeOK, ShownIsHeld, PairKept, Turning

LEMMA PairDroppedKeeps ==
  ASSUME MonitorInv, NEW s \in Watched, PairDropped(s)
  PROVE  MonitorInv'
<1>1. PICK i \in 1 .. Len(kept) : kept' = RemoveAt(kept, i)
  BY DEF PairDropped
<1>2. kept \in Seq(Watched) /\ IsInjective(kept)
  BY DEF MonitorInv, MonitorTypeOK
<1>3. kept' \in Seq(Watched) /\ IsInjective(kept')
  BY <1>1, <1>2, LessOneApart
<1>4. turns' \in 0 .. MaxTurns
  BY TurnsStay DEF PairDropped
<1> QED BY <1>3, <1>4 DEF MonitorInv, MonitorTypeOK, ShownIsHeld, PairDropped, Turning

LEMMA AroundKeeps ==
  ASSUME MonitorInv, NEW s \in Watched, Occupy \/ Want(s) \/ Come(s) \/ Go(s)
  PROVE  MonitorInv'
<1>1. /\ turns' \in 0 .. MaxTurns /\ parity' = parity
      /\ occupied' \in BOOLEAN /\ wanted' \subseteq Watched /\ alive' \subseteq Watched
      /\ UNCHANGED <<kept, monitor, watch, probes, shown, muted>>
  <2>1. turns' \in 0 .. MaxTurns /\ parity' = parity
    BY TurnsStay DEF Occupy, Want, Come, Go, Turning
  <2>2. occupied \in BOOLEAN /\ wanted \subseteq Watched /\ alive \subseteq Watched
    BY DEF MonitorInv, MonitorTypeOK
  <2>3. CASE Occupy
    BY <2>1, <2>2, <2>3 DEF Occupy
  <2>4. CASE Want(s)
    BY <2>1, <2>2, <2>4 DEF Want
  <2>5. CASE Come(s)
    BY <2>1, <2>2, <2>5 DEF Come
  <2>6. CASE Go(s)
    BY <2>1, <2>2, <2>6 DEF Go
  <2> QED BY <2>3, <2>4, <2>5, <2>6
<1> QED BY <1>1 DEF MonitorInv, MonitorTypeOK, ShownIsHeld

LEMMA MonitorNextInv == MonitorInv /\ [MonitorNext]_monitorVars => MonitorInv'
<1> SUFFICES ASSUME MonitorInv, [MonitorNext]_monitorVars PROVE MonitorInv'
  OBVIOUS
<1>1. CASE UNCHANGED monitorVars
  BY <1>1 DEF monitorVars, MonitorInv, MonitorTypeOK, ShownIsHeld
<1>2. ASSUME NEW d \in Steps, \/ MonitorTick(d, TRUE, {})
                              \/ \E broken \in SUBSET Fickle : MonitorTick(d, FALSE, broken)
      PROVE  MonitorInv'
  BY <1>2, MonitorTickKeeps
<1>3. CASE LiveMonitorEnable \/ LiveMonitorDisable
  BY <1>3, LiveMonitorEnableKeeps, LiveMonitorDisableKeeps
<1>4. CASE Occupy
  <2>1. turns' \in 0 .. MaxTurns
    BY <1>4, TurnsStay DEF Occupy
  <2> QED BY <1>4, <2>1 DEF Occupy, Turning, MonitorInv, MonitorTypeOK, ShownIsHeld
<1>5. ASSUME NEW s \in Watched, \/ ProbeAnswered(s) \/ ProbeLost(s) \/ PassiveRx(s)
                                \/ PairedEvent(s) \/ RemoveLivePeerState(s)
      PROVE  MonitorInv'
  BY <1>5, ProbeAndRxKeep, PairedEventKeeps, RemoveLivePeerStateKeeps
<1>6. ASSUME NEW s \in Fickle, PairKept(s) \/ PairDropped(s) \/ Want(s) \/ Come(s) \/ Go(s)
      PROVE  MonitorInv'
  <2>1. s \in Watched
    BY MonitorAssumption
  <2> QED BY <1>6, <2>1, PairKeptKeeps, PairDroppedKeeps, AroundKeeps
<1> QED BY <1>1, <1>2, <1>3, <1>4, <1>5, <1>6 DEF MonitorNext

(* The monitor's lists keep their types: no slave is on one of them twice,  *)
(* whatever is paired, dropped, heard and probed in whatever order.         *)
THEOREM MonitorTypeCorrect == MonitorSpec => []MonitorTypeOK
<1>1. MonitorInv => MonitorTypeOK
  BY DEF MonitorInv
<1> QED BY <1>1, MonitorInitInv, MonitorNextInv, PTL DEF MonitorSpec

(* Frontends know of every slave watched whether it is online, unless the   *)
(* monitor was off when it changed or it was paired anew after it was       *)
(* reported offline: for any number of slaves and any ages, and however     *)
(* ticks, probes, pairings, sessions and switches of the monitor fall.      *)
THEOREM ReportsAreCurrent == MonitorSpec => []ShownIsHeld
<1>1. MonitorInv => ShownIsHeld
  BY DEF MonitorInv
<1> QED BY <1>1, MonitorInitInv, MonitorNextInv, PTL DEF MonitorSpec

-----------------------------------------------------------------------------
(* FrontendAdapter: sequences as sets of what they hold.                    *)

LEMMA RangeIs ==
  ASSUME NEW S, NEW s \in Seq(S)
  PROVE  /\ Range(s) \in SUBSET S
         /\ \A n \in 1 .. Len(s) : s[n] \in Range(s)
         /\ \A x \in Range(s) : \E n \in 1 .. Len(s) : s[n] = x
BY DEF Range

LEMMA RangeOfConcat ==
  ASSUME NEW S, NEW p \in Seq(S), NEW q \in Seq(S)
  PROVE  p \o q \in Seq(S) /\ Range(p \o q) = Range(p) \cup Range(q)
<1> DEFINE r == p \o q
<1>1. /\ r \in Seq(S) /\ Len(r) = Len(p) + Len(q)
      /\ \A j \in 1 .. Len(p) + Len(q) : r[j] = IF j <= Len(p) THEN p[j] ELSE q[j - Len(p)]
  BY ConcatProperties
<1> HIDE DEF r
<1>2. ASSUME NEW j \in 1 .. Len(r) PROVE r[j] \in Range(p) \cup Range(q)
  <2>1. CASE j <= Len(p)
    BY <2>1, <1>1, RangeIs
  <2>2. CASE ~(j <= Len(p))
    <3>1. j - Len(p) \in 1 .. Len(q)
      BY <2>2, <1>1
    <3> QED BY <3>1, <2>2, <1>1, RangeIs
  <2> QED BY <2>1, <2>2
<1>3. ASSUME NEW j \in 1 .. Len(p) PROVE p[j] \in Range(r)
  <2>1. j \in 1 .. Len(r) /\ r[j] = p[j]
    BY <1>1
  <2> QED BY <2>1, <1>1, RangeIs
<1>4. ASSUME NEW j \in 1 .. Len(q) PROVE q[j] \in Range(r)
  <2>1. Len(p) + j \in 1 .. Len(r) /\ ~(Len(p) + j <= Len(p)) /\ (Len(p) + j) - Len(p) = j
    BY <1>1
  <2>2. r[Len(p) + j] = q[j]
    BY <2>1, <1>1
  <2> QED BY <2>1, <2>2, <1>1, RangeIs
<1>5. Range(r) \subseteq Range(p) \cup Range(q)
  BY <1>1, <1>2, RangeIs
<1>6. Range(p) \cup Range(q) \subseteq Range(r)
  BY <1>3, <1>4, RangeIs
<1> QED BY <1>1, <1>5, <1>6 DEF r

LEMMA ConcatApart ==
  ASSUME NEW S, NEW p \in Seq(S), NEW q \in Seq(S),
         IsInjective(p), IsInjective(q), Range(p) \cap Range(q) = {}
  PROVE  IsInjective(p \o q)
<1> DEFINE r == p \o q
<1>1. /\ r \in Seq(S) /\ Len(r) = Len(p) + Len(q)
      /\ \A j \in 1 .. Len(p) + Len(q) : r[j] = IF j <= Len(p) THEN p[j] ELSE q[j - Len(p)]
  BY ConcatProperties
<1> HIDE DEF r
<1>2. /\ \A a, b \in 1 .. Len(p) : p[a] = p[b] => a = b
      /\ \A a, b \in 1 .. Len(q) : q[a] = q[b] => a = b
      /\ \A a \in 1 .. Len(p), b \in 1 .. Len(q) : p[a] # q[b]
  <2>1. \A a \in 1 .. Len(p), b \in 1 .. Len(q) : p[a] # q[b]
    BY RangeIs
  <2> QED BY <2>1 DEF IsInjective
<1>3. \A a \in 1 .. Len(r) : IF a <= Len(p) THEN a \in 1 .. Len(p) ELSE a - Len(p) \in 1 .. Len(q)
  BY <1>1
<1>4. ASSUME NEW a \in 1 .. Len(r), NEW b \in 1 .. Len(r), r[a] = r[b] PROVE a = b
  <2>1. CASE a <= Len(p) /\ b <= Len(p)
    BY <2>1, <1>1, <1>2, <1>3, <1>4
  <2>2. CASE a <= Len(p) /\ ~(b <= Len(p))
    BY <2>2, <1>1, <1>2, <1>3, <1>4
  <2>3. CASE ~(a <= Len(p)) /\ b <= Len(p)
    BY <2>3, <1>1, <1>2, <1>3, <1>4
  <2>4. CASE ~(a <= Len(p)) /\ ~(b <= Len(p))
    <3>1. a - Len(p) = b - Len(p)
      BY <2>4, <1>1, <1>2, <1>3, <1>4
    <3> QED BY <3>1, <1>1
  <2> QED BY <2>1, <2>2, <2>3, <2>4
<1>5. DOMAIN r = 1 .. Len(r)
  BY <1>1
<1> QED BY <1>4, <1>5 DEF IsInjective, r

LEMMA RangeOfTail ==
  ASSUME NEW S, NEW s \in Seq(S), s # << >>
  PROVE  /\ Head(s) \in S /\ Tail(s) \in Seq(S) /\ Len(Tail(s)) = Len(s) - 1
         /\ Range(s) = {Head(s)} \cup Range(Tail(s))
         /\ IsInjective(s) => IsInjective(Tail(s)) /\ Head(s) \notin Range(Tail(s))
<1> DEFINE t == Tail(s)
<1>1. /\ Head(s) = s[1] /\ s[1] \in S /\ t \in Seq(S) /\ Len(t) = Len(s) - 1 /\ Len(s) \in Nat \ {0}
      /\ \A j \in 1 .. Len(t) : t[j] = s[j + 1] /\ j + 1 \in 1 .. Len(s) /\ j + 1 # 1
  OBVIOUS
<1> HIDE DEF t
<1>2. Range(t) \subseteq Range(s) /\ s[1] \in Range(s)
  <2>1. \A j \in 1 .. Len(t) : t[j] \in Range(s)
    BY <1>1, RangeIs
  <2>2. 1 \in 1 .. Len(s)
    BY <1>1
  <2> QED BY <1>1, <2>1, <2>2, RangeIs
<1>3. ASSUME NEW n \in 1 .. Len(s) PROVE s[n] \in {s[1]} \cup Range(t)
  <2>1. CASE n # 1
    <3>1. n - 1 \in 1 .. Len(t) /\ (n - 1) + 1 = n
      BY <2>1, <1>1
    <3>2. t[n - 1] = s[n]
      BY <3>1, <1>1
    <3> QED BY <3>1, <3>2, <1>1, RangeIs
  <2> QED BY <2>1
<1>4. Range(s) \subseteq {s[1]} \cup Range(t)
  BY <1>3, RangeIs
<1>5. ASSUME IsInjective(s) PROVE IsInjective(t) /\ s[1] \notin Range(t)
  <2>1. \A a, b \in 1 .. Len(s) : s[a] = s[b] => a = b
    BY <1>5 DEF IsInjective
  <2>2. ASSUME NEW a \in 1 .. Len(t), NEW b \in 1 .. Len(t), t[a] = t[b] PROVE a = b
    <3>1. a + 1 = b + 1
      BY <1>1, <2>1, <2>2
    <3> QED BY <3>1, <1>1
  <2>3. ASSUME NEW a \in 1 .. Len(t) PROVE t[a] # s[1]
    <3>1. 1 \in 1 .. Len(s)
      BY <1>1
    <3> QED BY <3>1, <1>1, <2>1
  <2>4. DOMAIN t = 1 .. Len(t)
    BY <1>1
  <2>5. IsInjective(t)
    BY <2>2, <2>4 DEF IsInjective
  <2>6. \A y \in Range(t) : \E a \in 1 .. Len(t) : t[a] = y
    BY <1>1, RangeIs
  <2> QED BY <2>3, <2>5, <2>6
<1>6. Range(s) = {s[1]} \cup Range(t)
  BY <1>2, <1>4
<1>7. IsInjective(s) => IsInjective(t) /\ s[1] \notin Range(t)
  BY <1>5
<1> QED BY <1>1, <1>6, <1>7 DEF t

LEMMA RangeOfAppend ==
  ASSUME NEW S, NEW s \in Seq(S), NEW x \in S
  PROVE  /\ Append(s, x) \in Seq(S) /\ Len(Append(s, x)) = Len(s) + 1
         /\ Range(Append(s, x)) = Range(s) \cup {x}
         /\ IsInjective(s) /\ x \notin Range(s) => IsInjective(Append(s, x))
<1> DEFINE t == Append(s, x)
<1>1. /\ t \in Seq(S) /\ Len(t) = Len(s) + 1 /\ Len(s) \in Nat /\ t[Len(s) + 1] = x
      /\ \A j \in 1 .. Len(s) : t[j] = s[j]
  OBVIOUS
<1> HIDE DEF t
<1>2. \A j \in 1 .. Len(t) : j \in 1 .. Len(s) \/ j = Len(s) + 1
  BY <1>1
<1>3. \A j \in 1 .. Len(s) : j \in 1 .. Len(t)
  BY <1>1
<1>4. Len(s) + 1 \in 1 .. Len(t)
  BY <1>1
<1>5. Range(t) \subseteq Range(s) \cup {x}
  BY <1>1, <1>2, RangeIs
<1>6. Range(s) \cup {x} \subseteq Range(t)
  <2>1. \A j \in 1 .. Len(s) : s[j] \in Range(t)
    BY <1>1, <1>3, RangeIs
  <2>2. x \in Range(t)
    BY <1>1, <1>4, RangeIs
  <2> QED BY <2>1, <2>2, RangeIs
<1>7. ASSUME IsInjective(s), x \notin Range(s) PROVE IsInjective(t)
  <2>1. \A a, b \in 1 .. Len(s) : s[a] = s[b] => a = b
    BY <1>7 DEF IsInjective
  <2>2. \A a \in 1 .. Len(s) : s[a] # x
    BY <1>7, RangeIs
  <2>3. \A a, b \in 1 .. Len(t) : t[a] = t[b] => a = b
    BY <1>1, <1>2, <2>1, <2>2
  <2>4. DOMAIN t = 1 .. Len(t)
    BY <1>1
  <2> QED BY <2>3, <2>4 DEF IsInjective
<1> QED BY <1>1, <1>5, <1>6, <1>7 DEF t

(* A sequence cut in two: every element is in one of the parts.             *)
LEMMA RangeOfParts ==
  ASSUME NEW S, NEW s \in Seq(S), NEW n \in 0 .. Len(s)
  PROVE  LET p == SubSeq(s, 1, n)
             q == SubSeq(s, n + 1, Len(s))
         IN  /\ p \in Seq(S) /\ Len(p) = n /\ q \in Seq(S) /\ Len(q) = Len(s) - n
             /\ Range(s) = Range(p) \cup Range(q)
             /\ Range(p) = {s[k] : k \in 1 .. n} /\ Range(q) = {s[k] : k \in n + 1 .. Len(s)}
             /\ IsInjective(s) => IsInjective(p) /\ IsInjective(q) /\ Range(p) \cap Range(q) = {}
<1> DEFINE p == SubSeq(s, 1, n)
           q == SubSeq(s, n + 1, Len(s))
<1>1. /\ p \in Seq(S) /\ Len(p) = n /\ \A j \in 1 .. n : p[j] = s[j]
      /\ q \in Seq(S) /\ Len(q) = Len(s) - n /\ \A j \in 1 .. Len(s) - n : q[j] = s[n + j]
      /\ Len(s) \in Nat /\ n \in Nat
  OBVIOUS
<1> HIDE DEF p, q
<1>2. Range(p) = {s[k] : k \in 1 .. n}
  <2>1. \A x \in Range(p) : \E k \in 1 .. n : s[k] = x
    BY <1>1, RangeIs
  <2>2. \A k \in 1 .. n : s[k] \in Range(p)
    BY <1>1, RangeIs
  <2> QED BY <2>1, <2>2
<1>3. Range(q) = {s[k] : k \in n + 1 .. Len(s)}
  <2>1. \A j \in 1 .. Len(s) - n : n + j \in n + 1 .. Len(s)
    BY <1>1
  <2>2. \A k \in n + 1 .. Len(s) : k - n \in 1 .. Len(s) - n /\ n + (k - n) = k
    BY <1>1
  <2>3. ASSUME NEW x \in Range(q) PROVE \E k \in n + 1 .. Len(s) : s[k] = x
    <3>1. PICK j \in 1 .. Len(s) - n : q[j] = x
      BY <1>1, RangeIs
    <3> QED BY <3>1, <2>1, <1>1
  <2>4. ASSUME NEW k \in n + 1 .. Len(s) PROVE s[k] \in Range(q)
    <3>1. q[k - n] = s[k] /\ k - n \in 1 .. Len(q)
      BY <1>1, <2>2
    <3> QED BY <3>1, <1>1, RangeIs
  <2> QED BY <2>3, <2>4
<1>4. Range(s) = Range(p) \cup Range(q)
  <2>1. \A k \in 1 .. Len(s) : k \in 1 .. n \/ k \in n + 1 .. Len(s)
    BY <1>1
  <2>2. \A k \in 1 .. n : k \in 1 .. Len(s)
    BY <1>1
  <2>3. \A k \in n + 1 .. Len(s) : k \in 1 .. Len(s)
    BY <1>1
  <2>4. \A k \in 1 .. Len(s) : s[k] \in Range(p) \cup Range(q)
    BY <1>2, <1>3, <2>1
  <2>5. (\A k \in 1 .. n : s[k] \in Range(s)) /\ (\A k \in n + 1 .. Len(s) : s[k] \in Range(s))
    BY <2>2, <2>3, RangeIs
  <2>6. Range(s) \subseteq Range(p) \cup Range(q)
    BY <2>4, RangeIs
  <2>7. Range(p) \cup Range(q) \subseteq Range(s)
    BY <1>2, <1>3, <2>5
  <2> QED BY <2>6, <2>7
<1>5. ASSUME IsInjective(s) PROVE IsInjective(p) /\ IsInjective(q) /\ Range(p) \cap Range(q) = {}
  <2>1. \A a, b \in 1 .. Len(s) : s[a] = s[b] => a = b
    BY <1>5 DEF IsInjective
  <2>2. DOMAIN p = 1 .. n /\ DOMAIN q = 1 .. Len(s) - n
    BY <1>1
  <2>3. \A a, b \in 1 .. n : p[a] = p[b] => a = b
    BY <1>1, <2>1
  <2>4. ASSUME NEW a \in 1 .. Len(s) - n, NEW b \in 1 .. Len(s) - n, q[a] = q[b] PROVE a = b
    <3>1. n + a \in 1 .. Len(s) /\ n + b \in 1 .. Len(s)
      BY <1>1
    <3>2. n + a = n + b
      BY <3>1, <1>1, <2>1, <2>4
    <3> QED BY <3>2, <1>1
  <2>5. ASSUME NEW k \in 1 .. n, NEW l \in n + 1 .. Len(s) PROVE s[k] # s[l]
    <3>1. k \in 1 .. Len(s) /\ l \in 1 .. Len(s) /\ k # l
      BY <1>1
    <3> QED BY <3>1, <2>1
  <2>6. Range(p) \cap Range(q) = {}
    BY <1>2, <1>3, <2>5
  <2> QED BY <2>2, <2>3, <2>4, <2>6 DEF IsInjective
<1> QED BY <1>1, <1>2, <1>3, <1>4, <1>5 DEF p, q

-----------------------------------------------------------------------------
(* FrontendAdapter: the service.                                            *)

Answers    == [id : Asks, what : Answering]
Events     == [id : Asks, what : Happening]
AnyMessage == Answers \cup Events
EndWords   == {"Ok", "Done", "Fail", "Timeout"}
Outcomes   == {"Ok", "Fail", "Timeout"}

(* The ids of messages, of those that tell an end, and messages that tell   *)
(* the end the service gave the command.                                    *)
IdsOf(M)    == {m.id : m \in M}
EndsIn(M)   == {m.id : m \in {x \in M : x.what \in EndWords}}
Agree(M, v) == \A m \in M : m.what \in EndWords =>
                 v[m.id] = IF m.what = "Done" THEN "Ok" ELSE m.what

Said(s) == Range(s.resp) \cup Range(s.ev)
Busy(s) == Range(s.queue) \cup s.owed \cup s.pulls

LEMMA FrontSizes ==
  /\ MaxAsked \in Nat \ {0} /\ ServiceDepth \in Nat \ {0} /\ BoxSize \in Nat \ {0}
  /\ TrackSize \in Nat \ {0} /\ PollMax \in Nat \ {0} /\ MaxRadio \in Nat
  /\ NoCall \notin Calls
BY Capacities

LEMMA MessageIs ==
  /\ \A m \in AnyMessage : m.id \in Asks
  /\ \A q \in Messages(Answering) : q \in Seq(Answers) /\ q \in Seq(AnyMessage)
  /\ \A q \in Messages(Happening) : q \in Seq(Events) /\ q \in Seq(AnyMessage)
  /\ \A i \in Asks : \A w \in Answering : Saying(i, w) \in Answers
  /\ \A i \in Asks : \A w \in Happening : Saying(i, w) \in Events
<1>1. \A m \in AnyMessage : m.id \in Asks
  BY DEF AnyMessage, Answers, Events
<1>2. Answers \subseteq AnyMessage /\ Events \subseteq AnyMessage
  BY DEF AnyMessage
<1>3. /\ \A q \in Messages(Answering) : q \in Seq(Answers)
      /\ \A q \in Messages(Happening) : q \in Seq(Events)
  BY DEF Messages, Answers, Events
<1>4. /\ \A q \in Seq(Answers) : q \in Seq(AnyMessage)
      /\ \A q \in Seq(Events) : q \in Seq(AnyMessage)
  BY <1>2
<1>5. /\ \A i \in Asks : \A w \in Answering : Saying(i, w) \in Answers
      /\ \A i \in Asks : \A w \in Happening : Saying(i, w) \in Events
  BY DEF Saying, Answers, Events
<1> QED BY <1>1, <1>3, <1>4, <1>5

(* What a full queue pushes out is known by its ids.                        *)
LEMMA RecentIs ==
  ASSUME NEW S, NEW q \in Seq(S), NEW size \in Nat
  PROVE  /\ Recent(q, size) \in Seq(S) /\ Range(Recent(q, size)) \subseteq Range(q)
         /\ \A m \in Range(q) : m \in Range(Recent(q, size)) \/ m.id \in Pushed(q, size)
         /\ Pushed(q, size) \subseteq IdsOf(Range(q))
<1> DEFINE n == Over(q, size)
           p == SubSeq(q, 1, n)
           r == SubSeq(q, n + 1, Len(q))
<1>1. n \in 0 .. Len(q)
  BY DEF Over
<1> HIDE DEF n
<1>2. /\ r \in Seq(S) /\ Range(q) = Range(p) \cup Range(r)
      /\ Range(p) = {q[k] : k \in 1 .. n}
  <2>1. r \in Seq(S)
    BY <1>1, RangeOfParts
  <2>2. Range(q) = Range(p) \cup Range(r)
    BY <1>1, RangeOfParts
  <2>3. Range(p) = {q[k] : k \in 1 .. n}
    BY <1>1, RangeOfParts
  <2> QED BY <2>1, <2>2, <2>3
<1>3. Recent(q, size) = r /\ Pushed(q, size) = {q[k].id : k \in 1 .. n}
  BY DEF Recent, Pushed, n
<1> HIDE DEF p, r
<1>4. \A m \in Range(p) : m.id \in Pushed(q, size)
  BY <1>2, <1>3
<1>5. \A i \in Pushed(q, size) : \E m \in Range(p) : m.id = i
  BY <1>2, <1>3
<1> QED BY <1>2, <1>3, <1>4, <1>5 DEF IdsOf

LEMMA KeptIs ==
  ASSUME NEW S, NEW q \in Seq(S)
  PROVE  /\ Kept(q) \in Seq(S) /\ Range(Kept(q)) \subseteq Range(q)
         /\ \A m \in Range(q) : m \in Range(Kept(q)) \/ m.id \in Cut(q)
         /\ Cut(q) \subseteq IdsOf(Range(q))
<1> DEFINE n == Min({Len(q), BoxSize})
           p == SubSeq(q, 1, n)
           r == SubSeq(q, n + 1, Len(q))
<1>0. Len(q) \in Nat /\ BoxSize \in Nat
  BY FrontSizes
<1>1. n = IF Len(q) < BoxSize THEN Len(q) ELSE BoxSize
  BY <1>0, LeastOfTwo
<1> HIDE DEF n
<1>2. n \in 0 .. Len(q)
  BY <1>0, <1>1
<1>3. /\ p \in Seq(S) /\ Range(q) = Range(p) \cup Range(r)
      /\ Range(r) = {q[k] : k \in n + 1 .. Len(q)}
  BY <1>2, RangeOfParts
<1>4. Kept(q) = p
  BY DEF Kept, n
<1>5. Cut(q) = {q[k].id : k \in n + 1 .. Len(q)}
  <2>1. \A k \in 1 .. Len(q) : k > BoxSize <=> k \in n + 1 .. Len(q)
    BY <1>0, <1>1
  <2>2. \A k \in n + 1 .. Len(q) : k \in 1 .. Len(q)
    BY <1>0, <1>2
  <2>3. {k \in DOMAIN q : k > BoxSize} = n + 1 .. Len(q)
    BY <2>1, <2>2
  <2> QED BY <2>3 DEF Cut
<1> HIDE DEF p, r
<1>6. \A m \in Range(r) : m.id \in Cut(q)
  BY <1>3, <1>5
<1>7. \A i \in Cut(q) : \E m \in Range(r) : m.id = i
  BY <1>3, <1>5
<1> QED BY <1>3, <1>4, <1>6, <1>7 DEF IdsOf

(* From s the service came to t by telling the messages of M: each of them, *)
(* and each that waited already, waits, or its id is known to be lost.      *)
Told(s, t, M) ==
  /\ t \in SvcStates
  /\ t.queue = s.queue /\ t.owed = s.owed /\ t.pulls = s.pulls
  /\ t.epoch = s.epoch /\ t.active = s.active /\ t.verdict = s.verdict
  /\ s.lost \subseteq t.lost
  /\ Said(t) \subseteq Said(s) \cup M
  /\ \A m \in Said(s) \cup M : m \in Said(t) \/ m.id \in t.lost

LEMMA ToldTwice ==
  ASSUME NEW s, NEW t, NEW u, NEW M, NEW N, Told(s, t, M), Told(t, u, N)
  PROVE  Told(s, u, M \cup N)
<1>1. /\ u \in SvcStates
      /\ u.queue = s.queue /\ u.owed = s.owed /\ u.pulls = s.pulls
      /\ u.epoch = s.epoch /\ u.active = s.active /\ u.verdict = s.verdict
  BY DEF Told
<1>2. s.lost \subseteq t.lost /\ t.lost \subseteq u.lost
  BY DEF Told
<1>3. /\ Said(t) \subseteq Said(s) \cup M /\ Said(u) \subseteq Said(t) \cup N
      /\ \A m \in Said(s) \cup M : m \in Said(t) \/ m.id \in t.lost
      /\ \A m \in Said(t) \cup N : m \in Said(u) \/ m.id \in u.lost
  BY DEF Told
<1>4. Said(u) \subseteq Said(s) \cup (M \cup N)
  BY <1>3
<1>5. \A m \in Said(s) \cup (M \cup N) : m \in Said(u) \/ m.id \in u.lost
  BY <1>2, <1>3
<1> QED BY <1>1, <1>2, <1>4, <1>5 DEF Told

LEMMA TellsIs ==
  ASSUME NEW s \in SvcStates, NEW a \in Messages(Answering), NEW e \in Messages(Happening)
  PROVE  Told(s, Tells(s, a, e), Range(a) \cup Range(e))
<1> DEFINE ra == Recent(s.resp \o a, ServiceDepth)
           re == Recent(s.ev \o e, 2 * ServiceDepth)
           pa == Pushed(s.resp \o a, ServiceDepth)
           pe == Pushed(s.ev \o e, 2 * ServiceDepth)
           t  == Tells(s, a, e)
<1>1. /\ s.resp \in Seq(Answers) /\ a \in Seq(Answers)
      /\ s.ev \in Seq(Events) /\ e \in Seq(Events)
  BY MessageIs DEF SvcStates
<1>2. ServiceDepth \in Nat /\ 2 * ServiceDepth \in Nat
  BY FrontSizes
<1>3. /\ s.resp \o a \in Seq(Answers) /\ Range(s.resp \o a) = Range(s.resp) \cup Range(a)
      /\ s.ev \o e \in Seq(Events) /\ Range(s.ev \o e) = Range(s.ev) \cup Range(e)
  BY <1>1, RangeOfConcat
<1>4. /\ ra \in Seq(Answers) /\ Range(ra) \subseteq Range(s.resp \o a)
      /\ \A m \in Range(s.resp \o a) : m \in Range(ra) \/ m.id \in pa
      /\ pa \subseteq IdsOf(Range(s.resp \o a))
  BY <1>2, <1>3, RecentIs
<1>5. /\ re \in Seq(Events) /\ Range(re) \subseteq Range(s.ev \o e)
      /\ \A m \in Range(s.ev \o e) : m \in Range(re) \/ m.id \in pe
      /\ pe \subseteq IdsOf(Range(s.ev \o e))
  BY <1>2, <1>3, RecentIs
<1>6. pa \cup pe \subseteq Asks
  <2>1. \A m \in Range(s.resp \o a) : m.id \in Asks
    BY <1>3, RangeIs, MessageIs DEF AnyMessage
  <2>2. \A m \in Range(s.ev \o e) : m.id \in Asks
    BY <1>3, RangeIs, MessageIs DEF AnyMessage
  <2> QED BY <2>1, <2>2, <1>4, <1>5 DEF IdsOf
<1>7. t = [s EXCEPT !.resp = ra, !.ev = re, !.lost = (s.lost \cup pa) \cup pe]
  BY DEF Tells
<1> HIDE DEF ra, re, pa, pe, t
<1>8. ra \in Messages(Answering) /\ re \in Messages(Happening) /\ (s.lost \cup pa) \cup pe \in SUBSET Asks
  BY <1>4, <1>5, <1>6 DEF SvcStates, Answers, Events, Messages
<1>9. /\ t \in SvcStates
      /\ t.queue = s.queue /\ t.owed = s.owed /\ t.pulls = s.pulls
      /\ t.epoch = s.epoch /\ t.active = s.active /\ t.verdict = s.verdict
      /\ t.resp = ra /\ t.ev = re /\ t.lost = (s.lost \cup pa) \cup pe
  BY <1>7, <1>8 DEF SvcStates
<1>10. Said(t) \subseteq Said(s) \cup (Range(a) \cup Range(e))
  BY <1>3, <1>4, <1>5, <1>9 DEF Said
<1>11. \A m \in Said(s) \cup (Range(a) \cup Range(e)) : m \in Said(t) \/ m.id \in t.lost
  BY <1>3, <1>4, <1>5, <1>9 DEF Said
<1> QED BY <1>9, <1>10, <1>11 DEF Told, t

(* Every command the service may work on is in one place: it waits at the   *)
(* adapter's transport (R), in the queue, for its exchange or for a pull.   *)
Separate(s, R) ==
  /\ IsInjective(s.queue) /\ Range(s.queue) \cap (s.owed \cup s.pulls \cup R) = {}
  /\ s.owed \cap (s.pulls \cup R) = {} /\ s.pulls \cap R = {}

(* A command it may work on has no verdict, and every end it told of is     *)
(* the verdict.                                                             *)
SvcInv(s, R) ==
  /\ s \in SvcStates /\ Separate(s, R)
  /\ \A i \in Busy(s) \cup R : s.verdict[i] = "None"
  /\ Agree(Said(s), s.verdict)

(* From s and the requests of R the service came to t and those of Q        *)
(* without losing track of a command: the one it is through with was told   *)
(* its end, or is known to be lost.                                         *)
Serves(s, t, R, Q) ==
  /\ SvcInv(t, Q)
  /\ t.epoch = s.epoch /\ t.active = s.active /\ s.lost \subseteq t.lost
  /\ Busy(t) \cup Q \subseteq Busy(s) \cup R
  /\ Busy(s) \cup R \cup EndsIn(Said(s)) \subseteq Busy(t) \cup Q \cup EndsIn(Said(t)) \cup t.lost
  /\ IdsOf(Said(t)) \subseteq IdsOf(Said(s)) \cup Busy(s) \cup R
  /\ \A i \in Asks : t.verdict[i] = s.verdict[i] \/ i \in Busy(s) \cup R

LEMMA ServesTwice ==
  ASSUME NEW s, NEW t, NEW u, NEW P, NEW Q, NEW R, Serves(s, t, P, Q), Serves(t, u, Q, R)
  PROVE  Serves(s, u, P, R)
<1>1. /\ t.epoch = s.epoch /\ t.active = s.active /\ s.lost \subseteq t.lost
      /\ u.epoch = t.epoch /\ u.active = t.active /\ t.lost \subseteq u.lost
      /\ Busy(t) \cup Q \subseteq Busy(s) \cup P /\ Busy(u) \cup R \subseteq Busy(t) \cup Q
      /\ SvcInv(u, R)
  BY DEF Serves
<1>2. /\ Busy(s) \cup P \cup EndsIn(Said(s)) \subseteq Busy(t) \cup Q \cup EndsIn(Said(t)) \cup t.lost
      /\ Busy(t) \cup Q \cup EndsIn(Said(t)) \subseteq Busy(u) \cup R \cup EndsIn(Said(u)) \cup u.lost
  BY DEF Serves
<1>3. /\ IdsOf(Said(t)) \subseteq IdsOf(Said(s)) \cup Busy(s) \cup P
      /\ IdsOf(Said(u)) \subseteq IdsOf(Said(t)) \cup Busy(t) \cup Q
  BY DEF Serves
<1>4. /\ \A i \in Asks : t.verdict[i] = s.verdict[i] \/ i \in Busy(s) \cup P
      /\ \A i \in Asks : u.verdict[i] = t.verdict[i] \/ i \in Busy(t) \cup Q
  BY DEF Serves
<1>5. Busy(s) \cup P \cup EndsIn(Said(s)) \subseteq Busy(u) \cup R \cup EndsIn(Said(u)) \cup u.lost
  BY <1>1, <1>2
<1>6. IdsOf(Said(u)) \subseteq IdsOf(Said(s)) \cup Busy(s) \cup P
  BY <1>1, <1>3
<1>7. \A i \in Asks : u.verdict[i] = s.verdict[i] \/ i \in Busy(s) \cup P
  BY <1>1, <1>4
<1> QED BY <1>1, <1>5, <1>6, <1>7 DEF Serves

LEMMA SvcTypes ==
  ASSUME NEW s \in SvcStates
  PROVE  /\ s.queue \in Seq(Asks) /\ Range(s.queue) \in SUBSET Asks
         /\ s.owed \in SUBSET Asks /\ s.pulls \in SUBSET Asks /\ s.lost \in SUBSET Asks
         /\ Busy(s) \in SUBSET Asks
         /\ s.verdict \in [Asks -> {"None", "Ok", "Fail", "Timeout"}]
         /\ s.resp \in Seq(Answers) /\ s.ev \in Seq(Events) /\ Said(s) \in SUBSET AnyMessage
         /\ IdsOf(Said(s)) \in SUBSET Asks
<1>1. /\ s.queue \in Seq(Asks) /\ s.owed \in SUBSET Asks /\ s.pulls \in SUBSET Asks
      /\ s.lost \in SUBSET Asks /\ s.verdict \in [Asks -> {"None", "Ok", "Fail", "Timeout"}]
      /\ s.resp \in Messages(Answering) /\ s.ev \in Messages(Happening)
  BY DEF SvcStates
<1>2. s.resp \in Seq(Answers) /\ s.ev \in Seq(Events)
  BY <1>1, MessageIs
<1>3. Range(s.queue) \in SUBSET Asks
  BY <1>1, RangeIs
<1>4. Range(s.resp) \in SUBSET Answers /\ Range(s.ev) \in SUBSET Events
  BY <1>2, RangeIs
<1>5. Said(s) \in SUBSET AnyMessage
  BY <1>4 DEF Said, AnyMessage
<1>6. IdsOf(Said(s)) \in SUBSET Asks
  BY <1>5, MessageIs DEF IdsOf
<1> QED BY <1>1, <1>2, <1>3, <1>5, <1>6 DEF Busy

(* The service changes what it has to do to that of b and comes to t by     *)
(* telling M, through with some commands.                                   *)
Works(s, b, t, R, Q, M, through) ==
  /\ R \in SUBSET Asks /\ Q \in SUBSET Asks /\ b \in SvcStates /\ M \in SUBSET AnyMessage
  /\ SvcInv(s, R) /\ Told(b, t, M) /\ Separate(b, Q) /\ Said(b) = Said(s)
  /\ s.lost \subseteq b.lost /\ b.epoch = s.epoch /\ b.active = s.active
  /\ Busy(b) \cup Q = (Busy(s) \cup R) \ through
  /\ through \subseteq Busy(s) \cup R /\ through \subseteq EndsIn(M) \cup b.lost
  /\ \A i \in Asks : b.verdict[i] = s.verdict[i] \/ i \in through
  /\ Agree(M, b.verdict) /\ IdsOf(M) \subseteq Busy(s) \cup R

LEMMA WorkServes ==
  ASSUME NEW s, NEW b, NEW t, NEW R, NEW Q, NEW M, NEW through,
         Works(s, b, t, R, Q, M, through)
  PROVE  Serves(s, t, R, Q)
<1>0. /\ R \in SUBSET Asks /\ Q \in SUBSET Asks /\ b \in SvcStates /\ M \in SUBSET AnyMessage
      /\ SvcInv(s, R) /\ Told(b, t, M) /\ Separate(b, Q) /\ Said(b) = Said(s)
      /\ s.lost \subseteq b.lost /\ b.epoch = s.epoch /\ b.active = s.active
      /\ Busy(b) \cup Q = (Busy(s) \cup R) \ through
      /\ through \subseteq Busy(s) \cup R /\ through \subseteq EndsIn(M) \cup b.lost
      /\ \A i \in Asks : b.verdict[i] = s.verdict[i] \/ i \in through
      /\ Agree(M, b.verdict) /\ IdsOf(M) \subseteq Busy(s) \cup R
  BY DEF Works
<1>1. /\ s \in SvcStates /\ \A i \in Busy(s) \cup R : s.verdict[i] = "None"
      /\ \A m \in Said(s) : m.what \in EndWords =>
           s.verdict[m.id] = IF m.what = "Done" THEN "Ok" ELSE m.what
  BY <1>0 DEF SvcInv, Agree
<1>2. /\ t \in SvcStates /\ t.queue = b.queue /\ t.owed = b.owed /\ t.pulls = b.pulls
      /\ t.epoch = s.epoch /\ t.active = s.active /\ t.verdict = b.verdict
      /\ b.lost \subseteq t.lost /\ Said(t) \subseteq Said(s) \cup M
      /\ \A m \in Said(s) \cup M : m \in Said(t) \/ m.id \in t.lost
  BY <1>0 DEF Told
<1>3. Busy(t) = Busy(b) /\ Separate(t, Q)
  BY <1>0, <1>2 DEF Busy, Separate
<1>4. \A i \in Busy(t) \cup Q : i \in Busy(s) \cup R /\ t.verdict[i] = "None"
  <2>1. Busy(s) \subseteq Asks
    BY <1>1, SvcTypes
  <2> QED BY <1>0, <1>1, <1>2, <1>3, <2>1
<1>5. ASSUME NEW m \in Said(t), m.what \in EndWords
      PROVE  t.verdict[m.id] = IF m.what = "Done" THEN "Ok" ELSE m.what
  <2>1. CASE m \in M
    BY <2>1, <1>0, <1>2, <1>5 DEF Agree
  <2>2. CASE m \in Said(s)
    <3>1. s.verdict[m.id] = IF m.what = "Done" THEN "Ok" ELSE m.what
      BY <1>1, <1>5, <2>2
    <3>2. s.verdict[m.id] # "None"
      BY <3>1, <1>5 DEF EndWords
    <3>3. m.id \in Asks
      BY <1>1, <2>2, SvcTypes, MessageIs
    <3> QED BY <3>1, <3>2, <3>3, <1>0, <1>1, <1>2
  <2> QED BY <2>1, <2>2, <1>2
<1>6. SvcInv(t, Q)
  BY <1>2, <1>3, <1>4, <1>5 DEF SvcInv, Agree
<1>7. \A i \in EndsIn(Said(s)) \cup EndsIn(M) : i \in EndsIn(Said(t)) \/ i \in t.lost
  BY <1>2 DEF EndsIn
<1>8. Busy(s) \cup R \cup EndsIn(Said(s)) \subseteq Busy(t) \cup Q \cup EndsIn(Said(t)) \cup t.lost
  BY <1>0, <1>2, <1>3, <1>7
<1>9. IdsOf(Said(t)) \subseteq IdsOf(Said(s)) \cup Busy(s) \cup R
  BY <1>0, <1>2 DEF IdsOf
<1>10. \A i \in Asks : t.verdict[i] = s.verdict[i] \/ i \in Busy(s) \cup R
  BY <1>0, <1>2
<1>11. s.lost \subseteq t.lost
  BY <1>0, <1>2
<1> QED BY <1>2, <1>4, <1>6, <1>8, <1>9, <1>10, <1>11 DEF Serves

(* The service ends a command and tells the end, maybe with more about it.  *)
Finishes(s, b, t, R, Q, M, i, w) ==
  /\ R \in SUBSET Asks /\ Q \in SUBSET Asks /\ b \in SvcStates /\ M \in SUBSET AnyMessage
  /\ SvcInv(s, R) /\ Told(b, t, M) /\ Separate(b, Q) /\ Said(b) = Said(s)
  /\ b.lost = s.lost /\ b.epoch = s.epoch /\ b.active = s.active
  /\ i \in Busy(s) \cup R /\ Busy(b) \cup Q = (Busy(s) \cup R) \ {i}
  /\ b.verdict = [s.verdict EXCEPT ![i] = w]
  /\ \A m \in M : m.id = i /\ (m.what \in EndWords => (IF m.what = "Done" THEN "Ok" ELSE m.what) = w)
  /\ \E m \in M : m.what \in EndWords

LEMMA FinishServes ==
  ASSUME NEW s, NEW b, NEW t, NEW R, NEW Q, NEW M, NEW i, NEW w,
         Finishes(s, b, t, R, Q, M, i, w)
  PROVE  Serves(s, t, R, Q)
<1>1. /\ R \in SUBSET Asks /\ Q \in SUBSET Asks /\ b \in SvcStates /\ M \in SUBSET AnyMessage
      /\ SvcInv(s, R) /\ Told(b, t, M) /\ Separate(b, Q) /\ Said(b) = Said(s)
      /\ b.lost = s.lost /\ b.epoch = s.epoch /\ b.active = s.active
      /\ i \in Busy(s) \cup R /\ Busy(b) \cup Q = (Busy(s) \cup R) \ {i}
  BY DEF Finishes
<1>2. /\ s.verdict \in [Asks -> {"None", "Ok", "Fail", "Timeout"}] /\ i \in Asks
  BY <1>1, SvcTypes DEF SvcInv
<1>3. b.verdict[i] = w /\ \A j \in Asks : b.verdict[j] = s.verdict[j] \/ j \in {i}
  BY <1>2 DEF Finishes
<1>4. \A m \in M : m.id = i /\ (m.what \in EndWords => (IF m.what = "Done" THEN "Ok" ELSE m.what) = w)
  BY DEF Finishes
<1>5. Agree(M, b.verdict) /\ IdsOf(M) \subseteq Busy(s) \cup R
  BY <1>1, <1>3, <1>4 DEF Agree, IdsOf
<1>6. {i} \subseteq EndsIn(M) \cup b.lost /\ {i} \subseteq Busy(s) \cup R
  <2>1. PICK m \in M : m.what \in EndWords
    BY DEF Finishes
  <2> QED BY <2>1, <1>1, <1>4 DEF EndsIn
<1>7. Works(s, b, t, R, Q, M, {i})
  BY <1>1, <1>3, <1>5, <1>6 DEF Works
<1> QED BY <1>7, WorkServes

LEMMA SayingIs ==
  ASSUME NEW s \in SvcStates, NEW i \in Asks
  PROVE  /\ \A w \in Answering : Told(s, Responds(s, i, w), {Saying(i, w)})
         /\ \A w \in Happening : Told(s, Emits(s, i, w), {Saying(i, w)})
<1>1. << >> \in Messages(Answering) /\ << >> \in Messages(Happening) /\ Range(<< >>) = {}
  BY DEF Messages, Range
<1>2. ASSUME NEW w \in Answering PROVE Told(s, Responds(s, i, w), {Saying(i, w)})
  <2>1. <<Saying(i, w)>> \in Messages(Answering) /\ Range(<<Saying(i, w)>>) = {Saying(i, w)}
    BY DEF Messages, Saying, Range
  <2>2. Told(s, Tells(s, <<Saying(i, w)>>, << >>), {Saying(i, w)} \cup {})
    BY <1>1, <2>1, TellsIs
  <2> QED BY <2>2 DEF Responds
<1>3. ASSUME NEW w \in Happening PROVE Told(s, Emits(s, i, w), {Saying(i, w)})
  <2>1. <<Saying(i, w)>> \in Messages(Happening) /\ Range(<<Saying(i, w)>>) = {Saying(i, w)}
    BY DEF Messages, Saying, Range
  <2>2. Told(s, Tells(s, << >>, <<Saying(i, w)>>), {} \cup {Saying(i, w)})
    BY <1>1, <2>1, TellsIs
  <2> QED BY <2>2 DEF Emits
<1> QED BY <1>2, <1>3

LEMMA JudgedIs ==
  ASSUME NEW s \in SvcStates, NEW i \in Asks, NEW w \in Outcomes
  PROVE  /\ Judged(s, i, w) \in SvcStates
         /\ Judged(s, i, w).queue = s.queue /\ Judged(s, i, w).owed = s.owed
         /\ Judged(s, i, w).pulls = s.pulls /\ Judged(s, i, w).lost = s.lost
         /\ Judged(s, i, w).epoch = s.epoch /\ Judged(s, i, w).active = s.active
         /\ Judged(s, i, w).resp = s.resp /\ Judged(s, i, w).ev = s.ev
         /\ Judged(s, i, w).verdict = [s.verdict EXCEPT ![i] = w]
BY DEF Judged, SvcStates, Outcomes

(* The messages of a command's end agree with its verdict.                  *)
LEMMA EndsTell ==
  ASSUME NEW s \in SvcStates, NEW i \in Asks, NEW w \in Outcomes
  PROVE  /\ Told(Judged(s, i, w), Ends(s, i, w), {Saying(i, w), Saying(i, EventOf(w))})
         /\ w \in Answering /\ EventOf(w) \in Happening
         /\ Saying(i, w) \in Answers /\ Saying(i, EventOf(w)) \in Events
         /\ Saying(i, w).id = i /\ Saying(i, w).what \in EndWords /\ Saying(i, w).what # "Done"
         /\ Saying(i, EventOf(w)).id = i /\ Saying(i, EventOf(w)).what \in EndWords
         /\ (IF Saying(i, EventOf(w)).what = "Done" THEN "Ok" ELSE Saying(i, EventOf(w)).what) = w
         /\ (IF Saying(i, w).what = "Done" THEN "Ok" ELSE Saying(i, w).what) = w
<1> DEFINE b == Judged(s, i, w)
           r == Responds(b, i, w)
<1>1. w \in Answering /\ EventOf(w) \in Happening
  BY DEF Answering, Happening, EventOf, Outcomes
<1>2. b \in SvcStates
  BY JudgedIs
<1>3. Ends(s, i, w) = Emits(r, i, EventOf(w))
  BY DEF Ends
<1> HIDE DEF b
<1>4. Told(b, r, {Saying(i, w)}) /\ r \in SvcStates
  BY <1>1, <1>2, SayingIs DEF Told
<1> HIDE DEF r
<1>5. Told(r, Emits(r, i, EventOf(w)), {Saying(i, EventOf(w))})
  BY <1>1, <1>4, SayingIs
<1>6. Told(b, Ends(s, i, w), {Saying(i, w)} \cup {Saying(i, EventOf(w))})
  BY <1>3, <1>4, <1>5, ToldTwice
<1>7. {Saying(i, w)} \cup {Saying(i, EventOf(w))} = {Saying(i, w), Saying(i, EventOf(w))}
  OBVIOUS
<1>8. Saying(i, w) \in Answers /\ Saying(i, EventOf(w)) \in Events
  BY <1>1, MessageIs
<1>9. /\ Saying(i, w).id = i /\ Saying(i, w).what = w
      /\ Saying(i, EventOf(w)).id = i /\ Saying(i, EventOf(w)).what = EventOf(w)
  BY DEF Saying
<1>10. w \in EndWords /\ w # "Done" /\ EventOf(w) \in EndWords
       /\ (IF EventOf(w) = "Done" THEN "Ok" ELSE EventOf(w)) = w
  BY DEF EndWords, EventOf, Outcomes
<1>11. (IF w = "Done" THEN "Ok" ELSE w) = w
  BY <1>10
<1> QED BY <1>1, <1>6, <1>7, <1>8, <1>9, <1>10, <1>11 DEF b

(* A command that is through as it should be.                               *)
LEMMA EndsServe ==
  ASSUME NEW s, NEW R \in SUBSET Asks, NEW Q \in SUBSET Asks, NEW r \in SvcStates,
         NEW i \in Asks, NEW w \in Outcomes,
         SvcInv(s, R), Separate(r, Q), r.resp = s.resp, r.ev = s.ev, r.lost = s.lost,
         r.epoch = s.epoch, r.active = s.active, r.verdict = s.verdict,
         i \in Busy(s) \cup R, Busy(r) \cup Q = (Busy(s) \cup R) \ {i}
  PROVE  Serves(s, Ends(r, i, w), R, Q)
<1> DEFINE b == Judged(r, i, w)
           x == Saying(i, w)
           y == Saying(i, EventOf(w))
           t == Ends(r, i, w)
<1>1. /\ b \in SvcStates /\ b.queue = r.queue /\ b.owed = r.owed /\ b.pulls = r.pulls
      /\ b.lost = r.lost /\ b.epoch = r.epoch /\ b.active = r.active
      /\ b.resp = r.resp /\ b.ev = r.ev /\ b.verdict = [r.verdict EXCEPT ![i] = w]
  BY JudgedIs
<1>2. /\ Told(b, t, {x, y}) /\ x \in Answers /\ y \in Events
      /\ x.id = i /\ (IF x.what = "Done" THEN "Ok" ELSE x.what) = w /\ x.what \in EndWords
      /\ y.id = i /\ (IF y.what = "Done" THEN "Ok" ELSE y.what) = w
  BY EndsTell
<1> HIDE DEF b, x, y, t
<1>3. Separate(b, Q) /\ Busy(b) = Busy(r) /\ Said(b) = Said(s)
  BY <1>1 DEF Separate, Busy, Said
<1>4. {x, y} \in SUBSET AnyMessage
  BY <1>2 DEF AnyMessage
<1>5. /\ \A m \in {x, y} : m.id = i /\ (m.what \in EndWords => (IF m.what = "Done" THEN "Ok" ELSE m.what) = w)
      /\ \E m \in {x, y} : m.what \in EndWords
  BY <1>2
<1>6. /\ b \in SvcStates /\ b.lost = s.lost /\ b.epoch = s.epoch /\ b.active = s.active
      /\ b.verdict = [s.verdict EXCEPT ![i] = w] /\ Busy(b) \cup Q = (Busy(s) \cup R) \ {i}
  BY <1>1, <1>3
<1> DEFINE M == {x, y}
<1>7. M \in SUBSET AnyMessage /\ Told(b, t, M)
  BY <1>2, <1>4
<1>8. /\ \A m \in M : m.id = i /\ (m.what \in EndWords => (IF m.what = "Done" THEN "Ok" ELSE m.what) = w)
      /\ \E m \in M : m.what \in EndWords
  BY <1>5
<1> HIDE DEF M
<1>9. Finishes(s, b, t, R, Q, M, i, w)
  BY <1>3, <1>6, <1>7, <1>8 DEF Finishes
<1> QED BY <1>9, FinishServes DEF t

(* A command more, in the order of the priorities.                          *)
LEMMA InsertIs ==
  ASSUME NEW S, NEW q \in Seq(S), NEW n \in 1 .. Len(q), NEW x \in S
  PROVE  /\ InsertAt(q, n, x) \in Seq(S) /\ Range(InsertAt(q, n, x)) = Range(q) \cup {x}
         /\ IsInjective(q) /\ x \notin Range(q) => IsInjective(InsertAt(q, n, x))
<1> DEFINE p == SubSeq(q, 1, n - 1)
           r == SubSeq(q, n, Len(q))
           m == <<x>>
           u == p \o m
           t == u \o r
<1>0. n - 1 \in 0 .. Len(q) /\ (n - 1) + 1 = n
  OBVIOUS
<1>1. /\ p \in Seq(S) /\ r \in Seq(S) /\ Range(q) = Range(p) \cup Range(r)
      /\ IsInjective(q) => IsInjective(p) /\ IsInjective(r) /\ Range(p) \cap Range(r) = {}
  <2>1. LET a == SubSeq(q, 1, n - 1)
            b == SubSeq(q, (n - 1) + 1, Len(q))
        IN  /\ a \in Seq(S) /\ b \in Seq(S) /\ Range(q) = Range(a) \cup Range(b)
            /\ IsInjective(q) => IsInjective(a) /\ IsInjective(b) /\ Range(a) \cap Range(b) = {}
    BY <1>0, RangeOfParts
  <2> QED BY <2>1, <1>0
<1>2. m \in Seq(S) /\ Range(m) = {x} /\ IsInjective(m)
  BY DEF Range, IsInjective
<1>3. InsertAt(q, n, x) = t
  BY DEF InsertAt
<1> HIDE DEF p, r, m
<1>4. u \in Seq(S) /\ Range(u) = Range(p) \cup {x}
  BY <1>1, <1>2, RangeOfConcat
<1>7. ASSUME IsInjective(p), Range(p) \cap Range(m) = {} PROVE IsInjective(u)
  BY <1>7, <1>1, <1>2, ConcatApart
<1> HIDE DEF u
<1>5. t \in Seq(S) /\ Range(t) = Range(q) \cup {x}
  <2>1. t \in Seq(S) /\ Range(t) = Range(u) \cup Range(r)
    BY <1>1, <1>4, RangeOfConcat
  <2> QED BY <2>1, <1>1, <1>4
<1>6. ASSUME IsInjective(q), x \notin Range(q) PROVE IsInjective(t)
  <2>1. IsInjective(p) /\ IsInjective(r) /\ Range(p) \cap Range(r) = {}
    BY <1>1, <1>6
  <2>2. Range(p) \cap Range(m) = {} /\ Range(u) \cap Range(r) = {}
    BY <1>1, <1>2, <1>4, <1>6, <2>1
  <2>3. IsInjective(u)
    BY <1>7, <2>1, <2>2
  <2> QED BY <1>1, <1>4, <2>1, <2>2, <2>3, ConcatApart
<1> HIDE DEF t
<1> QED BY <1>3, <1>5, <1>6

LEMMA LowestIs ==
  ASSUME NEW S \in SUBSET Nat, S # {}
  PROVE  Min(S) \in S
<1>1. \E n \in S : \A m \in S : n <= m
  BY LowestExists
<1> QED BY <1>1 DEF Min

(* submit() takes one request from the transport.                           *)
LEMMA AdmitServes ==
  ASSUME NEW s, NEW R \in SUBSET Asks, NEW i \in R, SvcInv(s, R)
  PROVE  Serves(s, Admit(s, i), R, R \ {i})
<1> DEFINE lower == {n \in DOMAIN s.queue : Rank(i) < Rank(s.queue[n])}
           Q == R \ {i}
<1>1. /\ i \in Asks /\ Q \in SUBSET Asks /\ s \in SvcStates /\ s.queue \in Seq(Asks)
      /\ Busy(s) \in SUBSET Asks
  BY SvcTypes DEF SvcInv
<1>2. /\ IsInjective(s.queue) /\ i \notin Busy(s)
      /\ Range(s.queue) \cap (s.owed \cup s.pulls \cup R) = {}
      /\ s.owed \cap (s.pulls \cup R) = {} /\ s.pulls \cap R = {}
  BY DEF SvcInv, Separate, Busy
<1>3. CASE Len(s.queue) >= ServiceDepth
  <2> DEFINE b == Judged(s, i, "Fail")
             r == Responds(b, i, "Fail")
             t == Emits(r, i, "Full")
             x == Saying(i, "Fail")
             y == Saying(i, "Full")
             M == {x} \cup {y}
  <2>1. Admit(s, i) = t
    BY <1>3 DEF Admit
  <2>2. "Fail" \in Outcomes /\ "Fail" \in Answering /\ "Full" \in Happening
    BY DEF Outcomes, Answering, Happening
  <2>3. /\ b \in SvcStates /\ b.queue = s.queue /\ b.owed = s.owed /\ b.pulls = s.pulls
        /\ b.lost = s.lost /\ b.epoch = s.epoch /\ b.active = s.active
        /\ b.resp = s.resp /\ b.ev = s.ev /\ b.verdict = [s.verdict EXCEPT ![i] = "Fail"]
    BY <1>1, <2>2, JudgedIs
  <2> HIDE DEF b
  <2>4. Told(b, r, {x}) /\ r \in SvcStates
    BY <1>1, <2>2, <2>3, SayingIs DEF Told
  <2> HIDE DEF r
  <2>5. Told(r, t, {y})
    BY <1>1, <2>2, <2>4, SayingIs
  <2>6. x \in Answers /\ y \in Events
    BY <1>1, <2>2, MessageIs
  <2>7. x.id = i /\ x.what = "Fail" /\ y.id = i /\ y.what = "Full"
    BY DEF Saying
  <2> HIDE DEF x, y, t
  <2>8. Told(b, t, M)
    BY <2>4, <2>5, ToldTwice
  <2>9. /\ M \in SUBSET AnyMessage
        /\ \A m \in M : m.id = i /\ (m.what \in EndWords => (IF m.what = "Done" THEN "Ok" ELSE m.what) = "Fail")
        /\ \E m \in M : m.what \in EndWords
    BY <2>6, <2>7 DEF AnyMessage, EndWords
  <2> HIDE DEF M
  <2>10. Separate(b, Q) /\ Busy(b) = Busy(s) /\ Said(b) = Said(s)
    BY <1>2, <2>3 DEF Separate, Busy, Said
  <2>11. i \in Busy(s) \cup R /\ Busy(b) \cup Q = (Busy(s) \cup R) \ {i}
    BY <1>2, <2>10
  <2> HIDE DEF Q
  <2>12. Finishes(s, b, t, R, Q, M, i, "Fail")
    BY <1>1, <2>3, <2>8, <2>9, <2>10, <2>11 DEF Finishes
  <2> QED BY <2>1, <2>12, FinishServes DEF Q
<1>4. CASE ~(Len(s.queue) >= ServiceDepth)
  <2> DEFINE q == IF lower = {} THEN Append(s.queue, i) ELSE InsertAt(s.queue, Min(lower), i)
             b == [s EXCEPT !.queue = q]
             t == Emits(b, i, "Rx")
             x == Saying(i, "Rx")
             M == {x}
  <2>1. Admit(s, i) = t
    BY <1>4 DEF Admit
  <2>2. q \in Seq(Asks) /\ IsInjective(q) /\ Range(q) = Range(s.queue) \cup {i}
    <3>1. i \notin Range(s.queue)
      BY <1>2 DEF Busy
    <3>2. CASE lower = {}
      BY <3>1, <3>2, <1>1, <1>2, RangeOfAppend
    <3>3. CASE lower # {}
      <4>1. lower \in SUBSET Nat /\ lower \subseteq 1 .. Len(s.queue)
        BY <1>1
      <4>2. Min(lower) \in 1 .. Len(s.queue)
        BY <3>3, <4>1, LowestIs
      <4> HIDE DEF lower
      <4> QED BY <3>1, <3>3, <4>2, <1>1, <1>2, InsertIs
    <3> QED BY <3>2, <3>3
  <2> HIDE DEF q
  <2>3. /\ b \in SvcStates /\ b.queue = q /\ b.owed = s.owed /\ b.pulls = s.pulls
        /\ b.lost = s.lost /\ b.epoch = s.epoch /\ b.active = s.active
        /\ b.resp = s.resp /\ b.ev = s.ev /\ b.verdict = s.verdict
    BY <1>1, <2>2 DEF SvcStates
  <2> HIDE DEF b
  <2>4. "Rx" \in Happening
    BY DEF Happening
  <2>5. Told(b, t, M) /\ x \in Events
    BY <1>1, <2>3, <2>4, SayingIs, MessageIs
  <2>6. x.id = i /\ x.what = "Rx"
    BY DEF Saying
  <2> HIDE DEF x, t
  <2>7. M \in SUBSET AnyMessage /\ Agree(M, b.verdict) /\ IdsOf(M) \subseteq Busy(s) \cup R
    BY <2>5, <2>6 DEF AnyMessage, Agree, IdsOf, EndWords
  <2> HIDE DEF M
  <2>8. Separate(b, Q) /\ Said(b) = Said(s) /\ Busy(b) = Busy(s) \cup {i}
    BY <1>2, <2>2, <2>3 DEF Separate, Said, Busy
  <2>9. Busy(b) \cup Q = (Busy(s) \cup R) \ {}
    BY <2>8
  <2> HIDE DEF Q
  <2>10. /\ {} \subseteq Busy(s) \cup R /\ {} \subseteq EndsIn(M) \cup b.lost
         /\ s.lost \subseteq b.lost /\ \A j \in Asks : b.verdict[j] = s.verdict[j] \/ j \in {}
    BY <2>3
  <2>11. Works(s, b, t, R, Q, M, {})
    BY <1>1, <2>3, <2>5, <2>7, <2>8, <2>9, <2>10 DEF Works
  <2> QED BY <2>1, <2>11, WorkServes DEF Q
<1> QED BY <1>3, <1>4

(* The requests of a round are admitted one after another.  Were there a    *)
(* number of them for which that is undefined, or loses one, the lowest     *)
(* such number would have one less than it.                                 *)
AdmitsTo(g, s, q, m) == g = [n \in 0 .. m |-> IF n = 0 THEN s ELSE Admit(g[n - 1], q[n])]

LEMMA AdmittedExists ==
  ASSUME NEW s, NEW q, NEW m \in Nat
  PROVE  \E g : AdmitsTo(g, s, q, m)
<1> DEFINE Bad == {k \in Nat : ~ \E g : AdmitsTo(g, s, q, k)}
<1>1. SUFFICES ASSUME Bad # {}  PROVE FALSE
  OBVIOUS
<1>2. PICK k \in Bad : \A l \in Bad : k <= l
  BY <1>1, LowestExists
<1>3. k \in Nat /\ ~ \E g : AdmitsTo(g, s, q, k)
  OBVIOUS
<1>4. CASE k = 0
  <2> DEFINE g == [n \in 0 .. k |-> s]
  <2>1. \A n \in 0 .. k : n = 0
    BY <1>4
  <2>2. g = [n \in 0 .. k |-> IF n = 0 THEN s ELSE Admit(g[n - 1], q[n])]
    BY <2>1
  <2> HIDE DEF g
  <2> QED BY <1>3, <2>2 DEF AdmitsTo
<1>5. CASE k # 0
  <2>1. k - 1 \in Nat /\ ~(k <= k - 1) /\ k - 1 < k
    BY <1>3, <1>5
  <2>2. PICK h : AdmitsTo(h, s, q, k - 1)
    BY <1>2, <2>1
  <2>3. /\ DOMAIN h = 0 .. k - 1
        /\ \A n \in 0 .. k - 1 : h[n] = IF n = 0 THEN s ELSE Admit(h[n - 1], q[n])
    BY <2>2 DEF AdmitsTo
  <2> DEFINE g == [n \in 0 .. k |-> IF n = k THEN Admit(h[n - 1], q[n]) ELSE h[n]]
  <2>4. ASSUME NEW n \in 0 .. k PROVE g[n] = IF n = 0 THEN s ELSE Admit(g[n - 1], q[n])
    <3>1. CASE n = k
      <4>1. n - 1 \in 0 .. k /\ n - 1 # k /\ n # 0
        BY <3>1, <1>3, <1>5
      <4>2. g[n - 1] = h[n - 1] /\ g[n] = Admit(h[n - 1], q[n])
        BY <3>1, <4>1
      <4> HIDE DEF g
      <4> QED BY <4>1, <4>2
    <3>2. CASE n # k /\ n = 0
      BY <3>2, <1>3, <1>5, <2>3
    <3>3. CASE n # k /\ n # 0
      <4>1. n \in 0 .. k - 1 /\ n - 1 \in 0 .. k /\ n - 1 # k
        BY <3>3, <1>3
      <4>2. g[n] = h[n] /\ g[n - 1] = h[n - 1]
        BY <3>3, <4>1
      <4>3. h[n] = Admit(h[n - 1], q[n])
        BY <3>3, <4>1, <2>3
      <4> HIDE DEF g
      <4> QED BY <3>3, <4>2, <4>3
    <3> QED BY <3>1, <3>2, <3>3
  <2>5. DOMAIN g = 0 .. k /\ g = [n \in 0 .. k |-> g[n]]
    OBVIOUS
  <2> HIDE DEF g
  <2>6. g = [n \in 0 .. k |-> IF n = 0 THEN s ELSE Admit(g[n - 1], q[n])]
    BY <2>4, <2>5
  <2> QED BY <1>3, <2>6 DEF AdmitsTo
<1> QED BY <1>4, <1>5

LEMMA AdmittedServes ==
  ASSUME NEW s, NEW P \in SUBSET Asks, NEW q \in Seq(Asks), IsInjective(q), Range(q) \subseteq P,
         SvcInv(s, P), Serves(s, s, P, P)
  PROVE  Serves(s, Admitted(s, q), P, P \ Range(q))
<1> DEFINE after[n \in 0 .. Len(q)] == IF n = 0 THEN s ELSE Admit(after[n - 1], q[n])
           Left(n) == P \ {q[k] : k \in 1 .. n}
           Bad == {n \in 0 .. Len(q) : ~Serves(s, after[n], P, Left(n))}
<1>1. Len(q) \in Nat /\ Admitted(s, q) = after[Len(q)]
  BY DEF Admitted
<1>2. after = [n \in 0 .. Len(q) |-> IF n = 0 THEN s ELSE Admit(after[n - 1], q[n])]
  <2>1. \E g : g = [n \in 0 .. Len(q) |-> IF n = 0 THEN s ELSE Admit(g[n - 1], q[n])]
    <3>1. \E g : AdmitsTo(g, s, q, Len(q))
      BY <1>1, AdmittedExists
    <3> QED BY <3>1 DEF AdmitsTo
  <2> QED BY <2>1, Zenon
<1> HIDE DEF after
<1>3. \A n \in 0 .. Len(q) : after[n] = IF n = 0 THEN s ELSE Admit(after[n - 1], q[n])
  BY <1>2
<1>4. SUFFICES ASSUME Bad # {}  PROVE FALSE
  <2>1. Range(q) = {q[k] : k \in 1 .. Len(q)}
    BY DEF Range
  <2>2. Len(q) \in 0 .. Len(q)
    BY <1>1
  <2>3. Serves(s, after[Len(q)], P, Left(Len(q)))
    BY <1>4, <2>2
  <2> QED BY <1>1, <2>1, <2>3
<1>5. Bad \in SUBSET Nat
  BY <1>1
<1>6. PICK n \in Bad : \A m \in Bad : n <= m
  BY <1>4, <1>5, LowestExists
<1>7. n \in 0 .. Len(q) /\ n \in Nat /\ ~Serves(s, after[n], P, Left(n))
  BY <1>1
<1>8. CASE n = 0
  <2>1. {q[k] : k \in 1 .. n} = {} /\ after[n] = s
    BY <1>3, <1>7, <1>8
  <2> QED BY <1>7, <2>1
<1>9. CASE n # 0
  <2>1. n - 1 \in 0 .. Len(q) /\ ~(n <= n - 1) /\ n \in 1 .. Len(q) /\ (n - 1) + 1 = n
    BY <1>1, <1>7, <1>9
  <2>2. Serves(s, after[n - 1], P, Left(n - 1))
    BY <1>6, <2>1
  <2>3. q[n] \in Left(n - 1)
    <3>1. \A a, b \in 1 .. Len(q) : q[a] = q[b] => a = b
      BY DEF IsInjective
    <3>2. \A k \in 1 .. n - 1 : k \in 1 .. Len(q) /\ k # n
      BY <1>1, <2>1
    <3>3. q[n] \in P
      BY <2>1, RangeIs
    <3> QED BY <2>1, <3>1, <3>2, <3>3
  <2>4. Left(n) = Left(n - 1) \ {q[n]}
    <3>1. \A k \in 1 .. n : k \in 1 .. n - 1 \/ k = n
      BY <1>7
    <3>2. \A k \in 1 .. n - 1 : k \in 1 .. n
      BY <1>7
    <3>3. n \in 1 .. n
      BY <2>1
    <3>4. {q[k] : k \in 1 .. n} = {q[k] : k \in 1 .. n - 1} \cup {q[n]}
      BY <3>1, <3>2, <3>3
    <3> QED BY <3>4
  <2>5. Left(n - 1) \in SUBSET Asks
    OBVIOUS
  <2>6. after[n] = Admit(after[n - 1], q[n])
    BY <1>3, <1>7, <1>9
  <2> HIDE DEF Left
  <2>7. SvcInv(after[n - 1], Left(n - 1))
    BY <2>2 DEF Serves
  <2>8. Serves(after[n - 1], Admit(after[n - 1], q[n]), Left(n - 1), Left(n - 1) \ {q[n]})
    BY <2>3, <2>5, <2>7, AdmitServes
  <2> QED BY <1>7, <2>2, <2>4, <2>6, <2>8, ServesTwice
<1> QED BY <1>8, <1>9

LEMMA ServesSelf ==
  ASSUME NEW s, NEW R, SvcInv(s, R)
  PROVE  Serves(s, s, R, R)
BY DEF Serves

(* Overdue pulls go without a word, and their ids are known to be lost.     *)
LEMMA PrunedServes ==
  ASSUME NEW s, NEW R \in SUBSET Asks, SvcInv(s, R), NEW late \in SUBSET Asks
  PROVE  Serves(s, Pruned(s, late), R, R)
<1> DEFINE t == Pruned(s, late)
           gone == late \cap s.pulls
<1>1. /\ s \in SvcStates /\ s.queue \in Seq(Asks) /\ s.owed \in SUBSET Asks
      /\ s.pulls \in SUBSET Asks /\ s.lost \in SUBSET Asks /\ Busy(s) \in SUBSET Asks
  BY SvcTypes DEF SvcInv
<1>2. /\ IsInjective(s.queue) /\ Range(s.queue) \cap (s.owed \cup s.pulls \cup R) = {}
      /\ s.owed \cap (s.pulls \cup R) = {} /\ s.pulls \cap R = {}
  BY DEF SvcInv, Separate
<1>3. /\ s.pulls \ late \in SUBSET Asks /\ s.lost \cup late \in SUBSET Asks
  BY <1>1
<1>4. /\ t \in SvcStates /\ t.queue = s.queue /\ t.owed = s.owed /\ t.pulls = s.pulls \ late
      /\ t.lost = s.lost \cup late /\ t.epoch = s.epoch /\ t.active = s.active
      /\ t.resp = s.resp /\ t.ev = s.ev /\ t.verdict = s.verdict
  BY <1>1, <1>3 DEF Pruned, SvcStates
<1> HIDE DEF t
<1>5. Said(t) = Said(s) /\ Separate(t, R)
  BY <1>2, <1>4 DEF Said, Separate
<1>6. Busy(t) \cup R = (Busy(s) \cup R) \ gone
  BY <1>2, <1>4 DEF Busy
<1>7. gone \subseteq Busy(s) \cup R /\ gone \subseteq EndsIn({}) \cup t.lost
  BY <1>4 DEF Busy
<1> HIDE DEF gone
<1>8. Told(t, t, {})
  BY <1>4 DEF Told
<1>9. Agree({}, t.verdict) /\ IdsOf({}) \subseteq Busy(s) \cup R /\ {} \in SUBSET AnyMessage
  BY DEF Agree, IdsOf
<1>10. s.lost \subseteq t.lost /\ \A i \in Asks : t.verdict[i] = s.verdict[i] \/ i \in gone
  BY <1>4
<1>11. Works(s, t, t, R, R, {}, gone)
  BY <1>4, <1>5, <1>6, <1>7, <1>8, <1>9, <1>10 DEF Works
<1> QED BY <1>11, WorkServes DEF t

(* A command that goes from the queue to where it waits.                    *)
LEMMA DeferServes ==
  ASSUME NEW s, NEW R \in SUBSET Asks, NEW r \in SvcStates, NEW i \in Asks,
         SvcInv(s, R), Separate(r, R), r.resp = s.resp, r.ev = s.ev, r.lost = s.lost,
         r.epoch = s.epoch, r.active = s.active, r.verdict = s.verdict,
         i \in Busy(s), Busy(r) \cup R = (Busy(s) \cup R) \ {i}
  PROVE  /\ Serves(s, [Responds(r, i, "Deferred") EXCEPT !.owed = @ \cup {i}], R, R)
         /\ Serves(s, [Responds(r, i, "Deferred") EXCEPT !.pulls = @ \cup {i}], R, R)
<1> DEFINE x == Saying(i, "Deferred")
           M == {x}
           d == Responds(r, i, "Deferred")
           b1 == [r EXCEPT !.owed = @ \cup {i}]
           t1 == [d EXCEPT !.owed = @ \cup {i}]
           b2 == [r EXCEPT !.pulls = @ \cup {i}]
           t2 == [d EXCEPT !.pulls = @ \cup {i}]
<1>1. "Deferred" \in Answering
  BY DEF Answering
<1>2. Told(r, d, M) /\ x \in Answers
  BY <1>1, SayingIs, MessageIs
<1>3. x.id = i /\ x.what = "Deferred"
  BY DEF Saying
<1> HIDE DEF x, d
<1>4. /\ M \in SUBSET AnyMessage /\ IdsOf(M) \subseteq Busy(s) \cup R /\ \A v : Agree(M, v)
  BY <1>2, <1>3 DEF AnyMessage, IdsOf, Agree, EndWords
<1> HIDE DEF M
<1>5. /\ d \in SvcStates /\ d.queue = r.queue /\ d.owed = r.owed /\ d.pulls = r.pulls
      /\ d.epoch = r.epoch /\ d.active = r.active /\ d.verdict = r.verdict
      /\ r.lost \subseteq d.lost /\ Said(d) \subseteq Said(r) \cup M
      /\ \A m \in Said(r) \cup M : m \in Said(d) \/ m.id \in d.lost
  BY <1>2 DEF Told
<1>6. /\ r.owed \in SUBSET Asks /\ r.pulls \in SUBSET Asks
  BY SvcTypes
<1>7. i \notin Busy(r) \cup R
  OBVIOUS
<1>8. /\ IsInjective(r.queue) /\ Range(r.queue) \cap (r.owed \cup r.pulls \cup R) = {}
      /\ r.owed \cap (r.pulls \cup R) = {} /\ r.pulls \cap R = {}
  BY DEF Separate
<1>9. i \notin Range(r.queue) /\ i \notin r.owed /\ i \notin r.pulls /\ i \notin R
  BY <1>7 DEF Busy
<1>10. s.lost \subseteq s.lost /\ {} \subseteq Busy(s) \cup R /\ {} \subseteq EndsIn(M) \cup s.lost
  OBVIOUS
<1>11. Serves(s, t1, R, R)
  <2>1. /\ b1 \in SvcStates /\ b1.queue = r.queue /\ b1.owed = r.owed \cup {i} /\ b1.pulls = r.pulls
        /\ b1.lost = r.lost /\ b1.epoch = r.epoch /\ b1.active = r.active
        /\ b1.resp = r.resp /\ b1.ev = r.ev /\ b1.verdict = r.verdict
    BY <1>6 DEF SvcStates
  <2>2. /\ t1 \in SvcStates /\ t1.queue = d.queue /\ t1.owed = d.owed \cup {i} /\ t1.pulls = d.pulls
        /\ t1.lost = d.lost /\ t1.epoch = d.epoch /\ t1.active = d.active
        /\ t1.resp = d.resp /\ t1.ev = d.ev /\ t1.verdict = d.verdict
    BY <1>5, <1>6 DEF SvcStates
  <2> HIDE DEF b1, t1
  <2>3. Said(t1) = Said(d) /\ Said(b1) = Said(r) /\ Said(b1) = Said(s)
    BY <2>1, <2>2 DEF Said
  <2>4. Told(b1, t1, M)
    BY <1>5, <2>1, <2>2, <2>3 DEF Told
  <2>5. Separate(b1, R)
    BY <1>8, <1>9, <2>1 DEF Separate
  <2>6. Busy(b1) = Busy(r) \cup {i}
    BY <2>1 DEF Busy
  <2>7. Busy(b1) \cup R = (Busy(s) \cup R) \ {}
    BY <2>6
  <2>8. \A j \in Asks : b1.verdict[j] = s.verdict[j] \/ j \in {}
    BY <2>1
  <2>9. Works(s, b1, t1, R, R, M, {})
    BY <1>4, <1>10, <2>1, <2>3, <2>4, <2>5, <2>7, <2>8 DEF Works
  <2> QED BY <2>9, WorkServes
<1>12. Serves(s, t2, R, R)
  <2>1. /\ b2 \in SvcStates /\ b2.queue = r.queue /\ b2.pulls = r.pulls \cup {i} /\ b2.owed = r.owed
        /\ b2.lost = r.lost /\ b2.epoch = r.epoch /\ b2.active = r.active
        /\ b2.resp = r.resp /\ b2.ev = r.ev /\ b2.verdict = r.verdict
    BY <1>6 DEF SvcStates
  <2>2. /\ t2 \in SvcStates /\ t2.queue = d.queue /\ t2.pulls = d.pulls \cup {i} /\ t2.owed = d.owed
        /\ t2.lost = d.lost /\ t2.epoch = d.epoch /\ t2.active = d.active
        /\ t2.resp = d.resp /\ t2.ev = d.ev /\ t2.verdict = d.verdict
    BY <1>5, <1>6 DEF SvcStates
  <2> HIDE DEF b2, t2
  <2>3. Said(t2) = Said(d) /\ Said(b2) = Said(r) /\ Said(b2) = Said(s)
    BY <2>1, <2>2 DEF Said
  <2>4. Told(b2, t2, M)
    BY <1>5, <2>1, <2>2, <2>3 DEF Told
  <2>5. Separate(b2, R)
    BY <1>8, <1>9, <2>1 DEF Separate
  <2>6. Busy(b2) = Busy(r) \cup {i}
    BY <2>1 DEF Busy
  <2>7. Busy(b2) \cup R = (Busy(s) \cup R) \ {}
    BY <2>6
  <2>8. \A j \in Asks : b2.verdict[j] = s.verdict[j] \/ j \in {}
    BY <2>1
  <2>9. Works(s, b2, t2, R, R, M, {})
    BY <1>4, <1>10, <2>1, <2>3, <2>4, <2>5, <2>7, <2>8 DEF Works
  <2> QED BY <2>9, WorkServes
<1> QED BY <1>11, <1>12 DEF d

(* A tick executes the first request of the queue or finds it overdue.      *)
LEMMA TickedServes ==
  ASSUME NEW s, NEW R \in SUBSET Asks, SvcInv(s, R), NEW t \in Ticked(s)
  PROVE  Serves(s, t, R, R)
<1>1. CASE s.queue = << >>
  BY <1>1, ServesSelf DEF Ticked
<1>2. CASE s.queue # << >>
  <2> DEFINE i == Head(s.queue)
             r == [s EXCEPT !.queue = Tail(@)]
  <2>1. t \in {Ends(r, i, "Timeout")} \cup Executions(r, i)
    BY <1>2 DEF Ticked
  <2>2. s \in SvcStates /\ s.queue \in Seq(Asks)
    BY SvcTypes DEF SvcInv
  <2>3. /\ IsInjective(s.queue) /\ Range(s.queue) \cap (s.owed \cup s.pulls \cup R) = {}
        /\ s.owed \cap (s.pulls \cup R) = {} /\ s.pulls \cap R = {}
    BY DEF SvcInv, Separate
  <2>4. /\ i \in Asks /\ Tail(s.queue) \in Seq(Asks)
        /\ Range(s.queue) = {i} \cup Range(Tail(s.queue))
        /\ IsInjective(Tail(s.queue)) /\ i \notin Range(Tail(s.queue))
    BY <1>2, <2>2, <2>3, RangeOfTail
  <2>5. /\ r \in SvcStates /\ r.queue = Tail(s.queue) /\ r.owed = s.owed /\ r.pulls = s.pulls
        /\ r.lost = s.lost /\ r.epoch = s.epoch /\ r.active = s.active
        /\ r.resp = s.resp /\ r.ev = s.ev /\ r.verdict = s.verdict
    BY <2>2, <2>4 DEF SvcStates
  <2> HIDE DEF r, i
  <2>6. Separate(r, R)
    BY <2>3, <2>4, <2>5 DEF Separate
  <2>7. i \in Busy(s) /\ Busy(r) \cup R = (Busy(s) \cup R) \ {i}
    BY <2>3, <2>4, <2>5 DEF Busy
  <2>8. i \in Busy(s) \cup R
    BY <2>7
  <2>9. \A w \in Outcomes : Serves(s, Ends(r, i, w), R, R)
    BY <2>4, <2>5, <2>6, <2>7, <2>8, EndsServe
  <2>10. "Ok" \in Outcomes /\ "Fail" \in Outcomes /\ "Timeout" \in Outcomes
    BY DEF Outcomes
  <2>11. /\ Serves(s, [Responds(r, i, "Deferred") EXCEPT !.owed = @ \cup {i}], R, R)
         /\ Serves(s, [Responds(r, i, "Deferred") EXCEPT !.pulls = @ \cup {i}], R, R)
    BY <2>4, <2>5, <2>6, <2>7, DeferServes
  <2>12. \/ t = Ends(r, i, "Timeout") \/ t = Ends(r, i, "Fail") \/ t = Ends(r, i, "Ok")
         \/ t = [Responds(r, i, "Deferred") EXCEPT !.owed = @ \cup {i}]
         \/ t = [Responds(r, i, "Deferred") EXCEPT !.pulls = @ \cup {i}]
    BY <2>1 DEF Executions
  <2> QED BY <2>9, <2>10, <2>11, <2>12
<1> QED BY <1>1, <1>2

(* onEvent and onPullResponse end a command that waited.                    *)
LEMMA ExchangeServes ==
  ASSUME NEW s, NEW R \in SUBSET Asks, SvcInv(s, R), NEW i \in s.owed, NEW w \in Outcomes
  PROVE  Serves(s, Emits([Judged(s, i, w) EXCEPT !.owed = @ \ {i}], i, EventOf(w)), R, R)
<1> DEFINE j == Judged(s, i, w)
           b == [j EXCEPT !.owed = @ \ {i}]
           x == Saying(i, EventOf(w))
           M == {x}
           t == Emits(b, i, EventOf(w))
<1>1. /\ s \in SvcStates /\ s.queue \in Seq(Asks) /\ s.owed \in SUBSET Asks /\ i \in Asks
  BY SvcTypes DEF SvcInv
<1>2. /\ IsInjective(s.queue) /\ Range(s.queue) \cap (s.owed \cup s.pulls \cup R) = {}
      /\ s.owed \cap (s.pulls \cup R) = {} /\ s.pulls \cap R = {}
  BY DEF SvcInv, Separate
<1>3. /\ j \in SvcStates /\ j.queue = s.queue /\ j.owed = s.owed /\ j.pulls = s.pulls
      /\ j.lost = s.lost /\ j.epoch = s.epoch /\ j.active = s.active
      /\ j.resp = s.resp /\ j.ev = s.ev /\ j.verdict = [s.verdict EXCEPT ![i] = w]
  BY <1>1, JudgedIs
<1> HIDE DEF j
<1>4. s.owed \ {i} \in SUBSET Asks
  BY <1>1
<1>5. /\ b \in SvcStates /\ b.queue = s.queue /\ b.owed = s.owed \ {i} /\ b.pulls = s.pulls
      /\ b.lost = s.lost /\ b.epoch = s.epoch /\ b.active = s.active
      /\ b.resp = s.resp /\ b.ev = s.ev /\ b.verdict = j.verdict
  BY <1>3, <1>4 DEF SvcStates
<1>6. b.verdict = [s.verdict EXCEPT ![i] = w]
  BY <1>3, <1>5
<1> HIDE DEF b
<1>7. /\ EventOf(w) \in Happening /\ x \in Events
      /\ x.id = i /\ x.what \in EndWords /\ (IF x.what = "Done" THEN "Ok" ELSE x.what) = w
  BY <1>1, EndsTell
<1>8. Told(b, t, M)
  BY <1>1, <1>5, <1>7, SayingIs
<1> HIDE DEF x, t
<1>9. /\ M \in SUBSET AnyMessage
      /\ \A m \in M : m.id = i /\ (m.what \in EndWords => (IF m.what = "Done" THEN "Ok" ELSE m.what) = w)
      /\ \E m \in M : m.what \in EndWords
  BY <1>7 DEF AnyMessage
<1> HIDE DEF M
<1>10. Said(b) = Said(s) /\ Separate(b, R)
  BY <1>2, <1>5 DEF Said, Separate
<1>11. i \in Busy(s) \cup R /\ Busy(b) \cup R = (Busy(s) \cup R) \ {i}
  BY <1>2, <1>5 DEF Busy
<1>12. Finishes(s, b, t, R, R, M, i, w)
  BY <1>5, <1>6, <1>8, <1>9, <1>10, <1>11 DEF Finishes
<1> QED BY <1>12, FinishServes DEF t, b, j

LEMMA PullServes ==
  ASSUME NEW s, NEW R \in SUBSET Asks, SvcInv(s, R), NEW i \in s.pulls, NEW w \in Outcomes
  PROVE  Serves(s, Responds([Judged(s, i, w) EXCEPT !.pulls = @ \ {i}], i, w), R, R)
<1> DEFINE j == Judged(s, i, w)
           b == [j EXCEPT !.pulls = @ \ {i}]
           x == Saying(i, w)
           M == {x}
           t == Responds(b, i, w)
<1>1. /\ s \in SvcStates /\ s.queue \in Seq(Asks) /\ s.pulls \in SUBSET Asks /\ i \in Asks
  BY SvcTypes DEF SvcInv
<1>2. /\ IsInjective(s.queue) /\ Range(s.queue) \cap (s.owed \cup s.pulls \cup R) = {}
      /\ s.owed \cap (s.pulls \cup R) = {} /\ s.pulls \cap R = {}
  BY DEF SvcInv, Separate
<1>3. /\ j \in SvcStates /\ j.queue = s.queue /\ j.owed = s.owed /\ j.pulls = s.pulls
      /\ j.lost = s.lost /\ j.epoch = s.epoch /\ j.active = s.active
      /\ j.resp = s.resp /\ j.ev = s.ev /\ j.verdict = [s.verdict EXCEPT ![i] = w]
  BY <1>1, JudgedIs
<1> HIDE DEF j
<1>4. s.pulls \ {i} \in SUBSET Asks
  BY <1>1
<1>5. /\ b \in SvcStates /\ b.queue = s.queue /\ b.pulls = s.pulls \ {i} /\ b.owed = s.owed
      /\ b.lost = s.lost /\ b.epoch = s.epoch /\ b.active = s.active
      /\ b.resp = s.resp /\ b.ev = s.ev /\ b.verdict = j.verdict
  BY <1>3, <1>4 DEF SvcStates
<1>6. b.verdict = [s.verdict EXCEPT ![i] = w]
  BY <1>3, <1>5
<1> HIDE DEF b
<1>7. /\ w \in Answering /\ x \in Answers
      /\ x.id = i /\ x.what \in EndWords /\ (IF x.what = "Done" THEN "Ok" ELSE x.what) = w
  BY <1>1, EndsTell
<1>8. Told(b, t, M)
  BY <1>1, <1>5, <1>7, SayingIs
<1> HIDE DEF x, t
<1>9. /\ M \in SUBSET AnyMessage
      /\ \A m \in M : m.id = i /\ (m.what \in EndWords => (IF m.what = "Done" THEN "Ok" ELSE m.what) = w)
      /\ \E m \in M : m.what \in EndWords
  BY <1>7 DEF AnyMessage
<1> HIDE DEF M
<1>10. Said(b) = Said(s) /\ Separate(b, R)
  BY <1>2, <1>5 DEF Said, Separate
<1>11. i \in Busy(s) \cup R /\ Busy(b) \cup R = (Busy(s) \cup R) \ {i}
  BY <1>2, <1>5 DEF Busy
<1>12. Finishes(s, b, t, R, R, M, i, w)
  BY <1>5, <1>6, <1>8, <1>9, <1>10, <1>11 DEF Finishes
<1> QED BY <1>12, FinishServes DEF t, b, j

(* The commands a radio transition cancels are failed, and told so.         *)
LEMMA FailedIs ==
  ASSUME NEW s \in SvcStates, NEW who
  PROVE  LET t == Failed(s, who)
         IN  /\ t \in SvcStates /\ t.queue = s.queue /\ t.owed = s.owed /\ t.pulls = s.pulls
             /\ t.lost = s.lost /\ t.epoch = s.epoch /\ t.active = s.active
             /\ t.resp = s.resp /\ t.ev = s.ev
             /\ \A i \in Asks : t.verdict[i] = IF i \in who THEN "Fail" ELSE s.verdict[i]
<1> DEFINE v == [i \in Asks |-> IF i \in who THEN "Fail" ELSE s.verdict[i]]
<1>1. s.verdict \in [Asks -> {"None", "Ok", "Fail", "Timeout"}]
  BY SvcTypes
<1>2. v \in [Asks -> {"None", "Ok", "Fail", "Timeout"}]
  BY <1>1
<1>3. \A i \in Asks : v[i] = IF i \in who THEN "Fail" ELSE s.verdict[i]
  OBVIOUS
<1>4. Failed(s, who) = [s EXCEPT !.verdict = v]
  BY DEF Failed
<1> HIDE DEF v
<1> QED BY <1>2, <1>3, <1>4 DEF SvcStates

LEMMA FailuresAre ==
  /\ Failures \in Seq(Answers) /\ Failures \in Seq(Events) /\ Len(Failures) = MaxAsked
  /\ Asks = 1 .. Len(Failures)
  /\ \A i \in Asks : Failures[i].id = i /\ Failures[i].what = "Fail"
                     /\ Failures[i] \in Answers /\ Failures[i] \in Events
<1>1. \A i \in Asks : Saying(i, "Fail") \in Answers /\ Saying(i, "Fail") \in Events
  BY MessageIs DEF Answering, Happening
<1>2. \A i \in Asks : Saying(i, "Fail").id = i /\ Saying(i, "Fail").what = "Fail"
  BY DEF Saying
<1>3. \A i \in Asks : Failures[i] = Saying(i, "Fail")
  BY DEF Failures
<1>4. Failures \in [1 .. MaxAsked -> Answers] /\ Failures \in [1 .. MaxAsked -> Events]
  BY <1>1 DEF Failures, Asks
<1>5. MaxAsked \in Nat
  BY FrontSizes
<1>6. Failures \in Seq(Answers) /\ Failures \in Seq(Events) /\ Len(Failures) = MaxAsked
  BY <1>4, <1>5
<1> QED BY <1>1, <1>2, <1>3, <1>6 DEF Asks

LEMMA RangeOfPicked ==
  ASSUME NEW T, NEW s \in Seq(T), NEW P \in SUBSET (1 .. Len(s))
  PROVE  /\ Picked(s, P) \in Seq(T) /\ Range(Picked(s, P)) = {s[n] : n \in P}
         /\ IsInjective(s) => IsInjective(Picked(s, P))
<1> DEFINE q == Picked(s, P)
           c == Cardinality(P)
           f == InOrder(P)
<1>1. /\ q \in Seq(T) /\ Len(q) = c /\ c \in Nat
      /\ \A a \in 1 .. c : f[a] \in P /\ q[a] = s[f[a]]
      /\ \A a, b \in 1 .. c : f[a] = f[b] => a = b
      /\ \A i \in P : \E a \in 1 .. c : q[a] = s[i]
  BY PickedIs
<1> HIDE DEF q, c, f
<1>2. ASSUME NEW x \in Range(q) PROVE \E n \in P : s[n] = x
  <2>1. PICK a \in 1 .. c : q[a] = x
    BY <1>1, RangeIs
  <2> QED BY <2>1, <1>1
<1>3. \A n \in P : s[n] \in Range(q)
  BY <1>1, RangeIs
<1>4. ASSUME IsInjective(s) PROVE IsInjective(q)
  <2>1. \A a, b \in 1 .. Len(s) : s[a] = s[b] => a = b
    BY <1>4 DEF IsInjective
  <2>2. ASSUME NEW a \in 1 .. c, NEW b \in 1 .. c, q[a] = q[b] PROVE a = b
    <3>1. f[a] \in 1 .. Len(s) /\ f[b] \in 1 .. Len(s) /\ s[f[a]] = s[f[b]]
      BY <1>1, <2>2
    <3> QED BY <3>1, <2>1, <1>1
  <2>3. DOMAIN q = 1 .. c
    BY <1>1
  <2> QED BY <2>2, <2>3 DEF IsInjective
<1> QED BY <1>1, <1>2, <1>3, <1>4 DEF q

LEMMA DeferredCancelled ==
  ASSUME NEW s, NEW R \in SUBSET Asks, SvcInv(s, R)
  PROVE  Serves(s, CancelsDeferred(s), R, R)
<1> DEFINE h == Failed(s, s.owed)
           b == [h EXCEPT !.owed = {}]
           e == Picked(Failures, s.owed)
           M == Range(<< >>) \cup Range(e)
           t == Tells(b, << >>, e)
<1>1. /\ s \in SvcStates /\ s.owed \in SUBSET Asks /\ s.owed \in SUBSET (1 .. Len(Failures))
  BY SvcTypes, FailuresAre DEF SvcInv
<1>2. /\ IsInjective(s.queue) /\ Range(s.queue) \cap (s.owed \cup s.pulls \cup R) = {}
      /\ s.owed \cap (s.pulls \cup R) = {} /\ s.pulls \cap R = {}
  BY DEF SvcInv, Separate
<1>3. /\ h \in SvcStates /\ h.queue = s.queue /\ h.owed = s.owed /\ h.pulls = s.pulls
      /\ h.lost = s.lost /\ h.epoch = s.epoch /\ h.active = s.active
      /\ h.resp = s.resp /\ h.ev = s.ev
      /\ \A i \in Asks : h.verdict[i] = IF i \in s.owed THEN "Fail" ELSE s.verdict[i]
  BY <1>1, FailedIs
<1> HIDE DEF h
<1>4. /\ b \in SvcStates /\ b.queue = s.queue /\ b.owed = {} /\ b.pulls = s.pulls
      /\ b.lost = s.lost /\ b.epoch = s.epoch /\ b.active = s.active
      /\ b.resp = s.resp /\ b.ev = s.ev /\ b.verdict = h.verdict
  BY <1>3 DEF SvcStates
<1> HIDE DEF b
<1>5. e \in Seq(Events) /\ Range(e) = {Failures[n] : n \in s.owed}
  BY <1>1, FailuresAre, RangeOfPicked
<1>6. << >> \in Messages(Answering) /\ Range(<< >>) = {} /\ e \in Messages(Happening)
  BY <1>5 DEF Messages, Range, Events
<1> HIDE DEF e
<1>7. Told(b, t, M)
  BY <1>4, <1>6, TellsIs
<1>8. M = {Failures[n] : n \in s.owed}
  BY <1>5, <1>6
<1> HIDE DEF M, t
<1>9. M \in SUBSET AnyMessage
  BY <1>1, <1>8, FailuresAre DEF AnyMessage
<1>10. \A m \in M : m.id \in s.owed /\ m.what = "Fail"
  BY <1>1, <1>8, FailuresAre
<1>11. s.owed \subseteq EndsIn(M)
  BY <1>1, <1>8, FailuresAre DEF EndsIn, EndWords
<1>12. Agree(M, b.verdict) /\ IdsOf(M) \subseteq Busy(s) \cup R
  BY <1>1, <1>3, <1>4, <1>10 DEF Agree, IdsOf, Busy
<1>13. Said(b) = Said(s) /\ Separate(b, R)
  BY <1>2, <1>4 DEF Said, Separate
<1>14. /\ Busy(b) \cup R = (Busy(s) \cup R) \ s.owed
       /\ s.owed \subseteq Busy(s) \cup R /\ s.lost \subseteq b.lost
  BY <1>2, <1>4 DEF Busy
<1>15. \A i \in Asks : b.verdict[i] = s.verdict[i] \/ i \in s.owed
  BY <1>3, <1>4
<1>16. Works(s, b, t, R, R, M, s.owed)
  BY <1>4, <1>7, <1>9, <1>11, <1>12, <1>13, <1>14, <1>15 DEF Works
<1>17. CancelsDeferred(s) = t
  BY DEF CancelsDeferred, t, b, h, e
<1> QED BY <1>16, <1>17, WorkServes

LEMMA QueuedCancelled ==
  ASSUME NEW s, NEW R \in SUBSET Asks, SvcInv(s, R)
  PROVE  Serves(s, CancelsQueued(s), R, R)
<1> DEFINE barred == {n \in DOMAIN s.queue : Barred(asked[s.queue[n]])}
           going == Picked(s.queue, barred)
           stays == Picked(s.queue, DOMAIN s.queue \ barred)
           told  == [n \in DOMAIN going |-> Failures[going[n]]]
           gone  == Range(going)
           h == Failed(s, gone)
           b == [h EXCEPT !.queue = Picked(@, DOMAIN @ \ barred)]
           M == Range(told) \cup Range(told)
           t == Tells(b, told, told)
<1>1. /\ s \in SvcStates /\ s.queue \in Seq(Asks) /\ DOMAIN s.queue = 1 .. Len(s.queue)
      /\ Range(s.queue) \in SUBSET Asks
  <2>1. s \in SvcStates /\ s.queue \in Seq(Asks) /\ Range(s.queue) \in SUBSET Asks
    BY SvcTypes DEF SvcInv
  <2> QED BY <2>1
<1>2. /\ IsInjective(s.queue) /\ Range(s.queue) \cap (s.owed \cup s.pulls \cup R) = {}
      /\ s.owed \cap (s.pulls \cup R) = {} /\ s.pulls \cap R = {}
  BY DEF SvcInv, Separate
<1>3. barred \in SUBSET (1 .. Len(s.queue)) /\ DOMAIN s.queue \ barred \in SUBSET (1 .. Len(s.queue))
  BY <1>1
<1>4. CancelsQueued(s) = t
  BY DEF CancelsQueued, Failed
<1> DEFINE staying == DOMAIN s.queue \ barred
<1> HIDE DEF barred
<1>5. going \in Seq(Asks) /\ gone = {s.queue[n] : n \in barred}
  BY <1>1, <1>3, RangeOfPicked
<1>6. stays \in Seq(Asks) /\ Range(stays) = {s.queue[n] : n \in staying} /\ IsInjective(stays)
  <2>1. staying \in SUBSET (1 .. Len(s.queue)) /\ stays = Picked(s.queue, staying)
    BY <1>3
  <2> HIDE DEF staying
  <2> QED BY <2>1, <1>1, <1>2, RangeOfPicked
<1>7. /\ Range(s.queue) = gone \cup Range(stays) /\ gone \cap Range(stays) = {}
  <2>1. Range(s.queue) = {s.queue[n] : n \in 1 .. Len(s.queue)}
    BY <1>1 DEF Range
  <2>2. \A n \in 1 .. Len(s.queue) : n \in barred \/ n \in staying
    BY <1>1
  <2>3. \A n \in barred : n \notin staying /\ n \in 1 .. Len(s.queue)
    BY <1>3
  <2>4. \A n \in staying : n \in 1 .. Len(s.queue)
    BY <1>1
  <2>5. \A n, m \in 1 .. Len(s.queue) : s.queue[n] = s.queue[m] => n = m
    BY <1>1, <1>2 DEF IsInjective
  <2> HIDE DEF staying, going, stays, gone
  <2>6. Range(s.queue) = gone \cup Range(stays)
    BY <1>5, <1>6, <2>1, <2>2, <2>3, <2>4
  <2>7. gone \cap Range(stays) = {}
    BY <1>5, <1>6, <2>3, <2>4, <2>5
  <2> QED BY <2>6, <2>7
<1> HIDE DEF stays, staying
<1>8. /\ told \in Seq(Answers) /\ told \in Seq(Events)
      /\ Range(told) = {Failures[i] : i \in gone}
  <2>1. /\ DOMAIN going = 1 .. Len(going) /\ Len(going) \in Nat
        /\ \A n \in 1 .. Len(going) : going[n] \in Asks
    BY <1>5
  <2>2. gone = {going[n] : n \in 1 .. Len(going)}
    BY <2>1 DEF Range
  <2> HIDE DEF going, gone
  <2>3. \A n \in 1 .. Len(going) : told[n] = Failures[going[n]] /\ told[n] \in Answers /\ told[n] \in Events
    BY <2>1, FailuresAre
  <2>4. told \in [1 .. Len(going) -> Answers] /\ told \in [1 .. Len(going) -> Events]
    BY <2>1, <2>3
  <2>5. told \in Seq(Answers) /\ told \in Seq(Events)
    BY <2>1, <2>4
  <2>6. Range(told) = {told[n] : n \in 1 .. Len(going)}
    BY <2>1 DEF Range
  <2> HIDE DEF told
  <2>7. Range(told) = {Failures[i] : i \in gone}
    BY <2>2, <2>3, <2>6
  <2> QED BY <2>5, <2>7
<1> HIDE DEF going, told
<1>9. gone \in SUBSET Asks
  BY <1>1, <1>7
<1> HIDE DEF gone
<1>10. /\ h \in SvcStates /\ h.queue = s.queue /\ h.owed = s.owed /\ h.pulls = s.pulls
       /\ h.lost = s.lost /\ h.epoch = s.epoch /\ h.active = s.active
       /\ h.resp = s.resp /\ h.ev = s.ev
       /\ \A i \in Asks : h.verdict[i] = IF i \in gone THEN "Fail" ELSE s.verdict[i]
  BY <1>1, FailedIs
<1> HIDE DEF h
<1>11. /\ b \in SvcStates /\ b.queue = stays /\ b.owed = s.owed /\ b.pulls = s.pulls
       /\ b.lost = s.lost /\ b.epoch = s.epoch /\ b.active = s.active
       /\ b.resp = s.resp /\ b.ev = s.ev /\ b.verdict = h.verdict
  <2>1. b = [h EXCEPT !.queue = stays]
    BY <1>10 DEF stays, staying
  <2> HIDE DEF b
  <2> QED BY <2>1, <1>6, <1>10 DEF SvcStates
<1> HIDE DEF b
<1>12. told \in Messages(Answering) /\ told \in Messages(Happening)
  BY <1>8 DEF Messages, Answers, Events
<1>13. Told(b, t, M)
  BY <1>11, <1>12, TellsIs
<1>14. M = {Failures[i] : i \in gone}
  BY <1>8
<1> HIDE DEF M, t
<1>15. M \in SUBSET AnyMessage
  BY <1>9, <1>14, FailuresAre DEF AnyMessage
<1>16. ASSUME NEW m \in M PROVE m.id \in gone /\ m.what = "Fail"
  <2>1. PICK i \in gone : m = Failures[i]
    BY <1>14
  <2> QED BY <2>1, <1>9, FailuresAre
<1>17. gone \subseteq EndsIn(M)
  BY <1>9, <1>14, FailuresAre DEF EndsIn, EndWords
<1>18. gone \subseteq Busy(s)
  BY <1>7 DEF Busy
<1>19. Agree(M, b.verdict) /\ IdsOf(M) \subseteq Busy(s) \cup R
  BY <1>9, <1>10, <1>11, <1>16, <1>18 DEF Agree, IdsOf
<1>20. Said(b) = Said(s) /\ Separate(b, R)
  BY <1>2, <1>6, <1>7, <1>11 DEF Said, Separate
<1>21. /\ Busy(b) \cup R = (Busy(s) \cup R) \ gone
       /\ gone \subseteq Busy(s) \cup R /\ s.lost \subseteq b.lost
  BY <1>2, <1>7, <1>11 DEF Busy
<1>22. \A i \in Asks : b.verdict[i] = s.verdict[i] \/ i \in gone
  BY <1>10, <1>11
<1>23. Works(s, b, t, R, R, M, gone)
  BY <1>11, <1>13, <1>15, <1>17, <1>19, <1>20, <1>21, <1>22 DEF Works
<1> QED BY <1>4, <1>23, WorkServes DEF t, b, h, gone, going, told, stays

-----------------------------------------------------------------------------
(* FrontendAdapter: the statuses.                                           *)

OneEach(q) == \A m, n \in DOMAIN q : q[m].id = q[n].id => m = n
UiOK(u) == u \in UiStates /\ Len(u.track) <= TrackSize /\ OneEach(u.track)

LEMMA UiTypes ==
  ASSUME NEW u \in UiStates
  PROVE  /\ u.track \in Seq(Statuses) /\ u.claims \in SUBSET Asks /\ u.gaveUp \in SUBSET Asks
         /\ u.stale \in SUBSET Asks /\ u.epochs \in [Asks -> 0 .. NoEpoch]
         /\ u.epoch \in 0 .. MaxRadio /\ u.active \in BOOLEAN
BY DEF UiStates

LEMMA StatusTypes ==
  /\ \A e \in Statuses : e.id \in Asks
  /\ \A i \in Asks : Fresh(i) \in Statuses /\ Fresh(i).id = i /\ Fresh(i).is = "Queued"
BY DEF Statuses, Conditions, Fresh

(* The status of a request is the one of the list with its id.              *)
LEMMA StatusIs ==
  ASSUME NEW u, u.track \in Seq(Statuses), OneEach(u.track)
  PROVE  /\ Tracked(u) = IdsOf(Range(u.track)) /\ Tracked(u) \in SUBSET Asks
         /\ \A e \in Range(u.track) : e \in Statuses /\ e.id \in Tracked(u) /\ Status(u, e.id) = e
         /\ \A i \in Tracked(u) : /\ Status(u, i) \in Range(u.track) /\ Status(u, i).id = i
                                  /\ At(u, i) \in 1 .. Len(u.track) /\ Status(u, i) = u.track[At(u, i)]
         /\ \A i \in Asks : Status(u, i) \in Statuses /\ Status(u, i).id = i
         /\ \A i : i \notin Tracked(u) => Status(u, i) = Fresh(i)
<1> DEFINE q == u.track
<1>1. /\ DOMAIN q = 1 .. Len(q) /\ Range(q) \in SUBSET Statuses
      /\ \A n \in 1 .. Len(q) : q[n] \in Range(q)
      /\ \A e \in Range(q) : \E n \in 1 .. Len(q) : q[n] = e
  BY RangeIs
<1>2. \A m, n \in 1 .. Len(q) : q[m].id = q[n].id => m = n
  BY <1>1 DEF OneEach
<1>3. Tracked(u) = {q[n].id : n \in 1 .. Len(q)}
  BY <1>1 DEF Tracked
<1>4. ASSUME NEW i \in Tracked(u)
      PROVE  At(u, i) \in 1 .. Len(q) /\ q[At(u, i)].id = i
  <2>1. \E n \in 1 .. Len(q) : q[n].id = i
    BY <1>3
  <2>2. At(u, i) = CHOOSE n \in 1 .. Len(q) : q[n].id = i
    BY <1>1 DEF At
  <2> QED BY <2>1, <2>2
<1>5. ASSUME NEW i \in Tracked(u)
      PROVE  Status(u, i) = q[At(u, i)] /\ Status(u, i) \in Range(q) /\ Status(u, i).id = i
  BY <1>1, <1>4 DEF Status
<1>6. ASSUME NEW e \in Range(q) PROVE e \in Statuses /\ e.id \in Tracked(u) /\ Status(u, e.id) = e
  <2>1. PICK n \in 1 .. Len(q) : q[n] = e
    BY <1>1
  <2>2. e.id \in Tracked(u)
    BY <1>3, <2>1
  <2>3. At(u, e.id) = n
    BY <1>2, <1>4, <2>1, <2>2
  <2> QED BY <1>1, <1>5, <2>1, <2>2, <2>3
<1>7. \A i : i \notin Tracked(u) => Status(u, i) = Fresh(i)
  BY DEF Status
<1>8. \A i \in Asks : Status(u, i) \in Statuses /\ Status(u, i).id = i
  BY <1>1, <1>5, <1>7, StatusTypes
<1>9. Tracked(u) = IdsOf(Range(q))
  <2>1. \A i \in Tracked(u) : \E e \in Range(q) : e.id = i
    BY <1>5
  <2>2. \A e \in Range(q) : e.id \in Tracked(u)
    BY <1>6
  <2> QED BY <2>1, <2>2 DEF IdsOf
<1>10. Tracked(u) \in SUBSET Asks
  BY <1>1, <1>9, StatusTypes DEF IdsOf
<1> QED BY <1>4, <1>5, <1>6, <1>7, <1>8, <1>9, <1>10

(* From u the adapter came to v by making e the status of its request,      *)
(* which takes those of D off the list.                                     *)
Noted(u, v, e, D) ==
  /\ UiOK(v) /\ D \subseteq Tracked(u) \cup {e.id}
  /\ Range(v.track) = {x \in Range(u.track) \cup {e} : (x.id = e.id => x = e) /\ x.id \notin D}
  /\ v.gaveUp = u.gaveUp \cup D /\ v.claims = u.claims \ D
  /\ v.epochs = u.epochs /\ v.epoch = u.epoch /\ v.active = u.active /\ v.stale = u.stale
  /\ ~Ended(e.is) => e.id \notin D

LEMMA NotedMeans ==
  ASSUME NEW u, NEW v, NEW e \in Statuses, NEW D, UiOK(u), Noted(u, v, e, D)
  PROVE  /\ Tracked(v) = (Tracked(u) \cup {e.id}) \ D
         /\ \A i \in Tracked(v) : Status(v, i) = IF i = e.id THEN e ELSE Status(u, i)
<1>1. /\ u.track \in Seq(Statuses) /\ OneEach(u.track)
      /\ v.track \in Seq(Statuses) /\ OneEach(v.track)
  BY UiTypes DEF UiOK, Noted
<1>2. /\ Tracked(u) = IdsOf(Range(u.track)) /\ Tracked(v) = IdsOf(Range(v.track))
      /\ \A x \in Range(u.track) : Status(u, x.id) = x
      /\ \A x \in Range(v.track) : Status(v, x.id) = x
      /\ \A i \in Tracked(u) : Status(u, i) \in Range(u.track) /\ Status(u, i).id = i
  BY <1>1, StatusIs
<1>3. \A x : x \in Range(v.track) <=> /\ x \in Range(u.track) \/ x = e
                                      /\ (x.id = e.id => x = e) /\ x.id \notin D
  BY DEF Noted
<1>4. ASSUME NEW i \in (Tracked(u) \cup {e.id}) \ D
      PROVE  i \in Tracked(v) /\ Status(v, i) = IF i = e.id THEN e ELSE Status(u, i)
  <2>1. CASE i = e.id
    <3>1. e \in Range(v.track)
      BY <2>1, <1>3
    <3> QED BY <2>1, <3>1, <1>2 DEF IdsOf
  <2>2. CASE i # e.id
    <3>1. Status(u, i) \in Range(v.track) /\ Status(u, i).id = i
      BY <2>2, <1>2, <1>3
    <3> QED BY <2>2, <3>1, <1>2 DEF IdsOf
  <2> QED BY <2>1, <2>2
<1>5. ASSUME NEW i \in Tracked(v) PROVE i \in (Tracked(u) \cup {e.id}) \ D
  <2>1. PICK x \in Range(v.track) : x.id = i
    BY <1>2 DEF IdsOf
  <2> QED BY <2>1, <1>2, <1>3 DEF IdsOf
<1> QED BY <1>4, <1>5

LEMMA OthersIs ==
  ASSUME NEW u, u.track \in Seq(Statuses), OneEach(u.track), NEW i
  PROVE  LET o == Others(u, i)
         IN  /\ o \in Seq(Statuses) /\ OneEach(o) /\ Len(o) <= Len(u.track)
             /\ Range(o) = {x \in Range(u.track) : x.id # i}
<1> DEFINE q == u.track
           P == {n \in DOMAIN q : q[n].id # i}
           o == Others(u, i)
           f == InOrder(P)
           c == Cardinality(P)
<1>1. /\ DOMAIN q = 1 .. Len(q) /\ Len(q) \in Nat /\ P \in SUBSET (1 .. Len(q))
      /\ \A n \in P : q[n].id # i
      /\ \A n \in 1 .. Len(q) : q[n].id # i => n \in P
  OBVIOUS
<1>2. o = Picked(q, P)
  BY DEF Others
<1> HIDE DEF P
<1>3. /\ o \in Seq(Statuses) /\ Len(o) = c /\ c \in Nat
      /\ \A a \in 1 .. c : f[a] \in P /\ o[a] = q[f[a]]
      /\ \A a, b \in 1 .. c : f[a] = f[b] => a = b
      /\ Range(o) = {q[n] : n \in P}
  <2>0. q \in Seq(Statuses)
    OBVIOUS
  <2> HIDE DEF q, o
  <2>1. o \in Seq(Statuses) /\ Range(o) = {q[n] : n \in P}
    BY <2>0, <1>1, <1>2, RangeOfPicked
  <2>2. /\ Len(o) = c /\ c \in Nat
        /\ \A a \in 1 .. c : f[a] \in P /\ o[a] = q[f[a]]
        /\ \A a, b \in 1 .. c : f[a] = f[b] => a = b
    BY <2>0, <1>1, <1>2, PickedIs
  <2> QED BY <2>1, <2>2
<1> HIDE DEF o, f
<1>4. OneEach(o)
  <2>1. \A m, n \in 1 .. Len(q) : q[m].id = q[n].id => m = n
    BY <1>1 DEF OneEach
  <2>2. ASSUME NEW a \in 1 .. c, NEW b \in 1 .. c, o[a].id = o[b].id PROVE a = b
    <3>1. f[a] \in 1 .. Len(q) /\ f[b] \in 1 .. Len(q) /\ q[f[a]].id = q[f[b]].id
      BY <1>1, <1>3, <2>2
    <3> QED BY <3>1, <2>1, <1>3
  <2>3. DOMAIN o = 1 .. c
    BY <1>3
  <2> QED BY <2>2, <2>3 DEF OneEach
<1>5. Len(o) <= Len(q)
  <2>1. IsFiniteSet(1 .. Len(q)) /\ Cardinality(1 .. Len(q)) = Len(q)
    <3> DEFINE l == Len(q)
    <3>1. 1 \in Int /\ l \in Int /\ l \in Nat
      BY <1>1
    <3> HIDE DEF l
    <3>2. IsFiniteSet(1 .. l) /\ Cardinality(1 .. l) = IF 1 > l THEN 0 ELSE l - 1 + 1
      BY <3>1, FS_Interval
    <3>3. Cardinality(1 .. l) = l
      BY <3>1, <3>2
    <3> QED BY <3>2, <3>3 DEF l
  <2>2. c <= Cardinality(1 .. Len(q))
    BY <1>1, <2>1, FS_Subset
  <2> QED BY <2>1, <2>2, <1>3
<1>6. Range(o) = {x \in Range(q) : x.id # i}
  <2>1. \A n \in P : q[n] \in Range(q) /\ q[n].id # i
    BY <1>1, RangeIs
  <2>2. ASSUME NEW x \in Range(q), x.id # i PROVE \E n \in P : q[n] = x
    <3>1. PICK n \in 1 .. Len(q) : q[n] = x
      BY RangeIs
    <3> QED BY <3>1, <2>2, <1>1
  <2> HIDE DEF q
  <2> QED BY <2>1, <2>2, <1>3
<1> QED BY <1>3, <1>4, <1>5, <1>6 DEF o

LEMMA RemovedIs ==
  ASSUME NEW q \in Seq(Statuses), OneEach(q), NEW n \in 1 .. Len(q)
  PROVE  /\ RemoveAt(q, n) \in Seq(Statuses) /\ Len(RemoveAt(q, n)) = Len(q) - 1
         /\ OneEach(RemoveAt(q, n))
         /\ Range(RemoveAt(q, n)) = {x \in Range(q) : x.id # q[n].id}
<1> DEFINE r == RemoveAt(q, n)
           at(j) == IF j < n THEN j ELSE j + 1
<1>1. r \in Seq(Statuses) /\ Len(r) = Len(q) - 1 /\ \A j \in 1 .. Len(r) : r[j] = IF j < n THEN q[j] ELSE q[j + 1]
  BY LessOne
<1>2. \A a, b \in 1 .. Len(q) : q[a].id = q[b].id => a = b
  BY DEF OneEach
<1> HIDE DEF r
<1>3. ASSUME NEW j \in 1 .. Len(r) PROVE at(j) \in 1 .. Len(q) /\ at(j) # n /\ r[j] = q[at(j)]
  BY <1>1
<1>4. \A a, b \in 1 .. Len(r) : at(a) = at(b) => a = b
  BY <1>1
<1>5. ASSUME NEW k \in 1 .. Len(q), k # n PROVE \E j \in 1 .. Len(r) : at(j) = k
  <2>1. CASE k < n
    <3>1. k \in 1 .. Len(r) /\ at(k) = k
      BY <2>1, <1>1
    <3> QED BY <3>1
  <2>2. CASE ~(k < n)
    <3>1. k - 1 \in 1 .. Len(r) /\ ~(k - 1 < n) /\ (k - 1) + 1 = k
      BY <2>2, <1>1, <1>5
    <3>2. at(k - 1) = k
      BY <3>1
    <3> QED BY <3>1, <3>2
  <2> QED BY <2>1, <2>2
<1> HIDE DEF at
<1>6. OneEach(r)
  <2>1. ASSUME NEW a \in 1 .. Len(r), NEW b \in 1 .. Len(r), r[a].id = r[b].id PROVE a = b
    BY <1>2, <1>3, <1>4, <2>1
  <2>2. DOMAIN r = 1 .. Len(r)
    BY <1>1
  <2> QED BY <2>1, <2>2 DEF OneEach
<1>7. ASSUME NEW x \in Range(r) PROVE x \in Range(q) /\ x.id # q[n].id
  <2>1. PICK j \in 1 .. Len(r) : r[j] = x
    BY <1>1, RangeIs
  <2>2. at(j) \in 1 .. Len(q) /\ at(j) # n /\ x = q[at(j)]
    BY <2>1, <1>3
  <2> QED BY <2>2, <1>2, RangeIs
<1>8. ASSUME NEW x \in Range(q), x.id # q[n].id PROVE x \in Range(r)
  <2>1. PICK k \in 1 .. Len(q) : q[k] = x
    BY RangeIs
  <2>2. PICK j \in 1 .. Len(r) : at(j) = k
    BY <2>1, <1>5, <1>8
  <2>3. r[j] = x
    BY <2>1, <2>2, <1>3
  <2> QED BY <2>3, <1>1, RangeIs
<1> QED BY <1>1, <1>6, <1>7, <1>8 DEF r

(* A status becomes the latest one, and maybe one goes.                     *)
LEMMA UpsertIs ==
  ASSUME NEW u, UiOK(u), NEW e \in Statuses
  PROVE  \E D : Noted(u, Upsert(u, e), e, D)
<1> DEFINE o == Others(u, e.id)
           q == Append(o, e)
           w == [u EXCEPT !.track = q]
           v == Upsert(u, e)
<1>1. /\ u \in UiStates /\ u.track \in Seq(Statuses) /\ OneEach(u.track) /\ Len(u.track) <= TrackSize
      /\ TrackSize \in Nat \ {0} /\ Len(u.track) \in Nat
      /\ u.gaveUp \in SUBSET Asks /\ u.claims \in SUBSET Asks
  BY UiTypes, FrontSizes DEF UiOK
<1>2. /\ o \in Seq(Statuses) /\ OneEach(o) /\ Len(o) <= Len(u.track) /\ Len(o) \in Nat
      /\ Range(o) = {x \in Range(u.track) : x.id # e.id}
  <2>1. /\ o \in Seq(Statuses) /\ OneEach(o) /\ Len(o) <= Len(u.track)
        /\ Range(o) = {x \in Range(u.track) : x.id # e.id}
    BY <1>1, OthersIs
  <2> QED BY <2>1
<1> HIDE DEF o
<1>3. q \in Seq(Statuses) /\ Len(q) = Len(o) + 1 /\ Range(q) = Range(o) \cup {e}
  BY <1>2, RangeOfAppend
<1>4. OneEach(q) /\ q[Len(q)] = e /\ Len(q) \in 1 .. Len(q)
  <2>1. /\ DOMAIN q = 1 .. Len(q) /\ q[Len(o) + 1] = e /\ \A j \in 1 .. Len(o) : q[j] = o[j]
        /\ \A j \in 1 .. Len(q) : j \in 1 .. Len(o) \/ j = Len(o) + 1
    BY <1>2
  <2> HIDE DEF q
  <2>2. \A j \in 1 .. Len(o) : o[j].id # e.id
    BY <1>2, RangeIs
  <2>3. \A a, b \in 1 .. Len(o) : o[a].id = o[b].id => a = b
    BY <1>2 DEF OneEach
  <2>4. \A a, b \in 1 .. Len(q) : q[a].id = q[b].id => a = b
    BY <2>1, <2>2, <2>3
  <2>5. q[Len(q)] = e /\ Len(q) \in 1 .. Len(q)
    BY <1>2, <1>3, <2>1
  <2> QED BY <2>1, <2>4, <2>5 DEF OneEach
<1> HIDE DEF q
<1>5. \A x : x \in Range(q) <=> (x \in Range(u.track) \/ x = e) /\ (x.id = e.id => x = e)
  BY <1>2, <1>3
<1>6. v = Trim(w)
  BY DEF Upsert, q, o
<1>7. /\ w \in UiStates /\ w.track = q /\ w.claims = u.claims /\ w.gaveUp = u.gaveUp
      /\ w.epochs = u.epochs /\ w.epoch = u.epoch /\ w.active = u.active /\ w.stale = u.stale
  BY <1>1, <1>3 DEF UiStates
<1> HIDE DEF w, v
<1>8. CASE Len(q) <= TrackSize
  <2>1. v = w
    BY <1>6, <1>7, <1>8 DEF Trim
  <2>2. UiOK(v)
    BY <2>1, <1>4, <1>7, <1>8 DEF UiOK
  <2>3. Range(v.track) = {x \in Range(u.track) \cup {e} : (x.id = e.id => x = e) /\ x.id \notin {}}
    BY <2>1, <1>5, <1>7
  <2>4. Noted(u, v, e, {})
    BY <2>1, <2>2, <2>3, <1>7 DEF Noted
  <2> QED BY <2>4 DEF v
<1>9. CASE ~(Len(q) <= TrackSize)
  <2> DEFINE over == {n \in DOMAIN q : Ended(q[n].is)}
             n == IF over = {} THEN 1 ELSE Min(over)
             i == q[n].id
             r == RemoveAt(q, n)
             D == {i}
  <2>1. /\ n \in 1 .. Len(q)
        /\ over # {} => Ended(q[n].is)
        /\ over = {} => n = 1
    <3>1. CASE over = {}
      <4>1. 1 \in 1 .. Len(q)
        BY <1>1, <1>3, <1>9
      <4> QED BY <3>1, <4>1
    <3>2. CASE over # {}
      <4>1. over \in SUBSET Nat /\ over \subseteq 1 .. Len(q) /\ \A k \in over : Ended(q[k].is)
        BY <1>3
      <4> HIDE DEF over
      <4>2. n \in over
        BY <3>2, <4>1, LowestIs
      <4> QED BY <3>2, <4>1, <4>2
    <3> QED BY <3>1, <3>2
  <2>2. v = [Freed(w, i) EXCEPT !.track = RemoveAt(@, n), !.gaveUp = @ \cup {i}]
    BY <1>6, <1>7, <1>9 DEF Trim
  <2> HIDE DEF over, n
  <2>3. /\ r \in Seq(Statuses) /\ Len(r) = Len(q) - 1 /\ OneEach(r)
        /\ Range(r) = {x \in Range(q) : x.id # i}
    BY <2>1, <1>3, <1>4, RemovedIs
  <2>4. i \in Asks /\ q[n] \in Range(q) /\ i \in Tracked(u) \cup {e.id}
    <3>1. q[n] \in Range(q) /\ q[n] \in Statuses
      BY <2>1, <1>3, RangeIs
    <3>2. q[n] \in Range(u.track) \/ q[n] = e
      BY <3>1, <1>5
    <3> QED BY <3>1, <3>2, <1>1, StatusIs, StatusTypes
  <2>5. ~Ended(e.is) => i # e.id
    <3>1. SUFFICES ASSUME i = e.id, ~Ended(e.is) PROVE FALSE
      OBVIOUS
    <3>2. n = Len(q)
      <4>1. \A a, b \in 1 .. Len(q) : q[a].id = q[b].id => a = b
        BY <1>3, <1>4 DEF OneEach
      <4> QED BY <3>1, <4>1, <2>1, <1>4
    <3>3. q[n] = e /\ n # 1
      BY <3>2, <1>1, <1>3, <1>2, <1>4, <1>9
    <3> QED BY <2>1, <3>1, <3>3
  <2> HIDE DEF r, i
  <2>6. /\ v \in UiStates /\ v.track = r /\ v.claims = u.claims \ {i} /\ v.gaveUp = u.gaveUp \cup {i}
        /\ v.epochs = u.epochs /\ v.epoch = u.epoch /\ v.active = u.active /\ v.stale = u.stale
    <3> DEFINE f == Freed(w, i)
    <3>1. w.claims \ {i} \in SUBSET Asks /\ w.gaveUp \cup {i} \in SUBSET Asks
      BY <1>1, <1>7, <2>4
    <3>2. /\ f \in UiStates /\ f.track = q /\ f.claims = w.claims \ {i} /\ f.gaveUp = w.gaveUp
          /\ f.epochs = w.epochs /\ f.epoch = w.epoch /\ f.active = w.active /\ f.stale = w.stale
      BY <1>7, <3>1 DEF Freed, UiStates
    <3>3. v = [f EXCEPT !.track = RemoveAt(@, n), !.gaveUp = @ \cup {i}]
      BY <2>2
    <3> HIDE DEF f
    <3>4. v = [f EXCEPT !.track = r, !.gaveUp = w.gaveUp \cup {i}]
      BY <3>2, <3>3 DEF r
    <3>5. /\ v \in UiStates /\ v.track = r /\ v.claims = f.claims /\ v.gaveUp = w.gaveUp \cup {i}
          /\ v.epochs = f.epochs /\ v.epoch = f.epoch /\ v.active = f.active /\ v.stale = f.stale
      BY <3>1, <3>2, <3>4, <2>3 DEF UiStates
    <3> QED BY <3>2, <3>5, <1>7
  <2>7. UiOK(v)
    <3>1. Len(r) <= TrackSize
      BY <2>3, <1>1, <1>2, <1>3
    <3> QED BY <3>1, <2>3, <2>6 DEF UiOK
  <2>8. Range(v.track) = {x \in Range(u.track) \cup {e} : (x.id = e.id => x = e) /\ x.id \notin D}
    BY <2>3, <2>6, <1>5
  <2>9. Noted(u, v, e, D)
    BY <2>4, <2>5, <2>6, <2>7, <2>8 DEF Noted
  <2> QED BY <2>9 DEF v
<1> QED BY <1>8, <1>9

(* A status is replaced where it is.                                        *)
LEMMA ReplaceIs ==
  ASSUME NEW u, UiOK(u), NEW e \in Statuses, e.id \in Tracked(u)
  PROVE  Noted(u, [u EXCEPT !.track[At(u, e.id)] = e], e, {})
<1> DEFINE q == u.track
           k == At(u, e.id)
           p == [q EXCEPT ![k] = e]
           v == [u EXCEPT !.track[k] = e]
<1>1. /\ u \in UiStates /\ q \in Seq(Statuses) /\ OneEach(q) /\ Len(q) <= TrackSize
      /\ DOMAIN q = 1 .. Len(q)
  BY UiTypes DEF UiOK
<1>2. k \in 1 .. Len(q) /\ q[k].id = e.id
  BY <1>1, StatusIs
<1> HIDE DEF k
<1>3. /\ p \in Seq(Statuses) /\ Len(p) = Len(q) /\ p[k] = e
      /\ \A j \in 1 .. Len(q) : j # k => p[j] = q[j]
  BY <1>1, <1>2
<1>4. \A a, b \in 1 .. Len(q) : q[a].id = q[b].id => a = b
  BY <1>1 DEF OneEach
<1>5. /\ v \in UiStates /\ v.track = p /\ v.claims = u.claims /\ v.gaveUp = u.gaveUp
      /\ v.epochs = u.epochs /\ v.epoch = u.epoch /\ v.active = u.active /\ v.stale = u.stale
  BY <1>1, <1>3 DEF UiStates
<1> HIDE DEF p, v, q
<1>6. OneEach(p)
  <2>1. \A a, b \in 1 .. Len(q) : p[a].id = p[b].id => a = b
    BY <1>2, <1>3, <1>4
  <2>2. DOMAIN p = 1 .. Len(q)
    BY <1>3
  <2> QED BY <2>1, <2>2 DEF OneEach
<1>7. ASSUME NEW x \in Range(p) PROVE (x \in Range(q) \/ x = e) /\ (x.id = e.id => x = e)
  <2>1. PICK j \in 1 .. Len(q) : p[j] = x
    BY <1>3, RangeIs
  <2>2. q[j] \in Range(q)
    BY <1>1, RangeIs
  <2> QED BY <2>1, <2>2, <1>2, <1>3, <1>4
<1>8. ASSUME NEW x \in Range(q) \cup {e}, x.id = e.id => x = e PROVE x \in Range(p)
  <2>1. CASE x = e
    BY <2>1, <1>2, <1>3, RangeIs
  <2>2. CASE x # e
    <3>1. PICK j \in 1 .. Len(q) : q[j] = x
      BY <2>2, <1>1, RangeIs
    <3>2. p[j] = x
      BY <3>1, <2>2, <1>2, <1>3, <1>8
    <3> QED BY <3>1, <3>2, <1>3, RangeIs
  <2> QED BY <2>1, <2>2
<1>9. Range(p) = {x \in Range(q) \cup {e} : (x.id = e.id => x = e) /\ x.id \notin {}}
  BY <1>7, <1>8
<1>10. UiOK(v)
  BY <1>1, <1>3, <1>5, <1>6 DEF UiOK
<1> QED BY <1>5, <1>9, <1>10 DEF Noted, v, k, q

-----------------------------------------------------------------------------
(* FrontendAdapter: the inductive invariant.                                *)

Known(u) == Tracked(u) \cup u.gaveUp

(* The service has each command once and told of its end what it is.        *)
InService ==
  /\ SvcInv(svc, Range(box.req)) /\ IsInjective(box.req)
  /\ Agree(Said(box), svc.verdict) /\ svc.epoch <= radioOps

(* A command that anybody knows is followed or was given up, was asked for, *)
(* and is shown as ended only when it is, or was given up.                  *)
Followed ==
  /\ AtWork \cup IdsOf(Said(svc)) \cup IdsOf(Said(box)) \subseteq Known(ui)
  /\ \A i \in Asks : svc.verdict[i] # "None" => i \in Known(ui)
  /\ \A i \in Known(ui) : asked[i] # NoCall
  /\ ui.claims \subseteq Tracked(ui)
  /\ \A i \in Tracked(ui) : Ended(Status(ui, i).is) => svc.verdict[i] # "None" \/ i \in ui.gaveUp

(* NoOrphans, made stronger: of the messages only those that tell an end    *)
(* count, since the others settle nothing.                                  *)
ToldOf  == EndsIn(Said(svc)) \cup EndsIn(Said(box)) \cup svc.lost
Awaited == Unsettled \subseteq AtWork \cup ToldOf \cup ui.stale \cup ui.gaveUp

FrontInv == FrontTypeOK /\ InService /\ Followed /\ LanesExclusive /\ Awaited

(* EndsStand, of a step.                                                    *)
EndsKept ==
  \A i \in Asks :
    /\ i \in Tracked(ui) /\ Ended(Status(ui, i).is) =>
         (i \in Tracked(ui') => Ended(Status(ui', i).is))
    /\ LET now == Status(ui', i).is
       IN  now # Status(ui, i).is =>
             /\ now = "Done" => svc.verdict'[i] = "Ok"
             /\ now = "Fail" => svc.verdict'[i] = "Fail"

LEMMA FrontTypes ==
  ASSUME FrontTypeOK
  PROVE  /\ asked \in [Asks -> Calls \cup {NoCall}]
         /\ box \in BoxStates /\ svc \in SvcStates /\ ui \in UiStates /\ UiOK(ui)
         /\ box.req \in Seq(Asks) /\ Range(box.req) \in SUBSET Asks
         /\ box.resp \in Seq(Answers) /\ box.ev \in Seq(Events) /\ Said(box) \in SUBSET AnyMessage
         /\ IdsOf(Said(box)) \in SUBSET Asks /\ Busy(svc) \in SUBSET Asks
         /\ Tracked(ui) \in SUBSET Asks /\ Known(ui) \in SUBSET Asks
         /\ AtWork = Range(box.req) \cup Busy(svc) /\ AtWork \in SUBSET Asks
         /\ radioOps \in 0 .. MaxRadio /\ ui.epoch = svc.epoch /\ ui.active = svc.active
<1>1. /\ asked \in [Asks -> Calls \cup {NoCall}] /\ radioOps \in 0 .. MaxRadio
      /\ box \in BoxStates /\ svc \in SvcStates /\ ui \in UiStates
      /\ ui.epoch = svc.epoch /\ ui.active = svc.active
  BY DEF FrontTypeOK
<1>2. UiOK(ui)
  BY DEF FrontTypeOK, UiOK, OneEach
<1>3. /\ box.req \in Seq(Asks) /\ box.resp \in Messages(Answering) /\ box.ev \in Messages(Happening)
  BY <1>1 DEF BoxStates
<1>4. box.resp \in Seq(Answers) /\ box.ev \in Seq(Events)
  BY <1>3, MessageIs
<1>5. Range(box.req) \in SUBSET Asks
  BY <1>3, RangeIs
<1>6. Range(box.resp) \in SUBSET Answers /\ Range(box.ev) \in SUBSET Events
  BY <1>4, RangeIs
<1>7. Said(box) \in SUBSET AnyMessage
  BY <1>6 DEF Said, AnyMessage
<1>8. IdsOf(Said(box)) \in SUBSET Asks
  BY <1>7, MessageIs DEF IdsOf
<1>9. Busy(svc) \in SUBSET Asks
  BY <1>1, SvcTypes
<1>10. Tracked(ui) \in SUBSET Asks /\ ui.gaveUp \in SUBSET Asks
  BY <1>1, <1>2, UiTypes, StatusIs DEF UiOK
<1>11. AtWork = Range(box.req) \cup Busy(svc)
  BY DEF AtWork, Busy
<1> QED BY <1>1, <1>2, <1>3, <1>4, <1>5, <1>7, <1>8, <1>9, <1>10, <1>11 DEF Known

(* What follows from the inductive invariant.                               *)
LEMMA InvMeans ==
  ASSUME FrontInv
  PROVE  CommandsTracked
<1>1. LanesExclusive /\ Awaited /\ FrontTypeOK
  BY DEF FrontInv
<1>2. \A q : IdsIn(q) = IdsOf(Range(q))
  BY DEF IdsIn, IdsOf, Range
<1>3. /\ HasOf(svc) = Busy(svc) \cup IdsOf(Said(svc))
      /\ IdsIn(box.resp) \cup IdsIn(box.ev) = IdsOf(Said(box))
  BY <1>2 DEF HasOf, Busy, IdsOf, Said
<1>4. \A M : EndsIn(M) \subseteq IdsOf(M)
  BY DEF EndsIn, IdsOf
<1>5. Coming = Range(box.req) \cup Busy(svc) \cup IdsOf(Said(svc)) \cup IdsOf(Said(box))
  BY <1>3 DEF Coming
<1>6. AtWork \cup ToldOf \subseteq Coming \cup svc.lost
  BY <1>1, <1>4, <1>5, FrontTypes DEF ToldOf
<1>7. NoOrphans
  BY <1>1, <1>6 DEF Awaited, NoOrphans
<1> QED BY <1>1, <1>7 DEF CommandsTracked

LEMMA FrontInitInv == FrontInit => FrontInv
<1> SUFFICES ASSUME FrontInit PROVE FrontInv
  OBVIOUS
<1>1. /\ asked = [i \in Asks |-> NoCall] /\ radioOps = 0
      /\ box = [req |-> <<>>, resp |-> <<>>, ev |-> <<>>]
      /\ svc = [queue |-> <<>>, owed |-> {}, pulls |-> {}, resp |-> <<>>, ev |-> <<>>,
                epoch |-> 0, active |-> FALSE,
                verdict |-> [i \in Asks |-> "None"], lost |-> {}]
      /\ ui = [track |-> <<>>, claims |-> {}, epochs |-> [i \in Asks |-> NoEpoch],
               epoch |-> 0, active |-> FALSE, gaveUp |-> {}, stale |-> {}]
  BY DEF FrontInit
<1>2. /\ MaxRadio \in Nat /\ TrackSize \in Nat /\ NoEpoch = MaxRadio + 1
  BY FrontSizes DEF NoEpoch
<1>3. 0 \in 0 .. MaxRadio /\ NoEpoch \in 0 .. NoEpoch
  BY <1>2
<1>4. Range(<< >>) = {} /\ IsInjective(<< >>)
  BY DEF Range, IsInjective
<1>5. /\ Said(svc) = {} /\ Said(box) = {} /\ Busy(svc) = {} /\ Range(box.req) = {}
      /\ Tracked(ui) = {} /\ AtWork = {}
  BY <1>1, <1>4 DEF Said, Busy, Tracked, AtWork
<1>6. svc \in SvcStates
  BY <1>1, <1>3 DEF SvcStates, Messages
<1>7. ui \in UiStates
  BY <1>1, <1>3 DEF UiStates
<1>8. FrontTypeOK
  BY <1>1, <1>2, <1>3, <1>6, <1>7 DEF FrontTypeOK, BoxStates, Messages
<1>9. InService
  <2>1. /\ svc.queue = <<>> /\ svc.owed = {} /\ svc.pulls = {} /\ box.req = <<>>
        /\ svc.epoch = 0 /\ radioOps = 0
    BY <1>1
  <2>2. Separate(svc, Range(box.req)) /\ IsInjective(box.req)
    BY <1>4, <2>1 DEF Separate
  <2>3. SvcInv(svc, Range(box.req)) /\ Agree(Said(box), svc.verdict)
    BY <1>5, <1>6, <2>2 DEF SvcInv, Agree
  <2> QED BY <2>1, <2>2, <2>3 DEF InService
<1>10. Followed
  BY <1>1, <1>5 DEF Followed, Known, IdsOf
<1>11. LanesExclusive
  BY <1>1, <1>5 DEF LanesExclusive
<1>12. Awaited
  BY <1>1, <1>5 DEF Awaited, Unsettled, Open
<1> QED BY <1>8, <1>9, <1>10, <1>11, <1>12 DEF FrontInv

(* A step of the service, the transport or both, which leaves the statuses. *)
LEMMA WorkKeeps ==
  ASSUME FrontInv, FrontTypeOK', InService', asked' = asked,
         ui'.track = ui.track, ui'.claims = ui.claims, ui'.gaveUp = ui.gaveUp, ui'.stale = ui.stale,
         AtWork' \subseteq AtWork,
         IdsOf(Said(svc')) \cup IdsOf(Said(box')) \subseteq AtWork \cup IdsOf(Said(svc)) \cup IdsOf(Said(box)),
         \A i \in Asks : svc'.verdict[i] = svc.verdict[i] \/ i \in AtWork,
         AtWork \cup ToldOf \subseteq AtWork' \cup ToldOf'
  PROVE  FrontInv' /\ EndsKept
<1>1. /\ FrontTypeOK /\ InService /\ Followed /\ LanesExclusive /\ Awaited
      /\ SvcInv(svc, Range(box.req)) /\ AtWork = Range(box.req) \cup Busy(svc) /\ Tracked(ui) \subseteq Asks
  BY FrontTypes DEF FrontInv, InService
<1>2. /\ Tracked(ui') = Tracked(ui) /\ \A i : Status(ui', i) = Status(ui, i)
      /\ Known(ui') = Known(ui) /\ Open(ui') = Open(ui)
  <2>1. Tracked(ui') = Tracked(ui)
    BY DEF Tracked
  <2>2. \A i : At(ui', i) = At(ui, i)
    BY DEF At
  <2>3. \A i : Status(ui', i) = Status(ui, i)
    BY <2>1, <2>2 DEF Status
  <2> QED BY <2>1, <2>3 DEF Known, Open
<1>3. \A i \in AtWork : svc.verdict[i] = "None"
  BY <1>1 DEF SvcInv
<1>4. \A i \in Asks : svc.verdict[i] # "None" => svc'.verdict[i] = svc.verdict[i]
  BY <1>3
<1>5. Followed'
  <2>1. /\ AtWork \cup IdsOf(Said(svc)) \cup IdsOf(Said(box)) \subseteq Known(ui)
        /\ \A i \in Asks : svc.verdict[i] # "None" => i \in Known(ui)
        /\ \A i \in Known(ui) : asked[i] # NoCall
        /\ ui.claims \subseteq Tracked(ui)
        /\ \A i \in Tracked(ui) : Ended(Status(ui, i).is) => svc.verdict[i] # "None" \/ i \in ui.gaveUp
    BY <1>1 DEF Followed
  <2>2. AtWork' \cup IdsOf(Said(svc')) \cup IdsOf(Said(box')) \subseteq Known(ui')
    BY <1>2, <2>1
  <2>3. \A i \in Asks : svc'.verdict[i] # "None" => i \in Known(ui')
    BY <1>2, <2>1
  <2>4. \A i \in Known(ui') : asked'[i] # NoCall
    BY <1>2, <2>1
  <2>5. \A i \in Tracked(ui') : Ended(Status(ui', i).is) => svc'.verdict[i] # "None" \/ i \in ui'.gaveUp
    BY <1>1, <1>2, <1>4, <2>1
  <2> QED BY <1>2, <2>1, <2>2, <2>3, <2>4, <2>5 DEF Followed
<1>6. LanesExclusive'
  BY <1>1 DEF LanesExclusive, LaneOf
<1>7. Awaited'
  BY <1>1, <1>2 DEF Awaited, Unsettled
<1>8. EndsKept
  BY <1>2 DEF EndsKept
<1> QED BY <1>1, <1>5, <1>6, <1>7, <1>8 DEF FrontInv

(* A step of the service that leaves the transport: from s, which differs   *)
(* from its state at most in the radio transition.                          *)
LEMMA ServedKeeps ==
  ASSUME FrontInv, NEW s, Serves(s, svc', Range(box.req), Range(box.req)),
         s.queue = svc.queue, s.owed = svc.owed, s.pulls = svc.pulls, s.resp = svc.resp,
         s.ev = svc.ev, s.verdict = svc.verdict, s.lost = svc.lost,
         asked' = asked, box' = box, ui' \in UiStates,
         ui'.track = ui.track, ui'.claims = ui.claims, ui'.gaveUp = ui.gaveUp, ui'.stale = ui.stale,
         ui'.epoch = svc'.epoch, ui'.active = svc'.active,
         radioOps' \in 0 .. MaxRadio, svc'.epoch <= radioOps'
  PROVE  FrontInv' /\ EndsKept
<1> DEFINE R == Range(box.req)
<1>1. FrontTypeOK /\ InService
  BY DEF FrontInv
<1>2. /\ SvcInv(svc, R) /\ IsInjective(box.req) /\ Agree(Said(box), svc.verdict)
      /\ \A i \in Busy(svc) \cup R : svc.verdict[i] = "None"
  BY <1>1 DEF InService, SvcInv
<1>3. /\ asked \in [Asks -> Calls \cup {NoCall}] /\ box \in BoxStates /\ UiOK(ui)
      /\ AtWork = R \cup Busy(svc) /\ Said(box) \in SUBSET AnyMessage
  BY <1>1, FrontTypes
<1>4. Busy(s) = Busy(svc) /\ Said(s) = Said(svc)
  BY DEF Busy, Said
<1>5. /\ SvcInv(svc', R) /\ svc' \in SvcStates /\ s.lost \subseteq svc'.lost
      /\ Busy(svc') \cup R \subseteq Busy(s) \cup R
      /\ Busy(s) \cup R \cup EndsIn(Said(s)) \subseteq Busy(svc') \cup R \cup EndsIn(Said(svc')) \cup svc'.lost
      /\ IdsOf(Said(svc')) \subseteq IdsOf(Said(s)) \cup Busy(s) \cup R
      /\ \A i \in Asks : svc'.verdict[i] = s.verdict[i] \/ i \in Busy(s) \cup R
  BY DEF Serves, SvcInv
<1>6. AtWork' = R \cup Busy(svc')
  BY DEF AtWork, Busy
<1>7. FrontTypeOK'
  <2>1. Len(ui'.track) <= TrackSize /\ OneEach(ui'.track)
    BY <1>3 DEF UiOK
  <2> QED BY <2>1, <1>3, <1>5 DEF FrontTypeOK, OneEach
<1>8. Agree(Said(box), svc'.verdict)
  <2>1. ASSUME NEW m \in Said(box), m.what \in EndWords
        PROVE  svc'.verdict[m.id] = IF m.what = "Done" THEN "Ok" ELSE m.what
    <3>1. svc.verdict[m.id] = IF m.what = "Done" THEN "Ok" ELSE m.what
      BY <1>2, <2>1 DEF Agree
    <3>2. svc.verdict[m.id] # "None"
      BY <3>1, <2>1 DEF EndWords
    <3>3. m.id \in Asks
      BY <1>3, MessageIs
    <3> QED BY <3>1, <3>2, <3>3, <1>2, <1>4, <1>5
  <2> QED BY <2>1 DEF Agree
<1>9. InService'
  BY <1>2, <1>5, <1>8 DEF InService
<1>10. AtWork' \subseteq AtWork
  BY <1>3, <1>4, <1>5, <1>6
<1>11. IdsOf(Said(svc')) \cup IdsOf(Said(box')) \subseteq AtWork \cup IdsOf(Said(svc)) \cup IdsOf(Said(box))
  BY <1>3, <1>4, <1>5
<1>12. \A i \in Asks : svc'.verdict[i] = svc.verdict[i] \/ i \in AtWork
  BY <1>3, <1>4, <1>5
<1>13. AtWork \cup ToldOf \subseteq AtWork' \cup ToldOf'
  <2>1. ToldOf' = EndsIn(Said(svc')) \cup EndsIn(Said(box)) \cup svc'.lost
    BY DEF ToldOf
  <2> QED BY <2>1, <1>3, <1>4, <1>5, <1>6 DEF ToldOf
<1> QED BY <1>7, <1>9, <1>10, <1>11, <1>12, <1>13, WorkKeeps

LEMMA ServiceStepKeeps ==
  ASSUME FrontInv, ExchangeOver \/ PullAnswered
  PROVE  FrontInv' /\ EndsKept
<1> DEFINE R == Range(box.req)
<1>1. /\ FrontTypeOK /\ SvcInv(svc, R) /\ svc.epoch <= radioOps
  BY DEF FrontInv, InService
<1>2. /\ R \in SUBSET Asks /\ ui \in UiStates /\ radioOps \in 0 .. MaxRadio
      /\ ui.epoch = svc.epoch /\ ui.active = svc.active
  BY <1>1, FrontTypes
<1>3. asked' = asked /\ box' = box /\ ui' = ui /\ radioOps' = radioOps
  BY DEF ExchangeOver, PullAnswered
<1> HIDE DEF R
<1>4. Serves(svc, svc', R, R)
  <2>1. CASE ExchangeOver
    <3>1. PICK i \in svc.owed, w \in {"Ok", "Fail", "Timeout"} :
            svc' = Emits([Judged(svc, i, w) EXCEPT !.owed = @ \ {i}], i, EventOf(w))
      BY <2>1 DEF ExchangeOver
    <3>2. w \in Outcomes
      BY <3>1 DEF Outcomes
    <3> QED BY <3>1, <3>2, <1>1, <1>2, ExchangeServes
  <2>2. CASE PullAnswered
    <3>1. PICK i \in svc.pulls, w \in {"Ok", "Fail"} :
            svc' = Responds([Judged(svc, i, w) EXCEPT !.pulls = @ \ {i}], i, w)
      BY <2>2 DEF PullAnswered
    <3>2. w \in Outcomes
      BY <3>1 DEF Outcomes
    <3> QED BY <3>1, <3>2, <1>1, <1>2, PullServes
  <2> QED BY <2>1, <2>2
<1>5. svc'.epoch = svc.epoch /\ svc'.active = svc.active
  BY <1>4 DEF Serves
<1> QED BY <1>1, <1>2, <1>3, <1>4, <1>5, ServedKeeps DEF R

LEMMA AdoptedIs ==
  ASSUME NEW u \in UiStates, NEW s \in SvcStates
  PROVE  /\ Adopted(u, s) \in UiStates /\ Adopted(u, s).track = u.track
         /\ Adopted(u, s).claims = u.claims /\ Adopted(u, s).gaveUp = u.gaveUp
         /\ Adopted(u, s).stale = u.stale /\ Adopted(u, s).epochs = u.epochs
         /\ Adopted(u, s).epoch = s.epoch /\ Adopted(u, s).active = s.active
<1>1. s.epoch \in 0 .. MaxRadio /\ s.active \in BOOLEAN
  BY DEF SvcStates
<1> QED BY <1>1 DEF Adopted, UiStates

LEMMA TransitionKeeps ==
  ASSUME FrontInv, BeginRadioTransition \/ EndRadioTransition
  PROVE  FrontInv' /\ EndsKept
<1> DEFINE R == Range(box.req)
<1>1. /\ FrontTypeOK /\ SvcInv(svc, R) /\ svc.epoch <= radioOps
      /\ R \in SUBSET Asks /\ ui \in UiStates /\ svc \in SvcStates /\ radioOps \in 0 .. MaxRadio
      /\ svc.epoch \in 0 .. MaxRadio
  <2>1. FrontTypeOK /\ SvcInv(svc, R) /\ svc.epoch <= radioOps
    BY DEF FrontInv, InService
  <2>2. R \in SUBSET Asks /\ ui \in UiStates /\ svc \in SvcStates /\ radioOps \in 0 .. MaxRadio
    BY <2>1, FrontTypes
  <2> QED BY <2>1, <2>2 DEF SvcStates
<1> HIDE DEF R
<1>2. asked' = asked /\ box' = box /\ ui' = Adopted(ui, svc')
  BY DEF BeginRadioTransition, EndRadioTransition
<1>3. ASSUME NEW s \in SvcStates, s.queue = svc.queue, s.owed = svc.owed, s.pulls = svc.pulls,
             s.resp = svc.resp, s.ev = svc.ev, s.verdict = svc.verdict
      PROVE  SvcInv(s, R)
  BY <1>1, <1>3 DEF SvcInv, Separate, Busy, Said
<1>4. CASE BeginRadioTransition
  <2> DEFINE s == [svc EXCEPT !.epoch = @ + 1, !.active = TRUE]
             t == CancelsDeferred(s)
  <2>1. /\ radioOps < MaxRadio /\ radioOps' = radioOps + 1 /\ svc' = CancelsQueued(t)
    BY <1>4 DEF BeginRadioTransition, RadioStep
  <2>2. svc.epoch + 1 \in 0 .. MaxRadio /\ radioOps' \in 0 .. MaxRadio /\ svc.epoch + 1 <= radioOps'
    BY <1>1, <2>1, FrontSizes
  <2>3. /\ s \in SvcStates /\ s.queue = svc.queue /\ s.owed = svc.owed /\ s.pulls = svc.pulls
        /\ s.resp = svc.resp /\ s.ev = svc.ev /\ s.verdict = svc.verdict /\ s.lost = svc.lost
        /\ s.epoch = svc.epoch + 1 /\ s.active = TRUE
    BY <1>1, <2>2 DEF SvcStates
  <2> HIDE DEF s
  <2>4. SvcInv(s, R)
    BY <1>3, <2>3
  <2>5. Serves(s, t, R, R)
    BY <1>1, <2>4, DeferredCancelled
  <2> HIDE DEF t
  <2>6. SvcInv(t, R)
    BY <2>5 DEF Serves
  <2>7. Serves(t, svc', R, R)
    BY <1>1, <2>1, <2>6, QueuedCancelled
  <2>8. Serves(s, svc', R, R)
    BY <2>5, <2>7, ServesTwice
  <2>9. svc' \in SvcStates /\ svc'.epoch = svc.epoch + 1
    BY <2>3, <2>8 DEF Serves, SvcInv
  <2>10. /\ ui' \in UiStates /\ ui'.track = ui.track /\ ui'.claims = ui.claims
         /\ ui'.gaveUp = ui.gaveUp /\ ui'.stale = ui.stale
         /\ ui'.epoch = svc'.epoch /\ ui'.active = svc'.active
    BY <1>1, <1>2, <2>9, AdoptedIs
  <2> QED BY <1>2, <2>2, <2>3, <2>8, <2>9, <2>10, ServedKeeps DEF R
<1>5. CASE EndRadioTransition
  <2>1. svc' = [svc EXCEPT !.active = FALSE] /\ radioOps' = radioOps
    BY <1>5 DEF EndRadioTransition
  <2>2. /\ svc' \in SvcStates /\ svc'.queue = svc.queue /\ svc'.owed = svc.owed /\ svc'.pulls = svc.pulls
        /\ svc'.resp = svc.resp /\ svc'.ev = svc.ev /\ svc'.verdict = svc.verdict
        /\ svc'.lost = svc.lost /\ svc'.epoch = svc.epoch
    BY <1>1, <2>1 DEF SvcStates
  <2>3. Serves(svc', svc', R, R)
    BY <1>3, <2>2, ServesSelf
  <2>4. /\ ui' \in UiStates /\ ui'.track = ui.track /\ ui'.claims = ui.claims
        /\ ui'.gaveUp = ui.gaveUp /\ ui'.stale = ui.stale
        /\ ui'.epoch = svc'.epoch /\ ui'.active = svc'.active
    BY <1>1, <1>2, <2>2, AdoptedIs
  <2> QED BY <1>1, <1>2, <2>1, <2>2, <2>3, <2>4, ServedKeeps DEF R
<1> QED BY <1>4, <1>5

(* The transport takes the messages of the service: what does not fit is    *)
(* known by its ids.                                                        *)
LEMMA MovedIs ==
  ASSUME NEW S, S \in SUBSET AnyMessage, NEW p \in Seq(S), NEW q \in Seq(S)
  PROVE  /\ Kept(p \o q) \in Seq(S) /\ Cut(p \o q) \in SUBSET Asks
         /\ Range(Kept(p \o q)) \subseteq Range(p) \cup Range(q)
         /\ \A m \in Range(p) \cup Range(q) : m \in Range(Kept(p \o q)) \/ m.id \in Cut(p \o q)
<1> DEFINE r == p \o q
<1>1. r \in Seq(S) /\ Range(r) = Range(p) \cup Range(q)
  BY RangeOfConcat
<1> HIDE DEF r
<1>2. /\ Kept(r) \in Seq(S) /\ Range(Kept(r)) \subseteq Range(r)
      /\ \A m \in Range(r) : m \in Range(Kept(r)) \/ m.id \in Cut(r)
      /\ Cut(r) \subseteq IdsOf(Range(r))
  BY <1>1, KeptIs
<1>3. Range(r) \in SUBSET S
  BY <1>1, RangeIs
<1>4. \A m \in Range(r) : m.id \in Asks
  BY <1>3, MessageIs
<1>5. Cut(r) \in SUBSET Asks
  BY <1>2, <1>4 DEF IdsOf
<1> QED BY <1>1, <1>2, <1>5 DEF r

LEMMA RuntimeTickKeeps ==
  ASSUME FrontInv, RuntimeTick
  PROVE  FrontInv' /\ EndsKept
<1> DEFINE n == Min({PollMax, Len(box.req)})
           taken == SubSeq(box.req, 1, n)
           left  == SubSeq(box.req, n + 1, Len(box.req))
           admitted == Admitted(svc, taken)
           R == Range(box.req)
           Q == Range(left)
<1>0. PICK late \in SUBSET svc.pulls : \E s \in Ticked(Pruned(admitted, late)) :
        /\ box' = [req  |-> left, resp |-> Kept(box.resp \o s.resp), ev |-> Kept(box.ev \o s.ev)]
        /\ svc' = [s EXCEPT !.resp = <<>>, !.ev = <<>>,
                            !.lost = @ \cup Cut(box.resp \o s.resp) \cup Cut(box.ev \o s.ev)]
        /\ UNCHANGED <<asked, ui, radioOps>>
  BY DEF RuntimeTick
<1>1. PICK s \in Ticked(Pruned(admitted, late)) :
        /\ box' = [req  |-> left, resp |-> Kept(box.resp \o s.resp), ev |-> Kept(box.ev \o s.ev)]
        /\ svc' = [s EXCEPT !.resp = <<>>, !.ev = <<>>,
                            !.lost = @ \cup Cut(box.resp \o s.resp) \cup Cut(box.ev \o s.ev)]
        /\ UNCHANGED <<asked, ui, radioOps>>
  BY <1>0
<1>2. /\ FrontTypeOK /\ SvcInv(svc, R) /\ IsInjective(box.req) /\ svc.epoch <= radioOps
      /\ Agree(Said(box), svc.verdict) /\ \A i \in Busy(svc) \cup R : svc.verdict[i] = "None"
  BY DEF FrontInv, InService, SvcInv
<1>3. /\ asked \in [Asks -> Calls \cup {NoCall}] /\ ui \in UiStates /\ UiOK(ui) /\ svc \in SvcStates
      /\ box.req \in Seq(Asks) /\ R \in SUBSET Asks /\ box.resp \in Seq(Answers) /\ box.ev \in Seq(Events)
      /\ Said(box) \in SUBSET AnyMessage /\ AtWork = R \cup Busy(svc)
      /\ radioOps \in 0 .. MaxRadio /\ ui.epoch = svc.epoch /\ ui.active = svc.active
  BY <1>2, FrontTypes
<1>4. n \in 0 .. Len(box.req)
  <2>1. PollMax \in Nat /\ Len(box.req) \in Nat
    BY <1>3, FrontSizes
  <2>2. n = IF PollMax < Len(box.req) THEN PollMax ELSE Len(box.req)
    BY <2>1, LeastOfTwo
  <2> HIDE DEF n
  <2> QED BY <2>1, <2>2
<1> HIDE DEF n
<1>5. /\ taken \in Seq(Asks) /\ left \in Seq(Asks) /\ IsInjective(taken) /\ IsInjective(left)
      /\ R = Range(taken) \cup Q /\ Range(taken) \cap Q = {}
  <2>1. taken \in Seq(Asks) /\ left \in Seq(Asks)
    BY <1>3, <1>4, RangeOfParts
  <2>2. R = Range(taken) \cup Q
    BY <1>3, <1>4, RangeOfParts
  <2>3. IsInjective(taken) /\ IsInjective(left) /\ Range(taken) \cap Q = {}
    BY <1>2, <1>3, <1>4, RangeOfParts
  <2> QED BY <2>1, <2>2, <2>3
<1> HIDE DEF taken, left
<1>6. Q = R \ Range(taken) /\ Range(taken) \subseteq R /\ Q \in SUBSET Asks
  BY <1>3, <1>5
<1> HIDE DEF R, Q
<1>7. Serves(svc, admitted, R, Q)
  <2>1. Serves(svc, svc, R, R)
    BY <1>2, ServesSelf
  <2>2. Serves(svc, Admitted(svc, taken), R, R \ Range(taken))
    BY <2>1, <1>2, <1>3, <1>5, <1>6, AdmittedServes
  <2> QED BY <2>2, <1>6
<1> HIDE DEF admitted
<1>8. Serves(svc, s, R, Q)
  <2>1. SvcInv(admitted, Q) /\ late \in SUBSET Asks
    BY <1>0, <1>3, <1>7, SvcTypes DEF Serves
  <2>2. Serves(admitted, Pruned(admitted, late), Q, Q)
    BY <1>6, <2>1, PrunedServes
  <2>3. SvcInv(Pruned(admitted, late), Q)
    BY <2>2 DEF Serves
  <2>4. Serves(Pruned(admitted, late), s, Q, Q)
    BY <1>1, <1>6, <2>3, TickedServes
  <2> QED BY <1>7, <2>2, <2>4, ServesTwice
<1>9. /\ SvcInv(s, Q) /\ s.epoch = svc.epoch /\ s.active = svc.active /\ svc.lost \subseteq s.lost
      /\ Busy(s) \cup Q \subseteq Busy(svc) \cup R
      /\ Busy(svc) \cup R \cup EndsIn(Said(svc)) \subseteq Busy(s) \cup Q \cup EndsIn(Said(s)) \cup s.lost
      /\ IdsOf(Said(s)) \subseteq IdsOf(Said(svc)) \cup Busy(svc) \cup R
      /\ \A i \in Asks : s.verdict[i] = svc.verdict[i] \/ i \in Busy(svc) \cup R
  BY <1>8 DEF Serves
<1>10. /\ s \in SvcStates /\ s.resp \in Seq(Answers) /\ s.ev \in Seq(Events) /\ s.lost \in SUBSET Asks
       /\ Separate(s, Q) /\ Agree(Said(s), s.verdict) /\ \A i \in Busy(s) \cup Q : s.verdict[i] = "None"
  BY <1>9, SvcTypes DEF SvcInv
<1> DEFINE kr == Kept(box.resp \o s.resp)
           ke == Kept(box.ev \o s.ev)
           cr == Cut(box.resp \o s.resp)
           ce == Cut(box.ev \o s.ev)
<1>11. /\ kr \in Seq(Answers) /\ cr \in SUBSET Asks /\ Range(kr) \subseteq Range(box.resp) \cup Range(s.resp)
       /\ \A m \in Range(box.resp) \cup Range(s.resp) : m \in Range(kr) \/ m.id \in cr
       /\ ke \in Seq(Events) /\ ce \in SUBSET Asks /\ Range(ke) \subseteq Range(box.ev) \cup Range(s.ev)
       /\ \A m \in Range(box.ev) \cup Range(s.ev) : m \in Range(ke) \/ m.id \in ce
  <2>1. Answers \in SUBSET AnyMessage /\ Events \in SUBSET AnyMessage
    BY DEF AnyMessage
  <2> QED BY <2>1, <1>3, <1>10, MovedIs
<1>12. /\ box' = [req |-> left, resp |-> kr, ev |-> ke]
       /\ svc' = [s EXCEPT !.resp = <<>>, !.ev = <<>>, !.lost = (s.lost \cup cr) \cup ce]
       /\ asked' = asked /\ ui' = ui /\ radioOps' = radioOps
  BY <1>1
<1> HIDE DEF kr, ke, cr, ce
<1>13. /\ box' \in BoxStates /\ box'.req = left /\ box'.resp = kr /\ box'.ev = ke
  <2>1. kr \in Messages(Answering) /\ ke \in Messages(Happening)
    BY <1>11 DEF Messages, Answers, Events
  <2> QED BY <2>1, <1>5, <1>12 DEF BoxStates
<1>14. /\ svc' \in SvcStates /\ svc'.queue = s.queue /\ svc'.owed = s.owed /\ svc'.pulls = s.pulls
       /\ svc'.resp = <<>> /\ svc'.ev = <<>> /\ svc'.lost = (s.lost \cup cr) \cup ce
       /\ svc'.verdict = s.verdict /\ svc'.epoch = s.epoch /\ svc'.active = s.active
  <2>1. (s.lost \cup cr) \cup ce \in SUBSET Asks /\ <<>> \in Messages(Answering) /\ <<>> \in Messages(Happening)
    BY <1>10, <1>11 DEF Messages
  <2> QED BY <2>1, <1>10, <1>12 DEF SvcStates
<1>15. /\ Said(svc') = {} /\ Busy(svc') = Busy(s) /\ Separate(svc', Q) /\ Range(box'.req) = Q
  <2>1. Range(<< >>) = {}
    BY DEF Range
  <2> QED BY <2>1, <1>10, <1>13, <1>14 DEF Said, Busy, Separate, Q
<1>16. Said(box') \subseteq Said(box) \cup Said(s)
  BY <1>11, <1>13 DEF Said
<1>17. \A m \in Said(box) \cup Said(s) : m \in Said(box') \/ m.id \in svc'.lost
  BY <1>11, <1>13, <1>14 DEF Said
<1>18. Agree(Said(box'), svc'.verdict)
  <2>1. ASSUME NEW m \in Said(box'), m.what \in EndWords
        PROVE  s.verdict[m.id] = IF m.what = "Done" THEN "Ok" ELSE m.what
    <3>1. CASE m \in Said(s)
      BY <3>1, <2>1, <1>10 DEF Agree
    <3>2. CASE m \in Said(box)
      <4>1. svc.verdict[m.id] = IF m.what = "Done" THEN "Ok" ELSE m.what
        BY <1>2, <2>1, <3>2 DEF Agree
      <4>2. svc.verdict[m.id] # "None"
        BY <4>1, <2>1 DEF EndWords
      <4>3. m.id \in Asks
        BY <3>2, <1>3, MessageIs
      <4> QED BY <4>1, <4>2, <4>3, <1>2, <1>9
    <3> QED BY <3>1, <3>2, <1>16
  <2> QED BY <2>1, <1>14 DEF Agree
<1>19. InService'
  <2>1. SvcInv(svc', Q)
    <3>1. /\ svc' \in SvcStates /\ Separate(svc', Q) /\ Said(svc') = {}
          /\ \A i \in Busy(svc') \cup Q : svc'.verdict[i] = "None"
      BY <1>10, <1>14, <1>15
    <3> QED BY <3>1 DEF SvcInv, Agree
  <2>2. IsInjective(box'.req) /\ svc'.epoch <= radioOps'
    BY <1>2, <1>5, <1>9, <1>12, <1>13, <1>14
  <2>3. SvcInv(svc', Range(box'.req))
    BY <2>1, <1>15
  <2> QED BY <2>2, <2>3, <1>18 DEF InService
<1>20. FrontTypeOK'
  <2>1. Len(ui.track) <= TrackSize /\ OneEach(ui.track)
    BY <1>3 DEF UiOK
  <2>2. svc'.epoch = svc.epoch /\ svc'.active = svc.active
    BY <1>9, <1>14
  <2> QED BY <2>1, <2>2, <1>3, <1>12, <1>13, <1>14 DEF FrontTypeOK, OneEach
<1>21. AtWork' = Q \cup Busy(s)
  BY <1>13, <1>14 DEF AtWork, Busy, Q
<1>22. AtWork' \subseteq AtWork
  BY <1>3, <1>9, <1>21
<1>23. IdsOf(Said(svc')) \cup IdsOf(Said(box')) \subseteq AtWork \cup IdsOf(Said(svc)) \cup IdsOf(Said(box))
  <2>1. IdsOf(Said(svc')) = {}
    BY <1>15 DEF IdsOf
  <2>2. IdsOf(Said(box')) \subseteq IdsOf(Said(box)) \cup IdsOf(Said(s))
    BY <1>16 DEF IdsOf
  <2> QED BY <2>1, <2>2, <1>3, <1>9
<1>24. \A i \in Asks : svc'.verdict[i] = svc.verdict[i] \/ i \in AtWork
  BY <1>3, <1>9, <1>14
<1>25. AtWork \cup ToldOf \subseteq AtWork' \cup ToldOf'
  <2>1. \A i \in EndsIn(Said(box)) \cup EndsIn(Said(s)) : i \in EndsIn(Said(box')) \/ i \in svc'.lost
    BY <1>17 DEF EndsIn
  <2>2. s.lost \subseteq svc'.lost
    BY <1>14
  <2>3. ToldOf' = EndsIn(Said(svc')) \cup EndsIn(Said(box')) \cup svc'.lost
    BY DEF ToldOf
  <2> QED BY <2>1, <2>2, <2>3, <1>3, <1>9, <1>21 DEF ToldOf
<1> QED BY <1>12, <1>19, <1>20, <1>22, <1>23, <1>24, <1>25, WorkKeeps

(* A step of the adapter that takes a message of request i, or none, from   *)
(* the transport and leaves the service.                                    *)
Takes(i) ==
  /\ asked' = asked /\ svc' = svc /\ radioOps' = radioOps
  /\ box' \in BoxStates /\ box'.req = box.req /\ Said(box') \subseteq Said(box)
  /\ EndsIn(Said(box)) \subseteq EndsIn(Said(box')) \cup {i}

(* The adapter may show e and hold what w has: an end is the verdict or     *)
(* follows on giving up, and so is a lane given back.                       *)
Shows(w, e) ==
  /\ w \in UiStates /\ w.track = ui.track /\ w.stale = ui.stale
  /\ w.epoch = ui.epoch /\ w.active = ui.active
  /\ w.claims \in {ui.claims, ui.claims \ {e.id}}
  /\ w.gaveUp \in {ui.gaveUp, ui.gaveUp \cup {e.id}}
  /\ e \in Statuses /\ e.id \in Known(ui)
  /\ Ended(e.is) \/ w.claims # ui.claims => svc.verdict[e.id] # "None" \/ e.id \in w.gaveUp
  /\ Ended(e.is) \/ e.id \in Open(ui) \/ e.id \notin Tracked(ui)
  /\ e.is # Status(ui, e.id).is /\ e.is = "Done" => svc.verdict[e.id] = "Ok"
  /\ e.is # Status(ui, e.id).is /\ e.is = "Fail" => svc.verdict[e.id] = "Fail"

LEMMA SameStatuses ==
  ASSUME NEW u, NEW v, v.track = u.track
  PROVE  Tracked(v) = Tracked(u) /\ \A i : Status(v, i) = Status(u, i)
<1>1. Tracked(v) = Tracked(u)
  BY DEF Tracked
<1>2. \A i : At(v, i) = At(u, i)
  BY DEF At
<1> QED BY <1>1, <1>2 DEF Status

(* What the step leaves alone.                                              *)
LEMMA TakesMeans ==
  ASSUME FrontInv, NEW i, Takes(i)
  PROVE  /\ AtWork' = AtWork /\ InService'
         /\ IdsOf(Said(svc')) \cup IdsOf(Said(box')) \subseteq IdsOf(Said(svc)) \cup IdsOf(Said(box))
         /\ ToldOf \subseteq ToldOf' \cup {i}
         /\ EndsIn(Said(box)) \subseteq EndsIn(Said(box')) => ToldOf \subseteq ToldOf'
<1>1. /\ svc' = svc /\ radioOps' = radioOps
      /\ box'.req = box.req /\ Said(box') \subseteq Said(box)
      /\ EndsIn(Said(box)) \subseteq EndsIn(Said(box')) \cup {i}
  BY DEF Takes
<1>2. /\ SvcInv(svc, Range(box.req)) /\ IsInjective(box.req)
      /\ Agree(Said(box), svc.verdict) /\ svc.epoch <= radioOps
  BY DEF FrontInv, InService
<1>3. AtWork' = AtWork
  BY <1>1 DEF AtWork
<1>4. Agree(Said(box'), svc'.verdict)
  BY <1>1, <1>2 DEF Agree
<1>5. InService'
  BY <1>1, <1>2, <1>4 DEF InService
<1>6. IdsOf(Said(box')) \subseteq IdsOf(Said(box))
  BY <1>1 DEF IdsOf
<1>7. ToldOf' = EndsIn(Said(svc)) \cup EndsIn(Said(box')) \cup svc.lost
  BY <1>1 DEF ToldOf
<1> QED BY <1>1, <1>3, <1>5, <1>6, <1>7 DEF ToldOf

LEMMA NotesKeep ==
  ASSUME FrontInv, NEW w, NEW e, NEW D, Takes(e.id), Shows(w, e), Noted(w, ui', e, D),
         EndsIn(Said(box)) \subseteq EndsIn(Said(box')) \/ (Ended(e.is) /\ e.id \notin w.claims)
  PROVE  FrontInv' /\ EndsKept
<1>1. /\ FrontTypeOK /\ Followed /\ LanesExclusive /\ Awaited
      /\ SvcInv(svc, Range(box.req))
  BY DEF FrontInv, InService
<1>2. /\ asked \in [Asks -> Calls \cup {NoCall}] /\ svc \in SvcStates /\ UiOK(ui) /\ ui \in UiStates
      /\ AtWork = Range(box.req) \cup Busy(svc) /\ AtWork \in SUBSET Asks
      /\ radioOps \in 0 .. MaxRadio /\ ui.epoch = svc.epoch /\ ui.active = svc.active
      /\ Tracked(ui) \in SUBSET Asks /\ Known(ui) \in SUBSET Asks
  BY <1>1, FrontTypes
<1>3. /\ w \in UiStates /\ w.track = ui.track /\ w.stale = ui.stale
      /\ w.epoch = ui.epoch /\ w.active = ui.active
      /\ w.claims \in {ui.claims, ui.claims \ {e.id}}
      /\ w.gaveUp \in {ui.gaveUp, ui.gaveUp \cup {e.id}}
      /\ e \in Statuses /\ e.id \in Known(ui)
  BY DEF Shows
<1>4. /\ Ended(e.is) => svc.verdict[e.id] # "None" \/ e.id \in w.gaveUp
      /\ w.claims # ui.claims => svc.verdict[e.id] # "None" \/ e.id \in w.gaveUp
      /\ Ended(e.is) \/ e.id \in Open(ui) \/ e.id \notin Tracked(ui)
  BY DEF Shows
<1>5. /\ e.is # Status(ui, e.id).is /\ e.is = "Done" => svc.verdict[e.id] = "Ok"
      /\ e.is # Status(ui, e.id).is /\ e.is = "Fail" => svc.verdict[e.id] = "Fail"
  BY DEF Shows
<1>6. /\ asked' = asked /\ svc' = svc /\ radioOps' = radioOps /\ box' \in BoxStates
  BY DEF Takes
<1>7. /\ AtWork' = AtWork /\ InService'
      /\ IdsOf(Said(svc')) \cup IdsOf(Said(box')) \subseteq IdsOf(Said(svc)) \cup IdsOf(Said(box))
      /\ ToldOf \subseteq ToldOf' \cup {e.id}
      /\ EndsIn(Said(box)) \subseteq EndsIn(Said(box')) => ToldOf \subseteq ToldOf'
  BY TakesMeans
<1>8. /\ UiOK(ui') /\ D \subseteq Tracked(w) \cup {e.id}
      /\ ui'.gaveUp = w.gaveUp \cup D /\ ui'.claims = w.claims \ D
      /\ ui'.epoch = w.epoch /\ ui'.active = w.active /\ ui'.stale = w.stale
  BY DEF Noted
<1>9. UiOK(w)
  BY <1>2, <1>3 DEF UiOK
<1>10. /\ Tracked(ui') = (Tracked(ui) \cup {e.id}) \ D /\ D \subseteq Tracked(ui) \cup {e.id}
       /\ \A i \in Tracked(ui') : Status(ui', i) = IF i = e.id THEN e ELSE Status(ui, i)
       /\ \A i : i \notin Tracked(ui') => Status(ui', i) = Fresh(i)
  <2>1. /\ Tracked(ui') = (Tracked(w) \cup {e.id}) \ D
        /\ \A i \in Tracked(ui') : Status(ui', i) = IF i = e.id THEN e ELSE Status(w, i)
    BY <1>3, <1>9, NotedMeans
  <2>2. Tracked(w) = Tracked(ui) /\ \A i : Status(w, i) = Status(ui, i)
    BY <1>3, SameStatuses
  <2>3. \A i : i \notin Tracked(ui') => Status(ui', i) = Fresh(i)
    BY DEF Status
  <2> QED BY <1>8, <2>1, <2>2, <2>3
<1>11. /\ ui.gaveUp \subseteq ui'.gaveUp /\ w.gaveUp \subseteq ui'.gaveUp /\ D \subseteq ui'.gaveUp
       /\ ui'.claims \subseteq ui.claims /\ ui'.claims \cap D = {}
  BY <1>3, <1>8
<1>12. Known(ui') = Known(ui)
  BY <1>3, <1>8, <1>10 DEF Known
<1>13. FrontTypeOK'
  <2>1. ui' \in UiStates /\ Len(ui'.track) <= TrackSize /\ OneEach(ui'.track)
    BY <1>8 DEF UiOK
  <2> QED BY <2>1, <1>2, <1>3, <1>6, <1>8 DEF FrontTypeOK, OneEach
<1>14. Followed'
  <2>1. /\ AtWork \cup IdsOf(Said(svc)) \cup IdsOf(Said(box)) \subseteq Known(ui)
        /\ \A i \in Asks : svc.verdict[i] # "None" => i \in Known(ui)
        /\ \A i \in Known(ui) : asked[i] # NoCall
        /\ ui.claims \subseteq Tracked(ui)
        /\ \A i \in Tracked(ui) : Ended(Status(ui, i).is) => svc.verdict[i] # "None" \/ i \in ui.gaveUp
    BY <1>1 DEF Followed
  <2>2. AtWork' \cup IdsOf(Said(svc')) \cup IdsOf(Said(box')) \subseteq Known(ui')
    BY <1>7, <1>12, <2>1
  <2>3. \A i \in Asks : svc'.verdict[i] # "None" => i \in Known(ui')
    BY <1>6, <1>12, <2>1
  <2>4. \A i \in Known(ui') : asked'[i] # NoCall
    BY <1>6, <1>12, <2>1
  <2>5. ui'.claims \subseteq Tracked(ui')
    BY <1>10, <1>11, <2>1
  <2>6. ASSUME NEW i \in Tracked(ui'), Ended(Status(ui', i).is)
        PROVE  svc.verdict[i] # "None" \/ i \in ui'.gaveUp
    BY <1>4, <1>10, <1>11, <2>1, <2>6
  <2> QED BY <1>6, <2>2, <2>3, <2>4, <2>5, <2>6 DEF Followed
<1>15. LanesExclusive'
  <2>1. /\ \A i, j \in ui.claims : LaneOf(i) = LaneOf(j) => i = j
        /\ \A i \in AtWork : HasLane(asked[i]) => i \in ui.claims \cup ui.gaveUp
    BY <1>1 DEF LanesExclusive
  <2>2. \A i \in AtWork : svc.verdict[i] = "None"
    BY <1>1, <1>2 DEF SvcInv
  <2>3. ASSUME NEW i \in AtWork, HasLane(asked[i]) PROVE i \in ui'.claims \cup ui'.gaveUp
    <3>1. i \in ui.claims \cup ui.gaveUp
      BY <2>1, <2>3
    <3>2. CASE i \in ui.claims /\ i \notin w.claims
      BY <3>2, <2>2, <1>3, <1>4, <1>11
    <3>3. CASE i \in w.claims \/ i \in ui.gaveUp
      BY <3>3, <1>8, <1>11
    <3> QED BY <3>1, <3>2, <3>3
  <2>4. \A i, j \in ui'.claims : (LaneOf(i) = LaneOf(j))' => i = j
    BY <1>6, <1>11, <2>1 DEF LaneOf
  <2> QED BY <1>6, <1>7, <2>3, <2>4 DEF LanesExclusive
<1>16. Awaited'
  <2>1. Unsettled \subseteq AtWork \cup ToldOf \cup ui.stale \cup ui.gaveUp
    BY <1>1 DEF Awaited
  <2>2. ASSUME NEW i \in Unsettled' PROVE i \in Unsettled \cup ui.gaveUp
    <3>1. CASE i \in ui'.claims
      BY <3>1, <1>11 DEF Unsettled
    <3>2. CASE i \in Open(ui') /\ i # e.id
      BY <3>2, <1>10 DEF Open, Unsettled
    <3>3. CASE i \in Open(ui') /\ i = e.id
      <4>1. ~Ended(e.is)
        BY <3>3, <1>10 DEF Open
      <4> QED BY <4>1, <3>3, <1>3, <1>4 DEF Known, Unsettled
    <3> QED BY <2>2, <3>1, <3>2, <3>3 DEF Unsettled
  <2>3. ASSUME NEW i \in Unsettled', i \in ToldOf PROVE i \in ToldOf'
    <3>1. CASE Ended(e.is) /\ e.id \notin w.claims
      <4>1. e.id \notin Unsettled'
        BY <3>1, <1>8, <1>10 DEF Unsettled, Open
      <4> QED BY <4>1, <1>7, <2>3
    <3>2. CASE EndsIn(Said(box)) \subseteq EndsIn(Said(box'))
      BY <3>2, <1>7, <2>3
    <3> QED BY <3>1, <3>2
  <2>4. ui'.stale = ui.stale
    BY <1>3, <1>8
  <2> QED BY <2>1, <2>2, <2>3, <2>4, <1>7, <1>11 DEF Awaited
<1>17. EndsKept
  <2>1. ASSUME NEW i \in Asks, i \in Tracked(ui), Ended(Status(ui, i).is), i \in Tracked(ui')
        PROVE  Ended(Status(ui', i).is)
    BY <2>1, <1>4, <1>10 DEF Open
  <2>2. ASSUME NEW i \in Asks, Status(ui', i).is # Status(ui, i).is
        PROVE  /\ Status(ui', i).is = "Done" => svc'.verdict[i] = "Ok"
               /\ Status(ui', i).is = "Fail" => svc'.verdict[i] = "Fail"
    <3>1. CASE i \notin Tracked(ui')
      BY <3>1, <1>10, StatusTypes
    <3>2. CASE i \in Tracked(ui')
      BY <3>2, <2>2, <1>5, <1>6, <1>10
    <3> QED BY <3>1, <3>2
  <2> QED BY <2>1, <2>2 DEF EndsKept
<1> QED BY <1>7, <1>13, <1>14, <1>15, <1>16, <1>17 DEF FrontInv

(* The adapter takes the first response or event of the transport.          *)
LEMMA TakenIs ==
  ASSUME FrontInv, asked' = asked, svc' = svc, radioOps' = radioOps, NEW m,
         \/ /\ box.resp # <<>> /\ m = Head(box.resp) /\ box' = [box EXCEPT !.resp = Tail(@)]
         \/ /\ box.ev # <<>> /\ m = Head(box.ev) /\ box' = [box EXCEPT !.ev = Tail(@)]
  PROVE  /\ Takes(m.id) /\ m \in Said(box) /\ m.id \in Asks /\ m.id \in Known(ui)
         /\ m.what \in EndWords => svc.verdict[m.id] = IF m.what = "Done" THEN "Ok" ELSE m.what
         /\ m.what \notin EndWords => EndsIn(Said(box)) \subseteq EndsIn(Said(box'))
         /\ box.resp # <<>> /\ m = Head(box.resp) => m \in Answers
         /\ box.ev # <<>> /\ m = Head(box.ev) => m \in Events
<1>1. /\ FrontTypeOK /\ Agree(Said(box), svc.verdict) /\ IdsOf(Said(box)) \subseteq Known(ui)
  BY DEF FrontInv, InService, Followed
<1>2. /\ box \in BoxStates /\ box.resp \in Seq(Answers) /\ box.ev \in Seq(Events)
      /\ Said(box) \in SUBSET AnyMessage
  BY <1>1, FrontTypes
<1>3. /\ box.resp # <<>> /\ m = Head(box.resp) => m \in Answers
      /\ box.ev # <<>> /\ m = Head(box.ev) => m \in Events
  BY <1>2, RangeOfTail
<1>4. /\ box' \in BoxStates /\ box'.req = box.req /\ m \in Said(box)
      /\ Said(box') \subseteq Said(box) /\ Said(box) = Said(box') \cup {m}
  <2>1. CASE box.resp # <<>> /\ m = Head(box.resp) /\ box' = [box EXCEPT !.resp = Tail(@)]
    <3>1. /\ Tail(box.resp) \in Seq(Answers) /\ Range(box.resp) = {m} \cup Range(Tail(box.resp))
      BY <1>2, <2>1, RangeOfTail
    <3>2. box' \in BoxStates /\ box'.req = box.req /\ box'.resp = Tail(box.resp) /\ box'.ev = box.ev
      BY <1>2, <2>1, <3>1 DEF BoxStates, Messages, Answers
    <3> QED BY <3>1, <3>2 DEF Said
  <2>2. CASE box.ev # <<>> /\ m = Head(box.ev) /\ box' = [box EXCEPT !.ev = Tail(@)]
    <3>1. /\ Tail(box.ev) \in Seq(Events) /\ Range(box.ev) = {m} \cup Range(Tail(box.ev))
      BY <1>2, <2>2, RangeOfTail
    <3>2. box' \in BoxStates /\ box'.req = box.req /\ box'.resp = box.resp /\ box'.ev = Tail(box.ev)
      BY <1>2, <2>2, <3>1 DEF BoxStates, Messages, Events
    <3> QED BY <3>1, <3>2 DEF Said
  <2> QED BY <2>1, <2>2
<1>5. /\ EndsIn(Said(box)) \subseteq EndsIn(Said(box')) \cup {m.id}
      /\ m.what \notin EndWords => EndsIn(Said(box)) \subseteq EndsIn(Said(box'))
  BY <1>4 DEF EndsIn
<1>6. m.id \in Asks /\ m.id \in Known(ui)
  BY <1>1, <1>2, <1>4, MessageIs DEF IdsOf
<1>7. m.what \in EndWords => svc.verdict[m.id] = IF m.what = "Done" THEN "Ok" ELSE m.what
  BY <1>1, <1>4 DEF Agree
<1> QED BY <1>3, <1>4, <1>5, <1>6, <1>7 DEF Takes

(* A message of a request of an earlier radio transition is dropped, and    *)
(* its id is kept.                                                          *)
LEMMA StaleKeeps ==
  ASSUME FrontInv, NEW i \in Asks, Takes(i), ui' = [ui EXCEPT !.stale = @ \cup {i}]
  PROVE  FrontInv' /\ EndsKept
<1>1. /\ FrontTypeOK /\ Followed /\ LanesExclusive /\ Awaited
  BY DEF FrontInv
<1>2. /\ asked \in [Asks -> Calls \cup {NoCall}] /\ svc \in SvcStates /\ UiOK(ui) /\ ui \in UiStates
      /\ radioOps \in 0 .. MaxRadio /\ ui.epoch = svc.epoch /\ ui.active = svc.active
  BY <1>1, FrontTypes
<1>3. /\ ui' \in UiStates /\ ui'.track = ui.track /\ ui'.claims = ui.claims
      /\ ui'.gaveUp = ui.gaveUp /\ ui'.stale = ui.stale \cup {i}
      /\ ui'.epoch = ui.epoch /\ ui'.active = ui.active
  BY <1>2 DEF UiStates
<1>4. /\ asked' = asked /\ svc' = svc /\ radioOps' = radioOps /\ box' \in BoxStates
  BY DEF Takes
<1>5. /\ AtWork' = AtWork /\ InService'
      /\ IdsOf(Said(svc')) \cup IdsOf(Said(box')) \subseteq IdsOf(Said(svc)) \cup IdsOf(Said(box))
      /\ ToldOf \subseteq ToldOf' \cup {i}
  BY TakesMeans
<1>6. Tracked(ui') = Tracked(ui) /\ \A j : Status(ui', j) = Status(ui, j)
  BY <1>3, SameStatuses
<1>7. Known(ui') = Known(ui) /\ Open(ui') = Open(ui)
  BY <1>3, <1>6 DEF Known, Open
<1>8. FrontTypeOK'
  <2>1. Len(ui'.track) <= TrackSize /\ OneEach(ui'.track)
    BY <1>2, <1>3 DEF UiOK
  <2> QED BY <2>1, <1>2, <1>3, <1>4 DEF FrontTypeOK, OneEach
<1>9. Followed'
  <2>1. AtWork' \cup IdsOf(Said(svc')) \cup IdsOf(Said(box')) \subseteq Known(ui')
    BY <1>1, <1>5, <1>7 DEF Followed
  <2> QED BY <2>1, <1>1, <1>3, <1>4, <1>6, <1>7 DEF Followed
<1>10. LanesExclusive'
  BY <1>1, <1>3, <1>4, <1>5 DEF LanesExclusive, LaneOf
<1>11. Awaited'
  BY <1>1, <1>3, <1>5, <1>7 DEF Awaited, Unsettled
<1>12. EndsKept
  BY <1>6 DEF EndsKept
<1> QED BY <1>5, <1>8, <1>9, <1>10, <1>11, <1>12 DEF FrontInv

(* Giving a lane back.                                                      *)
LEMMA FreedIs ==
  ASSUME NEW u \in UiStates, NEW i
  PROVE  /\ Freed(u, i) \in UiStates /\ Freed(u, i).track = u.track
         /\ Freed(u, i).claims = u.claims \ {i} /\ Freed(u, i).gaveUp = u.gaveUp
         /\ Freed(u, i).stale = u.stale /\ Freed(u, i).epoch = u.epoch
         /\ Freed(u, i).active = u.active /\ Freed(u, i).epochs = u.epochs
BY DEF Freed, UiStates

(* What the adapter knows of request i, and what it makes of a status.      *)
LEMMA StatusNow ==
  ASSUME FrontInv, NEW i \in Asks
  PROVE  /\ Status(ui, i) \in Statuses /\ Status(ui, i).id = i
         /\ Ended(Status(ui, i).is) => svc.verdict[i] # "None" \/ i \in ui.gaveUp
         /\ Ended(Status(ui, i).is) \/ i \in Open(ui) \/ i \notin Tracked(ui)
         /\ Ended(Status(ui, i).is) => i \in Tracked(ui)
<1>1. FrontTypeOK /\ Followed
  BY DEF FrontInv
<1>2. ui.track \in Seq(Statuses) /\ OneEach(ui.track)
  BY <1>1, FrontTypes, UiTypes DEF UiOK
<1>3. /\ Status(ui, i) \in Statuses /\ Status(ui, i).id = i
      /\ i \notin Tracked(ui) => Status(ui, i) = Fresh(i)
  BY <1>2, StatusIs
<1>4. Ended(Status(ui, i).is) => i \in Tracked(ui)
  BY <1>3, StatusTypes DEF Ended
<1>5. Ended(Status(ui, i).is) => svc.verdict[i] # "None" \/ i \in ui.gaveUp
  BY <1>1, <1>4 DEF Followed
<1>6. Ended(Status(ui, i).is) \/ i \in Open(ui) \/ i \notin Tracked(ui)
  BY DEF Open
<1> QED BY <1>3, <1>4, <1>5, <1>6

LEMMA SetAs ==
  ASSUME NEW s \in Statuses, NEW x \in Conditions, NEW t, t = [s EXCEPT !.is = x]
  PROVE  t \in Statuses /\ t.id = s.id /\ t.is = x
<1>1. t \in Statuses
  BY DEF Statuses
<1>2. t.id = s.id
  BY DEF Statuses
<1>3. t.is = x
  BY DEF Statuses
<1> QED BY <1>1, <1>2, <1>3

LEMMA HeardIs ==
  ASSUME NEW s \in Statuses
  PROVE  /\ s.is \in Conditions /\ [s EXCEPT !.event = TRUE] \in Statuses
         /\ [s EXCEPT !.event = TRUE].id = s.id /\ [s EXCEPT !.event = TRUE].is = s.is
BY DEF Statuses, Conditions

(* What Shows asks for, when the lane is kept or given back.                *)
LEMMA ShowsIf ==
  ASSUME FrontInv, NEW e \in Statuses, e.id \in Known(ui),
         \/ e.is = Status(ui, e.id).is
         \/ e.is = "Running" /\ ~Ended(Status(ui, e.id).is)
         \/ e.is \in {"Done", "Fail", "Timeout"} /\ svc.verdict[e.id] = IF e.is = "Done" THEN "Ok" ELSE e.is
  PROVE  /\ Shows(ui, e)
         /\ svc.verdict[e.id] # "None" => Shows(Freed(ui, e.id), e)
<1>1. e.id \in Asks /\ ui \in UiStates
  BY StatusTypes, FrontTypes DEF FrontInv
<1>2. /\ Ended(Status(ui, e.id).is) => svc.verdict[e.id] # "None" \/ e.id \in ui.gaveUp
      /\ Ended(Status(ui, e.id).is) \/ e.id \in Open(ui) \/ e.id \notin Tracked(ui)
  BY <1>1, StatusNow
<1>3. Ended(e.is) => svc.verdict[e.id] # "None" \/ e.id \in ui.gaveUp
  BY <1>2 DEF Ended
<1>4. Ended(e.is) \/ e.id \in Open(ui) \/ e.id \notin Tracked(ui)
  BY <1>2 DEF Ended
<1>5. /\ e.is # Status(ui, e.id).is /\ e.is = "Done" => svc.verdict[e.id] = "Ok"
      /\ e.is # Status(ui, e.id).is /\ e.is = "Fail" => svc.verdict[e.id] = "Fail"
  OBVIOUS
<1>6. Shows(ui, e)
  BY <1>1, <1>3, <1>4, <1>5 DEF Shows
<1>7. /\ Freed(ui, e.id) \in UiStates /\ Freed(ui, e.id).track = ui.track
      /\ Freed(ui, e.id).claims = ui.claims \ {e.id} /\ Freed(ui, e.id).gaveUp = ui.gaveUp
      /\ Freed(ui, e.id).stale = ui.stale /\ Freed(ui, e.id).epoch = ui.epoch
      /\ Freed(ui, e.id).active = ui.active
  BY <1>1, FreedIs
<1>8. svc.verdict[e.id] # "None" => Shows(Freed(ui, e.id), e)
  BY <1>1, <1>3, <1>4, <1>5, <1>7 DEF Shows
<1> QED BY <1>6, <1>8

(* A status shown becomes the latest.                                       *)
LEMMA UpsertKeeps ==
  ASSUME FrontInv, NEW w, NEW e, Takes(e.id), Shows(w, e), ui' = Upsert(w, e),
         EndsIn(Said(box)) \subseteq EndsIn(Said(box')) \/ (Ended(e.is) /\ e.id \notin w.claims)
  PROVE  FrontInv' /\ EndsKept
<1>1. UiOK(w) /\ e \in Statuses
  BY FrontTypes DEF FrontInv, Shows, UiOK
<1>2. PICK D : Noted(w, ui', e, D)
  BY <1>1, UpsertIs
<1> QED BY <1>2, NotesKeep

LEMMA PollResponseKeeps ==
  ASSUME FrontInv, PollResponse
  PROVE  FrontInv' /\ EndsKept
<1> DEFINE m == Head(box.resp)
           s == Status(ui, m.id)
           e == [s EXCEPT !.is = AfterResponse(s, m.what)]
           w == IF m.what = "Deferred" THEN ui ELSE Freed(ui, m.id)
<1>1. /\ box.resp # <<>> /\ box' = [box EXCEPT !.resp = Tail(@)]
      /\ asked' = asked /\ svc' = svc /\ radioOps' = radioOps
      /\ ui' = IF Stale(ui, m.id) THEN [ui EXCEPT !.stale = @ \cup {m.id}] ELSE Upsert(w, e)
  BY DEF PollResponse, Ingest, TrackResponse
<1>2. /\ Takes(m.id) /\ m.id \in Asks /\ m.id \in Known(ui) /\ m \in Answers
      /\ m.what \in EndWords => svc.verdict[m.id] = IF m.what = "Done" THEN "Ok" ELSE m.what
      /\ m.what \notin EndWords => EndsIn(Said(box)) \subseteq EndsIn(Said(box'))
  BY <1>1, TakenIs
<1> HIDE DEF m
<1>3. m.what \in {"Deferred", "Ok", "Fail", "Timeout"}
  BY <1>2 DEF Answers, Answering
<1>4. s \in Statuses /\ s.id = m.id /\ s.is \in Conditions
  BY <1>2, StatusNow, HeardIs
<1>5. s = Status(ui, m.id)
  OBVIOUS
<1> HIDE DEF s
<1>6. CASE Stale(ui, m.id)
  BY <1>1, <1>2, <1>6, StaleKeeps
<1>7. CASE ~Stale(ui, m.id)
  <2>1. ui' = Upsert(w, e)
    BY <1>1, <1>7
  <2>2. /\ AfterResponse(s, m.what) \in Conditions
        /\ m.what = "Deferred" => AfterResponse(s, m.what) = s.is \/
                                  (AfterResponse(s, m.what) = "Running" /\ ~Ended(s.is))
        /\ m.what # "Deferred" => /\ Ended(AfterResponse(s, m.what))
                                  /\ AfterResponse(s, m.what) = s.is
                                     \/ AfterResponse(s, m.what) = IF m.what = "Ok" THEN "Done" ELSE m.what
    BY <1>3, <1>4 DEF AfterResponse, Ended, Conditions
  <2>a. e = [s EXCEPT !.is = AfterResponse(s, m.what)]
    OBVIOUS
  <2> HIDE DEF e
  <2>3. e \in Statuses /\ e.id = m.id /\ e.is = AfterResponse(s, m.what)
    BY <1>4, <2>a, <2>2, SetAs
  <2>4. m.what # "Deferred" => m.what \in EndWords /\ m.what # "Done" /\ svc.verdict[m.id] = m.what
    BY <1>2, <1>3 DEF EndWords
  <2>5. \/ e.is = Status(ui, e.id).is
        \/ e.is = "Running" /\ ~Ended(Status(ui, e.id).is)
        \/ e.is \in {"Done", "Fail", "Timeout"} /\ svc.verdict[e.id] = IF e.is = "Done" THEN "Ok" ELSE e.is
    BY <1>3, <1>5, <2>2, <2>3, <2>4
  <2>6. /\ Shows(ui, e)
        /\ svc.verdict[e.id] # "None" => Shows(Freed(ui, e.id), e)
    BY <1>2, <2>3, <2>5, ShowsIf
  <2>7. CASE m.what = "Deferred"
    <3>1. w = ui /\ EndsIn(Said(box)) \subseteq EndsIn(Said(box'))
      BY <1>2, <2>7 DEF EndWords
    <3>2. ui' = Upsert(ui, e)
      BY <2>1, <3>1
    <3> HIDE DEF w
    <3> QED BY <3>1, <3>2, <1>2, <2>3, <2>6, UpsertKeeps
  <2>8. CASE m.what # "Deferred"
    <3>1. w = Freed(ui, e.id) /\ ui' = Upsert(w, e)
      BY <2>1, <2>3, <2>8
    <3> HIDE DEF w
    <3>2. Ended(e.is)
      BY <2>2, <2>3, <2>8
    <3>3. svc.verdict[e.id] # "None"
      BY <1>3, <2>3, <2>4, <2>8
    <3>4. e.id \notin w.claims
      BY <3>1, FreedIs, FrontTypes DEF FrontInv
    <3> QED BY <3>1, <3>2, <3>3, <3>4, <1>2, <2>3, <2>6, UpsertKeeps
  <2> QED BY <2>7, <2>8
<1> QED BY <1>6, <1>7

LEMMA PollEventKeeps ==
  ASSUME FrontInv, PollEvent
  PROVE  FrontInv' /\ EndsKept
<1> DEFINE m == Head(box.ev)
           s == Status(ui, m.id)
           h == [s EXCEPT !.event = TRUE]
           told == [h EXCEPT !.is = m.what]
           runs == [h EXCEPT !.is = "Running"]
<1>1. /\ box.ev # <<>> /\ box' = [box EXCEPT !.ev = Tail(@)]
      /\ asked' = asked /\ svc' = svc /\ radioOps' = radioOps
      /\ ui' = IF Stale(ui, m.id) THEN [ui EXCEPT !.stale = @ \cup {m.id}]
               ELSE IF Ended(m.what) THEN Upsert(Freed(ui, m.id), told)
               ELSE IF Ended(h.is) THEN [ui EXCEPT !.track[At(ui, m.id)] = h]
               ELSE Upsert(ui, runs)
  BY DEF PollEvent, Ingest, TrackEvent
<1>2. /\ Takes(m.id) /\ m.id \in Asks /\ m.id \in Known(ui) /\ m \in Events
      /\ m.what \in EndWords => svc.verdict[m.id] = IF m.what = "Done" THEN "Ok" ELSE m.what
      /\ m.what \notin EndWords => EndsIn(Said(box)) \subseteq EndsIn(Said(box'))
  BY <1>1, TakenIs
<1> HIDE DEF m
<1>3. m.what \in {"Rx", "Full", "Done", "Fail", "Timeout"}
  BY <1>2 DEF Events, Happening
<1>4. /\ s \in Statuses /\ s.id = m.id /\ s.is \in Conditions /\ s = Status(ui, m.id)
      /\ Ended(s.is) => m.id \in Tracked(ui)
  BY <1>2, StatusNow, HeardIs
<1> HIDE DEF s
<1>5. h \in Statuses /\ h.id = m.id /\ h.is = s.is
  BY <1>4, HeardIs
<1> HIDE DEF h
<1>6. CASE Stale(ui, m.id)
  BY <1>1, <1>2, <1>6, StaleKeeps
<1>7. CASE ~Stale(ui, m.id) /\ Ended(m.what)
  <2>1. /\ m.what \in Conditions /\ m.what \in {"Done", "Fail", "Timeout"} /\ m.what \in EndWords
        /\ svc.verdict[m.id] = IF m.what = "Done" THEN "Ok" ELSE m.what
        /\ svc.verdict[m.id] # "None"
    BY <1>2, <1>7 DEF Ended, Conditions, EndWords
  <2>a. told = [h EXCEPT !.is = m.what] /\ ui' = Upsert(Freed(ui, m.id), told)
    BY <1>1, <1>7
  <2> HIDE DEF told
  <2>2. told \in Statuses /\ told.id = m.id /\ told.is = m.what
    BY <1>5, <2>a, <2>1, SetAs
  <2>3. Shows(Freed(ui, told.id), told)
    BY <1>2, <2>1, <2>2, ShowsIf
  <2>4. told.id \notin Freed(ui, told.id).claims
    BY FreedIs, FrontTypes DEF FrontInv
  <2> QED BY <1>2, <1>7, <2>a, <2>2, <2>3, <2>4, UpsertKeeps
<1>8. CASE ~Stale(ui, m.id) /\ ~Ended(m.what) /\ ~Ended(h.is)
  <2>1. EndsIn(Said(box)) \subseteq EndsIn(Said(box'))
    BY <1>2, <1>3, <1>8 DEF Ended, EndWords
  <2>a. runs = [h EXCEPT !.is = "Running"] /\ ui' = Upsert(ui, runs)
    BY <1>1, <1>8
  <2> HIDE DEF runs
  <2>2. runs \in Statuses /\ runs.id = m.id /\ runs.is = "Running"
    BY <1>5, <2>a, SetAs DEF Conditions
  <2>3. Shows(ui, runs)
    BY <1>2, <1>4, <1>5, <1>8, <2>2, ShowsIf
  <2> QED BY <1>2, <2>a, <2>1, <2>2, <2>3, UpsertKeeps
<1>9. CASE ~Stale(ui, m.id) /\ ~Ended(m.what) /\ Ended(h.is)
  <2>1. EndsIn(Said(box)) \subseteq EndsIn(Said(box'))
    BY <1>2, <1>3, <1>9 DEF Ended, EndWords
  <2>2. ui' = [ui EXCEPT !.track[At(ui, h.id)] = h] /\ h.id \in Tracked(ui)
    BY <1>1, <1>4, <1>5, <1>9
  <2>3. Noted(ui, ui', h, {})
    BY <1>5, <2>2, FrontTypes, ReplaceIs DEF FrontInv
  <2>4. Shows(ui, h)
    BY <1>2, <1>4, <1>5, ShowsIf
  <2> QED BY <1>2, <1>5, <2>1, <2>3, <2>4, NotesKeep
<1> QED BY <1>6, <1>7, <1>8, <1>9

(* A wait that ends gives the request up and its lane back.                 *)
LEMMA WaitEndsKeeps ==
  ASSUME FrontInv, NEW renews, WaitEnds(renews)
  PROVE  FrontInv' /\ EndsKept
<1>1. PICK i \in Open(ui) :
        ui' = IF renews
                THEN Upsert([Freed(ui, i) EXCEPT !.gaveUp = @ \cup {i}], [Status(ui, i) EXCEPT !.is = "Timeout"])
                ELSE [[Freed(ui, i) EXCEPT !.gaveUp = @ \cup {i}]
                       EXCEPT !.track[At([Freed(ui, i) EXCEPT !.gaveUp = @ \cup {i}], i)]
                                = [Status(ui, i) EXCEPT !.is = "Timeout"]]
  BY DEF WaitEnds
<1> DEFINE e == [Status(ui, i) EXCEPT !.is = "Timeout"]
           w == [Freed(ui, i) EXCEPT !.gaveUp = @ \cup {i}]
<1>2. asked' = asked /\ box' = box /\ svc' = svc /\ radioOps' = radioOps
  BY DEF WaitEnds
<1>3. /\ ui \in UiStates /\ UiOK(ui) /\ Tracked(ui) \in SUBSET Asks /\ box \in BoxStates
  BY FrontTypes DEF FrontInv
<1>4. i \in Asks /\ i \in Tracked(ui) /\ i \in Known(ui)
  BY <1>1, <1>3 DEF Open, Known
<1>5. e = [Status(ui, i) EXCEPT !.is = "Timeout"]
  OBVIOUS
<1>6. /\ w \in UiStates /\ w.track = ui.track /\ w.claims = ui.claims \ {i}
      /\ w.gaveUp = ui.gaveUp \cup {i} /\ w.stale = ui.stale /\ w.epoch = ui.epoch
      /\ w.active = ui.active /\ w.epochs = ui.epochs
  BY <1>3, <1>4, FreedIs DEF UiStates
<1>7. ui' = IF renews THEN Upsert(w, e) ELSE [w EXCEPT !.track[At(w, i)] = e]
  BY <1>1
<1> HIDE DEF e, w
<1>8. e \in Statuses /\ e.id = i /\ e.is = "Timeout"
  BY <1>4, <1>5, StatusNow, SetAs DEF Conditions
<1>9. Shows(w, e)
  BY <1>4, <1>8, <1>6 DEF Shows, Ended
<1>10. Takes(i) /\ EndsIn(Said(box)) \subseteq EndsIn(Said(box'))
  BY <1>2, <1>3 DEF Takes
<1>11. CASE renews
  BY <1>8, <1>7, <1>9, <1>10, <1>11, UpsertKeeps
<1>12. CASE ~renews
  <2>1. ui' = [w EXCEPT !.track[At(w, e.id)] = e]
    BY <1>8, <1>7, <1>12
  <2>2. UiOK(w) /\ e.id \in Tracked(w)
    BY <1>3, <1>4, <1>8, <1>6, SameStatuses DEF UiOK
  <2>3. Noted(w, ui', e, {})
    BY <1>8, <2>1, <2>2, ReplaceIs
  <2> QED BY <1>8, <1>9, <1>10, <2>3, NotesKeep
<1> QED BY <1>11, <1>12

(* The adapter forgets every status and lane: all of them are given up.     *)
LEMMA ForgetsIs ==
  ASSUME NEW u \in UiStates, UiOK(u)
  PROVE  /\ UiOK(Forgets(u)) /\ Forgets(u).track = <<>> /\ Forgets(u).claims = {}
         /\ Forgets(u).gaveUp = u.gaveUp \cup Tracked(u) /\ Forgets(u).stale = u.stale
         /\ Forgets(u).epoch = u.epoch /\ Forgets(u).active = u.active
<1>1. /\ u.gaveUp \in SUBSET Asks /\ Tracked(u) \in SUBSET Asks
  BY UiTypes, StatusIs DEF UiOK
<1>2. NoEpoch \in 0 .. NoEpoch /\ 0 <= TrackSize
  BY FrontSizes DEF NoEpoch
<1> DEFINE none == [i \in Asks |-> NoEpoch]
           gone == u.gaveUp \cup Tracked(u)
           v == [u EXCEPT !.track = <<>>, !.claims = {}]
           f == [v EXCEPT !.epochs = none, !.gaveUp = gone]
<1>3. Forgets(u) = f
  BY DEF Forgets
<1>4. none \in [Asks -> 0 .. NoEpoch] /\ gone \in SUBSET Asks /\ <<>> \in Seq(Statuses)
  BY <1>1, <1>2
<1> HIDE DEF none, gone
<1>5. /\ v \in UiStates /\ v.track = <<>> /\ v.claims = {} /\ v.stale = u.stale
      /\ v.epoch = u.epoch /\ v.active = u.active
  BY <1>4 DEF UiStates
<1> HIDE DEF v
<1>6. /\ f \in UiStates /\ f.gaveUp = gone /\ f.track = v.track /\ f.claims = v.claims
      /\ f.stale = v.stale /\ f.epoch = v.epoch /\ f.active = v.active
  BY <1>4, <1>5 DEF UiStates
<1>7. /\ Forgets(u) \in UiStates /\ Forgets(u).track = <<>> /\ Forgets(u).claims = {}
      /\ Forgets(u).gaveUp = u.gaveUp \cup Tracked(u) /\ Forgets(u).stale = u.stale
      /\ Forgets(u).epoch = u.epoch /\ Forgets(u).active = u.active
  BY <1>3, <1>5, <1>6 DEF gone
<1>8. UiOK(Forgets(u))
  BY <1>2, <1>7 DEF UiOK, OneEach
<1> QED BY <1>7, <1>8

LEMMA ForgetsKeep ==
  ASSUME FrontInv, asked' = asked, NEW u \in UiStates, u.track = ui.track, u.gaveUp = ui.gaveUp,
         ui' = Forgets(u), u.epoch = svc'.epoch, u.active = svc'.active,
         box' \in BoxStates, svc' \in SvcStates, radioOps' \in 0 .. MaxRadio, InService',
         AtWork' \subseteq AtWork, svc'.verdict = svc.verdict,
         IdsOf(Said(svc')) \cup IdsOf(Said(box')) \subseteq IdsOf(Said(svc)) \cup IdsOf(Said(box))
  PROVE  FrontInv' /\ EndsKept
<1>1. /\ FrontTypeOK /\ Followed
  BY DEF FrontInv
<1>2. asked \in [Asks -> Calls \cup {NoCall}] /\ UiOK(ui)
  BY <1>1, FrontTypes
<1>3. UiOK(u) /\ Tracked(u) = Tracked(ui)
  BY <1>2, SameStatuses DEF UiOK
<1>4. /\ UiOK(ui') /\ ui'.track = <<>> /\ ui'.claims = {} /\ ui'.gaveUp = Known(ui)
      /\ ui'.epoch = svc'.epoch /\ ui'.active = svc'.active
  BY <1>3, ForgetsIs DEF Known
<1>5. Tracked(ui') = {} /\ Open(ui') = {} /\ \A i : Status(ui', i) = Fresh(i)
  BY <1>4 DEF Tracked, Open, Status
<1>6. Known(ui') = Known(ui) /\ Unsettled' = {}
  BY <1>4, <1>5 DEF Known, Unsettled
<1>7. FrontTypeOK'
  BY <1>2, <1>4 DEF FrontTypeOK, UiOK, OneEach
<1>8. /\ AtWork \cup IdsOf(Said(svc)) \cup IdsOf(Said(box)) \subseteq Known(ui)
      /\ \A i \in Asks : svc.verdict[i] # "None" => i \in Known(ui)
      /\ \A i \in Known(ui) : asked[i] # NoCall
  BY <1>1 DEF Followed
<1>9. Followed'
  BY <1>4, <1>5, <1>6, <1>8 DEF Followed
<1>10. LanesExclusive'
  BY <1>4, <1>8 DEF LanesExclusive
<1>11. Awaited'
  BY <1>6 DEF Awaited
<1>12. EndsKept
  BY <1>5, StatusTypes DEF EndsKept
<1> QED BY <1>7, <1>9, <1>10, <1>11, <1>12 DEF FrontInv

(* The service with its queues cleared, at another epoch.                   *)
LEMMA EmptiedIs ==
  ASSUME NEW s, NEW R \in SUBSET Asks, SvcInv(s, R), NEW Q, Q \subseteq R,
         NEW n \in 0 .. MaxRadio, NEW b \in BOOLEAN
  PROVE  LET t == [Emptied(s) EXCEPT !.active = b, !.epoch = n]
         IN  /\ t \in SvcStates /\ SvcInv(t, Q) /\ t.epoch = n /\ t.active = b
             /\ t.verdict = s.verdict /\ Busy(t) = {} /\ Said(t) = {}
<1> DEFINE t == [Emptied(s) EXCEPT !.active = b, !.epoch = n]
           lost == s.lost \cup HasOf(s)
<1>1. s \in SvcStates /\ \A i \in R : s.verdict[i] = "None"
  BY DEF SvcInv
<1>2. /\ s.lost \in SUBSET Asks /\ Busy(s) \in SUBSET Asks /\ IdsOf(Said(s)) \in SUBSET Asks
  BY <1>1, SvcTypes
<1>3. \A q : IdsIn(q) = IdsOf(Range(q))
  BY DEF IdsIn, IdsOf, Range
<1>4. HasOf(s) = Busy(s) \cup IdsOf(Said(s))
  BY <1>3 DEF HasOf, Busy, IdsOf, Said
<1>5. lost \in SUBSET Asks
  BY <1>2, <1>4
<1> DEFINE idle  == [s EXCEPT !.queue = <<>>, !.owed = {}, !.pulls = {}]
           quiet == [idle EXCEPT !.resp = <<>>, !.ev = <<>>, !.lost = lost]
<1>6. t = [quiet EXCEPT !.active = b, !.epoch = n]
  BY <1>1 DEF Emptied
<1> HIDE DEF t, lost
<1>7. /\ idle \in SvcStates /\ idle.queue = <<>> /\ idle.owed = {} /\ idle.pulls = {}
       /\ idle.verdict = s.verdict
  <2>1. <<>> \in Seq(Asks) /\ {} \in SUBSET Asks
    OBVIOUS
  <2>2. idle \in SvcStates
    BY <1>1, <2>1 DEF SvcStates
  <2>3. idle.queue = <<>> /\ idle.owed = {} /\ idle.pulls = {} /\ idle.verdict = s.verdict
    BY <1>1 DEF SvcStates
  <2> QED BY <2>2, <2>3
<1> HIDE DEF idle
<1>8. <<>> \in Messages(Answering) /\ <<>> \in Messages(Happening)
  BY DEF Messages
<1>9. /\ quiet \in SvcStates /\ quiet.queue = <<>> /\ quiet.owed = {} /\ quiet.pulls = {}
       /\ quiet.verdict = s.verdict /\ quiet.resp = <<>> /\ quiet.ev = <<>>
  BY <1>5, <1>7, <1>8 DEF SvcStates
<1> HIDE DEF quiet
<1>10. t \in SvcStates
  BY <1>6, <1>9 DEF SvcStates
<1>11. /\ t.queue = <<>> /\ t.owed = {} /\ t.pulls = {} /\ t.resp = <<>> /\ t.ev = <<>>
      /\ t.active = b /\ t.epoch = n /\ t.verdict = s.verdict
  BY <1>6, <1>9 DEF SvcStates
<1>12. Range(<< >>) = {} /\ IsInjective(<< >>)
  BY DEF Range, IsInjective
<1>13. Busy(t) = {} /\ Said(t) = {} /\ Separate(t, Q)
  BY <1>11, <1>12 DEF Busy, Said, Separate
<1>14. SvcInv(t, Q)
  BY <1>1, <1>10, <1>11, <1>13 DEF SvcInv, Agree
<1> QED BY <1>10, <1>11, <1>13, <1>14 DEF t

LEMMA RadioKeeps ==
  ASSUME FrontInv, CacheClear \/ HardDeinitRadio \/ \E ok \in BOOLEAN : HardReinitRadio(ok)
  PROVE  FrontInv' /\ EndsKept
<1> DEFINE R == Range(box.req)
<1>1. /\ FrontTypeOK /\ InService /\ SvcInv(svc, R) /\ IsInjective(box.req)
      /\ Agree(Said(box), svc.verdict) /\ svc.epoch <= radioOps
  BY DEF FrontInv, InService
<1>2. /\ box \in BoxStates /\ svc \in SvcStates /\ ui \in UiStates /\ R \in SUBSET Asks
      /\ AtWork = R \cup Busy(svc) /\ radioOps \in 0 .. MaxRadio
      /\ ui.epoch = svc.epoch /\ ui.active = svc.active
  BY <1>1, FrontTypes
<1>3. svc.epoch \in 0 .. MaxRadio /\ svc.active \in BOOLEAN
  BY <1>2 DEF SvcStates
<1>4. asked' = asked /\ radioOps < MaxRadio /\ radioOps' = radioOps + 1
  BY DEF CacheClear, HardDeinitRadio, HardReinitRadio, RadioStep
<1>5. radioOps' \in 0 .. MaxRadio /\ 0 <= radioOps' /\ svc.epoch <= radioOps' /\ svc.epoch + 1 <= radioOps'
      /\ svc.epoch + 1 \in 0 .. MaxRadio
  BY <1>1, <1>2, <1>3, <1>4, FrontSizes
<1> HIDE DEF R
<1>6. \A M : M = {} => IdsOf(M) = {}
  BY DEF IdsOf
<1>7. CASE CacheClear
  <2>1. box' = box /\ svc' = svc /\ ui' = Forgets(ui)
    BY <1>7 DEF CacheClear
  <2>2. InService'
    BY <1>1, <1>5, <2>1 DEF InService
  <2>3. AtWork' = AtWork
    BY <2>1 DEF AtWork
  <2> QED BY <1>2, <1>4, <1>5, <2>1, <2>2, <2>3, ForgetsKeep
<1>8. CASE HardDeinitRadio
  <2> DEFINE n == IF svc.active THEN svc.epoch ELSE svc.epoch + 1
             t == [Emptied(svc) EXCEPT !.active = TRUE, !.epoch = n]
  <2>1. /\ svc' = t /\ box' = [req |-> <<>>, resp |-> <<>>, ev |-> <<>>]
        /\ ui' = Forgets(Adopted(ui, svc'))
    BY <1>2, <1>8 DEF HardDeinitRadio, Emptied, SvcStates
  <2>2. n \in 0 .. MaxRadio /\ n <= radioOps'
    BY <1>3, <1>5
  <2> HIDE DEF n
  <2>3. /\ t \in SvcStates /\ SvcInv(t, {}) /\ t.epoch = n /\ t.active = TRUE
        /\ t.verdict = svc.verdict /\ Busy(t) = {} /\ Said(t) = {}
    BY <1>1, <1>2, <2>2, EmptiedIs
  <2> HIDE DEF t
  <2>4. Range(<< >>) = {} /\ IsInjective(<< >>)
    BY DEF Range, IsInjective
  <2>5. box' \in BoxStates /\ Said(box') = {} /\ Range(box'.req) = {} /\ IsInjective(box'.req)
    BY <2>1, <2>4 DEF BoxStates, Messages, Said
  <2>6. InService'
    BY <2>1, <2>2, <2>3, <2>5 DEF InService, Agree
  <2>7. AtWork' = {}
    BY <2>1, <2>3, <2>5 DEF AtWork, Busy
  <2>8. /\ Adopted(ui, svc') \in UiStates /\ Adopted(ui, svc').track = ui.track
        /\ Adopted(ui, svc').gaveUp = ui.gaveUp
        /\ Adopted(ui, svc').epoch = svc'.epoch /\ Adopted(ui, svc').active = svc'.active
    BY <1>2, <2>1, <2>3, AdoptedIs
  <2> QED BY <1>4, <1>5, <1>6, <2>1, <2>3, <2>5, <2>6, <2>7, <2>8, ForgetsKeep
<1>9. CASE HardReinitRadio(TRUE)
  <2> DEFINE t == [Emptied(svc) EXCEPT !.active = FALSE, !.epoch = 0]
  <2>1. svc' = t /\ box' = box /\ ui' = Forgets(Adopted(ui, svc'))
    BY <1>9 DEF HardReinitRadio
  <2>2. 0 \in 0 .. MaxRadio
    BY FrontSizes
  <2>3. /\ t \in SvcStates /\ SvcInv(t, R) /\ t.epoch = 0 /\ t.active = FALSE
        /\ t.verdict = svc.verdict /\ Busy(t) = {} /\ Said(t) = {}
    BY <1>1, <1>2, <2>2, EmptiedIs
  <2> HIDE DEF t
  <2>4. InService'
    BY <1>1, <1>5, <2>1, <2>3 DEF InService, R
  <2>5. AtWork' = R
    BY <2>1, <2>3 DEF AtWork, Busy, R
  <2>6. /\ Adopted(ui, svc') \in UiStates /\ Adopted(ui, svc').track = ui.track
        /\ Adopted(ui, svc').gaveUp = ui.gaveUp
        /\ Adopted(ui, svc').epoch = svc'.epoch /\ Adopted(ui, svc').active = svc'.active
    BY <1>2, <2>1, <2>3, AdoptedIs
  <2> QED BY <1>2, <1>4, <1>5, <1>6, <2>1, <2>3, <2>4, <2>5, <2>6, ForgetsKeep
<1>10. CASE HardReinitRadio(FALSE)
  <2>1. svc' = [svc EXCEPT !.active = TRUE] /\ box' = box /\ ui' = Adopted(ui, svc')
    BY <1>10 DEF HardReinitRadio
  <2>2. /\ svc' \in SvcStates /\ svc'.queue = svc.queue /\ svc'.owed = svc.owed /\ svc'.pulls = svc.pulls
        /\ svc'.resp = svc.resp /\ svc'.ev = svc.ev /\ svc'.verdict = svc.verdict
        /\ svc'.lost = svc.lost /\ svc'.epoch = svc.epoch
    BY <1>2, <2>1 DEF SvcStates
  <2>3. SvcInv(svc', R)
    BY <1>1, <2>2 DEF SvcInv, Separate, Busy, Said
  <2>4. Serves(svc', svc', R, R)
    BY <2>3, ServesSelf
  <2>5. /\ ui' \in UiStates /\ ui'.track = ui.track /\ ui'.claims = ui.claims
        /\ ui'.gaveUp = ui.gaveUp /\ ui'.stale = ui.stale
        /\ ui'.epoch = svc'.epoch /\ ui'.active = svc'.active
    BY <1>2, <2>1, <2>2, AdoptedIs
  <2> QED BY <1>4, <1>5, <2>1, <2>2, <2>4, <2>5, ServedKeeps DEF R
<1> QED BY <1>7, <1>8, <1>9, <1>10

(* A request nobody knows is asked for, followed and queued.                *)
LEMMA SubmitKeeps ==
  ASSUME FrontInv, NEW c \in Calls, Submit(c)
  PROVE  FrontInv' /\ EndsKept
<1>1. PICK i \in Asks :
        /\ asked[i] = NoCall
        /\ HasLane(c) => \A j \in StillClaimed(ui) : LaneOf(j) # Lane(c)
        /\ asked' = [asked EXCEPT ![i] = c] /\ box' = [box EXCEPT !.req = Append(@, i)]
        /\ svc' = svc /\ radioOps' = radioOps
        /\ LET u == Upsert([ui EXCEPT !.epochs[i] = ui.epoch, !.claims = StillClaimed(ui)], Fresh(i))
           IN  ui' = [u EXCEPT !.claims = IF HasLane(c) THEN @ \cup {i} ELSE @]
  BY DEF Submit
<1> DEFINE R == Range(box.req)
           held == StillClaimed(ui)
           e == Fresh(i)
           w == [ui EXCEPT !.epochs[i] = ui.epoch, !.claims = held]
           v == Upsert(w, e)
           more == IF HasLane(c) THEN v.claims \cup {i} ELSE v.claims
(* What is there before.                                                    *)
<1>2. /\ FrontTypeOK /\ SvcInv(svc, R) /\ IsInjective(box.req)
      /\ Agree(Said(box), svc.verdict) /\ svc.epoch <= radioOps
      /\ \A j \in Busy(svc) \cup R : svc.verdict[j] = "None"
  BY DEF FrontInv, InService, SvcInv
<1>3. /\ asked \in [Asks -> Calls \cup {NoCall}] /\ box \in BoxStates /\ svc \in SvcStates
      /\ ui \in UiStates /\ UiOK(ui) /\ R \in SUBSET Asks /\ box.req \in Seq(Asks)
      /\ AtWork = R \cup Busy(svc) /\ AtWork \in SUBSET Asks /\ Tracked(ui) \in SUBSET Asks
      /\ radioOps \in 0 .. MaxRadio /\ ui.epoch = svc.epoch /\ ui.active = svc.active
      /\ Known(ui) \in SUBSET Asks
  BY <1>2, FrontTypes
<1>4. /\ AtWork \cup IdsOf(Said(svc)) \cup IdsOf(Said(box)) \subseteq Known(ui)
      /\ \A j \in Asks : svc.verdict[j] # "None" => j \in Known(ui)
      /\ \A j \in Known(ui) : asked[j] # NoCall
      /\ ui.claims \subseteq Tracked(ui)
      /\ \A j \in Tracked(ui) : Ended(Status(ui, j).is) => svc.verdict[j] # "None" \/ j \in ui.gaveUp
  BY DEF FrontInv, Followed
<1>5. /\ \A j, k \in ui.claims : LaneOf(j) = LaneOf(k) => j = k
      /\ \A j \in AtWork : HasLane(asked[j]) => j \in ui.claims \cup ui.gaveUp
      /\ Unsettled \subseteq AtWork \cup ToldOf \cup ui.stale \cup ui.gaveUp
  BY DEF FrontInv, LanesExclusive, Awaited
<1>6. i \notin Known(ui) /\ i \notin AtWork /\ i \notin Tracked(ui) /\ svc.verdict[i] = "None"
  <2>1. i \notin Known(ui)
    BY <1>1, <1>4
  <2> QED BY <2>1, <1>1, <1>4 DEF Known
(* What is held and what is new.                                            *)
<1>7. /\ held \subseteq ui.claims /\ held \in SUBSET Asks
      /\ \A j \in ui.claims \ held : j \in Tracked(ui) /\ Ended(Status(ui, j).is)
  <2>1. held = ui.claims \ {j \in Tracked(ui) : Ended(Status(ui, j).is)}
    BY DEF StillClaimed
  <2>2. ui.claims \in SUBSET Asks
    BY <1>3, UiTypes
  <2> HIDE DEF held
  <2> QED BY <2>1, <2>2
<1>8. e \in Statuses /\ e.id = i /\ ~Ended(e.is)
  BY StatusTypes DEF Ended
<1>9. HasLane(c) => \A j \in held : LaneOf(j) # Lane(c)
  BY <1>1
<1>10. ui' = [v EXCEPT !.claims = more]
  BY <1>1
<1> HIDE DEF held, e, R
<1>11. /\ w \in UiStates /\ w.track = ui.track /\ w.claims = held /\ w.gaveUp = ui.gaveUp
       /\ w.stale = ui.stale /\ w.epoch = ui.epoch /\ w.active = ui.active
  <2> DEFINE x == [ui EXCEPT !.epochs[i] = ui.epoch]
  <2>1. ui.epoch \in 0 .. NoEpoch /\ ui.epochs \in [Asks -> 0 .. NoEpoch]
    BY <1>3, UiTypes, FrontSizes DEF NoEpoch
  <2>2. [ui.epochs EXCEPT ![i] = ui.epoch] \in [Asks -> 0 .. NoEpoch]
    BY <2>1
  <2>3. /\ x \in UiStates /\ x.track = ui.track /\ x.gaveUp = ui.gaveUp
        /\ x.stale = ui.stale /\ x.epoch = ui.epoch /\ x.active = ui.active
    BY <1>3, <2>2 DEF UiStates
  <2>4. w = [x EXCEPT !.claims = held]
    OBVIOUS
  <2> HIDE DEF x, w
  <2> QED BY <1>7, <2>3, <2>4 DEF UiStates
<1> HIDE DEF w
<1>12. UiOK(w) /\ Tracked(w) = Tracked(ui) /\ \A j : Status(w, j) = Status(ui, j)
  BY <1>3, <1>11, SameStatuses DEF UiOK
<1>13. PICK D : Noted(w, v, e, D)
  BY <1>8, <1>12, UpsertIs
<1> HIDE DEF v
<1>14. /\ UiOK(v) /\ D \subseteq Tracked(ui) \cup {i} /\ i \notin D
       /\ v.gaveUp = ui.gaveUp \cup D /\ v.claims = held \ D
       /\ v.epoch = ui.epoch /\ v.active = ui.active /\ v.stale = ui.stale
  BY <1>8, <1>11, <1>12, <1>13 DEF Noted
<1>15. /\ Tracked(v) = (Tracked(ui) \cup {i}) \ D
       /\ \A j \in Tracked(v) : Status(v, j) = IF j = i THEN e ELSE Status(ui, j)
  BY <1>8, <1>12, <1>13, NotedMeans
<1>16. /\ more \in SUBSET Asks /\ more \subseteq (held \ D) \cup {i} /\ held \ D \subseteq more
       /\ HasLane(c) => i \in more
  BY <1>7, <1>14
<1>17. ~HasLane(c) => i \notin more
  <2>1. i \notin held
    BY <1>4, <1>6, <1>7
  <2> QED BY <2>1, <1>14
<1> HIDE DEF more
<1>18. /\ ui' \in UiStates /\ ui'.track = v.track /\ ui'.claims = more /\ ui'.gaveUp = v.gaveUp
       /\ ui'.stale = v.stale /\ ui'.epoch = v.epoch /\ ui'.active = v.active
  <2>1. v \in UiStates
    BY <1>14 DEF UiOK
  <2> QED BY <2>1, <1>10, <1>16 DEF UiStates
<1>19. /\ UiOK(ui') /\ Tracked(ui') = (Tracked(ui) \cup {i}) \ D
       /\ \A j \in Tracked(ui') : Status(ui', j) = IF j = i THEN e ELSE Status(ui, j)
       /\ \A j : j \notin Tracked(ui') => Status(ui', j) = Fresh(j)
  <2>1. Tracked(ui') = Tracked(v) /\ \A j : Status(ui', j) = Status(v, j)
    BY <1>18, SameStatuses
  <2>2. UiOK(ui')
    BY <1>14, <1>18 DEF UiOK
  <2>3. \A j : j \notin Tracked(ui') => Status(ui', j) = Fresh(j)
    BY DEF Status
  <2> QED BY <2>1, <2>2, <2>3, <1>15
<1>20. /\ asked' \in [Asks -> Calls \cup {NoCall}] /\ asked'[i] = c /\ c # NoCall
       /\ \A j \in Asks : j # i => asked'[j] = asked[j]
  BY <1>1, <1>3, FrontSizes
<1>21. /\ box' \in BoxStates /\ box'.req = Append(box.req, i) /\ Said(box') = Said(box)
       /\ Range(box'.req) = R \cup {i} /\ IsInjective(box'.req)
  <2>1. /\ Append(box.req, i) \in Seq(Asks) /\ Range(Append(box.req, i)) = R \cup {i}
        /\ IsInjective(Append(box.req, i))
    BY <1>2, <1>3, <1>6, RangeOfAppend DEF R
  <2>2. /\ box' \in BoxStates /\ box'.req = Append(box.req, i)
        /\ box'.resp = box.resp /\ box'.ev = box.ev
    BY <1>1, <1>3, <2>1 DEF BoxStates
  <2> QED BY <2>1, <2>2 DEF Said
<1>22. svc' = svc /\ radioOps' = radioOps
  BY <1>1
<1>23. AtWork' = AtWork \cup {i} /\ ToldOf' = ToldOf
  BY <1>3, <1>21, <1>22 DEF AtWork, ToldOf, Busy
<1>24. Known(ui') = Known(ui) \cup {i}
  BY <1>14, <1>18, <1>19 DEF Known
(* The invariant.                                                           *)
<1>25. FrontTypeOK'
  <2>1. Len(ui'.track) <= TrackSize /\ OneEach(ui'.track)
    BY <1>19 DEF UiOK
  <2> QED BY <2>1, <1>3, <1>14, <1>18, <1>20, <1>21, <1>22 DEF FrontTypeOK, OneEach
<1>26. InService'
  <2>1. SvcInv(svc, R \cup {i})
    <3>1. i \notin Busy(svc) /\ i \notin R
      BY <1>3, <1>6
    <3>2. Separate(svc, R) /\ Agree(Said(svc), svc.verdict)
      BY <1>2 DEF SvcInv
    <3>3. Separate(svc, R \cup {i})
      BY <3>1, <3>2 DEF Separate, Busy
    <3> QED BY <3>2, <3>3, <1>2, <1>3, <1>6 DEF SvcInv
  <2> QED BY <2>1, <1>2, <1>21, <1>22 DEF InService
<1>27. Followed'
  <2>1. AtWork' \cup IdsOf(Said(svc')) \cup IdsOf(Said(box')) \subseteq Known(ui')
    BY <1>4, <1>21, <1>22, <1>23, <1>24
  <2>2. \A j \in Asks : svc'.verdict[j] # "None" => j \in Known(ui')
    BY <1>4, <1>22, <1>24
  <2>3. \A j \in Known(ui') : asked'[j] # NoCall
    BY <1>3, <1>4, <1>20, <1>24
  <2>4. ui'.claims \subseteq Tracked(ui')
    BY <1>4, <1>7, <1>14, <1>16, <1>18, <1>19
  <2>5. ASSUME NEW j \in Tracked(ui'), Ended(Status(ui', j).is)
        PROVE  svc'.verdict[j] # "None" \/ j \in ui'.gaveUp
    BY <2>5, <1>4, <1>8, <1>14, <1>18, <1>19, <1>22
  <2> QED BY <2>1, <2>2, <2>3, <2>4, <2>5 DEF Followed
<1>28. LanesExclusive'
  <2>1. \A j \in Asks : Lane(asked'[j]) = IF j = i THEN Lane(c) ELSE LaneOf(j)
    BY <1>20 DEF LaneOf
  <2>2. ASSUME NEW j \in ui'.claims, NEW k \in ui'.claims, Lane(asked'[j]) = Lane(asked'[k])
        PROVE  j = k
    <3>1. j \in Asks /\ k \in Asks /\ (j \in held \/ j = i) /\ (k \in held \/ k = i)
      BY <1>16, <1>18
    <3>2. j = i \/ k = i => HasLane(c)
      BY <1>17, <1>18
    <3> QED BY <2>1, <2>2, <3>1, <3>2, <1>5, <1>7, <1>9
  <2>3. ASSUME NEW j \in AtWork', HasLane(asked'[j])
        PROVE  j \in ui'.claims \cup ui'.gaveUp
    <3>1. CASE j = i
      BY <3>1, <2>3, <1>16, <1>18, <1>20
    <3>2. CASE j # i
      <4>1. j \in AtWork /\ asked'[j] = asked[j] /\ svc.verdict[j] = "None"
        BY <3>2, <1>2, <1>3, <1>20, <1>23
      <4>2. j \in ui.claims \cup ui.gaveUp
        BY <4>1, <2>3, <1>5
      <4>3. CASE j \in ui.gaveUp
        BY <4>3, <1>14, <1>18
      <4>4. CASE j \in ui.claims \ held
        BY <4>1, <4>4, <1>4, <1>7, <1>14, <1>18
      <4>5. CASE j \in held
        BY <4>5, <1>14, <1>16, <1>18
      <4> QED BY <4>2, <4>3, <4>4, <4>5
    <3> QED BY <3>1, <3>2
  <2> QED BY <2>2, <2>3 DEF LanesExclusive, LaneOf
<1>29. Awaited'
  <2>1. ASSUME NEW j \in Unsettled' PROVE j \in Unsettled \cup {i}
    <3>1. CASE j \in ui'.claims
      BY <3>1, <1>7, <1>16, <1>18 DEF Unsettled
    <3>2. CASE j \in Open(ui')
      BY <3>2, <1>19 DEF Open, Unsettled
    <3> QED BY <2>1, <3>1, <3>2 DEF Unsettled
  <2> QED BY <2>1, <1>5, <1>14, <1>18, <1>23 DEF Awaited
<1>30. EndsKept
  <2>1. ASSUME NEW j \in Asks, j \in Tracked(ui), j \in Tracked(ui')
        PROVE  Status(ui', j) = Status(ui, j)
    BY <2>1, <1>6, <1>19
  <2>2. ASSUME NEW j \in Asks, Status(ui', j).is # Status(ui, j).is
        PROVE  Status(ui', j).is # "Done" /\ Status(ui', j).is # "Fail"
    <3>1. CASE j \in Tracked(ui') /\ j # i
      BY <2>1, <2>2, <3>1, <1>19
    <3>2. CASE j \notin Tracked(ui') \/ j = i
      <4>1. Status(ui', j) = Fresh(j)
        BY <3>2, <1>19 DEF e
      <4> QED BY <4>1, StatusTypes
    <3> QED BY <3>1, <3>2
  <2> QED BY <2>1, <2>2 DEF EndsKept
<1> QED BY <1>25, <1>26, <1>27, <1>28, <1>29, <1>30 DEF FrontInv

LEMMA FrontNextKeeps ==
  ASSUME FrontInv, [FrontNext]_frontVars
  PROVE  FrontInv' /\ EndsKept
<1>1. CASE \E c \in Calls : Submit(c)
  BY <1>1, SubmitKeeps
<1>2. CASE RuntimeTick
  BY <1>2, RuntimeTickKeeps
<1>3. CASE ExchangeOver \/ PullAnswered
  BY <1>3, ServiceStepKeeps
<1>4. CASE PollResponse
  BY <1>4, PollResponseKeeps
<1>5. CASE PollEvent
  BY <1>5, PollEventKeeps
<1>6. CASE \E renews \in BOOLEAN : WaitEnds(renews)
  BY <1>6, WaitEndsKeeps
<1>7. CASE BeginRadioTransition \/ EndRadioTransition
  BY <1>7, TransitionKeeps
<1>8. CASE CacheClear \/ HardDeinitRadio \/ \E ok \in BOOLEAN : HardReinitRadio(ok)
  BY <1>8, RadioKeeps
<1>9. CASE UNCHANGED frontVars
  <2>1. asked' = asked /\ box' = box /\ svc' = svc /\ ui' = ui /\ radioOps' = radioOps
    BY <1>9 DEF frontVars
  <2>2. FrontTypeOK' /\ InService'
    BY <2>1 DEF FrontInv, FrontTypeOK, InService
  <2>3. /\ AtWork' \subseteq AtWork /\ AtWork \cup ToldOf \subseteq AtWork' \cup ToldOf'
        /\ IdsOf(Said(svc')) \cup IdsOf(Said(box')) \subseteq AtWork \cup IdsOf(Said(svc)) \cup IdsOf(Said(box))
    BY <2>1 DEF AtWork, ToldOf
  <2> QED BY <2>1, <2>2, <2>3, WorkKeeps
<1> QED BY <1>1, <1>2, <1>3, <1>4, <1>5, <1>6, <1>7, <1>8, <1>9 DEF FrontNext

LEMMA FrontAlways == FrontSpec => []FrontInv
<1>1. FrontInv /\ [FrontNext]_frontVars => FrontInv'
  BY FrontNextKeeps
<1> QED BY FrontInitInv, <1>1, PTL DEF FrontSpec

(* The adapter, its transport and the service never leave their types, no   *)
(* request has two statuses, the list of statuses stays within its limit    *)
(* (trimReqStatus_), and the adapter knows the epoch of the service.        *)
THEOREM FrontTypeCorrect == FrontSpec => []FrontTypeOK
<1>1. FrontInv => FrontTypeOK
  BY DEF FrontInv
<1> QED BY FrontAlways, <1>1, PTL

(* However responses, events, waits and radio operations interleave, the    *)
(* lanes serialise the mutating commands (submitTracked_), and a command    *)
(* that is not shown as ended, or whose lane is held, has its end still to  *)
(* come, or the end was lost to a full queue or an expired pull, or dropped *)
(* as stale, or the frontend gave the command up.                           *)
THEOREM CommandsAreTracked == FrontSpec => []CommandsTracked
<1>1. FrontInv => CommandsTracked
  BY InvMeans
<1> QED BY FrontAlways, <1>1, PTL

(* In whatever order trackResponse_, trackEvent_ and the end of a wait see  *)
(* a command, a terminal status never reopens, and it turns Done or Fail    *)
(* only if the service ended the command that way.                          *)
THEOREM EndsAreFinal == FrontSpec => EndsStand
<1>1. FrontInv /\ [FrontNext]_frontVars => EndsKept
  BY FrontNextKeeps
<1>2. FrontSpec => [][EndsKept]_frontVars
  BY FrontAlways, <1>1, PTL DEF FrontSpec
<1> QED BY <1>2 DEF EndsStand, EndsKept
====
