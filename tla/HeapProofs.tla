----------------------------- MODULE HeapProofs -----------------------------
(***************************************************************************)
(* The heap with its index, for any number of nodes, and what rests on it: *)
(* the idle timer closes by a connection's own deadline, and the balancer  *)
(* gives a client the server with the least load reported.                 *)
(***************************************************************************)
EXTENDS Timer, Balancer, FiniteSetTheorems, WellFoundedInduction, TLAPS

-----------------------------------------------------------------------------
(* The order of a heap, by the keys at its first n places *)

\* b is a child of a.
ChildOf(a, b) == b = 2 * a \/ b = 2 * a + 1

Ordered(K, n) == \A a, b \in 1..n : ChildOf(a, b) => K[a] <= K[b]

\* Only the node at i is out of place, if any is.
Loose(K, i, n) ==
  /\ \A a, b \in 1..n : ChildOf(a, b) /\ a # i /\ b # i => K[a] <= K[b]
  /\ \A a, b \in 1..n : ChildOf(a, i) /\ ChildOf(i, b) => K[a] <= K[b]

BelowParent(K, i, n)   == \A a \in 1..n : ChildOf(a, i) => K[a] <= K[i]
AboveChildren(K, i, n) == \A b \in 1..n : ChildOf(i, b) => K[i] <= K[b]

Swapped(K, L, i, j) ==
  L[i] = K[j] /\ L[j] = K[i] /\ \A x \in DOMAIN K : x # i /\ x # j => L[x] = K[x]

LEMMA LeastNumber ==
  ASSUME NEW S \in SUBSET Nat, S # {}
  PROVE  \E x \in S : \A y \in S : x <= y
  <1>1. \E x \in S : \A y \in S : ~(<<y, x>> \in OpToRel(<, Nat))
    BY NatLessThanWellFounded, WFMin
  <1>2. \A x, y \in Nat : ~(<<y, x>> \in OpToRel(<, Nat)) => x <= y
    BY DEF OpToRel
  <1> QED
    BY <1>1, <1>2

LEMMA SettledIsOrdered ==
  ASSUME NEW K, NEW n \in Nat, NEW i \in 1..n,
         Loose(K, i, n), BelowParent(K, i, n), AboveChildren(K, i, n)
  PROVE  Ordered(K, n)
  BY DEF Loose, BelowParent, AboveChildren, Ordered

LEMMA OrderedIsLoose ==
  ASSUME NEW m \in Nat, NEW n \in 0..m, NEW K \in [1..m -> Int], NEW i \in 1..n,
         Ordered(K, n)
  PROVE  Loose(K, i, n) /\ BelowParent(K, i, n) /\ AboveChildren(K, i, n)
  BY DEF Loose, BelowParent, AboveChildren, Ordered

\* Every place but the first has a parent.
LEMMA ParentOf ==
  ASSUME NEW i \in Nat, i > 1
  PROVE  i \div 2 \in 1..(i - 1) /\ ChildOf(i \div 2, i)
  BY DEF ChildOf

LEMMA FirstIsLeast ==
  ASSUME NEW m \in Nat, NEW n \in 0..m, NEW K \in [1..m -> Int], Ordered(K, n),
         NEW i \in 1..n
  PROVE  K[1] <= K[i]
  <1> DEFINE bad == {x \in 1..n : ~(K[1] <= K[x])}
  <1>1. SUFFICES ASSUME bad # {} PROVE FALSE
    OBVIOUS
  <1>2. bad \in SUBSET Nat
    OBVIOUS
  <1>3. PICK x \in bad : \A y \in bad : x <= y
    BY <1>1, <1>2, LeastNumber
  <1>4. x \in 1..n /\ K[x] < K[1]
    OBVIOUS
  <1>5. x > 1
    BY <1>4
  <1>6. x \div 2 \in 1..(x - 1) /\ ChildOf(x \div 2, x)
    BY <1>4, <1>5, ParentOf
  <1>7. x \div 2 \in 1..n /\ x \div 2 \notin bad
    BY <1>3, <1>4, <1>6
  <1>8. K[1] <= K[x \div 2] /\ K[x \div 2] <= K[x]
    BY <1>4, <1>6, <1>7 DEF Ordered
  <1>9. K[1] \in Int /\ K[x] \in Int /\ K[x \div 2] \in Int
    BY <1>4, <1>7
  <1> QED
    BY <1>4, <1>8, <1>9

\* A node that is not before its parent changes places with it.
LEMMA RiseKeepsOrder ==
  ASSUME NEW m \in Nat, NEW n \in 0..m, NEW K \in [1..m -> Int], NEW L \in [1..m -> Int],
         NEW i \in 1..n, NEW j \in 1..n, ChildOf(j, i), K[i] <= K[j], Swapped(K, L, i, j),
         Loose(K, i, n), AboveChildren(K, i, n)
  PROVE  Loose(L, j, n) /\ AboveChildren(L, j, n)
  <1> USE DEF ChildOf
  <1>1. \A x \in 1..n : K[x] \in Int
    OBVIOUS
  <1>2. j < i /\ \A a \in 1..n : ChildOf(a, i) => a = j
    BY SMTT(20)
  <1>3. L[i] = K[j] /\ L[j] = K[i] /\ \A x \in 1..n : x # i /\ x # j => L[x] = K[x]
    BY DEF Swapped
  <1>4. ASSUME NEW a \in 1..n, NEW b \in 1..n, ChildOf(a, b), a # j, b # j PROVE L[a] <= L[b]
    <2>1. b # i
      BY <1>2, <1>4
    <2>2. CASE a = i
      BY <1>3, <1>4, <2>1, <2>2 DEF Loose
    <2>3. CASE a # i
      BY <1>3, <1>4, <2>1, <2>3 DEF Loose
    <2> QED
      BY <2>2, <2>3
  <1>5. ASSUME NEW b \in 1..n, ChildOf(j, b), b # i PROVE K[j] <= K[b]
    BY <1>2, <1>5 DEF Loose
  <1>6. ASSUME NEW a \in 1..n, NEW b \in 1..n, ChildOf(a, j), ChildOf(j, b) PROVE L[a] <= L[b]
    <2>1. a # i /\ a # j
      BY <1>2, <1>6, SMTT(20)
    <2>2. K[a] <= K[j] /\ L[a] = K[a]
      BY <1>2, <1>3, <1>6, <2>1 DEF Loose
    <2>3. CASE b = i
      BY <1>3, <2>2, <2>3
    <2>4. CASE b # i
      <3>1. L[b] = K[b] /\ K[j] <= K[b]
        BY <1>3, <1>5, <1>6, <2>4
      <3> QED
        BY <1>1, <2>2, <3>1, SMTT(20)
    <2> QED
      BY <2>3, <2>4
  <1>7. ASSUME NEW b \in 1..n, ChildOf(j, b) PROVE L[j] <= L[b]
    <2>1. CASE b = i
      BY <1>3, <2>1
    <2>2. CASE b # i
      <3>1. L[b] = K[b] /\ K[j] <= K[b]
        BY <1>3, <1>5, <1>7, <2>2
      <3> QED
        BY <1>1, <1>3, <3>1
    <2> QED
      BY <2>1, <2>2
  <1> QED
    BY <1>4, <1>6, <1>7 DEF Loose, AboveChildren

\* A node that is not before the lesser of its children changes places with it.
LEMMA SinkKeepsOrder ==
  ASSUME NEW m \in Nat, NEW n \in 0..m, NEW K \in [1..m -> Int], NEW L \in [1..m -> Int],
         NEW i \in 1..n, NEW j \in 1..n, ChildOf(i, j), K[j] <= K[i], Swapped(K, L, i, j),
         \A b \in 1..n : ChildOf(i, b) => K[j] <= K[b],
         Loose(K, i, n)
  PROVE  Loose(L, j, n) /\ BelowParent(L, j, n)
  <1> USE DEF ChildOf
  <1>1. \A x \in 1..n : K[x] \in Int
    OBVIOUS
  <1>2. i < j /\ \A a \in 1..n : ChildOf(a, j) => a = i
    OBVIOUS
  <1>3. L[i] = K[j] /\ L[j] = K[i] /\ \A x \in 1..n : x # i /\ x # j => L[x] = K[x]
    BY DEF Swapped
  <1>4. ASSUME NEW a \in 1..n, NEW b \in 1..n, ChildOf(a, b), a # j, b # j PROVE L[a] <= L[b]
    <2>1. CASE a = i
      BY <1>3, <1>4, <2>1
    <2>2. CASE b = i
      BY <1>2, <1>3, <1>4, <2>2 DEF Loose
    <2>3. CASE a # i /\ b # i
      BY <1>3, <1>4, <2>3 DEF Loose
    <2> QED
      BY <2>1, <2>2, <2>3
  <1>5. ASSUME NEW a \in 1..n, NEW b \in 1..n, ChildOf(a, j), ChildOf(j, b) PROVE L[a] <= L[b]
    <2>1. a = i /\ b # i /\ b # j
      BY <1>2, <1>5
    <2>2. K[j] <= K[b]
      BY <1>2, <1>5, <2>1 DEF Loose
    <2> QED
      BY <1>3, <2>1, <2>2
  <1>6. ASSUME NEW a \in 1..n, ChildOf(a, j) PROVE L[a] <= L[j]
    BY <1>2, <1>3, <1>6
  <1> QED
    BY <1>4, <1>5, <1>6 DEF Loose, BelowParent

-----------------------------------------------------------------------------
(* The vector and its index *)

\* Each node is where the index says, and nothing else is in the index.
IsHeap(S, h) ==
  /\ h = [nodes |-> h.nodes, index |-> h.index]
  /\ h.nodes \in Seq(S)
  /\ h.index = [id \in DOMAIN h.index |-> h.index[id]]
  /\ \A i \in 1..Len(h.nodes) :
       h.nodes[i].id \in DOMAIN h.index /\ h.index[h.nodes[i].id] = i
  /\ \A id \in DOMAIN h.index :
       h.index[id] \in 1..Len(h.nodes) /\ h.nodes[h.index[id]].id = id

Keyed(S) == \A x \in S : x.key \in Int

Keys(h) == [i \in 1..Len(h.nodes) |-> h.nodes[i].key]

\* What a heap holds, whatever the places.
HeldBy(h) == [id \in DOMAIN h.index |-> h.nodes[h.index[id]]]

Same(g, h) == Len(g.nodes) = Len(h.nodes) /\ DOMAIN g.index = DOMAIN h.index /\ HeldBy(g) = HeldBy(h)

\* Nothing has moved beyond the first n places.
Kept(g, h, n) == \A x \in 1..Len(h.nodes) : x > n => g.nodes[x] = h.nodes[x]

LEMMA KeyTypes ==
  ASSUME NEW S, Keyed(S), NEW h, IsHeap(S, h)
  PROVE  /\ Len(h.nodes) \in Nat /\ Keys(h) \in [1..Len(h.nodes) -> Int]
         /\ \A i \in 1..Len(h.nodes) : Keys(h)[i] = h.nodes[i].key /\ h.nodes[i] \in S
  <1>1. h.nodes \in Seq(S)
    BY DEF IsHeap
  <1>2. \A i \in 1..Len(h.nodes) : h.nodes[i] \in S
    BY <1>1
  <1>3. \A i \in 1..Len(h.nodes) : h.nodes[i].key \in Int
    BY <1>2 DEF Keyed
  <1> QED
    BY <1>1, <1>2, <1>3 DEF Keys

LEMMA SwapIs ==
  ASSUME NEW S, Keyed(S), NEW h, IsHeap(S, h), NEW i \in 1..Len(h.nodes), NEW j \in 1..Len(h.nodes)
  PROVE  /\ IsHeap(S, SwapNode(h, i, j)) /\ Same(SwapNode(h, i, j), h)
         /\ Swapped(Keys(h), Keys(SwapNode(h, i, j)), i, j)
         /\ \A k \in 1..Len(h.nodes) : k # i /\ k # j => SwapNode(h, i, j).nodes[k] = h.nodes[k]
         /\ SwapNode(h, i, j).nodes[j] = h.nodes[i]
  <1> DEFINE n == Len(h.nodes)
  <1> DEFINE v == [h.nodes EXCEPT ![i] = h.nodes[j], ![j] = h.nodes[i]]
  <1> DEFINE x == [h.index EXCEPT ![v[i].id] = i, ![v[j].id] = j]
  <1> DEFINE g == SwapNode(h, i, j)
  <1>1. h.nodes \in Seq(S) /\ n \in Nat /\ DOMAIN h.nodes = 1..n
    BY DEF IsHeap
  <1>2. /\ v \in Seq(S) /\ Len(v) = n /\ v[i] = h.nodes[j] /\ v[j] = h.nodes[i]
        /\ \A k \in 1..n : k # i /\ k # j => v[k] = h.nodes[k]
    BY <1>1
  <1>3. /\ h.index = [id \in DOMAIN h.index |-> h.index[id]]
        /\ \A k \in 1..n : h.nodes[k].id \in DOMAIN h.index /\ h.index[h.nodes[k].id] = k
        /\ \A id \in DOMAIN h.index : h.index[id] \in 1..n /\ h.nodes[h.index[id]].id = id
    BY DEF IsHeap
  <1>4. g = [nodes |-> v, index |-> x]
    BY DEF SwapNode
  <1>5. g.nodes = v /\ g.index = x
    BY <1>4
  <1> HIDE DEF v, g
  <1>6. /\ x = [id \in DOMAIN h.index |-> x[id]] /\ DOMAIN x = DOMAIN h.index
        /\ x[h.nodes[j].id] = i /\ x[h.nodes[i].id] = j
        /\ \A id \in DOMAIN h.index :
             id # h.nodes[i].id /\ id # h.nodes[j].id => x[id] = h.index[id]
    <2>1. v[i].id \in DOMAIN h.index /\ v[j].id \in DOMAIN h.index
      BY <1>2, <1>3
    <2>2. x[v[j].id] = j
      BY <2>1, <1>3
    <2>3. x[v[i].id] = i
      <3>1. CASE v[i].id = v[j].id
        <4>1. i = j
          BY <1>2, <1>3, <3>1
        <4> QED
          BY <2>2, <4>1
      <3>2. CASE v[i].id # v[j].id
        BY <2>1, <3>2, <1>3
      <3> QED
        BY <3>1, <3>2
    <2>4. x = [id \in DOMAIN h.index |-> x[id]] /\ DOMAIN x = DOMAIN h.index
      BY <1>3
    <2>5. \A id \in DOMAIN h.index : id # v[i].id /\ id # v[j].id => x[id] = h.index[id]
      BY <1>3
    <2> QED
      BY <1>2, <2>2, <2>3, <2>4, <2>5
  <1> HIDE DEF x
  <1>7. \A k \in 1..n : v[k].id \in DOMAIN x /\ x[v[k].id] = k
    <2> SUFFICES ASSUME NEW k \in 1..n PROVE v[k].id \in DOMAIN x /\ x[v[k].id] = k
      OBVIOUS
    <2>1. CASE k = i \/ k = j
      BY <2>1, <1>2, <1>3, <1>6
    <2>2. CASE k # i /\ k # j
      <3>1. v[k] = h.nodes[k] /\ h.nodes[k].id # h.nodes[i].id /\ h.nodes[k].id # h.nodes[j].id
        BY <2>2, <1>2, <1>3
      <3>2. h.nodes[k].id \in DOMAIN h.index /\ h.index[h.nodes[k].id] = k
        BY <1>3
      <3>3. x[h.nodes[k].id] = h.index[h.nodes[k].id]
        BY <3>1, <3>2, <1>6
      <3> QED
        BY <3>1, <3>2, <3>3, <1>6
    <2> QED
      BY <2>1, <2>2
  <1>8. \A id \in DOMAIN x : x[id] \in 1..n /\ v[x[id]] = h.nodes[h.index[id]]
    <2> SUFFICES ASSUME NEW id \in DOMAIN x PROVE x[id] \in 1..n /\ v[x[id]] = h.nodes[h.index[id]]
      OBVIOUS
    <2>1. CASE id = h.nodes[i].id
      <3>1. x[id] = j /\ h.index[id] = i
        BY <2>1, <1>3, <1>6
      <3> QED
        BY <3>1, <1>2
    <2>2. CASE id = h.nodes[j].id
      <3>1. x[id] = i /\ h.index[id] = j
        BY <2>2, <1>3, <1>6
      <3> QED
        BY <3>1, <1>2
    <2>3. CASE id # h.nodes[i].id /\ id # h.nodes[j].id
      <3>1. x[id] = h.index[id] /\ h.index[id] # i /\ h.index[id] # j
        BY <2>3, <1>3, <1>6
      <3> QED
        BY <3>1, <1>2, <1>3, <1>6, SMTT(20)
    <2> QED
      BY <2>1, <2>2, <2>3
  <1>9. \A id \in DOMAIN x : v[x[id]].id = id
    BY <1>3, <1>6, <1>8
  <1>10. IsHeap(S, g)
    <2>1. g = [nodes |-> g.nodes, index |-> g.index]
      BY <1>4, <1>5
    <2>2. g.nodes \in Seq(S) /\ Len(g.nodes) = n
      BY <1>2, <1>5
    <2>3. g.index = [id \in DOMAIN g.index |-> g.index[id]]
      BY <1>5, <1>6
    <2>4. \A k \in 1..n : g.nodes[k].id \in DOMAIN g.index /\ g.index[g.nodes[k].id] = k
      BY <1>5, <1>7
    <2>5. \A id \in DOMAIN g.index : g.index[id] \in 1..n /\ g.nodes[g.index[id]].id = id
      BY <1>5, <1>8, <1>9
    <2> HIDE DEF n
    <2> QED
      BY <2>1, <2>2, <2>3, <2>4, <2>5 DEF IsHeap
  <1>11. Same(g, h)
    BY <1>2, <1>5, <1>6, <1>8 DEF Same, HeldBy
  <1>12. Swapped(Keys(h), Keys(g), i, j)
    BY <1>2, <1>5 DEF Swapped, Keys
  <1>13. g.nodes[j] = h.nodes[i] /\ \A k \in 1..n : k # i /\ k # j => g.nodes[k] = h.nodes[k]
    BY <1>2, <1>5
  <1> QED
    BY <1>10, <1>11, <1>12, <1>13 DEF g

-----------------------------------------------------------------------------
(* siftUp *)

\* The turns of the loop exist as the definition says.
\* g lists the turns of siftUp from s0 on; TurnsOfDown those of siftDown.
TurnsOfUp(g, s0, N) == g = [k \in 0..N |-> IF k = 0 THEN s0 ELSE Rise(g[k - 1])]

LEMMA TurnsUp ==
  ASSUME NEW s0, NEW N \in Nat
  PROVE  \E g : TurnsOfUp(g, s0, N)
  <1> DEFINE Is(g, n) == TurnsOfUp(g, s0, n)
  <1> USE DEF TurnsOfUp
  <1> DEFINE bad == {n \in Nat : ~\E g : Is(g, n)}
  <1>1. SUFFICES ASSUME bad # {} PROVE FALSE
    BY <1>1
  <1>2. PICK n \in bad : \A y \in bad : n <= y
    BY <1>1, LeastNumber
  <1>3. n # 0
    <2>1. Is([k \in 0..0 |-> s0], 0)
      OBVIOUS
    <2> QED
      BY <2>1
  <1>4. n - 1 \in Nat /\ n - 1 \notin bad
    BY <1>2, <1>3
  <1>5. PICK f : Is(f, n - 1)
    BY <1>4
  <1> DEFINE g == [k \in 0..n |-> IF k = n THEN Rise(f[n - 1]) ELSE f[k]]
  <1>6. Is(g, n)
    <2>1. DOMAIN f = 0..(n - 1) /\ f[0] = s0 /\ \A k \in 1..(n - 1) : f[k] = Rise(f[k - 1])
      BY <1>4, <1>5
    <2>2. g[0] = s0 /\ g[n] = Rise(f[n - 1]) /\ \A k \in 0..(n - 1) : g[k] = f[k]
      BY <1>3, <1>4, <2>1
    <2>3. ASSUME NEW k \in 0..n, k # 0 PROVE g[k] = Rise(g[k - 1])
      <3>1. k - 1 \in 0..(n - 1) /\ g[k - 1] = f[k - 1]
        BY <1>4, <2>2, <2>3
      <3>2. CASE k = n
        BY <2>2, <3>1, <3>2
      <3>3. CASE k # n
        <4>1. k \in 1..(n - 1) /\ k \in 0..(n - 1)
          BY <1>4, <2>3, <3>3
        <4> QED
          BY <2>1, <2>2, <3>1, <4>1
      <3> QED
        BY <3>2, <3>3
    <2>4. g = [k \in 0..n |-> g[k]]
      OBVIOUS
    <2> HIDE DEF g
    <2> QED
      BY <2>2, <2>3, <2>4
  <1> QED
    BY <1>6 DEF TurnsOfUp

\* Between two turns: the heap holds what it held, and only the node that rises may
\* be out of place, before its parent.
Rising(S, h, n, s) ==
  /\ s = [h |-> s.h, i |-> s.i]
  /\ IsHeap(S, s.h) /\ Same(s.h, h) /\ Kept(s.h, h, n)
  /\ s.i \in 1..n
  /\ Loose(Keys(s.h), s.i, n) /\ AboveChildren(Keys(s.h), s.i, n)

LEMMA RiseStep ==
  ASSUME NEW S, Keyed(S), NEW h, NEW n \in Nat, n <= Len(h.nodes), NEW s, Rising(S, h, n, s)
  PROVE  /\ Rising(S, h, n, Rise(s))
         /\ \/ Rise(s) = s /\ BelowParent(Keys(s.h), s.i, n)
            \/ Rise(s).i < s.i
  <1> DEFINE m == Len(s.h.nodes)
  <1> DEFINE K == Keys(s.h)
  <1> DEFINE j == s.i \div 2
  <1>1. /\ IsHeap(S, s.h) /\ Same(s.h, h) /\ Kept(s.h, h, n) /\ s.i \in 1..n
        /\ Loose(K, s.i, n) /\ AboveChildren(K, s.i, n)
    BY DEF Rising
  <1>2. m \in Nat /\ n \in 0..m /\ K \in [1..m -> Int] /\ \A i \in 1..m : K[i] = s.h.nodes[i].key
    BY <1>1, KeyTypes DEF Same
  <1>3. CASE s.i = 1
    <2>1. Rise(s) = s
      BY <1>3 DEF Rise
    <2>2. BelowParent(K, s.i, n)
      BY <1>3 DEF BelowParent, ChildOf
    <2> QED
      BY <2>1, <2>2
  <1>4. CASE s.i # 1
    <2>1. s.i \in Nat /\ s.i > 1
      BY <1>1, <1>4
    <2>2. j \in 1..(s.i - 1) /\ ChildOf(j, s.i)
      BY <2>1, ParentOf
    <2>3. j \in 1..n /\ j \in 1..m /\ s.i \in 1..m /\ K[j] \in Int /\ K[s.i] \in Int
      BY <1>1, <1>2, <2>2, SMTT(20)
    <2>4. CASE Before(s.h, j, s.i)
      <3>1. Rise(s) = s
        BY <2>4 DEF Rise
      <3>2. K[j] <= K[s.i]
        BY <1>2, <2>3, <2>4, SMTT(20) DEF Before
      <3>3. BelowParent(K, s.i, n)
        BY <1>1, <2>2, <3>2 DEF BelowParent, ChildOf
      <3> QED
        BY <3>1, <3>3
    <2>5. CASE ~Before(s.h, j, s.i)
      <3> DEFINE g == SwapNode(s.h, s.i, j)
      <3>1. Rise(s) = [h |-> g, i |-> j]
        BY <1>4, <2>5 DEF Rise
      <3>2. K[s.i] <= K[j]
        BY <1>2, <2>3, <2>5, SMTT(20) DEF Before
      <3>3. /\ IsHeap(S, g) /\ Same(g, s.h) /\ Swapped(K, Keys(g), s.i, j)
            /\ \A k \in 1..m : k # s.i /\ k # j => g.nodes[k] = s.h.nodes[k]
        BY <1>1, <2>3, SwapIs, SMTT(20)
      <3>4. Keys(g) \in [1..m -> Int]
        BY <3>3, KeyTypes DEF Same
      <3> HIDE DEF g, m, K, j
      <3>5. Loose(Keys(g), j, n) /\ AboveChildren(Keys(g), j, n)
        BY <1>1, <1>2, <2>2, <2>3, <3>2, <3>3, <3>4, RiseKeepsOrder
      <3>6. Same(g, h)
        BY <1>1, <3>3 DEF Same
      <3>7. Rise(s).h = g /\ Rise(s).i = j
        BY <3>1
      <3>8. Len(h.nodes) = m
        BY <1>1 DEF Same, m
      <3>9. Kept(g, h, n)
        BY <1>1, <1>2, <2>3, <3>3, <3>8 DEF Kept
      <3>10. Rising(S, h, n, Rise(s))
        BY <2>3, <3>1, <3>3, <3>5, <3>6, <3>7, <3>9 DEF Rising
      <3>11. j < s.i
        BY <1>1, <2>2
      <3> QED
        BY <3>7, <3>10, <3>11
    <2> QED
      BY <2>4, <2>5
  <1> QED
    BY <1>3, <1>4

\* siftUp puts in its place a node that may be before its parent.
LEMMA SiftUpIs ==
  ASSUME NEW S, Keyed(S), NEW h, IsHeap(S, h), NEW n \in Nat, n <= Len(h.nodes),
         NEW i \in 1..n, Loose(Keys(h), i, n), AboveChildren(Keys(h), i, n)
  PROVE  /\ IsHeap(S, SiftUp(h, i)) /\ Same(SiftUp(h, i), h) /\ Kept(SiftUp(h, i), h, n)
         /\ Ordered(Keys(SiftUp(h, i)), n)
  <1> DEFINE N == Len(h.nodes)
  <1> DEFINE s0 == [h |-> h, i |-> i]
  <1> DEFINE t == CHOOSE g : g = [k \in 0..N |-> IF k = 0 THEN s0 ELSE Rise(g[k - 1])]
  <1>1. N \in Nat
    BY DEF IsHeap
  <1>2. SiftUp(h, i) = t[N].h
    BY DEF SiftUp
  <1>3. t = [k \in 0..N |-> IF k = 0 THEN s0 ELSE Rise(t[k - 1])]
    <2> HIDE DEF N, s0
    <2>1. \E g : TurnsOfUp(g, s0, N)
      BY <1>1, TurnsUp
    <2> QED
      BY <2>1 DEF t, TurnsOfUp
  <1> HIDE DEF t
  <1>4. t[0] = s0 /\ \A k \in 1..N : t[k] = Rise(t[k - 1])
    <2> HIDE DEF s0, N
    <2>1. \A k \in 0..N : t[k] = IF k = 0 THEN s0 ELSE Rise(t[k - 1])
      BY <1>3
    <2>2. 0 \in 0..N /\ \A k \in 1..N : k \in 0..N /\ k # 0
      BY <1>1
    <2> QED
      BY <2>1, <2>2
  <1>5. Rising(S, h, n, s0)
    BY DEF Rising, Same, Kept
  <1> DEFINE Good(k) == Rising(S, h, n, t[k]) /\ (Rise(t[k]) = t[k] \/ t[k].i + k <= i)
  <1> DEFINE bad == {k \in 0..N : ~Good(k)}
  <1>6. bad = {}
    <2>1. SUFFICES ASSUME bad # {} PROVE FALSE
      BY <2>1
    <2>2. bad \in SUBSET Nat
      OBVIOUS
    <2>3. PICK k \in bad : \A y \in bad : k <= y
      BY <2>1, <2>2, LeastNumber
    <2>4. k # 0
      BY <1>4, <1>5
    <2>5. k \in 1..N /\ k - 1 \in 0..N /\ k - 1 \in Nat
      BY <1>1, <2>4
    <2>6. Good(k - 1)
      BY <2>3, <2>5
    <2>7. t[k] = Rise(t[k - 1])
      BY <1>4, <2>5
    <2>8. /\ Rising(S, h, n, Rise(t[k - 1]))
          /\ Rise(t[k - 1]) = t[k - 1] \/ Rise(t[k - 1]).i < t[k - 1].i
      BY <2>6, RiseStep
    <2>9. Rise(t[k]) = t[k] \/ t[k].i + k <= i
      <3>1. CASE Rise(t[k - 1]) = t[k - 1]
        BY <2>7, <3>1
      <3>2. CASE Rise(t[k - 1]) # t[k - 1]
        <4>1. t[k - 1].i + (k - 1) <= i /\ t[k].i < t[k - 1].i
          BY <2>6, <2>7, <2>8, <3>2
        <4>2. t[k - 1].i \in Nat /\ t[k].i \in Nat
          BY <2>6, <2>7, <2>8 DEF Rising
        <4> QED
          BY <2>5, <4>1, <4>2
      <3> QED
        BY <3>1, <3>2
    <2>10. Good(k)
      BY <2>7, <2>8, <2>9
    <2> QED
      BY <2>3, <2>10
  <1>7. Good(N)
    BY <1>1, <1>6
  <1>8. t[N].i \in 1..n
    BY <1>7 DEF Rising
  <1>9. Rise(t[N]) = t[N]
    BY <1>1, <1>7, <1>8
  <1>10. BelowParent(Keys(t[N].h), t[N].i, n)
    <2>1. \/ BelowParent(Keys(t[N].h), t[N].i, n)
          \/ Rise(t[N]).i < t[N].i
      BY <1>7, RiseStep
    <2> QED
      BY <1>8, <1>9, <2>1
  <1>11. Ordered(Keys(t[N].h), n)
    BY <1>7, <1>8, <1>10, SettledIsOrdered DEF Rising
  <1> QED
    BY <1>2, <1>7, <1>11 DEF Rising


-----------------------------------------------------------------------------
(* siftDown *)

TurnsOfDown(g, s0, N, m) == g = [k \in 0..N |-> IF k = 0 THEN s0 ELSE Sink(g[k - 1], m)]

LEMMA TurnsDown ==
  ASSUME NEW s0, NEW N \in Nat, NEW m
  PROVE  \E g : TurnsOfDown(g, s0, N, m)
  <1> DEFINE Is(g, n) == TurnsOfDown(g, s0, n, m)
  <1> USE DEF TurnsOfDown
  <1> DEFINE bad == {n \in Nat : ~\E g : Is(g, n)}
  <1>1. SUFFICES ASSUME bad # {} PROVE FALSE
    BY <1>1
  <1>2. PICK n \in bad : \A y \in bad : n <= y
    BY <1>1, LeastNumber
  <1>3. n # 0
    <2>1. Is([k \in 0..0 |-> s0], 0)
      OBVIOUS
    <2> QED
      BY <2>1
  <1>4. n - 1 \in Nat /\ n - 1 \notin bad
    BY <1>2, <1>3, SMTT(20)
  <1>5. PICK f : Is(f, n - 1)
    BY <1>4
  <1> DEFINE g == [k \in 0..n |-> IF k = n THEN Sink(f[n - 1], m) ELSE f[k]]
  <1>6. Is(g, n)
    <2>1. /\ DOMAIN f = 0..(n - 1) /\ f[0] = s0
          /\ \A k \in 1..(n - 1) : f[k] = Sink(f[k - 1], m)
      BY <1>4, <1>5
    <2>2. g[0] = s0 /\ g[n] = Sink(f[n - 1], m) /\ \A k \in 0..(n - 1) : g[k] = f[k]
      BY <1>3, <1>4, <2>1
    <2>3. ASSUME NEW k \in 0..n, k # 0 PROVE g[k] = Sink(g[k - 1], m)
      <3>1. k - 1 \in 0..(n - 1) /\ g[k - 1] = f[k - 1]
        BY <1>4, <2>2, <2>3
      <3>2. CASE k = n
        BY <2>2, <3>1, <3>2
      <3>3. CASE k # n
        <4>1. k \in 1..(n - 1) /\ k \in 0..(n - 1)
          BY <1>4, <2>3, <3>3
        <4> QED
          BY <2>1, <2>2, <3>1, <4>1
      <3> QED
        BY <3>2, <3>3
    <2>4. g = [k \in 0..n |-> g[k]]
      OBVIOUS
    <2> HIDE DEF g
    <2> QED
      BY <2>2, <2>3, <2>4
  <1> QED
    BY <1>6 DEF TurnsOfDown

\* Between two turns: only the node that sinks from i may be out of place, after a
\* child of its own.
Sinking(S, h, i, n, s) ==
  /\ s = [h |-> s.h, i |-> s.i]
  /\ IsHeap(S, s.h) /\ Same(s.h, h) /\ Kept(s.h, h, n)
  /\ s.i \in i..n /\ Loose(Keys(s.h), s.i, n)
  /\ s.i = i => s.h = h
  /\ s.i > i => BelowParent(Keys(s.h), s.i, n)

LEMMA LesserChildIs ==
  ASSUME NEW S, Keyed(S), NEW h, IsHeap(S, h), NEW n \in Nat, n <= Len(h.nodes),
         NEW i \in 1..n, 2 * i <= n
  PROVE  /\ LesserChild(h, i, n) \in (i + 1)..n /\ ChildOf(i, LesserChild(h, i, n))
         /\ \A b \in 1..n : ChildOf(i, b) => Keys(h)[LesserChild(h, i, n)] <= Keys(h)[b]
  <1> DEFINE K == Keys(h)
  <1> DEFINE j == LesserChild(h, i, n)
  <1> DEFINE m == Len(h.nodes)
  <1>1. m \in Nat /\ K \in [1..m -> Int] /\ \A x \in 1..m : K[x] = h.nodes[x].key
    BY KeyTypes
  <1>2. \A b \in 1..n : b \in 1..m /\ K[b] \in Int /\ K[b] = h.nodes[b].key
    BY <1>1
  <1>3. 2 * i \in 1..n /\ 2 * i \in (i + 1)..n
    OBVIOUS
  <1> HIDE DEF K, m
  <1>4. CASE 2 * i + 1 <= n /\ Before(h, 2 * i + 1, 2 * i)
    <2>1. j = 2 * i + 1 /\ 2 * i + 1 \in 1..n
      BY <1>4 DEF LesserChild
    <2>2. K[2 * i + 1] < K[2 * i]
      BY <1>2, <1>3, <1>4, <2>1 DEF Before
    <2>3. K[2 * i] \in Int /\ K[2 * i + 1] \in Int
      BY <1>2, <1>3, <2>1
    <2>4. \A b \in 1..n : ChildOf(i, b) => K[2 * i + 1] <= K[b]
      BY <2>2, <2>3 DEF ChildOf
    <2> HIDE DEF j
    <2> QED
      BY <1>3, <2>1, <2>4 DEF ChildOf, K, j
  <1>5. CASE ~(2 * i + 1 <= n /\ Before(h, 2 * i + 1, 2 * i))
    <2>1. j = 2 * i
      BY <1>5 DEF LesserChild
    <2>2. K[2 * i] \in Int
      BY <1>2, <1>3
    <2>3. ASSUME 2 * i + 1 \in 1..n PROVE K[2 * i] <= K[2 * i + 1]
      BY <1>2, <1>3, <1>5, <2>3 DEF Before
    <2>4. \A b \in 1..n : ChildOf(i, b) => K[2 * i] <= K[b]
      BY <2>2, <2>3 DEF ChildOf
    <2> HIDE DEF j
    <2> QED
      BY <1>3, <2>1, <2>4 DEF ChildOf, K, j
  <1> QED
    BY <1>4, <1>5

LEMMA SinkStep ==
  ASSUME NEW S, Keyed(S), NEW h, NEW n \in Nat, n <= Len(h.nodes), NEW i \in 1..n,
         NEW s, Sinking(S, h, i, n, s)
  PROVE  /\ Sinking(S, h, i, n, Sink(s, n))
         /\ \/ Sink(s, n) = s /\ AboveChildren(Keys(s.h), s.i, n)
            \/ Sink(s, n).i > s.i
  <1> DEFINE m == Len(s.h.nodes)
  <1> DEFINE K == Keys(s.h)
  <1> DEFINE j == LesserChild(s.h, s.i, n)
  <1>1. /\ IsHeap(S, s.h) /\ Same(s.h, h) /\ Kept(s.h, h, n) /\ s.i \in i..n
        /\ Loose(K, s.i, n)
    BY DEF Sinking
  <1>2. m = Len(h.nodes) /\ s.i \in 1..n
    BY <1>1 DEF Same
  <1>3. m \in Nat /\ n \in 0..m /\ K \in [1..m -> Int] /\ \A x \in 1..m : K[x] = s.h.nodes[x].key
    BY <1>1, <1>2, KeyTypes
  <1>4. CASE 2 * s.i > n
    <2>1. Sink(s, n) = s
      BY <1>4 DEF Sink
    <2>2. AboveChildren(K, s.i, n)
      BY <1>2, <1>4 DEF AboveChildren, ChildOf
    <2> QED
      BY <2>1, <2>2
  <1>5. CASE 2 * s.i <= n
    <2>1. j \in (s.i + 1)..n /\ ChildOf(s.i, j) /\ \A b \in 1..n : ChildOf(s.i, b) => K[j] <= K[b]
      BY <1>1, <1>2, <1>5, LesserChildIs
    <2>2. j \in 1..n /\ j \in 1..m /\ s.i \in 1..m /\ K[j] \in Int /\ K[s.i] \in Int
      BY <1>2, <1>3, <2>1, SMTT(20)
    <2>3. ~(2 * s.i > n)
      BY <1>2, <1>5
    <2>4. CASE Before(s.h, s.i, j)
      <3>1. Sink(s, n) = s
        BY <2>4 DEF Sink
      <3>2. K[s.i] < K[j]
        BY <1>3, <2>2, <2>4 DEF Before
      <3>3. \A b \in 1..n : K[b] \in Int
        BY <1>3
      <3> HIDE DEF K, j
      <3>4. AboveChildren(K, s.i, n)
        BY <2>1, <2>2, <3>2, <3>3 DEF AboveChildren
      <3> QED
        BY <3>1, <3>4 DEF K
    <2>5. CASE ~Before(s.h, s.i, j)
      <3> DEFINE g == SwapNode(s.h, s.i, j)
      <3>1. Sink(s, n) = [h |-> g, i |-> j]
        BY <2>3, <2>5 DEF Sink
      <3>2. K[j] <= K[s.i]
        BY <1>3, <2>2, <2>5, SMTT(20) DEF Before
      <3>3. /\ IsHeap(S, g) /\ Same(g, s.h) /\ Swapped(K, Keys(g), s.i, j)
            /\ \A k \in 1..m : k # s.i /\ k # j => g.nodes[k] = s.h.nodes[k]
        BY <1>1, <2>2, SwapIs
      <3>4. Keys(g) \in [1..m -> Int]
        BY <3>3, KeyTypes DEF Same
      <3> HIDE DEF g, m, K, j
      <3>5. Loose(Keys(g), j, n) /\ BelowParent(Keys(g), j, n)
        BY <1>1, <1>2, <1>3, <2>1, <2>2, <3>2, <3>3, <3>4, SinkKeepsOrder
      <3>6. Same(g, h)
        BY <1>1, <3>3 DEF Same
      <3>7. Sink(s, n).h = g /\ Sink(s, n).i = j
        BY <3>1
      <3>8. Kept(g, h, n)
        BY <1>1, <1>2, <1>3, <2>2, <3>3 DEF Kept
      <3>9. j > s.i /\ j > i /\ j \in i..n
        BY <1>1, <2>1
      <3>10. Sinking(S, h, i, n, Sink(s, n))
        BY <3>1, <3>3, <3>5, <3>6, <3>7, <3>8, <3>9 DEF Sinking
      <3> QED
        BY <3>7, <3>9, <3>10
    <2> QED
      BY <2>4, <2>5
  <1>6. 2 * s.i > n \/ 2 * s.i <= n
    BY <1>2
  <1> QED
    BY <1>4, <1>5, <1>6

\* siftDown ends where the node is not after a child of its own.
LEMMA SiftDownIs ==
  ASSUME NEW S, Keyed(S), NEW h, IsHeap(S, h), NEW n \in Nat, n <= Len(h.nodes),
         NEW i \in 1..n, Loose(Keys(h), i, n)
  PROVE  LET d == SiftDown(h, i, n)
         IN  Sinking(S, h, i, n, d) /\ AboveChildren(Keys(d.h), d.i, n)
  <1> DEFINE N == Len(h.nodes)
  <1> DEFINE s0 == [h |-> h, i |-> i]
  <1> DEFINE t == CHOOSE g : g = [k \in 0..N |-> IF k = 0 THEN s0 ELSE Sink(g[k - 1], n)]
  <1>1. N \in Nat
    BY DEF IsHeap
  <1>2. SiftDown(h, i, n) = t[N]
    BY DEF SiftDown
  <1>3. t = [k \in 0..N |-> IF k = 0 THEN s0 ELSE Sink(t[k - 1], n)]
    <2> HIDE DEF N, s0
    <2>1. \E g : TurnsOfDown(g, s0, N, n)
      BY <1>1, TurnsDown
    <2> QED
      BY <2>1 DEF t, TurnsOfDown
  <1> HIDE DEF t
  <1>4. t[0] = s0 /\ \A k \in 1..N : t[k] = Sink(t[k - 1], n)
    <2> HIDE DEF s0, N
    <2>1. \A k \in 0..N : t[k] = IF k = 0 THEN s0 ELSE Sink(t[k - 1], n)
      BY <1>3
    <2>2. 0 \in 0..N /\ \A k \in 1..N : k \in 0..N /\ k # 0
      BY <1>1
    <2> QED
      BY <2>1, <2>2
  <1>5. Sinking(S, h, i, n, s0)
    BY DEF Sinking, Same, Kept
  <1> DEFINE Good(k) == Sinking(S, h, i, n, t[k]) /\ (Sink(t[k], n) = t[k] \/ t[k].i >= i + k)
  <1> DEFINE bad == {k \in 0..N : ~Good(k)}
  <1>6. bad = {}
    <2>1. SUFFICES ASSUME bad # {} PROVE FALSE
      BY <2>1
    <2>2. bad \in SUBSET Nat
      OBVIOUS
    <2>3. PICK k \in bad : \A y \in bad : k <= y
      BY <2>1, <2>2, LeastNumber
    <2>4. k # 0
      BY <1>4, <1>5
    <2>5. k \in 1..N /\ k - 1 \in 0..N /\ k - 1 \in Nat
      BY <1>1, <2>4
    <2>6. Good(k - 1)
      BY <2>3, <2>5
    <2>7. t[k] = Sink(t[k - 1], n)
      BY <1>4, <2>5
    <2>8. /\ Sinking(S, h, i, n, Sink(t[k - 1], n))
          /\ Sink(t[k - 1], n) = t[k - 1] \/ Sink(t[k - 1], n).i > t[k - 1].i
      BY <2>6, SinkStep
    <2>9. Sink(t[k], n) = t[k] \/ t[k].i >= i + k
      <3>1. CASE Sink(t[k - 1], n) = t[k - 1]
        BY <2>7, <3>1
      <3>2. CASE Sink(t[k - 1], n) # t[k - 1]
        <4>1. t[k - 1].i >= i + (k - 1) /\ t[k].i > t[k - 1].i
          BY <2>6, <2>7, <2>8, <3>2
        <4>2. t[k - 1].i \in Nat /\ t[k].i \in Nat
          BY <2>6, <2>7, <2>8 DEF Sinking
        <4> QED
          BY <2>5, <4>1, <4>2
      <3> QED
        BY <3>1, <3>2
    <2>10. Good(k)
      BY <2>7, <2>8, <2>9
    <2> QED
      BY <2>3, <2>10
  <1>7. Good(N)
    BY <1>1, <1>6
  <1>8. t[N].i \in i..n
    BY <1>7 DEF Sinking
  <1>9. Sink(t[N], n) = t[N]
    BY <1>1, <1>7, <1>8
  <1>10. AboveChildren(Keys(t[N].h), t[N].i, n)
    <2>1. \/ AboveChildren(Keys(t[N].h), t[N].i, n)
          \/ Sink(t[N], n).i > t[N].i
      BY <1>7, SinkStep
    <2> QED
      BY <1>8, <1>9, <2>1
  <1> QED
    BY <1>2, <1>7, <1>10

-----------------------------------------------------------------------------
(* The operations *)

\* A node that is out of place either way is put in its place.
LEMMA SettleIs ==
  ASSUME NEW S, Keyed(S), NEW h, IsHeap(S, h), NEW n \in Nat, n <= Len(h.nodes),
         NEW i \in 1..n, Loose(Keys(h), i, n)
  PROVE  /\ IsHeap(S, Settle(h, i, n)) /\ Same(Settle(h, i, n), h) /\ Kept(Settle(h, i, n), h, n)
         /\ Ordered(Keys(Settle(h, i, n)), n)
  <1> DEFINE d == SiftDown(h, i, n)
  <1>1. Sinking(S, h, i, n, d) /\ AboveChildren(Keys(d.h), d.i, n)
    BY SiftDownIs
  <1>2. Settle(h, i, n) = IF d.i > i THEN d.h ELSE SiftUp(d.h, i)
    BY DEF Settle
  <1> HIDE DEF d
  <1>3. d.i \in i..n /\ d.i \in 1..n
    BY <1>1 DEF Sinking
  <1>4. CASE d.i > i
    <2>1. BelowParent(Keys(d.h), d.i, n) /\ Loose(Keys(d.h), d.i, n)
      BY <1>1, <1>4 DEF Sinking
    <2>2. Ordered(Keys(d.h), n)
      BY <1>1, <1>3, <2>1, SettledIsOrdered
    <2> QED
      BY <1>1, <1>2, <1>4, <2>2 DEF Sinking
  <1>5. CASE ~(d.i > i)
    <2>1. d.i = i
      BY <1>3, <1>5
    <2>2. d.h = h /\ AboveChildren(Keys(h), i, n)
      BY <1>1, <2>1 DEF Sinking
    <2> QED
      BY <1>2, <1>5, <2>2, SiftUpIs
  <1> QED
    BY <1>4, <1>5

Heap(S, h) == IsHeap(S, h) /\ Ordered(Keys(h), Len(h.nodes))

\* A node with another key, or another node, at i.
Changed(h, i, node) == [nodes |-> [h.nodes EXCEPT ![i] = node], index |-> h.index]

LEMMA NodesOnly ==
  ASSUME NEW h, h = [nodes |-> h.nodes, index |-> h.index], NEW v
  PROVE  [h EXCEPT !.nodes = v] = [nodes |-> v, index |-> h.index]
  OBVIOUS

LEMMA ChangedIs ==
  ASSUME NEW S, Keyed(S), NEW h, Heap(S, h), NEW id \in DOMAIN h.index,
         NEW node \in S, node.id = id
  PROVE  LET i == h.index[id]
             g == Changed(h, i, node)
         IN  /\ IsHeap(S, g) /\ i \in 1..Len(h.nodes) /\ Len(g.nodes) = Len(h.nodes)
             /\ DOMAIN g.index = DOMAIN h.index /\ HeldBy(g) = [HeldBy(h) EXCEPT ![id] = node]
             /\ Loose(Keys(g), i, Len(h.nodes))
             /\ h.nodes[i].key <= node.key => BelowParent(Keys(g), i, Len(h.nodes))
  <1> DEFINE n == Len(h.nodes)
  <1> DEFINE i == h.index[id]
  <1> DEFINE v == [h.nodes EXCEPT ![i] = node]
  <1> DEFINE g == Changed(h, i, node)
  <1>1. /\ h.nodes \in Seq(S) /\ n \in Nat /\ i \in 1..n /\ h.nodes[i].id = id
        /\ h.index = [x \in DOMAIN h.index |-> h.index[x]]
        /\ \A k \in 1..n : h.nodes[k].id \in DOMAIN h.index /\ h.index[h.nodes[k].id] = k
        /\ \A x \in DOMAIN h.index : h.index[x] \in 1..n /\ h.nodes[h.index[x]].id = x
    BY DEF Heap, IsHeap
  <1>2. v \in Seq(S) /\ Len(v) = n /\ v[i] = node /\ \A k \in 1..n : k # i => v[k] = h.nodes[k]
    BY <1>1
  <1>3. g = [nodes |-> v, index |-> h.index] /\ g.nodes = v /\ g.index = h.index
    BY DEF Changed
  <1> HIDE DEF v, g, i
  <1>4. IsHeap(S, g)
    <2>1. g = [nodes |-> g.nodes, index |-> g.index]
      BY <1>3
    <2>2. g.nodes \in Seq(S) /\ Len(g.nodes) = n
      BY <1>2, <1>3
    <2>3. g.index = [x \in DOMAIN g.index |-> g.index[x]]
      BY <1>1, <1>3
    <2>4. \A k \in 1..n : v[k].id = h.nodes[k].id
      BY <1>1, <1>2
    <2>5. \A k \in 1..n : g.nodes[k].id \in DOMAIN g.index /\ g.index[g.nodes[k].id] = k
      BY <1>1, <1>3, <2>4
    <2>6. \A x \in DOMAIN g.index : g.index[x] \in 1..n /\ g.nodes[g.index[x]].id = x
      BY <1>1, <1>3, <2>4
    <2> HIDE DEF n
    <2> QED
      BY <2>1, <2>2, <2>3, <2>5, <2>6 DEF IsHeap
  <1>5. HeldBy(g) = [HeldBy(h) EXCEPT ![id] = node]
    <2>1. \A x \in DOMAIN h.index : v[h.index[x]] = IF x = id THEN node ELSE h.nodes[h.index[x]]
      BY <1>1, <1>2 DEF i
    <2> QED
      BY <1>3, <2>1 DEF HeldBy
  <1>6. \A k \in 1..n : k # i => Keys(g)[k] = Keys(h)[k]
    BY <1>2, <1>3 DEF Keys
  <1>7. Keys(h) \in [1..n -> Int] /\ Keys(g) \in [1..n -> Int] /\ Keys(g)[i] = node.key
    <2>1. IsHeap(S, h) /\ Len(g.nodes) = n /\ n \in Nat
      BY <1>1, <1>2, <1>3 DEF Heap
    <2>2. Keys(h) \in [1..n -> Int]
      BY <2>1, KeyTypes
    <2>3. Keys(g) \in [1..n -> Int] /\ Keys(g)[i] = g.nodes[i].key
      BY <1>1, <1>4, <2>1, KeyTypes, SMTT(20)
    <2> QED
      BY <1>2, <1>3, <2>2, <2>3
  <1>8. Ordered(Keys(h), n) /\ Keys(h)[i] = h.nodes[i].key
    BY <1>1, KeyTypes DEF Heap
  <1> DEFINE K == Keys(h)
  <1> DEFINE L == Keys(g)
  <1> HIDE DEF n, K, L
  <1>9. Loose(L, i, n)
    <2>1. ASSUME NEW a \in 1..n, NEW b \in 1..n, ChildOf(a, b), a # i, b # i PROVE L[a] <= L[b]
      BY <1>6, <1>8, <2>1 DEF Ordered, K, L
    <2>2. ASSUME NEW a \in 1..n, NEW b \in 1..n, ChildOf(a, i), ChildOf(i, b) PROVE L[a] <= L[b]
      <3>1. a # i /\ b # i
        BY <1>1, <2>2 DEF ChildOf
      <3>2. K[a] <= K[i] /\ K[i] <= K[b] /\ L[a] = K[a] /\ L[b] = K[b]
        BY <1>1, <1>6, <1>8, <2>2, <3>1 DEF Ordered, K, L
      <3>3. K[a] \in Int /\ K[b] \in Int /\ K[i] \in Int
        BY <1>1, <1>7 DEF K
      <3> QED
        BY <3>2, <3>3
    <2> QED
      BY <2>1, <2>2 DEF Loose
  <1>10. ASSUME h.nodes[i].key <= node.key PROVE BelowParent(L, i, n)
    <2> SUFFICES ASSUME NEW a \in 1..n, ChildOf(a, i) PROVE L[a] <= L[i]
      BY DEF BelowParent
    <2>1. a # i
      BY <1>1, SMTT(20) DEF ChildOf
    <2>2. K[a] <= K[i] /\ L[a] = K[a] /\ K[i] <= L[i]
      BY <1>1, <1>6, <1>7, <1>8, <1>10, <2>1 DEF Ordered, K, L
    <2>3. K[a] \in Int /\ K[i] \in Int /\ L[i] \in Int
      BY <1>1, <1>7 DEF K, L
    <2> QED
      BY <2>2, <2>3
  <1> QED
    BY <1>1, <1>2, <1>3, <1>4, <1>5, <1>9, <1>10 DEF g, i, n, L

\* adjust gives one node another key.
LEMMA AdjustIs ==
  ASSUME NEW S, Keyed(S), NEW h, Heap(S, h), NEW id \in DOMAIN h.index, NEW key,
         [h.nodes[h.index[id]] EXCEPT !.key = key] \in S,
         [h.nodes[h.index[id]] EXCEPT !.key = key].id = id
  PROVE  LET g == AdjustNode(h, id, key)
         IN  /\ Heap(S, g) /\ DOMAIN g.index = DOMAIN h.index
             /\ HeldBy(g) = [HeldBy(h) EXCEPT ![id] = [h.nodes[h.index[id]] EXCEPT !.key = key]]
  <1> DEFINE i == h.index[id]
  <1> DEFINE n == Len(h.nodes)
  <1> DEFINE node == [h.nodes[i] EXCEPT !.key = key]
  <1> DEFINE g == Changed(h, i, node)
  <1>1. h = [nodes |-> h.nodes, index |-> h.index] /\ h.nodes \in Seq(S)
    BY DEF Heap, IsHeap
  <1>2. [h EXCEPT !.nodes[i].key = key] = g
    <2>1. h = [nodes |-> h.nodes, index |-> h.index]
      BY <1>1
    <2>2. \A v : [h EXCEPT !.nodes = v] = [nodes |-> v, index |-> h.index]
      BY <2>1, NodesOnly
    <2> HIDE DEF i
    <2> QED
      BY ONLY <2>2 DEF Changed, node, g
  <1>3. AdjustNode(h, id, key) = Settle(g, i, n)
    BY <1>2 DEF AdjustNode
  <1>4. /\ IsHeap(S, g) /\ i \in 1..n /\ Len(g.nodes) = n /\ DOMAIN g.index = DOMAIN h.index
        /\ HeldBy(g) = [HeldBy(h) EXCEPT ![id] = node] /\ Loose(Keys(g), i, n)
    <2>1. node \in S /\ node.id = id
      OBVIOUS
    <2> HIDE DEF node
    <2> QED
      BY <2>1, ChangedIs
  <1>5. n \in Nat
    BY <1>1
  <1> HIDE DEF g
  <1>6. /\ IsHeap(S, Settle(g, i, n)) /\ Same(Settle(g, i, n), g)
        /\ Ordered(Keys(Settle(g, i, n)), n)
    BY <1>4, <1>5, SettleIs
  <1> QED
    BY <1>3, <1>4, <1>6 DEF Heap, Same

\* g is h with the node, whether or not its identity was known.
Added(S, h, node, g) ==
  /\ Heap(S, g) /\ DOMAIN g.index = DOMAIN h.index \cup {node.id}
  /\ HeldBy(g) = [id \in DOMAIN h.index \cup {node.id} |->
                  IF id = node.id THEN node ELSE HeldBy(h)[id]]

\* g is h with the node in place of the one of that identity.
Replaced(S, h, id, node, g) ==
  /\ Heap(S, g) /\ DOMAIN g.index = DOMAIN h.index
  /\ HeldBy(g) = [HeldBy(h) EXCEPT ![id] = node]

\* add overwrites the node of a known identity, and puts in one of a new identity.
LEMMA AddIs ==
  ASSUME NEW S, Keyed(S), NEW h, Heap(S, h), NEW node \in S
  PROVE  Added(S, h, node, AddNode(h, node))
  <1> SUFFICES
        LET g == AddNode(h, node)
        IN  /\ Heap(S, g) /\ DOMAIN g.index = DOMAIN h.index \cup {node.id}
            /\ HeldBy(g) = [id \in DOMAIN h.index \cup {node.id} |->
                            IF id = node.id THEN node ELSE HeldBy(h)[id]]
    BY DEF Added
  <1> DEFINE n == Len(h.nodes)
  <1>1. /\ h = [nodes |-> h.nodes, index |-> h.index] /\ h.nodes \in Seq(S) /\ n \in Nat
        /\ \A k \in 1..n : h.nodes[k].id \in DOMAIN h.index /\ h.index[h.nodes[k].id] = k
        /\ \A id \in DOMAIN h.index : h.index[id] \in 1..n /\ h.nodes[h.index[id]].id = id
    BY DEF Heap, IsHeap
  <1>2. CASE node.id \in DOMAIN h.index
    <2> DEFINE i == h.index[node.id]
    <2> DEFINE g == Changed(h, i, node)
    <2>1. [h EXCEPT !.nodes[i] = node] = g
      <3>1. h = [nodes |-> h.nodes, index |-> h.index]
        BY <1>1
      <3>2. \A w : [h EXCEPT !.nodes = w] = [nodes |-> w, index |-> h.index]
        BY <3>1, NodesOnly
      <3> QED
        BY ONLY <3>2 DEF Changed
    <2>2. AddNode(h, node) = Settle(g, i, n)
      BY <1>2, <2>1 DEF AddNode
    <2>3. /\ IsHeap(S, g) /\ i \in 1..n /\ Len(g.nodes) = n /\ DOMAIN g.index = DOMAIN h.index
          /\ HeldBy(g) = [HeldBy(h) EXCEPT ![node.id] = node] /\ Loose(Keys(g), i, n)
      BY <1>2, ChangedIs
    <2> HIDE DEF g
    <2>4. /\ IsHeap(S, Settle(g, i, n)) /\ Same(Settle(g, i, n), g)
          /\ Ordered(Keys(Settle(g, i, n)), n)
      BY <1>1, <2>3, SettleIs
    <2>5. DOMAIN h.index \cup {node.id} = DOMAIN h.index
      BY <1>2
    <2>6. HeldBy(g) = [id \in DOMAIN h.index |-> IF id = node.id THEN node ELSE HeldBy(h)[id]]
      BY <1>2, <2>3 DEF HeldBy
    <2> QED
      BY <2>2, <2>3, <2>4, <2>5, <2>6 DEF Heap, Same
  <1>3. CASE node.id \notin DOMAIN h.index
    <2> DEFINE D == DOMAIN h.index \cup {node.id}
    <2> DEFINE v == Append(h.nodes, node)
    <2> DEFINE x == [id \in D |-> IF id = node.id THEN n + 1 ELSE h.index[id]]
    <2> DEFINE g == [nodes |-> v, index |-> x]
    <2>1. AddNode(h, node) = SiftUp(g, n + 1)
      BY <1>3 DEF AddNode
    <2>2. v \in Seq(S) /\ Len(v) = n + 1 /\ v[n + 1] = node /\ \A k \in 1..n : v[k] = h.nodes[k]
      BY <1>1
    <2>3. g.nodes = v /\ g.index = x /\ DOMAIN x = D
      OBVIOUS
    <2>4. /\ x[node.id] = n + 1
          /\ \A id \in DOMAIN h.index : id # node.id /\ x[id] = h.index[id]
      BY <1>3
    <2> HIDE DEF v, x
    <2>5. IsHeap(S, g)
      <3>1. x = [id \in D |-> x[id]]
        BY DEF x
      <3>2. ASSUME NEW k \in 1..(n + 1) PROVE v[k].id \in D /\ x[v[k].id] = k
        <4>1. CASE k = n + 1
          BY <2>2, <2>4, <4>1
        <4>2. CASE k # n + 1
          <5>1. k \in 1..n
            BY <1>1, <4>2
          <5> QED
            BY <1>1, <2>2, <2>4, <5>1
        <4> QED
          BY <4>1, <4>2
      <3>3. ASSUME NEW id \in D PROVE x[id] \in 1..(n + 1) /\ v[x[id]].id = id
        <4>1. CASE id = node.id
          BY <1>1, <2>2, <2>4, <4>1
        <4>2. CASE id # node.id
          <5>1. x[id] = h.index[id] /\ h.index[id] \in 1..n /\ h.nodes[h.index[id]].id = id
            BY <1>1, <2>4, <4>2
          <5> QED
            BY <1>1, <2>2, <5>1
        <4> QED
          BY <4>1, <4>2
      <3>4. g.nodes \in Seq(S) /\ Len(g.nodes) = n + 1 /\ DOMAIN g.index = D
        BY <2>2, <2>3
      <3> HIDE DEF n
      <3> QED
        BY <2>3, <3>1, <3>2, <3>3, <3>4 DEF IsHeap
    <2>6. HeldBy(g) = [id \in D |-> IF id = node.id THEN node ELSE HeldBy(h)[id]]
      <3>1. ASSUME NEW id \in D PROVE v[x[id]] = IF id = node.id THEN node ELSE HeldBy(h)[id]
        <4>1. CASE id = node.id
          BY <2>2, <2>4, <4>1
        <4>2. CASE id # node.id
          <5>1. id \in DOMAIN h.index /\ x[id] = h.index[id] /\ h.index[id] \in 1..n
            BY <1>1, <2>4, <4>2
          <5> QED
            BY <2>2, <4>2, <5>1 DEF HeldBy
        <4> QED
          BY <4>1, <4>2
      <3> QED
        BY <2>3, <3>1 DEF HeldBy
    <2>7. \A k \in 1..n : Keys(g)[k] = Keys(h)[k]
      BY <1>1, <2>2, <2>3 DEF Keys
    <2>8. Ordered(Keys(h), n) /\ n + 1 \in Nat /\ n + 1 \in 1..(n + 1)
      BY <1>1 DEF Heap
    <2> DEFINE K == Keys(h)
    <2> DEFINE L == Keys(g)
    <2> HIDE DEF g, D, n, K, L
    <2>9. Loose(L, n + 1, n + 1) /\ AboveChildren(L, n + 1, n + 1)
      <3>1. ASSUME NEW a \in 1..(n + 1), NEW b \in 1..(n + 1), ChildOf(a, b), a # n + 1, b # n + 1
            PROVE  L[a] <= L[b]
        <4>1. a \in 1..n /\ b \in 1..n
          BY <1>1, <3>1
        <4> QED
          BY <2>7, <2>8, <3>1, <4>1 DEF Ordered, K, L
      <3>2. \A b \in 1..(n + 1) : ~ChildOf(n + 1, b)
        BY <1>1 DEF ChildOf
      <3> QED
        BY <3>1, <3>2 DEF Loose, AboveChildren
    <2>10. Len(g.nodes) = n + 1 /\ DOMAIN g.index = D
      BY <2>2, <2>3 DEF g
    <2>11. /\ IsHeap(S, SiftUp(g, n + 1)) /\ Same(SiftUp(g, n + 1), g)
           /\ Ordered(Keys(SiftUp(g, n + 1)), n + 1)
      BY <2>5, <2>8, <2>9, <2>10, SiftUpIs DEF L
    <2> QED
      BY <2>1, <2>6, <2>10, <2>11 DEF Heap, Same, D
  <1> QED
    BY <1>2, <1>3

\* Without the node at the last place.
LEMMA DropLastIs ==
  ASSUME NEW S, Keyed(S), NEW h, IsHeap(S, h), Len(h.nodes) # 0,
         Ordered(Keys(h), Len(h.nodes) - 1), NEW id, h.nodes[Len(h.nodes)].id = id
  PROVE  /\ Heap(S, DropLast(h)) /\ DOMAIN DropLast(h).index = DOMAIN h.index \ {id}
         /\ HeldBy(DropLast(h)) = [x \in DOMAIN h.index \ {id} |-> HeldBy(h)[x]]
  <1> DEFINE n == Len(h.nodes)
  <1> DEFINE D == DOMAIN h.index \ {id}
  <1> DEFINE v == SubSeq(h.nodes, 1, n - 1)
  <1> DEFINE x == [y \in D |-> h.index[y]]
  <1> DEFINE g == DropLast(h)
  <1>1. /\ h.nodes \in Seq(S) /\ n \in Nat
        /\ \A k \in 1..n : h.nodes[k].id \in DOMAIN h.index /\ h.index[h.nodes[k].id] = k
        /\ \A y \in DOMAIN h.index : h.index[y] \in 1..n /\ h.nodes[h.index[y]].id = y
    BY DEF IsHeap
  <1>2. n \in 1..n /\ n - 1 \in Nat
    BY <1>1
  <1>3. v \in Seq(S) /\ Len(v) = n - 1 /\ \A k \in 1..(n - 1) : v[k] = h.nodes[k]
    BY <1>1, <1>2
  <1>4. g = [nodes |-> v, index |-> x] /\ g.nodes = v /\ g.index = x
    BY DEF DropLast, Front, Last
  <1>5. DOMAIN x = D /\ \A y \in D : x[y] = h.index[y]
    OBVIOUS
  <1>6. \A y \in D : x[y] \in 1..(n - 1)
    <2> SUFFICES ASSUME NEW y \in D PROVE x[y] \in 1..(n - 1)
      OBVIOUS
    <2>1. h.index[y] \in 1..n /\ h.nodes[h.index[y]].id = y /\ y # h.nodes[n].id
      BY <1>1
    <2>2. h.index[y] # n
      BY <2>1
    <2> QED
      BY <1>1, <1>5, <2>1, <2>2
  <1>7. \A k \in 1..(n - 1) : v[k].id \in D /\ x[v[k].id] = k
    <2> SUFFICES ASSUME NEW k \in 1..(n - 1) PROVE v[k].id \in D /\ x[v[k].id] = k
      OBVIOUS
    <2>1. k \in 1..n /\ k # n
      BY <1>1
    <2>2. h.nodes[k].id \in DOMAIN h.index /\ h.index[h.nodes[k].id] = k /\ h.index[id] = n
      BY <1>1, <1>2, <2>1
    <2>3. h.nodes[k].id # id
      BY <2>1, <2>2
    <2> QED
      BY <1>3, <1>5, <2>2, <2>3
  <1> HIDE DEF v, x, g
  <1>8. IsHeap(S, g)
    <2>1. g = [nodes |-> g.nodes, index |-> g.index]
      BY <1>4
    <2>2. g.nodes \in Seq(S) /\ Len(g.nodes) = n - 1
      BY <1>3, <1>4
    <2>3. g.index = [y \in DOMAIN g.index |-> g.index[y]]
      BY <1>4, <1>5 DEF x
    <2>4. \A k \in 1..(n - 1) : g.nodes[k].id \in DOMAIN g.index /\ g.index[g.nodes[k].id] = k
      BY <1>4, <1>5, <1>7
    <2>5. \A y \in DOMAIN g.index : g.index[y] \in 1..(n - 1) /\ g.nodes[g.index[y]].id = y
      <3>1. \A y \in D : x[y] = h.index[y] /\ h.nodes[h.index[y]].id = y
        BY <1>1, <1>5
      <3>2. \A y \in D : v[x[y]].id = y
        BY <1>3, <1>6, <3>1, SMTT(20)
      <3> HIDE DEF D, n
      <3> QED
        BY <1>4, <1>5, <1>6, <3>2
    <2> HIDE DEF n
    <2> QED
      BY <2>1, <2>2, <2>3, <2>4, <2>5 DEF IsHeap
  <1>9. HeldBy(g) = [y \in D |-> HeldBy(h)[y]]
    <2>1. \A y \in D : v[x[y]] = h.nodes[h.index[y]]
      BY <1>3, <1>5, <1>6
    <2> QED
      BY <1>4, <1>5, <2>1 DEF HeldBy
  <1>10. Ordered(Keys(g), n - 1)
    <2>1. \A k \in 1..(n - 1) : Keys(g)[k] = Keys(h)[k]
      BY <1>1, <1>3, <1>4 DEF Keys
    <2>2. Ordered(Keys(h), n - 1)
      OBVIOUS
    <2> HIDE DEF n
    <2> QED
      BY <2>1, <2>2 DEF Ordered
  <1> QED
    BY <1>3, <1>4, <1>5, <1>8, <1>9, <1>10 DEF Heap, g

\* A heap among fewer places, in which one node is another.
LEMMA OneChangedIsLoose ==
  ASSUME NEW m \in Nat, NEW n \in 0..m, NEW K \in [1..m -> Int], NEW L, NEW i \in 1..n,
         Ordered(K, m), \A k \in 1..n : k # i => L[k] = K[k]
  PROVE  Loose(L, i, n)
  <1>1. ASSUME NEW a \in 1..n, NEW b \in 1..n, ChildOf(a, b), a # i, b # i PROVE L[a] <= L[b]
    <2>1. a \in 1..m /\ b \in 1..m
      OBVIOUS
    <2> QED
      BY <1>1, <2>1 DEF Ordered
  <1>2. ASSUME NEW a \in 1..n, NEW b \in 1..n, ChildOf(a, i), ChildOf(i, b) PROVE L[a] <= L[b]
    <2>1. a # i /\ b # i /\ a \in 1..m /\ b \in 1..m /\ i \in 1..m
      BY <1>2 DEF ChildOf
    <2>2. K[a] <= K[i] /\ K[i] <= K[b] /\ L[a] = K[a] /\ L[b] = K[b]
      BY <1>2, <2>1 DEF Ordered
    <2>3. K[a] \in Int /\ K[b] \in Int /\ K[i] \in Int
      BY <2>1
    <2> QED
      BY <2>2, <2>3
  <1> QED
    BY <1>1, <1>2 DEF Loose

\* pop takes out the node of an identity and nothing else.
LEMMA PopIs ==
  ASSUME NEW S, Keyed(S), NEW h, Heap(S, h), NEW id
  PROVE  LET g == PopNode(h, id)
         IN  /\ Heap(S, g) /\ DOMAIN g.index = DOMAIN h.index \ {id}
             /\ HeldBy(g) = Without(HeldBy(h), id)
  <1>0. DOMAIN HeldBy(h) = DOMAIN h.index
    BY DEF HeldBy
  <1> DEFINE n == Len(h.nodes)
  <1> DEFINE i == h.index[id]
  <1>1. /\ IsHeap(S, h) /\ n \in Nat /\ Ordered(Keys(h), n)
        /\ h.index = [x \in DOMAIN h.index |-> h.index[x]]
        /\ \A x \in DOMAIN h.index : h.index[x] \in 1..n /\ h.nodes[h.index[x]].id = x
    BY DEF Heap, IsHeap
  <1>2. Keys(h) \in [1..n -> Int]
    BY <1>1, KeyTypes
  <1>3. CASE id \notin DOMAIN h.index
    <2>1. PopNode(h, id) = h /\ DOMAIN h.index \ {id} = DOMAIN h.index
      BY <1>3 DEF PopNode
    <2>2. HeldBy(h) = [x \in DOMAIN h.index |-> HeldBy(h)[x]]
      BY DEF HeldBy
    <2> QED
      BY <1>0, <2>1, <2>2 DEF Without
  <1>4. CASE id \in DOMAIN h.index
    <2>1. i \in 1..n /\ h.nodes[i].id = id /\ n \in 1..n /\ n # 0 /\ n - 1 \in 0..n
      BY <1>1, <1>4
    <2>2. CASE i = n
      <3>1. PopNode(h, id) = DropLast(h)
        BY <1>4, <2>2 DEF PopNode, DeleteAt
      <3>2. Ordered(Keys(h), n - 1)
        BY <1>1 DEF Ordered
      <3>3. IsHeap(S, h) /\ n # 0 /\ h.nodes[n].id = id
        BY <1>1, <2>1, <2>2
      <3>4. /\ Heap(S, DropLast(h)) /\ DOMAIN DropLast(h).index = DOMAIN h.index \ {id}
            /\ HeldBy(DropLast(h)) = [x \in DOMAIN h.index \ {id} |-> HeldBy(h)[x]]
        <4>1. Keyed(S) /\ IsHeap(S, h) /\ Len(h.nodes) # 0
              /\ Ordered(Keys(h), Len(h.nodes) - 1) /\ h.nodes[Len(h.nodes)].id = id
          BY ONLY <3>2, <3>3, Keyed(S)
        <4> QED
          BY ONLY <4>1, DropLastIs, ZenonT(30)
      <3> QED
        BY <1>0, <3>1, <3>4 DEF Without
    <2>3. CASE i # n
      <3> DEFINE s == SwapNode(h, i, n)
      <3> DEFINE g == Settle(s, i, n - 1)
      <3>1. i < n /\ i \in 1..(n - 1) /\ n - 1 \in Nat /\ n - 1 <= n
        BY <1>1, <2>1, <2>3
      <3>2. PopNode(h, id) = DropLast(g)
        BY <1>4, <3>1 DEF PopNode, DeleteAt
      <3>3. /\ IsHeap(S, s) /\ Same(s, h) /\ s.nodes[n] = h.nodes[i]
            /\ Swapped(Keys(h), Keys(s), i, n)
        BY <1>1, <2>1, SwapIs
      <3>4. Len(s.nodes) = n /\ DOMAIN s.index = DOMAIN h.index /\ HeldBy(s) = HeldBy(h)
        BY <3>3 DEF Same
      <3>5. \A k \in 1..(n - 1) : k # i => Keys(s)[k] = Keys(h)[k]
        BY <1>1, <1>2, <3>3 DEF Swapped
      <3> HIDE DEF n, i, s
      <3>6. Loose(Keys(s), i, n - 1)
        BY <1>1, <1>2, <2>1, <3>1, <3>5, OneChangedIsLoose
      <3>7. /\ IsHeap(S, g) /\ Same(g, s) /\ Kept(g, s, n - 1)
            /\ Ordered(Keys(g), n - 1)
        BY <3>1, <3>3, <3>4, <3>6, SettleIs
      <3> HIDE DEF g
      <3>8. Len(g.nodes) = n /\ DOMAIN g.index = DOMAIN h.index /\ HeldBy(g) = HeldBy(h)
        BY <3>4, <3>7 DEF Same
      <3>9. n > n - 1
        BY <1>1
      <3>10. g.nodes[n] = h.nodes[i]
        BY <2>1, <3>3, <3>4, <3>7, <3>9 DEF Kept
      <3>11. g.nodes[Len(g.nodes)].id = id
        BY <2>1, <3>8, <3>10
      <3>12. Len(g.nodes) # 0 /\ Ordered(Keys(g), Len(g.nodes) - 1)
        BY <2>1, <3>7, <3>8
      <3>13. /\ Heap(S, DropLast(g)) /\ DOMAIN DropLast(g).index = DOMAIN g.index \ {id}
             /\ HeldBy(DropLast(g)) = [x \in DOMAIN g.index \ {id} |-> HeldBy(g)[x]]
        <4>1. Keyed(S) /\ IsHeap(S, g) /\ Len(g.nodes) # 0
              /\ Ordered(Keys(g), Len(g.nodes) - 1) /\ g.nodes[Len(g.nodes)].id = id
          BY <3>7, <3>11, <3>12
        <4> QED
          BY ONLY <4>1, DropLastIs, ZenonT(30)
      <3> QED
        BY <1>0, <3>2, <3>8, <3>13 DEF Without
    <2> QED
      BY <2>2, <2>3
  <1> QED
    BY <1>3, <1>4

\* The front of a heap is the least.
LEMMA FrontIs ==
  ASSUME NEW S, Keyed(S), NEW h, Heap(S, h)
  PROVE  /\ HeapOrdered(h)
         /\ h.nodes # <<>> <=> DOMAIN h.index # {}
         /\ h.nodes # <<>> => /\ h.nodes[1].id \in DOMAIN h.index
                             /\ HeldBy(h)[h.nodes[1].id] = h.nodes[1]
                             /\ \A x \in DOMAIN h.index : h.nodes[1].key <= HeldBy(h)[x].key
  <1> DEFINE n == Len(h.nodes)
  <1>1. /\ IsHeap(S, h) /\ h.nodes \in Seq(S) /\ n \in Nat /\ DOMAIN h.nodes = 1..n
        /\ Ordered(Keys(h), n) /\ n \in 0..n
        /\ \A k \in 1..n : h.nodes[k].id \in DOMAIN h.index /\ h.index[h.nodes[k].id] = k
        /\ \A y \in DOMAIN h.index : h.index[y] \in 1..n /\ h.nodes[h.index[y]].id = y
    BY DEF Heap, IsHeap
  <1>2. Keys(h) \in [1..n -> Int] /\ \A k \in 1..n : Keys(h)[k] = h.nodes[k].key
    BY <1>1, KeyTypes
  <1>3. \A k \in 1..n : Keys(h)[1] <= Keys(h)[k]
    BY <1>1, <1>2, FirstIsLeast
  <1>4. \A k \in 1..n : 1 \in 1..n
    BY <1>1
  <1>5. \A k \in 1..n : h.nodes[1].key <= h.nodes[k].key
    BY <1>2, <1>3, <1>4
  <1>6. h.nodes # <<>> <=> 1 \in 1..n
    BY <1>1
  <1>7. HeapOrdered(h)
    BY <1>1, <1>5 DEF HeapOrdered
  <1>8. h.nodes # <<>> <=> DOMAIN h.index # {}
    BY <1>1, <1>4, <1>6
  <1>9. ASSUME h.nodes # <<>>
        PROVE  /\ h.nodes[1].id \in DOMAIN h.index /\ HeldBy(h)[h.nodes[1].id] = h.nodes[1]
               /\ \A x \in DOMAIN h.index : h.nodes[1].key <= HeldBy(h)[x].key
    BY <1>1, <1>5, <1>6, <1>9 DEF HeldBy
  <1> QED
    BY <1>7, <1>8, <1>9

LEMMA EmptyHeapIs ==
  ASSUME NEW S
  PROVE  Heap(S, EmptyHeap) /\ DOMAIN EmptyHeap.index = {} /\ EmptyHeap.nodes = <<>>
  <1>1. EmptyHeap.nodes = <<>> /\ DOMAIN EmptyHeap.index = {}
    BY DEF EmptyHeap
  <1>2. EmptyHeap = [nodes |-> EmptyHeap.nodes, index |-> EmptyHeap.index]
    BY DEF EmptyHeap
  <1>3. EmptyHeap.index = [id \in DOMAIN EmptyHeap.index |-> EmptyHeap.index[id]]
    BY DEF EmptyHeap
  <1>4. Len(EmptyHeap.nodes) = 0 /\ EmptyHeap.nodes \in Seq(S)
    BY <1>1
  <1>5. \A i \in 1..0 : FALSE
    OBVIOUS
  <1>6. IsHeap(S, EmptyHeap)
    BY <1>1, <1>2, <1>3, <1>4, <1>5 DEF IsHeap
  <1>7. Ordered(Keys(EmptyHeap), 0)
    BY <1>5 DEF Ordered
  <1> QED
    BY <1>1, <1>4, <1>6, <1>7 DEF Heap

\* The index has as many entries as there are nodes.
LEMMA HeapIsIndexed ==
  ASSUME NEW S, NEW h, Heap(S, h)
  PROVE  Indexed(h)
  <1> DEFINE n == Len(h.nodes)
  <1> DEFINE D == DOMAIN h.index
  <1> DEFINE f == [k \in 1..n |-> h.nodes[k].id]
  <1>1. /\ h.nodes \in Seq(S) /\ n \in Nat /\ DOMAIN h.nodes = 1..n
        /\ \A k \in 1..n : h.nodes[k].id \in D /\ h.index[h.nodes[k].id] = k
        /\ \A y \in D : h.index[y] \in 1..n /\ h.nodes[h.index[y]].id = y
    BY DEF Heap, IsHeap
  <1>2. f \in Bijection(1..n, D)
    <2>1. f \in [1..n -> D] /\ \A k \in 1..n : f[k] = h.nodes[k].id
      BY <1>1
    <2>2. \A a, b \in 1..n : f[a] = f[b] => a = b
      BY <1>1, <2>1
    <2>3. \A y \in D : h.index[y] \in 1..n /\ f[h.index[y]] = y
      BY <1>1, <2>1
    <2> HIDE DEF f, n, D
    <2>4. \A y \in D : \E k \in 1..n : f[k] = y
      BY <2>3
    <2> QED
      BY <2>1, <2>2, <2>4 DEF Bijection, Injection, Surjection, IsInjective
  <1>3. IsFiniteSet(1..n) /\ Cardinality(1..n) = n
    <2>1. 1 \in Int /\ n \in Int
      BY <1>1
    <2>2. IsFiniteSet(1..n) /\ Cardinality(1..n) = IF 1 > n THEN 0 ELSE n - 1 + 1
      BY <2>1, FS_Interval
    <2> QED
      BY <1>1, <2>2
  <1>4. ExistsBijection(1..n, D)
    BY <1>2 DEF ExistsBijection
  <1>5. Cardinality(D) = n
    BY <1>3, <1>4, FS_Bijection
  <1> QED
    BY <1>1, <1>5 DEF Indexed

\* A node whose key has not become less is put in its place by siftDown alone.
LEMMA SinkingIsEnough ==
  ASSUME NEW S, Keyed(S), NEW h, Heap(S, h), NEW id \in DOMAIN h.index,
         NEW node \in S, node.id = id, h.nodes[h.index[id]].key <= node.key
  PROVE  LET i == h.index[id]
             g == SiftDown([h EXCEPT !.nodes[i] = node], i, Len(h.nodes)).h
         IN  Replaced(S, h, id, node, g)
  <1> DEFINE i == h.index[id]
  <1> DEFINE n == Len(h.nodes)
  <1> DEFINE c == Changed(h, i, node)
  <1> DEFINE d == SiftDown(c, i, n)
  <1>1. h = [nodes |-> h.nodes, index |-> h.index] /\ h.nodes \in Seq(S) /\ n \in Nat
    BY DEF Heap, IsHeap
  <1>2. [h EXCEPT !.nodes[i] = node] = c
    <2>1. h = [nodes |-> h.nodes, index |-> h.index]
      BY <1>1
    <2>2. \A w : [h EXCEPT !.nodes = w] = [nodes |-> w, index |-> h.index]
      BY <2>1, NodesOnly
    <2> QED
      BY ONLY <2>2 DEF Changed
  <1>3. /\ IsHeap(S, c) /\ i \in 1..n /\ Len(c.nodes) = n /\ DOMAIN c.index = DOMAIN h.index
        /\ HeldBy(c) = [HeldBy(h) EXCEPT ![id] = node] /\ Loose(Keys(c), i, n)
        /\ BelowParent(Keys(c), i, n)
    BY ChangedIs
  <1> HIDE DEF c
  <1>4. Sinking(S, c, i, n, d) /\ AboveChildren(Keys(d.h), d.i, n)
    BY <1>1, <1>3, SiftDownIs
  <1> HIDE DEF d
  <1>5. /\ IsHeap(S, d.h) /\ Same(d.h, c) /\ d.i \in i..n /\ Loose(Keys(d.h), d.i, n)
        /\ d.i = i => d.h = c
        /\ d.i > i => BelowParent(Keys(d.h), d.i, n)
    BY <1>4 DEF Sinking
  <1>6. d.i \in 1..n /\ (d.i = i \/ d.i > i)
    BY <1>3, <1>5
  <1>7. BelowParent(Keys(d.h), d.i, n)
    BY <1>3, <1>5, <1>6
  <1>8. Ordered(Keys(d.h), n)
    BY <1>1, <1>4, <1>5, <1>6, <1>7, SettledIsOrdered
  <1>9. Replaced(S, h, id, node, d.h)
    BY <1>3, <1>5, <1>8 DEF Heap, Same, Replaced
  <1> QED
    BY <1>2, <1>9 DEF d

-----------------------------------------------------------------------------
(* The idle timer *)

TNodes == [id : TFd, key : Nat]

\* What every step of the timer keeps: the heap is one, no deadline is later than the
\* timeout from now, and each open connection's node has its own.
TInv ==
  /\ Heap(TNodes, tHeap)
  /\ tNow \in 0..TMaxNow /\ tOpen \subseteq TFd /\ tHung \in BOOLEAN
  /\ tLast \in [TFd -> Nat] /\ \A fd \in TFd : tLast[fd] <= tNow
  /\ \A fd \in DOMAIN tHeap.index : HeldBy(tHeap)[fd].key <= tNow + TTimeout
  /\ \A fd \in tOpen :
       /\ fd \in DOMAIN tHeap.index
       /\ HeldBy(tHeap)[fd] = [id |-> fd, key |-> tLast[fd] + TTimeout]

LEMMA TimerKeyed == Keyed(TNodes)
  BY DEF Keyed, TNodes

LEMMA TimerInit == TInit => TInv
  <1> SUFFICES ASSUME TInit PROVE TInv
    OBVIOUS
  <1>1. Heap(TNodes, tHeap) /\ DOMAIN tHeap.index = {}
    BY EmptyHeapIs DEF TInit
  <1>2. tNow \in 0..TMaxNow /\ tOpen = {} /\ tHung \in BOOLEAN
    <2>1. tNow = 0 /\ tOpen = {} /\ tHung = FALSE
      BY DEF TInit
    <2>2. 0 \in 0..TMaxNow
      BY TimerAssumption
    <2> QED
      BY <2>1, <2>2
  <1>3. tLast \in [TFd -> Nat] /\ \A fd \in TFd : tLast[fd] <= tNow
    BY DEF TInit
  <1> QED
    BY <1>1, <1>2, <1>3 DEF TInv

LEMMA TimerStep == TInv /\ [TNext]_tVars => TInv'
  <1> SUFFICES ASSUME TInv, [TNext]_tVars PROVE TInv'
    OBVIOUS
  <1> DEFINE H == HeldBy(tHeap)
  <1> DEFINE D == DOMAIN tHeap.index
  <1>1. /\ Heap(TNodes, tHeap) /\ tNow \in 0..TMaxNow /\ tOpen \subseteq TFd
        /\ tHung \in BOOLEAN /\ tLast \in [TFd -> Nat] /\ \A fd \in TFd : tLast[fd] <= tNow
    BY DEF TInv
  <1>2. /\ \A fd \in D : H[fd].key <= tNow + TTimeout
        /\ \A fd \in tOpen : fd \in D /\ H[fd] = [id |-> fd, key |-> tLast[fd] + TTimeout]
    BY DEF TInv
  <1>3. tNow \in Nat /\ TTimeout \in Nat /\ TMaxNow \in Nat
    BY <1>1, TimerAssumption
  <1>4. \A fd \in TFd : /\ Node(fd) \in TNodes /\ Node(fd).id = fd
                        /\ Node(fd).key = tNow + TTimeout
                        /\ Node(fd) = [id |-> fd, key |-> tNow + TTimeout]
    BY <1>3 DEF Node, TNodes
  <1>5. DOMAIN H = D
    BY DEF HeldBy
  <1>6. ASSUME NEW fd \in TFd, TAddConn(fd) PROVE TInv'
    <2>1. tHeap' = AddNode(tHeap, Node(fd))
      BY <1>6 DEF TAddConn, Add
    <2>2. /\ tOpen' = tOpen \cup {fd} /\ tLast' = [tLast EXCEPT ![fd] = tNow]
          /\ tNow' = tNow /\ tHung' = tHung
      BY <1>6 DEF TAddConn
    <2>3. /\ Heap(TNodes, tHeap') /\ DOMAIN tHeap'.index = D \cup {fd}
          /\ HeldBy(tHeap') = [x \in D \cup {fd} |-> IF x = fd THEN Node(fd) ELSE H[x]]
      <3> DEFINE node == Node(fd)
      <3> DEFINE g == AddNode(tHeap, node)
      <3>1. node \in TNodes /\ node.id = fd /\ tHeap' = g
        BY <1>4, <2>1
      <3> HIDE DEF node
      <3>2. /\ Heap(TNodes, g) /\ DOMAIN g.index = D \cup {node.id}
            /\ HeldBy(g) = [x \in D \cup {node.id} |-> IF x = node.id THEN node ELSE H[x]]
        <4>1. Heap(TNodes, tHeap) /\ node \in TNodes
          BY <1>1, <3>1
        <4>2. Added(TNodes, tHeap, node, g)
          BY ONLY <4>1, AddIs, TimerKeyed
        <4> QED
          BY <1>1, <4>2 DEF Added
      <3> HIDE DEF g, D, H
      <3> QED
        BY <3>1, <3>2 DEF node
    <2> HIDE DEF H, D
    <2>4. \A x \in D \cup {fd} : HeldBy(tHeap')[x] = IF x = fd THEN Node(fd) ELSE H[x]
      BY <2>3
    <2>5. \A x \in D \cup {fd} : HeldBy(tHeap')[x].key <= tNow + TTimeout
      BY <1>2, <1>3, <1>4, <2>4
    <2>6. tLast' \in [TFd -> Nat] /\ tLast'[fd] = tNow /\ \A x \in TFd : x # fd => tLast'[x] = tLast[x]
      BY <1>1, <1>3, <2>2
    <2>7. \A x \in tOpen' : /\ x \in D \cup {fd}
                            /\ HeldBy(tHeap')[x] = [id |-> x, key |-> tLast'[x] + TTimeout]
      BY <1>1, <1>2, <1>4, <2>2, <2>4, <2>6
    <2>8. \A x \in TFd : tLast'[x] <= tNow'
      BY <1>1, <1>3, <2>2, <2>6
    <2>9. tOpen' \subseteq TFd
      BY <1>1, <2>2
    <2> QED
      BY <1>1, <2>2, <2>3, <2>5, <2>6, <2>7, <2>8, <2>9 DEF TInv
  <1>7. ASSUME NEW fd \in TFd, TClientData(fd) PROVE TInv'
    <2>1. fd \in tOpen /\ tHeap' = Adjust(fd)
      BY <1>7 DEF TClientData
    <2>2. tOpen' = tOpen /\ tLast' = [tLast EXCEPT ![fd] = tNow] /\ tNow' = tNow /\ tHung' = tHung
      BY <1>7 DEF TClientData
    <2>3. fd \in D /\ tHeap.nodes[tHeap.index[fd]] = H[fd]
      BY <1>2, <2>1 DEF HeldBy
    <2>4. tHeap.nodes[tHeap.index[fd]].key <= Node(fd).key
      BY <1>2, <1>4, <2>3
    <2>5. /\ Heap(TNodes, tHeap') /\ DOMAIN tHeap'.index = D
          /\ HeldBy(tHeap') = [H EXCEPT ![fd] = Node(fd)]
      <3> DEFINE node == Node(fd)
      <3> DEFINE i == tHeap.index[fd]
      <3> DEFINE g == SiftDown([tHeap EXCEPT !.nodes[i] = node], i, Len(tHeap.nodes)).h
      <3>1. node \in TNodes /\ node.id = fd /\ tHeap.nodes[i].key <= node.key
        BY <1>4, <2>4
      <3>2. tHeap' = g
        BY <2>1 DEF Adjust
      <3> HIDE DEF node
      <3>3. Heap(TNodes, g) /\ DOMAIN g.index = D /\ HeldBy(g) = [H EXCEPT ![fd] = node]
        <4>1. /\ Heap(TNodes, tHeap) /\ node \in TNodes /\ fd \in D /\ node.id = fd
              /\ tHeap.nodes[i].key <= node.key
          BY <1>1, <2>3, <3>1
        <4>2. Replaced(TNodes, tHeap, fd, node, g)
          BY ONLY <4>1, SinkingIsEnough, TimerKeyed
        <4> QED
          BY <1>1, <4>2 DEF Replaced
      <3> HIDE DEF g, D, H
      <3> QED
        BY <3>2, <3>3 DEF node
    <2> HIDE DEF H, D
    <2>6. \A x \in D : HeldBy(tHeap')[x] = IF x = fd THEN Node(fd) ELSE H[x]
      BY <1>5, <2>5
    <2>7. \A x \in D : HeldBy(tHeap')[x].key <= tNow + TTimeout
      BY <1>2, <1>3, <1>4, <2>6
    <2>8. tLast' \in [TFd -> Nat] /\ tLast'[fd] = tNow /\ \A x \in TFd : x # fd => tLast'[x] = tLast[x]
      BY <1>1, <1>3, <2>2
    <2>9. \A x \in tOpen' : /\ x \in D
                            /\ HeldBy(tHeap')[x] = [id |-> x, key |-> tLast'[x] + TTimeout]
      <3>1. \A x \in tOpen : x \in TFd
        BY <1>1
      <3>2. \A x \in tOpen : x \in D /\ H[x] = [id |-> x, key |-> tLast[x] + TTimeout]
        BY <1>2
      <3>3. tOpen' = tOpen /\ Node(fd) = [id |-> fd, key |-> tLast'[fd] + TTimeout]
        BY <1>4, <2>2, <2>8
      <3> QED
        BY <2>6, <2>8, <3>1, <3>2, <3>3
    <2>10. \A x \in TFd : tLast'[x] <= tNow'
      BY <1>1, <1>3, <2>2, <2>8
    <2> QED
      BY <1>1, <2>2, <2>5, <2>7, <2>8, <2>9, <2>10 DEF TInv
  <1>8. ASSUME NEW fd \in TFd, TCloseCon(fd) PROVE TInv'
    <2>1. /\ tOpen' = tOpen \ {fd} /\ tHeap' = tHeap /\ tNow' = tNow /\ tLast' = tLast
          /\ tHung' = tHung
      BY <1>8 DEF TCloseCon
    <2> QED
      BY <1>1, <1>2, <2>1 DEF TInv
  <1>9. ASSUME TGetNextTick PROVE TInv'
    <2>1. /\ tOpen' \subseteq tOpen /\ tHung' = TRUE
          /\ tHeap' = tHeap /\ tNow' = tNow /\ tLast' = tLast
      BY <1>9 DEF TGetNextTick
    <2> QED
      BY <1>1, <1>2, <2>1 DEF TInv
  <1>10. ASSUME TPasses PROVE TInv'
    <2>1. /\ tNow < TMaxNow /\ tNow' = tNow + 1
          /\ tHeap' = tHeap /\ tOpen' = tOpen /\ tLast' = tLast /\ tHung' = tHung
      BY <1>10 DEF TPasses
    <2>2. tNow' \in 0..TMaxNow
      BY <1>1, <1>3, <2>1
    <2>3. \A fd \in TFd : tLast[fd] <= tNow'
      BY <1>1, <1>3, <2>1
    <2>4. \A fd \in D : H[fd].key \in Nat
      <3>1. \A fd \in D : tHeap.index[fd] \in 1..Len(tHeap.nodes) /\ tHeap.nodes \in Seq(TNodes)
        BY <1>1 DEF Heap, IsHeap
      <3>2. \A fd \in D : H[fd] \in TNodes
        BY <3>1 DEF HeldBy
      <3> QED
        BY <3>2 DEF TNodes
    <2>5. \A fd \in D : H[fd].key <= tNow' + TTimeout
      BY <1>2, <1>3, <2>1, <2>4
    <2> QED
      BY <1>1, <1>2, <2>1, <2>2, <2>3, <2>5 DEF TInv
  <1>11. CASE UNCHANGED tVars
    BY <1>1, <1>2, <1>11 DEF TInv, tVars
  <1> QED
    BY <1>6, <1>7, <1>8, <1>9, <1>10, <1>11 DEF TNext

LEMMA TimerAlways == TSpec => []TInv
  BY TimerInit, TimerStep, PTL DEF TSpec

\* The timer's variables have their types, and the map of its heap is the index of its
\* nodes, however they have changed places.
THEOREM TimerTypes == TSpec => []TTypeOK
  <1>1. TInv => TTypeOK
    <2> SUFFICES ASSUME TInv PROVE TTypeOK
      OBVIOUS
    <2>1. Heap(TNodes, tHeap) /\ Indexed(tHeap)
      BY HeapIsIndexed DEF TInv
    <2>2. /\ tHeap.nodes \in Seq(TNodes)
          /\ \A k \in 1..Len(tHeap.nodes) : /\ tHeap.nodes[k].id \in DOMAIN tHeap.index
                                            /\ tHeap.index[tHeap.nodes[k].id] = k
      BY <2>1 DEF Heap, IsHeap
    <2>3. \A k \in DOMAIN tHeap.nodes : tHeap.nodes[k] \in TNodes /\ k \in 1..Len(tHeap.nodes)
      BY <2>2
    <2>4. \A k \in DOMAIN tHeap.nodes : tHeap.nodes[k].key <= tNow + TTimeout
      BY <2>2, <2>3 DEF TInv, HeldBy
    <2>5. \A k \in DOMAIN tHeap.nodes : tHeap.nodes[k].key \in Nat
      BY <2>3 DEF TNodes
    <2>6. tNow \in 0..TMaxNow /\ tOpen \subseteq TFd /\ tHung \in BOOLEAN
      BY DEF TInv
    <2>7. \A k \in DOMAIN tHeap.nodes : tHeap.nodes[k].key \in 0..(TMaxNow + TTimeout)
      BY <2>4, <2>5, <2>6, TimerAssumption
    <2> QED
      BY <2>1, <2>6, <2>7 DEF TTypeOK
  <1> QED
    BY <1>1, TimerAlways, PTL

\* The front of the timer's heap is the earliest deadline, for any number of
\* descriptors: a deadline that is put off need only be sifted down.
THEOREM FrontIsEarliest == TSpec => []TFrontEarliest
  <1>1. TInv => TFrontEarliest
    BY FrontIs, TimerKeyed DEF TInv, TFrontEarliest
  <1> QED
    BY <1>1, TimerAlways, PTL

\* Each open connection is closed by its own deadline, the timeout after its last data,
\* however often its descriptor has been used and its node has changed places.
THEOREM DeadlineIsOwn == TSpec => []TDeadlineIsOwn
  <1>1. TInv => TDeadlineIsOwn
    BY DEF TInv, TDeadlineIsOwn, HeldBy
  <1> QED
    BY <1>1, TimerAlways, PTL

-----------------------------------------------------------------------------
(* The load balancer *)

BNodes == [id : BFds, key : 0..BMaxLoad, server : BServers]
BConns == [server : BServers, unread : Seq(0..BMaxLoad), edge : BOOLEAN, gone : BOOLEAN]

\* What every step of the balancer keeps: the heap is one of the connections there are,
\* each with the server of its connection, and an edge is never without a report.
BInv ==
  /\ bUsed \subseteq bUp /\ bUp \subseteq BServers /\ bWaiting \in 0..BMaxWaiting
  /\ Heap(BNodes, bHeap)
  /\ bConn = [fd \in DOMAIN bConn |-> bConn[fd]] /\ DOMAIN bConn \subseteq BFds
  /\ \A fd \in DOMAIN bConn : bConn[fd] \in BConns /\ (bConn[fd].edge => bConn[fd].unread # <<>>)
  /\ DOMAIN bHeap.index = DOMAIN bConn
  /\ \A fd \in DOMAIN bConn : HeldBy(bHeap)[fd].server = bConn[fd].server

LEMMA BalancerKeyed == Keyed(BNodes)
  BY BalancerAssumption DEF Keyed, BNodes

LEMMA HeldAre ==
  ASSUME NEW S, NEW h, Heap(S, h), NEW id \in DOMAIN h.index
  PROVE  HeldBy(h)[id] \in S /\ HeldBy(h)[id].id = id /\ HeldBy(h)[id] = h.nodes[h.index[id]]
  <1>1. h.nodes \in Seq(S) /\ h.index[id] \in 1..Len(h.nodes) /\ h.nodes[h.index[id]].id = id
    BY DEF Heap, IsHeap
  <1> QED
    BY <1>1 DEF HeldBy

LEMMA BalancerInit == BInit => BInv
  <1> SUFFICES ASSUME BInit PROVE BInv
    OBVIOUS
  <1>1. Heap(BNodes, bHeap) /\ DOMAIN bHeap.index = {}
    BY EmptyHeapIs DEF BInit
  <1>2. bConn = [fd \in DOMAIN bConn |-> bConn[fd]] /\ DOMAIN bConn = {}
    BY DEF BInit
  <1>3. bUsed \subseteq bUp /\ bUp \subseteq BServers
    BY DEF BInit
  <1>4. bWaiting = 0 /\ 0 \in 0..BMaxWaiting
    BY BalancerAssumption DEF BInit
  <1> QED
    BY <1>1, <1>2, <1>3, <1>4 DEF BInv

\* What each step does to the connections and to what the heap holds.
Registered(s, fd) ==
  /\ fd \notin DOMAIN bHeap.index
  /\ HeldBy(bHeap') = [f \in DOMAIN bHeap.index \cup {fd} |->
                       IF f = fd THEN [id |-> fd, key |-> 0, server |-> s] ELSE HeldBy(bHeap)[f]]
Reported(fd, load) ==
  /\ fd \in DOMAIN bHeap.index
  /\ HeldBy(bHeap') = [HeldBy(bHeap) EXCEPT ![fd].key = load]
Left(fd) ==
  /\ fd \in DOMAIN bHeap.index
  /\ HeldBy(bHeap') = [f \in DOMAIN bHeap.index \ {fd} |-> HeldBy(bHeap)[f]]

LEMMA RegisterIs ==
  ASSUME BInv, NEW s \in BServers, NEW fd \in BFds, BRegister(s, fd)
  PROVE  BInv' /\ Registered(s, fd)
  <1> DEFINE D == DOMAIN bConn
  <1> DEFINE H == HeldBy(bHeap)
  <1> DEFINE node == [id |-> fd, key |-> 0, server |-> s]
  <1> DEFINE c == [server |-> s, unread |-> <<>>, edge |-> FALSE, gone |-> FALSE]
  <1>1. /\ bUsed \subseteq bUp /\ bUp \subseteq BServers /\ bWaiting \in 0..BMaxWaiting
        /\ Heap(BNodes, bHeap) /\ D \subseteq BFds /\ DOMAIN bHeap.index = D
        /\ \A x \in D : bConn[x] \in BConns /\ (bConn[x].edge => bConn[x].unread # <<>>)
        /\ \A x \in D : H[x].server = bConn[x].server
    BY DEF BInv
  <1>2. /\ fd \notin D /\ bUp' = bUp \cup {s} /\ bUsed' = bUsed \cup {s}
        /\ bConn' = [x \in D \cup {fd} |-> IF x = fd THEN c ELSE bConn[x]]
        /\ bHeap' = AddNode(bHeap, node) /\ bWaiting' = bWaiting
    BY DEF BRegister
  <1>3. node \in BNodes /\ node.id = fd /\ node.server = s
    <2>1. 0 \in 0..BMaxLoad
      BY BalancerAssumption
    <2> QED
      BY <2>1 DEF BNodes
  <1>4. c \in BConns /\ c.server = s /\ c.edge = FALSE
    BY DEF BConns
  <1> HIDE DEF c, node
  <1>5. /\ Heap(BNodes, bHeap') /\ DOMAIN bHeap'.index = D \cup {fd}
        /\ HeldBy(bHeap') = [x \in D \cup {fd} |-> IF x = fd THEN node ELSE H[x]]
    <2> DEFINE g == AddNode(bHeap, node)
    <2>1. Heap(BNodes, bHeap) /\ node \in BNodes
      BY <1>1, <1>3
    <2>2. /\ Heap(BNodes, g) /\ DOMAIN g.index = DOMAIN bHeap.index \cup {node.id}
          /\ HeldBy(g) = [x \in DOMAIN bHeap.index \cup {node.id} |-> IF x = node.id THEN node ELSE H[x]]
      <3>1. Added(BNodes, bHeap, node, g)
        BY ONLY <2>1, AddIs, BalancerKeyed
      <3> QED
        BY <3>1 DEF Added
    <2> HIDE DEF g, D, H
    <2> QED
      BY <1>1, <1>2, <1>3, <2>2 DEF g
  <1>6. Registered(s, fd)
    BY <1>1, <1>2, <1>5 DEF Registered, node
  <1> HIDE DEF D, H
  <1>7. /\ bConn' = [x \in DOMAIN bConn' |-> bConn'[x]] /\ DOMAIN bConn' = D \cup {fd}
        /\ \A x \in D \cup {fd} : bConn'[x] = IF x = fd THEN c ELSE bConn[x]
    BY <1>2
  <1>8. \A x \in DOMAIN bConn' : bConn'[x] \in BConns /\ (bConn'[x].edge => bConn'[x].unread # <<>>)
    BY <1>1, <1>4, <1>7
  <1>9. \A x \in D \cup {fd} : HeldBy(bHeap')[x] = IF x = fd THEN node ELSE H[x]
    BY <1>5
  <1>10. \A x \in DOMAIN bConn' : HeldBy(bHeap')[x].server = bConn'[x].server
    BY <1>1, <1>3, <1>4, <1>7, <1>9
  <1>11. bUsed' \subseteq bUp' /\ bUp' \subseteq BServers /\ bWaiting' \in 0..BMaxWaiting
    BY <1>1, <1>2
  <1>12. DOMAIN bConn' \subseteq BFds /\ DOMAIN bHeap'.index = DOMAIN bConn'
    BY <1>1, <1>5, <1>7
  <1>13. BInv'
    BY <1>5, <1>7, <1>8, <1>10, <1>11, <1>12 DEF BInv
  <1> QED
    BY <1>6, <1>13

LEMMA RecvIs ==
  ASSUME BInv, NEW fd \in BFds, BRecvServerState(fd)
  PROVE  BInv' /\ \E load \in 0..BMaxLoad : Reported(fd, load)
  <1> DEFINE D == DOMAIN bConn
  <1> DEFINE H == HeldBy(bHeap)
  <1> DEFINE load == Head(bConn[fd].unread)
  <1> DEFINE node == [bHeap.nodes[bHeap.index[fd]] EXCEPT !.key = load]
  <1> DEFINE c == [bConn[fd] EXCEPT !.unread = Tail(bConn[fd].unread), !.edge = FALSE]
  <1>1. /\ bUsed \subseteq bUp /\ bUp \subseteq BServers /\ bWaiting \in 0..BMaxWaiting
        /\ Heap(BNodes, bHeap) /\ D \subseteq BFds /\ DOMAIN bHeap.index = D
        /\ \A x \in D : bConn[x] \in BConns /\ (bConn[x].edge => bConn[x].unread # <<>>)
        /\ \A x \in D : H[x].server = bConn[x].server
        /\ bConn = [x \in D |-> bConn[x]]
    BY DEF BInv
  <1>2. /\ fd \in D /\ bConn[fd].edge
        /\ bHeap' = AdjustNode(bHeap, fd, load)
        /\ bUp' = bUp /\ bUsed' = bUsed /\ bWaiting' = bWaiting
    BY DEF BRecvServerState
  <1>3. bConn' = [bConn EXCEPT ![fd] = c]
    BY DEF BRecvServerState
  <1>4. bConn[fd] \in BConns /\ bConn[fd].unread \in Seq(0..BMaxLoad) /\ bConn[fd].unread # <<>>
    BY <1>1, <1>2 DEF BConns
  <1>5. load \in 0..BMaxLoad /\ Tail(bConn[fd].unread) \in Seq(0..BMaxLoad)
    <2>1. \A T : \A q \in Seq(T) : q # <<>> => Head(q) \in T /\ Tail(q) \in Seq(T)
      OBVIOUS
    <2> QED
      BY <1>4, <2>1, Zenon
  <1>6. c \in BConns /\ c.server = bConn[fd].server /\ c.edge = FALSE
    BY <1>4, <1>5 DEF BConns
  <1>7. /\ H[fd] \in BNodes /\ H[fd].id = fd /\ H[fd] = bHeap.nodes[bHeap.index[fd]]
    BY <1>1, <1>2, HeldAre
  <1> HIDE DEF load, c
  <1>8. node = [H[fd] EXCEPT !.key = load]
    BY <1>7
  <1>9. node \in BNodes /\ node.id = fd /\ node.server = H[fd].server
    <2> HIDE DEF node, H
    <2> QED
      BY <1>5, <1>7, <1>8 DEF BNodes
  <1>10. /\ Heap(BNodes, bHeap') /\ DOMAIN bHeap'.index = D /\ HeldBy(bHeap') = [H EXCEPT ![fd] = node]
    <2> DEFINE g == AdjustNode(bHeap, fd, load)
    <2>1. Heap(BNodes, bHeap) /\ fd \in DOMAIN bHeap.index /\ node \in BNodes /\ node.id = fd
      BY <1>1, <1>2, <1>9
    <2>2. /\ Heap(BNodes, g) /\ DOMAIN g.index = DOMAIN bHeap.index
          /\ HeldBy(g) = [H EXCEPT ![fd] = node]
      BY ONLY <2>1, AdjustIs, BalancerKeyed
    <2> HIDE DEF g, D, H, node
    <2> QED
      BY <1>1, <1>2, <2>2 DEF g
  <1> HIDE DEF node
  <1>11. Reported(fd, load)
    <2> HIDE DEF H, D
    <2>1. HeldBy(bHeap') = [H EXCEPT ![fd] = [H[fd] EXCEPT !.key = load]]
      BY <1>8, <1>10
    <2> QED
      BY <1>1, <1>2, <2>1 DEF Reported, H
  <1>12. DOMAIN H = D
    BY <1>1 DEF HeldBy
  <1> HIDE DEF D, H
  <1>13. /\ bConn' = [x \in DOMAIN bConn' |-> bConn'[x]] /\ DOMAIN bConn' = D
         /\ \A x \in D : bConn'[x] = IF x = fd THEN c ELSE bConn[x]
    BY <1>1, <1>2, <1>3
  <1>14. \A x \in D : bConn'[x] \in BConns /\ (bConn'[x].edge => bConn'[x].unread # <<>>)
    BY <1>1, <1>6, <1>13
  <1>15. \A x \in D : HeldBy(bHeap')[x] = IF x = fd THEN node ELSE H[x]
    BY <1>10, <1>12
  <1>16. \A x \in D : HeldBy(bHeap')[x].server = bConn'[x].server
    BY <1>1, <1>2, <1>6, <1>9, <1>13, <1>15
  <1>17. bUsed' \subseteq bUp' /\ bUp' \subseteq BServers /\ bWaiting' \in 0..BMaxWaiting
    BY <1>1, <1>2
  <1>18. BInv'
    BY <1>1, <1>10, <1>13, <1>14, <1>16, <1>17 DEF BInv
  <1> QED
    BY <1>5, <1>11, <1>18

LEMMA DelIs ==
  ASSUME BInv, NEW fd \in BFds, BDelServer(fd)
  PROVE  BInv' /\ Left(fd)
  <1> DEFINE D == DOMAIN bConn
  <1> DEFINE H == HeldBy(bHeap)
  <1>1. /\ bUsed \subseteq bUp /\ bUp \subseteq BServers /\ bWaiting \in 0..BMaxWaiting
        /\ Heap(BNodes, bHeap) /\ D \subseteq BFds /\ DOMAIN bHeap.index = D
        /\ \A x \in D : bConn[x] \in BConns /\ (bConn[x].edge => bConn[x].unread # <<>>)
        /\ \A x \in D : H[x].server = bConn[x].server
    BY DEF BInv
  <1>2. /\ fd \in D /\ bHeap' = PopNode(bHeap, fd)
        /\ bUp' = bUp /\ bUsed' = bUsed /\ bWaiting' = bWaiting
        /\ bConn' = [x \in D \ {fd} |-> bConn[x]]
    BY DEF BDelServer, Without
  <1>3. /\ Heap(BNodes, bHeap') /\ DOMAIN bHeap'.index = D \ {fd}
        /\ HeldBy(bHeap') = [x \in D \ {fd} |-> H[x]]
    <2> DEFINE g == PopNode(bHeap, fd)
    <2>1. Heap(BNodes, bHeap)
      BY <1>1
    <2>2. /\ Heap(BNodes, g) /\ DOMAIN g.index = DOMAIN bHeap.index \ {fd}
          /\ HeldBy(g) = Without(H, fd)
      BY ONLY <2>1, PopIs, BalancerKeyed
    <2>3. DOMAIN H = D
      BY <1>1 DEF HeldBy
    <2> HIDE DEF g, D, H
    <2> QED
      BY <1>1, <1>2, <2>2, <2>3 DEF g, Without
  <1>4. Left(fd)
    BY <1>1, <1>2, <1>3 DEF Left
  <1> HIDE DEF D, H
  <1>5. /\ bConn' = [x \in DOMAIN bConn' |-> bConn'[x]] /\ DOMAIN bConn' = D \ {fd}
        /\ \A x \in D \ {fd} : bConn'[x] = bConn[x]
    BY <1>2
  <1>6. \A x \in D \ {fd} : HeldBy(bHeap')[x] = H[x]
    BY <1>3
  <1>7. BInv'
    BY <1>1, <1>2, <1>3, <1>5, <1>6 DEF BInv
  <1> QED
    BY <1>4, <1>7

\* A server that reports or dies changes its connection, and nothing in the heap.
LEMMA ServerStepIs ==
  ASSUME BInv, NEW s \in BServers,
         BStartAlone(s) \/ BReport(s) \/ BLost(s) \/ BServerDies(s)
  PROVE  BInv' /\ bHeap' = bHeap /\ bChoice' = bChoice
  <1> DEFINE D == DOMAIN bConn
  <1>1. /\ bUsed \subseteq bUp /\ bUp \subseteq BServers /\ bWaiting \in 0..BMaxWaiting
        /\ Heap(BNodes, bHeap) /\ D \subseteq BFds /\ DOMAIN bHeap.index = D
        /\ \A x \in D : bConn[x] \in BConns /\ (bConn[x].edge => bConn[x].unread # <<>>)
        /\ \A x \in D : HeldBy(bHeap)[x].server = bConn[x].server
        /\ bConn = [x \in D |-> bConn[x]]
    BY DEF BInv
  <1>2. bHeap' = bHeap /\ bChoice' = bChoice /\ bWaiting' = bWaiting
    BY DEF BStartAlone, BReport, BLost, BServerDies
  <1>3. bUsed' \subseteq bUp' /\ bUp' \subseteq BServers
    <2>1. CASE BStartAlone(s)
      BY <1>1, <2>1 DEF BStartAlone
    <2>2. CASE BReport(s) \/ BLost(s)
      BY <1>1, <2>2 DEF BReport, BLost
    <2>3. CASE BServerDies(s)
      BY <1>1, <2>3 DEF BServerDies
    <2> QED
      BY <2>1, <2>2, <2>3
  <1>4. /\ bConn' = [x \in D |-> bConn'[x]] /\ DOMAIN bConn' = D
        /\ \A x \in D : /\ bConn'[x] \in BConns /\ bConn'[x].server = bConn[x].server
                        /\ bConn'[x].edge => bConn'[x].unread # <<>>
    <2>1. CASE BStartAlone(s) \/ BLost(s)
      <3>1. bConn' = bConn
        BY <2>1 DEF BStartAlone, BLost
      <3> QED
        BY <1>1, <3>1
    <2>2. CASE BReport(s)
      <3>1. PICK fd \in ConnsOf(s), load \in 0..BMaxLoad :
              bConn' = [bConn EXCEPT ![fd].unread = Append(@, load), ![fd].edge = TRUE]
        BY <2>2 DEF BReport
      <3> DEFINE c == [bConn[fd] EXCEPT !.unread = Append(bConn[fd].unread, load), !.edge = TRUE]
      <3>2. fd \in D
        BY DEF ConnsOf
      <3>3. bConn' = [bConn EXCEPT ![fd] = c]
        BY <1>1, <3>1, <3>2
      <3>4. bConn[fd] \in BConns /\ bConn[fd].unread \in Seq(0..BMaxLoad)
        BY <1>1, <3>2 DEF BConns
      <3>5. /\ Append(bConn[fd].unread, load) \in Seq(0..BMaxLoad)
            /\ Append(bConn[fd].unread, load) # <<>>
        BY <3>4
      <3>6. c \in BConns /\ c.server = bConn[fd].server /\ c.unread # <<>>
        BY <3>4, <3>5 DEF BConns
      <3> HIDE DEF c, D
      <3>7. \A x \in D : bConn'[x] = IF x = fd THEN c ELSE bConn[x]
        BY <1>1, <3>2, <3>3
      <3>8. bConn' = [x \in D |-> bConn'[x]] /\ DOMAIN bConn' = D
        BY <1>1, <3>3
      <3> QED
        BY <1>1, <3>6, <3>7, <3>8
    <2>3. CASE BServerDies(s)
      <3> DEFINE c(x) == [bConn[x] EXCEPT !.gone = TRUE, !.unread = <<>>, !.edge = FALSE]
      <3>1. bConn' = [x \in D |-> IF bConn[x].server = s THEN c(x) ELSE bConn[x]]
        BY <2>3 DEF BServerDies
      <3>2. \A x \in D : c(x) \in BConns /\ c(x).server = bConn[x].server /\ c(x).edge = FALSE
        <4>1. <<>> \in Seq(0..BMaxLoad)
          OBVIOUS
        <4>2. \A r \in BConns :
                LET e == [r EXCEPT !.gone = TRUE, !.unread = <<>>, !.edge = FALSE]
                IN  e \in BConns /\ e.server = r.server /\ e.edge = FALSE
          BY <4>1 DEF BConns
        <4> QED
          BY <1>1, <4>2
      <3> HIDE DEF c, D
      <3>3. bConn' = [x \in D |-> bConn'[x]] /\ DOMAIN bConn' = D
        BY <3>1
      <3>4. \A x \in D : bConn'[x] = IF bConn[x].server = s THEN c(x) ELSE bConn[x]
        BY <3>1
      <3> QED
        BY <1>1, <3>2, <3>3, <3>4
    <2> QED
      BY <2>1, <2>2, <2>3
  <1> HIDE DEF D
  <1>5. BInv'
    BY <1>1, <1>2, <1>3, <1>4 DEF BInv
  <1> QED
    BY <1>2, <1>5

\* A client is given the server of the front, which nobody is below.
Given ==
  /\ bHeap' = bHeap
  /\ \/ bChoice' = bChoice
     \/ \E fd \in DOMAIN bHeap.index :
          /\ \A x \in DOMAIN bHeap.index : HeldBy(bHeap)[fd].key <= HeldBy(bHeap)[x].key
          /\ bChoice' = HeldBy(bHeap)[fd].server

LEMMA ClientIs ==
  ASSUME BInv, BClient
  PROVE  BInv' /\ Given
  <1>1. Heap(BNodes, bHeap) /\ bWaiting \in 0..BMaxWaiting
    BY DEF BInv
  <1>2. bHeap' = bHeap /\ bConn' = bConn /\ bUp' = bUp /\ bUsed' = bUsed
    BY DEF BClient
  <1>3. bWaiting' \in 0..BMaxWaiting
    <2>1. \A w \in 0..BMaxWaiting : w < BMaxWaiting => w + 1 \in 0..BMaxWaiting
      BY BalancerAssumption
    <2>2. bWaiting' = bWaiting \/ (bWaiting < BMaxWaiting /\ bWaiting' = bWaiting + 1)
      BY DEF BClient
    <2> QED
      BY <1>1, <2>1, <2>2
  <1>4. BInv'
    BY <1>2, <1>3 DEF BInv
  <1>5. CASE bHeap.nodes = <<>>
    <2>1. bChoice' = bChoice
      BY <1>5 DEF BClient
    <2> QED
      BY <1>2, <1>4, <2>1 DEF Given
  <1>6. CASE bHeap.nodes # <<>>
    <2> DEFINE fd == bHeap.nodes[1].id
    <2>1. bChoice' = bHeap.nodes[1].server
      BY <1>6 DEF BClient
    <2>2. /\ fd \in DOMAIN bHeap.index /\ HeldBy(bHeap)[fd] = bHeap.nodes[1]
          /\ \A x \in DOMAIN bHeap.index : bHeap.nodes[1].key <= HeldBy(bHeap)[x].key
      BY <1>1, <1>6, FrontIs, BalancerKeyed
    <2> HIDE DEF fd
    <2>3. /\ \A x \in DOMAIN bHeap.index : HeldBy(bHeap)[fd].key <= HeldBy(bHeap)[x].key
          /\ bChoice' = HeldBy(bHeap)[fd].server
      BY <2>1, <2>2
    <2> QED
      BY <1>2, <1>4, <2>2, <2>3 DEF Given
  <1> QED
    BY <1>5, <1>6

LEMMA CrashIs ==
  ASSUME BInv, BCrash
  PROVE  BInv'
  <1>1. bUsed' \subseteq bUp' /\ bUp' \subseteq BServers /\ bHeap' = EmptyHeap /\ bWaiting' = 0
    BY DEF BCrash, BInv
  <1>2. bConn' = [fd \in DOMAIN bConn' |-> bConn'[fd]] /\ DOMAIN bConn' = {}
    BY DEF BCrash
  <1>3. Heap(BNodes, bHeap') /\ DOMAIN bHeap'.index = {}
    BY <1>1, EmptyHeapIs
  <1>4. 0 \in 0..BMaxWaiting
    BY BalancerAssumption
  <1> QED
    BY <1>1, <1>2, <1>3, <1>4 DEF BInv

\* Every step keeps the invariant and changes what the heap holds as one action of the
\* promise does.
Promised ==
  \/ bHeap' = bHeap /\ bChoice' = bChoice
  \/ Given
  \/ \E fd \in BFds :
       /\ bChoice' = bChoice
       /\ \/ \E s \in BServers : Registered(s, fd)
          \/ \E load \in 0..BMaxLoad : Reported(fd, load)
          \/ Left(fd)
  \/ bHeap' = EmptyHeap /\ bChoice' = NoServer

LEMMA BalancerStep == BInv /\ [BNext]_bVars => BInv' /\ Promised
  <1> SUFFICES ASSUME BInv, [BNext]_bVars PROVE BInv' /\ Promised
    OBVIOUS
  <1>1. ASSUME NEW s \in BServers, NEW fd \in BFds, BRegister(s, fd) PROVE BInv' /\ Promised
    BY <1>1, RegisterIs DEF Promised, BRegister
  <1>2. ASSUME NEW s \in BServers, BStartAlone(s) \/ BReport(s) \/ BLost(s) \/ BServerDies(s)
        PROVE  BInv' /\ Promised
    BY <1>2, ServerStepIs DEF Promised
  <1>3. ASSUME NEW fd \in BFds, BRecvServerState(fd) PROVE BInv' /\ Promised
    BY <1>3, RecvIs DEF Promised, BRecvServerState
  <1>4. ASSUME NEW fd \in BFds, BDelServer(fd) PROVE BInv' /\ Promised
    BY <1>4, DelIs DEF Promised, BDelServer
  <1>5. CASE BClient
    BY <1>5, ClientIs DEF Promised
  <1>6. CASE BCrash
    BY <1>6, CrashIs DEF Promised, BCrash
  <1>7. CASE BRestart \/ UNCHANGED bVars
    <2>1. /\ bUp' = bUp /\ bUsed' = bUsed /\ bConn' = bConn /\ bHeap' = bHeap
          /\ bWaiting' = bWaiting /\ bChoice' = bChoice
      BY <1>7 DEF BRestart, bVars
    <2> QED
      BY <2>1 DEF BInv, Promised
  <1> QED
    BY <1>1, <1>2, <1>3, <1>4, <1>5, <1>6, <1>7 DEF BNext

LEMMA BalancerAlways == BSpec => []BInv
  BY BalancerInit, BalancerStep, PTL DEF BSpec

\* The balancer's variables have their types, and the map of its heap is the index of
\* its nodes.
THEOREM BalancerTypes == BSpec => []BTypeOK
  <1>1. BInv => BTypeOK
    <2> SUFFICES ASSUME BInv PROVE BTypeOK
      OBVIOUS
    <2>1. Heap(BNodes, bHeap) /\ Indexed(bHeap)
      BY HeapIsIndexed DEF BInv
    <2>2. bHeap.nodes \in Seq(BNodes)
      BY <2>1 DEF Heap, IsHeap
    <2>3. \A k \in DOMAIN bHeap.nodes : bHeap.nodes[k] \in BNodes
      BY <2>2
    <2>4. \A k \in DOMAIN bHeap.nodes : bHeap.nodes[k].key \in 0..BMaxLoad
      BY <2>3 DEF BNodes
    <2> QED
      BY <2>1, <2>4 DEF BInv, BTypeOK
  <1> QED
    BY <1>1, BalancerAlways, PTL

\* The balancer's entries are those of its connections, each with the server of its own:
\* no server that has left is given to a client, for any number of servers.
THEOREM ListsTheConnected == BSpec => []BListsTheConnected
  <1>1. BInv => BListsTheConnected
    BY DEF BInv, BListsTheConnected, HeldBy
  <1> QED
    BY <1>1, BalancerAlways, PTL

\* The heap with its index, its swaps and its deletions does what BalancerPromise promises
\* of a plain directory: entries change by their own server's doing alone, and a client
\* is given one that nobody is below.
THEOREM BalancerImplementsPromise == BSpec => BPromiseKept
  <1>1. Entries = HeldBy(bHeap) /\ DOMAIN Entries = DOMAIN bHeap.index
    BY DEF Entries, HeldBy
  <1>2. Entries' = HeldBy(bHeap')
    BY DEF Entries, HeldBy
  <1>3. HeldBy(EmptyHeap) = [fd \in {} |-> NoServer]
    <2>1. DOMAIN EmptyHeap.index = {}
      BY EmptyHeapIs
    <2> QED
      BY <2>1 DEF HeldBy
  <1>4. BInit => Promise!Init
    BY <1>1, <1>3 DEF BInit, Promise!Init
  <1>5. BInv /\ [BNext]_bVars => [Promise!Next]_<<Entries, bChoice>>
    <2> SUFFICES ASSUME BInv, [BNext]_bVars PROVE Promise!Next \/ UNCHANGED <<Entries, bChoice>>
      OBVIOUS
    <2>1. Promised /\ DOMAIN bHeap.index \subseteq BFds
      BY BalancerStep DEF BInv
    <2>2. CASE bHeap' = bHeap /\ bChoice' = bChoice
      BY <1>1, <1>2, <2>2
    <2>3. CASE Given
      <3>1. Entries' = Entries
        BY <1>1, <1>2, <2>3 DEF Given
      <3>2. CASE bChoice' = bChoice
        BY <3>1, <3>2
      <3>3. CASE \E fd \in DOMAIN bHeap.index :
                   /\ \A x \in DOMAIN bHeap.index : HeldBy(bHeap)[fd].key <= HeldBy(bHeap)[x].key
                   /\ bChoice' = HeldBy(bHeap)[fd].server
        <4>1. \E fd \in BFds : Promise!Give(fd)
          BY <1>1, <2>1, <3>1, <3>3 DEF Promise!Give
        <4> QED
          BY <4>1 DEF Promise!Next
      <3> QED
        BY <2>3, <3>2, <3>3 DEF Given
    <2>4. ASSUME NEW fd \in BFds, bChoice' = bChoice, NEW s \in BServers, Registered(s, fd)
          PROVE  Promise!Next
      <3>1. Promise!Register(fd, s)
        BY <1>1, <1>2, <2>4 DEF Registered, Promise!Register
      <3> QED
        BY <3>1 DEF Promise!Next
    <2>5. ASSUME NEW fd \in BFds, bChoice' = bChoice, NEW load \in 0..BMaxLoad, Reported(fd, load)
          PROVE  Promise!Next
      <3>1. Promise!Report(fd, load)
        BY <1>1, <1>2, <2>5 DEF Reported, Promise!Report
      <3> QED
        BY <3>1 DEF Promise!Next
    <2>6. ASSUME NEW fd \in BFds, bChoice' = bChoice, Left(fd)
          PROVE  Promise!Next
      <3>1. Promise!Leave(fd)
        BY <1>1, <1>2, <2>6 DEF Left, Promise!Leave
      <3> QED
        BY <3>1 DEF Promise!Next
    <2>7. CASE bHeap' = EmptyHeap /\ bChoice' = NoServer
      <3>1. Promise!Crash
        BY <1>2, <1>3, <2>7 DEF Promise!Crash
      <3> QED
        BY <3>1 DEF Promise!Next
    <2> QED
      BY <2>1, <2>2, <2>3, <2>4, <2>5, <2>6, <2>7 DEF Promised
  <1> QED
    BY <1>4, <1>5, BalancerAlways, PTL DEF BSpec, BPromiseKept, Promise!Spec
=============================================================================
