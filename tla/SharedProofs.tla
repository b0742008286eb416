---------------------------- MODULE SharedProofs ----------------------------
(***************************************************************************)
(* Theorems of Pools, LogQueue and Reactor, what the server's threads      *)
(* share.                                                                  *)
(*   Pools, for every number of threads, connections and buffers:          *)
(*     connections are counted by the workers that hold one and those that *)
(*     hold two, and each buffer is in one place.                          *)
(*   LogQueue, for every number of threads and every capacity: lines are   *)
(*     numbered as they are appended, and the queue holds an increasing    *)
(*     run of those that no file has, after the one in the writer's hand.  *)
(*   Reactor, for every number of descriptors, sub-reactors and            *)
(*     connections: user_count is right and the limit is kept while a      *)
(*     number is given out, closed by a sub-reactor and given out again,   *)
(*     and no client is left in the backlog of a reactor that sleeps.      *)
(***************************************************************************)
EXTENDS Pools, LogQueue, Reactor, FiniteSetTheorems, WellFoundedInduction, TLAPS

-----------------------------------------------------------------------------
(* Pools: the inductive invariant *)

Places == {"idle", "first", "one", "second", "two"}

PTypes ==
  /\ pFree \in Nat
  /\ pTask \in [PWorkers -> [at : Places, buffer : PBuffers \cup {NoBuffer}]]
  /\ pQueued \in Seq(PBuffers) /\ pPool \in Seq(PBuffers)
  /\ DOMAIN pLast \subseteq PBuffers
  /\ pNow \in Nat /\ pReturned \in [PBuffers -> Nat]

\* A task has a buffer as long as it runs.
TaskInv == \A w \in PWorkers : pTask[w].at = "idle" <=> pTask[w].buffer = NoBuffer

\* A buffer is in the pool, in the queue or with a task, once.
PlaceInv ==
  /\ IsInjective(pPool) /\ IsInjective(pQueued)
  /\ \A b \in ToSet(pPool) : b \notin ToSet(pQueued)
  /\ \A w \in PWorkers : pTask[w].buffer \notin ToSet(pPool) \cup ToSet(pQueued)
  /\ \A v, w \in PWorkers :
       (v # w /\ pTask[v].buffer # NoBuffer) => pTask[v].buffer # pTask[w].buffer

\* The stamp of what is in the pool is that of its return.
StampInv == \A b \in ToSet(pPool) : b \in DOMAIN pLast /\ pLast[b] = pReturned[b]

\* Every connection is free or held, by a task's first or second MyDB.
Holding == {w \in PWorkers : pTask[w].at \in {"one", "second", "two"}}
Doubles == {w \in PWorkers : pTask[w].at = "two"}
ConnInv == pFree + Cardinality(Holding) + Cardinality(Doubles) = PConns

PInv == PTypes /\ TaskInv /\ PlaceInv /\ StampInv /\ ConnInv

-----------------------------------------------------------------------------
(* Sequences of different elements *)

LEMMA SeqIs ==
  ASSUME NEW S, NEW s \in Seq(S)
  PROVE  /\ Len(s) \in Nat /\ DOMAIN s = 1..Len(s) /\ \A i \in 1..Len(s) : s[i] \in S
         /\ ToSet(s) \subseteq S
BY DEF ToSet

LEMMA AppendFresh ==
  ASSUME NEW S, NEW s \in Seq(S), NEW e \in S, e \notin ToSet(s)
  PROVE  /\ Append(s, e) \in Seq(S) /\ ToSet(Append(s, e)) = ToSet(s) \cup {e}
         /\ IsInjective(s) => IsInjective(Append(s, e))
<1> DEFINE t == Append(s, e)  n == Len(s)
<1>1. /\ t \in Seq(S) /\ n \in Nat /\ DOMAIN s = 1..n /\ DOMAIN t = 1..(n + 1)
      /\ t[n + 1] = e /\ \A i \in 1..n : t[i] = s[i]
  OBVIOUS
<1> HIDE DEF t, n
<1>2. \A i \in 1..(n + 1) : i \in 1..n \/ i = n + 1 BY <1>1
<1>3. n + 1 \in 1..(n + 1) /\ \A i \in 1..n : i \in 1..(n + 1) BY <1>1
<1>4. ToSet(t) = ToSet(s) \cup {e}
  <2>1. ASSUME NEW x \in ToSet(t) PROVE x \in ToSet(s) \cup {e}
    <3>1. PICK i \in DOMAIN t : x = t[i] BY <2>1 DEF ToSet
    <3> QED BY <1>1, <1>2, <3>1 DEF ToSet
  <2>2. ASSUME NEW x \in ToSet(s) PROVE x \in ToSet(t)
    <3>1. PICK i \in DOMAIN s : x = s[i] BY <2>2 DEF ToSet
    <3> QED BY <1>1, <1>3, <3>1 DEF ToSet
  <2>3. e \in ToSet(t) BY <1>1, <1>3 DEF ToSet
  <2> QED BY <2>1, <2>2, <2>3
<1>5. ASSUME IsInjective(s), NEW i \in DOMAIN t, NEW j \in DOMAIN t, t[i] = t[j] PROVE i = j
  <2>1. CASE i \in 1..n /\ j \in 1..n BY <1>1, <1>5, <2>1 DEF IsInjective
  <2>2. CASE i = n + 1 /\ j \in 1..n BY <1>1, <1>5, <2>2 DEF ToSet
  <2>3. CASE i \in 1..n /\ j = n + 1 BY <1>1, <1>5, <2>3 DEF ToSet
  <2> QED BY <1>1, <1>2, <2>1, <2>2, <2>3
<1> QED BY <1>1, <1>4, <1>5 DEF t, IsInjective

LEMMA TailRest ==
  ASSUME NEW S, NEW s \in Seq(S), s # <<>>, IsInjective(s)
  PROVE  /\ Head(s) \in S /\ Tail(s) \in Seq(S) /\ IsInjective(Tail(s))
         /\ ToSet(s) = ToSet(Tail(s)) \cup {Head(s)} /\ Head(s) \notin ToSet(Tail(s))
<1> DEFINE t == Tail(s)  n == Len(s)
<1>1. /\ n \in Nat /\ n > 0 /\ DOMAIN s = 1..n /\ Head(s) = s[1] /\ Head(s) \in S
      /\ t \in Seq(S) /\ Len(t) = n - 1
  OBVIOUS
<1>2. DOMAIN t = 1..(n - 1) /\ \A i \in 1..(n - 1) : t[i] = s[i + 1] BY <1>1
<1> HIDE DEF t, n
<1>3. \A i \in 1..n : i = 1 \/ i - 1 \in 1..(n - 1) BY <1>1
<1>4. \A i \in 1..(n - 1) : i + 1 \in 1..n /\ i + 1 # 1 BY <1>1
<1>5. IsInjective(t)
  <2> SUFFICES ASSUME NEW i \in 1..(n - 1), NEW j \in 1..(n - 1), t[i] = t[j] PROVE i = j
    BY <1>2 DEF IsInjective
  <2>1. i + 1 \in DOMAIN s /\ j + 1 \in DOMAIN s /\ s[i + 1] = s[j + 1] BY <1>1, <1>2, <1>4
  <2>2. i + 1 = j + 1 BY <2>1 DEF IsInjective
  <2> QED BY <2>2
<1>6. s[1] \notin ToSet(t)
  <2> SUFFICES ASSUME NEW i \in 1..(n - 1), t[i] = s[1] PROVE FALSE
    BY <1>2 DEF ToSet
  <2>1. i + 1 = 1 BY <1>1, <1>2, <1>4, SMTT(20) DEF IsInjective
  <2> QED BY <1>4, <2>1
<1>7. ToSet(s) = ToSet(t) \cup {s[1]}
  <2>1. ASSUME NEW i \in 1..n PROVE s[i] \in ToSet(t) \cup {s[1]}
    <3>1. CASE i = 1 BY <3>1
    <3>2. CASE i - 1 \in 1..(n - 1)
      <4>1. t[i - 1] = s[i] BY <1>1, <1>2, <3>2
      <4> QED BY <1>2, <3>2, <4>1 DEF ToSet
    <3> QED BY <1>3, <3>1, <3>2
  <2>2. ASSUME NEW i \in 1..(n - 1) PROVE t[i] \in ToSet(s)
    BY <1>1, <1>2, <1>4 DEF ToSet
  <2>3. s[1] \in ToSet(s) BY <1>1 DEF ToSet
  <2> QED BY <1>1, <1>2, <2>1, <2>2, <2>3 DEF ToSet
<1> QED BY <1>1, <1>5, <1>6, <1>7 DEF t

LEMMA FrontRest ==
  ASSUME NEW S, NEW s \in Seq(S), s # <<>>, IsInjective(s)
  PROVE  /\ Last(s) \in S /\ Front(s) \in Seq(S) /\ IsInjective(Front(s))
         /\ ToSet(s) = ToSet(Front(s)) \cup {Last(s)} /\ Last(s) \notin ToSet(Front(s))
<1> DEFINE t == Front(s)  n == Len(s)
<1>1. n \in Nat /\ n > 0 /\ DOMAIN s = 1..n /\ Last(s) = s[n] /\ Last(s) \in S
  BY DEF Last
<1>2. /\ t \in Seq(S) /\ DOMAIN t = 1..(n - 1)
      /\ \A i \in 1..(n - 1) : t[i] = s[i]
  BY <1>1 DEF Front
<1> HIDE DEF t, n
<1>3. \A i \in 1..n : i = n \/ i \in 1..(n - 1) BY <1>1
<1>4. n \in 1..n /\ \A i \in 1..(n - 1) : i \in 1..n /\ i # n BY <1>1
<1>5. IsInjective(t) BY <1>1, <1>2, <1>4 DEF IsInjective
<1>6. s[n] \notin ToSet(t) BY <1>1, <1>2, <1>4 DEF IsInjective, ToSet
<1>7. ToSet(s) = ToSet(t) \cup {s[n]}
  <2>1. ASSUME NEW i \in 1..n PROVE s[i] \in ToSet(t) \cup {s[n]}
    BY <1>2, <1>3 DEF ToSet
  <2>2. ASSUME NEW i \in 1..(n - 1) PROVE t[i] \in ToSet(s)
    BY <1>1, <1>2, <1>4 DEF ToSet
  <2>3. s[n] \in ToSet(s) BY <1>1, <1>4 DEF ToSet
  <2> QED BY <1>1, <1>2, <2>1, <2>2, <2>3 DEF ToSet
<1> QED BY <1>1, <1>2, <1>5, <1>6, <1>7 DEF t

LEMMA LeavesRest ==
  ASSUME NEW S, NEW s \in Seq(S), IsInjective(s), NEW E, NEW rest,
         Leaves(s, {i \in DOMAIN s : s[i] \notin E}, rest)
  PROVE  rest \in Seq(S) /\ IsInjective(rest) /\ ToSet(rest) = ToSet(s) \ E
<1> DEFINE kept == {i \in DOMAIN s : s[i] \notin E}
<1>1. PICK n \in 0..Len(s) : \E index \in [1..n -> kept] :
        /\ \A i, j \in 1..n : i < j => index[i] < index[j]
        /\ \A k \in kept : \E i \in 1..n : index[i] = k
        /\ rest = [i \in 1..n |-> s[index[i]]]
  BY DEF Leaves
<1>2. PICK index \in [1..n -> kept] :
        /\ \A i, j \in 1..n : i < j => index[i] < index[j]
        /\ \A k \in kept : \E i \in 1..n : index[i] = k
        /\ rest = [i \in 1..n |-> s[index[i]]]
  BY <1>1
<1>3. n \in Nat /\ \A k \in kept : k \in DOMAIN s /\ s[k] \in S /\ s[k] \notin E /\ k \in Nat
  BY SeqIs
<1>4. rest \in [1..n -> S] BY <1>2, <1>3
<1>5. rest \in Seq(S) /\ DOMAIN rest = 1..n BY <1>3, <1>4
<1>6. ASSUME NEW i \in 1..n, NEW j \in 1..n, rest[i] = rest[j] PROVE i = j
  <2>1. index[i] = index[j] BY <1>2, <1>3, <1>6 DEF IsInjective
  <2>2. index[i] \in Nat /\ i \in Nat /\ j \in Nat BY <1>2, <1>3
  <2>3. ~(i < j) /\ ~(j < i) BY <1>2, <2>1, <2>2
  <2> QED BY <2>2, <2>3
<1>7. ASSUME NEW x \in ToSet(rest) PROVE x \in ToSet(s) \ E
  <2>1. PICK i \in 1..n : x = rest[i] BY <1>5, <1>7 DEF ToSet
  <2>2. index[i] \in kept /\ x = s[index[i]] BY <1>2, <2>1
  <2> QED BY <1>3, <2>2 DEF ToSet
<1>8. ASSUME NEW x \in ToSet(s), x \notin E PROVE x \in ToSet(rest)
  <2>1. PICK k \in DOMAIN s : x = s[k] BY <1>8 DEF ToSet
  <2>2. PICK i \in 1..n : index[i] = k BY <1>2, <1>8, <2>1
  <2>3. rest[i] = x BY <1>2, <2>1, <2>2
  <2> QED BY <1>5, <2>3 DEF ToSet
<1> QED BY <1>5, <1>6, <1>7, <1>8 DEF IsInjective

-----------------------------------------------------------------------------
(* The pool's operations *)

LEMMA PlacesOf ==
  ASSUME PTypes, TaskInv, NEW w \in PWorkers
  PROVE  /\ pTask[w] \in [at : Places, buffer : PBuffers \cup {NoBuffer}]
         /\ pTask[w].at # "idle" => pTask[w].buffer \in PBuffers /\ pTask[w].buffer # NoBuffer
         /\ NoBuffer \notin PBuffers
BY PoolAssumption DEF PTypes, TaskInv

\* What acquire gives was in the pool or is new: nobody has it.
LEMMA AcquireGives ==
  ASSUME PTypes, PlaceInv, NEW b \in PBuffers, Acquire(b)
  PROVE  /\ pPool' \in Seq(PBuffers) /\ IsInjective(pPool')
         /\ ToSet(pPool)' \subseteq ToSet(pPool)
         /\ ToSet(pPool) \subseteq ToSet(pPool)' \cup {b}
         /\ b \notin ToSet(pPool)' /\ b \notin ToSet(pQueued)
         /\ \A w \in PWorkers : pTask[w].buffer # b
<1>1. CASE pPool = <<>>
  <2>1. pPool' = pPool /\ b \notin Allocated BY <1>1 DEF Acquire
  <2>2. b # NoBuffer BY PoolAssumption
  <2> QED BY <2>1, <2>2 DEF Allocated, Held, PTypes, PlaceInv
<1>2. CASE pPool # <<>>
  <2>1. b = Last(pPool) /\ pPool' = Front(pPool) BY <1>2 DEF Acquire
  <2>2. /\ Front(pPool) \in Seq(PBuffers) /\ IsInjective(Front(pPool))
        /\ ToSet(pPool) = ToSet(Front(pPool)) \cup {b} /\ b \notin ToSet(Front(pPool))
    BY <1>2, <2>1, FrontRest DEF PTypes, PlaceInv
  <2> QED BY <2>1, <2>2 DEF PlaceInv
<1> QED BY <1>1, <1>2

LEMMA ReleaseGives ==
  ASSUME PTypes, PlaceInv, NEW b \in PBuffers, b \notin ToSet(pPool), Release(b)
  PROVE  /\ pPool' \in Seq(PBuffers) /\ IsInjective(pPool')
         /\ ToSet(pPool)' = ToSet(pPool) \cup {b}
         /\ DOMAIN pLast' = DOMAIN pLast \cup {b}
         /\ pLast'[b] = pNow /\ \A x \in DOMAIN pLast : x # b => pLast'[x] = pLast[x]
         /\ pReturned' \in [PBuffers -> Nat]
         /\ pReturned'[b] = pNow /\ \A x \in PBuffers : x # b => pReturned'[x] = pReturned[x]
<1>1. pPool' = Append(pPool, b) BY DEF Release
<1>2. pPool' \in Seq(PBuffers) /\ IsInjective(pPool') /\ ToSet(pPool') = ToSet(pPool) \cup {b}
  BY <1>1, AppendFresh DEF PTypes, PlaceInv
<1>3. pLast' = [x \in DOMAIN pLast \cup {b} |-> IF x = b THEN pNow ELSE pLast[x]]
  BY DEF Release
<1>4. pReturned' = [pReturned EXCEPT ![b] = pNow] BY DEF Release
<1>5. /\ pReturned' \in [PBuffers -> Nat] /\ pReturned'[b] = pNow
      /\ \A x \in PBuffers : x # b => pReturned'[x] = pReturned[x]
  BY <1>4 DEF PTypes
<1>6. DOMAIN pLast' = DOMAIN pLast \cup {b} BY <1>3
<1>7. pLast'[b] = pNow /\ \A x \in DOMAIN pLast : x # b => pLast'[x] = pLast[x] BY <1>3
<1> QED BY <1>2, <1>5, <1>6, <1>7

LEMMA CleanGives ==
  ASSUME PTypes, PlaceInv, PCleanExpiredBuffers
  PROVE  LET expired == {b \in ToSet(pPool) : pNow - pLast[b] > PExpiry}
         IN  /\ pPool' \in Seq(PBuffers) /\ IsInjective(pPool')
             /\ ToSet(pPool)' = ToSet(pPool) \ expired
             /\ DOMAIN pLast' = DOMAIN pLast \ expired
             /\ \A b \in DOMAIN pLast \ expired : pLast'[b] = pLast[b]
<1> DEFINE expired == {b \in ToSet(pPool) : pNow - pLast[b] > PExpiry}
<1>1. /\ Leaves(pPool, {i \in DOMAIN pPool : pPool[i] \notin expired}, pPool')
      /\ pLast' = [b \in DOMAIN pLast \ expired |-> pLast[b]]
  BY DEF PCleanExpiredBuffers
<1> HIDE DEF expired
<1>2. pPool \in Seq(PBuffers) /\ IsInjective(pPool) BY DEF PTypes, PlaceInv
<1>3. pPool' \in Seq(PBuffers) /\ IsInjective(pPool') /\ ToSet(pPool') = ToSet(pPool) \ expired
  BY <1>1, <1>2, LeavesRest
<1> QED BY <1>1, <1>3 DEF expired

-----------------------------------------------------------------------------
(* The connections *)

LEMMA WorkersFinite ==
  /\ IsFiniteSet(PWorkers)
  /\ Cardinality(PWorkers) = IF 1 > PThreads - PLoops THEN 0 ELSE PThreads - PLoops
<1>1. 1 \in Int /\ PThreads - PLoops \in Int BY PoolAssumption
<1> DEFINE n == PThreads - PLoops
<1> HIDE DEF n
<1>2. n \in Int => IsFiniteSet(1..n) /\ Cardinality(1..n) = IF 1 > n THEN 0 ELSE n - 1 + 1
  BY FS_Interval
<1>3. n \in Int /\ PWorkers = 1..n BY <1>1 DEF n, PWorkers
<1>4. n - 1 + 1 = n BY <1>3
<1> QED BY <1>2, <1>3, <1>4 DEF n

LEMMA HoldersFinite ==
  /\ IsFiniteSet(Holding) /\ Cardinality(Holding) \in Nat
  /\ IsFiniteSet(Doubles) /\ Cardinality(Doubles) \in Nat
  /\ Cardinality(Holding) <= Cardinality(PWorkers)
<1>1. Holding \subseteq PWorkers /\ Doubles \subseteq PWorkers BY DEF Holding, Doubles
<1> QED BY <1>1, WorkersFinite, FS_Subset, FS_CardinalityType

\* A worker changes its place, and what it holds is taken from or given back to pFree.
LEMMA ConnMove ==
  ASSUME PTypes, ConnInv, NEW w \in PWorkers, NEW to \in Places, pFree' \in Nat,
         DOMAIN pTask' = PWorkers, pTask'[w].at = to,
         \A v \in PWorkers : v # w => pTask'[v] = pTask[v],
         \/ pTask[w].at \in {"idle", "first"} /\ to \in {"idle", "first"} /\ pFree' = pFree
         \/ pTask[w].at \in {"one", "second"} /\ to \in {"one", "second"} /\ pFree' = pFree
         \/ pTask[w].at = "first" /\ to = "one" /\ pFree' = pFree - 1
         \/ pTask[w].at = "second" /\ to = "two" /\ pFree' = pFree - 1
         \/ pTask[w].at = "one" /\ to = "idle" /\ pFree' = pFree + 1
         \/ pTask[w].at = "two" /\ to = "idle" /\ pFree' = pFree + 2
  PROVE  ConnInv'
<1> DEFINE from == pTask[w].at  H == Holding  D == Doubles  H1 == Holding'  D1 == Doubles'
           h == Cardinality(H)  d == Cardinality(D)
<1>1. IsFiniteSet(H) /\ h \in Nat /\ IsFiniteSet(D) /\ d \in Nat BY HoldersFinite
<1>2. pFree \in Nat /\ pFree + h + d = PConns BY DEF PTypes, ConnInv
<1>3. /\ w \in H <=> from \in {"one", "second", "two"}
      /\ w \in D <=> from = "two"
      /\ w \in H1 <=> to \in {"one", "second", "two"}
      /\ w \in D1 <=> to = "two"
      /\ \A v \in PWorkers : v # w => (v \in H1 <=> v \in H) /\ (v \in D1 <=> v \in D)
      /\ H \subseteq PWorkers /\ D \subseteq PWorkers /\ H1 \subseteq PWorkers /\ D1 \subseteq PWorkers
  BY DEF Holding, Doubles
<1>4. ConnInv' <=> pFree' + Cardinality(H1) + Cardinality(D1) = PConns
  BY DEF ConnInv
<1> HIDE DEF from, H, D, H1, D1
<1>5. \/ from \in {"idle", "first"} /\ to \in {"idle", "first"} /\ pFree' = pFree
      \/ from \in {"one", "second"} /\ to \in {"one", "second"} /\ pFree' = pFree
      \/ from = "first" /\ to = "one" /\ pFree' = pFree - 1
      \/ from = "second" /\ to = "two" /\ pFree' = pFree - 1
      \/ from = "one" /\ to = "idle" /\ pFree' = pFree + 1
      \/ from = "two" /\ to = "idle" /\ pFree' = pFree + 2
  BY DEF from
<1>6. \A x : /\ x \notin H => Cardinality(H \cup {x}) = h + 1
             /\ x \in H => Cardinality(H \ {x}) = h - 1
             /\ x \notin D => Cardinality(D \cup {x}) = d + 1
             /\ x \in D => Cardinality(D \ {x}) = d - 1
  BY <1>1, FS_AddElement, FS_RemoveElement
<1> HIDE DEF h, d
<1>7. CASE \/ from \in {"idle", "first"} /\ to \in {"idle", "first"} /\ pFree' = pFree
           \/ from \in {"one", "second"} /\ to \in {"one", "second"} /\ pFree' = pFree
  <2>1. (w \in H1 <=> w \in H) /\ (w \in D1 <=> w \in D) BY <1>3, <1>7
  <2>2. \A v \in PWorkers : (v \in H1 <=> v \in H) /\ (v \in D1 <=> v \in D) BY <1>3, <2>1
  <2>3. H1 = H /\ D1 = D BY <1>3, <2>2
  <2>4. Cardinality(H1) = h /\ Cardinality(D1) = d BY <2>3 DEF h, d
  <2> QED BY <1>2, <1>4, <1>7, <2>4
<1>8. CASE from = "first" /\ to = "one" /\ pFree' = pFree - 1
  <2>1. H1 = H \cup {w} /\ w \notin H /\ D1 = D BY <1>3, <1>8
  <2>2. Cardinality(H1) = h + 1 /\ Cardinality(D1) = d BY <1>6, <2>1 DEF d
  <2> QED BY <1>1, <1>2, <1>4, <1>8, <2>2
<1>9. CASE from = "second" /\ to = "two" /\ pFree' = pFree - 1
  <2>1. H1 = H /\ w \notin D /\ D1 = D \cup {w} BY <1>3, <1>9
  <2>2. Cardinality(H1) = h /\ Cardinality(D1) = d + 1 BY <1>6, <2>1 DEF h
  <2> QED BY <1>1, <1>2, <1>4, <1>9, <2>2
<1>10. CASE from = "one" /\ to = "idle" /\ pFree' = pFree + 1
  <2>1. H1 = H \ {w} /\ w \in H /\ D1 = D BY <1>3, <1>10
  <2>2. Cardinality(H1) = h - 1 /\ Cardinality(D1) = d BY <1>6, <2>1 DEF d
  <2> QED BY <1>1, <1>2, <1>4, <1>10, <2>2
<1>11. CASE from = "two" /\ to = "idle" /\ pFree' = pFree + 2
  <2>1. H1 = H \ {w} /\ w \in H /\ D1 = D \ {w} /\ w \in D BY <1>3, <1>11
  <2>2. Cardinality(H1) = h - 1 /\ Cardinality(D1) = d - 1 BY <1>6, <2>1
  <2> QED BY <1>1, <1>2, <1>4, <1>11, <2>2
<1> QED BY <1>5, <1>7, <1>8, <1>9, <1>10, <1>11

-----------------------------------------------------------------------------
(* The steps *)

LEMMA InitPools == PInit => PInv
<1> SUFFICES ASSUME PInit PROVE PInv
  OBVIOUS
<1>1. PICK b \in PBuffers : pPool = <<b>> /\ pLast = [x \in {b} |-> 0] BY DEF PInit
<1>2. pPool \in Seq(PBuffers) /\ ToSet(pPool) = {b} /\ IsInjective(pPool)
  BY <1>1 DEF ToSet, IsInjective
<1>3. pQueued \in Seq(PBuffers) /\ ToSet(pQueued) = {} /\ IsInjective(pQueued)
  BY DEF PInit, ToSet, IsInjective
<1>4. NoBuffer # b BY PoolAssumption
<1>5. PTypes BY <1>1, <1>2, <1>3, PoolAssumption DEF PInit, PTypes, AtRest, Places
<1>6. TaskInv BY DEF PInit, TaskInv, AtRest
<1>7. PlaceInv BY <1>2, <1>3, <1>4 DEF PInit, PlaceInv, AtRest
<1>8. StampInv BY <1>1, <1>2 DEF PInit, StampInv
<1>9. ConnInv
  <2>1. Holding = {} /\ Doubles = {} BY DEF PInit, Holding, Doubles, AtRest
  <2> QED BY <2>1, FS_EmptySet, PoolAssumption DEF PInit, ConnInv
<1> QED BY <1>5, <1>6, <1>7, <1>8, <1>9 DEF PInv

\* A step that leaves the connections and the tasks as they are.
LEMMA ConnKept == ConnInv /\ pFree' = pFree /\ pTask' = pTask => ConnInv'
BY DEF ConnInv, Holding, Doubles

LEMMA FrameKeeps == PInv /\ PFrame => PInv'
<1> SUFFICES ASSUME PInv, PFrame PROVE PInv'
  OBVIOUS
<1> USE DEF PInv
<1>1. PICK b \in PBuffers : Acquire(b) /\ pQueued' = Append(pQueued, b) BY DEF PFrame
<1>2. /\ pPool' \in Seq(PBuffers) /\ IsInjective(pPool')
      /\ ToSet(pPool)' \subseteq ToSet(pPool)
      /\ b \notin ToSet(pPool)' /\ b \notin ToSet(pQueued)
      /\ \A w \in PWorkers : pTask[w].buffer # b
  BY <1>1, AcquireGives
<1>3. pQueued' \in Seq(PBuffers) /\ ToSet(pQueued') = ToSet(pQueued) \cup {b} /\ IsInjective(pQueued')
  BY <1>1, <1>2, AppendFresh DEF PTypes, PlaceInv
<1>4. UNCHANGED <<pFree, pTask, pLast, pNow, pReturned>> BY DEF PFrame
<1>5. PTypes' BY <1>2, <1>3, <1>4 DEF PTypes
<1>6. TaskInv' BY <1>4 DEF TaskInv
<1>7. PlaceInv'
  <2>1. \A x \in ToSet(pPool)' : x \notin ToSet(pQueued)' BY <1>2, <1>3 DEF PlaceInv
  <2>2. \A w \in PWorkers : pTask'[w].buffer \notin ToSet(pPool)' \cup ToSet(pQueued)'
    BY <1>2, <1>3, <1>4 DEF PlaceInv
  <2> QED BY <1>2, <1>3, <1>4, <2>1, <2>2 DEF PlaceInv
<1>8. StampInv' BY <1>2, <1>4 DEF StampInv
<1> QED BY <1>4, <1>5, <1>6, <1>7, <1>8, ConnKept

LEMMA CleanKeeps == PInv /\ PCleanExpiredBuffers => PInv'
<1> SUFFICES ASSUME PInv, PCleanExpiredBuffers PROVE PInv'
  OBVIOUS
<1> USE DEF PInv
<1> DEFINE expired == {b \in ToSet(pPool) : pNow - pLast[b] > PExpiry}
<1>1. /\ pPool' \in Seq(PBuffers) /\ IsInjective(pPool')
      /\ ToSet(pPool)' = ToSet(pPool) \ expired
      /\ DOMAIN pLast' = DOMAIN pLast \ expired
      /\ \A b \in DOMAIN pLast \ expired : pLast'[b] = pLast[b]
  BY CleanGives
<1> HIDE DEF expired
<1>2. UNCHANGED <<pFree, pTask, pQueued, pNow, pReturned>> BY DEF PCleanExpiredBuffers
<1>3. PTypes' BY <1>1, <1>2 DEF PTypes
<1>4. TaskInv' BY <1>2 DEF TaskInv
<1>5. PlaceInv' BY <1>1, <1>2 DEF PlaceInv
<1>6. StampInv' BY <1>1, <1>2 DEF StampInv
<1> QED BY <1>2, <1>3, <1>4, <1>5, <1>6, ConnKept

LEMMA TakeKeeps == ASSUME PInv, NEW w \in PWorkers, PTake(w) PROVE PInv'
<1> USE DEF PInv
<1> DEFINE b == Head(pQueued)
<1>1. /\ b \in PBuffers /\ Tail(pQueued) \in Seq(PBuffers) /\ IsInjective(Tail(pQueued))
      /\ ToSet(pQueued) = ToSet(Tail(pQueued)) \cup {b} /\ b \notin ToSet(Tail(pQueued))
  BY TailRest DEF PTake, PTypes, PlaceInv
<1>2. /\ pTask[w] = AtRest /\ pTask' = [pTask EXCEPT ![w] = [at |-> "first", buffer |-> b]]
      /\ pQueued' = Tail(pQueued) /\ UNCHANGED <<pFree, pPool, pLast, pReturned, pNow>>
  BY DEF PTake, pBufs
<1> HIDE DEF b
<1>3. /\ pTask'[w] = [at |-> "first", buffer |-> b] /\ DOMAIN pTask' = PWorkers
      /\ \A v \in PWorkers : v # w => pTask'[v] = pTask[v]
  BY <1>2 DEF PTypes
<1>4. PTypes' BY <1>1, <1>2 DEF PTypes, Places
<1>5. b # NoBuffer BY <1>1, PoolAssumption
<1>6. TaskInv' BY <1>3, <1>5 DEF TaskInv
<1>7. PlaceInv'
  <2>1. ASSUME NEW v \in PWorkers, v # w PROVE pTask[v].buffer # b /\ pTask'[v] = pTask[v]
    BY <1>1, <1>3, <2>1 DEF PlaceInv
  <2>2. b \notin ToSet(pPool) BY <1>1 DEF PlaceInv
  <2>3. \A v \in PWorkers : pTask'[v].buffer \notin ToSet(pPool)' \cup ToSet(pQueued)'
    BY <1>1, <1>2, <1>3, <2>1, <2>2 DEF PlaceInv
  <2>4. ASSUME NEW u \in PWorkers, NEW v \in PWorkers, u # v, pTask'[u].buffer # NoBuffer
        PROVE  pTask'[u].buffer # pTask'[v].buffer
    <3>1. CASE u = w BY <1>3, <2>1, <2>4, <3>1
    <3>2. CASE v = w BY <1>3, <2>1, <2>4, <3>2
    <3>3. CASE u # w /\ v # w BY <2>1, <2>4, <3>3 DEF PlaceInv
    <3> QED BY <3>1, <3>2, <3>3
  <2>5. \A x \in ToSet(pPool)' : x \notin ToSet(pQueued)' BY <1>1, <1>2 DEF PlaceInv
  <2> QED BY <1>1, <1>2, <2>3, <2>4, <2>5 DEF PlaceInv
<1>8. StampInv' BY <1>2 DEF StampInv
<1>9. ConnInv'
  <2>1. pTask[w].at = "idle" /\ pTask'[w].at = "first" /\ pFree' \in Nat /\ "first" \in Places
    BY <1>2, <1>3 DEF AtRest, PTypes, Places
  <2> QED BY <1>2, <1>3, <2>1, ConnMove
<1> QED BY <1>4, <1>6, <1>7, <1>8, <1>9

\* A task that goes on keeps its buffer.
LEMMA StepKeeps ==
  ASSUME PInv, NEW w \in PWorkers, NEW from \in {"first", "one", "second"},
         NEW to \in {"one", "second", "two"}, Step(w, from, to),
         \/ from = "one" /\ to = "second" /\ pFree' = pFree
         \/ pFree > 0 /\ pFree' = pFree - 1 /\ from = "first" /\ to = "one"
         \/ pFree > 0 /\ pFree' = pFree - 1 /\ from = "second" /\ to = "two",
         UNCHANGED <<pQueued, pPool, pLast, pReturned, pNow>>
  PROVE  PInv'
<1> USE DEF PInv
<1>1. /\ pTask[w].at = from /\ pTask'[w].at = to /\ pTask'[w].buffer = pTask[w].buffer
      /\ DOMAIN pTask' = PWorkers
      /\ \A v \in PWorkers : v # w => pTask'[v] = pTask[v]
  BY PlacesOf DEF Step, PTypes
<1>2. pTask' \in [PWorkers -> [at : Places, buffer : PBuffers \cup {NoBuffer}]]
  <2>1. [pTask[w] EXCEPT !.at = to] \in [at : Places, buffer : PBuffers \cup {NoBuffer}]
    BY PlacesOf DEF Places
  <2> QED BY <2>1 DEF Step, PTypes
<1>3. pFree' \in Nat BY DEF PTypes
<1>4. PTypes' BY <1>2, <1>3 DEF PTypes
<1>5. \A v \in PWorkers : pTask'[v].buffer = pTask[v].buffer BY <1>1
<1>6. TaskInv' BY <1>1, <1>5 DEF TaskInv
<1>7. PlaceInv' BY <1>5 DEF PlaceInv
<1>8. StampInv' BY DEF StampInv
<1>9. ConnInv'
  <2>1. to \in Places BY DEF Places
  <2> QED BY <1>1, <1>3, <2>1, ConnMove
<1> QED BY <1>4, <1>6, <1>7, <1>8, <1>9

LEMMA FreeKeeps == ASSUME PInv, NEW w \in PWorkers, PFreeConn(w) PROVE PInv'
<1> USE DEF PInv
<1> DEFINE b == pTask[w].buffer
<1>1. /\ pTask[w].at \in {"one", "two"} /\ Release(b)
      /\ pTask' = [pTask EXCEPT ![w] = AtRest] /\ UNCHANGED <<pQueued, pNow>>
      /\ pFree' = pFree + (IF pTask[w].at = "two" THEN 2 ELSE 1)
  BY DEF PFreeConn
<1>2. b \in PBuffers /\ b # NoBuffer BY <1>1, PlacesOf
<1>3. b \notin ToSet(pPool) /\ b \notin ToSet(pQueued) BY DEF PlaceInv
<1> HIDE DEF b
<1>4. /\ pPool' \in Seq(PBuffers) /\ IsInjective(pPool')
      /\ ToSet(pPool)' = ToSet(pPool) \cup {b}
      /\ DOMAIN pLast' = DOMAIN pLast \cup {b}
      /\ pLast'[b] = pNow /\ \A x \in DOMAIN pLast : x # b => pLast'[x] = pLast[x]
      /\ pReturned' \in [PBuffers -> Nat]
      /\ pReturned'[b] = pNow /\ \A x \in PBuffers : x # b => pReturned'[x] = pReturned[x]
  BY <1>1, <1>2, <1>3, ReleaseGives
<1>5. /\ pTask'[w] = AtRest /\ DOMAIN pTask' = PWorkers
      /\ \A v \in PWorkers : v # w => pTask'[v] = pTask[v]
  BY <1>1 DEF PTypes
<1>6. pTask' \in [PWorkers -> [at : Places, buffer : PBuffers \cup {NoBuffer}]]
  BY <1>1 DEF PTypes, AtRest, Places
<1>7. pFree' \in Nat BY <1>1 DEF PTypes
<1>8. PTypes' BY <1>1, <1>2, <1>4, <1>6, <1>7 DEF PTypes
<1>9. TaskInv' BY <1>5 DEF TaskInv, AtRest
<1>10. PlaceInv'
  <2>1. NoBuffer \notin PBuffers BY PoolAssumption
  <2>2. pTask'[w].buffer = NoBuffer BY <1>5 DEF AtRest
  <2>3. ASSUME NEW v \in PWorkers, v # w PROVE pTask[v].buffer # b /\ pTask'[v] = pTask[v]
    BY <1>2, <1>5, <2>3 DEF PlaceInv, b
  <2>4. ToSet(pPool)' \subseteq PBuffers /\ ToSet(pQueued)' \subseteq PBuffers
    BY <1>8, SeqIs DEF PTypes
  <2>5. \A v \in PWorkers : pTask'[v].buffer \notin ToSet(pPool)' \cup ToSet(pQueued)'
    BY <1>1, <1>4, <2>1, <2>2, <2>3, <2>4 DEF PlaceInv
  <2>6. ASSUME NEW u \in PWorkers, NEW v \in PWorkers, u # v, pTask'[u].buffer # NoBuffer
        PROVE  pTask'[u].buffer # pTask'[v].buffer
    <3>1. u # w BY <2>2, <2>6
    <3>2. CASE v = w BY <2>2, <2>6, <3>2
    <3>3. CASE v # w BY <2>3, <2>6, <3>1, <3>3 DEF PlaceInv
    <3> QED BY <3>2, <3>3
  <2>7. \A x \in ToSet(pPool)' : x \notin ToSet(pQueued)' BY <1>1, <1>3, <1>4 DEF PlaceInv
  <2> QED BY <1>1, <1>4, <2>5, <2>6, <2>7 DEF PlaceInv
<1>11. StampInv'
  <2> SUFFICES ASSUME NEW x \in ToSet(pPool)' PROVE x \in DOMAIN pLast' /\ pLast'[x] = pReturned'[x]
    BY DEF StampInv
  <2>1. CASE x = b BY <1>4, <2>1
  <2>2. CASE x # b
    <3>1. x \in ToSet(pPool) /\ x \in PBuffers BY <1>4, <2>2, SeqIs DEF PTypes
    <3> QED BY <1>4, <2>2, <3>1 DEF StampInv
  <2> QED BY <2>1, <2>2
<1>12. ConnInv'
  <2>1. pTask'[w].at = "idle" /\ "idle" \in Places BY <1>5 DEF AtRest, Places
  <2>2. CASE pTask[w].at = "one"
    <3>1. pFree' = pFree + 1 BY <1>1, <2>2
    <3> QED BY <1>5, <1>7, <2>1, <2>2, <3>1, ConnMove
  <2>3. CASE pTask[w].at = "two"
    <3>1. pFree' = pFree + 2 BY <1>1, <2>3
    <3> QED BY <1>5, <1>7, <2>1, <2>3, <3>1, ConnMove
  <2> QED BY <1>1, <2>2, <2>3
<1> QED BY <1>8, <1>9, <1>10, <1>11, <1>12

LEMMA PoolStep == PInv /\ [PNext]_pVars => PInv'
<1> SUFFICES ASSUME PInv, [PNext]_pVars PROVE PInv'
  OBVIOUS
<1>1. CASE PFrame BY <1>1, FrameKeeps
<1>2. CASE PCleanExpiredBuffers BY <1>2, CleanKeeps
<1>3. CASE PTick
  <2>1. UNCHANGED <<pFree, pTask, pQueued, pPool, pLast, pReturned>> /\ pNow' = pNow + 1
    BY <1>3 DEF PTick, pBufs
  <2>2. PTypes' BY <2>1 DEF PInv, PTypes
  <2>3. TaskInv' /\ PlaceInv' /\ StampInv' BY <2>1 DEF PInv, TaskInv, PlaceInv, StampInv
  <2> QED BY <2>1, <2>2, <2>3, ConnKept DEF PInv
<1>4. ASSUME NEW w \in PWorkers, PTake(w) PROVE PInv'
  BY <1>4, TakeKeeps
<1>5. ASSUME NEW w \in PWorkers, PGetConn(w) PROVE PInv'
  BY <1>5, StepKeeps DEF PGetConn, pBufs
<1>6. ASSUME NEW w \in PWorkers, PQuick(w) PROVE PInv'
  BY <1>6, StepKeeps DEF PQuick, pBufs
<1>7. ASSUME NEW w \in PWorkers, PFreeConn(w) PROVE PInv'
  BY <1>7, FreeKeeps
<1>8. CASE UNCHANGED pVars
  <2>1. UNCHANGED <<pFree, pTask, pQueued, pPool, pLast, pReturned, pNow>> BY <1>8 DEF pVars
  <2>2. PTypes' /\ TaskInv' /\ PlaceInv' /\ StampInv'
    BY <2>1 DEF PInv, PTypes, TaskInv, PlaceInv, StampInv
  <2> QED BY <2>1, <2>2, ConnKept DEF PInv
<1> QED BY <1>1, <1>2, <1>3, <1>4, <1>5, <1>6, <1>7, <1>8 DEF PNext

LEMMA PoolInv == PSpec => []PInv
BY InitPools, PoolStep, PTL DEF PSpec

\* The pool's variables keep their types, and no more connections are free than made.
THEOREM PoolTypes == PSpec => []PTypeOK
<1>1. ASSUME PInv PROVE PTypeOK
  <2>1. pFree \in 0..PConns
    BY <1>1, HoldersFinite, PoolAssumption DEF PInv, PTypes, ConnInv
  <2>2. ToSet(pPool) \subseteq PBuffers /\ ToSet(pQueued) \subseteq PBuffers
    BY <1>1, SeqIs DEF PInv, PTypes
  <2>3. Held \subseteq PBuffers
    <3>1. ASSUME NEW x \in Held PROVE x \in PBuffers
      <4>1. x \in ToSet(pQueued) \/ \E w \in PWorkers : x = pTask[w].buffer BY <3>1 DEF Held
      <4>2. x # NoBuffer BY <3>1 DEF Held
      <4>3. ASSUME NEW w \in PWorkers PROVE pTask[w].buffer \in PBuffers \cup {NoBuffer}
        BY <1>1, PlacesOf DEF PInv
      <4> QED BY <2>2, <4>1, <4>2, <4>3
    <3> QED BY <3>1
  <2> QED BY <1>1, <2>1, <2>2, <2>3 DEF PTypeOK, PInv, PTypes
<1> QED BY <1>1, PoolInv, PTL

\* Tasks that each hold a connection while they wait for a second one never hold
\* them all, as SqlConnPool has more connections than there are threads for tasks:
\* were none free and no task able to end, each of them would hold at most one.
THEOREM SomeoneMoves == PSpec => []PSomeoneMoves
<1>1. ASSUME PInv PROVE PSomeoneMoves
  <2> SUFFICES ASSUME NEW w \in PWorkers, pFree = 0,
                      \A v \in PWorkers : pTask[v].at \notin {"one", "two"}
               PROVE  FALSE
    BY <1>1 DEF PInv, PTypes, PSomeoneMoves
  <2>1. Doubles = {} BY DEF Doubles
  <2>2. Cardinality(Doubles) = 0 BY <2>1, FS_EmptySet
  <2>3. Cardinality(Holding) = PConns
    BY <1>1, <2>2, HoldersFinite DEF PInv, ConnInv
  <2>4. PThreads - PLoops >= 1 BY PoolAssumption DEF PWorkers
  <2>5. Cardinality(PWorkers) = PThreads - PLoops BY <2>4, WorkersFinite, PoolAssumption
  <2> QED BY <2>3, <2>5, HoldersFinite, PoolAssumption
<1> QED BY <1>1, PoolInv, PTL

\* A buffer is in the pool once, or with one message, whoever acquires and releases.
THEOREM OneBufferOwner == PSpec => []POneOwner
<1>1. ASSUME PInv PROVE POneOwner
  <2>1. ToSet(pPool) \cap Held = {}
    BY <1>1 DEF PInv, PlaceInv, Held
  <2> QED BY <1>1, <2>1 DEF PInv, PlaceInv, POneOwner
<1> QED BY <1>1, PoolInv, PTL

\* Only cleanExpiredBuffers frees a buffer, and only one that has lain in the pool
\* for more than the hour since it was last given back.
THEOREM FreedIdle == PSpec => PFreedIdle
<1>1. ASSUME PInv, PInv', [PNext]_pVars
      PROVE  [\A b \in ToSet(pPool) :
                b \in ToSet(pPool)' \/ b \in Held' \/ pNow - pReturned[b] > PExpiry]_pVars
  <2> SUFFICES ASSUME PNext, NEW b \in ToSet(pPool), b \notin ToSet(pPool)', b \notin Held'
               PROVE  pNow - pReturned[b] > PExpiry
    BY <1>1
  <2>1. PTypes /\ PlaceInv /\ StampInv /\ TaskInv BY <1>1 DEF PInv
  <2>2. CASE PFrame
    <3>1. PICK x \in PBuffers : Acquire(x) /\ pQueued' = Append(pQueued, x) BY <2>2 DEF PFrame
    <3>2. b = x BY <2>1, <3>1, AcquireGives
    <3>3. x \in ToSet(pQueued')
      BY <2>1, <3>1, AcquireGives, AppendFresh DEF PTypes
    <3>4. x # NoBuffer BY PoolAssumption
    <3> QED BY <3>2, <3>3, <3>4 DEF Held
  <2>3. CASE PCleanExpiredBuffers
    <3>1. pNow - pLast[b] > PExpiry BY <2>1, <2>3, CleanGives
    <3> QED BY <2>1, <3>1 DEF StampInv
  <2>4. CASE PTick BY <2>4 DEF PTick, pBufs
  <2>5. ASSUME NEW w \in PWorkers, PTake(w) \/ PGetConn(w) \/ PQuick(w) PROVE FALSE
    BY <2>5 DEF PTake, PGetConn, PQuick, pBufs
  <2>6. ASSUME NEW w \in PWorkers, PFreeConn(w) PROVE FALSE
    <3>1. Release(pTask[w].buffer) /\ pTask[w].at # "idle" BY <2>6 DEF PFreeConn
    <3>2. pTask[w].buffer \in PBuffers /\ pTask[w].buffer \notin ToSet(pPool)
      BY <2>1, <3>1, PlacesOf DEF PlaceInv
    <3> QED BY <2>1, <3>1, <3>2, ReleaseGives
  <2> QED BY <2>2, <2>3, <2>4, <2>5, <2>6 DEF PNext
<1> QED BY <1>1, PoolInv, PTL DEF PSpec, PFreedIdle

-----------------------------------------------------------------------------
(* The log: the inductive invariant *)

Files   == (1..LDays) \X ({"first"} \cup Nat)
LinesOut == [seq : 1..LMaxSeq, direct : BOOLEAN, file : Files]
Spots   == [at : {"out", "check", "change", "append"}, day : 1..LDays]

LTypes ==
  /\ lDay \in 1..LDays /\ lPlace \in [LThreads -> Spots]
  /\ lToDay \in 1..LDays /\ lCount \in Nat /\ lFile \in Files
  /\ lDeque \in Seq(1..LMaxSeq) /\ Len(lDeque) <= LCapacity
  /\ lHand \in 0..LMaxSeq /\ lOut \in Seq(LinesOut) /\ lNext \in 1..(LMaxSeq + 1)

InFile(n)  == \E i \in DOMAIN lOut : lOut[i].seq = n
InQueue(n) == \E i \in DOMAIN lDeque : lDeque[i] = n

\* What is queued is in order, after the line in hand, and in no file yet.
QueueInv ==
  /\ \A i, j \in DOMAIN lDeque : i < j => lDeque[i] < lDeque[j]
  /\ \A i \in DOMAIN lDeque :
       lDeque[i] < lNext /\ lHand < lDeque[i] /\ ~InFile(lDeque[i])
  /\ lHand < lNext /\ ~InFile(lHand)

FileInv ==
  /\ \A i, j \in DOMAIN lOut : lOut[i].seq = lOut[j].seq => i = j
  /\ \A i \in DOMAIN lOut : lOut[i].seq < lNext

AllInv == \A n \in 1..(lNext - 1) : InFile(n) \/ n = lHand \/ InQueue(n)

LInv == LTypes /\ QueueInv /\ FileInv /\ AllInv /\ LOrder

-----------------------------------------------------------------------------
(* Sequences *)

LEMMA AppendHas ==
  ASSUME NEW S, NEW s \in Seq(S), NEW e \in S
  PROVE  /\ Append(s, e) \in Seq(S) /\ Len(Append(s, e)) = Len(s) + 1
         /\ DOMAIN s = 1..Len(s) /\ Len(s) \in Nat
         /\ DOMAIN Append(s, e) = 1..(Len(s) + 1)
         /\ Append(s, e)[Len(s) + 1] = e
         /\ \A i \in 1..Len(s) : Append(s, e)[i] = s[i]
         /\ \A i \in 1..(Len(s) + 1) : i \in 1..Len(s) \/ i = Len(s) + 1
         /\ Len(s) + 1 \in 1..(Len(s) + 1)
         /\ \A i \in 1..Len(s) : i \in 1..(Len(s) + 1) /\ i < Len(s) + 1
<1>1. Len(s) \in Nat /\ DOMAIN s = 1..Len(s) OBVIOUS
<1>2. /\ Append(s, e) \in Seq(S) /\ Len(Append(s, e)) = Len(s) + 1
      /\ DOMAIN Append(s, e) = 1..(Len(s) + 1)
      /\ Append(s, e)[Len(s) + 1] = e
      /\ \A i \in 1..Len(s) : Append(s, e)[i] = s[i]
  OBVIOUS
<1>3. /\ \A i \in 1..(Len(s) + 1) : i \in 1..Len(s) \/ i = Len(s) + 1
      /\ Len(s) + 1 \in 1..(Len(s) + 1)
      /\ \A i \in 1..Len(s) : i \in 1..(Len(s) + 1) /\ i < Len(s) + 1
  BY <1>1
<1> QED BY <1>1, <1>2, <1>3

LEMMA TailHas ==
  ASSUME NEW S, NEW s \in Seq(S), s # <<>>
  PROVE  /\ Head(s) \in S /\ Head(s) = s[1] /\ 1 \in DOMAIN s
         /\ Tail(s) \in Seq(S) /\ Len(Tail(s)) = Len(s) - 1
         /\ \A i \in DOMAIN Tail(s) : /\ i + 1 \in DOMAIN s /\ Tail(s)[i] = s[i + 1]
                                      /\ i \in Nat /\ 1 < i + 1
         /\ \A i \in DOMAIN s : i # 1 => i - 1 \in DOMAIN Tail(s) /\ Tail(s)[i - 1] = s[i]
<1> DEFINE t == Tail(s)  n == Len(s)
<1>1. /\ n \in Nat /\ n > 0 /\ DOMAIN s = 1..n /\ Head(s) = s[1] /\ Head(s) \in S
      /\ t \in Seq(S) /\ Len(t) = n - 1
  OBVIOUS
<1>2. DOMAIN t = 1..(n - 1) /\ \A i \in 1..(n - 1) : t[i] = s[i + 1] BY <1>1
<1> HIDE DEF t, n
<1>3. ASSUME NEW i \in 1..n, i # 1 PROVE i - 1 \in 1..(n - 1) /\ t[i - 1] = s[i]
  <2>1. i - 1 \in 1..(n - 1) /\ (i - 1) + 1 = i BY <1>1, <1>3
  <2> QED BY <1>2, <2>1
<1>4. \A i \in 1..(n - 1) : i + 1 \in 1..n /\ i \in Nat /\ 1 < i + 1 BY <1>1
<1>5. 1 \in 1..n BY <1>1
<1>6. \A i \in DOMAIN t : i + 1 \in DOMAIN s /\ t[i] = s[i + 1] /\ i \in Nat /\ 1 < i + 1
  BY <1>1, <1>2, <1>4
<1>7. ASSUME NEW i \in DOMAIN s, i # 1 PROVE i - 1 \in DOMAIN t /\ t[i - 1] = s[i]
  <2>1. i \in 1..n BY <1>1
  <2> QED BY <1>2, <1>3, <1>7, <2>1
<1> QED BY <1>1, <1>5, <1>6, <1>7, Zenon DEF t, n

LEMMA LineSeqIs ==
  ASSUME NEW S, NEW s \in Seq(S)
  PROVE  /\ Len(s) \in Nat /\ DOMAIN s = 1..Len(s)
         /\ \A i \in DOMAIN s : s[i] \in S /\ i \in Nat
<1>1. Len(s) \in Nat /\ DOMAIN s = 1..Len(s) /\ s \in [1..Len(s) -> S] OBVIOUS
<1> QED BY <1>1

-----------------------------------------------------------------------------
(* Steps *)

LEMMA LineIs ==
  ASSUME LTypes
  PROVE  /\ \A i \in DOMAIN lDeque : lDeque[i] \in 1..LMaxSeq /\ i \in Nat
         /\ \A i \in DOMAIN lOut : lOut[i] \in LinesOut /\ lOut[i].seq \in 1..LMaxSeq /\ i \in Nat
         /\ LMaxSeq \in Nat /\ LCapacity \in Nat /\ LMaxLines \in Nat \ {0}
<1>1. LMaxSeq \in Nat /\ LCapacity \in Nat /\ LMaxLines \in Nat \ {0} BY LogAssumption
<1>2. \A i \in DOMAIN lDeque : lDeque[i] \in 1..LMaxSeq /\ i \in Nat BY LineSeqIs DEF LTypes
<1>3. \A i \in DOMAIN lOut : lOut[i] \in LinesOut /\ i \in Nat BY LineSeqIs DEF LTypes
<1> QED BY <1>1, <1>2, <1>3 DEF LinesOut

\* Steps that do not touch the lines.
LEMMA LinesKept ==
  ASSUME QueueInv, FileInv, AllInv, LOrder, UNCHANGED <<lDeque, lHand, lOut, lNext>>
  PROVE  QueueInv' /\ FileInv' /\ AllInv' /\ LOrder'
BY SMTT(20) DEF QueueInv, FileInv, AllInv, LOrder, Overtaken, InFile, InQueue

LEMMA WriteKeeps == ASSUME LInv, NEW t \in LThreads, LWrite(t) PROVE LInv'
<1>1. LTypes' BY DEF LInv, LWrite, LTypes, Spots, lFileVars, lLines
<1>2. UNCHANGED <<lDeque, lHand, lOut, lNext>> BY DEF LWrite, lLines
<1> QED BY <1>1, <1>2, LinesKept DEF LInv

LEMMA CheckKeeps == ASSUME LInv, NEW t \in LThreads, LCheck(t) PROVE LInv'
<1>1. UNCHANGED <<lDeque, lHand, lOut, lNext, lDay, lToDay, lCount, lFile>>
  BY DEF LCheck, lLines, lFileVars
<1>2. PICK at \in {"change", "append"} : lPlace' = [lPlace EXCEPT ![t].at = at]
  <2>1. CASE lToDay # lPlace[t].day \/ (lCount # 0 /\ lCount % LMaxLines = 0)
    BY <2>1 DEF LCheck
  <2>2. CASE ~(lToDay # lPlace[t].day \/ (lCount # 0 /\ lCount % LMaxLines = 0))
    BY <2>2 DEF LCheck
  <2> QED BY <2>1, <2>2
<1>3. lPlace' \in [LThreads -> Spots] BY <1>2 DEF LInv, LTypes, Spots
<1>4. LTypes' BY <1>1, <1>3 DEF LInv, LTypes
<1> QED BY <1>1, <1>4, LinesKept DEF LInv

LEMMA ChangeKeeps == ASSUME LInv, NEW t \in LThreads, LChangeFile(t) PROVE LInv'
<1>1. UNCHANGED <<lDeque, lHand, lOut, lNext, lDay>> /\ lPlace' = [lPlace EXCEPT ![t].at = "append"]
  BY DEF LChangeFile, lLines
<1>2. lPlace' \in [LThreads -> Spots] BY <1>1 DEF LInv, LTypes, Spots
<1>3. lPlace[t].day \in 1..LDays BY DEF LInv, LTypes, Spots
<1>4. lToDay' \in 1..LDays /\ lCount' \in Nat /\ lFile' \in Files
  <2>1. CASE lToDay # lPlace[t].day
    <3>1. lToDay' = lPlace[t].day /\ lCount' = 0 /\ lFile' = <<lPlace[t].day, "first">>
      BY <2>1 DEF LChangeFile
    <3> QED BY <1>3, <3>1 DEF Files
  <2>2. CASE lToDay = lPlace[t].day
    <3>1. UNCHANGED <<lToDay, lCount>> /\ lFile' = <<lPlace[t].day, lCount \div LMaxLines>>
      BY <2>2 DEF LChangeFile
    <3>2. lCount \div LMaxLines \in Nat BY LogAssumption DEF LInv, LTypes
    <3> QED BY <1>3, <3>1, <3>2 DEF Files, LInv, LTypes
  <2> QED BY <2>1, <2>2
<1>5. LTypes' BY <1>1, <1>2, <1>4 DEF LInv, LTypes
<1> QED BY <1>1, <1>5, LinesKept DEF LInv

\* A line is added to what files have: those before it see no more and no less.
LEMMA OutGrows ==
  ASSUME LTypes, LOrder, NEW m \in LinesOut, lOut' = Append(lOut, m)
  PROVE  /\ lOut' \in Seq(LinesOut)
         /\ \A n : InFile(n)' <=> InFile(n) \/ n = m.seq
         /\ \A i \in DOMAIN lOut' : \/ i \in DOMAIN lOut /\ lOut'[i] = lOut[i]
                                    \/ i = Len(lOut) + 1 /\ lOut'[i] = m
         /\ \A i \in DOMAIN lOut : i # Len(lOut) + 1
         /\ {n \in 1..(m.seq - 1) : ~InFile(n)} = {} \/
              (m.direct /\ IsFiniteSet({n \in 1..(m.seq - 1) : ~InFile(n)})
                 /\ Cardinality({n \in 1..(m.seq - 1) : ~InFile(n)}) <= LCapacity + 1)
            => LOrder'
<1> DEFINE n == Len(lOut)
<1>1. /\ lOut' \in Seq(LinesOut) /\ DOMAIN lOut = 1..n /\ n \in Nat
      /\ DOMAIN lOut' = 1..(n + 1) /\ lOut'[n + 1] = m
      /\ \A i \in 1..n : lOut'[i] = lOut[i]
      /\ \A i \in 1..(n + 1) : i \in 1..n \/ i = n + 1
      /\ n + 1 \in 1..(n + 1)
      /\ \A i \in 1..n : i \in 1..(n + 1) /\ i < n + 1
  BY AppendHas DEF LTypes
<1> HIDE DEF n
<1>2. ASSUME NEW k PROVE InFile(k)' <=> InFile(k) \/ k = m.seq
  <2>1. ASSUME InFile(k) PROVE InFile(k)' BY <1>1, <2>1 DEF InFile
  <2>2. ASSUME k = m.seq PROVE InFile(k)' BY <1>1, <2>2 DEF InFile
  <2>3. ASSUME InFile(k)' PROVE InFile(k) \/ k = m.seq
    <3>1. PICK i \in 1..(n + 1) : lOut'[i].seq = k BY <1>1, <2>3 DEF InFile
    <3>2. CASE i \in 1..n BY <1>1, <3>1, <3>2 DEF InFile
    <3>3. CASE i = n + 1 BY <1>1, <3>1, <3>3
    <3> QED BY <1>1, <3>2, <3>3
  <2> QED BY <2>1, <2>2, <2>3
<1>3. ASSUME {k \in 1..(m.seq - 1) : ~InFile(k)} = {} \/
              (m.direct /\ IsFiniteSet({k \in 1..(m.seq - 1) : ~InFile(k)})
                 /\ Cardinality({k \in 1..(m.seq - 1) : ~InFile(k)}) <= LCapacity + 1)
      PROVE  LOrder'
  <2> DEFINE O(i) == {k \in 1..(lOut'[i].seq - 1) : \A j \in 1..i : lOut'[j].seq # k}
  <2>1. ASSUME NEW i \in 1..n PROVE O(i) = Overtaken(i) /\ lOut'[i] = lOut[i]
    <3>1. \A j \in 1..i : j \in 1..n BY <1>1
    <3> QED BY <1>1, <3>1 DEF Overtaken
  <2>2. O(n + 1) \subseteq {k \in 1..(m.seq - 1) : ~InFile(k)}
    <3> SUFFICES ASSUME NEW k \in O(n + 1) PROVE k \in 1..(m.seq - 1) /\ ~InFile(k)
      OBVIOUS
    <3>1. k \in 1..(m.seq - 1) /\ \A j \in 1..(n + 1) : lOut'[j].seq # k BY <1>1
    <3> QED BY <1>1, <3>1 DEF InFile
  <2>3. LOrder' <=> \A i \in 1..(n + 1) :
          /\ O(i) # {} => lOut'[i].direct
          /\ Cardinality(O(i)) <= LCapacity + 1
    BY <1>1, Zenon DEF LOrder, Overtaken
  <2>4. ASSUME NEW i \in 1..n
        PROVE  (O(i) # {} => lOut'[i].direct) /\ Cardinality(O(i)) <= LCapacity + 1
    BY <1>1, <2>1, <2>4 DEF LOrder
  <2> HIDE DEF O
  <2>5. (O(n + 1) # {} => lOut'[n + 1].direct) /\ Cardinality(O(n + 1)) <= LCapacity + 1
    <3>1. CASE {k \in 1..(m.seq - 1) : ~InFile(k)} = {}
      <4>1. O(n + 1) = {} BY <2>2, <3>1
      <4> QED BY <4>1, FS_EmptySet, LogAssumption
    <3>2. CASE m.direct /\ IsFiniteSet({k \in 1..(m.seq - 1) : ~InFile(k)})
               /\ Cardinality({k \in 1..(m.seq - 1) : ~InFile(k)}) <= LCapacity + 1
      <4> DEFINE R == {k \in 1..(m.seq - 1) : ~InFile(k)}
      <4>1. IsFiniteSet(R) /\ Cardinality(R) <= LCapacity + 1 /\ O(n + 1) \subseteq R BY <2>2, <3>2
      <4> HIDE DEF R
      <4>2. Cardinality(O(n + 1)) <= Cardinality(R) /\ IsFiniteSet(O(n + 1)) BY <4>1, FS_Subset
      <4>3. Cardinality(R) \in Nat /\ Cardinality(O(n + 1)) \in Nat
        BY <4>1, <4>2, FS_CardinalityType
      <4>4. Cardinality(O(n + 1)) <= LCapacity + 1 BY <4>1, <4>2, <4>3, LogAssumption
      <4> QED BY <1>1, <3>2, <4>4
    <3> QED BY <1>3, <3>1, <3>2
  <2>6. ASSUME NEW i \in 1..(n + 1)
        PROVE  (O(i) # {} => lOut'[i].direct) /\ Cardinality(O(i)) <= LCapacity + 1
    <3>1. CASE i \in 1..n BY <2>4, <3>1
    <3>2. CASE i = n + 1 BY <2>5, <3>2, Zenon
    <3> QED BY <1>1, <3>1, <3>2
  <2> QED BY <2>3, <2>6, Zenon
<1>4. ASSUME NEW i \in DOMAIN lOut'
      PROVE  \/ i \in DOMAIN lOut /\ lOut'[i] = lOut[i]
             \/ i = n + 1 /\ lOut'[i] = m
  <2>1. i \in 1..n \/ i = n + 1 BY <1>1
  <2>2. CASE i \in 1..n BY <1>1, <2>2
  <2>3. CASE i = n + 1 BY <1>1, <2>3
  <2> QED BY <2>1, <2>2, <2>3
<1>5. \A i \in DOMAIN lOut : i # n + 1 BY <1>1
<1> QED BY <1>1, <1>2, <1>3, <1>4, <1>5 DEF n

\* No file has a line that is not yet queued, and the queue and the writer's hand
\* have all that no file has.
LEMMA MissingFew ==
  ASSUME LInv
  PROVE  LET missing == {n \in 1..(lNext - 1) : ~InFile(n)}
         IN  IsFiniteSet(missing) /\ Cardinality(missing) <= LCapacity + 1
<1> DEFINE missing == {n \in 1..(lNext - 1) : ~InFile(n)}
           queued  == {lDeque[i] : i \in DOMAIN lDeque}
           k == Len(lDeque)
           f == [i \in 1..k |-> lDeque[i]]
<1>1. k \in Nat /\ DOMAIN lDeque = 1..k /\ k <= LCapacity BY LineSeqIs DEF LInv, LTypes
<1> HIDE DEF k
<1>2. f \in Surjection(1..k, queued)
  <2>1. f \in [1..k -> queued] BY <1>1
  <2>2. \A x \in queued : \E i \in 1..k : f[i] = x BY <1>1
  <2> QED BY <2>1, <2>2 DEF Surjection
<1>3. IsFiniteSet(1..k) /\ Cardinality(1..k) = k
  <2>1. IsFiniteSet(1..k) /\ Cardinality(1..k) = IF 1 > k THEN 0 ELSE k - 1 + 1
    BY <1>1, FS_Interval
  <2> QED BY <1>1, <2>1
<1> HIDE DEF f, queued
<1>4. IsFiniteSet(queued) /\ Cardinality(queued) <= k BY <1>2, <1>3, FS_Surjection
<1>5. IsFiniteSet(queued \cup {lHand}) /\ Cardinality(queued \cup {lHand}) <= Cardinality(queued) + 1
  <2>1. Cardinality(queued) \in Nat BY <1>4, FS_CardinalityType
  <2>2. /\ IsFiniteSet(queued \cup {lHand})
        /\ Cardinality(queued \cup {lHand})
             = IF lHand \in queued THEN Cardinality(queued) ELSE Cardinality(queued) + 1
    BY <1>4, FS_AddElement
  <2> QED BY <2>1, <2>2
<1>6. missing \subseteq queued \cup {lHand} BY DEF LInv, AllInv, InQueue, queued
<1> HIDE DEF missing
<1>7. IsFiniteSet(missing) /\ Cardinality(missing) <= Cardinality(queued \cup {lHand})
  BY <1>5, <1>6, FS_Subset
<1>8. /\ Cardinality(queued) \in Nat /\ Cardinality(queued \cup {lHand}) \in Nat
      /\ Cardinality(missing) \in Nat
  BY <1>4, <1>5, <1>7, FS_CardinalityType
<1>9. Cardinality(missing) <= LCapacity + 1 BY <1>1, <1>4, <1>5, <1>7, <1>8, LogAssumption
<1> QED BY <1>7, <1>9 DEF missing

LEMMA AppendKeeps == ASSUME LInv, NEW t \in LThreads, LAppend(t) PROVE LInv'
<1>1. /\ lNext \in 1..LMaxSeq /\ lNext' = lNext + 1 /\ lNext' \in 1..(LMaxSeq + 1)
      /\ lCount' = lCount + 1 /\ lCount' \in Nat
      /\ UNCHANGED <<lDay, lToDay, lFile, lHand>>
      /\ lPlace' \in [LThreads -> Spots]
  BY LogAssumption DEF LInv, LTypes, LAppend, At0, Spots
<1>2. LTypes /\ QueueInv /\ FileInv /\ AllInv /\ LOrder BY DEF LInv
<1>3. ~InFile(lNext) /\ lHand \in Nat /\ lHand < lNext
  BY <1>1, <1>2 DEF FileInv, QueueInv, InFile, LTypes
<1>4. \A n \in 1..(lNext' - 1) : n \in 1..(lNext - 1) \/ n = lNext BY <1>1
<1>5. CASE ~Full
  <2>1. lDeque' = Append(lDeque, lNext) /\ lOut' = lOut BY <1>5 DEF LAppend
  <2> DEFINE k == Len(lDeque)
  <2>2. /\ lDeque' \in Seq(1..LMaxSeq) /\ Len(lDeque') = k + 1 /\ k \in Nat
        /\ DOMAIN lDeque = 1..k /\ DOMAIN lDeque' = 1..(k + 1)
        /\ lDeque'[k + 1] = lNext /\ \A i \in 1..k : lDeque'[i] = lDeque[i]
        /\ \A i \in 1..(k + 1) : i \in 1..k \/ i = k + 1
        /\ k + 1 \in 1..(k + 1)
        /\ \A i \in 1..k : i \in 1..(k + 1) /\ i < k + 1
    BY <1>1, <1>2, <2>1, AppendHas DEF LTypes
  <2>3. k + 1 <= LCapacity BY <1>5, <2>2, LogAssumption DEF Full
  <2> HIDE DEF k
  <2>4. LTypes' BY <1>1, <1>2, <2>1, <2>2, <2>3 DEF LTypes
  <2>5. \A n : InFile(n)' <=> InFile(n) BY <2>1 DEF InFile
  <2>6. \A i \in 1..k : lDeque[i] < lNext /\ lDeque[i] \in Nat /\ lHand < lDeque[i] /\ ~InFile(lDeque[i])
    <3>1. \A i \in DOMAIN lDeque : lDeque[i] < lNext /\ lHand < lDeque[i] /\ ~InFile(lDeque[i])
      BY <1>2 DEF QueueInv
    <3>2. \A i \in DOMAIN lDeque : lDeque[i] \in Nat
      BY <1>2, LineIs
    <3> QED BY <2>2, <3>1, <3>2
  <2>7. QueueInv'
    <3>1. ASSUME NEW i \in 1..(k + 1), NEW j \in 1..(k + 1), i < j
          PROVE  lDeque'[i] < lDeque'[j]
      <4>1. i \in 1..k BY <2>2, <3>1
      <4>2. CASE j \in 1..k BY <1>2, <2>2, <3>1, <4>1, <4>2 DEF QueueInv
      <4>3. CASE j = k + 1 BY <2>2, <2>6, <4>1, <4>3
      <4> QED BY <2>2, <4>2, <4>3
    <3>2. ASSUME NEW i \in 1..(k + 1)
          PROVE  lDeque'[i] < lNext' /\ lHand' < lDeque'[i] /\ ~InFile(lDeque'[i])
      <4>1. CASE i \in 1..k BY <1>1, <2>2, <2>6, <4>1
      <4>2. CASE i = k + 1 BY <1>1, <1>3, <2>2, <4>2
      <4> QED BY <2>2, <4>1, <4>2
    <3>3. lHand' < lNext' /\ ~InFile(lHand') BY <1>1, <1>2, <1>3 DEF QueueInv
    <3> QED BY <2>1, <2>2, <3>1, <3>2, <3>3 DEF QueueInv, InFile
  <2>8. FileInv' BY <1>1, <1>2, <2>1, LineIs DEF FileInv
  <2>9. AllInv'
    <3> SUFFICES ASSUME NEW n \in 1..(lNext' - 1) PROVE InFile(n)' \/ n = lHand' \/ InQueue(n)'
      BY DEF AllInv
    <3>1. CASE n = lNext BY <2>2, <3>1 DEF InQueue
    <3>2. CASE n \in 1..(lNext - 1)
      <4>1. InFile(n) \/ n = lHand \/ InQueue(n) BY <1>2, <3>2 DEF AllInv
      <4>2. ASSUME InQueue(n) PROVE InQueue(n)' BY <2>2, <4>2 DEF InQueue
      <4> QED BY <1>1, <2>5, <4>1, <4>2
    <3> QED BY <1>4, <3>1, <3>2
  <2>10. LOrder' BY <1>2, <2>1 DEF LOrder, Overtaken
  <2> QED BY <2>4, <2>7, <2>8, <2>9, <2>10 DEF LInv
<1>6. CASE Full
  <2> DEFINE m == LWritten(lNext, TRUE)
  <2>1. lOut' = Append(lOut, m) /\ lDeque' = lDeque BY <1>6 DEF LAppend
  <2>2. m \in LinesOut /\ m.seq = lNext /\ m.direct = TRUE
    BY <1>1, <1>2 DEF LWritten, LinesOut, LTypes
  <2>3. m.direct BY <2>2
  <2> HIDE DEF m
  <2>4. /\ IsFiniteSet({n \in 1..(m.seq - 1) : ~InFile(n)})
        /\ Cardinality({n \in 1..(m.seq - 1) : ~InFile(n)}) <= LCapacity + 1
    BY <2>2, MissingFew
  <2>5. /\ lOut' \in Seq(LinesOut) /\ LOrder'
        /\ \A n : InFile(n)' <=> InFile(n) \/ n = lNext
        /\ \A i \in DOMAIN lOut' : \/ i \in DOMAIN lOut /\ lOut'[i] = lOut[i]
                                   \/ i = Len(lOut) + 1 /\ lOut'[i] = m
    BY <1>2, <2>1, <2>2, <2>3, <2>4, OutGrows
  <2>6. LTypes' BY <1>1, <1>2, <2>1, <2>5 DEF LTypes
  <2>7. QueueInv'
    <3>1. ASSUME NEW i \in DOMAIN lDeque
          PROVE  lDeque[i] < lNext' /\ lHand' < lDeque[i] /\ ~(InFile(lDeque[i]) \/ lDeque[i] = lNext)
      BY <1>1, <1>2, LineIs DEF QueueInv
    <3>2. ASSUME NEW i \in DOMAIN lDeque' PROVE ~InFile(lDeque[i])'
      BY <2>1, <2>5, <3>1
    <3>3. lHand' < lNext' /\ ~InFile(lHand)'
      <4>1. ~(InFile(lHand) \/ lHand = lNext) BY <1>1, <1>2, <1>3 DEF QueueInv
      <4>2. ~InFile(lHand') BY <1>1, <4>1
      <4> QED BY <1>1, <1>3, <2>5, <4>1
    <3> QED BY <1>2, <2>1, <3>1, <3>2, <3>3 DEF QueueInv
  <2>8. FileInv'
    <3>1. ASSUME NEW i \in DOMAIN lOut' PROVE lOut'[i].seq < lNext'
      BY <1>1, <1>2, <2>2, <2>5, LineIs DEF FileInv
    <3>2. ASSUME NEW i \in DOMAIN lOut', NEW j \in DOMAIN lOut', lOut'[i].seq = lOut'[j].seq
          PROVE  i = j
      <4>1. \A x \in DOMAIN lOut : lOut[x].seq # lNext BY <1>3 DEF InFile
      <4> QED BY <1>2, <2>2, <2>5, <3>2, <4>1 DEF FileInv
    <3> QED BY <3>1, <3>2 DEF FileInv
  <2>9. AllInv'
    <3>1. \A n : InQueue(n)' <=> InQueue(n) BY <2>1 DEF InQueue
    <3> QED BY <1>1, <1>2, <1>4, <2>5, <3>1 DEF AllInv
  <2> QED BY <2>5, <2>6, <2>7, <2>8, <2>9 DEF LInv
<1> QED BY <1>5, <1>6

LEMMA PopKeeps == LInv /\ LPop => LInv'
<1> SUFFICES ASSUME LInv, LPop PROVE LInv'
  OBVIOUS
<1>1. /\ lHand = 0 /\ lHand' = Head(lDeque) /\ lDeque' = Tail(lDeque)
      /\ lDeque \in Seq(1..LMaxSeq) /\ lDeque # <<>>
      /\ UNCHANGED <<lDay, lPlace, lToDay, lCount, lFile, lOut, lNext>>
  BY DEF LPop, Nothing, LInv, LTypes, lFileVars
<1>2. /\ lHand' \in 1..LMaxSeq /\ lHand' = lDeque[1] /\ 1 \in DOMAIN lDeque
      /\ lDeque' \in Seq(1..LMaxSeq) /\ Len(lDeque') = Len(lDeque) - 1
      /\ \A i \in DOMAIN lDeque' : /\ i + 1 \in DOMAIN lDeque /\ lDeque'[i] = lDeque[i + 1]
                                   /\ i \in Nat /\ 1 < i + 1
      /\ \A i \in DOMAIN lDeque : i # 1 => i - 1 \in DOMAIN lDeque' /\ lDeque'[i - 1] = lDeque[i]
  BY <1>1, TailHas
<1>3. LTypes /\ QueueInv /\ FileInv /\ AllInv /\ LOrder BY DEF LInv
<1>4. Len(lDeque') <= LCapacity
  <2>1. Len(lDeque) \in Nat /\ Len(lDeque) <= LCapacity BY <1>3, LineSeqIs DEF LTypes
  <2> QED BY <1>2, <2>1, LogAssumption
<1>5. LTypes' BY <1>1, <1>2, <1>3, <1>4 DEF LTypes
<1>6. QueueInv'
  <2>1. ASSUME NEW i \in DOMAIN lDeque', NEW j \in DOMAIN lDeque', i < j
        PROVE  lDeque'[i] < lDeque'[j]
    <3>1. i + 1 < j + 1 BY <1>2, <2>1
    <3> QED BY <1>2, <1>3, <3>1 DEF QueueInv
  <2>2. ASSUME NEW i \in DOMAIN lDeque'
        PROVE  lDeque'[i] < lNext' /\ lHand' < lDeque'[i] /\ ~InFile(lDeque'[i])
    BY <1>1, <1>2, <1>3 DEF QueueInv
  <2>3. lHand' < lNext' /\ ~InFile(lHand') BY <1>1, <1>2, <1>3 DEF QueueInv
  <2> QED BY <1>1, <2>1, <2>2, <2>3 DEF QueueInv, InFile
<1>7. FileInv' BY <1>1, <1>3 DEF FileInv
<1>8. AllInv'
  <2> SUFFICES ASSUME NEW n \in 1..(lNext' - 1) PROVE InFile(n)' \/ n = lHand' \/ InQueue(n)'
    BY DEF AllInv
  <2>1. InFile(n) \/ n = lHand \/ InQueue(n) BY <1>1, <1>3 DEF AllInv
  <2>2. n # lHand BY <1>1
  <2>3. CASE InFile(n) BY <1>1, <2>3 DEF InFile
  <2>4. CASE InQueue(n)
    <3>1. PICK i \in DOMAIN lDeque : lDeque[i] = n BY <2>4 DEF InQueue
    <3>2. CASE i = 1 BY <1>2, <3>1, <3>2
    <3>3. CASE i # 1 BY <1>2, <3>1, <3>3 DEF InQueue
    <3> QED BY <3>2, <3>3
  <2> QED BY <2>1, <2>2, <2>3, <2>4
<1>9. LOrder' BY <1>1, <1>3 DEF LOrder, Overtaken
<1> QED BY <1>5, <1>6, <1>7, <1>8, <1>9 DEF LInv

LEMMA PutKeeps == LInv /\ LPut => LInv'
<1> SUFFICES ASSUME LInv, LPut PROVE LInv'
  OBVIOUS
<1> DEFINE m == LWritten(lHand, FALSE)
<1>1. /\ lHand # 0 /\ lHand' = 0 /\ lOut' = Append(lOut, m)
      /\ UNCHANGED <<lDay, lPlace, lToDay, lCount, lFile, lDeque, lNext>>
  BY DEF LPut, Nothing, lFileVars
<1>2. LTypes /\ QueueInv /\ FileInv /\ AllInv /\ LOrder BY DEF LInv
<1>3. lHand \in 1..LMaxSeq /\ lHand < lNext /\ ~InFile(lHand) /\ lNext \in Nat
  BY <1>1, <1>2, LogAssumption DEF LTypes, QueueInv
<1>4. m \in LinesOut /\ m.seq = lHand BY <1>2, <1>3 DEF LWritten, LinesOut, LTypes
<1> HIDE DEF m
<1>5. {n \in 1..(m.seq - 1) : ~InFile(n)} = {}
  <2> SUFFICES ASSUME NEW n \in 1..(lHand - 1) PROVE InFile(n)
    BY <1>4
  <2>1. n \in 1..(lNext - 1) /\ n # lHand /\ n < lHand BY <1>3
  <2>2. ASSUME InQueue(n) PROVE FALSE
    <3>1. PICK i \in DOMAIN lDeque : lDeque[i] = n BY <2>2 DEF InQueue
    <3>2. lHand < n BY <1>2, <3>1 DEF QueueInv
    <3> QED BY <1>3, <2>1, <3>2
  <2> QED BY <1>2, <2>1, <2>2 DEF AllInv
<1>6. /\ lOut' \in Seq(LinesOut) /\ LOrder'
      /\ \A n : InFile(n)' <=> InFile(n) \/ n = lHand
      /\ \A i \in DOMAIN lOut' : \/ i \in DOMAIN lOut /\ lOut'[i] = lOut[i]
                                 \/ i = Len(lOut) + 1 /\ lOut'[i] = m
  BY <1>1, <1>2, <1>4, <1>5, OutGrows
<1>7. LTypes' BY <1>1, <1>2, <1>6, LogAssumption DEF LTypes
<1>8. FileInv'
  <2>1. ASSUME NEW i \in DOMAIN lOut' PROVE lOut'[i].seq < lNext'
    BY <1>1, <1>2, <1>3, <1>4, <1>6 DEF FileInv
  <2>2. ASSUME NEW i \in DOMAIN lOut', NEW j \in DOMAIN lOut', lOut'[i].seq = lOut'[j].seq
        PROVE  i = j
    <3>1. \A x \in DOMAIN lOut : lOut[x].seq # lHand BY <1>3 DEF InFile
    <3> QED BY <1>2, <1>4, <1>6, <2>2, <3>1 DEF FileInv
  <2> QED BY <2>1, <2>2 DEF FileInv
<1>9. QueueInv'
  <2>1. ASSUME NEW i \in DOMAIN lDeque
        PROVE  lDeque[i] < lNext' /\ lHand' < lDeque[i] /\ ~InFile(lDeque[i])'
    <3>1. /\ lDeque[i] < lNext /\ lHand < lDeque[i] /\ ~InFile(lDeque[i]) /\ lDeque[i] \in 1..LMaxSeq
      BY <1>2, LineIs DEF QueueInv
    <3>2. 0 < lDeque[i] /\ lDeque[i] # lHand BY <1>3, <3>1, LogAssumption
    <3> QED BY <1>1, <1>6, <3>1, <3>2
  <2>2. lHand' < lNext' BY <1>1, <1>3
  <2>3. ~InFile(0)'
    <3>1. \A i \in DOMAIN lOut' : lOut'[i].seq \in 1..LMaxSeq
      BY <1>2, <1>3, <1>4, <1>6, LineIs
    <3> QED BY <3>1, LogAssumption DEF InFile
  <2> QED BY <1>1, <1>2, <2>1, <2>2, <2>3 DEF QueueInv
<1>10. AllInv'
  <2>1. \A n : InQueue(n)' <=> InQueue(n) BY <1>1 DEF InQueue
  <2> QED BY <1>1, <1>2, <1>6, <2>1 DEF AllInv
<1> QED BY <1>6, <1>7, <1>8, <1>9, <1>10 DEF LInv

LEMMA InitLog == LInit => LInv
<1> SUFFICES ASSUME LInit PROVE LInv
  OBVIOUS
<1>1. /\ lDeque = <<>> /\ lOut = <<>> /\ lHand = 0 /\ lNext = 1
      /\ DOMAIN lDeque = {} /\ DOMAIN lOut = {} /\ Len(lDeque) = 0
  BY DEF LInit, Nothing
<1>2. LTypes
  BY <1>1, LogAssumption DEF LInit, LTypes, At0, Spots, Files, Nothing
<1>3. QueueInv /\ FileInv /\ AllInv /\ LOrder
  BY <1>1 DEF QueueInv, FileInv, AllInv, LOrder, InFile
<1> QED BY <1>2, <1>3 DEF LInv

LEMMA LogStep == LInv /\ [LNext]_lVars => LInv'
<1> SUFFICES ASSUME LInv, [LNext]_lVars PROVE LInv'
  OBVIOUS
<1>1. ASSUME NEW t \in LThreads, LWrite(t) PROVE LInv' BY <1>1, WriteKeeps
<1>2. ASSUME NEW t \in LThreads, LCheck(t) PROVE LInv' BY <1>2, CheckKeeps
<1>3. ASSUME NEW t \in LThreads, LChangeFile(t) PROVE LInv' BY <1>3, ChangeKeeps
<1>4. ASSUME NEW t \in LThreads, LAppend(t) PROVE LInv' BY <1>4, AppendKeeps
<1>5. CASE LPop BY <1>5, PopKeeps
<1>6. CASE LPut BY <1>6, PutKeeps
<1>7. CASE LMidnight
  <2>1. /\ UNCHANGED <<lPlace, lToDay, lCount, lFile, lDeque, lHand, lOut, lNext>>
        /\ lDay' \in 1..LDays
    BY <1>7, LogAssumption DEF LMidnight, lFileVars, lLines, LInv, LTypes
  <2>2. LTypes' BY <2>1 DEF LInv, LTypes
  <2> QED BY <2>1, <2>2, LinesKept DEF LInv
<1>8. CASE UNCHANGED lVars
  <2>1. UNCHANGED <<lDay, lPlace, lToDay, lCount, lFile, lDeque, lHand, lOut, lNext>>
    BY <1>8 DEF lVars
  <2>2. LTypes' BY <2>1 DEF LInv, LTypes
  <2> QED BY <2>1, <2>2, LinesKept DEF LInv
<1> QED BY <1>1, <1>2, <1>3, <1>4, <1>5, <1>6, <1>7, <1>8 DEF LNext

LEMMA LogInv == LSpec => []LInv
BY InitLog, LogStep, PTL DEF LSpec

\* The log's variables keep their types; the queue keeps to its capacity.
THEOREM LogTypes == LSpec => []LTypeOK
<1>1. LInv => LTypeOK BY DEF LInv, LTypes, LTypeOK
<1> QED BY <1>1, LogInv, PTL

\* Each line appended is in a file, in the queue or in the writer's hand, in one of
\* them and once, whatever changes of the file the threads make meanwhile.
THEOREM EachLineOnce == LSpec => []LOnce
<1>1. ASSUME LInv PROVE LOnce
  <2> SUFFICES ASSUME NEW n \in 1..(lNext - 1)
               PROVE  Cardinality({i \in DOMAIN lOut : lOut[i].seq = n})
                      + Cardinality({i \in DOMAIN lDeque : lDeque[i] = n})
                      + (IF lHand = n THEN 1 ELSE 0) = 1
    BY DEF LOnce
  <2> DEFINE A == {i \in DOMAIN lOut : lOut[i].seq = n}
             B == {i \in DOMAIN lDeque : lDeque[i] = n}
  <2>1. LTypes /\ QueueInv /\ FileInv /\ AllInv BY <1>1 DEF LInv
  <2>2. CASE InFile(n)
    <3>1. PICK i \in DOMAIN lOut : lOut[i].seq = n BY <2>2 DEF InFile
    <3>2. A = {i} BY <2>1, <3>1 DEF FileInv
    <3>3. B = {} /\ lHand # n BY <2>1, <2>2 DEF QueueInv
    <3>4. Cardinality(A) = 1 /\ Cardinality(B) = 0 BY <3>2, <3>3, FS_Singleton, FS_EmptySet
    <3> QED BY <3>3, <3>4
  <2>3. CASE ~InFile(n)
    <3>1. A = {} BY <2>3 DEF InFile
    <3>2. Cardinality(A) = 0 BY <3>1, FS_EmptySet
    <3>3. CASE lHand = n
      <4>1. B = {} BY <2>1, <3>3, LineIs DEF QueueInv
      <4>2. Cardinality(B) = 0 BY <4>1, FS_EmptySet
      <4> QED BY <3>2, <3>3, <4>2
    <3>4. CASE lHand # n
      <4>1. PICK i \in DOMAIN lDeque : lDeque[i] = n BY <2>1, <2>3, <3>4 DEF AllInv, InQueue
      <4>2. ASSUME NEW j \in DOMAIN lDeque, lDeque[j] = n PROVE j = i
        <5>1. ~(i < j) /\ ~(j < i) BY <2>1, <4>1, <4>2 DEF QueueInv
        <5>2. i \in Nat /\ j \in Nat BY <2>1, LineIs
        <5> QED BY <5>1, <5>2
      <4>3. B = {i} BY <4>1, <4>2
      <4>4. Cardinality(B) = 1 BY <4>3, FS_Singleton
      <4> QED BY <3>2, <3>4, <4>4
    <3> QED BY <3>3, <3>4
  <2> QED BY <2>2, <2>3
<1> QED BY <1>1, LogInv, PTL

\* A file has the lines in the order they were appended, but for those that found the
\* queue full, which pass at most the queue's capacity and the line in hand.
THEOREM OrderKept == LSpec => []LOrder
<1>1. LInv => LOrder BY DEF LInv
<1> QED BY <1>1, LogInv, PTL

-----------------------------------------------------------------------------
Sub == 0..(RSubs - 1)

\* The descriptors whose object in the main reactor is open.
OpenCons == {fd \in RFds : rMainCon[fd] = "open"}

-----------------------------------------------------------------------------
(* The reactors: the lowest free number *)

LEMMA LeastExists ==
  ASSUME NEW S \in SUBSET Nat, S # {}
  PROVE  \E x \in S : \A y \in S : x <= y
  <1>1. \E x \in S : \A y \in S : ~(<<y, x>> \in OpToRel(<, Nat))
    BY NatLessThanWellFounded, WFMin
  <1>2. \A x, y \in Nat : ~(<<y, x>> \in OpToRel(<, Nat)) => x <= y
    BY DEF OpToRel
  <1> QED
    BY <1>1, <1>2

LEMMA MinIsLeast ==
  ASSUME NEW S \in SUBSET Nat, S # {}
  PROVE  Min(S) \in S /\ \A y \in S : Min(S) <= y
  BY LeastExists DEF Min

LEMMA LowestFreeIsFree ==
  ASSUME RFds \ rOpen # {}
  PROVE  LowestFree \in RFds \ rOpen
  <1>1. RFds \ rOpen \in SUBSET Nat
    BY ReactorAssumption
  <1> QED
    BY <1>1, MinIsLeast DEF LowestFree

LEMMA SubOfIsSub ==
  ASSUME NEW fd \in RFds
  PROVE  SubOf(fd) \in Sub
  BY ReactorAssumption DEF SubOf, Sub

-----------------------------------------------------------------------------
(* The reactors: the inductive invariant *)

SubStates == [at : {"wait", "close", "count", "erase", "stray"}, fd : RFds \cup {0}]

\* RTypeOK taken apart, with the descriptor each sub-reactor is busy with.
RTypes ==
  /\ rBacklog \in 0..RMaxBacklog /\ rEdge \in BOOLEAN /\ rUndefined \in BOOLEAN
  /\ rMain \in {"wait", "accept"} /\ rCount \in Nat
  /\ rMainCon \in [RFds -> {"none", "open", "closed"}]
  /\ rOpen \subseteq RFds /\ rSubCon \subseteq RFds /\ rWatched \subseteq RFds
  /\ rGone \subseteq RFds /\ rLost \subseteq RFds
  /\ rSub \in [Sub -> SubStates]
  /\ \A s \in Sub : rSub[s].at # "wait" => rSub[s].fd \in RFds /\ SubOf(rSub[s].fd) = s

\* A watched connection and one about to be closed are open, as descriptor and as
\* object; between ::close and the count the number may be anybody's, but not that
\* of a new object; a refused descriptor is nobody's.
Stages ==
  /\ rWatched \subseteq rOpen \ rLost
  /\ rLost \subseteq rOpen
  /\ rOpen \ rLost \subseteq OpenCons
  /\ \A s \in Sub : rSub[s].at = "close" => rSub[s].fd \in (rOpen \ rLost) \ rWatched
  /\ \A s \in Sub : rSub[s].at = "count" => rSub[s].fd \in OpenCons /\ rSub[s].fd \notin rOpen \ rLost

\* Once an object was destroyed inside its close, or an assertion failed, the model has
\* stopped.
Accounts ==
  ~rUndefined => Stages /\ rCount = Cardinality(OpenCons) /\ rCount <= RMaxFd

RInv == RTypes /\ Accounts /\ RDrained

-----------------------------------------------------------------------------
(* Steps *)

LEMMA OpenConsFinite ==
  IsFiniteSet(OpenCons) /\ Cardinality(OpenCons) \in Nat
  BY ReactorAssumption, FS_Subset, FS_CardinalityType DEF OpenCons

LEMMA RInvInit == RInit => RInv
  <1> SUFFICES ASSUME RInit PROVE RInv
    OBVIOUS
  <1> USE ReactorAssumption DEF RInit
  <1>1. RTypes
    <2>1. Looping \in SubStates
      BY DEF Looping, SubStates
    <2>2. rSub \in [Sub -> SubStates] /\ \A s \in Sub : rSub[s] = Looping
      BY <2>1 DEF Sub
    <2>3. \A s \in Sub : rSub[s].at = "wait"
      BY <2>2 DEF Looping
    <2>4. rEdge \in BOOLEAN /\ rUndefined \in BOOLEAN
      OBVIOUS
    <2>5. rBacklog \in 0..RMaxBacklog /\ rMain \in {"wait", "accept"} /\ rCount \in Nat
      OBVIOUS
    <2>6. rMainCon \in [RFds -> {"none", "open", "closed"}]
      OBVIOUS
    <2>7. /\ rOpen \subseteq RFds /\ rSubCon \subseteq RFds /\ rWatched \subseteq RFds
          /\ rGone \subseteq RFds /\ rLost \subseteq RFds
      OBVIOUS
    <2> HIDE DEF RInit
    <2> QED
      BY <2>2, <2>3, <2>4, <2>5, <2>6, <2>7 DEF RTypes
  <1>2. OpenCons = {}
    BY DEF OpenCons
  <1>3. Stages
    BY <1>2 DEF Stages, Sub, Looping
  <1>4. rCount = Cardinality(OpenCons) /\ rCount <= RMaxFd
    BY <1>2, FS_EmptySet
  <1> QED
    BY <1>1, <1>3, <1>4 DEF RInv, Accounts, RDrained

\* The steps that touch neither connections nor sub-reactors.
LEMMA MainSteps ==
  ASSUME RInv, ~rUndefined, RConnect \/ RWake \/ RAgain \/ RHandshakeFails
  PROVE  RInv'
  <1> USE ReactorAssumption DEF RConnect, RWake, RAgain, RHandshakeFails, Accepted
  <1>1. UNCHANGED <<rOpen, rCons, rSub, rLost, rUndefined>>
    OBVIOUS
  <1>2. UNCHANGED <<rOpen, rCount, rMainCon, rSubCon, rWatched, rGone, rSub, rLost, rUndefined>>
    BY <1>1 DEF rCons
  <1>3. RTypes'
    <2>1. rBacklog' \in 0..RMaxBacklog /\ rMain' \in {"wait", "accept"}
      BY DEF RInv, RTypes
    <2>2. rEdge' \in BOOLEAN
      BY DEF RInv, RTypes
    <2> QED
      BY <1>2, <2>1, <2>2 DEF RInv, RTypes
  <1>4. Accounts'
    BY <1>2 DEF RInv, Accounts, Stages, OpenCons
  <1>5. RDrained'
    BY <1>2 DEF RInv, RDrained, RTypes
  <1> QED
    BY <1>3, <1>4, <1>5 DEF RInv

LEMMA HangUpStep ==
  ASSUME RInv, ~rUndefined, NEW fd \in RFds, RHangUp(fd)
  PROVE  RInv'
  <1> USE DEF RInv, RHangUp
  <1>1. RTypes'
    BY DEF RTypes
  <1>2. Accounts'
    BY DEF Accounts, Stages, OpenCons
  <1> QED
    BY <1>1, <1>2 DEF RDrained

LEMMA RefuseStep ==
  ASSUME RInv, ~rUndefined, RRefuse
  PROVE  RInv'
  <1> USE DEF RInv, RRefuse, Accepted, rCons
  <1>1. LowestFree \in RFds \ rOpen
    BY LowestFreeIsFree
  <1>2. RTypes'
    BY <1>1, ReactorAssumption DEF RTypes
  <1>3. OpenCons' = OpenCons
    BY DEF OpenCons
  <1>4. Stages'
    BY <1>1, <1>3 DEF Accounts, Stages
  <1>5. RDrained'
    BY DEF RDrained
  <1> QED
    BY <1>2, <1>3, <1>4, <1>5 DEF Accounts

\* A new connection on a number whose old object counts for it adds nothing.
LEMMA AddClientStep ==
  ASSUME RInv, ~rUndefined, RAddClient
  PROVE  RInv'
  <1> DEFINE fd == LowestFree
  <1> USE DEF RInv, RAddClient, Accepted
  <1>1. fd \in RFds \ rOpen
    BY LowestFreeIsFree
  <1>2. rCount \in Nat /\ Destruct(fd) \in {0, 1}
    BY DEF RTypes, Destruct
  <1>9. SubOf(fd) \in Sub
    BY <1>1, SubOfIsSub
  <1>10. /\ rSub' \in [Sub -> SubStates]
         /\ \A s \in Sub : rSub'[s].fd = rSub[s].fd
         /\ \A s \in Sub : rSub'[s].at = rSub[s].at \/ (rSub[s].at = "erase" /\ rSub'[s].at = "stray")
    <2>1. CASE Closing(fd, "erase")
      <3>1. rSub' = [rSub EXCEPT ![SubOf(fd)] = [at |-> "stray", fd |-> fd]]
        <4>1. rSub' = [rSub EXCEPT ![SubOf(fd)].at = "stray"]
          BY <2>1 DEF Destroyed
        <4>2. rSub[SubOf(fd)] = [at |-> "erase", fd |-> fd]
          BY <2>1 DEF Closing
        <4>3. [rSub[SubOf(fd)] EXCEPT !.at = "stray"] = [at |-> "stray", fd |-> fd]
          BY <4>2
        <4> QED
          BY ONLY <4>1, <4>3
      <3>2. [at |-> "stray", fd |-> fd] \in SubStates
        BY <1>1 DEF SubStates
      <3>3. \A s \in Sub : rSub'[s] = IF s = SubOf(fd) THEN [at |-> "stray", fd |-> fd] ELSE rSub[s]
        BY <1>9, <3>1 DEF RTypes
      <3>4. rSub[SubOf(fd)].at = "erase" /\ rSub[SubOf(fd)].fd = fd
        BY <2>1 DEF Closing
      <3>5. rSub' \in [Sub -> SubStates]
        BY <1>9, <3>1, <3>2 DEF RTypes
      <3> QED
        BY <1>9, <3>3, <3>4, <3>5
    <2>2. CASE ~Closing(fd, "erase")
      BY <2>2 DEF Destroyed, RTypes
    <2> QED
      BY <2>1, <2>2
  <1>3. RTypes'
    <2>1. rUndefined' \in BOOLEAN
      <3>1. rUndefined' = Closing(fd, "count")
        BY DEF Destroyed
      <3> QED
        BY <3>1, Zenon DEF Closing
    <2>2. \A s \in Sub : rSub'[s].at # "wait" => rSub'[s].fd \in RFds /\ SubOf(rSub'[s].fd) = s
      BY <1>10 DEF RTypes
    <2> QED
      BY <1>1, <1>2, <1>10, <2>1, <2>2, ReactorAssumption DEF RTypes
  <1>4. OpenCons' = OpenCons \cup {fd}
    BY <1>1 DEF OpenCons, RTypes
  <1>5. fd \in OpenCons <=> Destruct(fd) = 1
    BY <1>1 DEF OpenCons, Destruct
  <1>6. rCount' = Cardinality(OpenCons') /\ rCount' <= RMaxFd
    <2>1. Cardinality(OpenCons') =
            IF fd \in OpenCons THEN Cardinality(OpenCons) ELSE Cardinality(OpenCons) + 1
      BY <1>4, OpenConsFinite, FS_AddElement
    <2> QED
      BY <2>1, <1>2, <1>5, ReactorAssumption DEF Accounts, ConnectFull
  <1>7. ASSUME ~rUndefined' PROVE Stages'
    <2>1. ~Closing(fd, "count")
      BY <1>7 DEF Destroyed
    <2>2. \A s \in Sub : rSub[s].at = "count" => rSub[s].fd # fd
      <3> SUFFICES ASSUME NEW s \in Sub, rSub[s].at = "count", rSub[s].fd = fd PROVE FALSE
        OBVIOUS
      <3>1. SubOf(fd) = s /\ rSub[s] \in SubStates
        BY DEF RTypes
      <3>2. rSub[s] = [at |-> "count", fd |-> fd]
        BY <3>1 DEF SubStates
      <3> QED
        BY <2>1, <3>1, <3>2 DEF Closing
    <2>3. \A s \in Sub : rSub'[s].at \in {"close", "count"} => rSub'[s].at = rSub[s].at /\ rSub'[s].fd = rSub[s].fd
      BY <1>10
    <2>4. \A s \in Sub : rSub'[s].at = "close" => rSub'[s].fd \in (rOpen' \ rLost') \ rWatched'
      BY <1>1, <2>3 DEF Accounts, Stages
    <2>5. \A s \in Sub : rSub'[s].at = "count" => rSub'[s].fd \in OpenCons' /\ rSub'[s].fd \notin rOpen' \ rLost'
      BY <1>1, <1>4, <2>2, <2>3 DEF Accounts, Stages
    <2> QED
      BY <1>1, <1>4, <2>4, <2>5 DEF Accounts, Stages
  <1>8. RDrained'
    BY DEF RDrained
  <1> QED
    BY <1>3, <1>6, <1>7, <1>8 DEF Accounts

LEMMA DelFdStep ==
  ASSUME RInv, ~rUndefined, NEW fd \in RFds, RDelFd(fd)
  PROVE  RInv'
  <1> DEFINE s == SubOf(fd)
  <1> USE DEF RInv, RDelFd
  <1>1. s \in Sub
    BY SubOfIsSub
  <1>2. RTypes'
    BY <1>1 DEF RTypes, SubStates, Sub
  <1>3. OpenCons' = OpenCons
    BY DEF OpenCons
  <1>4. Stages'
    BY <1>1, <1>3 DEF Accounts, Stages, RTypes
  <1> QED
    BY <1>2, <1>3, <1>4 DEF Accounts, RDrained

LEMMA AssertStep ==
  ASSUME RInv, ~rUndefined, NEW fd \in RFds, RAssert(fd)
  PROVE  RInv'
  BY DEF RInv, RAssert, RTypes, Accounts, RDrained, rCons

LEMMA CloseFdStep ==
  ASSUME RInv, ~rUndefined, NEW s \in Sub, RCloseFd(s)
  PROVE  RInv'
  <1> USE DEF RInv, RCloseFd, At
  <1>1. rSub[s].fd \in RFds /\ SubOf(rSub[s].fd) = s
    BY DEF RTypes
  <1>2. RTypes'
    BY <1>1 DEF RTypes, SubStates, Sub
  <1>3. OpenCons' = OpenCons
    BY DEF OpenCons
  <1>4. Stages'
    BY <1>1, <1>3 DEF Accounts, Stages, RTypes
  <1> QED
    BY <1>2, <1>3, <1>4 DEF Accounts, RDrained

\* The object is closed that the number still names.
LEMMA CountDownStep ==
  ASSUME RInv, ~rUndefined, NEW s \in Sub, RCountDown(s)
  PROVE  RInv'
  <1> DEFINE fd == rSub[s].fd
  <1> USE DEF RInv, RCountDown, At
  <1>1. fd \in OpenCons /\ fd \notin rOpen \ rLost /\ fd \in RFds
    BY DEF Accounts, Stages, OpenCons
  <1>2. OpenCons' = OpenCons \ {fd}
    BY <1>1 DEF OpenCons, RTypes
  <1>3. Cardinality(OpenCons') = Cardinality(OpenCons) - 1
    BY <1>1, <1>2, OpenConsFinite, FS_RemoveElement
  <1>4. rCount' = Cardinality(OpenCons') /\ rCount' <= RMaxFd /\ rCount' \in Nat
    <2>1. Cardinality(OpenCons') \in Nat
      BY <1>2, OpenConsFinite, FS_RemoveElement, FS_CardinalityType
    <2> QED
      BY <1>3, <2>1, ReactorAssumption DEF Accounts, RTypes
  <1>5. RTypes'
    BY <1>1, <1>4 DEF RTypes, SubStates, Sub
  <1>6. Stages'
    <2>1. \A t \in Sub : t # s /\ rSub[t].at # "wait" => rSub[t].fd # fd
      BY DEF RTypes
    <2> QED
      BY <1>1, <1>2, <2>1 DEF Accounts, Stages, RTypes
  <1> QED
    BY <1>4, <1>5, <1>6 DEF Accounts, RDrained

LEMMA EraseStep ==
  ASSUME RInv, ~rUndefined, NEW s \in Sub, RErase(s)
  PROVE  RInv'
  <1> USE DEF RInv, RErase, Looping
  <1>1. RTypes'
    BY DEF RTypes, SubStates, Sub
  <1>2. Accounts'
    BY DEF Accounts, Stages, OpenCons, RTypes
  <1> QED
    BY <1>1, <1>2 DEF RDrained

LEMMA RInvStep == RInv /\ [RNext]_rVars => RInv'
  <1> SUFFICES ASSUME RInv, [RNext]_rVars PROVE RInv'
    OBVIOUS
  <1>1. CASE UNCHANGED rVars
    BY <1>1 DEF RInv, RTypes, Accounts, Stages, OpenCons, RDrained, rVars
  <1>2. CASE RNext
    BY <1>2, MainSteps, HangUpStep, RefuseStep, AddClientStep, DelFdStep, AssertStep, CloseFdStep,
       CountDownStep, EraseStep DEF RNext, Sub
  <1> QED
    BY <1>1, <1>2

LEMMA ReactorInvariant == RSpec => []RInv
  BY RInvInit, RInvStep, PTL DEF RSpec

-----------------------------------------------------------------------------
(* Theorems *)

\* Every variable of the reactors has its type; user_count never falls below zero,
\* although two threads take from it.
THEOREM ReactorTypes == RSpec => []RTypeOK
  <1>1. RTypes => {rEdge, rUndefined} \subseteq BOOLEAN
    BY DEF RTypes
  <1>2. RTypes => UNION {rOpen, rSubCon, rWatched, rGone, rLost} \subseteq RFds
    BY DEF RTypes
  <1>3. RTypes => \A s \in Sub : rSub[s].at \in {"wait", "close", "count", "erase", "stray"}
    BY DEF RTypes, SubStates
  <1>4. RInv => RTypeOK
    BY <1>1, <1>2, <1>3 DEF RInv, RTypes, RTypeOK, Sub
  <1> QED
    BY <1>4, ReactorInvariant, PTL

\* user_count is the number of connection objects that are open, whichever of the two
\* reactors closes them, also when a number comes back while closeCon has still to
\* erase its last owner.  Not covered: a number that comes back between the last
\* owner's ::close and its count, where the code closes the object twice.
THEOREM CountIsHonest == RSpec => []RCountHonest
  <1>1. RInv => RCountHonest
    BY DEF RInv, Accounts, OpenCons, RCountHonest
  <1> QED
    BY <1>1, ReactorInvariant, PTL

\* Never more than MAX_FD connections are served: each has an open object, and
\* those are counted.
THEOREM LimitIsKept == RSpec => []RLimit
  <1>1. ASSUME RInv, ~rUndefined
        PROVE  Cardinality(rOpen \ rLost) <= RMaxFd
    <2>1. rOpen \ rLost \in SUBSET OpenCons
      BY <1>1 DEF RInv, Accounts, Stages
    <2>2. /\ Cardinality(rOpen \ rLost) <= Cardinality(OpenCons)
          /\ Cardinality(rOpen \ rLost) \in Nat
      BY <2>1, OpenConsFinite, FS_Subset, FS_CardinalityType
    <2> QED
      BY <1>1, <2>2, OpenConsFinite, ReactorAssumption DEF RInv, Accounts
  <1>2. RInv => RLimit
    BY <1>1 DEF RLimit
  <1> QED
    BY <1>2, ReactorInvariant, PTL

\* A main reactor that sleeps with no event pending has left nobody in the backlog,
\* unless it has refused somebody.
THEOREM BacklogIsDrained == RSpec => []RDrained
  <1>1. RInv => RDrained
    BY DEF RInv
  <1> QED
    BY <1>1, ReactorInvariant, PTL
=============================================================================
