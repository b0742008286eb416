-------------------------------- MODULE Pools --------------------------------
(***************************************************************************)
(* What the server's threads share: the buffers of BufferPool, which grows *)
(* on demand and is cleaned of what has been idle, and the connections of  *)
(* SqlConnPool, which does not grow and is waited for.  A task holds the   *)
(* buffer of its message while it runs and a connection while it has a     *)
(* MyDB; a quick upload has two of those.                                  *)
(***************************************************************************)
EXTENDS Integers, Sequences, FiniteSets, SequencesExt

CONSTANTS
  PThreads,   \* threadNum
  PLoops,     \* sub_reactors_size: their loops never give a thread back
  PConns,     \* connPoolNum
  PBuffers,   \* addresses new may return
  PExpiry,    \* the hour after which a buffer is freed
  PMaxNow     \* bound of the clock

NoBuffer == "none"

\* The configuration shipped has 10 threads, 4 loops and 10 connections.
ASSUME PoolAssumption ==
  /\ PThreads \in Nat /\ PLoops \in Nat /\ PConns \in Nat
  /\ PConns > PThreads - PLoops
  /\ NoBuffer \notin PBuffers

PWorkers == 1..(PThreads - PLoops)

VARIABLES
  pFree,      \* connections in conn_queue_
  pTask,      \* per worker: [at, buffer]
  pQueued,    \* task_que_: buffers of messages framed and not yet taken
  pPool,      \* pool_
  pLast,      \* last_used_
  pNow,
  pReturned   \* history: when each buffer was last given back

pVars == <<pFree, pTask, pQueued, pPool, pLast, pNow, pReturned>>
pBufs == <<pPool, pLast, pReturned>>

Held == (ToSet(pQueued) \cup {pTask[w].buffer : w \in PWorkers}) \ {NoBuffer}
Allocated == Held \cup ToSet(pPool)
AtRest == [at |-> "idle", buffer |-> NoBuffer]

PInit ==
  /\ pFree = PConns /\ pTask = [w \in PWorkers |-> AtRest] /\ pQueued = <<>>
  /\ \E b \in PBuffers : pPool = <<b>> /\ pLast = [x \in {b} |-> 0]
  /\ pNow = 0 /\ pReturned = [b \in PBuffers |-> 0]

-----------------------------------------------------------------------------
(* BufferPool *)

\* Mutant: the oldest is looked at and not taken off.
AcquireShared(b) ==
  IF pPool = <<>> THEN b \in PBuffers \ Allocated /\ UNCHANGED pPool
  ELSE b = Last(pPool) /\ UNCHANGED pPool

\* acquire: the last one given back, or a new one.
Acquire(b) ==
  IF pPool = <<>> THEN b \in PBuffers \ Allocated /\ UNCHANGED pPool
  ELSE b = Last(pPool) /\ pPool' = Front(pPool)

\* Mutant: the time is that of the creation.
ReleaseUnstamped(b) ==
  /\ pPool' = Append(pPool, b)
  /\ pLast' = [x \in DOMAIN pLast \cup {b} |-> IF x \in DOMAIN pLast THEN pLast[x] ELSE pNow]
  /\ pReturned' = [pReturned EXCEPT ![b] = pNow]

Release(b) ==
  /\ pPool' = Append(pPool, b)
  /\ pLast' = [x \in DOMAIN pLast \cup {b} |-> IF x = b THEN pNow ELSE pLast[x]]
  /\ pReturned' = [pReturned EXCEPT ![b] = pNow]

\* What erase leaves of s: the elements at the indices kept, in their order.
Leaves(s, kept, rest) ==
  \E n \in 0..Len(s) : \E index \in [1..n -> kept] :
    /\ \A i, j \in 1..n : i < j => index[i] < index[j]
    /\ \A k \in kept : \E i \in 1..n : index[i] = k
    /\ rest = [i \in 1..n |-> s[index[i]]]

PCleanExpiredBuffers ==
  /\ LET expired == {b \in ToSet(pPool) : pNow - pLast[b] > PExpiry}
     IN  /\ expired # {}
         /\ Leaves(pPool, {i \in DOMAIN pPool : pPool[i] \notin expired}, pPool')
         /\ pLast' = [b \in DOMAIN pLast \ expired |-> pLast[b]]
  /\ UNCHANGED <<pFree, pTask, pQueued, pNow, pReturned>>

PTick ==
  /\ pNow < PMaxNow /\ pNow' = pNow + 1
  /\ UNCHANGED <<pFree, pTask, pQueued, pBufs>>

-----------------------------------------------------------------------------
(* A message, its task and its connections *)

\* handleClientData copies the message and queues it.
PFrame ==
  /\ \E b \in PBuffers : Acquire(b) /\ pQueued' = Append(pQueued, b)
  /\ UNCHANGED <<pFree, pTask, pLast, pNow, pReturned>>

Step(w, from, to) ==
  pTask[w].at = from /\ pTask' = [pTask EXCEPT ![w].at = to]

\* WorkQue
PTake(w) ==
  /\ pTask[w] = AtRest /\ pQueued # <<>>
  /\ pTask' = [pTask EXCEPT ![w] = [at |-> "first", buffer |-> Head(pQueued)]]
  /\ pQueued' = Tail(pQueued)
  /\ UNCHANGED <<pFree, pBufs, pNow>>

\* getConn waits for a connection; MyDB is made once, and in PutsTool::firstCheck
\* again while the first is still there.
PGetConn(w) ==
  /\ pFree > 0 /\ pFree' = pFree - 1
  /\ Step(w, "first", "one") \/ Step(w, "second", "two")
  /\ UNCHANGED <<pQueued, pBufs, pNow>>

PQuick(w) ==
  /\ Step(w, "one", "second")
  /\ UNCHANGED <<pFree, pQueued, pBufs, pNow>>

\* Mutant: a quick upload gives back one of its two.
PFreeConnOnce(w) ==
  /\ pTask[w].at \in {"one", "two"}
  /\ pFree' = pFree + 1
  /\ Release(pTask[w].buffer) /\ pTask' = [pTask EXCEPT ![w] = AtRest]
  /\ UNCHANGED <<pQueued, pNow>>

\* The destructors: freeConn for each, and release.
PFreeConn(w) ==
  /\ pTask[w].at \in {"one", "two"}
  /\ pFree' = pFree + (IF pTask[w].at = "two" THEN 2 ELSE 1)
  /\ Release(pTask[w].buffer) /\ pTask' = [pTask EXCEPT ![w] = AtRest]
  /\ UNCHANGED <<pQueued, pNow>>

PNext ==
  \/ PFrame \/ PCleanExpiredBuffers \/ PTick
  \/ \E w \in PWorkers : PTake(w) \/ PGetConn(w) \/ PQuick(w) \/ PFreeConn(w)

PSpec == PInit /\ [][PNext]_pVars

PTypeOK ==
  /\ pFree \in 0..PConns /\ ToSet(pPool) \subseteq PBuffers
  /\ DOMAIN pLast \subseteq PBuffers /\ Held \subseteq PBuffers

\* Tasks that each hold a connection and want another never hold them all: whoever
\* waits, some task has what it needs and will give it back.  It takes more
\* connections than threads that run tasks, which the shipped configuration has.
PSomeoneMoves ==
  (\E w \in PWorkers : pTask[w].at \in {"first", "second"}) =>
    pFree > 0 \/ \E w \in PWorkers : pTask[w].at \in {"one", "two"}

\* A buffer has one owner: the pool, once, or one message; and only one that has
\* been in the pool for more than an hour since it was given back is freed.
POneOwner ==
  /\ IsInjective(pPool) /\ ToSet(pPool) \cap Held = {}
  /\ IsInjective(pQueued)
  /\ \A v, w \in PWorkers : (v # w /\ pTask[v].buffer # NoBuffer) => pTask[v].buffer # pTask[w].buffer
PFreedIdle ==
  [][\A b \in ToSet(pPool) : b \in ToSet(pPool)' \/ b \in Held' \/ pNow - pReturned[b] > PExpiry]_pVars
=============================================================================
