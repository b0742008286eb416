-------------------------------- MODULE Timer --------------------------------
(***************************************************************************)
(* The idle timeout: a binary heap of deadlines with a map from the        *)
(* descriptor to its place in it, shared by the main reactor, which asks   *)
(* for the next deadline before each epoll_wait, and the sub-reactors,     *)
(* which put the deadline off when a client sends.  A node outlives its    *)
(* connection; the next one on the same descriptor takes it over.          *)
(***************************************************************************)
EXTENDS IndexedHeap

CONSTANTS
  TFd,        \* descriptors
  TTimeout,   \* timeout_ms_
  TMaxNow     \* bound of the clock

ASSUME TimerAssumption == TTimeout \in Nat /\ TMaxNow \in Nat

VARIABLES
  tHeap,    \* heap_ and index_map_; a key is expires
  tNow,
  tOpen,    \* open connections
  tLast,    \* when each last sent something, or was accepted
  tHung     \* mutex_ is held for ever: getNextTick holds it and waits for it

tVars == <<tHeap, tNow, tOpen, tLast, tHung>>

-----------------------------------------------------------------------------
Node(fd) == [id |-> fd, key |-> tNow + TTimeout]

Add(fd) == AddNode(tHeap, Node(fd))

\* A deadline is only ever put off, so the node is sifted down and never up.
Adjust(fd) ==
  LET i == tHeap.index[fd]
  IN  SiftDown([tHeap EXCEPT !.nodes[i] = Node(fd)], i, Len(tHeap.nodes)).h

-----------------------------------------------------------------------------
TInit ==
  /\ tHeap = EmptyHeap
  /\ tNow = 0 /\ tOpen = {} /\ tLast = [f \in TFd |-> 0]
  /\ tHung = FALSE

\* addConn, on a descriptor the kernel gives out: a closed one comes back.
TAddConn(fd) ==
  /\ ~tHung /\ fd \notin tOpen
  /\ tHeap' = Add(fd)
  /\ tOpen' = tOpen \cup {fd} /\ tLast' = [tLast EXCEPT ![fd] = tNow]
  /\ UNCHANGED <<tNow, tHung>>

\* handleClientData: the deadline is put off.
TClientData(fd) ==
  /\ ~tHung /\ fd \in tOpen
  /\ tHeap' = Adjust(fd)
  /\ tLast' = [tLast EXCEPT ![fd] = tNow]
  /\ UNCHANGED <<tNow, tOpen, tHung>>

\* closeCon on a hang-up leaves the node where it is.
TCloseCon(fd) ==
  /\ fd \in tOpen
  /\ tOpen' = tOpen \ {fd}
  /\ UNCHANGED <<tHeap, tNow, tLast, tHung>>

\* getNextTick locks the mutex and calls tick: a front that has expired is closed,
\* and pop, which is to delete it, locks the mutex again.
TGetNextTick ==
  /\ ~tHung
  /\ tHeap.nodes # <<>> /\ tHeap.nodes[1].key <= tNow
  /\ tOpen' = tOpen \ {tHeap.nodes[1].id}
  /\ tHung' = TRUE
  /\ UNCHANGED <<tHeap, tNow, tLast>>

TPasses ==
  /\ tNow < TMaxNow
  /\ tNow' = tNow + 1
  /\ UNCHANGED <<tHeap, tOpen, tLast, tHung>>

TNext ==
  \/ \E fd \in TFd : TAddConn(fd) \/ TClientData(fd) \/ TCloseCon(fd)
  \/ TGetNextTick \/ TPasses

TSpec == TInit /\ [][TNext]_tVars

TTypeOK ==
  /\ Indexed(tHeap)
  /\ \A i \in DOMAIN tHeap.nodes : tHeap.nodes[i].key \in 0..(TMaxNow + TTimeout)
  /\ tNow \in 0..TMaxNow /\ tOpen \subseteq TFd /\ tHung \in BOOLEAN

\* The front of the heap is the earliest deadline, although a deadline that is put
\* off is only ever sifted down: no connection waits behind a later one.
TFrontEarliest == HeapOrdered(tHeap)

\* Each open connection has one node, at the place the map says, whose deadline is
\* the timeout after the last data: no client is closed for the silence of another,
\* also when descriptors have been reused and nodes have changed places.
TDeadlineIsOwn ==
  \A fd \in tOpen :
    /\ fd \in DOMAIN tHeap.index
    /\ tHeap.nodes[tHeap.index[fd]] = [id |-> fd, key |-> tLast[fd] + TTimeout]

\* Timer.cpp:101: getNextTick returns the time left, 0 if it has expired already.
TTickReturns == ~tHung
=============================================================================
