------------------------------- MODULE Reactor -------------------------------
(***************************************************************************)
(* Server::start accepts connections and gives each to the sub-reactor its *)
(* descriptor number selects; EventLoop::closeCon takes it away again, in  *)
(* its own thread.  Both keep the connection object, by that number: the   *)
(* main reactor's is destroyed when the number comes back.  The listening  *)
(* socket is edge triggered.  Without idle timeout (Timer is about those). *)
(***************************************************************************)
EXTENDS Integers, FiniteSets, FiniteSetsExt

CONSTANTS
  RFds,         \* descriptor numbers
  RSubs,        \* number of sub-reactors
  RMaxFd,       \* Server::MAX_FD
  RMaxBacklog   \* listen(10)

ASSUME ReactorAssumption ==
  /\ IsFiniteSet(RFds) /\ RFds \subseteq Nat
  /\ RSubs \in Nat \ {0} /\ RMaxFd \in Nat /\ RMaxBacklog \in Nat

VARIABLES
  rBacklog,   \* connections the kernel has accepted and the server has not
  rEdge,      \* the listening socket has something to report
  rMain,      \* where the main reactor is
  rOpen,      \* descriptors open in this process
  rCount,     \* AbstractCon::user_count
  rMainCon,   \* Server::client_con_: per number "none", or the object's is_close_
  rSubCon,    \* EventLoop::client_con_, the numbers in it
  rWatched,   \* descriptors in the epoll of their sub-reactor
  rGone,      \* connections whose client has hung up
  rSub,       \* per sub-reactor, the step of closeCon it is at
  rLost,      \* refused descriptors, never closed
  rUndefined  \* an assertion failed, or an object was destroyed inside its close()

rVars == <<rBacklog, rEdge, rMain, rOpen, rCount, rMainCon, rSubCon, rWatched, rGone, rSub,
           rLost, rUndefined>>
rCons == <<rCount, rMainCon, rSubCon, rWatched, rGone>>

Looping == [at |-> "wait", fd |-> 0]
SubOf(fd) == fd % RSubs
Closing(fd, at) == rSub[SubOf(fd)] = [at |-> at, fd |-> fd]
LowestFree == Min(RFds \ rOpen)

RInit ==
  /\ rBacklog = 0 /\ rEdge = FALSE /\ rMain = "wait" /\ rOpen = {} /\ rCount = 0
  /\ rMainCon = [fd \in RFds |-> "none"] /\ rSubCon = {} /\ rWatched = {} /\ rGone = {}
  /\ rSub = [s \in 0..(RSubs - 1) |-> Looping]
  /\ rLost = {} /\ rUndefined = FALSE

-----------------------------------------------------------------------------
(* Clients *)

RConnect ==
  /\ rBacklog < RMaxBacklog
  /\ rBacklog' = rBacklog + 1 /\ rEdge' = TRUE
  /\ UNCHANGED <<rMain, rOpen, rCons, rSub, rLost, rUndefined>>

RHangUp(fd) ==
  /\ fd \in rWatched \ rGone /\ rGone' = rGone \cup {fd}
  /\ UNCHANGED <<rBacklog, rEdge, rMain, rOpen, rCount, rMainCon, rSubCon, rWatched, rSub, rLost,
                 rUndefined>>

-----------------------------------------------------------------------------
(* Server::start and handleNewConnection *)

RWake ==
  /\ rMain = "wait" /\ rEdge
  /\ rMain' = "accept" /\ rEdge' = FALSE
  /\ UNCHANGED <<rBacklog, rOpen, rCons, rSub, rLost, rUndefined>>

\* accept has no more.
RAgain ==
  /\ rMain = "accept" /\ rBacklog = 0 /\ rMain' = "wait"
  /\ UNCHANGED <<rBacklog, rEdge, rOpen, rCons, rSub, rLost, rUndefined>>

Accepted ==
  /\ rMain = "accept" /\ rBacklog > 0 /\ RFds \ rOpen # {}
  /\ rBacklog' = rBacklog - 1

\* Mutant: one too many.
FullLate == rCount > RMaxFd
ConnectFull == rCount >= RMaxFd

\* Neither closed nor followed by the rest of the backlog.
RRefuse ==
  /\ Accepted /\ ConnectFull
  /\ rMain' = "wait" /\ rOpen' = rOpen \cup {LowestFree} /\ rLost' = rLost \cup {LowestFree}
  /\ UNCHANGED <<rEdge, rCons, rSub, rUndefined>>

RHandshakeFails ==
  /\ Accepted /\ ~ConnectFull
  /\ UNCHANGED <<rEdge, rMain, rOpen, rCons, rSub, rLost, rUndefined>>

\* Mutant: close() does not ask whether it has been called before.
DestructTwice(fd) == IF rMainCon[fd] = "none" THEN 0 ELSE 1

\* What destroying the number's previous object takes off user_count.
Destruct(fd) == IF rMainCon[fd] = "open" THEN 1 ELSE 0

\* Both maps let go of the object while its sub-reactor may still be in closeCon.
\* Before the count is taken down, its destructor takes it down as well and closes the
\* new descriptor: the model stops there.  Afterwards closeCon goes on with a freed
\* object.
Destroyed(fd) ==
  /\ rUndefined' = Closing(fd, "count")
  /\ rSub' = IF Closing(fd, "erase") THEN [rSub EXCEPT ![SubOf(fd)].at = "stray"] ELSE rSub

\* Mutant: one connection per event.
AddClientOnce ==
  LET fd == LowestFree
  IN  /\ Accepted /\ ~ConnectFull /\ rMain' = "wait"
      /\ rOpen' = rOpen \cup {fd} /\ rCount' = rCount + 1 - Destruct(fd)
      /\ rMainCon' = [rMainCon EXCEPT ![fd] = "open"]
      /\ rSubCon' = rSubCon \cup {fd} /\ rWatched' = rWatched \cup {fd}
      /\ Destroyed(fd)
      /\ UNCHANGED <<rEdge, rGone, rLost>>

\* addClient and EventLoop::addConn.
RAddClient ==
  LET fd == LowestFree
  IN  /\ Accepted /\ ~ConnectFull
      /\ rOpen' = rOpen \cup {fd} /\ rCount' = rCount + 1 - Destruct(fd)
      /\ rMainCon' = [rMainCon EXCEPT ![fd] = "open"]
      /\ rSubCon' = rSubCon \cup {fd} /\ rWatched' = rWatched \cup {fd}
      /\ Destroyed(fd)
      /\ UNCHANGED <<rEdge, rMain, rGone, rLost>>

-----------------------------------------------------------------------------
(* EventLoop::loop and closeCon; the object's close() *)

At(s, from, to) == rSub[s].at = from /\ rSub' = [rSub EXCEPT ![s].at = to]

RDelFd(fd) ==
  /\ rSub[SubOf(fd)] = Looping /\ fd \in rWatched \cap rGone /\ fd \in rSubCon
  /\ rSub' = [rSub EXCEPT ![SubOf(fd)] = [at |-> "close", fd |-> fd]]
  /\ rWatched' = rWatched \ {fd}
  /\ UNCHANGED <<rBacklog, rEdge, rMain, rOpen, rCount, rMainCon, rSubCon, rGone, rLost, rUndefined>>

\* loop's assertion, or a null pointer without assertions: the connection was erased
\* in another's place.
RAssert(fd) ==
  /\ rSub[SubOf(fd)] = Looping /\ fd \in rWatched \cap rGone /\ fd \notin rSubCon
  /\ rUndefined' = TRUE
  /\ UNCHANGED <<rBacklog, rEdge, rMain, rOpen, rCons, rSub, rLost>>

\* ::close: the number may be given out from here on.
RCloseFd(s) ==
  /\ At(s, "close", "count")
  /\ rOpen' = rOpen \ {rSub[s].fd} /\ rGone' = rGone \ {rSub[s].fd}
  /\ UNCHANGED <<rBacklog, rEdge, rMain, rCount, rMainCon, rSubCon, rWatched, rLost, rUndefined>>

RCountDown(s) ==
  /\ At(s, "count", "erase")
  /\ rCount' = rCount - 1 /\ rMainCon' = [rMainCon EXCEPT ![rSub[s].fd] = "closed"]
  /\ UNCHANGED <<rBacklog, rEdge, rMain, rOpen, rSubCon, rWatched, rGone, rLost, rUndefined>>

\* getSock() of a freed object may name the number's new owner, another connection
\* of this sub-reactor, or none.
RErase(s) ==
  /\ \/ rSub[s].at = "erase" /\ rSubCon' = rSubCon \ {rSub[s].fd}
     \/ rSub[s].at = "stray" /\ UNCHANGED rSubCon
     \/ rSub[s].at = "stray" /\ \E fd \in rSubCon : SubOf(fd) = s /\ rSubCon' = rSubCon \ {fd}
  /\ rSub' = [rSub EXCEPT ![s] = Looping]
  /\ UNCHANGED <<rBacklog, rEdge, rMain, rOpen, rCount, rMainCon, rWatched, rGone, rLost, rUndefined>>

RNext ==
  /\ ~rUndefined
  /\ \/ RConnect \/ RWake \/ RAgain \/ RRefuse \/ RHandshakeFails \/ RAddClient
     \/ \E fd \in RFds : RHangUp(fd) \/ RDelFd(fd) \/ RAssert(fd)
     \/ \E s \in 0..(RSubs - 1) : RCloseFd(s) \/ RCountDown(s) \/ RErase(s)

RSpec == RInit /\ [][RNext]_rVars

RTypeOK ==
  /\ rBacklog \in 0..RMaxBacklog /\ {rEdge, rUndefined} \subseteq BOOLEAN
  /\ rMain \in {"wait", "accept"} /\ rCount \in Nat
  /\ rMainCon \in [RFds -> {"none", "open", "closed"}]
  /\ UNION {rOpen, rSubCon, rWatched, rGone, rLost} \subseteq RFds
  /\ \A s \in 0..(RSubs - 1) : rSub[s].at \in {"wait", "close", "count", "erase", "stray"}

\* Nobody waits for a reactor that sleeps: while the main reactor waits without an
\* edge pending, the backlog is empty, unless a connection has been refused, since
\* handleNewConnection then returns with the rest of the backlog unread.
RDrained == (rMain = "wait" /\ ~rEdge /\ rLost = {}) => rBacklog = 0

\* user_count is the number of connection objects that have not been closed, though
\* one is closed by its sub-reactor and later destroyed by the main reactor, which
\* closes it again, be that before closeCon has erased it and whatever it erases then:
\* the limit and the load reported to the balancer rest on it.
RCountHonest == ~rUndefined => rCount = Cardinality({fd \in RFds : rMainCon[fd] = "open"})

\* No more connections are served at a time than MAX_FD, whatever is being closed.
RLimit == ~rUndefined => Cardinality(rOpen \ rLost) <= RMaxFd
=============================================================================
