------------------------------ MODULE Balancer ------------------------------
(***************************************************************************)
(* The load balancer and those who talk to it: servers that register,      *)
(* report their load and go, and clients that ask for a server.  One       *)
(* thread, edge-triggered, one recv for each event.  ~Server, which would  *)
(* report code 1, is never reached: start() does not return.               *)
(***************************************************************************)
EXTENDS IndexedHeap

CONSTANTS
  BServers,    \* server programs
  BFds,        \* descriptors of the balancer for them
  BMaxLoad,    \* bound of a load reported
  BMaxUnread,  \* bound of reports on the way, of all servers together
  BMaxWaiting  \* bound of clients left without an answer

ASSUME BalancerAssumption == BMaxLoad \in Nat /\ BMaxWaiting \in Nat

VARIABLES
  bUp,       \* server programs that run
  bUsed,     \* those with equalizer_used_
  bAlive,    \* the balancer runs
  bConn,     \* its connections: [server, unread, edge, gone]
  bHeap,     \* server_heap_: nodes [id, key, server]
  bWaiting,  \* clients accepted, not answered, not closed
  bChoice    \* the server given to the last client

bVars == <<bUp, bUsed, bAlive, bConn, bHeap, bWaiting, bChoice>>

NoServer == "none"
ConnsOf(s) == {fd \in DOMAIN bConn : bConn[fd].server = s /\ ~bConn[fd].gone}
Unread == FoldFunction(LAMBDA c, n : Len(c.unread) + n, 0, bConn)
Without(f, x) == [y \in DOMAIN f \ {x} |-> f[y]]

BInit ==
  /\ bUp = {} /\ bUsed = {}
  /\ bAlive = TRUE
  /\ bConn = [fd \in {} |-> 0] /\ bHeap = EmptyHeap
  /\ bWaiting = 0 /\ bChoice = NoServer

-----------------------------------------------------------------------------
(* The servers *)

\* connectEqualizer and recvServerInfo.  The pack says nothing of the load, which
\* is 0 then.
BRegister(s, fd) ==
  /\ s \notin bUp /\ bAlive /\ fd \notin DOMAIN bConn
  /\ bUp' = bUp \cup {s} /\ bUsed' = bUsed \cup {s}
  /\ bConn' = [f \in DOMAIN bConn \cup {fd} |->
                 IF f = fd THEN [server |-> s, unread |-> <<>>, edge |-> FALSE, gone |-> FALSE]
                 ELSE bConn[f]]
  /\ bHeap' = AddNode(bHeap, [id |-> fd, key |-> 0, server |-> s])
  /\ UNCHANGED <<bAlive, bWaiting, bChoice>>

\* The key is wrong: the answer is false, but what the server keeps is the number
\* of bytes it read, and it takes itself for registered.  Without a balancer it
\* does not.
BStartAlone(s) ==
  /\ s \notin bUp
  /\ bUp' = bUp \cup {s}
  /\ bUsed' = IF bAlive THEN bUsed \cup {s} ELSE bUsed \ {s}
  /\ UNCHANGED <<bAlive, bConn, bHeap, bWaiting, bChoice>>

\* sendServerState with the number of connections there are by then; nobody reads
\* it if the balancer has closed.
BReport(s) ==
  /\ s \in bUp \cap bUsed
  /\ \E fd \in ConnsOf(s), load \in 0..BMaxLoad :
       /\ Unread < BMaxUnread
       /\ bConn' = [bConn EXCEPT ![fd].unread = Append(@, load), ![fd].edge = TRUE]
  /\ UNCHANGED <<bUp, bUsed, bAlive, bHeap, bWaiting, bChoice>>

\* The main reactor sees the balancer hang up; it never connects again.
BLost(s) ==
  /\ s \in bUp \cap bUsed /\ ConnsOf(s) = {}
  /\ bUsed' = bUsed \ {s}
  /\ UNCHANGED <<bUp, bAlive, bConn, bHeap, bWaiting, bChoice>>

\* A hang-up comes before data: reports that are unread are lost.
BServerDies(s) ==
  /\ s \in bUp
  /\ bUp' = bUp \ {s} /\ bUsed' = bUsed \ {s}
  /\ bConn' = [fd \in DOMAIN bConn |->
                 IF bConn[fd].server = s
                 THEN [bConn[fd] EXCEPT !.gone = TRUE, !.unread = <<>>, !.edge = FALSE]
                 ELSE bConn[fd]]
  /\ UNCHANGED <<bAlive, bHeap, bWaiting, bChoice>>

-----------------------------------------------------------------------------
(* The balancer *)

\* recvServerState: one report for each edge.  Two that arrive before it wakes are
\* one edge, and the second stays unread until there is a third.
BRecvServerState(fd) ==
  /\ fd \in DOMAIN bConn /\ bConn[fd].edge /\ ~bConn[fd].gone
  /\ bHeap' = AdjustNode(bHeap, fd, Head(bConn[fd].unread))
  /\ bConn' = [bConn EXCEPT ![fd].unread = Tail(@), ![fd].edge = FALSE]
  /\ UNCHANGED <<bUp, bUsed, bAlive, bWaiting, bChoice>>

\* Mutant: the descriptor is closed and the node stays.
BDelServerKeepsNode(fd) ==
  /\ fd \in DOMAIN bConn /\ bConn[fd].gone
  /\ bConn' = Without(bConn, fd)
  /\ UNCHANGED <<bUp, bUsed, bAlive, bHeap, bWaiting, bChoice>>

BDelServer(fd) ==
  /\ fd \in DOMAIN bConn /\ bConn[fd].gone
  /\ bHeap' = PopNode(bHeap, fd)
  /\ bConn' = Without(bConn, fd)
  /\ UNCHANGED <<bUp, bUsed, bAlive, bWaiting, bChoice>>

\* sendServerInfoToClient.  With no server listed it returns, and nobody ever
\* answers or closes this client.
BClient ==
  /\ bAlive
  /\ \/ /\ bHeap.nodes = <<>> /\ bWaiting < BMaxWaiting
        /\ bWaiting' = bWaiting + 1
        /\ UNCHANGED bChoice
     \/ /\ bHeap.nodes # <<>>
        /\ bChoice' = bHeap.nodes[1].server
        /\ UNCHANGED bWaiting
  /\ UNCHANGED <<bUp, bUsed, bAlive, bConn, bHeap>>

\* The balancer dies: clients that wait read the end of the stream and take the
\* default server.
BCrash ==
  /\ bAlive
  /\ bAlive' = FALSE
  /\ bConn' = [fd \in {} |-> 0] /\ bHeap' = EmptyHeap
  /\ bWaiting' = 0 /\ bChoice' = NoServer
  /\ UNCHANGED <<bUp, bUsed>>

BRestart ==
  /\ ~bAlive
  /\ bAlive' = TRUE
  /\ UNCHANGED <<bUp, bUsed, bConn, bHeap, bWaiting, bChoice>>

BNext ==
  \/ \E s \in BServers :
       \/ \E fd \in BFds : BRegister(s, fd)
       \/ BStartAlone(s) \/ BReport(s) \/ BLost(s) \/ BServerDies(s)
  \/ \E fd \in BFds : BRecvServerState(fd) \/ BDelServer(fd)
  \/ BClient \/ BCrash \/ BRestart

BSpec == BInit /\ [][BNext]_bVars

BTypeOK ==
  /\ bUsed \subseteq bUp /\ bUp \subseteq BServers
  /\ bWaiting \in 0..BMaxWaiting
  /\ DOMAIN bConn \subseteq BFds /\ Indexed(bHeap)
  /\ \A i \in DOMAIN bHeap.nodes : bHeap.nodes[i].key \in 0..BMaxLoad

\* Each connection has one entry and each entry a connection, of the server it
\* names, also when descriptors are used again: a client is never sent to a server
\* that the balancer has seen leave, nor to one that was refused or forgotten.
BListsTheConnected ==
  /\ DOMAIN bHeap.index = DOMAIN bConn
  /\ \A fd \in DOMAIN bConn : bHeap.nodes[bHeap.index[fd]].server = bConn[fd].server

\* What the balancer promises, as BalancerPromise says it: entries change only by
\* registration, by a report of their own server and by its leaving, and a client
\* gets one with the least load reported.
Entries == [fd \in DOMAIN bHeap.index |-> bHeap.nodes[bHeap.index[fd]]]
Promise == INSTANCE BalancerPromise
             WITH entries <- Entries, choice <- bChoice, Fds <- BFds, Servers <- BServers,
                  MaxLoad <- BMaxLoad, None <- NoServer
BPromiseKept == Promise!Spec
=============================================================================
