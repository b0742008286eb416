--------------------------- MODULE BalancerPromise ---------------------------
(***************************************************************************)
(* What a load balancer is for, without heap or sockets: a directory of    *)
(* servers with the load each last reported, of which a client is given    *)
(* one that nobody is below.                                               *)
(***************************************************************************)
EXTENDS Naturals

CONSTANTS Fds, Servers, MaxLoad, None

VARIABLES
  entries,  \* from a descriptor to its entry [id, key, server]
  choice    \* the server given last

Init == entries = [fd \in {} |-> None] /\ choice = None

Register(fd, s) ==
  /\ fd \notin DOMAIN entries
  /\ entries' = [f \in DOMAIN entries \cup {fd} |->
                   IF f = fd THEN [id |-> fd, key |-> 0, server |-> s] ELSE entries[f]]
  /\ UNCHANGED choice

Report(fd, load) ==
  /\ fd \in DOMAIN entries
  /\ entries' = [entries EXCEPT ![fd].key = load]
  /\ UNCHANGED choice

Leave(fd) ==
  /\ fd \in DOMAIN entries
  /\ entries' = [f \in DOMAIN entries \ {fd} |-> entries[f]]
  /\ UNCHANGED choice

Give(fd) ==
  /\ fd \in DOMAIN entries
  /\ \A f \in DOMAIN entries : entries[fd].key <= entries[f].key
  /\ choice' = entries[fd].server
  /\ UNCHANGED entries

Crash == entries' = [fd \in {} |-> None] /\ choice' = None

Next ==
  \/ \E fd \in Fds :
       \/ \E s \in Servers : Register(fd, s)
       \/ \E load \in 0..MaxLoad : Report(fd, load)
       \/ Leave(fd) \/ Give(fd)
  \/ Crash

Spec == Init /\ [][Next]_<<entries, choice>>
=============================================================================
