---------------------------- MODULE IndexedHeap ----------------------------
(***************************************************************************)
(* The binary heap of ServerHeap.cpp, with its map from the identity of a  *)
(* node to its place; Timer.cpp has the same sifts and swaps.  A heap is a *)
(* record of the vector, whose places start at 1 here, and the map; a node *)
(* has an id and the key it is ordered by.                                 *)
(***************************************************************************)
EXTENDS Integers, Sequences, FiniteSets, SequencesExt

EmptyHeap == [nodes |-> <<>>, index |-> [id \in {} |-> 0]]

\* Mutant: the map is not kept.
SwapNodesOnly(h, i, j) ==
  [h EXCEPT !.nodes = [@ EXCEPT ![i] = h.nodes[j], ![j] = h.nodes[i]]]

SwapNode(h, i, j) ==
  LET nodes == [h.nodes EXCEPT ![i] = h.nodes[j], ![j] = h.nodes[i]]
  IN  [nodes |-> nodes,
       index |-> [h.index EXCEPT ![nodes[i].id] = i, ![nodes[j].id] = j]]

\* operator<
Before(h, i, j) == h.nodes[i].key < h.nodes[j].key

\* One turn of siftUp's loop: the node at i changes places with its parent, an equal
\* one too, or has settled.
Rise(s) ==
  LET j == s.i \div 2
  IN  IF s.i = 1 \/ Before(s.h, j, s.i) THEN s
      ELSE [h |-> SwapNode(s.h, s.i, j), i |-> j]

\* A loop has no more turns than there are nodes.
SiftUp(h0, i0) ==
  LET turn[k \in 0..Len(h0.nodes)] ==
        IF k = 0 THEN [h |-> h0, i |-> i0] ELSE Rise(turn[k - 1])
  IN  turn[Len(h0.nodes)].h

\* Mutant: the right child is never looked at.
LeftChild(h, i, n) == 2 * i
LesserChild(h, i, n) ==
  IF 2 * i + 1 <= n /\ Before(h, 2 * i + 1, 2 * i) THEN 2 * i + 1 ELSE 2 * i

\* One turn of siftDown's loop, among the first n nodes.
Sink(s, n) ==
  LET j == LesserChild(s.h, s.i, n)
  IN  IF 2 * s.i > n \/ Before(s.h, s.i, j) THEN s
      ELSE [h |-> SwapNode(s.h, s.i, j), i |-> j]

\* The heap, and where the node came to rest.
SiftDown(h0, i0, n) ==
  LET turn[k \in 0..Len(h0.nodes)] ==
        IF k = 0 THEN [h |-> h0, i |-> i0] ELSE Sink(turn[k - 1], n)
  IN  turn[Len(h0.nodes)]

\* Down, and up if it could not go down.
Settle(h, i, n) ==
  LET down == SiftDown(h, i, n)
  IN  IF down.i > i THEN down.h ELSE SiftUp(down.h, i)

\* adjust: asserts that the identity is there.
AdjustNode(h, id, key) ==
  LET i == h.index[id] IN Settle([h EXCEPT !.nodes[i].key = key], i, Len(h.nodes))

\* add: a known identity has its node overwritten.
AddNode(h, node) ==
  IF node.id \in DOMAIN h.index
  THEN LET i == h.index[node.id]
       IN  Settle([h EXCEPT !.nodes[i] = node], i, Len(h.nodes))
  ELSE LET n == Len(h.nodes) + 1
       IN  SiftUp([nodes |-> Append(h.nodes, node),
                   index |-> [id \in DOMAIN h.index \cup {node.id} |->
                                IF id = node.id THEN n ELSE h.index[id]]], n)

\* __del: the last node takes the place, settles among the others, and the last
\* place is dropped.
DropLast(h) ==
  [nodes |-> Front(h.nodes),
   index |-> [id \in DOMAIN h.index \ {Last(h.nodes).id} |-> h.index[id]]]

\* Mutant: the node that takes the place is left where it is.
DeleteUnsettled(h, i) == DropLast(SwapNode(h, i, Len(h.nodes)))

DeleteAt(h, i) ==
  LET n == Len(h.nodes)
  IN  DropLast(IF i < n THEN Settle(SwapNode(h, i, n), i, n - 1) ELSE h)

\* pop: an identity that is not there is nothing to remove.
PopNode(h, id) == IF id \in DOMAIN h.index THEN DeleteAt(h, h.index[id]) ELSE h

-----------------------------------------------------------------------------
(* The representation invariant, for the properties of the modules that use it *)

HeapOrdered(h) == \A i \in DOMAIN h.nodes : h.nodes[1].key <= h.nodes[i].key

Indexed(h) ==
  /\ Len(h.nodes) = Cardinality(DOMAIN h.index)
  /\ \A id \in DOMAIN h.index : h.index[id] \in DOMAIN h.nodes /\ h.nodes[h.index[id]].id = id
=============================================================================
