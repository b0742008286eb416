------------------------------ MODULE PartsMC ------------------------------
(* Small instances of the parts for TLC.  Only one part moves in a behaviour, so *)
(* parts may have their model values in common, and a permutation of them acts   *)
(* on whichever part it is.                                                      *)
EXTENDS Parts

CONSTANTS u1, u2, v1, v2, x1, x2, x3

MCPair == {u1, u2}

MCOther == {v1, v2}

MCTriple == {x1, x2, x3}

\* Body lengths in cells: the third message does not fit behind the first two.
MCBodies == <<1, 3, 2, 1>>

PartSymmetry == Permutations(MCPair) \cup Permutations(MCOther) \cup Permutations(MCTriple)
=============================================================================
