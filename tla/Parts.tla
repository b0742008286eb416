-------------------------------- MODULE Parts --------------------------------
(***************************************************************************)
(* The parts of the system that are modelled each by itself, in one        *)
(* specification: every behaviour is one of one part, and the others stay  *)
(* as they were.  One run checks them all, in the sum of their states.     *)
(***************************************************************************)
EXTENDS Wire, Framing, Timer, Balancer, Account, LogQueue, Pools, Reactor

VARIABLE part

parts == <<part, wVars, fVars, tVars, bVars, aVars, lVars, pVars, rVars>>

Init ==
  /\ part \in {"wire", "framing", "timer", "balancer", "account", "log", "pools", "reactor"}
  /\ WInit /\ FInit /\ TInit /\ BInit /\ AInit /\ LInit /\ PInit /\ RInit
  /\ part # "wire" => wRoute = CHOOSE route \in Routes : ~HasTail(route)

Next ==
  \/ /\ part = "wire" /\ WNext
     /\ UNCHANGED <<part, fVars, tVars, bVars, aVars, lVars, pVars, rVars>>
  \/ /\ part = "framing" /\ FNext
     /\ UNCHANGED <<part, wVars, tVars, bVars, aVars, lVars, pVars, rVars>>
  \/ /\ part = "timer" /\ TNext
     /\ UNCHANGED <<part, wVars, fVars, bVars, aVars, lVars, pVars, rVars>>
  \/ /\ part = "balancer" /\ BNext
     /\ UNCHANGED <<part, wVars, fVars, tVars, aVars, lVars, pVars, rVars>>
  \/ /\ part = "account" /\ ANext
     /\ UNCHANGED <<part, wVars, fVars, tVars, bVars, lVars, pVars, rVars>>
  \/ /\ part = "log" /\ LNext
     /\ UNCHANGED <<part, wVars, fVars, tVars, bVars, aVars, pVars, rVars>>
  \/ /\ part = "pools" /\ PNext
     /\ UNCHANGED <<part, wVars, fVars, tVars, bVars, aVars, lVars, rVars>>
  \/ /\ part = "reactor" /\ RNext
     /\ UNCHANGED <<part, wVars, fVars, tVars, bVars, aVars, lVars, pVars>>

Spec == Init /\ [][Next]_parts

\* Every part's variables have their types, the heaps' index included.
PartsTypeOK ==
  /\ WTypeOK /\ FTypeOK /\ TTypeOK /\ BTypeOK /\ ATypeOK /\ LTypeOK /\ PTypeOK /\ RTypeOK
=============================================================================
