--------------------------- MODULE DownloadPromise ---------------------------
(***************************************************************************)
(* What a download promises, without connection, threads or messages: the  *)
(* copy grows one chunk at a time, is sealed once it is complete and its   *)
(* hash right, is never lost again after that, and only a sealed copy is   *)
(* reported as done.                                                       *)
(***************************************************************************)
EXTENDS Naturals

CONSTANT Size

VARIABLES
  held,      \* chunks of the copy at the chosen path
  sealed,    \* the copy is complete and verified
  outcome    \* what the user has been told so far

promiseVars == <<held, sealed, outcome>>

Init == held = 0 /\ sealed = FALSE /\ outcome = {}

Receive ==
  /\ ~sealed /\ held < Size
  /\ held' = held + 1
  /\ sealed' \in {FALSE, held' = Size}
  /\ UNCHANGED outcome

\* A partial or damaged copy may be thrown away, also with its last chunk.
Drop ==
  /\ ~sealed
  /\ held' = 0
  /\ UNCHANGED sealed
  /\ \E os \in SUBSET {"error", "cancelled"} : outcome' = outcome \cup os

Tell(os) ==
  /\ "done" \in os => sealed
  /\ outcome' = outcome \cup os
  /\ UNCHANGED <<held, sealed>>

Next == Receive \/ Drop \/ \E os \in SUBSET {"done", "error", "cancelled"} : Tell(os)

Spec == Init /\ [][Next]_promiseVars
=============================================================================
