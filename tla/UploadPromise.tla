---------------------------- MODULE UploadPromise ----------------------------
(***************************************************************************)
(* What an upload promises, without connection, threads or chunks: the     *)
(* file is recorded at most once, the user is told one outcome, and told   *)
(* of a success only when the record is there.                             *)
(***************************************************************************)
EXTENDS Naturals

VARIABLES
  recorded,   \* rows of table FileDir that this upload has added
  outcome     \* what the user has been told

promiseVars == <<recorded, outcome>>

Init == recorded = 0 /\ outcome = "nothing"

Record ==
  /\ recorded = 0
  /\ recorded' = 1
  /\ UNCHANGED outcome

Tell(o) ==
  /\ outcome = "nothing"
  /\ o = "success" => recorded = 1
  /\ outcome' = o
  /\ UNCHANGED recorded

Next == Record \/ \E o \in {"success", "failed", "cancelled"} : Tell(o)

Spec == Init /\ [][Next]_promiseVars
=============================================================================
