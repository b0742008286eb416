------------------------------ MODULE TableMC ------------------------------
(* A user's table for TLC: as the statements of several requests change it     *)
(* (FileDb) and as the lists of one client show it (Session), each in          *)
(* behaviours of its own.  The session has three ids and four clicks: three to *)
(* put a folder into itself by way of an id given out again, one to delete it. *)
EXTENDS FileDbMC, Session

VARIABLE side

TableInit == side \in {"statements", "lists"} /\ Init /\ SInit

TableNext ==
  \/ side = "statements" /\ Next /\ UNCHANGED <<side, sVars>>
  \/ side = "lists" /\ SNext /\ UNCHANGED <<side, vars>>

TableSpec == TableInit /\ [][TableNext]_<<side, vars, sVars>>

\* Both sides' variables have their types, the rows' ids are one for a row
\* (MyDB::insertFileData, ShortTaskManager, FileSystem).
TableTypeOK == TypeOK /\ STypeOK
=============================================================================
