------------------------------- MODULE Session -------------------------------
(***************************************************************************)
(* A client after login: the file list, its folders and the requests for   *)
(* it.  Pool threads of the server answer one client's requests at the     *)
(* same time; the client handles answers in order in its one task thread   *)
(* (TaskQue) and shows the results in its GUI thread.                      *)
(***************************************************************************)
EXTENDS Integers, Sequences, FiniteSets, SequencesExt

CONSTANTS
  SMaxId,      \* bound of Fileid; 0 is the root
  SWorkers,    \* pool threads of the server
  SMaxClicks   \* bound of what the user does

VARIABLES
  sTable,      \* FileDir, the user's rows: [id, kind, parent]
  sWorkQue,    \* requests not yet taken
  sWorker,     \* per thread: the place in CdTool, and file_vet
  sWire,       \* answers on the way to the task thread
  sCnt, sVet,  \* file_cnt_, file_vet_
  sGui,        \* signals on the way to the GUI thread
  sCur,        \* cur_dir_id
  sItems,      \* dir_files, all lists in one: an item is a row
  sHere,       \* cur_dir_item_, NoRow for none
  sMap,        \* the folders in dir_map_, one for an id
  sShown,      \* the items in file_model_, as places in sItems
  sClicks,
  sHasty,      \* history: the user did something while a request was under way, or made
               \* a folder in a view that was behind the table
  sBehind      \* history: a list was refused, or a failed request changed the table,
               \* since a list was last shown

SIds == 1..SMaxId

\* Two rows to begin with.
ASSUME SessionAssumption == SMaxId \in Nat /\ SMaxId >= 2 /\ SMaxClicks \in Nat

sVars == <<sTable, sWorkQue, sWorker, sWire, sCnt, sVet, sGui, sCur, sHere, sItems, sMap,
           sShown, sClicks, sHasty, sBehind>>
sServer == <<sTable, sWorkQue, sWorker>>
sTask   == <<sCnt, sVet>>
sView   == <<sCur, sHere, sItems, sMap, sShown>>
sUser   == <<sClicks, sHasty>>

SRow(id, kind, parent) == [id |-> id, kind |-> kind, parent |-> parent]
SRequest(op, row) == [op |-> op, row |-> row]
NoRow == SRow(0, "none", 0)
Msg(type, ok, cnt, row) == [type |-> type, ok |-> ok, cnt |-> cnt, row |-> row]
Idle == [at |-> "idle", rows |-> <<>>]

Quiet ==
  /\ sWorkQue = <<>> /\ \A w \in SWorkers : sWorker[w] = Idle
  /\ sWire = <<>> /\ sGui = <<>>

SInit ==
  /\ sTable = {SRow(1, "d", 0), SRow(2, "file", 1)}
  /\ sWorkQue = <<SRequest("CD", NoRow)>>    \* startClient: requestCD
  /\ sWorker = [w \in SWorkers |-> Idle]
  /\ sWire = <<>> /\ sCnt = 0 /\ sVet = <<>> /\ sGui = <<>>
  /\ sCur = 0 /\ sHere = NoRow /\ sItems = <<>> /\ sMap = {} /\ sShown = {}
  /\ sClicks = 0 /\ sHasty = FALSE /\ sBehind = FALSE

-----------------------------------------------------------------------------
(* The server's tools.  The answer and the rows of a list have the connection *)
(* for themselves, each on its own.                                           *)

Take(w, op) == sWorker[w] = Idle /\ sWorkQue # <<>> /\ Head(sWorkQue).op = op
Asked == Head(sWorkQue).row

\* getUserAllFileInfo: no rows is a failure, and a query may fail.
SCdSelect(w) ==
  /\ Take(w, "CD")
  /\ \E rows \in SetToSeqs(sTable) \cup {<<>>} :
       \* in the order of the ids, as the primary key gives them
       /\ \A i, j \in DOMAIN rows : i < j => rows[i].id < rows[j].id
       /\ sWorker' = [sWorker EXCEPT ![w] = [at |-> "answer", rows |-> rows]]
  /\ sWorkQue' = Tail(sWorkQue)
  /\ UNCHANGED <<sTable, sWire, sTask, sGui, sView, sUser, sBehind>>

\* Mutant: the rows leave before the answer that counts them.
SCdAnswerLast(w) ==
  /\ sWorker[w].at = "answer"
  /\ LET rows == sWorker[w].rows
     IN  /\ sWire' = sWire \o [i \in DOMAIN rows |-> Msg("ROW", TRUE, 0, rows[i])]
                     \o <<Msg("CD", rows # <<>>, Len(rows), NoRow)>>
         /\ sWorker' = [sWorker EXCEPT ![w] = Idle]
  /\ UNCHANGED <<sTable, sWorkQue, sTask, sGui, sView, sUser, sBehind>>

SCdAnswer(w) ==
  /\ sWorker[w].at = "answer"
  /\ LET rows == sWorker[w].rows
     IN  /\ sWire' = Append(sWire, Msg("CD", rows # <<>>, Len(rows), NoRow))
         /\ sWorker' = [sWorker EXCEPT ![w] = IF rows = <<>> THEN Idle ELSE [@ EXCEPT !.at = "rows"]]
  /\ UNCHANGED <<sTable, sWorkQue, sTask, sGui, sView, sUser, sBehind>>

\* sendFileInfo, all rows under one lock.
SSendFileInfo(w) ==
  /\ sWorker[w].at = "rows"
  /\ sWire' = sWire \o [i \in DOMAIN sWorker[w].rows |-> Msg("ROW", TRUE, 0, sWorker[w].rows[i])]
  /\ sWorker' = [sWorker EXCEPT ![w] = Idle]
  /\ UNCHANGED <<sTable, sWorkQue, sTask, sGui, sView, sUser, sBehind>>

Reply(w, m) == sWorker' = [sWorker EXCEPT ![w] = [at |-> "reply", rows |-> <<m>>]]

\* A request that is answered FAILED tells the client nothing of what it has done.
FailsWith(changed) == sBehind' = (sBehind \/ changed)

\* insertFileData gives the greatest id plus one and keeps the parent it is given,
\* there or not.  It fails if another folder was given the id first, or with the row
\* inserted, if usedCapacity cannot be updated.
SCreateDir(w) ==
  /\ Take(w, "MAKEDIR")
  /\ \/ Reply(w, Msg("MAKEDIR", FALSE, 0, NoRow)) /\ UNCHANGED <<sTable, sBehind>>
     \/ \E id \in SIds :
          LET row == SRow(id, "d", Asked.parent)
          IN  /\ \A r \in sTable : r.id < id
              /\ id = 1 \/ \E r \in sTable : r.id = id - 1
              /\ sTable' = sTable \cup {row}
              /\ \/ Reply(w, Msg("MAKEDIR", TRUE, 0, row)) /\ UNCHANGED sBehind
                 \/ Reply(w, Msg("MAKEDIR", FALSE, 0, NoRow)) /\ FailsWith(TRUE)
  /\ sWorkQue' = Tail(sWorkQue)
  /\ UNCHANGED <<sWire, sTask, sGui, sView, sUser>>

\* The rows that deleteOneDir comes to from a folder.
Under(id) ==
  {n \in SIds : \A S \in SUBSET SIds :
     (\A r \in sTable : r.parent \in S \cup {id} => r.id \in S) => n \in S}

\* What a deletion that stops half-way has taken: a folder goes after what is in it,
\* and never if it is in itself.
HalfGone(id) ==
  {gone \in SUBSET {r \in sTable : r.id \in Under(id)} :
     \A r \in gone : r.id \notin Under(r.id) /\ \A q \in sTable : q.parent = r.id => q \in gone}

SDeleted(w, gone, ok) ==
  /\ sTable' = sTable \ gone
  /\ Reply(w, Msg("DELETE", ok, 0, NoRow))
  /\ IF ok THEN UNCHANGED sBehind ELSE FailsWith(gone # {})

\* getFileMd5 finds no folder.  The row goes before usedCapacity and the file, which
\* may both fail.
SDeleteOneFile(w, id) ==
  \E gone \in SUBSET {r \in sTable : r.id = id /\ r.kind # "d"}, ok \in BOOLEAN :
    (ok => gone # {}) /\ SDeleted(w, gone, ok)

\* The recursion has no end for a folder that is in itself, and there is no answer.
SDeleteOneDir(w, id) ==
  \/ /\ id \notin Under(id) /\ \E r \in sTable : r.id = id
     /\ SDeleted(w, {r \in sTable : r.id \in {id} \cup Under(id)}, TRUE)
  \/ \E gone \in HalfGone(id) : SDeleted(w, gone, FALSE)
  \/ /\ id \in Under(id)
     /\ \E gone \in HalfGone(id) : sTable' = sTable \ gone
     /\ sWorker' = [sWorker EXCEPT ![w].at = "endless"] /\ UNCHANGED sBehind

\* The outcomes of a file's or a folder's deletion; FileDb has the statements.
SDeleteTool(w) ==
  /\ Take(w, "DELETE")
  /\ IF Asked.kind = "d" THEN SDeleteOneDir(w, Asked.id) ELSE SDeleteOneFile(w, Asked.id)
  /\ sWorkQue' = Tail(sWorkQue)
  /\ UNCHANGED <<sWire, sTask, sGui, sView, sUser>>

\* sendPDURespond under the connection's send mutex.
SRespond(w) ==
  /\ sWorker[w].at = "reply"
  /\ sWire' = sWire \o sWorker[w].rows
  /\ sWorker' = [sWorker EXCEPT ![w] = Idle]
  /\ UNCHANGED <<sTable, sWorkQue, sTask, sGui, sView, sUser, sBehind>>

-----------------------------------------------------------------------------
(* The client's task thread *)

SHandleCD(m) ==
  /\ m.type = "CD"
  /\ sCnt' = IF m.ok THEN m.cnt ELSE 0
  /\ sVet' = <<>>
  /\ sBehind' = (sBehind \/ ~m.ok)
  /\ UNCHANGED sGui

\* A row that no answer announced is dropped.
SHandleFileInfo(m) ==
  /\ m.type = "ROW"
  /\ IF sCnt = 0 THEN UNCHANGED <<sTask, sGui>>
     ELSE /\ sCnt' = sCnt - 1
          /\ IF sCnt = 1
             THEN /\ sGui' = Append(sGui, [signal |-> "list", rows |-> Append(sVet, m.row)])
                  /\ sVet' = <<>>
             ELSE sVet' = Append(sVet, m.row) /\ UNCHANGED sGui
  /\ UNCHANGED sBehind

SHandleMakeDir(m) ==
  /\ m.type = "MAKEDIR"
  /\ sGui' = IF m.ok THEN Append(sGui, [signal |-> "made", rows |-> <<m.row>>]) ELSE sGui
  /\ UNCHANGED <<sTask, sBehind>>

SHandleDeleteFile(m) ==
  /\ m.type = "DELETE"
  /\ sGui' = IF m.ok THEN Append(sGui, [signal |-> "deleted", rows |-> <<>>]) ELSE sGui
  /\ UNCHANGED <<sTask, sBehind>>

\* TaskQue::doing with what handleRecv... queued, in the order of arrival.
SDoing ==
  /\ sWire # <<>>
  /\ LET m == Head(sWire)
     IN  SHandleCD(m) \/ SHandleFileInfo(m) \/ SHandleMakeDir(m) \/ SHandleDeleteFile(m)
  /\ sWire' = Tail(sWire)
  /\ UNCHANGED <<sServer, sView, sUser>>

-----------------------------------------------------------------------------
(* The client's GUI thread *)

\* getFileList is refused while rows of an earlier list are expected; one that was
\* asked for and not yet answered does not count.
GetFileList == IF sCnt # 0 THEN sWorkQue ELSE Append(sWorkQue, SRequest("CD", NoRow))

Item(map, id) == IF \E r \in map : r.id = id THEN CHOOSE r \in map : r.id = id ELSE NoRow

LoadDir(items, map, dir) ==
  /\ sCur' = dir /\ sHere' = Item(map, dir)
  /\ sShown' = {i \in DOMAIN items : items[i].parent = dir}

\* Of a mixed list's items for one id the map keeps one.
InitView(rows) ==
  LET dirs == {r \in ToSet(rows) : r.kind = "d"}
  IN  \E map \in SUBSET dirs :
        /\ \A r \in dirs : \E q \in map : q.id = r.id
        /\ \A q, r \in map : q.id = r.id => q = r
        /\ sItems' = rows /\ sMap' = map
        /\ LoadDir(rows, map, Item(map, sCur).id)

\* The item is shown even if its parent is not the current folder.
AddNewDirItem(row) ==
  /\ sItems' = Append(sItems, row) /\ sShown' = sShown \cup {Len(sItems) + 1}
  /\ sMap' = sMap \cup (IF \E r \in sMap : r.id = row.id THEN {} ELSE {row})
  /\ UNCHANGED <<sCur, sHere>>

\* Mutant: the list is not asked for again after a delete.
SSlotsNoList ==
  /\ sGui # <<>> /\ sGui' = Tail(sGui)
  /\ LET s == Head(sGui)
     IN  \/ s.signal = "list" /\ InitView(s.rows) /\ sBehind' = FALSE /\ UNCHANGED sWorkQue
         \/ s.signal = "made" /\ AddNewDirItem(s.rows[1]) /\ UNCHANGED <<sWorkQue, sBehind>>
         \/ s.signal = "deleted" /\ UNCHANGED <<sView, sWorkQue, sBehind>>
  /\ UNCHANGED <<sTable, sWorker, sWire, sTask, sUser>>

SSlots ==
  /\ sGui # <<>> /\ sGui' = Tail(sGui)
  /\ LET s == Head(sGui)
     IN  \/ s.signal = "list" /\ InitView(s.rows) /\ sBehind' = FALSE /\ UNCHANGED sWorkQue
         \/ s.signal = "made" /\ AddNewDirItem(s.rows[1]) /\ UNCHANGED <<sWorkQue, sBehind>>
         \/ s.signal = "deleted" /\ sWorkQue' = GetFileList /\ UNCHANGED <<sView, sBehind>>
  /\ UNCHANGED <<sTable, sWorker, sWire, sTask, sUser>>

Does(hasty) ==
  /\ sClicks < SMaxClicks /\ sClicks' = sClicks + 1
  /\ sHasty' = (sHasty \/ hasty)
Click == Does(~Quiet)

SRefresh ==
  /\ Click /\ sWorkQue' = GetFileList
  /\ UNCHANGED <<sTable, sWorker, sWire, sTask, sGui, sView, sBehind>>

\* The parent is the current folder's item, or the root without one.
SMakeDir ==
  /\ Does(~Quiet \/ sBehind)
  /\ sWorkQue' = Append(sWorkQue, SRequest("MAKEDIR", SRow(0, "d", sHere.id)))
  /\ UNCHANGED <<sTable, sWorker, sWire, sTask, sGui, sView, sBehind>>

SDelFile ==
  /\ Click
  /\ \E i \in sShown : sWorkQue' = Append(sWorkQue, SRequest("DELETE", sItems[i]))
  /\ UNCHANGED <<sTable, sWorker, sWire, sTask, sGui, sView, sBehind>>

SDoubleClick ==
  /\ Click
  /\ \E i \in sShown : sItems[i].kind = "d" /\ LoadDir(sItems, sMap, sItems[i].id)
  /\ UNCHANGED <<sServer, sWire, sTask, sGui, sItems, sMap, sBehind>>

SBack ==
  /\ Click /\ sCur # 0 /\ sHere # NoRow /\ LoadDir(sItems, sMap, sHere.parent)
  /\ UNCHANGED <<sServer, sWire, sTask, sGui, sItems, sMap, sBehind>>

SNext ==
  \/ \E w \in SWorkers :
       \/ SCdSelect(w) \/ SCdAnswer(w) \/ SSendFileInfo(w)
       \/ SCreateDir(w) \/ SDeleteTool(w) \/ SRespond(w)
  \/ SDoing \/ SSlots
  \/ SRefresh \/ SMakeDir \/ SDelFile \/ SDoubleClick \/ SBack

SSpec == SInit /\ [][SNext]_sVars

STypeOK ==
  /\ \A r \in sTable : r.id \in SIds /\ r.parent \in SIds \cup {0}
  /\ sCnt \in 0..Cardinality(SIds) /\ Len(sVet) <= Cardinality(SIds)
  /\ sCur \in SIds \cup {0} /\ sHere \in sMap \cup {NoRow}
  /\ \A r \in sMap : r.id \in SIds /\ r.kind = "d"

\* However answers and rows of lists asked for at the same time follow each other,
\* the count comes back to zero: getFileList, which takes another value for an
\* operation that has not finished, is not refused for ever.
SNotStuck == Quiet => sCnt = 0

\* A user who waits for each answer sees the table: the current folder's rows, each
\* once, and every folder where the next double click finds it.  The view may fall
\* behind only where the client is told nothing: a list the server refuses, as it does
\* an empty one, and a request answered FAILED with some of its work done, a folder
\* deleted half-way.  The next list that is shown makes it right again, whatever the
\* user has deleted and where he has gone in the meantime.
SViewIsTable ==
  (Quiet /\ ~sHasty /\ ~sBehind) =>
    /\ ToSet(sItems) = sTable /\ Len(sItems) = Cardinality(sTable)
    /\ {sItems[i] : i \in sShown} = {r \in sTable : r.parent = sCur}
    /\ sMap = {r \in sTable : r.kind = "d"}
=============================================================================
