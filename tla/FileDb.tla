------------------------------- MODULE FileDb -------------------------------
(***************************************************************************)
(* The account of one user: the rows of table FileDir, the space charged   *)
(* in table Users and the files under ROOTFILEPATH, as several pool        *)
(* threads upload, make folders and delete (MyDB).  Every SQL statement is *)
(* an action: MyDB uses no transactions.  The database answers every       *)
(* statement and a new file can be made; what a failure of either does to  *)
(* one upload is part of UploadServer.                                     *)
(***************************************************************************)
EXTENDS Integers, Sequences, FiniteSets, FiniteSetsExt

CONSTANTS
  Worker,       \* pool threads
  Content,      \* MD5s
  Size,         \* bytes of each content
  Capacity,     \* Users.CapacitySum
  MaxRequests,  \* bound: requests of the user's clients
  MaxDepth      \* bound: frames of deleteOneDir's recursion

ASSUME AccountAssumption ==
  /\ IsFiniteSet(Worker)
  /\ IsFiniteSet(Content)
  /\ Size \in [Content -> Nat]
  /\ Capacity \in Nat
  /\ MaxRequests \in Nat
  /\ MaxDepth \in Nat

Dir == "dir"   \* FileType 'd'; a folder has no MD5

ASSUME DirAssumption == Dir \notin Content

VARIABLES
  rows,      \* table FileDir of the user
  charged,   \* usedCapacity, as how many files of each content it stands for
  disk,      \* contents that have a file on disk
  seen,      \* ids and kinds that a client's view may show, stale ones included
  requests,  \* requests so far
  pc, op     \* the step of each pool thread and what it works on

vars == <<rows, charged, disk, seen, requests, pc, op>>

Root == 0

Row   == [id : Nat \ {0}, content : Content \cup {Dir}, parent : Nat]
Frame == [dir : Nat \ {0}, todo : SUBSET [id : Nat \ {0}, folder : BOOLEAN]]
Op    == [content : Content \cup {Dir}, parent : Nat, id : Nat, last : BOOLEAN,
          frames : Seq(Frame)]

Steps == {"idle", "space", "exist", "open", "transfer", "newid", "insert", "charge",
          "md5", "count", "delete", "credit", "remove", "children", "walk"}

\* A thread's step says what it works on.
WithContent == {"space", "exist", "open", "transfer", "charge", "count", "delete",
                "credit", "remove"}

OpOK ==
  \A w \in Worker :
    /\ pc[w] \in WithContent => op[w].content \in Content
    /\ pc[w] \in {"insert", "children"} => op[w].id # 0
    /\ pc[w] = "walk" => op[w].frames # <<>>

TypeOK ==
  /\ rows \subseteq Row
  /\ IsFiniteSet(rows)
  /\ \A r, s \in rows : r.id = s.id => r = s
  /\ charged \in [Content -> Int]
  /\ disk \subseteq Content
  /\ seen \subseteq [id : Nat \ {0}, folder : BOOLEAN]
  /\ requests \in Nat
  /\ pc \in [Worker -> Steps]
  /\ op \in [Worker -> Op]
  /\ OpOK

NoOp == [content |-> Dir, parent |-> Root, id |-> 0, last |-> FALSE, frames |-> <<>>]

Init ==
  /\ rows = {}
  /\ charged = [c \in Content |-> 0]
  /\ disk = {}
  /\ seen = {}
  /\ requests = 0
  /\ pc = [w \in Worker |-> "idle"]
  /\ op = [w \in Worker |-> NoOp]

-----------------------------------------------------------------------------
(* Moves of a pool thread *)

Goto(w, to) == pc' = [pc EXCEPT ![w] = to]

At(w, from) == pc[w] = from

\* doingTask returns, with whatever answer.
Done(w) ==
  /\ Goto(w, "idle")
  /\ op' = [op EXCEPT ![w] = NoOp]

RowsOf(c) == {r \in rows : r.content = c}

Request(w, to, o) ==
  /\ At(w, "idle")
  /\ requests < MaxRequests
  /\ requests' = requests + 1
  /\ op' = [op EXCEPT ![w] = o]
  /\ Goto(w, to)
  /\ UNCHANGED <<rows, charged, disk, seen>>

\* The folder a client uploads into, or makes a folder in, is one that its view
\* shows; another client may have deleted it since.
Folders == {Root} \cup {v.id : v \in {u \in seen : u.folder}}

RequestUpload(w) ==
  \E c \in Content, p \in Folders :
    Request(w, "space", [NoOp EXCEPT !.content = c, !.parent = p])

RequestCreateDir(w) ==
  \E p \in Folders : Request(w, "newid", [NoOp EXCEPT !.parent = p])

RequestDelete(w) ==
  \E v \in seen :
    Request(w, IF v.folder THEN "children" ELSE "md5", [NoOp EXCEPT !.id = v.id])

-----------------------------------------------------------------------------
(* PutsTool: createTask's queries and the file *)

Used == MapThenSumSet(LAMBDA c : charged[c] * Size[c], Content)

\* The difference of two uint64_t: beyond the capacity it wraps to a huge number.
IsEnoughSpace(c) == Used > Capacity \/ Capacity - Used >= Size[c]

GetIsEnoughSpace(w) ==
  /\ At(w, "space")
  /\ IF IsEnoughSpace(op[w].content) THEN Goto(w, "exist") /\ UNCHANGED op
                                     ELSE Done(w)
  /\ UNCHANGED <<rows, charged, disk, seen, requests>>

\* A content that the user has already is inserted without a transfer.
GetFileExist(w) ==
  /\ At(w, "exist")
  /\ Goto(w, IF RowsOf(op[w].content) # {} THEN "newid" ELSE "open")
  /\ UNCHANGED <<rows, charged, disk, seen, requests, op>>

\* O_CREAT|O_EXCL
Open(w) ==
  /\ At(w, "open")
  /\ IF op[w].content \in disk
     THEN Done(w) /\ UNCHANGED disk
     ELSE /\ disk' = disk \cup {op[w].content}
          /\ Goto(w, "transfer")
          /\ UNCHANGED op
  /\ UNCHANGED <<rows, charged, seen, requests>>

\* All bytes have come ...
Transferred(w) ==
  /\ At(w, "transfer")
  /\ Goto(w, "newid")
  /\ UNCHANGED <<rows, charged, disk, seen, requests, op>>

\* ... or the connection goes first, and close() removes the file.
Abandoned(w) ==
  /\ At(w, "transfer")
  /\ disk' = disk \ {op[w].content}
  /\ Done(w)
  /\ UNCHANGED <<rows, charged, seen, requests>>

-----------------------------------------------------------------------------
(* insertFileData.  Its first query only finds the depth of the parent; a      *)
(* parent that is missing is kept as it is.                                    *)

IdsAfterLast == {r.id + 1 : r \in {r \in rows : \A s \in rows : s.id <= r.id}}

\* Mutant: an empty table leaves fileid at its initial 0.
FirstIdZero == IF rows = {} THEN {0} ELSE IdsAfterLast

NextId == IF rows = {} THEN {1} ELSE IdsAfterLast

SelectNextId(w) ==
  /\ At(w, "newid")
  /\ \E id \in NextId : op' = [op EXCEPT ![w].id = id]
  /\ Goto(w, "insert")
  /\ UNCHANGED <<rows, charged, disk, seen, requests>>

Taken(id) == \E r \in rows : r.id = id

\* The primary key refuses an id that another thread has inserted since.
InsertRow(w) ==
  /\ At(w, "insert")
  /\ IF Taken(op[w].id)
     THEN Done(w) /\ UNCHANGED <<rows, seen>>
     ELSE /\ rows' = rows \cup {[id |-> op[w].id, content |-> op[w].content,
                                 parent |-> op[w].parent]}
          /\ seen' = seen \cup {[id |-> op[w].id, folder |-> op[w].content = Dir]}
          /\ IF op[w].content = Dir THEN Done(w) ELSE Goto(w, "charge") /\ UNCHANGED op
  /\ UNCHANGED <<charged, disk, requests>>

Charge(w) ==
  /\ At(w, "charge")
  /\ charged' = [charged EXCEPT ![op[w].content] = @ + 1]
  /\ Done(w)
  /\ UNCHANGED <<rows, disk, seen, requests>>

-----------------------------------------------------------------------------
(* deleteOneFile, on its own or called by deleteOneDir.  A failure ends the    *)
(* whole recursion.                                                            *)

\* The caller is DeleteTool or the loop of deleteOneDir.
Succeed(w) ==
  IF op[w].frames = <<>> THEN Done(w) ELSE Goto(w, "walk") /\ UNCHANGED op

GetFileMd5(w) ==
  /\ At(w, "md5")
  /\ \/ \E r \in rows :
          /\ r.id = op[w].id /\ r.content # Dir
          /\ op' = [op EXCEPT ![w].content = r.content]
          /\ Goto(w, "count")
     \/ /\ ~\E r \in rows : r.id = op[w].id /\ r.content # Dir
        /\ Done(w)
  /\ UNCHANGED <<rows, charged, disk, seen, requests>>

CountRows(w) ==
  /\ At(w, "count")
  /\ LET n == Cardinality(RowsOf(op[w].content))
     IN  IF n = 0 THEN Done(w)
                  ELSE /\ op' = [op EXCEPT ![w].last = (n = 1)]
                       /\ Goto(w, "delete")
  /\ UNCHANGED <<rows, charged, disk, seen, requests>>

\* DELETE ... WHERE Fileid=? AND MD5=? tells how many rows it has removed.
Matched(w) == {r \in rows : r.id = op[w].id /\ r.content = op[w].content}

\* Mutant: the number of removed rows is not looked at.
DeletedAny(w) == TRUE

Deleted(w) == Matched(w) # {}

DeleteRow(w) ==
  /\ At(w, "delete")
  /\ rows' = rows \ Matched(w)
  /\ IF Deleted(w) THEN Goto(w, "credit") /\ UNCHANGED op ELSE Done(w)
  /\ UNCHANGED <<charged, disk, seen, requests>>

Credit(w) ==
  /\ At(w, "credit")
  /\ charged' = [charged EXCEPT ![op[w].content] = @ - 1]
  /\ IF op[w].last THEN Goto(w, "remove") /\ UNCHANGED op ELSE Succeed(w)
  /\ UNCHANGED <<rows, disk, seen, requests>>

RemoveFile(w) ==
  /\ At(w, "remove")
  /\ disk' = disk \ {op[w].content}
  /\ IF op[w].content \in disk THEN Succeed(w) ELSE Done(w)
  /\ UNCHANGED <<rows, charged, seen, requests>>

-----------------------------------------------------------------------------
(* deleteOneDir: a frame per level of the recursion, with the children that    *)
(* the query on entry has found.                                               *)

ChildrenOf(id) ==
  {[id |-> r.id, folder |-> r.content = Dir] : r \in {s \in rows : s.parent = id}}

SelectChildren(w) ==
  /\ At(w, "children")
  /\ Len(op[w].frames) < MaxDepth
  /\ op' = [op EXCEPT ![w].frames =
              <<[dir |-> op[w].id, todo |-> ChildrenOf(op[w].id)]>> \o @]
  /\ Goto(w, "walk")
  /\ UNCHANGED <<rows, charged, disk, seen, requests>>

Top(w)   == Head(op[w].frames)
Below(w) == Tail(op[w].frames)

DeleteChild(w) ==
  /\ At(w, "walk")
  /\ \E child \in Top(w).todo :
       LET rest == [Top(w) EXCEPT !.todo = Top(w).todo \ {child}]
       IN  /\ op' = [op EXCEPT ![w].id = child.id, ![w].frames = <<rest>> \o Below(w)]
           /\ Goto(w, IF child.folder THEN "children" ELSE "md5")
  /\ UNCHANGED <<rows, charged, disk, seen, requests>>

\* The row that has the folder's id is deleted whatever it is by now.
DeleteDirRow(w) ==
  /\ At(w, "walk")
  /\ Top(w).todo = {}
  /\ LET id == Top(w).dir
     IN  /\ rows' = {r \in rows : r.id # id}
         /\ IF Taken(id) /\ Len(op[w].frames) > 1
            THEN /\ op' = [op EXCEPT ![w].frames = Below(w)]
                 /\ UNCHANGED pc
            ELSE Done(w)
  /\ UNCHANGED <<charged, disk, seen, requests>>

-----------------------------------------------------------------------------
Upload(w) ==
  \/ RequestUpload(w) \/ GetIsEnoughSpace(w) \/ GetFileExist(w)
  \/ Open(w) \/ Transferred(w) \/ Abandoned(w)

InsertFileData(w) == SelectNextId(w) \/ InsertRow(w) \/ Charge(w)

DeleteOneFile(w) ==
  GetFileMd5(w) \/ CountRows(w) \/ DeleteRow(w) \/ Credit(w) \/ RemoveFile(w)

DeleteOneDir(w) == SelectChildren(w) \/ DeleteChild(w) \/ DeleteDirRow(w)

Next ==
  \E w \in Worker :
    \/ Upload(w)
    \/ RequestCreateDir(w)
    \/ RequestDelete(w)
    \/ InsertFileData(w)
    \/ DeleteOneFile(w)
    \/ DeleteOneDir(w)

Spec == Init /\ [][Next]_vars

-----------------------------------------------------------------------------
\* The space charged never falls below what the recorded files amount to,
\* up to the updates that threads still owe: although several threads delete the
\* same file, ids are given out again and folders are deleted under them, no file
\* is credited twice.
Owing(step, c) == {w \in Worker : pc[w] = step /\ op[w].content = c}

NeverUndercharged ==
  \A c \in Content :
    Cardinality(RowsOf(c)) + Cardinality(Owing("credit", c))
      <= charged[c] + Cardinality(Owing("charge", c))

\* MyDB.cpp: a file whose parent folder does not exist goes to the root folder,
\* so no row is its own parent.
NeverOwnParent == \A r \in rows : r.parent # r.id

\* MyDB.cpp: the file is deleted when the deleted row was the last one, so that a
\* content which is still recorded, and not being deleted, keeps its file.
Deleting(c) ==
  UNION {Owing(s, c) : s \in {"count", "delete", "credit", "remove"}}

RecordedKeepsFile ==
  \A r \in rows : r.content # Dir /\ Deleting(r.content) = {} => r.content \in disk
=============================================================================
