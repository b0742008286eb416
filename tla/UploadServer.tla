---------------------------- MODULE UploadServer ----------------------------
(***************************************************************************)
(* The server's half of one upload: the reactor thread (EventLoop), which  *)
(* frames PDUs into tasks and closes the connection, the pool threads that *)
(* run PutsTool, PutsDataTool and PutsFinishTool, the connection object    *)
(* they share (UpDownCon), the preallocated file on disk and the row of    *)
(* table FileDir.  A pool thread takes tasks in queue order, and tasks of  *)
(* the same connection run side by side in different threads: each shared  *)
(* read, write, lock section or compare-exchange is an action of its own.  *)
(***************************************************************************)
EXTENDS UploadWire

CONSTANT Worker     \* threads of WorkQue that are not running a reactor loop

VARIABLES
  queue,      \* tasks of this connection waiting in WorkQue
  pc, job,    \* what each pool thread is doing, and the PDU it holds
  verdict,    \* respond.status local to PutsTool::firstCheck
  status,     \* UpDownCon::status_
  verified,   \* AbstractCon::is_verify_
  fileSize,   \* task_.file_size of the connection, 0 before init()
  handled,    \* task_.handled_size
  map,        \* task_.file_map: none, mapped or unmapped
  closing,    \* how far the reactor is in UpDownCon::close()
  disk,       \* the physical file ROOTFILEPATH/user/md5 exists
  data,       \* what the file holds at each chunk's offset
  priorRow,   \* a row of this user and MD5 existed before this upload
  rows,       \* rows inserted by this connection
  serverUp    \* FALSE once the server process died of a segmentation fault

connVars  == <<status, verified, fileSize, handled, map>>
storeVars == <<disk, data, priorRow, rows>>
serverVars == <<queue, pc, job, verdict, connVars, closing, storeVars, serverUp>>

NoJob == [code |-> "none"]

PutsSteps == {"puts", "lookup", "open", "init", "handled", "status", "reply",
              "quick", "done", "again"}
DataSteps == {"data", "count", "copy", "ack", "full", "insert", "finished"}
Steps     == {"idle", "finish"} \cup PutsSteps \cup DataSteps

ServerTypeOK ==
  /\ queue \in Seq(Pdu)
  /\ pc \in [Worker -> Steps]
  /\ job \in [Worker -> Pdu \cup {NoJob}]
  /\ verdict \in [Worker -> PutsStatuses]
  /\ status \in {"START", "DOING", "FIN", "CLOSE"}
  /\ verified \in BOOLEAN
  /\ fileSize \in {0, Total}
  /\ handled \in Nat
  /\ map \in {"none", "mapped", "unmapped"}
  /\ closing \in {"open", "release", "remove", "closed"}
  /\ disk \in BOOLEAN
  /\ data \in [Chunk -> {"hole", "good", "bad"}]
  /\ priorRow \in BOOLEAN
  /\ rows \in Nat
  /\ serverUp \in BOOLEAN

\* The file may be new, already stored under a row (a quick upload), or left
\* on disk without a row by an earlier upload that went wrong.
ServerInit ==
  /\ queue = <<>>
  /\ pc = [w \in Worker |-> "idle"]
  /\ job = [w \in Worker |-> NoJob]
  /\ verdict = [w \in Worker |-> "SUCCESS"]
  /\ status = "START"
  /\ verified = FALSE
  /\ fileSize = 0
  /\ handled = 0
  /\ map = "none"
  /\ closing = "open"
  /\ \E row, file \in BOOLEAN : /\ row => file
                                /\ priorRow = row
                                /\ disk = file
  /\ data = [c \in Chunk |-> IF priorRow THEN "good" ELSE "hole"]
  /\ rows = 0
  /\ serverUp = TRUE

-----------------------------------------------------------------------------
(* Helpers of the pool threads *)

Goto(w, from, to) ==
  /\ serverUp
  /\ pc[w] = from
  /\ pc' = [pc EXCEPT ![w] = to]

\* The task returns: the thread goes back to WorkQue's loop.
Return(w, from) ==
  /\ Goto(w, from, "idle")
  /\ job' = [job EXCEPT ![w] = NoJob]

\* SRTool::sendPDURespond under send_mutex_.  close() frees the SSL object and
\* nulls the pointer; a thread that then writes gets a null or freed SSL, which
\* ends in an error return or in a crash.
Send(r) ==
  \/ /\ closing \in {"open", "release"}
     /\ toClient' = Append(toClient, r)
     /\ UNCHANGED serverUp
  \/ /\ closing \in {"remove", "closed"}
     /\ serverUp' \in BOOLEAN
     /\ UNCHANGED toClient

-----------------------------------------------------------------------------
(* The reactor thread: EventLoop::loop, handleClientData, closeCon *)

\* handleClientData cuts one complete PDU off the stream and queues a task for
\* it.  Data that arrives with the peer's FIN may still be read here, or be
\* dropped by CloseBegin, which loop() prefers.
HandleClientData ==
  /\ serverUp
  /\ closing = "open"
  /\ toServer # <<>>
  /\ queue' = Append(queue, Head(toServer))
  /\ toServer' = Tail(toServer)
  /\ UNCHANGED <<toClient, linkUp, pc, job, verdict, connVars, closing,
                 storeVars, serverUp>>

\* EPOLLRDHUP or a zero-byte read: close() marks the connection first ...
CloseBegin ==
  /\ serverUp
  /\ closing = "open"
  /\ ~linkUp
  /\ status' = "CLOSE"
  /\ closing' = "release"
  /\ UNCHANGED <<wireVars, queue, pc, job, verdict, verified, fileSize, handled,
                 map, storeVars, serverUp>>

\* ... then frees the SSL object, closes the socket, unmaps the file and closes
\* its descriptor, whatever the pool threads are doing ...
CloseRelease ==
  /\ serverUp
  /\ closing = "release"
  /\ map' = "unmapped"
  /\ closing' = "remove"
  /\ UNCHANGED <<wireVars, queue, pc, job, verdict, status, verified, fileSize,
                 handled, storeVars, serverUp>>

\* ... and removes the file of an upload that it takes to be unfinished.
\* Mutant: an upload of which every byte is counted is unfinished too.
UnfinishedOffByOne == handled <= fileSize

Unfinished == handled < fileSize

CloseRemove ==
  /\ serverUp
  /\ closing = "remove"
  /\ closing' = "closed"
  /\ disk' = (disk /\ ~Unfinished)
  /\ UNCHANGED <<wireVars, queue, pc, job, verdict, connVars, data, priorRow,
                 rows, serverUp>>

-----------------------------------------------------------------------------
(* WorkQue's worker loop and EventLoop::handleClientTask *)

ToolOf(pdu) ==
  CASE pdu.code = "PUTS"        -> "puts"
    [] pdu.code = "PUTS_DATA"   -> "data"
    [] pdu.code = "PUTS_FINISH" -> "finish"

TakeTask(w) ==
  /\ queue # <<>>
  /\ Goto(w, "idle", ToolOf(Head(queue)))
  /\ job' = [job EXCEPT ![w] = Head(queue)]
  /\ queue' = Tail(queue)
  /\ UNCHANGED <<wireVars, verdict, connVars, closing, storeVars, serverUp>>

-----------------------------------------------------------------------------
(* PutsTool: the request.  getUserInfo, getIsEnoughSpace and getFileExist read *)
(* the database; open, ftruncate and mmap make the file.                       *)

PutsStart(w) ==
  /\ IF status = "START" THEN /\ Goto(w, "puts", "lookup")
                              /\ UNCHANGED job
                         ELSE Return(w, "puts")
  /\ UNCHANGED <<wireVars, queue, verdict, connVars, closing, storeVars, serverUp>>

\* A wrong password answers FAILED, a full account NO_CAPACITY, an MD5 the user
\* already stores PUT_QUICK.
PutsLookup(w) ==
  /\ \/ /\ \E s \in {"FAILED", "NO_CAPACITY"} : verdict' = [verdict EXCEPT ![w] = s]
        /\ Goto(w, "lookup", "reply")
     \/ /\ priorRow
        /\ verdict' = [verdict EXCEPT ![w] = "PUT_QUICK"]
        /\ Goto(w, "lookup", "init")
     \/ /\ ~priorRow
        /\ verdict' = [verdict EXCEPT ![w] = "SUCCESS"]
        /\ Goto(w, "lookup", "open")
  /\ UNCHANGED <<wireVars, queue, job, connVars, closing, storeVars, serverUp>>

\* O_CREAT|O_EXCL refuses a name that exists.  open itself may fail otherwise;
\* a file whose ftruncate or mmap fails stays on disk.
PutsOpen(w) ==
  /\ \/ /\ ~disk
        /\ Goto(w, "open", "init")
        /\ disk' = TRUE
        /\ UNCHANGED verdict
     \/ /\ Goto(w, "open", "reply")
        /\ disk' \in {disk, TRUE}
        /\ verdict' = [verdict EXCEPT ![w] = "FAILED"]
  /\ data' = IF disk THEN data ELSE [c \in Chunk |-> "hole"]
  /\ UNCHANGED <<wireVars, queue, job, connVars, closing, priorRow, rows, serverUp>>

\* createTask maps a new file; a quick upload needs no mapping.
\* Mutant: copyTask leaves file_map out.
MapNotCopied(w) == map

MapOf(w) == IF verdict[w] = "PUT_QUICK" THEN map ELSE "mapped"

\* UpDownCon::init copies the task field by field: task_type, names and
\* file_size are visible to close() before handled_size is.
PutsInit(w) ==
  /\ Goto(w, "init", "handled")
  /\ fileSize' = Total
  /\ UNCHANGED <<wireVars, queue, job, verdict, status, verified, handled, map,
                 closing, storeVars, serverUp>>

PutsHandled(w) ==
  /\ Goto(w, "handled", "status")
  /\ handled' = IF verdict[w] = "PUT_QUICK" THEN Total ELSE 0
  /\ map' = MapOf(w)
  /\ verified' = TRUE
  /\ UNCHANGED <<wireVars, queue, job, verdict, status, fileSize, closing,
                 storeVars, serverUp>>

PutsStatus(w) ==
  /\ Goto(w, "status", "reply")
  /\ status' = IF verdict[w] = "PUT_QUICK" THEN "FIN" ELSE "DOING"
  /\ UNCHANGED <<wireVars, queue, job, verdict, verified, fileSize, handled, map,
                 closing, storeVars, serverUp>>

PutsReply(w) ==
  /\ Goto(w, "reply", IF verdict[w] = "PUT_QUICK" THEN "quick" ELSE "again")
  /\ Send(Answer(verdict[w]))
  /\ UNCHANGED <<toServer, linkUp, queue, job, verdict, connVars, closing, storeVars>>

\* Mutant: the result of the insertion is not looked at.
OutcomeUnchecked(ok) == "SUCCESS"

Outcome(ok) == IF ok THEN "SUCCESS" ELSE "FAILED"

\* MyDB::insertFileData inserts the row and then adds to the space in use, without a
\* transaction; it returns the new id when both have worked, and otherwise 0.
Insert(w) ==
  \E inserted, charged \in BOOLEAN :
    /\ charged => inserted
    /\ rows' = IF inserted THEN rows + 1 ELSE rows
    /\ verdict' = [verdict EXCEPT ![w] = Outcome(charged)]

PutsQuick(w) ==
  /\ Goto(w, "quick", "done")
  /\ Insert(w)
  /\ UNCHANGED <<wireVars, queue, job, connVars, closing, disk, data, priorRow, serverUp>>

\* The second send is reached on every path.  It carries PUTS_FINISH after a
\* quick upload and otherwise repeats the answer just sent.
\* Mutant: the quick path does not change the code to PUTS_FINISH.
SecondAnswerRepeats(w) == Answer(verdict[w])

SecondAnswer(w) ==
  IF pc[w] = "done" THEN Finished(verdict[w]) ELSE Answer(verdict[w])

PutsAgain(w) ==
  /\ Return(w, "again") \/ Return(w, "done")
  /\ Send(SecondAnswer(w))
  /\ verified' = (verified /\ verdict[w] \notin {"FAILED", "NO_CAPACITY"})
  /\ UNCHANGED <<toServer, linkUp, queue, verdict, status, fileSize, handled, map,
                 closing, storeVars>>

Puts(w) ==
  \/ PutsStart(w)
  \/ PutsLookup(w)
  \/ PutsOpen(w)
  \/ PutsInit(w)
  \/ PutsHandled(w)
  \/ PutsStatus(w)
  \/ PutsReply(w)
  \/ PutsQuick(w)
  \/ PutsAgain(w)

-----------------------------------------------------------------------------
(* PutsDataTool: one chunk *)

\* doingTask goes on only for a connection that is uploading and verified.
DataStart(w) ==
  /\ IF status = "DOING" /\ verified THEN /\ Goto(w, "data", "count")
                                         /\ UNCHANGED job
                                    ELSE Return(w, "data")
  /\ UNCHANGED <<wireVars, queue, verdict, connVars, closing, storeVars, serverUp>>

\* lessEqualAddTaskHandleSize(total - size, size): check and add under one lock.
\* Mutant: the bytes to come are not part of the check.
FitsBefore(size) == handled < Total

Fits(size) == handled <= Total - size

DataCount(w) ==
  /\ LET size == SizeOf(job[w].chunk)
     IN  \/ /\ Goto(w, "count", "copy")
            /\ Fits(size)
            /\ handled' = handled + size
            /\ UNCHANGED job
         \/ /\ Return(w, "count")
            /\ ~Fits(size)
            /\ UNCHANGED handled
  /\ UNCHANGED <<wireVars, queue, verdict, status, verified, fileSize, map,
                 closing, storeVars, serverUp>>

\* memcpy into the mapping at file_offset.
\* Mutant: the offset is not added.
CopiedToStart(w) == [data EXCEPT ![0] = IF job[w].intact THEN "good" ELSE "bad"]

Copied(w) ==
  [data EXCEPT ![job[w].chunk] = IF job[w].intact THEN "good" ELSE "bad"]

\* After close() the mapping is gone and the pointer null: the copy ends the
\* process.
DataCopy(w) ==
  /\ Goto(w, "copy", "ack")
  /\ serverUp' = (map = "mapped")
  /\ data' = IF map = "mapped" THEN Copied(w) ELSE data
  /\ UNCHANGED <<wireVars, queue, job, verdict, connVars, closing, disk, priorRow, rows>>

DataAck(w) ==
  /\ Goto(w, "ack", "full")
  /\ Send(Ack(job[w].chunk))
  /\ UNCHANGED <<toServer, linkUp, queue, job, verdict, connVars, closing, storeVars>>

\* The bytes are all counted: the one thread whose compare-exchange takes the
\* status from DOING to FIN records the file.
\* Mutant: no compare-exchange.
WinsFinishAlways == TRUE

WinsFinish == status = "DOING"

DataFull(w) ==
  /\ IF handled = Total /\ WinsFinish
     THEN /\ Goto(w, "full", "insert")
          /\ status' = "FIN"
          /\ UNCHANGED job
     ELSE /\ Return(w, "full")
          /\ UNCHANGED status
  /\ UNCHANGED <<wireVars, queue, verdict, verified, fileSize, handled, map,
                 closing, storeVars, serverUp>>

DataInsert(w) ==
  /\ Goto(w, "insert", "finished")
  /\ Insert(w)
  /\ UNCHANGED <<wireVars, queue, job, connVars, closing, disk, data, priorRow, serverUp>>

DataFinished(w) ==
  /\ Return(w, "finished")
  /\ Send(Finished(verdict[w]))
  /\ UNCHANGED <<toServer, linkUp, queue, verdict, connVars, closing, storeVars>>

PutsData(w) ==
  \/ DataStart(w)
  \/ DataCount(w)
  \/ DataCopy(w)
  \/ DataAck(w)
  \/ DataFull(w)
  \/ DataInsert(w)
  \/ DataFinished(w)

-----------------------------------------------------------------------------
\* PutsFinishTool compares sizes and MD5 strings only to log the result.
PutsFinish(w) ==
  /\ Return(w, "finish")
  /\ status' = IF status = "FIN" THEN "CLOSE" ELSE status
  /\ UNCHANGED <<wireVars, queue, verdict, verified, fileSize, handled, map,
                 closing, storeVars, serverUp>>

\* closeCon drops the reactor's reference; the next client that is given the same
\* descriptor replaces the last one, and a task that is still running or queued
\* then works on freed memory.
UseFreed(w) ==
  /\ serverUp
  /\ closing = "closed"
  /\ pc[w] # "idle"
  /\ serverUp' = FALSE
  /\ UNCHANGED <<wireVars, queue, pc, job, verdict, connVars, closing, storeVars>>

Reactor == HandleClientData \/ CloseBegin \/ CloseRelease \/ CloseRemove
Pool(w) == TakeTask(w) \/ Puts(w) \/ PutsData(w) \/ PutsFinish(w) \/ UseFreed(w)
=============================================================================
