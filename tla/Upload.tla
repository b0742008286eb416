------------------------------- MODULE Upload -------------------------------
(***************************************************************************)
(* One upload from the request to its end: the client's worker, coroutines *)
(* and buttons, the two directions of the TLS stream, the reactor, the     *)
(* thread pool and the store.                                              *)
(***************************************************************************)
EXTENDS UploadServer, UploadClient

vars == <<wireVars, serverVars, clientVars>>

\* doingUp has just written the TranPdu.
Init ==
  /\ toServer = <<PutsPdu>>
  /\ toClient = <<>>
  /\ linkUp = TRUE
  /\ ServerInit
  /\ ClientInit

ServerStep == Reactor \/ \E w \in Worker : Pool(w)
ClientStep == UdTool \/ TProgress \/ \E i \in Sender : SendFileData(i)

Next ==
  \/ ServerStep /\ UNCHANGED clientVars
  \/ ClientStep /\ UNCHANGED serverVars
  \/ ClientDies /\ UNCHANGED serverVars

Spec == Init /\ [][Next]_vars

\* Threads are scheduled: the reactor, the pool, the client's event loop and its
\* coroutines keep going.  Users and networks owe nothing.
Fairness ==
  /\ WF_vars(Reactor /\ UNCHANGED clientVars)
  /\ \A w \in Worker : WF_vars(Pool(w) /\ UNCHANGED clientVars)
  /\ WF_vars(UdTool /\ UNCHANGED serverVars)
  /\ \A i \in Sender : WF_vars(SendFileData(i) /\ UNCHANGED serverVars)

FairSpec == Spec /\ Fairness

-----------------------------------------------------------------------------
\* Every variable keeps to the values the code can give it.
TypeOK == WireTypeOK /\ ServerTypeOK /\ ClientTypeOK

\* The compare-exchange from DOING to FIN in recvFileData, and the one request
\* per connection, let a single thread insert the row, and once.
Inserters == {w \in Worker : pc[w] \in {"quick", "insert"}}

InsertOnce ==
  /\ rows <= 1
  /\ \A w \in Inserters : rows = 0 /\ Inserters = {w}

\* The progress bar counts acknowledged bytes: it never runs ahead of what the
\* server has counted, and that never exceeds the size of the file although
\* every chunk may be sent twice.
ProgressHonest ==
  /\ sended <= handled
  /\ handled <= Total

\* A chunk's acknowledgement, in flight or handled, means that the chunk's bytes
\* have been copied into the file: recvFileData copies before it answers.
Acked == {c \in Chunk : c \notin unacked \/ Carries(toClient, Ack(c))}

AckedIsWritten == \A c \in Acked : data[c] # "hole"

\* Whoever has read, or is about to read, a successful PUTS_FINISH has a row, all
\* bytes counted and, for a transferred file, the file itself.
SuccessAnnounced ==
  told = "success" \/ Carries(toClient, Finished("SUCCESS"))

SuccessMeansStored ==
  SuccessAnnounced => rows = 1 /\ handled = Total /\ (priorRow \/ disk)

\* close() never removes the file of a transferred upload that has a row, at
\* whatever step of the pool threads the connection goes.
RowHasFile == rows = 1 /\ ~priorRow => disk

\* Once close() has begun, no transfer is finished any more, although a request
\* that is still being prepared may overwrite the CLOSE mark with DOING.
NoLateFinish == closing # "open" /\ ~priorRow /\ status # "FIN" => status' # "FIN"

ClosedStaysUnfinished == [][NoLateFinish]_vars

\* The process can only die under an upload whose connection is being closed: a
\* thread never copies before the mapping is there.
CrashOnlyAfterClose == ~serverUp => closing \in {"remove", "closed"}

\* A pressed pause holds every coroutine that has not yet passed the check of
\* the control word; the chunk that has passed it may still go.
PauseHolds ==
  [][ctrl = "pause" =>
       \A i \in Sender : sender'[i] = "send" => sender[i] = "send"]_vars

\* A one-chunk upload that is never paused ends with the user told, as long as
\* the client lives: no answer or notification it waits for can be missing.
EveryUploadEnds ==
  [](pauses = 0 /\ linkUp) => <>(told # "nothing")

\* The upload keeps the promise stated without connection and threads.
Promise == INSTANCE UploadPromise WITH recorded <- rows, outcome <- told

PromiseKept == Promise!Spec

-----------------------------------------------------------------------------
(* Stated by the repository, and not kept by the code *)

\* README.md: hashes verify that a file is right.  The recorded file would hold
\* every chunk at its place once no thread is still copying.
StoredIntact ==
  /\ rows = 1
  /\ ~priorRow
  /\ \A w \in Worker : pc[w] # "copy"
  => \A c \in Chunk : data[c] = "good"

\* LongTaskTool.cpp: handled_size is set to the total, "otherwise the file would
\* be deleted", so that a quick upload never loses the stored file.
PriorFileKept == priorRow => disk

\* TProgress.cpp: continue and close wake the worker thread.
ClickWakes == ctrl # "pause" => \A i \in Sender : sender[i] # "blocked"
=============================================================================
