------------------------------ MODULE Download ------------------------------
(***************************************************************************)
(* Downloads from the request to their end.  On the server the reactor     *)
(* frames PDUs into tasks of the thread pool: GetsTool, GetsDataTool (one  *)
(* thread sends the whole file), GetsControlTool and GetsFinishTool share  *)
(* the status word of UpDownCon, each read and each store of it a step of  *)
(* its own.  On the client DownTool's slots run one at a time, and its     *)
(* destructor waits for the receiving coroutine of SR_Tool.                *)
(***************************************************************************)
EXTENDS Integers, Sequences

CONSTANTS
  Down,       \* downloads, each with a connection of its own
  Worker,     \* threads of WorkQue that are not running a reactor loop
  NChunks,    \* total_chunks of each file
  MaxClicks   \* bound: presses of pause and continue per download

ASSUME DownloadAssumption == NChunks \in Nat \ {0} /\ MaxClicks \in Nat

VARIABLES
  toServer, toClient,   \* the TLS stream, one FIFO per direction
  queue,                \* WorkQue: tasks of all the connections
  pc, job, cur,         \* what each pool thread does, its task, its chunk index
  status, verified,     \* UpDownCon::status_ and AbstractCon::is_verify_
  handled,              \* task_.handled_size, in chunks
  closed,               \* close() has freed the SSL object and the mapping
  serverUp,             \* FALSE once the process died of a segmentation fault
  sound,                \* the stored file has the hash of its row, and no longer
                        \* file of the user's was at the chosen path
  file,                 \* the file at the chosen path
  recv,                 \* file_ctx_.recv_bytes, in chunks
  worker,               \* DownTool: active, over (workFinished or error
                        \* emitted), stopping (in its destructor), gone
  told,                 \* what has been reported to the user
  clicks                \* presses of pause and continue so far

netVars    == <<toServer, toClient>>
poolVars   == <<queue, pc, job, cur>>
conVars    == <<status, verified, handled, closed, serverUp, sound>>
clientVars == <<file, recv, worker, told, clicks>>
vars       == <<netVars, poolVars, conVars, clientVars>>

-----------------------------------------------------------------------------
Chunk   == 0..(NChunks - 1)
Actions == {"PAUSE", "RESUME", "CANCEL"}
Codes   == {"GETS", "GETS_DATA", "FINISH_OK", "FINISH_BAD"} \cup Actions
Task    == [d : Down, code : Codes]
NoJob   == [d |-> CHOOSE d \in Down : TRUE, code |-> "none"]
Data(c) == [code |-> "GETS_DATA", chunk |-> c]
Answers == [code : {"GETS", "GETS_FINISH"}, ok : BOOLEAN] \cup {Data(c) : c \in Chunk}
Answer(code, ok) == [code |-> code, ok |-> ok]

GetsSteps == {"start", "lookup", "doing", "accept", "refuse"}
DataSteps == {"begin", "ssl", "chunk", "pause", "wait", "falling", "asleep",
              "cancel", "send", "end"}
Steps == {"idle", "control", "apply", "finish", "answer"} \cup GetsSteps \cup DataSteps

TypeOK ==
  /\ toServer \in [Down -> Seq(Codes)]
  /\ toClient \in [Down -> Seq(Answers)]
  /\ queue \in Seq(Task)
  /\ pc \in [Worker -> Steps]
  /\ job \in [Worker -> Task \cup {NoJob}]
  /\ cur \in [Worker -> Chunk]
  /\ status \in [Down -> {"START", "DOING", "PAUSE", "CLOSE", "FIN"}]
  /\ handled \in [Down -> 0..NChunks]
  /\ file \in [Down -> {"none", "open", "whole"}]
  /\ recv \in [Down -> 0..NChunks]
  /\ worker \in [Down -> {"active", "over", "stopping", "gone"}]
  /\ told \in [Down -> SUBSET {"done", "error", "gap", "cancelled"}]
  /\ clicks \in [Down -> 0..MaxClicks]
  /\ \A f \in {verified, closed, sound} : f \in [Down -> BOOLEAN]
  /\ serverUp \in BOOLEAN

\* handleGetsClicked has started the worker and doingDown has written the request.
Init ==
  /\ toServer = [d \in Down |-> <<"GETS">>]
  /\ toClient = [d \in Down |-> <<>>]
  /\ queue = <<>>
  /\ pc = [w \in Worker |-> "idle"]
  /\ job = [w \in Worker |-> NoJob]
  /\ cur = [w \in Worker |-> 0]
  /\ status = [d \in Down |-> "START"]
  /\ verified = [d \in Down |-> FALSE]
  /\ handled = [d \in Down |-> 0]
  /\ closed = [d \in Down |-> FALSE]
  /\ serverUp = TRUE
  /\ sound \in [Down -> BOOLEAN]
  /\ file = [d \in Down |-> "none"]
  /\ recv = [d \in Down |-> 0]
  /\ worker = [d \in Down |-> "active"]
  /\ told = [d \in Down |-> {}]
  /\ clicks = [d \in Down |-> 0]

-----------------------------------------------------------------------------
(* The reactor *)

\* One PDU is cut off the stream and becomes a task.
HandleClientData(d) ==
  /\ serverUp /\ ~closed[d]
  /\ toServer[d] # <<>>
  /\ queue' = Append(queue, [d |-> d, code |-> Head(toServer[d])])
  /\ toServer' = [toServer EXCEPT ![d] = Tail(@)]
  /\ UNCHANGED <<toClient, pc, job, cur, conVars, clientVars>>

\* UpDownCon::close, on the client's hang-up (a client that dies just
\* takes no step any more) or on the idle timeout, which a
\* long download does not put off: only data from the client does.  Nobody is
\* notified.
CloseCon(d) ==
  /\ serverUp /\ ~closed[d]
  /\ closed' = [closed EXCEPT ![d] = TRUE]
  /\ status' = [status EXCEPT ![d] = "CLOSE"]
  /\ UNCHANGED <<netVars, poolVars, verified, handled, serverUp, sound, clientVars>>

-----------------------------------------------------------------------------
(* The pool threads *)

Goto(w, from, to) ==
  /\ serverUp
  /\ pc[w] = from
  /\ pc' = [pc EXCEPT ![w] = to]
  /\ UNCHANGED <<queue, job>>

Return(w, from) ==
  /\ serverUp
  /\ pc[w] = from
  /\ pc' = [pc EXCEPT ![w] = "idle"]
  /\ job' = [job EXCEPT ![w] = NoJob]
  /\ cur' = [cur EXCEPT ![w] = 0]
  /\ UNCHANGED queue

Con(w) == job[w].d
Store(w, s) == status' = [status EXCEPT ![Con(w)] = s]

Entry(code) ==
  CASE code = "GETS" -> "start"
    [] code = "GETS_DATA" -> "begin"
    [] code \in Actions -> "control"
    [] OTHER -> "finish"

TakeTask(w) ==
  /\ serverUp
  /\ pc[w] = "idle" /\ queue # <<>>
  /\ queue' = Tail(queue)
  /\ job' = [job EXCEPT ![w] = Head(queue)]
  /\ pc' = [pc EXCEPT ![w] = Entry(Head(queue).code)]
  /\ UNCHANGED <<netVars, cur, conVars, clientVars>>

\* SRTool's send loop under send_mutex_, on a socket that does not block: the
\* -1 of a full socket or of a dead peer, held in a size_t, ends the loop as a
\* wrong byte count, so either is an error.  After close() the SSL object is gone.
Sent(w, m) ==
  /\ ~closed[Con(w)]
  /\ toClient' = [toClient EXCEPT ![Con(w)] = Append(@, m)]
  /\ UNCHANGED serverUp
NotSent(w) ==
  /\ serverUp' \in IF closed[Con(w)] THEN BOOLEAN ELSE {TRUE}
  /\ UNCHANGED toClient

\* A response is not checked for having been sent.  It never meets a full socket:
\* the client has read everything before it asks.
Respond(w, m) ==
  \/ Sent(w, m)
  \/ closed[Con(w)] /\ NotSent(w)

GetsStart(w) ==
  /\ \/ status[Con(w)] = "START" /\ Goto(w, "start", "lookup") /\ UNCHANGED cur
     \/ status[Con(w)] # "START" /\ Return(w, "start")
  /\ UNCHANGED <<netVars, conVars, clientVars>>

\* Mutant: the connection is not marked as verified.
LookupForgets(w) ==
  /\ \/ Goto(w, "lookup", "doing")
     \/ Goto(w, "lookup", "refuse")
  /\ UNCHANGED <<netVars, cur, conVars, clientVars>>

\* getUserInfo and createTask: no such user, no such file, an empty file, or a
\* file that cannot be mapped; otherwise init() and setVerify(true).
GetsLookup(w) ==
  /\ \/ /\ Goto(w, "lookup", "doing")
        /\ verified' = [verified EXCEPT ![Con(w)] = TRUE]
        /\ handled' = [handled EXCEPT ![Con(w)] = 0]
     \/ /\ Goto(w, "lookup", "refuse")
        /\ UNCHANGED <<verified, handled>>
  /\ UNCHANGED <<netVars, cur, status, closed, serverUp, sound, clientVars>>

\* A plain store: it also overwrites the CLOSE of a connection closed meanwhile.
GetsDoing(w) ==
  /\ Goto(w, "doing", "accept")
  /\ Store(w, "DOING")
  /\ UNCHANGED <<netVars, cur, verified, handled, closed, serverUp, sound, clientVars>>

GetsAccept(w) ==
  /\ Return(w, "accept")
  /\ Respond(w, Answer("GETS", TRUE))
  /\ UNCHANGED <<toServer, status, verified, handled, closed, sound, clientVars>>

GetsRefuse(w) ==
  /\ Return(w, "refuse")
  /\ Respond(w, Answer("GETS", FALSE))
  /\ Store(w, "CLOSE")
  /\ UNCHANGED <<toServer, verified, handled, closed, sound, clientVars>>

-----------------------------------------------------------------------------
(* GetsDataTool *)

Look(w, from, yes, to, otherwise) ==
  /\ Goto(w, from, IF yes THEN to ELSE otherwise)
  /\ UNCHANGED <<netVars, cur, conVars, clientVars>>

DataBegin(w) ==
  /\ \/ /\ status[Con(w)] = "DOING" /\ verified[Con(w)]
        /\ Goto(w, "begin", "ssl")
        /\ UNCHANGED cur
     \/ /\ ~(status[Con(w)] = "DOING" /\ verified[Con(w)])
        /\ Return(w, "begin")
  /\ UNCHANGED <<netVars, conVars, clientVars>>

DataSsl(w) ==
  /\ \/ ~closed[Con(w)] /\ Goto(w, "ssl", "chunk") /\ UNCHANGED <<cur, status>>
     \/ closed[Con(w)] /\ Return(w, "ssl") /\ Store(w, "CLOSE")
  /\ UNCHANGED <<netVars, verified, handled, closed, serverUp, sound, clientVars>>

\* The chunk is copied out of the mapping, which close() removes.
DataChunk(w) ==
  /\ Goto(w, "chunk", "pause")
  /\ serverUp' = ~closed[Con(w)]
  /\ UNCHANGED <<netVars, cur, status, verified, handled, closed, sound, clientVars>>

Paused(w) == status[Con(w)] = "PAUSE"

DataPause(w) == Look(w, "pause", Paused(w), "wait", "cancel")

\* UpDownCon::wait: the mutex is held from the check of the predicate until the
\* thread is asleep, but who changes the status does not take it.
DataWait(w) == Look(w, "wait", Paused(w), "falling", "cancel")
DataSleep(w) == Look(w, "falling", TRUE, "asleep", "asleep")

DataCancel(w) == Look(w, "cancel", status[Con(w)] = "CLOSE", "end", "send")

\* Mutant: a chunk that could not be sent is skipped.
DataSendSkips(w) ==
  /\ Goto(w, "send", IF cur[w] = NChunks - 1 THEN "end" ELSE "chunk")
  /\ Sent(w, Data(cur[w])) \/ NotSent(w)
  /\ handled' = [handled EXCEPT ![Con(w)] = @ + 1]
  /\ cur' = [cur EXCEPT ![w] = IF @ = NChunks - 1 THEN @ ELSE @ + 1]
  /\ UNCHANGED <<toServer, status, verified, closed, sound, clientVars>>

\* Mutant: the loop over the file runs once too often.
DataSendOneMore(w) ==
  /\ Goto(w, "send", IF cur[w] = NChunks THEN "end" ELSE "chunk")
  /\ Sent(w, Data(cur[w])) \/ NotSent(w)
  /\ handled' = [handled EXCEPT ![Con(w)] = @ + 1]
  /\ cur' = [cur EXCEPT ![w] = @ + 1]
  /\ UNCHANGED <<toServer, status, verified, closed, sound, clientVars>>

DataSend(w) ==
  /\ \/ /\ Goto(w, "send", IF cur[w] = NChunks - 1 THEN "end" ELSE "chunk")
        /\ Sent(w, Data(cur[w]))
        /\ handled' = [handled EXCEPT ![Con(w)] = @ + 1]
        /\ cur' = [cur EXCEPT ![w] = IF @ = NChunks - 1 THEN @ ELSE @ + 1]
     \/ /\ Goto(w, "send", "end")
        /\ NotSent(w)
        /\ UNCHANGED <<handled, cur>>
  /\ UNCHANGED <<toServer, status, verified, closed, sound, clientVars>>

\* Only this thread writes handled_size; the store overwrites PAUSE and CLOSE.
DataEnd(w) ==
  /\ Return(w, "end")
  /\ Store(w, IF handled[Con(w)] = NChunks THEN "FIN" ELSE "CLOSE")
  /\ UNCHANGED <<netVars, verified, handled, closed, serverUp, sound, clientVars>>

-----------------------------------------------------------------------------
(* GetsFinishTool and GetsControlTool *)

FinishCheck(w) ==
  /\ \/ status[Con(w)] = "FIN" /\ Goto(w, "finish", "answer") /\ UNCHANGED cur
     \/ status[Con(w)] # "FIN" /\ Return(w, "finish")
  /\ UNCHANGED <<netVars, conVars, clientVars>>

\* Mutant: both branches of GetsFinishTool answer SUCCESS.
FinishAnswerAlways(w) ==
  /\ Return(w, "answer")
  /\ Respond(w, Answer("GETS_FINISH", TRUE))
  /\ Store(w, "CLOSE")
  /\ UNCHANGED <<toServer, verified, handled, closed, sound, clientVars>>

FinishAnswer(w) ==
  /\ Return(w, "answer")
  /\ Respond(w, Answer("GETS_FINISH", job[w].code = "FINISH_OK"))
  /\ Store(w, "CLOSE")
  /\ UNCHANGED <<toServer, verified, handled, closed, sound, clientVars>>

Controllable(w) == status[Con(w)] \in {"PAUSE", "DOING"} /\ verified[Con(w)]

ControlCheck(w) ==
  /\ \/ Controllable(w) /\ Goto(w, "control", "apply") /\ UNCHANGED cur
     \/ ~Controllable(w) /\ Return(w, "control")
  /\ UNCHANGED <<netVars, conVars, clientVars>>

\* The status may have moved on since it was checked.  RESUME and CANCEL notify:
\* a thread asleep wakes up, one that is about to fall asleep does not.
ControlApply(w) ==
  LET woken == {v \in Worker : pc[v] = "asleep" /\ Con(v) = Con(w)}
  IN  /\ serverUp
      /\ pc[w] = "apply"
      /\ pc' = [v \in Worker |->
                  CASE v = w -> "idle"
                    [] v \in woken /\ job[w].code # "PAUSE" -> "wait"
                    [] OTHER -> pc[v]]
      /\ job' = [job EXCEPT ![w] = NoJob]
      /\ Store(w, CASE job[w].code = "PAUSE" -> "PAUSE"
                    [] job[w].code = "RESUME" -> "DOING"
                    [] job[w].code = "CANCEL" -> "CLOSE")
      /\ UNCHANGED <<netVars, queue, cur, verified, handled, closed, serverUp,
                     sound, clientVars>>

Pool(w) ==
  \/ TakeTask(w)
  \/ GetsStart(w) \/ GetsLookup(w) \/ GetsDoing(w) \/ GetsAccept(w) \/ GetsRefuse(w)
  \/ DataBegin(w) \/ DataSsl(w) \/ DataChunk(w) \/ DataPause(w) \/ DataWait(w)
  \/ DataSleep(w) \/ DataCancel(w) \/ DataSend(w) \/ DataEnd(w)
  \/ FinishCheck(w) \/ FinishAnswer(w)
  \/ ControlCheck(w) \/ ControlApply(w)

-----------------------------------------------------------------------------
(* DownTool's slots: they still run between the end of the work and the       *)
(* deletion of the worker, if their events were queued before it.              *)

Slot(d) ==
  /\ worker[d] \in {"active", "over"}
  /\ UNCHANGED <<poolVars, conVars>>

Handles(d, code) ==
  /\ Slot(d)
  /\ toClient[d] # <<>> /\ Head(toClient[d]).code = code
  /\ toClient' = [toClient EXCEPT ![d] = Tail(@)]
  /\ UNCHANGED clicks

\* SR_Tool::send: what goes to a closed connection is lost, or reported.
Write(d, m) == toServer' = IF closed[d] THEN toServer
                           ELSE [toServer EXCEPT ![d] = Append(@, m)]

SetFile(d, f) == file' = [file EXCEPT ![d] = f]

\* emit workFinished, or emit error: both also delete the worker later.
Tell(d, os) == /\ told' = [told EXCEPT ![d] = @ \cup os]
               /\ worker' = [worker EXCEPT ![d] = "over"]

RemoveAndFail(d) ==
  /\ SetFile(d, "none")
  /\ Tell(d, {"error"})
  /\ UNCHANGED toServer

HandleGetsRespond(d) ==
  /\ Handles(d, "GETS")
  /\ \/ /\ Head(toClient[d]).ok
        /\ SetFile(d, "open")
        /\ Write(d, "GETS_DATA")
        /\ UNCHANGED <<told, worker>>
     \/ /\ Head(toClient[d]).ok
        /\ closed[d]
        /\ RemoveAndFail(d)
     \/ /\ Tell(d, {"error"})          \* refused, or the file cannot be opened
        /\ UNCHANGED <<file, toServer>>
  /\ UNCHANGED recv

\* verifySHA256 reads the whole local file: also what a longer prior file has
\* left behind the last byte written.
Verified(d) == sound[d]
Expected(d) == Head(toClient[d]).chunk = recv[d]
HandleRecvTranDataPdu(d) ==
  /\ Handles(d, "GETS_DATA")
  /\ \/ /\ file[d] # "open"
        /\ UNCHANGED <<toServer, file, recv, told, worker>>
     \/ /\ file[d] = "open" /\ ~Expected(d)
        /\ SetFile(d, "none")
        /\ Tell(d, {"gap"})
        /\ UNCHANGED <<toServer, recv>>
     \/ /\ file[d] = "open" /\ Expected(d)
        /\ recv' = [recv EXCEPT ![d] = @ + 1]
        /\ \/ /\ recv[d] + 1 # NChunks
              /\ UNCHANGED <<toServer, file, told, worker>>
           \/ /\ recv[d] + 1 = NChunks
              /\ SetFile(d, IF Verified(d) THEN "whole" ELSE "none")
              /\ Write(d, IF Verified(d) THEN "FINISH_OK" ELSE "FINISH_BAD")
              /\ UNCHANGED <<told, worker>>
           \/ /\ recv[d] + 1 = NChunks
              /\ closed[d]
              /\ RemoveAndFail(d)

HandleGetsFinishRespond(d) ==
  /\ Handles(d, "GETS_FINISH")
  /\ \/ Head(toClient[d]).ok /\ Tell(d, {"done"}) /\ UNCHANGED file
     \/ ~Head(toClient[d]).ok /\ Tell(d, {"error"}) /\ SetFile(d, "none")
  /\ UNCHANGED <<toServer, recv>>

\* sendPauseRequest and sendResumeRequest, from TProgress's buttons: a write to a
\* closed connection is lost, or reported.
SendControl(d) ==
  /\ Slot(d)
  /\ clicks[d] < MaxClicks /\ "cancelled" \notin told[d]
  /\ clicks' = [clicks EXCEPT ![d] = @ + 1]
  /\ \E a \in {"PAUSE", "RESUME"} : Write(d, a)
  /\ \/ UNCHANGED <<told, worker>>
     \/ closed[d] /\ Tell(d, {"error"})
  /\ UNCHANGED <<toClient, file, recv>>

Unfinished(d) == recv[d] # NChunks

\* Mutant: the copy is removed also when it is complete.
CancelRemoves(d) ==
  /\ Slot(d)
  /\ "cancelled" \notin told[d]
  /\ SetFile(d, "none")
  /\ Write(d, "CANCEL")
  /\ Tell(d, {"cancelled"})
  /\ UNCHANGED <<toClient, recv, clicks>>

SendCancelRequest(d) ==
  /\ Slot(d)
  /\ "cancelled" \notin told[d]
  /\ SetFile(d, IF Unfinished(d) THEN "none" ELSE file[d])
  /\ Write(d, "CANCEL")
  /\ Tell(d, {"cancelled"}) \/ (closed[d] /\ Tell(d, {"error", "cancelled"}))
  /\ UNCHANGED <<toClient, recv, clicks>>

Slots(d) ==
  \/ HandleGetsRespond(d)
  \/ HandleRecvTranDataPdu(d)
  \/ HandleGetsFinishRespond(d)

\* ~DownTool: SR_stop() clears running_ and joins the thread that runs the
\* receiving coroutine.  What was queued for the slots is dropped.
BeginStop(d) ==
  /\ worker[d] = "over"
  /\ worker' = [worker EXCEPT ![d] = "stopping"]
  /\ UNCHANGED <<netVars, poolVars, conVars, file, recv, told, clicks>>

\* Mutant: the destructor only closes the file.
EndStopKeeps(d) ==
  /\ worker[d] = "stopping"
  /\ closed[d] \/ toClient[d] # <<>> \/ ~serverUp
  /\ worker' = [worker EXCEPT ![d] = "gone"]
  /\ UNCHANGED <<netVars, poolVars, conVars, file, recv, told, clicks>>

\* The coroutine ends when the server closes, or with one more PDU; then the
\* file is closed, removed unless complete, and so is the connection.
EndStop(d) ==
  /\ worker[d] = "stopping"
  /\ closed[d] \/ toClient[d] # <<>> \/ ~serverUp
  /\ worker' = [worker EXCEPT ![d] = "gone"]
  /\ SetFile(d, IF Unfinished(d) THEN "none" ELSE file[d])
  /\ UNCHANGED <<netVars, poolVars, conVars, recv, told, clicks>>

-----------------------------------------------------------------------------
Next ==
  \/ \E w \in Worker : Pool(w)
  \/ \E d \in Down :
       \/ HandleClientData(d) \/ CloseCon(d)
       \/ Slots(d) \/ SendControl(d) \/ SendCancelRequest(d)
       \/ BeginStop(d) \/ EndStop(d)

Spec == Init /\ [][Next]_vars

\* Threads are scheduled; users, networks and timeouts owe nothing.
Fairness ==
  /\ \A w \in Worker : WF_vars(Pool(w))
  /\ \A d \in Down : WF_vars(HandleClientData(d)) /\ WF_vars(Slots(d))

FairSpec == Spec /\ Fairness

-----------------------------------------------------------------------------
(* Properties *)

\* The user is told that a download is done only when the file at the chosen path
\* is complete and has the hash the server's row names, although the server, not
\* the client, decides from its own status word whether to say so.
DoneMeansWhole ==
  \A d \in Down :
    "done" \in told[d] => file[d] = "whole" /\ recv[d] = NChunks /\ sound[d]

\* However a download ends, a half-written file does not survive the worker: the
\* destructor removes what the handlers have not.
GoneLeavesNoPartial ==
  \A d \in Down : worker[d] = "gone" => file[d] \in {"none", "whole"}

\* The client never finds a hole between two chunks: one thread sends them, and a
\* send that fails ends the transfer.
NoGap == \A d \in Down : "gap" \notin told[d]

Quiet(d) ==
  ~closed[d] /\ serverUp /\ clicks[d] = 0 /\ "cancelled" \notin told[d]

\* A server that could not send a chunk gives the transfer up and tells nobody.
GivenUp(d) == status[d] = "CLOSE" /\ handled[d] < NChunks

\* A download nobody pauses, cancels or cuts off comes to an end: the client has
\* received everything, or the user is told, unless the server gave up.  The confirmation is
\* not promised: the client's FINISH may overtake the sender's store of FIN.
EveryDownloadEnds ==
  \A d \in Down : []Quiet(d) => <>(told[d] # {} \/ recv[d] = NChunks \/ GivenUp(d))

Held(d) == IF file[d] \in {"open", "whole"} THEN recv[d] ELSE 0

Promise(d) == INSTANCE DownloadPromise
  WITH held <- Held(d), sealed <- file[d] = "whole", outcome <- told[d], Size <- NChunks

\* Each download implements DownloadPromise.
PromiseKept ==
  /\ \A d \in Down : Promise(d)!Init
  /\ [][\A d \in Down : Promise(d)!Next \/ UNCHANGED Promise(d)!promiseVars]_vars
=============================================================================
