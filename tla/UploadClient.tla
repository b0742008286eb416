---------------------------- MODULE UploadClient ----------------------------
(***************************************************************************)
(* The client's half of one upload: UdTool, whose slots run one at a time  *)
(* on its own QThread, the coroutines of SR_Tool::asyncSendFileData, which *)
(* run on the io_context's threads, and the three buttons of TProgress,    *)
(* which share the control word and its condition variable with them.  All *)
(* coroutines read the same QFile: they share its position.                *)
(***************************************************************************)
EXTENDS UploadWire

CONSTANTS
  Sender,     \* coroutines that sendFile() may start: 1..n
  MaxPauses   \* bound: how often the user presses pause

ASSUME PausesAssumption == MaxPauses \in Nat

VARIABLES
  phase,      \* active until UdTool emits workFinished or error
  told,       \* what the user is shown: nothing yet, success, failed, cancelled
  unacked,    \* file_ctx_.unacked_id
  sended,     \* file_ctx_.sended_bytes
  sender,     \* what each coroutine does next
  cursor,     \* cur_chunk_id of each coroutine
  intact,     \* the bytes a coroutine has read are those of its chunk
  filePos,    \* position of the shared QFile
  ctrl,       \* file_ctx_.ctrl: run (0), pause (1), stop (2)
  pauses      \* presses of pause so far

sendVars   == <<sender, cursor, intact, filePos>>
userVars   == <<ctrl, pauses>>
clientVars == <<phase, told, unacked, sended, sendVars, userVars>>

ClientTypeOK ==
  /\ phase \in {"active", "over"}
  /\ told \in {"nothing", "success", "failed", "cancelled"}
  /\ unacked \subseteq Chunk
  /\ sended \in Nat
  /\ sender \in [Sender -> {"off", "seek", "read", "check", "falling", "blocked",
                            "send", "end"}]
  /\ cursor \in [Sender -> 0..NChunks]
  /\ intact \in [Sender -> BOOLEAN]
  /\ filePos \in 0..Total
  /\ ctrl \in {"run", "pause", "stop"}
  /\ pauses \in 0..MaxPauses

\* doingUp has connected, hashed the file and written the TranPdu.
ClientInit ==
  /\ phase = "active"
  /\ told = "nothing"
  /\ unacked = Chunk
  /\ sended = 0
  /\ sender = [i \in Sender |-> "off"]
  /\ cursor = [i \in Sender |-> 0]
  /\ intact = [i \in Sender |-> FALSE]
  /\ filePos = 0
  /\ ctrl = "run"
  /\ pauses = 0

-----------------------------------------------------------------------------
(* UdTool's slots *)

Finish(t) ==
  /\ phase' = "over"
  /\ told' = t

Keep == UNCHANGED <<phase, told>>

\* sendFile() starts one more coroutine each time it is called.
SendFile ==
  \E i \in Sender :
    /\ sender[i] = "off"
    /\ \A j \in Sender : sender[j] = "off" => i <= j
    /\ sender' = [sender EXCEPT ![i] = "seek"]

Slot ==
  /\ linkUp
  /\ phase = "active"
  /\ toClient # <<>>
  /\ toClient' = Tail(toClient)
  /\ UNCHANGED <<linkUp, cursor, intact, filePos, userVars>>

HandlePutsRespond ==
  /\ Slot
  /\ Head(toClient).code = "PUTS"
  /\ \/ /\ Head(toClient).status = "SUCCESS"
        /\ SendFile
        /\ Keep
        /\ UNCHANGED <<unacked, sended>>
     \/ /\ Head(toClient).status = "PUT_QUICK"
        /\ unacked' = {}
        /\ sended' = Total
        /\ Keep
        /\ UNCHANGED sender
     \/ /\ Head(toClient).status \in {"FAILED", "NO_CAPACITY"}
        /\ Finish("failed")
        /\ UNCHANGED <<unacked, sended, sender>>
  /\ UNCHANGED toServer

HandlePutsDataRespond ==
  /\ Slot
  /\ Head(toClient).code = "PUTS_DATA"
  /\ unacked' = unacked \ {Head(toClient).chunk}
  /\ sended' = sended + SizeOf(Head(toClient).chunk)
  /\ Keep
  /\ UNCHANGED <<toServer, sender>>

\* On success the file appears in the view and the finish PDU is written back.
HandlePutsFinishRespond ==
  /\ Slot
  /\ Head(toClient).code = "PUTS_FINISH"
  /\ \/ /\ Head(toClient).status = "SUCCESS"
        /\ toServer' = Append(toServer, FinishPdu)
        /\ Finish("success")
     \/ /\ Head(toClient).status = "FAILED"
        /\ Finish("failed")
        /\ UNCHANGED toServer
  /\ UNCHANGED <<unacked, sended, sender>>

\* The cancel signal, and with it the deletion of the worker, reaches UdTool's
\* thread after whatever its event queue already holds.
SendCancelRequest ==
  /\ linkUp
  /\ ctrl = "stop"
  /\ phase = "active"
  /\ Finish("cancelled")
  /\ UNCHANGED <<wireVars, unacked, sended, sendVars, userVars>>

UdTool ==
  \/ HandlePutsRespond
  \/ HandlePutsDataRespond
  \/ HandlePutsFinishRespond
  \/ SendCancelRequest

-----------------------------------------------------------------------------
(* A coroutine of asyncSendFileData.  Nothing listens to SR_Tool::error, so a  *)
(* coroutine that fails just ends.                                             *)

Coroutine(i, from) ==
  /\ linkUp
  /\ sender[i] = from
  /\ UNCHANGED <<toClient, linkUp, phase, told, unacked, sended>>

Step(i, to) == sender' = [sender EXCEPT ![i] = to]

Seek(i) ==
  /\ Coroutine(i, "seek")
  /\ filePos' = OffsetOf(cursor[i])
  /\ Step(i, "read")
  /\ UNCHANGED <<toServer, cursor, intact, userVars>>

\* The read starts wherever the other coroutine left the file's position.  A
\* short read ends the coroutine; then the control word is looked at.
Read(i) ==
  LET size == SizeOf(cursor[i])
  IN  /\ Coroutine(i, "read")
      /\ \/ /\ filePos + size > Total
            /\ filePos' = Total
            /\ Step(i, "end")
            /\ UNCHANGED intact
         \/ /\ filePos + size <= Total
            /\ filePos' = filePos + size
            /\ intact' = [intact EXCEPT ![i] = (filePos = OffsetOf(cursor[i]))]
            /\ Step(i, CASE ctrl = "run"   -> "send"
                         [] ctrl = "pause" -> "check"
                         [] ctrl = "stop"  -> "end")
      /\ UNCHANGED <<toServer, cursor, userVars>>

\* Mutant: wait() without a predicate.
WokenAnyway == TRUE

Woken == ctrl # "pause"

\* cv->wait(lock, pred): the mutex is held from the check of the predicate until
\* the thread is asleep.
Check(i) ==
  /\ Coroutine(i, "check")
  /\ \A j \in Sender : sender[j] # "falling"
  /\ Step(i, IF Woken THEN "send" ELSE "falling")
  /\ UNCHANGED <<toServer, cursor, intact, filePos, userVars>>

FallAsleep(i) ==
  /\ Coroutine(i, "falling")
  /\ Step(i, "blocked")
  /\ UNCHANGED <<toServer, cursor, intact, filePos, userVars>>

\* Mutant: the loop runs once more.
IsLastOffByOne(c) == c = NChunks

IsLast(c) == c = LastChunk

SendChunk(i) ==
  /\ Coroutine(i, "send")
  /\ toServer' = Append(toServer, DataPdu(cursor[i], intact[i]))
  /\ cursor' = [cursor EXCEPT ![i] = @ + 1]
  /\ Step(i, IF IsLast(cursor[i]) THEN "end" ELSE "seek")
  /\ UNCHANGED <<intact, filePos, userVars>>

SendFileData(i) == Seek(i) \/ Read(i) \/ Check(i) \/ FallAsleep(i) \/ SendChunk(i)

-----------------------------------------------------------------------------
(* The buttons of TProgress.  They store the control word and notify without   *)
(* holding the mutex the coroutines wait with.                                 *)

Click(from, to) ==
  /\ linkUp
  /\ ctrl \in from
  /\ ctrl' = to
  /\ UNCHANGED <<wireVars, phase, told, unacked, sended, cursor, intact, filePos>>

NotifyOne ==
  \/ /\ \A i \in Sender : sender[i] # "blocked"
     /\ UNCHANGED sender
  \/ \E i \in Sender : sender[i] = "blocked" /\ Step(i, "check")

HandleStopPBClicked ==
  /\ pauses < MaxPauses
  /\ Click({"run"}, "pause")
  /\ pauses' = pauses + 1
  /\ UNCHANGED sender

HandleContinuePBClicked ==
  /\ Click({"pause"}, "run")
  /\ NotifyOne
  /\ UNCHANGED pauses

HandleClosePBClicked ==
  /\ Click({"run", "pause"}, "stop")
  /\ NotifyOne
  /\ UNCHANGED pauses

TProgress ==
  \/ HandleStopPBClicked
  \/ HandleContinuePBClicked
  \/ HandleClosePBClicked

-----------------------------------------------------------------------------
\* The client process or its network goes away; the server sees the link go
\* down.  A client that is merely done never closes the connection: ~UdTool
\* waits for threads that wait for the server.
ClientDies ==
  /\ linkUp
  /\ linkUp' = FALSE
  /\ UNCHANGED <<toServer, toClient, clientVars>>
=============================================================================
