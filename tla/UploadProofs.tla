---------------------------- MODULE UploadProofs ----------------------------
(***************************************************************************)
(* Theorems of Upload, for every number of chunks, chunk size, pool thread *)
(* and coroutine.                                                          *)
(***************************************************************************)
EXTENDS UploadInv, FiniteSetTheorems, TLAPS

-----------------------------------------------------------------------------
(* Sequences as streams of messages *)

LEMMA CarriesAppend ==
  ASSUME NEW S, NEW s \in Seq(S), NEW x \in S, NEW m
  PROVE  /\ Append(s, x) \in Seq(S)
         /\ Carries(Append(s, x), m) <=> (Carries(s, m) \/ m = x)
<1>1. /\ Append(s, x) \in Seq(S)
      /\ DOMAIN Append(s, x) = 1..(Len(s) + 1)
      /\ Append(s, x)[Len(s) + 1] = x
      /\ \A n \in 1..Len(s) : Append(s, x)[n] = s[n]
      /\ DOMAIN s = 1..Len(s)
      /\ Len(s) \in Nat
  OBVIOUS
<1> QED BY <1>1 DEF Carries

LEMMA CarriesTail ==
  ASSUME NEW S, NEW s \in Seq(S), s # <<>>
  PROVE  /\ Head(s) \in S
         /\ Tail(s) \in Seq(S)
         /\ Carries(s, Head(s))
         /\ \A m : Carries(Tail(s), m) => Carries(s, m)
<1>1. /\ Head(s) \in S
      /\ Tail(s) \in Seq(S)
      /\ Head(s) = s[1]
      /\ Len(s) \in Nat \ {0}
      /\ DOMAIN s = 1..Len(s)
      /\ DOMAIN Tail(s) = 1..(Len(s) - 1)
      /\ \A n \in 1..(Len(s) - 1) : Tail(s)[n] = s[n + 1]
  OBVIOUS
<1> QED BY DEF Carries

LEMMA CarriesEmpty == \A m : ~Carries(<<>>, m)
  BY DEF Carries

-----------------------------------------------------------------------------
(* Messages *)

LEMMA PduCases ==
  ASSUME NEW p \in Pdu
  PROVE  \/ p = PutsPdu /\ p.code = "PUTS"
         \/ p = FinishPdu /\ p.code = "PUTS_FINISH"
         \/ /\ p.code = "PUTS_DATA"
            /\ p.chunk \in Chunk
            /\ p.intact \in BOOLEAN
            /\ p # PutsPdu
BY DEF Pdu, PutsPdu, FinishPdu

LEMMA PduTypes ==
  /\ PutsPdu \in Pdu
  /\ FinishPdu \in Pdu
  /\ PutsPdu # FinishPdu
  /\ \A c \in Chunk, b \in BOOLEAN : DataPdu(c, b) \in Pdu /\ DataPdu(c, b) # PutsPdu
<1>1. PutsPdu \in Pdu /\ FinishPdu \in Pdu
  BY DEF Pdu
<1>2. PutsPdu.code # FinishPdu.code
  BY DEF PutsPdu, FinishPdu
<1>3. ASSUME NEW c \in Chunk, NEW b \in BOOLEAN
      PROVE  DataPdu(c, b) \in Pdu /\ DataPdu(c, b) # PutsPdu
  <2>1. DataPdu(c, b) \in Pdu
    BY DEF Pdu, DataPdu
  <2>2. DataPdu(c, b).code # PutsPdu.code
    BY DEF DataPdu, PutsPdu
  <2> QED BY <2>1, <2>2
<1> QED BY <1>1, <1>2, <1>3

LEMMA RespondTypes ==
  /\ \A s \in PutsStatuses : Answer(s) \in Respond
  /\ \A c \in Chunk : Ack(c) \in Respond
  /\ \A s \in {"SUCCESS", "FAILED"} : Finished(s) \in Respond
BY DEF Respond

LEMMA StreamTypes ==
  /\ \A s \in Seq(Pdu), p \in Pdu : Append(s, p) \in Seq(Pdu)
  /\ \A s \in Seq(Respond), r \in Respond : Append(s, r) \in Seq(Respond)
OBVIOUS

LEMMA RespondCases ==
  ASSUME NEW r \in Respond
  PROVE  /\ r.code = "PUTS" => r.status \in PutsStatuses /\ r = Answer(r.status)
         /\ r.code = "PUTS_DATA" => r.chunk \in Chunk /\ r = Ack(r.chunk)
         /\ r.code = "PUTS_FINISH" => /\ r.status \in {"SUCCESS", "FAILED"}
                                      /\ r = Finished(r.status)
BY DEF Respond, Answer, Ack, Finished

LEMMA RespondsDiffer ==
  /\ \A s, t : Answer(s) # Finished(t)
  /\ \A c, t : Ack(c) # Finished(t)
  /\ \A s, c : Answer(s) # Ack(c)
  /\ \A s, t : Answer(s) = Answer(t) => s = t
  /\ \A s, t : Finished(s) = Finished(t) => s = t
  /\ \A c, d : Ack(c) = Ack(d) => c = d
BY DEF Answer, Ack, Finished

-----------------------------------------------------------------------------
(* Sizes *)

LEMMA SizeTypes ==
  /\ Total \in Nat \ {0}
  /\ LastChunk \in Chunk
  /\ \A c \in Chunk : /\ SizeOf(c) \in Nat \ {0}
                      /\ OffsetOf(c) \in Nat
                      /\ OffsetOf(c) <= Total
<1> USE ChunkAssumption
<1>1. \A c, n, k \in Nat : c * k \in Nat /\ (c <= n => c * k <= n * k)
  <2> SUFFICES ASSUME NEW c \in Nat, NEW n \in Nat, NEW k \in Nat
               PROVE  c * k \in Nat /\ (c <= n => c * k <= n * k)
    OBVIOUS
  <2>1. c * k \in Nat /\ n * k \in Nat
    OBVIOUS
  <2>2. ASSUME c <= n PROVE c * k <= n * k
    <3> DEFINE d == n - c
    <3>1. d \in Nat /\ n = c + d
      BY <2>2
    <3>2. n * k = c * k + d * k
      OBVIOUS
    <3>3. d * k \in Nat
      BY <3>1
    <3> QED BY <3>3
  <2> QED OBVIOUS
<1>2. (NChunks - 1) \in Nat /\ (NChunks - 1) * ChunkSize \in Nat
  OBVIOUS
<1>3. Total \in Nat \ {0} /\ LastChunk \in Chunk
  BY <1>2 DEF Total, LastChunk, Chunk
<1>4. ASSUME NEW c \in Chunk
      PROVE  /\ SizeOf(c) \in Nat \ {0}
             /\ OffsetOf(c) \in Nat
             /\ OffsetOf(c) <= Total
  <2>1. c \in Nat /\ c <= NChunks - 1
    BY DEF Chunk
  <2>2. c * ChunkSize \in Nat /\ c * ChunkSize <= (NChunks - 1) * ChunkSize
    BY <2>1
  <2> QED BY <1>2, <2>2 DEF SizeOf, OffsetOf, Total
<1> QED BY <1>3, <1>4

-----------------------------------------------------------------------------
(* Types *)

LEMMA TypeInit == Init => TypeInv
<1> SUFFICES ASSUME Init PROVE TypeInv
  OBVIOUS
<1> USE ChunkAssumption, PausesAssumption, SizeTypes
<1>1. ServerInit /\ ClientInit
  BY DEF Init
<1>2. WireTypeOK
  BY PduTypes DEF Init, WireTypeOK
<1>3. ServerTypeOK
  <2>1. queue \in Seq(Pdu)
    BY <1>1 DEF ServerInit
  <2>2. /\ pc \in [Worker -> Steps]
        /\ job \in [Worker -> Pdu \cup {NoJob}]
        /\ verdict \in [Worker -> PutsStatuses]
    BY <1>1 DEF ServerInit, Steps, PutsStatuses
  <2>3. disk \in BOOLEAN /\ priorRow \in BOOLEAN
    BY <1>1 DEF ServerInit
  <2>4. data \in [Chunk -> {"hole", "good", "bad"}]
    BY <1>1 DEF ServerInit
  <2>5. fileSize \in {0, Total} /\ handled \in Nat /\ rows \in Nat
    BY <1>1 DEF ServerInit
  <2> QED BY <1>1, <2>1, <2>2, <2>3, <2>4 DEF ServerInit, ServerTypeOK
<1>4. ClientTypeOK
  <2>1. cursor \in [Sender -> 0..NChunks]
    BY <1>1 DEF ClientInit
  <2>2. pauses \in 0..MaxPauses /\ filePos \in 0..Total
    BY <1>1 DEF ClientInit
  <2> QED BY <1>1, <2>1 DEF ClientInit, ClientTypeOK
<1>5. JobOK
  BY <1>1 DEF ServerInit, JobOK, PutsSteps, DataSteps
<1>6. CursorOK
  BY <1>1 DEF ClientInit, CursorOK, Chunk
<1> QED BY <1>2, <1>3, <1>4, <1>5, <1>6 DEF TypeInv, TypeOK

LEMMA ServerStepServerType ==
  ASSUME TypeInv, ServerStep
  PROVE  ServerTypeOK'
<1> USE DEF TypeInv, TypeOK, WireTypeOK, ServerTypeOK, JobOK, Steps, PutsSteps,
        DataSteps, PutsStatuses
<1>1. ASSUME HandleClientData PROVE ServerTypeOK'
  BY <1>1, CarriesTail, CarriesAppend, PduCases DEF HandleClientData, connVars,
     storeVars
<1>2. ASSUME CloseBegin PROVE ServerTypeOK'
  BY <1>2 DEF CloseBegin, storeVars
<1>3. ASSUME CloseRelease PROVE ServerTypeOK'
  BY <1>3 DEF CloseRelease, storeVars
<1>4. ASSUME CloseRemove PROVE ServerTypeOK'
  BY <1>4 DEF CloseRemove, Unfinished, connVars
<1>5. ASSUME NEW w \in Worker, TakeTask(w) PROVE ServerTypeOK'
  BY <1>5, CarriesTail, CarriesAppend, PduCases DEF TakeTask, Goto, ToolOf, connVars,
     storeVars
<1>6. ASSUME NEW w \in Worker, PutsStart(w) PROVE ServerTypeOK'
  <2>1. pc' \in [Worker -> Steps] /\ job' \in [Worker -> Pdu \cup {NoJob}]
    <3>1. CASE Goto(w, "puts", "lookup") /\ UNCHANGED job
      BY <3>1 DEF Goto
    <3>2. CASE Return(w, "puts")
      BY <3>2 DEF Goto, Return
    <3> QED BY <1>6, <3>1, <3>2 DEF PutsStart
  <2>2. UNCHANGED <<queue, verdict, connVars, closing, storeVars, serverUp>>
    BY <1>6 DEF PutsStart
  <2> QED BY <2>1, <2>2 DEF connVars, storeVars
<1>7. ASSUME NEW w \in Worker, PutsLookup(w) PROVE ServerTypeOK'
  <2>1. pc' \in [Worker -> Steps]
    BY <1>7 DEF PutsLookup, Goto
  <2>2. verdict' \in [Worker -> PutsStatuses]
    BY <1>7 DEF PutsLookup
  <2>3. UNCHANGED <<queue, job, connVars, closing, storeVars, serverUp>>
    BY <1>7 DEF PutsLookup
  <2> QED BY <2>1, <2>2, <2>3 DEF connVars, storeVars
<1>8. ASSUME NEW w \in Worker, PutsOpen(w) PROVE ServerTypeOK'
  <2>1. pc' \in [Worker -> Steps] /\ verdict' \in [Worker -> PutsStatuses]
    BY <1>8 DEF PutsOpen, Goto
  <2>2. disk' \in BOOLEAN
    BY <1>8 DEF PutsOpen
  <2>3. data' \in [Chunk -> {"hole", "good", "bad"}]
    BY <1>8 DEF PutsOpen
  <2>4. UNCHANGED <<queue, job, connVars, closing, priorRow, rows, serverUp>>
    BY <1>8 DEF PutsOpen
  <2> QED BY <2>1, <2>2, <2>3, <2>4 DEF connVars
<1>9. ASSUME NEW w \in Worker, PutsInit(w) PROVE ServerTypeOK'
  BY <1>9, PduCases, SizeTypes DEF PutsInit, Goto, storeVars
<1>10. ASSUME NEW w \in Worker, PutsHandled(w) PROVE ServerTypeOK'
  BY <1>10, PduCases, SizeTypes DEF PutsHandled, Goto, MapOf, storeVars
<1>11. ASSUME NEW w \in Worker, PutsStatus(w) PROVE ServerTypeOK'
  BY <1>11 DEF PutsStatus, Goto, storeVars
<1>12. ASSUME NEW w \in Worker, PutsReply(w) PROVE ServerTypeOK'
  BY <1>12 DEF PutsReply, Goto, Send, connVars, storeVars
<1>13. ASSUME NEW w \in Worker, PutsQuick(w) PROVE ServerTypeOK'
  BY <1>13 DEF PutsQuick, Goto, Insert, Outcome, connVars
<1>14. ASSUME NEW w \in Worker, PutsAgain(w) PROVE ServerTypeOK'
  BY <1>14 DEF PutsAgain, Goto, Return, Send, SecondAnswer, storeVars
<1>15. ASSUME NEW w \in Worker, DataStart(w) PROVE ServerTypeOK'
  BY <1>15 DEF DataStart, Goto, Return, connVars, storeVars
<1>16. ASSUME NEW w \in Worker, DataCount(w) PROVE ServerTypeOK'
  <2>1. pc' \in [Worker -> Steps] /\ job' \in [Worker -> Pdu \cup {NoJob}]
    BY <1>16 DEF DataCount, Goto, Return
  <2>2. job[w].chunk \in Chunk
    BY <1>16, PduCases DEF DataCount, Goto, Return
  <2>3. SizeOf(job[w].chunk) \in Nat
    BY <2>2, SizeTypes
  <2>4. handled' \in Nat
    BY <1>16, <2>3 DEF DataCount
  <2>5. UNCHANGED <<queue, verdict, status, verified, fileSize, map, closing,
                    storeVars, serverUp>>
    BY <1>16 DEF DataCount
  <2> QED BY <2>1, <2>4, <2>5 DEF storeVars
<1>17. ASSUME NEW w \in Worker, DataCopy(w) PROVE ServerTypeOK'
  BY <1>17, PduCases, SizeTypes DEF DataCopy, Goto, Copied, wireVars, connVars
<1>18. ASSUME NEW w \in Worker, DataAck(w) PROVE ServerTypeOK'
  BY <1>18 DEF DataAck, Goto, Send, connVars, storeVars
<1>19. ASSUME NEW w \in Worker, DataFull(w) PROVE ServerTypeOK'
  BY <1>19 DEF DataFull, Goto, Return, wireVars, storeVars
<1>20. ASSUME NEW w \in Worker, DataInsert(w) PROVE ServerTypeOK'
  BY <1>20 DEF DataInsert, Goto, Insert, Outcome, connVars
<1>21. ASSUME NEW w \in Worker, DataFinished(w) PROVE ServerTypeOK'
  BY <1>21 DEF DataFinished, Goto, Return, Send, connVars, storeVars
<1>22. ASSUME NEW w \in Worker, PutsFinish(w) PROVE ServerTypeOK'
  BY <1>22 DEF PutsFinish, Goto, Return, storeVars
<1>23. ASSUME NEW w \in Worker, UseFreed(w) PROVE ServerTypeOK'
  BY <1>23 DEF UseFreed, Goto, connVars, storeVars
<1> QED BY <1>1, <1>2, <1>3, <1>4, <1>5, <1>6, <1>7, <1>8, <1>9, <1>10, <1>11, <1>12,
           <1>13, <1>14, <1>15, <1>16, <1>17, <1>18, <1>19, <1>20, <1>21, <1>22, <1>23
           DEF ServerStep, Reactor, Pool, Puts, PutsData

LEMMA ServerStepJob ==
  ASSUME TypeInv, ServerStep
  PROVE  JobOK'
<1> USE DEF TypeInv, TypeOK, WireTypeOK, ServerTypeOK, JobOK, Steps, PutsSteps,
        DataSteps, PutsStatuses
<1>1. ASSUME HandleClientData PROVE JobOK'
  BY <1>1, CarriesTail DEF HandleClientData
<1>2. ASSUME CloseBegin PROVE JobOK'
  BY <1>2 DEF CloseBegin
<1>3. ASSUME CloseRelease PROVE JobOK'
  BY <1>3 DEF CloseRelease
<1>4. ASSUME CloseRemove PROVE JobOK'
  BY <1>4 DEF CloseRemove
<1>5. ASSUME NEW w \in Worker, TakeTask(w) PROVE JobOK'
  BY <1>5, CarriesTail, CarriesAppend, PduCases DEF TakeTask, Goto, ToolOf
<1>6. ASSUME NEW w \in Worker, PutsStart(w) PROVE JobOK'
  BY <1>6 DEF PutsStart, Goto, Return
<1>7. ASSUME NEW w \in Worker, PutsLookup(w) PROVE JobOK'
  BY <1>7 DEF PutsLookup, Goto
<1>8. ASSUME NEW w \in Worker, PutsOpen(w) PROVE JobOK'
  <2>1. UNCHANGED job /\ pc[w] = "open"
    BY <1>8 DEF PutsOpen, Goto
  <2>2. pc' = [pc EXCEPT ![w] = "init"] \/ pc' = [pc EXCEPT ![w] = "reply"]
    BY <1>8 DEF PutsOpen, Goto
  <2>3. \A v \in Worker : v # w => verdict'[v] = verdict[v]
    BY <1>8 DEF PutsOpen
  <2> QED BY <2>1, <2>2, <2>3
<1>9. ASSUME NEW w \in Worker, PutsInit(w) PROVE JobOK'
  BY <1>9, PduCases DEF PutsInit, Goto
<1>10. ASSUME NEW w \in Worker, PutsHandled(w) PROVE JobOK'
  BY <1>10, PduCases, SizeTypes DEF PutsHandled, Goto
<1>11. ASSUME NEW w \in Worker, PutsStatus(w) PROVE JobOK'
  BY <1>11 DEF PutsStatus, Goto
<1>12. ASSUME NEW w \in Worker, PutsReply(w) PROVE JobOK'
  BY <1>12 DEF PutsReply, Goto
<1>13. ASSUME NEW w \in Worker, PutsQuick(w) PROVE JobOK'
  BY <1>13 DEF PutsQuick, Goto, Insert, Outcome
<1>14. ASSUME NEW w \in Worker, PutsAgain(w) PROVE JobOK'
  BY <1>14 DEF PutsAgain, Goto, Return
<1>15. ASSUME NEW w \in Worker, DataStart(w) PROVE JobOK'
  BY <1>15 DEF DataStart, Goto, Return
<1>16. ASSUME NEW w \in Worker, DataCount(w) PROVE JobOK'
  BY <1>16, PduCases, SizeTypes DEF DataCount, Goto, Return
<1>17. ASSUME NEW w \in Worker, DataCopy(w) PROVE JobOK'
  BY <1>17, PduCases, SizeTypes DEF DataCopy, Goto
<1>18. ASSUME NEW w \in Worker, DataAck(w) PROVE JobOK'
  BY <1>18 DEF DataAck, Goto
<1>19. ASSUME NEW w \in Worker, DataFull(w) PROVE JobOK'
  BY <1>19 DEF DataFull, Goto, Return
<1>20. ASSUME NEW w \in Worker, DataInsert(w) PROVE JobOK'
  BY <1>20 DEF DataInsert, Goto, Insert, Outcome
<1>21. ASSUME NEW w \in Worker, DataFinished(w) PROVE JobOK'
  BY <1>21 DEF DataFinished, Goto, Return
<1>22. ASSUME NEW w \in Worker, PutsFinish(w) PROVE JobOK'
  BY <1>22 DEF PutsFinish, Goto, Return
<1>23. ASSUME NEW w \in Worker, UseFreed(w) PROVE JobOK'
  BY <1>23 DEF UseFreed
<1> QED BY <1>1, <1>2, <1>3, <1>4, <1>5, <1>6, <1>7, <1>8, <1>9, <1>10, <1>11, <1>12,
           <1>13, <1>14, <1>15, <1>16, <1>17, <1>18, <1>19, <1>20, <1>21, <1>22, <1>23
           DEF ServerStep, Reactor, Pool, Puts, PutsData

LEMMA ServerStepWire ==
  ASSUME TypeInv, ServerStep
  PROVE  WireTypeOK'
<1> USE DEF TypeInv, TypeOK, WireTypeOK, ServerTypeOK, JobOK, PutsSteps, DataSteps,
        PutsStatuses
<1>1. ASSUME HandleClientData PROVE WireTypeOK'
  BY <1>1 DEF HandleClientData
<1>2. ASSUME NEW w \in Worker, PutsReply(w) PROVE WireTypeOK'
  <2>1. Answer(verdict[w]) \in Respond
    BY <1>2, RespondTypes
  <2>2. toClient' = toClient \/ toClient' = Append(toClient, Answer(verdict[w]))
    BY <1>2 DEF PutsReply, Send
  <2>3. UNCHANGED <<toServer, linkUp>>
    BY <1>2 DEF PutsReply
  <2>4. toClient' \in Seq(Respond)
    BY <2>1, <2>2, StreamTypes
  <2> QED BY <2>3, <2>4
<1>3. ASSUME NEW w \in Worker, PutsAgain(w) PROVE WireTypeOK'
  <2>1. SecondAnswer(w) \in Respond
    BY <1>3, RespondTypes, PduCases DEF PutsAgain, SecondAnswer
  <2>2. toClient' = toClient \/ toClient' = Append(toClient, SecondAnswer(w))
    BY <1>3 DEF PutsAgain, Send
  <2>3. UNCHANGED <<toServer, linkUp>>
    BY <1>3 DEF PutsAgain
  <2>4. toClient' \in Seq(Respond)
    BY <2>1, <2>2, StreamTypes
  <2> QED BY <2>3, <2>4
<1>4. ASSUME NEW w \in Worker, DataAck(w) PROVE WireTypeOK'
  <2>1. Ack(job[w].chunk) \in Respond
    BY <1>4, RespondTypes, PduCases DEF DataAck, Goto
  <2>2. toClient' = toClient \/ toClient' = Append(toClient, Ack(job[w].chunk))
    BY <1>4 DEF DataAck, Send
  <2>3. UNCHANGED <<toServer, linkUp>>
    BY <1>4 DEF DataAck
  <2>4. toClient' \in Seq(Respond)
    BY <2>1, <2>2, StreamTypes
  <2> QED BY <2>3, <2>4
<1>5. ASSUME NEW w \in Worker, DataFinished(w) PROVE WireTypeOK'
  <2>1. Finished(verdict[w]) \in Respond
    BY <1>5, RespondTypes, PduCases DEF DataFinished, Goto, Return
  <2>2. toClient' = toClient \/ toClient' = Append(toClient, Finished(verdict[w]))
    BY <1>5 DEF DataFinished, Send
  <2>3. UNCHANGED <<toServer, linkUp>>
    BY <1>5 DEF DataFinished
  <2>4. toClient' \in Seq(Respond)
    BY <2>1, <2>2, StreamTypes
  <2> QED BY <2>3, <2>4
<1>6. ASSUME CloseBegin PROVE WireTypeOK'
  BY <1>6 DEF CloseBegin, wireVars
<1>7. ASSUME CloseRelease PROVE WireTypeOK'
  BY <1>7 DEF CloseRelease, wireVars
<1>8. ASSUME CloseRemove PROVE WireTypeOK'
  BY <1>8 DEF CloseRemove, wireVars
<1>9. ASSUME NEW w \in Worker, TakeTask(w) PROVE WireTypeOK'
  BY <1>9, CarriesTail, CarriesAppend, PduCases DEF TakeTask, wireVars
<1>10. ASSUME NEW w \in Worker, PutsStart(w) PROVE WireTypeOK'
  BY <1>10 DEF PutsStart, wireVars
<1>11. ASSUME NEW w \in Worker, PutsLookup(w) PROVE WireTypeOK'
  BY <1>11 DEF PutsLookup, wireVars
<1>12. ASSUME NEW w \in Worker, PutsOpen(w) PROVE WireTypeOK'
  BY <1>12 DEF PutsOpen, wireVars
<1>13. ASSUME NEW w \in Worker, PutsInit(w) PROVE WireTypeOK'
  BY <1>13, PduCases, SizeTypes DEF PutsInit, wireVars
<1>14. ASSUME NEW w \in Worker, PutsHandled(w) PROVE WireTypeOK'
  BY <1>14, PduCases, SizeTypes DEF PutsHandled, wireVars
<1>15. ASSUME NEW w \in Worker, PutsStatus(w) PROVE WireTypeOK'
  BY <1>15 DEF PutsStatus, wireVars
<1>16. ASSUME NEW w \in Worker, PutsQuick(w) PROVE WireTypeOK'
  BY <1>16 DEF PutsQuick, Goto, wireVars
<1>17. ASSUME NEW w \in Worker, DataStart(w) PROVE WireTypeOK'
  BY <1>17 DEF DataStart, wireVars
<1>18. ASSUME NEW w \in Worker, DataCount(w) PROVE WireTypeOK'
  BY <1>18, PduCases, SizeTypes DEF DataCount, wireVars
<1>19. ASSUME NEW w \in Worker, DataCopy(w) PROVE WireTypeOK'
  BY <1>19, PduCases, SizeTypes DEF DataCopy, wireVars
<1>20. ASSUME NEW w \in Worker, DataFull(w) PROVE WireTypeOK'
  BY <1>20 DEF DataFull, wireVars
<1>21. ASSUME NEW w \in Worker, DataInsert(w) PROVE WireTypeOK'
  BY <1>21 DEF DataInsert, Goto, wireVars
<1>22. ASSUME NEW w \in Worker, PutsFinish(w) PROVE WireTypeOK'
  BY <1>22 DEF PutsFinish, wireVars
<1>23. ASSUME NEW w \in Worker, UseFreed(w) PROVE WireTypeOK'
  BY <1>23 DEF UseFreed, wireVars
<1> QED BY <1>1, <1>2, <1>3, <1>4, <1>5, <1>6, <1>7, <1>8, <1>9, <1>10, <1>11, <1>12,
           <1>13, <1>14, <1>15, <1>16, <1>17, <1>18, <1>19, <1>20, <1>21, <1>22, <1>23
           DEF ServerStep, Reactor, Pool, Puts, PutsData

LEMMA ClientStepClientType ==
  ASSUME TypeInv, ClientStep
  PROVE  ClientTypeOK'
<1> USE DEF TypeInv, TypeOK, WireTypeOK, ClientTypeOK, CursorOK
<1>1. ASSUME HandlePutsRespond PROVE ClientTypeOK'
  BY <1>1, CarriesTail, RespondCases, SizeTypes DEF HandlePutsRespond, Slot, SendFile,
     Finish, Keep, Step, userVars
<1>2. ASSUME HandlePutsDataRespond PROVE ClientTypeOK'
  <2>1. Head(toClient).chunk \in Chunk
    BY <1>2, CarriesTail, RespondCases DEF HandlePutsDataRespond, Slot
  <2>2. unacked' \subseteq Chunk /\ sended' \in Nat
    BY <1>2, <2>1, SizeTypes, SMTT(20) DEF HandlePutsDataRespond
  <2>3. UNCHANGED <<phase, told, sender, cursor, intact, filePos, ctrl, pauses>>
    BY <1>2 DEF HandlePutsDataRespond, Slot, Keep, userVars
  <2> QED BY <2>2, <2>3
<1>3. ASSUME HandlePutsFinishRespond PROVE ClientTypeOK'
  BY <1>3, CarriesTail, RespondCases, SizeTypes DEF HandlePutsFinishRespond, Slot,
     SendFile, Finish, Keep, Step, userVars
<1>4. ASSUME SendCancelRequest PROVE ClientTypeOK'
  BY <1>4 DEF SendCancelRequest, Finish, sendVars, userVars
<1>5. ASSUME HandleStopPBClicked PROVE ClientTypeOK'
  <2>1. pauses' \in 0..MaxPauses
    BY <1>5, PausesAssumption DEF HandleStopPBClicked
  <2> QED BY <1>5, <2>1 DEF HandleStopPBClicked, Click
<1>6. ASSUME HandleContinuePBClicked PROVE ClientTypeOK'
  BY <1>6 DEF HandleContinuePBClicked, Click, NotifyOne, Step
<1>7. ASSUME HandleClosePBClicked PROVE ClientTypeOK'
  BY <1>7 DEF HandleClosePBClicked, Click, NotifyOne, Step
<1>8. ASSUME NEW i \in Sender, Seek(i) PROVE ClientTypeOK'
  BY <1>8, SizeTypes, ChunkAssumption DEF Seek, Coroutine, Step, userVars
<1>9. ASSUME NEW i \in Sender, Read(i) PROVE ClientTypeOK'
  <2>1. SizeOf(cursor[i]) \in Nat
    BY <1>9, SizeTypes DEF Read, Coroutine
  <2>2. filePos' \in 0..Total
    BY <1>9, <2>1, SizeTypes DEF Read
  <2>3. sender' = [sender EXCEPT ![i] = "end"]
          \/ \E to \in {"send", "check", "end"} : sender' = [sender EXCEPT ![i] = to]
    BY <1>9 DEF Read, Step
  <2>4. intact' \in [Sender -> BOOLEAN]
    BY <1>9 DEF Read
  <2>5. UNCHANGED <<phase, told, unacked, sended, cursor, userVars>>
    BY <1>9 DEF Read, Coroutine
  <2> QED BY <2>2, <2>3, <2>4, <2>5 DEF userVars
<1>10. ASSUME NEW i \in Sender, Check(i) PROVE ClientTypeOK'
  BY <1>10 DEF Check, Coroutine, Step, userVars
<1>11. ASSUME NEW i \in Sender, FallAsleep(i) PROVE ClientTypeOK'
  BY <1>11 DEF FallAsleep, Coroutine, Step, userVars
<1>12. ASSUME NEW i \in Sender, SendChunk(i) PROVE ClientTypeOK'
  <2>1. cursor[i] + 1 \in 0..NChunks
    BY <1>12, ChunkAssumption DEF SendChunk, Coroutine, Chunk
  <2> QED BY <1>12, <2>1 DEF SendChunk, Coroutine, Step, userVars
<1> QED BY <1>1, <1>2, <1>3, <1>4, <1>5, <1>6, <1>7, <1>8, <1>9, <1>10, <1>11, <1>12 DEF
           ClientStep, UdTool, TProgress, SendFileData

LEMMA ClientStepCursor ==
  ASSUME TypeInv, ClientStep
  PROVE  CursorOK'
<1> USE DEF TypeInv, TypeOK, ClientTypeOK, CursorOK
<1>1. ASSUME HandlePutsRespond PROVE CursorOK'
  BY <1>1, CarriesTail, RespondCases, SizeTypes DEF HandlePutsRespond, Slot, SendFile,
     Finish, Keep, Step, sendVars
<1>2. ASSUME HandlePutsDataRespond PROVE CursorOK'
  BY <1>2, CarriesTail, RespondCases, SizeTypes DEF HandlePutsDataRespond, Slot,
     SendFile, Finish, Keep, Step, sendVars
<1>3. ASSUME HandlePutsFinishRespond PROVE CursorOK'
  BY <1>3, CarriesTail, RespondCases, SizeTypes DEF HandlePutsFinishRespond, Slot,
     SendFile, Finish, Keep, Step, sendVars
<1>4. ASSUME SendCancelRequest PROVE CursorOK'
  BY <1>4 DEF SendCancelRequest, Finish, sendVars
<1>5. ASSUME HandleStopPBClicked PROVE CursorOK'
  BY <1>5 DEF HandleStopPBClicked, Click, NotifyOne, Step, sendVars
<1>6. ASSUME HandleContinuePBClicked PROVE CursorOK'
  BY <1>6 DEF HandleContinuePBClicked, Click, NotifyOne, Step, sendVars
<1>7. ASSUME HandleClosePBClicked PROVE CursorOK'
  BY <1>7 DEF HandleClosePBClicked, Click, NotifyOne, Step, sendVars
<1>8. ASSUME NEW i \in Sender, Seek(i) PROVE CursorOK'
  BY <1>8, SizeTypes, ChunkAssumption DEF Seek, Coroutine, Step, sendVars
<1>9. ASSUME NEW i \in Sender, Read(i) PROVE CursorOK'
  BY <1>9, SizeTypes, ChunkAssumption DEF Read, Coroutine, Step, sendVars
<1>10. ASSUME NEW i \in Sender, Check(i) PROVE CursorOK'
  BY <1>10 DEF Check, Coroutine, Step, sendVars
<1>11. ASSUME NEW i \in Sender, FallAsleep(i) PROVE CursorOK'
  BY <1>11 DEF FallAsleep, Coroutine, Step, sendVars
<1>12. ASSUME NEW i \in Sender, SendChunk(i) PROVE CursorOK'
  <2>1. cursor[i] # LastChunk => cursor[i] + 1 \in Chunk
    BY <1>12, ChunkAssumption, SMTT(20) DEF SendChunk, Coroutine, Chunk, LastChunk
  <2>2. /\ cursor' = [cursor EXCEPT ![i] = @ + 1]
        /\ sender' = [sender EXCEPT ![i] = IF cursor[i] = LastChunk THEN "end"
                                                                 ELSE "seek"]
    BY <1>12 DEF SendChunk, Step, IsLast
  <2> QED BY <2>1, <2>2
<1> QED BY <1>1, <1>2, <1>3, <1>4, <1>5, <1>6, <1>7, <1>8, <1>9, <1>10, <1>11, <1>12 DEF
           ClientStep, UdTool, TProgress, SendFileData

LEMMA ClientStepWire ==
  ASSUME TypeInv, ClientStep
  PROVE  WireTypeOK'
<1> USE DEF TypeInv, TypeOK, WireTypeOK, ClientTypeOK, CursorOK
<1>1. ASSUME HandlePutsRespond PROVE WireTypeOK'
  BY <1>1, CarriesTail, CarriesAppend, PduTypes DEF HandlePutsRespond, Slot, SendFile,
     Finish
<1>2. ASSUME HandlePutsDataRespond PROVE WireTypeOK'
  BY <1>2, CarriesTail, CarriesAppend, PduTypes DEF HandlePutsDataRespond, Slot,
     SendFile, Finish
<1>3. ASSUME HandlePutsFinishRespond PROVE WireTypeOK'
  <2>1. toClient' \in Seq(Respond) /\ UNCHANGED linkUp
    BY <1>3 DEF HandlePutsFinishRespond, Slot
  <2>2. toServer' = toServer \/ toServer' = Append(toServer, FinishPdu)
    BY <1>3 DEF HandlePutsFinishRespond
  <2>3. toServer' \in Seq(Pdu)
    BY <2>2, PduTypes, StreamTypes
  <2> QED BY <2>1, <2>3
<1>4. ASSUME SendCancelRequest PROVE WireTypeOK'
  BY <1>4, CarriesTail, CarriesAppend, PduTypes DEF SendCancelRequest, wireVars
<1>5. ASSUME HandleStopPBClicked PROVE WireTypeOK'
  BY <1>5, CarriesTail, CarriesAppend, PduTypes DEF HandleStopPBClicked, Click, wireVars
<1>6. ASSUME HandleContinuePBClicked PROVE WireTypeOK'
  BY <1>6, CarriesTail, CarriesAppend, PduTypes DEF HandleContinuePBClicked, Click,
     wireVars
<1>7. ASSUME HandleClosePBClicked PROVE WireTypeOK'
  BY <1>7, CarriesTail, CarriesAppend, PduTypes DEF HandleClosePBClicked, Click,
     wireVars
<1>8. ASSUME NEW i \in Sender, Seek(i) PROVE WireTypeOK'
  BY <1>8, CarriesTail, CarriesAppend, PduTypes DEF Seek, Coroutine
<1>9. ASSUME NEW i \in Sender, Read(i) PROVE WireTypeOK'
  BY <1>9, CarriesTail, CarriesAppend, PduTypes DEF Read, Coroutine
<1>10. ASSUME NEW i \in Sender, Check(i) PROVE WireTypeOK'
  BY <1>10, CarriesTail, CarriesAppend, PduTypes DEF Check, Coroutine
<1>11. ASSUME NEW i \in Sender, FallAsleep(i) PROVE WireTypeOK'
  BY <1>11, CarriesTail, CarriesAppend, PduTypes DEF FallAsleep, Coroutine
<1>12. ASSUME NEW i \in Sender, SendChunk(i) PROVE WireTypeOK'
  <2>1. cursor[i] \in Chunk /\ intact[i] \in BOOLEAN
    BY <1>12 DEF SendChunk, Coroutine
  <2>2. DataPdu(cursor[i], intact[i]) \in Pdu
    BY <2>1, PduTypes
  <2> QED BY <1>12, <2>2 DEF SendChunk, Coroutine
<1> QED BY <1>1, <1>2, <1>3, <1>4, <1>5, <1>6, <1>7, <1>8, <1>9, <1>10, <1>11, <1>12 DEF
           ClientStep, UdTool, TProgress, SendFileData

\* The type invariant, with what a step says about a thread's message and a
\* coroutine's chunk, is inductive.
LEMMA TypeStep == TypeInv /\ [Next]_vars => TypeInv'
<1> SUFFICES ASSUME TypeInv, [Next]_vars PROVE TypeInv'
  OBVIOUS
<1>1. ASSUME ServerStep, UNCHANGED clientVars PROVE TypeInv'
  <2>1. ServerTypeOK' /\ JobOK' /\ WireTypeOK'
    BY <1>1, ServerStepServerType, ServerStepJob, ServerStepWire
  <2>2. ClientTypeOK' /\ CursorOK'
    BY <1>1 DEF TypeInv, TypeOK, ClientTypeOK, CursorOK, clientVars, sendVars, userVars
  <2> QED BY <2>1, <2>2 DEF TypeInv, TypeOK
<1>2. ASSUME ClientStep, UNCHANGED serverVars PROVE TypeInv'
  <2>1. ClientTypeOK' /\ CursorOK' /\ WireTypeOK'
    BY <1>2, ClientStepClientType, ClientStepCursor, ClientStepWire
  <2>2. ServerTypeOK'
    BY <1>2 DEF TypeInv, TypeOK, ServerTypeOK, serverVars, connVars, storeVars
  <2>3. JobOK'
    BY <1>2 DEF TypeInv, JobOK, serverVars
  <2> QED BY <2>1, <2>2, <2>3 DEF TypeInv, TypeOK
<1>3. ASSUME UNCHANGED <<serverVars, clientVars>>, UNCHANGED <<toServer, toClient>>,
             linkUp' \in BOOLEAN
      PROVE  TypeInv'
  <2>1. WireTypeOK'
    BY <1>3 DEF TypeInv, TypeOK, WireTypeOK
  <2>2. ServerTypeOK' /\ JobOK'
    BY <1>3 DEF TypeInv, TypeOK, ServerTypeOK, JobOK, serverVars, connVars, storeVars
  <2>3. ClientTypeOK' /\ CursorOK'
    BY <1>3 DEF TypeInv, TypeOK, ClientTypeOK, CursorOK, clientVars, sendVars, userVars
  <2> QED BY <2>1, <2>2, <2>3 DEF TypeInv, TypeOK
<1>4. CASE ClientDies /\ UNCHANGED serverVars
  BY <1>3, <1>4 DEF ClientDies
<1>5. CASE UNCHANGED vars
  BY <1>3, <1>5 DEF vars, wireVars, TypeInv, TypeOK, WireTypeOK
<1> QED BY <1>1, <1>2, <1>4, <1>5 DEF Next

\* Every variable keeps to the values the code can give it, whatever the file,
\* the pool and the schedule.
THEOREM TypeCorrect == Spec => []TypeOK
<1>1. TypeInv => TypeOK
  BY DEF TypeInv
<1> QED BY <1>1, TypeInit, TypeStep, PTL DEF Spec

-----------------------------------------------------------------------------
(* Order *)

\* A thread that has not answered yet is alone with the connection.
LEMMA AskerAlone ==
  ASSUME OrderInv, NEW w \in Worker, pc[w] \in Unanswered
  PROVE  Quiet /\ toServer = <<>> /\ queue = <<>> /\ AllIdleBut(w)
BY DEF OrderInv, Requested, Queued, Checking, Answered, AllIdleBut, Unanswered

\* Any other step of a thread comes after the answer.
LEMMA OthersLater ==
  ASSUME OrderInv, NEW w \in Worker, pc[w] \notin Unanswered, pc[w] # "idle"
  PROVE  Answered
BY DEF OrderInv, Requested, Queued, Checking, AllIdleBut

LEMMA OrderInit == Init => OrderInv
BY DEF Init, ServerInit, ClientInit, OrderInv, Requested, Quiet

LEMMA ServerStepOrder ==
  ASSUME TypeInv, OrderInv, ServerStep, UNCHANGED clientVars
  PROVE  OrderInv'
<1> USE DEF TypeInv, TypeOK, WireTypeOK, ServerTypeOK, Unanswered
<1> USE DEF clientVars, sendVars
<1>1. ASSUME HandleClientData PROVE OrderInv'
  <2>1. /\ toServer # <<>>
        /\ queue' = Append(queue, Head(toServer))
        /\ toServer' = Tail(toServer)
        /\ UNCHANGED <<toClient, pc, rows, unacked, sender, told>>
    BY <1>1 DEF HandleClientData, storeVars
  <2>2. CASE Requested
    <3>1. queue' = <<PutsPdu>> /\ toServer' = <<>>
      BY <2>1, <2>2 DEF Requested
    <3> QED BY <2>1, <2>2, <3>1 DEF OrderInv, Requested, Queued, Quiet
  <2>3. CASE Answered
    <3>1. ~Carries(toServer', PutsPdu) /\ Head(toServer) # PutsPdu /\ Head(toServer) \in Pdu
      BY <2>1, <2>3, CarriesTail DEF Answered
    <3>2. ~Carries(queue', PutsPdu)
      BY <2>1, <2>3, <3>1, CarriesAppend DEF Answered
    <3> QED BY <2>1, <2>3, <3>1, <3>2 DEF OrderInv, Answered
  <2> QED BY <2>1, <2>2, <2>3 DEF OrderInv, Queued, Checking
<1>2. ASSUME CloseBegin PROVE OrderInv'
  BY <1>2 DEF CloseBegin, OrderInv, Requested, Queued, Checking, Answered, Quiet,
     AllIdleBut, storeVars, wireVars
<1>3. ASSUME CloseRelease PROVE OrderInv'
  BY <1>3 DEF CloseRelease, OrderInv, Requested, Queued, Checking, Answered, Quiet,
     AllIdleBut, storeVars, wireVars
<1>4. ASSUME CloseRemove PROVE OrderInv'
  BY <1>4 DEF CloseRemove, OrderInv, Requested, Queued, Checking, Answered, Quiet,
     AllIdleBut, wireVars
<1>5. ASSUME NEW w \in Worker, TakeTask(w) PROVE OrderInv'
  <2>1. /\ queue # <<>>
        /\ pc[w] = "idle"
        /\ pc' = [pc EXCEPT ![w] = ToolOf(Head(queue))]
        /\ queue' = Tail(queue)
        /\ UNCHANGED <<toServer, toClient, rows, unacked, sender, told>>
    BY <1>5 DEF TakeTask, Goto, storeVars, wireVars
  <2>2. CASE Queued
    <3>1. Head(queue) = PutsPdu /\ queue' = <<>>
      BY <2>1, <2>2 DEF Queued
    <3>2. pc' = [pc EXCEPT ![w] = "puts"]
      <4>1. Head(queue).code = "PUTS"
        BY <3>1 DEF PutsPdu
      <4> QED BY <2>1, <4>1 DEF ToolOf
    <3>3. Checking'
      BY <2>1, <2>2, <3>1, <3>2 DEF Checking, Queued, Quiet, AllIdleBut
    <3> QED BY <3>3 DEF OrderInv
  <2>3. CASE Answered
    <3>1. ~Carries(queue', PutsPdu) /\ Head(queue) # PutsPdu /\ Head(queue) \in Pdu
      BY <2>1, <2>3, CarriesTail DEF Answered
    <3>2. ToolOf(Head(queue)) \in {"data", "finish"}
      BY <3>1, PduCases DEF ToolOf
    <3> QED BY <2>1, <2>3, <3>1, <3>2 DEF OrderInv, Answered
  <2> QED BY <2>1, <2>2, <2>3 DEF OrderInv, Requested, Checking
<1>6. ASSUME NEW w \in Worker, PutsStart(w) PROVE OrderInv'
  BY <1>6, AskerAlone, CarriesEmpty DEF PutsStart, Goto, Return, OrderInv, Checking,
     Answered, Quiet, AllIdleBut, storeVars, wireVars
<1>7. ASSUME NEW w \in Worker, PutsLookup(w) PROVE OrderInv'
  BY <1>7, AskerAlone, CarriesEmpty DEF PutsLookup, Goto, OrderInv, Checking, Quiet,
     AllIdleBut, storeVars, wireVars
<1>8. ASSUME NEW w \in Worker, PutsOpen(w) PROVE OrderInv'
  <2>1. pc[w] = "open" /\ pc' \in {[pc EXCEPT ![w] = "init"], [pc EXCEPT ![w] = "reply"]}
    BY <1>8 DEF PutsOpen, Goto
  <2>2. Quiet /\ toServer = <<>> /\ queue = <<>> /\ AllIdleBut(w)
    BY <2>1, AskerAlone
  <2>3. UNCHANGED <<toServer, toClient, queue, rows, unacked, sender, told>>
    BY <1>8 DEF PutsOpen, wireVars
  <2>4. Checking'
    BY <2>1, <2>2, <2>3 DEF Checking, Quiet, AllIdleBut
  <2> QED BY <2>4 DEF OrderInv
<1>9. ASSUME NEW w \in Worker, PutsInit(w) PROVE OrderInv'
  BY <1>9, AskerAlone, CarriesEmpty DEF PutsInit, Goto, OrderInv, Checking, Quiet,
     AllIdleBut, storeVars, wireVars
<1>10. ASSUME NEW w \in Worker, PutsHandled(w) PROVE OrderInv'
  BY <1>10, AskerAlone, CarriesEmpty DEF PutsHandled, Goto, OrderInv, Checking, Quiet,
     AllIdleBut, storeVars, wireVars
<1>11. ASSUME NEW w \in Worker, PutsStatus(w) PROVE OrderInv'
  BY <1>11, AskerAlone, CarriesEmpty DEF PutsStatus, Goto, OrderInv, Checking, Quiet,
     AllIdleBut, storeVars, wireVars
<1>12. ASSUME NEW w \in Worker, PutsReply(w) PROVE OrderInv'
  BY <1>12, AskerAlone, CarriesEmpty DEF PutsReply, Goto, Send, OrderInv, Checking,
     Answered, Quiet, AllIdleBut
<1>13. ASSUME NEW w \in Worker, PutsQuick(w) PROVE OrderInv'
  BY <1>13, OthersLater DEF PutsQuick, Goto, Insert, OrderInv, Answered, wireVars
<1>14. ASSUME NEW w \in Worker, PutsAgain(w) PROVE OrderInv'
  BY <1>14, OthersLater DEF PutsAgain, Goto, Return, Send, OrderInv, Answered
<1>15. ASSUME NEW w \in Worker, DataStart(w) PROVE OrderInv'
  <2>1. Answered
    BY <1>15, OthersLater DEF DataStart, Goto, Return
  <2>2. pc' = [pc EXCEPT ![w] = "count"] \/ pc' = [pc EXCEPT ![w] = "idle"]
    BY <1>15 DEF DataStart, Goto, Return
  <2>3. UNCHANGED <<toServer, queue>>
    BY <1>15 DEF DataStart, wireVars
  <2> QED BY <2>1, <2>2, <2>3 DEF OrderInv, Answered
<1>16. ASSUME NEW w \in Worker, DataCount(w) PROVE OrderInv'
  <2>1. Answered
    BY <1>16, OthersLater DEF DataCount, Goto, Return
  <2>2. pc' = [pc EXCEPT ![w] = "copy"] \/ pc' = [pc EXCEPT ![w] = "idle"]
    BY <1>16 DEF DataCount, Goto, Return
  <2>3. UNCHANGED <<toServer, queue>>
    BY <1>16 DEF DataCount, wireVars
  <2> QED BY <2>1, <2>2, <2>3 DEF OrderInv, Answered
<1>17. ASSUME NEW w \in Worker, DataCopy(w) PROVE OrderInv'
  BY <1>17, OthersLater DEF DataCopy, Goto, OrderInv, Answered, wireVars
<1>18. ASSUME NEW w \in Worker, DataAck(w) PROVE OrderInv'
  BY <1>18, OthersLater DEF DataAck, Goto, Send, OrderInv, Answered
<1>19. ASSUME NEW w \in Worker, DataFull(w) PROVE OrderInv'
  <2>1. Answered
    BY <1>19, OthersLater DEF DataFull, Goto, Return
  <2>2. pc' = [pc EXCEPT ![w] = "insert"] \/ pc' = [pc EXCEPT ![w] = "idle"]
    BY <1>19 DEF DataFull, Goto, Return
  <2>3. UNCHANGED <<toServer, queue>>
    BY <1>19 DEF DataFull, wireVars
  <2> QED BY <2>1, <2>2, <2>3 DEF OrderInv, Answered
<1>20. ASSUME NEW w \in Worker, DataInsert(w) PROVE OrderInv'
  BY <1>20, OthersLater DEF DataInsert, Goto, Insert, OrderInv, Answered, wireVars
<1>21. ASSUME NEW w \in Worker, DataFinished(w) PROVE OrderInv'
  BY <1>21, OthersLater DEF DataFinished, Goto, Return, Send, OrderInv, Answered
<1>22. ASSUME NEW w \in Worker, PutsFinish(w) PROVE OrderInv'
  BY <1>22, OthersLater DEF PutsFinish, Goto, Return, OrderInv, Answered, wireVars
<1>23. ASSUME NEW w \in Worker, UseFreed(w) PROVE OrderInv'
  BY <1>23 DEF UseFreed, OrderInv, Requested, Queued, Checking, Answered, Quiet,
     AllIdleBut, wireVars, storeVars
<1> QED BY <1>1, <1>2, <1>3, <1>4, <1>5, <1>6, <1>7, <1>8, <1>9, <1>10, <1>11, <1>12,
           <1>13, <1>14, <1>15, <1>16, <1>17, <1>18, <1>19, <1>20, <1>21, <1>22, <1>23
           DEF ServerStep, Reactor, Pool, Puts, PutsData

LEMMA ClientStepOrder ==
  ASSUME TypeInv, OrderInv, ClientStep, UNCHANGED serverVars
  PROVE  OrderInv'
<1> USE DEF TypeInv, TypeOK, WireTypeOK, ServerTypeOK, Unanswered, ClientTypeOK, CursorOK
<1> USE DEF serverVars, storeVars
<1>1. ASSUME HandlePutsRespond PROVE OrderInv'
  BY <1>1, CarriesTail, CarriesAppend, PduTypes DEF HandlePutsRespond, Slot, SendFile,
     Finish, Keep, Step, OrderInv, Requested, Queued, Checking, Answered, Quiet
<1>2. ASSUME HandlePutsDataRespond PROVE OrderInv'
  BY <1>2, CarriesTail, CarriesAppend, PduTypes DEF HandlePutsDataRespond, Slot,
     SendFile, Finish, Keep, Step, OrderInv, Requested, Queued, Checking, Answered,
     Quiet
<1>3. ASSUME HandlePutsFinishRespond PROVE OrderInv'
  <2>1. Answered
    BY <1>3 DEF HandlePutsFinishRespond, Slot, OrderInv, Requested, Queued, Checking,
       Quiet
  <2>2. ~Carries(toServer', PutsPdu)
    <3>1. toServer' = toServer \/ toServer' = Append(toServer, FinishPdu)
      BY <1>3 DEF HandlePutsFinishRespond
    <3>2. ~Carries(Append(toServer, FinishPdu), PutsPdu)
      BY <2>1, CarriesAppend, PduTypes DEF Answered
    <3> QED BY <2>1, <3>1, <3>2 DEF Answered
  <2> QED BY <1>3, <2>1, <2>2 DEF HandlePutsFinishRespond, OrderInv, Answered
<1>4. ASSUME SendCancelRequest PROVE OrderInv'
  BY <1>4 DEF SendCancelRequest, Finish, OrderInv, Requested, Queued, Checking,
     Answered, Quiet, AllIdleBut, sendVars, wireVars
<1>5. ASSUME HandleStopPBClicked PROVE OrderInv'
  BY <1>5 DEF HandleStopPBClicked, Click, NotifyOne, Step, OrderInv, Requested, Queued,
     Checking, Answered, Quiet, AllIdleBut, wireVars
<1>6. ASSUME HandleContinuePBClicked PROVE OrderInv'
  BY <1>6 DEF HandleContinuePBClicked, Click, NotifyOne, Step, OrderInv, Requested,
     Queued, Checking, Answered, Quiet, AllIdleBut, wireVars
<1>7. ASSUME HandleClosePBClicked PROVE OrderInv'
  BY <1>7 DEF HandleClosePBClicked, Click, NotifyOne, Step, OrderInv, Requested, Queued,
     Checking, Answered, Quiet, AllIdleBut, wireVars
<1>8. ASSUME NEW i \in Sender, Seek(i) PROVE OrderInv'
  BY <1>8 DEF Seek, Coroutine, Step, OrderInv, Requested, Queued, Checking, Answered,
     Quiet
<1>9. ASSUME NEW i \in Sender, Read(i) PROVE OrderInv'
  BY <1>9 DEF Read, Coroutine, Step, OrderInv, Requested, Queued, Checking, Answered,
     Quiet
<1>10. ASSUME NEW i \in Sender, Check(i) PROVE OrderInv'
  BY <1>10 DEF Check, Coroutine, Step, OrderInv, Requested, Queued, Checking, Answered,
     Quiet
<1>11. ASSUME NEW i \in Sender, FallAsleep(i) PROVE OrderInv'
  BY <1>11 DEF FallAsleep, Coroutine, Step, OrderInv, Requested, Queued, Checking,
     Answered, Quiet
<1>12. ASSUME NEW i \in Sender, SendChunk(i) PROVE OrderInv'
  BY <1>12, CarriesAppend, PduTypes DEF SendChunk, Coroutine, Step, OrderInv, Requested,
     Queued, Checking, Answered, Quiet, AllIdleBut
<1> QED BY <1>1, <1>2, <1>3, <1>4, <1>5, <1>6, <1>7, <1>8, <1>9, <1>10, <1>11, <1>12 DEF
           ClientStep, UdTool, TProgress, SendFileData

-----------------------------------------------------------------------------
(* One insertion *)

LEMMA InsertInit == Init => InsertInv /\ CountInv /\ FullInv /\ PriorInv
BY SizeTypes DEF Init, ServerInit, InsertInv, InsertOnce, Inserters, CountInv, FullInv,
   PriorInv

LEMMA ServerStepInsert ==
  ASSUME TypeInv, OrderInv, InsertInv, ServerStep
  PROVE  InsertInv'
<1> USE DEF TypeInv, TypeOK, ServerTypeOK, Unanswered
<1>1. ASSUME HandleClientData PROVE InsertInv'
  BY <1>1 DEF HandleClientData, InsertInv, InsertOnce, Inserters, connVars, storeVars
<1>2. ASSUME CloseBegin PROVE InsertInv'
  BY <1>2 DEF CloseBegin, InsertInv, InsertOnce, Inserters, storeVars
<1>3. ASSUME CloseRelease PROVE InsertInv'
  BY <1>3 DEF CloseRelease, InsertInv, InsertOnce, Inserters, storeVars
<1>4. ASSUME CloseRemove PROVE InsertInv'
  BY <1>4 DEF CloseRemove, InsertInv, InsertOnce, Inserters, connVars
<1>5. ASSUME NEW w \in Worker, TakeTask(w) PROVE InsertInv'
  <2>1. ToolOf(Head(queue)) \in {"puts", "data", "finish"}
    BY <1>5, CarriesTail, PduCases DEF TakeTask, ToolOf
  <2>2. UNCHANGED <<rows, status, verdict>> /\ pc' = [pc EXCEPT ![w] = ToolOf(Head(queue))]
    BY <1>5 DEF TakeTask, Goto, connVars, storeVars
  <2> QED BY <2>1, <2>2 DEF InsertInv, InsertOnce, Inserters
<1>6. ASSUME NEW w \in Worker, PutsStart(w) PROVE InsertInv'
  BY <1>6, AskerAlone DEF PutsStart, Goto, Return, InsertInv, InsertOnce, Inserters,
     connVars, storeVars
<1>7. ASSUME NEW w \in Worker, PutsLookup(w) PROVE InsertInv'
  BY <1>7, AskerAlone DEF PutsLookup, Goto, InsertInv, InsertOnce, Inserters, connVars,
     storeVars
<1>8. ASSUME NEW w \in Worker, PutsOpen(w) PROVE InsertInv'
  BY <1>8, AskerAlone DEF PutsOpen, Goto, InsertInv, InsertOnce, Inserters, connVars,
     AllIdleBut
<1>9. ASSUME NEW w \in Worker, PutsInit(w) PROVE InsertInv'
  BY <1>9, AskerAlone DEF PutsInit, Goto, InsertInv, InsertOnce, Inserters, connVars,
     storeVars
<1>10. ASSUME NEW w \in Worker, PutsHandled(w) PROVE InsertInv'
  BY <1>10, AskerAlone DEF PutsHandled, Goto, InsertInv, InsertOnce, Inserters,
     connVars, storeVars
<1>11. ASSUME NEW w \in Worker, PutsStatus(w) PROVE InsertInv'
  BY <1>11, AskerAlone DEF PutsStatus, Goto, InsertInv, InsertOnce, Inserters, connVars,
     storeVars, Quiet, AllIdleBut
<1>12. ASSUME NEW w \in Worker, PutsReply(w) PROVE InsertInv'
  BY <1>12, AskerAlone DEF PutsReply, Goto, Send, InsertInv, InsertOnce, Inserters,
     connVars, storeVars, Quiet, AllIdleBut
<1>13. ASSUME NEW w \in Worker, PutsQuick(w) PROVE InsertInv'
  BY <1>13, OthersLater DEF PutsQuick, Goto, Insert, InsertInv, InsertOnce, Inserters,
     connVars
<1>14. ASSUME NEW w \in Worker, PutsAgain(w) PROVE InsertInv'
  BY <1>14, OthersLater DEF PutsAgain, Goto, Return, Send, InsertInv, InsertOnce,
     Inserters, storeVars
<1>15. ASSUME NEW w \in Worker, DataStart(w) PROVE InsertInv'
  BY <1>15, OthersLater DEF DataStart, Goto, Return, InsertInv, InsertOnce, Inserters,
     connVars, storeVars
<1>16. ASSUME NEW w \in Worker, DataCount(w) PROVE InsertInv'
  BY <1>16, OthersLater DEF DataCount, Goto, Return, InsertInv, InsertOnce, Inserters,
     storeVars
<1>17. ASSUME NEW w \in Worker, DataCopy(w) PROVE InsertInv'
  BY <1>17, OthersLater DEF DataCopy, Goto, InsertInv, InsertOnce, Inserters, connVars
<1>18. ASSUME NEW w \in Worker, DataAck(w) PROVE InsertInv'
  BY <1>18, OthersLater DEF DataAck, Goto, Send, InsertInv, InsertOnce, Inserters,
     connVars, storeVars
<1>19. ASSUME NEW w \in Worker, DataFull(w) PROVE InsertInv'
  BY <1>19, OthersLater DEF DataFull, Goto, Return, InsertInv, InsertOnce, Inserters,
     storeVars, WinsFinish
<1>20. ASSUME NEW w \in Worker, DataInsert(w) PROVE InsertInv'
  BY <1>20, OthersLater DEF DataInsert, Goto, Insert, InsertInv, InsertOnce, Inserters,
     connVars
<1>21. ASSUME NEW w \in Worker, DataFinished(w) PROVE InsertInv'
  BY <1>21, OthersLater DEF DataFinished, Goto, Return, Send, InsertInv, InsertOnce,
     Inserters, connVars, storeVars
<1>22. ASSUME NEW w \in Worker, PutsFinish(w) PROVE InsertInv'
  BY <1>22, OthersLater DEF PutsFinish, Goto, Return, InsertInv, InsertOnce, Inserters,
     storeVars
<1>23. ASSUME NEW w \in Worker, UseFreed(w) PROVE InsertInv'
  BY <1>23 DEF UseFreed, Goto, InsertInv, InsertOnce, Inserters, connVars, storeVars
<1> QED BY <1>1, <1>2, <1>3, <1>4, <1>5, <1>6, <1>7, <1>8, <1>9, <1>10, <1>11, <1>12,
           <1>13, <1>14, <1>15, <1>16, <1>17, <1>18, <1>19, <1>20, <1>21, <1>22, <1>23
           DEF ServerStep, Reactor, Pool, Puts, PutsData

-----------------------------------------------------------------------------
(* The bytes counted *)

LEMMA ServerStepCount ==
  ASSUME TypeInv, CountInv, ServerStep
  PROVE  CountInv'
<1> USE DEF TypeInv, TypeOK, ServerTypeOK, Unanswered
<1>1. ASSUME HandleClientData PROVE CountInv'
  BY <1>1 DEF HandleClientData, CountInv, connVars
<1>2. ASSUME CloseBegin PROVE CountInv'
  BY <1>2 DEF CloseBegin, CountInv
<1>3. ASSUME CloseRelease PROVE CountInv'
  BY <1>3 DEF CloseRelease, CountInv
<1>4. ASSUME CloseRemove PROVE CountInv'
  BY <1>4 DEF CloseRemove, CountInv, connVars
<1>5. ASSUME NEW w \in Worker, TakeTask(w) PROVE CountInv'
  BY <1>5 DEF TakeTask, Goto, CountInv, connVars
<1>6. ASSUME NEW w \in Worker, PutsStart(w) PROVE CountInv'
  BY <1>6 DEF PutsStart, Goto, CountInv, connVars
<1>7. ASSUME NEW w \in Worker, PutsLookup(w) PROVE CountInv'
  BY <1>7 DEF PutsLookup, CountInv, connVars
<1>8. ASSUME NEW w \in Worker, PutsOpen(w) PROVE CountInv'
  BY <1>8 DEF PutsOpen, CountInv, connVars
<1>9. ASSUME NEW w \in Worker, PutsInit(w) PROVE CountInv'
  BY <1>9 DEF PutsInit, CountInv
<1>10. ASSUME NEW w \in Worker, PutsHandled(w) PROVE CountInv'
  BY <1>10, SizeTypes DEF PutsHandled, CountInv
<1>11. ASSUME NEW w \in Worker, PutsStatus(w) PROVE CountInv'
  BY <1>11 DEF PutsStatus, CountInv
<1>12. ASSUME NEW w \in Worker, PutsReply(w) PROVE CountInv'
  BY <1>12 DEF PutsReply, Goto, CountInv, connVars
<1>13. ASSUME NEW w \in Worker, PutsQuick(w) PROVE CountInv'
  BY <1>13 DEF PutsQuick, Goto, CountInv, connVars
<1>14. ASSUME NEW w \in Worker, PutsAgain(w) PROVE CountInv'
  BY <1>14 DEF PutsAgain, Goto, Return, CountInv
<1>15. ASSUME NEW w \in Worker, DataStart(w) PROVE CountInv'
  BY <1>15 DEF DataStart, Goto, CountInv, connVars
<1>16. ASSUME NEW w \in Worker, DataCount(w) PROVE CountInv'
  <2>1. /\ job[w].chunk \in Chunk
        /\ SizeOf(job[w].chunk) \in Nat \ {0}
    BY <1>16, PduCases, SizeTypes DEF DataCount, Goto, Return, JobOK, DataSteps
  <2> QED BY <1>16, <2>1, SizeTypes DEF DataCount, Fits, CountInv
<1>17. ASSUME NEW w \in Worker, DataCopy(w) PROVE CountInv'
  BY <1>17 DEF DataCopy, CountInv, connVars
<1>18. ASSUME NEW w \in Worker, DataAck(w) PROVE CountInv'
  BY <1>18 DEF DataAck, Goto, CountInv, connVars
<1>19. ASSUME NEW w \in Worker, DataFull(w) PROVE CountInv'
  BY <1>19 DEF DataFull, Goto, CountInv
<1>20. ASSUME NEW w \in Worker, DataInsert(w) PROVE CountInv'
  BY <1>20 DEF DataInsert, Goto, CountInv, connVars
<1>21. ASSUME NEW w \in Worker, DataFinished(w) PROVE CountInv'
  BY <1>21 DEF DataFinished, Goto, Return, CountInv, connVars
<1>22. ASSUME NEW w \in Worker, PutsFinish(w) PROVE CountInv'
  BY <1>22 DEF PutsFinish, Goto, CountInv
<1>23. ASSUME NEW w \in Worker, UseFreed(w) PROVE CountInv'
  BY <1>23 DEF UseFreed, CountInv, connVars
<1> QED BY <1>1, <1>2, <1>3, <1>4, <1>5, <1>6, <1>7, <1>8, <1>9, <1>10, <1>11, <1>12,
           <1>13, <1>14, <1>15, <1>16, <1>17, <1>18, <1>19, <1>20, <1>21, <1>22, <1>23
           DEF ServerStep, Reactor, Pool, Puts, PutsData

LEMMA ServerStepFull ==
  ASSUME TypeInv, OrderInv, InsertInv, FullInv, ServerStep
  PROVE  FullInv'
<1> USE DEF TypeInv, TypeOK, ServerTypeOK, Unanswered
<1>1. ASSUME HandleClientData PROVE FullInv'
  BY <1>1 DEF HandleClientData, FullInv, InsertInv, InsertOnce, connVars, storeVars
<1>2. ASSUME CloseBegin PROVE FullInv'
  BY <1>2 DEF CloseBegin, FullInv, InsertInv, InsertOnce, storeVars
<1>3. ASSUME CloseRelease PROVE FullInv'
  BY <1>3 DEF CloseRelease, FullInv, InsertInv, InsertOnce, storeVars
<1>4. ASSUME CloseRemove PROVE FullInv'
  BY <1>4 DEF CloseRemove, FullInv, InsertInv, InsertOnce, connVars
<1>5. ASSUME NEW w \in Worker, TakeTask(w) PROVE FullInv'
  <2>1. ToolOf(Head(queue)) \in {"puts", "data", "finish"}
    BY <1>5, CarriesTail, PduCases DEF TakeTask, ToolOf
  <2>2. UNCHANGED <<rows, handled, verdict>> /\ pc' = [pc EXCEPT ![w] = ToolOf(Head(queue))]
    BY <1>5 DEF TakeTask, Goto, connVars, storeVars
  <2> QED BY <2>1, <2>2 DEF FullInv
<1>6. ASSUME NEW w \in Worker, PutsStart(w) PROVE FullInv'
  BY <1>6, AskerAlone DEF PutsStart, Goto, Return, FullInv, InsertInv, InsertOnce,
     Inserters, connVars, storeVars
<1>7. ASSUME NEW w \in Worker, PutsLookup(w) PROVE FullInv'
  BY <1>7, AskerAlone DEF PutsLookup, Goto, FullInv, InsertInv, InsertOnce, Inserters,
     connVars, storeVars
<1>8. ASSUME NEW w \in Worker, PutsOpen(w) PROVE FullInv'
  <2>1. UNCHANGED <<rows, handled>>
    BY <1>8 DEF PutsOpen, connVars
  <2>2. pc' = [pc EXCEPT ![w] = "init"] \/ pc' = [pc EXCEPT ![w] = "reply"]
    BY <1>8 DEF PutsOpen, Goto
  <2>3. verdict' = verdict \/ verdict' = [verdict EXCEPT ![w] = "FAILED"]
    BY <1>8 DEF PutsOpen
  <2>4. pc[w] = "open" /\ (pc'[w] = "init" \/ verdict'[w] = "FAILED")
    BY <1>8 DEF PutsOpen, Goto
  <2> QED BY <2>1, <2>2, <2>3, <2>4 DEF FullInv
<1>9. ASSUME NEW w \in Worker, PutsInit(w) PROVE FullInv'
  BY <1>9, AskerAlone DEF PutsInit, Goto, FullInv, InsertInv, InsertOnce, Inserters,
     connVars, storeVars
<1>10. ASSUME NEW w \in Worker, PutsHandled(w) PROVE FullInv'
  BY <1>10, AskerAlone DEF PutsHandled, Goto, FullInv, InsertInv, InsertOnce, Inserters,
     connVars, storeVars, Quiet, AllIdleBut
<1>11. ASSUME NEW w \in Worker, PutsStatus(w) PROVE FullInv'
  BY <1>11, AskerAlone DEF PutsStatus, Goto, FullInv, InsertInv, InsertOnce, Inserters,
     connVars, storeVars
<1>12. ASSUME NEW w \in Worker, PutsReply(w) PROVE FullInv'
  BY <1>12, AskerAlone DEF PutsReply, Goto, Send, FullInv, InsertInv, InsertOnce,
     Inserters, connVars, storeVars
<1>13. ASSUME NEW w \in Worker, PutsQuick(w) PROVE FullInv'
  BY <1>13, OthersLater DEF PutsQuick, Goto, Insert, FullInv, InsertInv, InsertOnce,
     connVars
<1>14. ASSUME NEW w \in Worker, PutsAgain(w) PROVE FullInv'
  BY <1>14, OthersLater DEF PutsAgain, Goto, Return, Send, FullInv, InsertInv,
     InsertOnce, storeVars
<1>15. ASSUME NEW w \in Worker, DataStart(w) PROVE FullInv'
  BY <1>15, OthersLater DEF DataStart, Goto, Return, FullInv, InsertInv, InsertOnce,
     connVars, storeVars
<1>16. ASSUME NEW w \in Worker, DataCount(w) PROVE FullInv'
  <2>1. /\ job[w].chunk \in Chunk
        /\ SizeOf(job[w].chunk) \in Nat \ {0}
    BY <1>16, PduCases, SizeTypes DEF DataCount, Goto, Return, JobOK, DataSteps
  <2>2. CASE Fits(SizeOf(job[w].chunk))
    <3>1. handled # Total
      BY <2>1, <2>2 DEF Fits
    <3>2. UNCHANGED <<rows, verdict>> /\ pc' = [pc EXCEPT ![w] = "copy"]
      BY <1>16, <2>2 DEF DataCount, Goto, storeVars
    <3>3. Answered
      BY <1>16, OthersLater DEF DataCount, Goto, Return
    <3> QED BY <3>1, <3>2 DEF FullInv
  <2>3. CASE ~Fits(SizeOf(job[w].chunk))
    BY <1>16, <2>3 DEF DataCount, Goto, Return, storeVars, FullInv
  <2> QED BY <2>2, <2>3
<1>17. ASSUME NEW w \in Worker, DataCopy(w) PROVE FullInv'
  BY <1>17, OthersLater DEF DataCopy, Goto, FullInv, InsertInv, InsertOnce, connVars
<1>18. ASSUME NEW w \in Worker, DataAck(w) PROVE FullInv'
  BY <1>18, OthersLater DEF DataAck, Goto, Send, FullInv, InsertInv, InsertOnce,
     connVars, storeVars
<1>19. ASSUME NEW w \in Worker, DataFull(w) PROVE FullInv'
  BY <1>19, OthersLater DEF DataFull, Goto, Return, FullInv, InsertInv, InsertOnce,
     storeVars
<1>20. ASSUME NEW w \in Worker, DataInsert(w) PROVE FullInv'
  BY <1>20, OthersLater DEF DataInsert, Goto, Insert, FullInv, InsertInv, InsertOnce,
     connVars
<1>21. ASSUME NEW w \in Worker, DataFinished(w) PROVE FullInv'
  BY <1>21, OthersLater DEF DataFinished, Goto, Return, Send, FullInv, InsertInv,
     InsertOnce, connVars
<1>22. ASSUME NEW w \in Worker, PutsFinish(w) PROVE FullInv'
  BY <1>22, OthersLater DEF PutsFinish, Goto, Return, FullInv, InsertInv, InsertOnce,
     storeVars
<1>23. ASSUME NEW w \in Worker, UseFreed(w) PROVE FullInv'
  BY <1>23 DEF UseFreed, Goto, FullInv, InsertInv, InsertOnce, connVars, storeVars
<1> QED BY <1>1, <1>2, <1>3, <1>4, <1>5, <1>6, <1>7, <1>8, <1>9, <1>10, <1>11, <1>12,
           <1>13, <1>14, <1>15, <1>16, <1>17, <1>18, <1>19, <1>20, <1>21, <1>22, <1>23
           DEF ServerStep, Reactor, Pool, Puts, PutsData

LEMMA ServerStepPrior ==
  ASSUME TypeInv, PriorInv, ServerStep
  PROVE  PriorInv'
<1> USE DEF TypeInv, TypeOK, ServerTypeOK, Unanswered
<1>1. ASSUME HandleClientData PROVE PriorInv'
  BY <1>1 DEF HandleClientData, PriorInv, storeVars
<1>2. ASSUME CloseBegin PROVE PriorInv'
  BY <1>2 DEF CloseBegin, PriorInv, storeVars
<1>3. ASSUME CloseRelease PROVE PriorInv'
  BY <1>3 DEF CloseRelease, PriorInv, storeVars
<1>4. ASSUME CloseRemove PROVE PriorInv'
  BY <1>4 DEF CloseRemove, PriorInv
<1>5. ASSUME NEW w \in Worker, TakeTask(w) PROVE PriorInv'
  <2>1. ToolOf(Head(queue)) \in {"puts", "data", "finish"}
    BY <1>5, CarriesTail, PduCases DEF TakeTask, ToolOf
  <2>2. UNCHANGED <<priorRow, verdict>> /\ pc' = [pc EXCEPT ![w] = ToolOf(Head(queue))]
    BY <1>5 DEF TakeTask, Goto, storeVars
  <2> QED BY <2>1, <2>2 DEF PriorInv
<1>6. ASSUME NEW w \in Worker, PutsStart(w) PROVE PriorInv'
  BY <1>6 DEF PutsStart, Goto, Return, PriorInv, storeVars
<1>7. ASSUME NEW w \in Worker, PutsLookup(w) PROVE PriorInv'
  BY <1>7 DEF PutsLookup, Goto, PriorInv, storeVars
<1>8. ASSUME NEW w \in Worker, PutsOpen(w) PROVE PriorInv'
  <2>1. pc[w] = "open" /\ UNCHANGED priorRow
    BY <1>8 DEF PutsOpen, Goto
  <2>2. \/ pc' = [pc EXCEPT ![w] = "init"] /\ UNCHANGED verdict
        \/ /\ pc' = [pc EXCEPT ![w] = "reply"]
           /\ verdict' = [verdict EXCEPT ![w] = "FAILED"]
    BY <1>8 DEF PutsOpen, Goto
  <2> QED BY <2>1, <2>2 DEF PriorInv
<1>9. ASSUME NEW w \in Worker, PutsInit(w) PROVE PriorInv'
  BY <1>9 DEF PutsInit, Goto, PriorInv, storeVars
<1>10. ASSUME NEW w \in Worker, PutsHandled(w) PROVE PriorInv'
  BY <1>10 DEF PutsHandled, Goto, PriorInv, storeVars
<1>11. ASSUME NEW w \in Worker, PutsStatus(w) PROVE PriorInv'
  BY <1>11 DEF PutsStatus, Goto, PriorInv, storeVars
<1>12. ASSUME NEW w \in Worker, PutsReply(w) PROVE PriorInv'
  BY <1>12 DEF PutsReply, Goto, PriorInv, storeVars
<1>13. ASSUME NEW w \in Worker, PutsQuick(w) PROVE PriorInv'
  BY <1>13 DEF PutsQuick, Goto, Insert, PriorInv
<1>14. ASSUME NEW w \in Worker, PutsAgain(w) PROVE PriorInv'
  BY <1>14 DEF PutsAgain, Goto, Return, PriorInv, storeVars
<1>15. ASSUME NEW w \in Worker, DataStart(w) PROVE PriorInv'
  BY <1>15 DEF DataStart, Goto, Return, PriorInv, storeVars
<1>16. ASSUME NEW w \in Worker, DataCount(w) PROVE PriorInv'
  BY <1>16 DEF DataCount, Goto, Return, PriorInv, storeVars
<1>17. ASSUME NEW w \in Worker, DataCopy(w) PROVE PriorInv'
  BY <1>17 DEF DataCopy, Goto, PriorInv
<1>18. ASSUME NEW w \in Worker, DataAck(w) PROVE PriorInv'
  BY <1>18 DEF DataAck, Goto, PriorInv, storeVars
<1>19. ASSUME NEW w \in Worker, DataFull(w) PROVE PriorInv'
  BY <1>19 DEF DataFull, Goto, Return, PriorInv, storeVars
<1>20. ASSUME NEW w \in Worker, DataInsert(w) PROVE PriorInv'
  BY <1>20 DEF DataInsert, Goto, Insert, PriorInv
<1>21. ASSUME NEW w \in Worker, DataFinished(w) PROVE PriorInv'
  BY <1>21 DEF DataFinished, Goto, Return, PriorInv, storeVars
<1>22. ASSUME NEW w \in Worker, PutsFinish(w) PROVE PriorInv'
  BY <1>22 DEF PutsFinish, Goto, Return, PriorInv, storeVars
<1>23. ASSUME NEW w \in Worker, UseFreed(w) PROVE PriorInv'
  BY <1>23 DEF UseFreed, PriorInv, storeVars
<1> QED BY <1>1, <1>2, <1>3, <1>4, <1>5, <1>6, <1>7, <1>8, <1>9, <1>10, <1>11, <1>12,
           <1>13, <1>14, <1>15, <1>16, <1>17, <1>18, <1>19, <1>20, <1>21, <1>22, <1>23
           DEF ServerStep, Reactor, Pool, Puts, PutsData

-----------------------------------------------------------------------------
(* The file *)

LEMMA FileInit == Init => FileInv
BY DEF Init, ServerInit, FileInv

LEMMA ServerStepFile ==
  ASSUME TypeInv, OrderInv, InsertInv, FullInv, PriorInv, FileInv, ServerStep
  PROVE  FileInv'
<1> USE DEF TypeInv, TypeOK, ServerTypeOK, Unanswered
<1>1. ASSUME HandleClientData PROVE FileInv'
  BY <1>1 DEF HandleClientData, FileInv, NoDataWaits, DataSteps, connVars, storeVars
<1>2. ASSUME CloseBegin PROVE FileInv'
  BY <1>2 DEF CloseBegin, FileInv, NoDataWaits, DataSteps, storeVars
<1>3. ASSUME CloseRelease PROVE FileInv'
  BY <1>3 DEF CloseRelease, FileInv, NoDataWaits, DataSteps, storeVars
<1>4. ASSUME CloseRemove PROVE FileInv'
  BY <1>4 DEF CloseRemove, FileInv, NoDataWaits, DataSteps, connVars, storeVars,
     Unfinished, FullInv
<1>5. ASSUME NEW w \in Worker, TakeTask(w) PROVE FileInv'
  BY <1>5, CarriesTail, PduCases DEF TakeTask, Goto, ToolOf, FileInv, NoDataWaits,
     DataSteps, connVars, storeVars
<1>6. ASSUME NEW w \in Worker, PutsStart(w) PROVE FileInv'
  BY <1>6, AskerAlone DEF PutsStart, Goto, Return, FileInv, NoDataWaits, DataSteps,
     connVars, storeVars
<1>7. ASSUME NEW w \in Worker, PutsLookup(w) PROVE FileInv'
  BY <1>7, AskerAlone DEF PutsLookup, Goto, FileInv, NoDataWaits, DataSteps, connVars,
     storeVars, wireVars
<1>8. ASSUME NEW w \in Worker, PutsOpen(w) PROVE FileInv'
  <2>1. pc' = [pc EXCEPT ![w] = "init"] \/ pc' = [pc EXCEPT ![w] = "reply"]
    BY <1>8 DEF PutsOpen, Goto
  <2>2. verdict' = verdict \/ verdict' = [verdict EXCEPT ![w] = "FAILED"]
    BY <1>8 DEF PutsOpen
  <2>3. (disk => disk') /\ (pc'[w] = "init" => disk')
    BY <1>8 DEF PutsOpen, Goto
  <2>4. UNCHANGED <<queue, status, closing, priorRow, rows>>
    BY <1>8 DEF PutsOpen, connVars
  <2> QED BY <2>1, <2>2, <2>3, <2>4 DEF FileInv, NoDataWaits, DataSteps
<1>9. ASSUME NEW w \in Worker, PutsInit(w) PROVE FileInv'
  BY <1>9, AskerAlone DEF PutsInit, Goto, FileInv, NoDataWaits, DataSteps, connVars,
     storeVars
<1>10. ASSUME NEW w \in Worker, PutsHandled(w) PROVE FileInv'
  BY <1>10, AskerAlone DEF PutsHandled, Goto, FileInv, NoDataWaits, DataSteps, connVars,
     storeVars
<1>11. ASSUME NEW w \in Worker, PutsStatus(w) PROVE FileInv'
  BY <1>11, AskerAlone, CarriesEmpty DEF PutsStatus, Goto, FileInv, NoDataWaits,
     DataSteps, connVars, storeVars, AllIdleBut
<1>12. ASSUME NEW w \in Worker, PutsReply(w) PROVE FileInv'
  BY <1>12, AskerAlone DEF PutsReply, Goto, Send, FileInv, NoDataWaits, DataSteps,
     connVars, storeVars
<1>13. ASSUME NEW w \in Worker, PutsQuick(w) PROVE FileInv'
  BY <1>13, OthersLater DEF PutsQuick, Goto, Insert, FileInv, NoDataWaits, DataSteps,
     connVars, storeVars, wireVars, PriorInv
<1>14. ASSUME NEW w \in Worker, PutsAgain(w) PROVE FileInv'
  BY <1>14, OthersLater DEF PutsAgain, Goto, Return, Send, FileInv, NoDataWaits,
     DataSteps, storeVars
<1>15. ASSUME NEW w \in Worker, DataStart(w) PROVE FileInv'
  BY <1>15, OthersLater DEF DataStart, Goto, Return, FileInv, NoDataWaits, DataSteps,
     connVars, storeVars
<1>16. ASSUME NEW w \in Worker, DataCount(w) PROVE FileInv'
  BY <1>16, OthersLater DEF DataCount, Goto, Return, FileInv, NoDataWaits, DataSteps,
     storeVars
<1>17. ASSUME NEW w \in Worker, DataCopy(w) PROVE FileInv'
  BY <1>17, OthersLater DEF DataCopy, Goto, FileInv, NoDataWaits, DataSteps, connVars
<1>18. ASSUME NEW w \in Worker, DataAck(w) PROVE FileInv'
  BY <1>18, OthersLater DEF DataAck, Goto, Send, FileInv, NoDataWaits, DataSteps,
     connVars, storeVars
<1>19. ASSUME NEW w \in Worker, DataFull(w) PROVE FileInv'
  BY <1>19, OthersLater DEF DataFull, Goto, Return, FileInv, NoDataWaits, DataSteps,
     connVars, storeVars, WinsFinish
<1>20. ASSUME NEW w \in Worker, DataInsert(w) PROVE FileInv'
  BY <1>20, OthersLater DEF DataInsert, Goto, Insert, FileInv, NoDataWaits, DataSteps,
     connVars, storeVars, wireVars
<1>21. ASSUME NEW w \in Worker, DataFinished(w) PROVE FileInv'
  BY <1>21, OthersLater DEF DataFinished, Goto, Return, Send, FileInv, NoDataWaits,
     DataSteps, connVars, storeVars
<1>22. ASSUME NEW w \in Worker, PutsFinish(w) PROVE FileInv'
  BY <1>22, OthersLater DEF PutsFinish, Goto, Return, FileInv, NoDataWaits, DataSteps,
     storeVars
<1>23. ASSUME NEW w \in Worker, UseFreed(w) PROVE FileInv'
  BY <1>23 DEF UseFreed, Goto, FileInv, NoDataWaits, DataSteps, connVars, storeVars
<1> QED BY <1>1, <1>2, <1>3, <1>4, <1>5, <1>6, <1>7, <1>8, <1>9, <1>10, <1>11, <1>12,
           <1>13, <1>14, <1>15, <1>16, <1>17, <1>18, <1>19, <1>20, <1>21, <1>22, <1>23
           DEF ServerStep, Reactor, Pool, Puts, PutsData

LEMMA MapInit == Init => MapInv
BY DEF Init, ServerInit, MapInv, CrashOnlyAfterClose

LEMMA ServerStepMap ==
  ASSUME TypeInv, OrderInv, MapInv, ServerStep
  PROVE  MapInv'
<1> USE DEF TypeInv, TypeOK, ServerTypeOK, Unanswered
<1>1. ASSUME HandleClientData PROVE MapInv'
  BY <1>1 DEF HandleClientData, MapInv, MapThere, CrashOnlyAfterClose, connVars
<1>2. ASSUME CloseBegin PROVE MapInv'
  BY <1>2 DEF CloseBegin, MapInv, MapThere, CrashOnlyAfterClose
<1>3. ASSUME CloseRelease PROVE MapInv'
  BY <1>3 DEF CloseRelease, MapInv, MapThere, CrashOnlyAfterClose
<1>4. ASSUME CloseRemove PROVE MapInv'
  BY <1>4 DEF CloseRemove, MapInv, MapThere, CrashOnlyAfterClose
<1>5. ASSUME NEW w \in Worker, TakeTask(w) PROVE MapInv'
  <2>1. ToolOf(Head(queue)) \in {"puts", "data", "finish"}
    BY <1>5, CarriesTail, PduCases DEF TakeTask, ToolOf
  <2>2. UNCHANGED <<serverUp, closing, status, map, verdict>> /\ pc' = [pc EXCEPT ![w] = ToolOf(Head(queue))]
    BY <1>5 DEF TakeTask, Goto, connVars
  <2> QED BY <2>1, <2>2 DEF MapInv, MapThere, CrashOnlyAfterClose
<1>6. ASSUME NEW w \in Worker, PutsStart(w) PROVE MapInv'
  BY <1>6, AskerAlone DEF PutsStart, Goto, Return, MapInv, MapThere,
     CrashOnlyAfterClose, connVars
<1>7. ASSUME NEW w \in Worker, PutsLookup(w) PROVE MapInv'
  BY <1>7, AskerAlone DEF PutsLookup, Goto, MapInv, MapThere, CrashOnlyAfterClose,
     connVars
<1>8. ASSUME NEW w \in Worker, PutsOpen(w) PROVE MapInv'
  <2>1. pc' = [pc EXCEPT ![w] = "init"] \/ pc' = [pc EXCEPT ![w] = "reply"]
    BY <1>8 DEF PutsOpen, Goto
  <2>2. verdict' = verdict \/ verdict' = [verdict EXCEPT ![w] = "FAILED"]
    BY <1>8 DEF PutsOpen
  <2>3. UNCHANGED <<status, map, closing, serverUp>>
    BY <1>8 DEF PutsOpen, connVars
  <2> QED BY <2>1, <2>2, <2>3 DEF MapInv, MapThere, CrashOnlyAfterClose
<1>9. ASSUME NEW w \in Worker, PutsInit(w) PROVE MapInv'
  BY <1>9, AskerAlone DEF PutsInit, Goto, MapInv, MapThere, CrashOnlyAfterClose,
     connVars
<1>10. ASSUME NEW w \in Worker, PutsHandled(w) PROVE MapInv'
  BY <1>10, AskerAlone DEF PutsHandled, Goto, MapInv, MapThere, CrashOnlyAfterClose,
     connVars, storeVars, MapOf
<1>11. ASSUME NEW w \in Worker, PutsStatus(w) PROVE MapInv'
  BY <1>11, AskerAlone DEF PutsStatus, Goto, MapInv, MapThere, CrashOnlyAfterClose,
     connVars
<1>12. ASSUME NEW w \in Worker, PutsReply(w) PROVE MapInv'
  BY <1>12, AskerAlone DEF PutsReply, Goto, Send, MapInv, MapThere, CrashOnlyAfterClose,
     connVars
<1>13. ASSUME NEW w \in Worker, PutsQuick(w) PROVE MapInv'
  BY <1>13, OthersLater DEF PutsQuick, Goto, Insert, MapInv, MapThere,
     CrashOnlyAfterClose, connVars
<1>14. ASSUME NEW w \in Worker, PutsAgain(w) PROVE MapInv'
  BY <1>14, OthersLater DEF PutsAgain, Goto, Return, Send, MapInv, MapThere,
     CrashOnlyAfterClose
<1>15. ASSUME NEW w \in Worker, DataStart(w) PROVE MapInv'
  BY <1>15, OthersLater DEF DataStart, Goto, Return, MapInv, MapThere,
     CrashOnlyAfterClose, connVars
<1>16. ASSUME NEW w \in Worker, DataCount(w) PROVE MapInv'
  BY <1>16, OthersLater DEF DataCount, Goto, Return, MapInv, MapThere,
     CrashOnlyAfterClose
<1>17. ASSUME NEW w \in Worker, DataCopy(w) PROVE MapInv'
  BY <1>17, OthersLater DEF DataCopy, Goto, MapInv, MapThere, CrashOnlyAfterClose,
     connVars
<1>18. ASSUME NEW w \in Worker, DataAck(w) PROVE MapInv'
  BY <1>18, OthersLater DEF DataAck, Goto, Send, MapInv, MapThere, CrashOnlyAfterClose,
     connVars
<1>19. ASSUME NEW w \in Worker, DataFull(w) PROVE MapInv'
  BY <1>19, OthersLater DEF DataFull, Goto, Return, MapInv, MapThere,
     CrashOnlyAfterClose
<1>20. ASSUME NEW w \in Worker, DataInsert(w) PROVE MapInv'
  BY <1>20, OthersLater DEF DataInsert, Goto, Insert, MapInv, MapThere,
     CrashOnlyAfterClose, connVars
<1>21. ASSUME NEW w \in Worker, DataFinished(w) PROVE MapInv'
  BY <1>21, OthersLater DEF DataFinished, Goto, Return, Send, MapInv, MapThere,
     CrashOnlyAfterClose, connVars
<1>22. ASSUME NEW w \in Worker, PutsFinish(w) PROVE MapInv'
  BY <1>22, OthersLater DEF PutsFinish, Goto, Return, MapInv, MapThere,
     CrashOnlyAfterClose
<1>23. ASSUME NEW w \in Worker, UseFreed(w) PROVE MapInv'
  BY <1>23 DEF UseFreed, Goto, MapInv, MapThere, CrashOnlyAfterClose
<1> QED BY <1>1, <1>2, <1>3, <1>4, <1>5, <1>6, <1>7, <1>8, <1>9, <1>10, <1>11, <1>12,
           <1>13, <1>14, <1>15, <1>16, <1>17, <1>18, <1>19, <1>20, <1>21, <1>22, <1>23
           DEF ServerStep, Reactor, Pool, Puts, PutsData

-----------------------------------------------------------------------------
(* The answers *)

\* What a thread sends is of the type of the stream.
LEMMA SentTypes ==
  ASSUME TypeInv, NEW w \in Worker
  PROVE  /\ pc[w] = "reply" => Answer(verdict[w]) \in Respond
         /\ pc[w] \in {"again", "done"} => SecondAnswer(w) \in Respond
         /\ pc[w] = "ack" => job[w].chunk \in Chunk /\ Ack(job[w].chunk) \in Respond
         /\ pc[w] = "finished" => Finished(verdict[w]) \in Respond
BY RespondTypes, PduCases DEF TypeInv, TypeOK, ServerTypeOK, JobOK, DataSteps,
   SecondAnswer

\* After a send the stream carries what it carried, and the message sent or not.
LEMMA SendCarries ==
  ASSUME toClient \in Seq(Respond), NEW r \in Respond, Send(r)
  PROVE  \A m : Carries(toClient', m) => Carries(toClient, m) \/ m = r
BY CarriesAppend DEF Send

LEMMA AnswersInit == Init => SuccessInv /\ PhaseInv
BY CarriesEmpty DEF Init, ServerInit, ClientInit, SuccessInv, SuccessAnnounced, PhaseInv

LEMMA ServerStepSuccess ==
  ASSUME TypeInv, OrderInv, InsertInv, SuccessInv, ServerStep, UNCHANGED clientVars
  PROVE  SuccessInv'
<1> USE DEF TypeInv, TypeOK, WireTypeOK, ServerTypeOK, Unanswered
<1> USE DEF clientVars
<1>1. ASSUME HandleClientData PROVE SuccessInv'
  BY <1>1 DEF HandleClientData, SuccessInv, SuccessAnnounced, storeVars
<1>2. ASSUME CloseBegin PROVE SuccessInv'
  BY <1>2 DEF CloseBegin, SuccessInv, SuccessAnnounced, storeVars, wireVars
<1>3. ASSUME CloseRelease PROVE SuccessInv'
  BY <1>3 DEF CloseRelease, SuccessInv, SuccessAnnounced, storeVars, wireVars
<1>4. ASSUME CloseRemove PROVE SuccessInv'
  BY <1>4 DEF CloseRemove, SuccessInv, SuccessAnnounced, wireVars
<1>5. ASSUME NEW w \in Worker, TakeTask(w) PROVE SuccessInv'
  <2>1. ToolOf(Head(queue)) \in {"puts", "data", "finish"}
    BY <1>5, CarriesTail, PduCases DEF TakeTask, ToolOf
  <2>2. UNCHANGED <<told, rows, toClient, verdict>> /\ pc' = [pc EXCEPT ![w] = ToolOf(Head(queue))]
    BY <1>5 DEF TakeTask, Goto, storeVars, wireVars
  <2> QED BY <2>1, <2>2 DEF SuccessInv, SuccessAnnounced
<1>6. ASSUME NEW w \in Worker, PutsStart(w) PROVE SuccessInv'
  BY <1>6, AskerAlone DEF PutsStart, Goto, Return, SuccessInv, SuccessAnnounced,
     connVars, storeVars, wireVars
<1>7. ASSUME NEW w \in Worker, PutsLookup(w) PROVE SuccessInv'
  BY <1>7, AskerAlone DEF PutsLookup, Goto, SuccessInv, SuccessAnnounced, connVars,
     storeVars, wireVars
<1>8. ASSUME NEW w \in Worker, PutsOpen(w) PROVE SuccessInv'
  <2>1. pc' = [pc EXCEPT ![w] = "init"] \/ pc' = [pc EXCEPT ![w] = "reply"]
    BY <1>8 DEF PutsOpen, Goto
  <2>2. verdict' = verdict \/ verdict' = [verdict EXCEPT ![w] = "FAILED"]
    BY <1>8 DEF PutsOpen
  <2>3. UNCHANGED <<toClient, told, rows>>
    BY <1>8 DEF PutsOpen, wireVars
  <2> QED BY <2>1, <2>2, <2>3 DEF SuccessInv, SuccessAnnounced
<1>9. ASSUME NEW w \in Worker, PutsInit(w) PROVE SuccessInv'
  BY <1>9, AskerAlone DEF PutsInit, Goto, SuccessInv, SuccessAnnounced, connVars,
     storeVars, wireVars
<1>10. ASSUME NEW w \in Worker, PutsHandled(w) PROVE SuccessInv'
  BY <1>10, AskerAlone DEF PutsHandled, Goto, SuccessInv, SuccessAnnounced, connVars,
     storeVars, wireVars
<1>11. ASSUME NEW w \in Worker, PutsStatus(w) PROVE SuccessInv'
  BY <1>11, AskerAlone DEF PutsStatus, Goto, SuccessInv, SuccessAnnounced, connVars,
     storeVars, wireVars
<1>12. ASSUME NEW w \in Worker, PutsReply(w) PROVE SuccessInv'
  <2>1. Answer(verdict[w]) \in Respond
    BY <1>12, SentTypes DEF PutsReply, Goto
  <2>2. Carries(toClient', Finished("SUCCESS"))
          => Carries(toClient, Finished("SUCCESS")) \/ Answer(verdict[w]) = Finished("SUCCESS")
    BY <1>12, <2>1, SendCarries DEF PutsReply
  <2>3. Answer(verdict[w]) # Finished("SUCCESS")
    BY RespondsDiffer
  <2> QED BY <1>12, <2>2, <2>3 DEF PutsReply, Goto, SuccessInv, SuccessAnnounced,
             storeVars
<1>13. ASSUME NEW w \in Worker, PutsQuick(w) PROVE SuccessInv'
  BY <1>13, OthersLater DEF PutsQuick, Goto, Insert, SuccessInv, SuccessAnnounced,
     connVars, storeVars, wireVars, InsertInv, InsertOnce, Inserters, Outcome
<1>14. ASSUME NEW w \in Worker, PutsAgain(w) PROVE SuccessInv'
  <2>1. SecondAnswer(w) \in Respond
    BY <1>14, SentTypes DEF PutsAgain, Goto, Return
  <2>2. Carries(toClient', Finished("SUCCESS"))
          => Carries(toClient, Finished("SUCCESS")) \/ SecondAnswer(w) = Finished("SUCCESS")
    BY <1>14, <2>1, SendCarries DEF PutsAgain
  <2>3. SecondAnswer(w) = Finished("SUCCESS") => rows = 1
    BY <1>14, RespondsDiffer DEF PutsAgain, Goto, SecondAnswer, SuccessInv
  <2> QED BY <1>14, <2>2, <2>3 DEF PutsAgain, Goto, Return, SuccessInv,
             SuccessAnnounced, storeVars
<1>15. ASSUME NEW w \in Worker, DataStart(w) PROVE SuccessInv'
  BY <1>15, OthersLater DEF DataStart, Goto, Return, SuccessInv, SuccessAnnounced,
     storeVars, wireVars
<1>16. ASSUME NEW w \in Worker, DataCount(w) PROVE SuccessInv'
  BY <1>16, OthersLater DEF DataCount, Goto, Return, SuccessInv, SuccessAnnounced,
     storeVars, wireVars
<1>17. ASSUME NEW w \in Worker, DataCopy(w) PROVE SuccessInv'
  BY <1>17, OthersLater DEF DataCopy, Goto, SuccessInv, SuccessAnnounced, wireVars
<1>18. ASSUME NEW w \in Worker, DataAck(w) PROVE SuccessInv'
  <2>1. Ack(job[w].chunk) \in Respond
    BY <1>18, SentTypes DEF DataAck, Goto
  <2>2. Carries(toClient', Finished("SUCCESS"))
          => Carries(toClient, Finished("SUCCESS")) \/ Ack(job[w].chunk) = Finished("SUCCESS")
    BY <1>18, <2>1, SendCarries DEF DataAck
  <2>3. Ack(job[w].chunk) # Finished("SUCCESS")
    BY RespondsDiffer
  <2> QED BY <1>18, <2>2, <2>3 DEF DataAck, Goto, SuccessInv, SuccessAnnounced,
             storeVars
<1>19. ASSUME NEW w \in Worker, DataFull(w) PROVE SuccessInv'
  BY <1>19, OthersLater DEF DataFull, Goto, Return, SuccessInv, SuccessAnnounced,
     storeVars, wireVars
<1>20. ASSUME NEW w \in Worker, DataInsert(w) PROVE SuccessInv'
  BY <1>20, OthersLater DEF DataInsert, Goto, Insert, SuccessInv, SuccessAnnounced,
     connVars, storeVars, wireVars, InsertInv, InsertOnce, Inserters, Outcome
<1>21. ASSUME NEW w \in Worker, DataFinished(w) PROVE SuccessInv'
  <2>1. Finished(verdict[w]) \in Respond
    BY <1>21, SentTypes DEF DataFinished, Goto, Return
  <2>2. Carries(toClient', Finished("SUCCESS"))
          => Carries(toClient, Finished("SUCCESS")) \/ Finished(verdict[w]) = Finished("SUCCESS")
    BY <1>21, <2>1, SendCarries DEF DataFinished
  <2>3. Finished(verdict[w]) = Finished("SUCCESS") => rows = 1
    BY <1>21, RespondsDiffer DEF DataFinished, Goto, Return, SuccessInv
  <2> QED BY <1>21, <2>2, <2>3 DEF DataFinished, Goto, Return, SuccessInv,
             SuccessAnnounced, storeVars
<1>22. ASSUME NEW w \in Worker, PutsFinish(w) PROVE SuccessInv'
  BY <1>22, OthersLater DEF PutsFinish, Goto, Return, SuccessInv, SuccessAnnounced,
     storeVars, wireVars
<1>23. ASSUME NEW w \in Worker, UseFreed(w) PROVE SuccessInv'
  BY <1>23 DEF UseFreed, Goto, SuccessInv, SuccessAnnounced, storeVars, wireVars
<1> QED BY <1>1, <1>2, <1>3, <1>4, <1>5, <1>6, <1>7, <1>8, <1>9, <1>10, <1>11, <1>12,
           <1>13, <1>14, <1>15, <1>16, <1>17, <1>18, <1>19, <1>20, <1>21, <1>22, <1>23
           DEF ServerStep, Reactor, Pool, Puts, PutsData

LEMMA ClientStepSuccess ==
  ASSUME TypeInv, SuccessInv, PhaseInv, ClientStep, UNCHANGED serverVars
  PROVE  SuccessInv' /\ PhaseInv'
<1> USE DEF TypeInv, TypeOK, WireTypeOK, serverVars, storeVars
<1>1. ASSUME HandlePutsRespond PROVE SuccessInv' /\ PhaseInv'
  BY <1>1, CarriesTail DEF HandlePutsRespond, Slot, SendFile, Finish, Keep, Step,
     SuccessInv, SuccessAnnounced, PhaseInv
<1>2. ASSUME HandlePutsDataRespond PROVE SuccessInv' /\ PhaseInv'
  BY <1>2, CarriesTail DEF HandlePutsDataRespond, Slot, SendFile, Finish, Keep, Step,
     SuccessInv, SuccessAnnounced, PhaseInv
<1>3. ASSUME HandlePutsFinishRespond PROVE SuccessInv' /\ PhaseInv'
  <2>1. Head(toClient) \in Respond /\ Carries(toClient, Head(toClient))
    BY <1>3, CarriesTail DEF HandlePutsFinishRespond, Slot
  <2>2. told' = "success" => Head(toClient) = Finished("SUCCESS")
    BY <1>3, <2>1, RespondCases DEF HandlePutsFinishRespond, Finish
  <2>3. told' = "success" => rows = 1
    BY <2>1, <2>2 DEF SuccessInv, SuccessAnnounced
  <2>4. Carries(toClient', Finished("SUCCESS")) => rows = 1
    BY <1>3, CarriesTail DEF HandlePutsFinishRespond, Slot, SuccessInv, SuccessAnnounced
  <2>5. UNCHANGED <<pc, verdict, rows>>
    OBVIOUS
  <2>6. PhaseInv'
    BY <1>3 DEF HandlePutsFinishRespond, Finish, PhaseInv
  <2> QED BY <2>3, <2>4, <2>5, <2>6 DEF SuccessInv, SuccessAnnounced
<1>4. ASSUME SendCancelRequest PROVE SuccessInv' /\ PhaseInv'
  BY <1>4 DEF SendCancelRequest, Finish, SuccessInv, SuccessAnnounced, PhaseInv,
     wireVars
<1>5. ASSUME HandleStopPBClicked PROVE SuccessInv' /\ PhaseInv'
  BY <1>5 DEF HandleStopPBClicked, Click, NotifyOne, Step, SuccessInv, SuccessAnnounced,
     PhaseInv, wireVars
<1>6. ASSUME HandleContinuePBClicked PROVE SuccessInv' /\ PhaseInv'
  BY <1>6 DEF HandleContinuePBClicked, Click, NotifyOne, Step, SuccessInv,
     SuccessAnnounced, PhaseInv, wireVars
<1>7. ASSUME HandleClosePBClicked PROVE SuccessInv' /\ PhaseInv'
  BY <1>7 DEF HandleClosePBClicked, Click, NotifyOne, Step, SuccessInv,
     SuccessAnnounced, PhaseInv, wireVars
<1>8. ASSUME NEW i \in Sender, Seek(i) PROVE SuccessInv' /\ PhaseInv'
  BY <1>8 DEF Seek, Coroutine, Step, SuccessInv, SuccessAnnounced, PhaseInv
<1>9. ASSUME NEW i \in Sender, Read(i) PROVE SuccessInv' /\ PhaseInv'
  BY <1>9 DEF Read, Coroutine, Step, SuccessInv, SuccessAnnounced, PhaseInv
<1>10. ASSUME NEW i \in Sender, Check(i) PROVE SuccessInv' /\ PhaseInv'
  BY <1>10 DEF Check, Coroutine, Step, SuccessInv, SuccessAnnounced, PhaseInv
<1>11. ASSUME NEW i \in Sender, FallAsleep(i) PROVE SuccessInv' /\ PhaseInv'
  BY <1>11 DEF FallAsleep, Coroutine, Step, SuccessInv, SuccessAnnounced, PhaseInv
<1>12. ASSUME NEW i \in Sender, SendChunk(i) PROVE SuccessInv' /\ PhaseInv'
  BY <1>12 DEF SendChunk, Coroutine, Step, SuccessInv, SuccessAnnounced, PhaseInv
<1> QED BY <1>1, <1>2, <1>3, <1>4, <1>5, <1>6, <1>7, <1>8, <1>9, <1>10, <1>11, <1>12 DEF
           ClientStep, UdTool, TProgress, SendFileData

-----------------------------------------------------------------------------
(* The chunks *)

LEMMA WrittenInit == Init => WrittenInv
BY CarriesEmpty DEF Init, ServerInit, ClientInit, WrittenInv, AckedIsWritten, Acked

LEMMA ServerStepWritten ==
  ASSUME TypeInv, OrderInv, PriorInv, WrittenInv, ServerStep, UNCHANGED clientVars
  PROVE  WrittenInv'
<1> USE DEF TypeInv, TypeOK, WireTypeOK, ServerTypeOK, Unanswered
<1> USE DEF clientVars
<1>1. ASSUME HandleClientData PROVE WrittenInv'
  BY <1>1 DEF HandleClientData, WrittenInv, AckedIsWritten, Acked, storeVars
<1>2. ASSUME CloseBegin PROVE WrittenInv'
  BY <1>2 DEF CloseBegin, WrittenInv, AckedIsWritten, Acked, storeVars, wireVars
<1>3. ASSUME CloseRelease PROVE WrittenInv'
  BY <1>3 DEF CloseRelease, WrittenInv, AckedIsWritten, Acked, storeVars, wireVars
<1>4. ASSUME CloseRemove PROVE WrittenInv'
  BY <1>4 DEF CloseRemove, WrittenInv, AckedIsWritten, Acked, wireVars
<1>5. ASSUME NEW w \in Worker, TakeTask(w) PROVE WrittenInv'
  <2>1. ToolOf(Head(queue)) \in {"puts", "data", "finish"}
    BY <1>5, CarriesTail, PduCases DEF TakeTask, ToolOf
  <2>2. /\ UNCHANGED <<toClient, unacked, data, priorRow, serverUp>>
        /\ pc' = [pc EXCEPT ![w] = ToolOf(Head(queue))]
        /\ \A v \in Worker : v # w => job'[v] = job[v]
    BY <1>5 DEF TakeTask, Goto, storeVars, wireVars
  <2> QED BY <2>1, <2>2 DEF WrittenInv, AckedIsWritten, Acked
<1>6. ASSUME NEW w \in Worker, PutsStart(w) PROVE WrittenInv'
  BY <1>6 DEF PutsStart, Goto, Return, WrittenInv, AckedIsWritten, Acked, storeVars,
     wireVars
<1>7. ASSUME NEW w \in Worker, PutsLookup(w) PROVE WrittenInv'
  BY <1>7 DEF PutsLookup, Goto, WrittenInv, AckedIsWritten, Acked, storeVars, wireVars
<1>8. ASSUME NEW w \in Worker, PutsOpen(w) PROVE WrittenInv'
  <2>1. pc[w] = "open"
    BY <1>8 DEF PutsOpen, Goto
  <2>2. Quiet /\ AllIdleBut(w) /\ ~priorRow
    BY <2>1, AskerAlone DEF PriorInv
  <2>3. /\ UNCHANGED <<toClient, unacked, priorRow>>
        /\ pc' \in {[pc EXCEPT ![w] = "init"], [pc EXCEPT ![w] = "reply"]}
    BY <1>8 DEF PutsOpen, Goto, wireVars
  <2>4. Acked' = {}
    BY <2>2, <2>3, CarriesEmpty DEF Acked, Quiet
  <2>5. \A v \in Worker : pc'[v] # "ack"
    BY <2>2, <2>3 DEF AllIdleBut
  <2>6. ~Carries(toClient', Answer("PUT_QUICK"))
    BY <2>2, <2>3, CarriesEmpty DEF Quiet
  <2> QED BY <2>2, <2>3, <2>4, <2>5 DEF WrittenInv, AckedIsWritten
<1>9. ASSUME NEW w \in Worker, PutsInit(w) PROVE WrittenInv'
  BY <1>9 DEF PutsInit, Goto, WrittenInv, AckedIsWritten, Acked, storeVars, wireVars
<1>10. ASSUME NEW w \in Worker, PutsHandled(w) PROVE WrittenInv'
  BY <1>10 DEF PutsHandled, Goto, WrittenInv, AckedIsWritten, Acked, storeVars, wireVars
<1>11. ASSUME NEW w \in Worker, PutsStatus(w) PROVE WrittenInv'
  BY <1>11 DEF PutsStatus, Goto, WrittenInv, AckedIsWritten, Acked, storeVars, wireVars
<1>12. ASSUME NEW w \in Worker, PutsReply(w) PROVE WrittenInv'
  <2>1. Answer(verdict[w]) \in Respond
    BY <1>12, SentTypes DEF PutsReply, Goto
  <2>2. \A m : Carries(toClient', m) => Carries(toClient, m) \/ m = Answer(verdict[w])
    BY <1>12, <2>1, SendCarries DEF PutsReply
  <2>3. /\ UNCHANGED <<unacked, data, priorRow>>
        /\ serverUp
        /\ \A v \in Worker : pc'[v] = "ack" => pc[v] = "ack" /\ job'[v] = job[v]
    BY <1>12 DEF PutsReply, Goto, storeVars
  <2>4. Answer(verdict[w]) = Answer("PUT_QUICK") => priorRow
    BY <1>12, RespondsDiffer DEF PutsReply, Goto, PriorInv
  <2>5. \A c \in Chunk : Answer(verdict[w]) # Ack(c)
    BY RespondsDiffer
  <2>6. AckedIsWritten'
    BY <2>2, <2>3, <2>5 DEF WrittenInv, AckedIsWritten, Acked
  <2> QED BY <2>2, <2>3, <2>4, <2>6 DEF WrittenInv
<1>13. ASSUME NEW w \in Worker, PutsQuick(w) PROVE WrittenInv'
  BY <1>13 DEF PutsQuick, Goto, Insert, WrittenInv, AckedIsWritten, Acked, wireVars
<1>14. ASSUME NEW w \in Worker, PutsAgain(w) PROVE WrittenInv'
  <2>1. SecondAnswer(w) \in Respond
    BY <1>14, SentTypes DEF PutsAgain, Goto, Return
  <2>2. \A m : Carries(toClient', m) => Carries(toClient, m) \/ m = SecondAnswer(w)
    BY <1>14, <2>1, SendCarries DEF PutsAgain
  <2>3. /\ UNCHANGED <<unacked, data, priorRow>>
        /\ serverUp
        /\ \A v \in Worker : pc'[v] = "ack" => pc[v] = "ack" /\ job'[v] = job[v]
    BY <1>14 DEF PutsAgain, Goto, Return, storeVars
  <2>4. SecondAnswer(w) = Answer("PUT_QUICK") => priorRow
    BY <1>14, RespondsDiffer DEF PutsAgain, Goto, Return, SecondAnswer, PriorInv
  <2>5. \A c \in Chunk : SecondAnswer(w) # Ack(c)
    BY RespondsDiffer DEF SecondAnswer
  <2>6. AckedIsWritten'
    BY <2>2, <2>3, <2>5 DEF WrittenInv, AckedIsWritten, Acked
  <2> QED BY <2>2, <2>3, <2>4, <2>6 DEF WrittenInv
<1>15. ASSUME NEW w \in Worker, DataStart(w) PROVE WrittenInv'
  BY <1>15 DEF DataStart, Goto, Return, WrittenInv, AckedIsWritten, Acked, storeVars,
     wireVars
<1>16. ASSUME NEW w \in Worker, DataCount(w) PROVE WrittenInv'
  BY <1>16 DEF DataCount, Goto, Return, WrittenInv, AckedIsWritten, Acked, storeVars,
     wireVars
<1>17. ASSUME NEW w \in Worker, DataCopy(w) PROVE WrittenInv'
  <2>1. job[w].chunk \in Chunk /\ pc[w] = "copy" /\ pc' = [pc EXCEPT ![w] = "ack"]
    BY <1>17, PduCases DEF DataCopy, Goto, JobOK, DataSteps
  <2>2. \A c \in Chunk : data[c] # "hole" => data'[c] # "hole"
    BY <1>17 DEF DataCopy, Copied
  <2>3. serverUp' => data'[job[w].chunk] # "hole"
    BY <1>17, <2>1 DEF DataCopy, Copied
  <2>4. serverUp /\ UNCHANGED <<toClient, unacked, priorRow, job>>
    BY <1>17 DEF DataCopy, Goto, wireVars
  <2>5. \A v \in Worker : pc[v] = "ack" => job[v].chunk \in Chunk
    BY PduCases DEF JobOK, DataSteps
  <2>6. AckedIsWritten'
    BY <2>2, <2>4 DEF WrittenInv, AckedIsWritten, Acked
  <2>7. \A v \in Worker : serverUp' /\ pc'[v] = "ack" => data'[job'[v].chunk] # "hole"
    BY <2>1, <2>2, <2>3, <2>4, <2>5 DEF WrittenInv
  <2>8. /\ priorRow' => \A c \in Chunk : data'[c] # "hole"
        /\ Carries(toClient', Answer("PUT_QUICK")) => priorRow'
    BY <2>2, <2>4 DEF WrittenInv
  <2> QED BY <2>6, <2>7, <2>8 DEF WrittenInv
<1>18. ASSUME NEW w \in Worker, DataAck(w) PROVE WrittenInv'
  <2>1. Ack(job[w].chunk) \in Respond
    BY <1>18, SentTypes DEF DataAck, Goto
  <2>2. \A m : Carries(toClient', m) => Carries(toClient, m) \/ m = Ack(job[w].chunk)
    BY <1>18, <2>1, SendCarries DEF DataAck
  <2>3. /\ UNCHANGED <<unacked, data, priorRow>>
        /\ serverUp
        /\ \A v \in Worker : pc'[v] = "ack" => pc[v] = "ack" /\ job'[v] = job[v]
    BY <1>18 DEF DataAck, Goto, storeVars
  <2>4. Ack(job[w].chunk) # Answer("PUT_QUICK")
    BY RespondsDiffer
  <2>5. \A c \in Chunk : Ack(job[w].chunk) = Ack(c) => data[c] # "hole"
    BY <1>18, RespondsDiffer DEF DataAck, Goto, WrittenInv
  <2>6. AckedIsWritten'
    BY <2>2, <2>3, <2>5 DEF WrittenInv, AckedIsWritten, Acked
  <2> QED BY <2>2, <2>3, <2>4, <2>6 DEF WrittenInv
<1>19. ASSUME NEW w \in Worker, DataFull(w) PROVE WrittenInv'
  BY <1>19 DEF DataFull, Goto, Return, WrittenInv, AckedIsWritten, Acked, storeVars,
     wireVars
<1>20. ASSUME NEW w \in Worker, DataInsert(w) PROVE WrittenInv'
  BY <1>20 DEF DataInsert, Goto, Insert, WrittenInv, AckedIsWritten, Acked, wireVars
<1>21. ASSUME NEW w \in Worker, DataFinished(w) PROVE WrittenInv'
  <2>1. Finished(verdict[w]) \in Respond
    BY <1>21, SentTypes DEF DataFinished, Goto, Return
  <2>2. \A m : Carries(toClient', m) => Carries(toClient, m) \/ m = Finished(verdict[w])
    BY <1>21, <2>1, SendCarries DEF DataFinished
  <2>3. /\ UNCHANGED <<unacked, data, priorRow>>
        /\ serverUp
        /\ \A v \in Worker : pc'[v] = "ack" => pc[v] = "ack" /\ job'[v] = job[v]
    BY <1>21 DEF DataFinished, Goto, Return, storeVars
  <2>4. Finished(verdict[w]) # Answer("PUT_QUICK")
    BY RespondsDiffer
  <2>5. \A c \in Chunk : Finished(verdict[w]) # Ack(c)
    BY RespondsDiffer
  <2>6. AckedIsWritten'
    BY <2>2, <2>3, <2>5 DEF WrittenInv, AckedIsWritten, Acked
  <2> QED BY <2>2, <2>3, <2>4, <2>6 DEF WrittenInv
<1>22. ASSUME NEW w \in Worker, PutsFinish(w) PROVE WrittenInv'
  BY <1>22 DEF PutsFinish, Goto, Return, WrittenInv, AckedIsWritten, Acked, storeVars,
     wireVars
<1>23. ASSUME NEW w \in Worker, UseFreed(w) PROVE WrittenInv'
  BY <1>23 DEF UseFreed, Goto, WrittenInv, AckedIsWritten, Acked, storeVars, wireVars
<1> QED BY <1>1, <1>2, <1>3, <1>4, <1>5, <1>6, <1>7, <1>8, <1>9, <1>10, <1>11, <1>12,
           <1>13, <1>14, <1>15, <1>16, <1>17, <1>18, <1>19, <1>20, <1>21, <1>22, <1>23
           DEF ServerStep, Reactor, Pool, Puts, PutsData

LEMMA ClientStepWritten ==
  ASSUME TypeInv, WrittenInv, ClientStep, UNCHANGED serverVars
  PROVE  WrittenInv'
<1> USE DEF TypeInv, TypeOK, WireTypeOK, serverVars, storeVars
<1>1. ASSUME HandlePutsRespond PROVE WrittenInv'
  <2>1. Head(toClient) \in Respond /\ Carries(toClient, Head(toClient))
    BY <1>1, CarriesTail DEF HandlePutsRespond, Slot
  <2>2. \A m : Carries(toClient', m) => Carries(toClient, m)
    BY <1>1, CarriesTail DEF HandlePutsRespond, Slot
  <2>3. unacked' # unacked => Head(toClient) = Answer("PUT_QUICK")
    BY <1>1, <2>1, RespondCases DEF HandlePutsRespond
  <2>4. unacked' # unacked => \A c \in Chunk : data[c] # "hole"
    BY <2>1, <2>3 DEF WrittenInv
  <2>5. UNCHANGED <<pc, job, data, priorRow, serverUp>>
    OBVIOUS
  <2>6. AckedIsWritten'
    BY <2>2, <2>4, <2>5 DEF WrittenInv, AckedIsWritten, Acked
  <2> QED BY <2>2, <2>6 DEF WrittenInv
<1>2. ASSUME HandlePutsDataRespond PROVE WrittenInv'
  <2>1. Head(toClient) \in Respond /\ Carries(toClient, Head(toClient))
    BY <1>2, CarriesTail DEF HandlePutsDataRespond, Slot
  <2>2. \A m : Carries(toClient', m) => Carries(toClient, m)
    BY <1>2, CarriesTail DEF HandlePutsDataRespond, Slot
  <2>3. Head(toClient) = Ack(Head(toClient).chunk)
    BY <1>2, <2>1, RespondCases DEF HandlePutsDataRespond
  <2>4. Acked' \subseteq Acked
    BY <1>2, <2>1, <2>2, <2>3 DEF HandlePutsDataRespond, Acked
  <2>5. UNCHANGED <<pc, job, data, priorRow, serverUp>>
    OBVIOUS
  <2> QED BY <2>2, <2>4 DEF WrittenInv, AckedIsWritten
<1>3. ASSUME HandlePutsFinishRespond PROVE WrittenInv'
  BY <1>3, CarriesTail DEF HandlePutsFinishRespond, Slot, SendFile, Finish, Keep, Step,
     WrittenInv, AckedIsWritten, Acked
<1>4. ASSUME SendCancelRequest PROVE WrittenInv'
  BY <1>4 DEF SendCancelRequest, Finish, WrittenInv, AckedIsWritten, Acked, wireVars
<1>5. ASSUME HandleStopPBClicked PROVE WrittenInv'
  BY <1>5 DEF HandleStopPBClicked, Click, NotifyOne, Step, WrittenInv, AckedIsWritten,
     Acked, wireVars
<1>6. ASSUME HandleContinuePBClicked PROVE WrittenInv'
  BY <1>6 DEF HandleContinuePBClicked, Click, NotifyOne, Step, WrittenInv,
     AckedIsWritten, Acked, wireVars
<1>7. ASSUME HandleClosePBClicked PROVE WrittenInv'
  BY <1>7 DEF HandleClosePBClicked, Click, NotifyOne, Step, WrittenInv, AckedIsWritten,
     Acked, wireVars
<1>8. ASSUME NEW i \in Sender, Seek(i) PROVE WrittenInv'
  BY <1>8 DEF Seek, Coroutine, Step, WrittenInv, AckedIsWritten, Acked
<1>9. ASSUME NEW i \in Sender, Read(i) PROVE WrittenInv'
  BY <1>9 DEF Read, Coroutine, Step, WrittenInv, AckedIsWritten, Acked
<1>10. ASSUME NEW i \in Sender, Check(i) PROVE WrittenInv'
  BY <1>10 DEF Check, Coroutine, Step, WrittenInv, AckedIsWritten, Acked
<1>11. ASSUME NEW i \in Sender, FallAsleep(i) PROVE WrittenInv'
  BY <1>11 DEF FallAsleep, Coroutine, Step, WrittenInv, AckedIsWritten, Acked
<1>12. ASSUME NEW i \in Sender, SendChunk(i) PROVE WrittenInv'
  BY <1>12 DEF SendChunk, Coroutine, Step, WrittenInv, AckedIsWritten, Acked
<1> QED BY <1>1, <1>2, <1>3, <1>4, <1>5, <1>6, <1>7, <1>8, <1>9, <1>10, <1>11, <1>12 DEF
           ClientStep, UdTool, TProgress, SendFileData

-----------------------------------------------------------------------------
(* The inductive invariant *)

LEMMA IndInit == Init => IndInv
BY TypeInit, OrderInit, InsertInit, FileInit, AnswersInit, MapInit, WrittenInit DEF
   IndInv

\* The client touches nothing these speak of.
LEMMA ServerOnly ==
  ASSUME UNCHANGED serverVars
  PROVE  /\ InsertInv => InsertInv'
         /\ CountInv => CountInv'
         /\ FullInv => FullInv'
         /\ PriorInv => PriorInv'
         /\ FileInv => FileInv'
         /\ MapInv => MapInv'
<1> USE DEF serverVars, connVars, storeVars
<1>1. (InsertInv => InsertInv') /\ (CountInv => CountInv')
  BY DEF InsertInv, InsertOnce, Inserters, CountInv
<1>2. (FullInv => FullInv') /\ (PriorInv => PriorInv')
  BY DEF FullInv, PriorInv
<1>3. FileInv => FileInv'
  BY DEF FileInv, NoDataWaits
<1>4. MapInv => MapInv'
  BY DEF MapInv, MapThere, CrashOnlyAfterClose
<1> QED BY <1>1, <1>2, <1>3, <1>4

\* Of all variables the loss of the link changes only linkUp.
LEMMA LinkOnly ==
  ASSUME IndInv, UNCHANGED <<toServer, toClient, serverVars, clientVars>>
  PROVE  /\ OrderInv'
         /\ SuccessInv' /\ PhaseInv'
         /\ WrittenInv'
<1> USE DEF IndInv, serverVars, connVars, storeVars, clientVars, sendVars
<1>1. OrderInv'
  BY DEF OrderInv, Requested, Queued, Checking, Answered, Quiet, AllIdleBut
<1>2. SuccessInv' /\ PhaseInv'
  BY DEF SuccessInv, SuccessAnnounced, PhaseInv
<1>3. WrittenInv'
  BY DEF WrittenInv, AckedIsWritten, Acked
<1> QED BY <1>1, <1>2, <1>3

LEMMA IndStep == IndInv /\ [Next]_vars => IndInv'
<1> SUFFICES ASSUME IndInv, [Next]_vars PROVE IndInv'
  OBVIOUS
<1>1. TypeInv'
  BY TypeStep DEF IndInv
<1>2. ASSUME ServerStep, UNCHANGED clientVars PROVE IndInv'
  <2>1. OrderInv' /\ InsertInv' /\ CountInv' /\ FullInv' /\ PriorInv'
    BY <1>2, ServerStepOrder, ServerStepInsert, ServerStepCount, ServerStepFull,
       ServerStepPrior DEF IndInv
  <2>2. FileInv' /\ MapInv'
    BY <1>2, ServerStepFile, ServerStepMap DEF IndInv
  <2>3. SuccessInv' /\ WrittenInv'
    BY <1>2, ServerStepSuccess, ServerStepWritten DEF IndInv
  <2>4. PhaseInv'
    BY <1>2 DEF IndInv, PhaseInv, clientVars
  <2> QED BY <1>1, <2>1, <2>2, <2>3, <2>4 DEF IndInv
<1>3. ASSUME ClientStep, UNCHANGED serverVars PROVE IndInv'
  <2>1. OrderInv' /\ SuccessInv' /\ PhaseInv' /\ WrittenInv'
    BY <1>3, ClientStepOrder, ClientStepSuccess, ClientStepWritten DEF IndInv
  <2> QED BY <1>1, <1>3, <2>1, ServerOnly DEF IndInv
<1>4. ASSUME UNCHANGED <<toServer, toClient, serverVars, clientVars>> PROVE IndInv'
  BY <1>1, <1>4, ServerOnly, LinkOnly DEF IndInv
<1>5. ClientDies /\ UNCHANGED serverVars
        => UNCHANGED <<toServer, toClient, serverVars, clientVars>>
  BY DEF ClientDies
<1>6. UNCHANGED vars => UNCHANGED <<toServer, toClient, serverVars, clientVars>>
  BY DEF vars, wireVars
<1> QED BY <1>2, <1>3, <1>4, <1>5, <1>6 DEF Next

\* Every state that the system reaches satisfies the inductive invariant.
THEOREM Inductive == Spec => []IndInv
BY IndInit, IndStep, PTL DEF Spec

-----------------------------------------------------------------------------
(* What follows from it *)

\* At most one row is inserted, by at most one thread: compare-exchange in
\* recvFileData, one request per connection.
THEOREM OneInsertion == Spec => []InsertOnce
<1>1. IndInv => InsertOnce
  BY DEF IndInv, InsertInv
<1> QED BY <1>1, Inductive, PTL

\* lessEqualAddTaskHandleSize never counts more bytes than the file has, however
\* often the client sends a chunk.
THEOREM CountBounded == Spec => [](handled <= Total)
<1>1. IndInv => handled <= Total
  BY DEF IndInv, CountInv
<1> QED BY <1>1, Inductive, PTL

\* A chunk that is acknowledged has been copied into the file, or was there from
\* an earlier upload of the same file.
THEOREM AcksAreWrites == Spec => []AckedIsWritten
<1>1. IndInv => AckedIsWritten
  BY DEF IndInv, WrittenInv
<1> QED BY <1>1, Inductive, PTL

\* A successful PUTS_FINISH, in flight or read, means a row, all bytes counted
\* and the file on disk.
THEOREM SuccessIsStored == Spec => []SuccessMeansStored
<1>1. IndInv => SuccessMeansStored
  BY DEF IndInv, SuccessInv, FullInv, FileInv, SuccessMeansStored
<1> QED BY <1>1, Inductive, PTL

\* UpDownCon::close never removes the file of a recorded upload.
THEOREM RecordedFileStays == Spec => []RowHasFile
<1>1. IndInv => RowHasFile
  BY DEF IndInv, FileInv, RowHasFile
<1> QED BY <1>1, Inductive, PTL

\* No pool thread copies into a mapping that is not there, unless close() has
\* taken it away.
THEOREM OnlyCloseCrashes == Spec => []CrashOnlyAfterClose
<1>1. IndInv => CrashOnlyAfterClose
  BY DEF IndInv, MapInv
<1> QED BY <1>1, Inductive, PTL

-----------------------------------------------------------------------------
(* Steps *)

\* Two steps of the pool lead to FIN: a quick upload, and the compare-exchange.
LEMMA FinSteps ==
  ASSUME ServerStep, status # "FIN", status' = "FIN"
  PROVE  \E w \in Worker : \/ pc[w] = "status" /\ verdict[w] = "PUT_QUICK"
                           \/ pc[w] = "full" /\ status = "DOING"
<1> USE DEF connVars
<1>1. ~Reactor
  BY DEF Reactor, HandleClientData, CloseBegin, CloseRelease, CloseRemove
<1>2. PICK w \in Worker : Pool(w)
  BY <1>1 DEF ServerStep
<1>3. ~TakeTask(w) /\ ~PutsFinish(w) /\ ~UseFreed(w)
  BY DEF TakeTask, PutsFinish, UseFreed
<1>4. ASSUME Puts(w) PROVE pc[w] = "status" /\ verdict[w] = "PUT_QUICK"
  <2>1. /\ ~PutsStart(w) /\ ~PutsLookup(w) /\ ~PutsOpen(w) /\ ~PutsInit(w)
        /\ ~PutsHandled(w) /\ ~PutsReply(w) /\ ~PutsQuick(w) /\ ~PutsAgain(w)
    BY DEF PutsStart, PutsLookup, PutsOpen, PutsInit, PutsHandled, PutsReply, PutsQuick,
       PutsAgain
  <2>2. PutsStatus(w)
    BY <1>4, <2>1 DEF Puts
  <2> QED BY <2>2 DEF PutsStatus, Goto
<1>5. ASSUME PutsData(w) PROVE pc[w] = "full" /\ status = "DOING"
  <2>1. /\ ~DataStart(w) /\ ~DataCount(w) /\ ~DataCopy(w) /\ ~DataAck(w)
        /\ ~DataInsert(w) /\ ~DataFinished(w)
    BY DEF DataStart, DataCount, DataCopy, DataAck, DataInsert, DataFinished
  <2>2. DataFull(w)
    BY <1>5, <2>1 DEF PutsData
  <2>3. status = "DOING"
    BY <2>2 DEF DataFull, WinsFinish
  <2>4. pc[w] = "full"
    BY <2>2 DEF DataFull, Goto
  <2> QED BY <2>3, <2>4
<1> QED BY <1>2, <1>3, <1>4, <1>5 DEF Pool

\* After close() has begun no transfer is finished, whatever step the threads
\* of the pool and the request's own stores to the status are at.
THEOREM ClosedIsFinal == Spec => ClosedStaysUnfinished
<1>1. ASSUME IndInv, [Next]_vars
      PROVE  [NoLateFinish]_vars
  <2> SUFFICES ASSUME closing # "open", ~priorRow, status # "FIN", status' = "FIN"
               PROVE  FALSE
    BY DEF NoLateFinish
  <2>1. ServerStep
    BY <1>1 DEF Next, vars, serverVars, connVars
  <2>2. PICK w \in Worker : \/ pc[w] = "status" /\ verdict[w] = "PUT_QUICK"
                            \/ pc[w] = "full" /\ status = "DOING"
    BY <2>1, FinSteps
  <2>3. CASE pc[w] = "status" /\ verdict[w] = "PUT_QUICK"
    BY <1>1, <2>3 DEF IndInv, PriorInv
  <2>4. CASE pc[w] = "full" /\ status = "DOING"
    BY <1>1, <2>4 DEF IndInv, FileInv, NoDataWaits, DataSteps
  <2> QED BY <2>2, <2>3, <2>4
<1> QED BY <1>1, Inductive, PTL DEF Spec, ClosedStaysUnfinished

-----------------------------------------------------------------------------
(* Refinement: the upload keeps UploadPromise *)

\* The server records, and records once.
LEMMA ServerRecords ==
  ASSUME IndInv, IndInv', ServerStep
  PROVE  rows' = rows \/ (rows = 0 /\ rows' = 1)
<1> USE DEF storeVars
<1>1. rows' = rows \/ rows' = rows + 1
  <2>1. Reactor => rows' = rows
    BY DEF Reactor, HandleClientData, CloseBegin, CloseRelease, CloseRemove
  <2>2. ASSUME NEW w \in Worker, TakeTask(w) \/ PutsFinish(w) \/ UseFreed(w)
        PROVE  rows' = rows
    BY <2>2 DEF TakeTask, PutsFinish, UseFreed
  <2>3. ASSUME NEW w \in Worker, Puts(w) PROVE rows' = rows \/ rows' = rows + 1
    BY <2>3 DEF Puts, PutsStart, PutsLookup, PutsOpen, PutsInit, PutsHandled,
       PutsStatus, PutsReply, PutsQuick, PutsAgain, Insert
  <2>4. ASSUME NEW w \in Worker, PutsData(w) PROVE rows' = rows \/ rows' = rows + 1
    BY <2>4 DEF PutsData, DataStart, DataCount, DataCopy, DataAck, DataFull, DataInsert,
       DataFinished, Insert
  <2> QED BY <2>1, <2>2, <2>3, <2>4 DEF ServerStep, Pool
<1>2. rows \in Nat /\ rows' \in Nat /\ rows' <= 1
  BY DEF IndInv, TypeInv, TypeOK, ServerTypeOK, InsertInv, InsertOnce
<1> QED BY <1>1, <1>2

\* The client tells the user once, while the worker is active.
LEMMA ClientTells ==
  ASSUME ClientStep
  PROVE  \/ told' = told
         \/ phase = "active" /\ told' \in {"success", "failed", "cancelled"}
<1>1. UdTool => \/ told' = told
                \/ phase = "active" /\ told' \in {"success", "failed", "cancelled"}
  BY DEF UdTool, HandlePutsRespond, HandlePutsDataRespond, HandlePutsFinishRespond,
     SendCancelRequest, Slot, Finish, Keep
<1>2. TProgress => told' = told
  BY DEF TProgress, HandleStopPBClicked, HandleContinuePBClicked, HandleClosePBClicked,
     Click
<1>3. ASSUME NEW i \in Sender, SendFileData(i) PROVE told' = told
  BY <1>3 DEF SendFileData, Seek, Read, Check, FallAsleep, SendChunk, Coroutine
<1> QED BY <1>1, <1>2, <1>3 DEF ClientStep

\* An upload, with its connection, threads and chunks, records the file at most
\* once, tells the user one outcome, and a success only for a recorded file.
THEOREM UploadImplementsPromise == Spec => PromiseKept
<1> USE DEF Promise!promiseVars
<1>1. Init => Promise!Init
  BY DEF Init, ServerInit, ClientInit, Promise!Init
<1>2. ASSUME IndInv, IndInv', [Next]_vars
      PROVE  [Promise!Next]_(Promise!promiseVars)
  <2>1. ASSUME ServerStep, UNCHANGED clientVars PROVE [Promise!Next]_(Promise!promiseVars)
    <3>1. rows' = rows \/ (rows = 0 /\ rows' = 1)
      BY <1>2, <2>1, ServerRecords
    <3>2. told' = told
      BY <2>1 DEF clientVars
    <3> QED BY <3>1, <3>2 DEF Promise!Next, Promise!Record
  <2>2. ASSUME ClientStep, UNCHANGED serverVars PROVE [Promise!Next]_(Promise!promiseVars)
    <3>1. rows' = rows
      BY <2>2 DEF serverVars, storeVars
    <3>2. CASE told' = told
      BY <3>1, <3>2
    <3>3. CASE phase = "active" /\ told' \in {"success", "failed", "cancelled"}
      <4>1. told = "nothing"
        BY <1>2, <3>3 DEF IndInv, PhaseInv
      <4>2. told' = "success" => rows = 1
        BY <1>2, <3>1 DEF IndInv, SuccessInv, SuccessAnnounced
      <4> QED BY <3>1, <3>3, <4>1, <4>2 DEF Promise!Next, Promise!Tell
    <3> QED BY <2>2, <3>2, <3>3, ClientTells
  <2>3. ASSUME (ClientDies /\ UNCHANGED serverVars) \/ UNCHANGED vars
        PROVE  [Promise!Next]_(Promise!promiseVars)
    BY <2>3 DEF ClientDies, vars, serverVars, storeVars, clientVars
  <2> QED BY <1>2, <2>1, <2>2, <2>3 DEF Next
<1> QED BY <1>1, <1>2, Inductive, PTL DEF Spec, PromiseKept, Promise!Spec
-----------------------------------------------------------------------------
(* The bytes *)

LEMMA WeightTypes ==
  /\ \A c \in Chunk : Weight(Ack(c)) = SizeOf(c)
  /\ \A s : Weight(Answer(s)) = IF s = "PUT_QUICK" THEN Total ELSE 0
  /\ \A s : Weight(Finished(s)) = 0
  /\ \A r \in Respond : Weight(r) \in Nat
<1>1. \A c \in Chunk : Weight(Ack(c)) = SizeOf(c)
  <2>1. ASSUME NEW c PROVE Ack(c).code = "PUTS_DATA" /\ Ack(c).chunk = c
    BY DEF Ack
  <2> QED BY <2>1, RespondsDiffer DEF Weight
<1>2. \A s : Weight(Answer(s)) = IF s = "PUT_QUICK" THEN Total ELSE 0
  <2>1. ASSUME NEW s PROVE Answer(s).code # "PUTS_DATA"
    BY DEF Answer
  <2> QED BY <2>1, RespondsDiffer DEF Weight
<1>3. \A s : Weight(Finished(s)) = 0
  <2>1. ASSUME NEW s PROVE Finished(s).code # "PUTS_DATA"
    BY DEF Finished
  <2> QED BY <2>1, RespondsDiffer DEF Weight
<1>4. ASSUME NEW r \in Respond PROVE Weight(r) \in Nat
  <2>1. CASE \E c \in Chunk : r = Ack(c)
    BY <2>1, <1>1, SizeTypes
  <2>2. CASE \E s \in PutsStatuses : r = Answer(s)
    BY <2>2, <1>2, SizeTypes
  <2>3. CASE \E s : r = Finished(s)
    BY <2>3, <1>3
  <2> QED BY <2>1, <2>2, <2>3 DEF Respond
<1> QED BY <1>1, <1>2, <1>3, <1>4

\* An empty stream brings nothing.
LEMMA BringsNothing ==
  ASSUME NEW a \in Nat
  PROVE  Brings(<<>>, a, a)
<1> DEFINE f == [n \in 0..0 |-> a]
<1>1. Len(<<>>) = 0
  OBVIOUS
<1>2. f \in [0..0 -> Nat] /\ f[0] = a
  OBVIOUS
<1> HIDE DEF f
<1> QED BY <1>1, <1>2 DEF Brings

\* One more answer brings its weight.
LEMMA BringsMore ==
  ASSUME NEW s \in Seq(Respond), NEW r \in Respond, NEW a \in Nat, NEW b \in Nat,
         Brings(s, a, b)
  PROVE  Brings(Append(s, r), a, b + Weight(r))
<1>1. PICK f \in [0..Len(s) -> Nat] :
        /\ f[0] = a /\ f[Len(s)] = b
        /\ \A n \in 1..Len(s) : f[n] = f[n - 1] + Weight(s[n])
        /\ \A n \in 0..Len(s) : f[n] <= b
  BY DEF Brings
<1>2. Len(s) \in Nat /\ Weight(r) \in Nat
  BY WeightTypes
<1>3. /\ Len(Append(s, r)) = Len(s) + 1
      /\ Append(s, r)[Len(s) + 1] = r
      /\ \A n \in 1..Len(s) : Append(s, r)[n] = s[n]
  OBVIOUS
<1> DEFINE t == Append(s, r)
<1> DEFINE k == Len(s)
<1> DEFINE g == [n \in 0..(k + 1) |-> IF n = k + 1 THEN b + Weight(r) ELSE f[n]]
<1>4. \A n \in 0..k : f[n] \in Nat
  OBVIOUS
<1>5. g \in [0..(k + 1) -> Nat]
  <2>1. ASSUME NEW n \in 0..(k + 1) PROVE g[n] \in Nat
    <3>1. n = k + 1 \/ n \in 0..k
      BY <1>2
    <3> QED BY <3>1, <1>2, <1>4
  <2> QED BY <2>1
<1>6. g[k + 1] = b + Weight(r) /\ \A n \in 0..k : g[n] = f[n]
  BY <1>2
<1> HIDE DEF g
<1>7. g[0] = a
  BY <1>1, <1>2, <1>6
<1>8. ASSUME NEW n \in 1..(k + 1) PROVE g[n] = g[n - 1] + Weight(t[n])
  <2>1. CASE n = k + 1
    <3>1. k \in 0..k /\ n - 1 = k
      BY <2>1, <1>2
    <3>2. g[n - 1] = b
      BY <3>1, <1>1, <1>6
    <3>3. t[n] = r /\ g[n] = b + Weight(r)
      BY <2>1, <1>3, <1>6
    <3> QED BY <3>2, <3>3
  <2>2. CASE n \in 1..k
    <3>1. n \in 0..k /\ n - 1 \in 0..k
      BY <2>2, <1>2
    <3>2. g[n] = f[n] /\ g[n - 1] = f[n - 1]
      BY <3>1, <1>6
    <3> QED BY <3>2, <2>2, <1>1, <1>3
  <2> QED BY <2>1, <2>2, <1>2
<1>9. ASSUME NEW n \in 0..(k + 1) PROVE g[n] <= b + Weight(r)
  <2>1. CASE n = k + 1
    <3>1. g[n] = b + Weight(r)
      BY <2>1, <1>6
    <3>2. b + Weight(r) \in Nat
      BY <1>2
    <3> QED BY <3>1, <3>2
  <2>2. CASE n \in 0..k
    <3>1. g[n] = f[n] /\ f[n] <= b /\ f[n] \in Nat
      BY <2>2, <1>1, <1>4, <1>6
    <3> QED BY <3>1, <1>2
  <2> QED BY <2>1, <2>2, <1>2
<1>10. Len(t) = k + 1
  BY <1>3
<1> HIDE DEF t, k
<1> QED
  <2>1. Brings(t, a, b + Weight(r))
    BY <1>5, <1>6, <1>7, <1>8, <1>9, <1>10 DEF Brings
  <2> QED BY <2>1 DEF t

\* The first answer taken, its weight is in the count already.
LEMMA BringsLess ==
  ASSUME NEW s \in Seq(Respond), s # <<>>, NEW a \in Nat, NEW b \in Nat, Brings(s, a, b)
  PROVE  /\ a + Weight(Head(s)) <= b
         /\ Brings(Tail(s), a + Weight(Head(s)), b)
<1>1. PICK f \in [0..Len(s) -> Nat] :
        /\ f[0] = a /\ f[Len(s)] = b
        /\ \A n \in 1..Len(s) : f[n] = f[n - 1] + Weight(s[n])
        /\ \A n \in 0..Len(s) : f[n] <= b
  BY DEF Brings
<1>2. /\ Len(s) \in Nat \ {0} /\ Head(s) = s[1]
      /\ Len(Tail(s)) = Len(s) - 1
      /\ \A n \in 1..(Len(s) - 1) : Tail(s)[n] = s[n + 1]
  OBVIOUS
<1> DEFINE t == Tail(s)
<1> DEFINE k == Len(s) - 1
<1> DEFINE g == [n \in 0..k |-> f[n + 1]]
<1>3. k \in Nat /\ Len(s) = k + 1
  BY <1>2
<1>4. \A n \in 0..k : n + 1 \in 0..Len(s) /\ n + 1 \in 1..Len(s)
  BY <1>3
<1>5. g \in [0..k -> Nat]
  BY <1>4
<1>6. \A n \in 0..k : g[n] = f[n + 1]
  OBVIOUS
<1> HIDE DEF g
<1>7. f[1] = a + Weight(Head(s))
  <2>1. 1 \in 1..Len(s) /\ 1 - 1 = 0
    BY <1>2
  <2> QED BY <2>1, <1>1, <1>2
<1>8. a + Weight(Head(s)) <= b
  <2>1. 1 \in 0..Len(s)
    BY <1>2
  <2> QED BY <2>1, <1>1, <1>7
<1>9. g[0] = a + Weight(Head(s)) /\ g[k] = b
  <2>1. 0 \in 0..k /\ k \in 0..k /\ 0 + 1 = 1 /\ k + 1 = Len(s)
    BY <1>3
  <2>2. g[0] = f[0 + 1] /\ g[k] = f[k + 1]
    BY <2>1, <1>6
  <2> QED BY <2>1, <2>2, <1>1, <1>7
<1>10. ASSUME NEW n \in 1..k PROVE g[n] = g[n - 1] + Weight(t[n])
  <2>1. n \in 0..k /\ n - 1 \in 0..k /\ (n - 1) + 1 = n /\ (n + 1) - 1 = n
    BY <1>3
  <2>2. g[n] = f[n + 1] /\ g[n - 1] = f[n]
    BY <2>1, <1>6
  <2>3. f[n + 1] = f[n] + Weight(s[n + 1])
    BY <2>1, <1>1, <1>4
  <2> QED BY <2>2, <2>3, <1>2
<1>11. \A n \in 0..k : g[n] <= b
  BY <1>1, <1>4, <1>6
<1>12. Len(t) = k
  BY <1>2
<1> HIDE DEF t, k
<1>13. Brings(t, a + Weight(Head(s)), b)
  BY <1>5, <1>9, <1>10, <1>11, <1>12 DEF Brings
<1> QED BY <1>8, <1>13 DEF t

\* A stream never takes from the count.
LEMMA BringsUp ==
  ASSUME NEW s \in Seq(Respond), NEW a, NEW b, Brings(s, a, b)
  PROVE  a <= b
<1>1. 0 \in 0..Len(s)
  OBVIOUS
<1> QED BY <1>1 DEF Brings

\* One more full chunk, or the last one, is so many more bytes.
LEMMA BytesMore ==
  ASSUME NEW F, IsFiniteSet(F), NEW L, IsFiniteSet(L), NEW w
  PROVE  /\ Bytes(F, L) \in Nat
         /\ w \notin F => Bytes(F \cup {w}, L) = Bytes(F, L) + ChunkSize
         /\ w \notin L => Bytes(F, L \cup {w}) = Bytes(F, L) + LastSize
<1>1. Cardinality(F) \in Nat /\ Cardinality(L) \in Nat
  BY FS_CardinalityType
<1>2. \A m, n \in Nat :
        /\ ChunkSize * m + LastSize * n \in Nat
        /\ ChunkSize * (m + 1) + LastSize * n = ChunkSize * m + LastSize * n + ChunkSize
        /\ ChunkSize * m + LastSize * (n + 1) = ChunkSize * m + LastSize * n + LastSize
  <2> SUFFICES ASSUME NEW m \in Nat, NEW n \in Nat
               PROVE  /\ ChunkSize * m + LastSize * n \in Nat
                      /\ ChunkSize * (m + 1) + LastSize * n
                           = ChunkSize * m + LastSize * n + ChunkSize
                      /\ ChunkSize * m + LastSize * (n + 1)
                           = ChunkSize * m + LastSize * n + LastSize
    OBVIOUS
  <2>1. ChunkSize * m \in Nat /\ LastSize * n \in Nat
    BY ChunkAssumption
  <2>2. ChunkSize * (m + 1) = ChunkSize * m + ChunkSize
    BY ChunkAssumption
  <2>3. LastSize * (n + 1) = LastSize * n + LastSize
    BY ChunkAssumption
  <2> QED BY <2>1, <2>2, <2>3, ChunkAssumption
<1>3. w \notin F => Cardinality(F \cup {w}) = Cardinality(F) + 1
  BY FS_AddElement
<1>4. w \notin L => Cardinality(L \cup {w}) = Cardinality(L) + 1
  BY FS_AddElement
<1>5. Bytes(F, L) \in Nat
  BY <1>1, <1>2 DEF Bytes
<1>6. ASSUME w \notin F PROVE Bytes(F \cup {w}, L) = Bytes(F, L) + ChunkSize
  <2>1. Bytes(F \cup {w}, L) = ChunkSize * (Cardinality(F) + 1) + LastSize * Cardinality(L)
    BY <1>3, <1>6 DEF Bytes
  <2> QED BY <2>1, <1>1, <1>2 DEF Bytes
<1>7. ASSUME w \notin L PROVE Bytes(F, L \cup {w}) = Bytes(F, L) + LastSize
  <2>1. Bytes(F, L \cup {w}) = ChunkSize * Cardinality(F) + LastSize * (Cardinality(L) + 1)
    BY <1>4, <1>7 DEF Bytes
  <2> QED BY <2>1, <1>1, <1>2 DEF Bytes
<1> QED BY <1>5, <1>6, <1>7

\* The bytes owed are a number.
LEMMA OwedTypes ==
  ASSUME IsFiniteSet(Counted(Chunk))
  PROVE  /\ IsFiniteSet(Counted(Chunk \ {LastChunk})) /\ IsFiniteSet(Counted({LastChunk}))
         /\ Owed \in Nat
<1>1. IsFiniteSet(Counted(Chunk \ {LastChunk})) /\ IsFiniteSet(Counted({LastChunk}))
  <2>1. Counted(Chunk \ {LastChunk}) \in SUBSET Counted(Chunk)
    BY DEF Counted
  <2>2. Counted({LastChunk}) \in SUBSET Counted(Chunk)
    BY SizeTypes DEF Counted
  <2> QED BY <2>1, <2>2, FS_Subset
<1> QED BY <1>1, BytesMore DEF Owed

\* Nobody owes anything while nobody holds a chunk.
LEMMA NothingOwed ==
  ASSUME \A w \in Worker : pc[w] \notin {"copy", "ack"}
  PROVE  Owed = 0
<1>1. \A chunks : Counted(chunks) = {}
  BY DEF Counted
<1>2. ChunkSize * 0 + LastSize * 0 = 0
  BY ChunkAssumption
<1> QED BY <1>1, <1>2, FS_EmptySet DEF Owed, Bytes

\* Threads that only change their step for one of the same kind owe the same.
LEMMA OwedSame ==
  ASSUME \A w \in Worker :
           /\ pc'[w] \in {"copy", "ack"} <=> pc[w] \in {"copy", "ack"}
           /\ pc[w] \in {"copy", "ack"} => job'[w] = job[w]
  PROVE  (\A chunks : Counted(chunks)' = Counted(chunks)) /\ Owed' = Owed
<1>1. \A chunks : Counted(chunks)' = Counted(chunks)
  BY DEF Counted
<1> QED BY <1>1 DEF Owed

\* A thread that counts a chunk owes its bytes.
LEMMA OwedMore ==
  ASSUME NEW w \in Worker, IsFiniteSet(Counted(Chunk)), job[w].chunk \in Chunk,
         pc \in [Worker -> Steps], pc[w] \notin {"copy", "ack"},
         pc' = [pc EXCEPT ![w] = "copy"], job' = job
  PROVE  IsFiniteSet(Counted(Chunk)') /\ Owed' = Owed + SizeOf(job[w].chunk)
<1> DEFINE fulls == Counted(Chunk \ {LastChunk})
<1> DEFINE lasts == Counted({LastChunk})
<1>1. ASSUME NEW chunks PROVE
        /\ w \notin Counted(chunks)
        /\ job[w].chunk \in chunks => Counted(chunks)' = Counted(chunks) \cup {w}
        /\ job[w].chunk \notin chunks => Counted(chunks)' = Counted(chunks)
  BY DEF Counted
<1>2. IsFiniteSet(Counted(Chunk)')
  BY <1>1, FS_AddElement
<1>3. IsFiniteSet(fulls) /\ IsFiniteSet(lasts)
  BY OwedTypes
<1>4. w \notin fulls /\ w \notin lasts
  BY <1>1
<1>5. Owed = Bytes(fulls, lasts)
  BY DEF Owed
<1>6. CASE job[w].chunk = LastChunk
  <2>1. Counted(Chunk \ {LastChunk})' = fulls /\ Counted({LastChunk})' = lasts \cup {w}
    BY <1>1, <1>6
  <2>2. Owed' = Bytes(fulls, lasts \cup {w})
    BY <2>1 DEF Owed, Bytes
  <2>3. Owed' = Owed + LastSize
    BY <1>3, <1>4, <1>5, <2>2, BytesMore
  <2> QED BY <1>2, <1>6, <2>3 DEF SizeOf
<1>7. CASE job[w].chunk # LastChunk
  <2>1. Counted(Chunk \ {LastChunk})' = fulls \cup {w} /\ Counted({LastChunk})' = lasts
    BY <1>1, <1>7
  <2>2. Owed' = Bytes(fulls \cup {w}, lasts)
    BY <2>1 DEF Owed, Bytes
  <2>3. Owed' = Owed + ChunkSize
    BY <1>3, <1>4, <1>5, <2>2, BytesMore
  <2> QED BY <1>2, <1>7, <2>3 DEF SizeOf
<1> QED BY <1>6, <1>7

\* A thread that answers owes them no more.
LEMMA OwedLess ==
  ASSUME NEW w \in Worker, IsFiniteSet(Counted(Chunk)), job[w].chunk \in Chunk,
         pc \in [Worker -> Steps], pc[w] = "ack",
         pc' = [pc EXCEPT ![w] = "full"], job' = job
  PROVE  IsFiniteSet(Counted(Chunk)') /\ Owed = Owed' + SizeOf(job[w].chunk) /\ Owed' \in Nat
<1> DEFINE fulls == Counted(Chunk \ {LastChunk})
<1> DEFINE lasts == Counted({LastChunk})
<1>1. ASSUME NEW chunks PROVE
        /\ w \notin Counted(chunks)'
        /\ Counted(chunks)' \subseteq Counted(chunks)
        /\ job[w].chunk \in chunks => Counted(chunks) = Counted(chunks)' \cup {w}
        /\ job[w].chunk \notin chunks => Counted(chunks) = Counted(chunks)'
  BY DEF Counted
<1>2. IsFiniteSet(Counted(Chunk)')
  BY <1>1, FS_Subset
<1>3. IsFiniteSet(fulls) /\ IsFiniteSet(lasts)
  BY OwedTypes
<1>4. IsFiniteSet(fulls') /\ IsFiniteSet(lasts')
  <2>1. fulls' \in SUBSET fulls /\ lasts' \in SUBSET lasts
    BY <1>1
  <2> QED BY <1>3, <2>1, FS_Subset
<1>5. w \notin fulls' /\ w \notin lasts'
  BY <1>1
<1>6. Owed' = Bytes(fulls', lasts') /\ Owed' \in Nat
  <2>1. Owed' = Bytes(fulls', lasts')
    BY DEF Owed, Bytes
  <2> QED BY <2>1, <1>4, BytesMore
<1>7. CASE job[w].chunk = LastChunk
  <2>1. Owed = Bytes(fulls', lasts' \cup {w})
    BY <1>1, <1>7 DEF Owed, Bytes
  <2> QED BY <1>2, <1>4, <1>5, <1>6, <1>7, <2>1, BytesMore DEF SizeOf
<1>8. CASE job[w].chunk # LastChunk
  <2>1. Owed = Bytes(fulls' \cup {w}, lasts')
    BY <1>1, <1>8 DEF Owed, Bytes
  <2> QED BY <1>2, <1>4, <1>5, <1>6, <1>8, <2>1, BytesMore DEF SizeOf
<1> QED BY <1>7, <1>8

LEMMA BytesInit == Init => BytesInv
<1> SUFFICES ASSUME Init PROVE BytesInv
  OBVIOUS
<1> USE DEF Init, ServerInit, ClientInit
<1>1. \A w \in Worker : pc[w] \notin {"copy", "ack"}
  OBVIOUS
<1>2. Owed = 0 /\ Counted(Chunk) = {}
  BY <1>1, NothingOwed DEF Counted
<1>3. Brings(toClient, sended, 0)
  BY BringsNothing
<1>4. 0 \in Nat /\ 0 + Owed <= handled
  BY <1>2
<1> QED BY <1>2, <1>3, <1>4, FS_EmptySet DEF BytesInv

\* An answer that says nothing of bytes, or none at all.
LEMMA BytesKept ==
  ASSUME BytesInv, toClient \in Seq(Respond), UNCHANGED <<unacked, sended, handled>>,
         Owed' = Owed, Counted(Chunk)' = Counted(Chunk),
         \/ toClient' = toClient
         \/ \E r \in Respond : Weight(r) = 0 /\ toClient' = Append(toClient, r)
  PROVE  BytesInv'
<1> USE DEF BytesInv
<1>1. PICK due \in Nat : Brings(toClient, sended, due) /\ due + Owed <= handled
  OBVIOUS
<1>2. sended \in Nat
  BY <1>1 DEF Brings
<1>3. Brings(toClient', sended, due)
  <2>1. CASE toClient' = toClient
    BY <2>1, <1>1
  <2>2. ASSUME NEW r \in Respond, Weight(r) = 0, toClient' = Append(toClient, r)
        PROVE  Brings(toClient', sended, due)
    <3>1. Brings(Append(toClient, r), sended, due + Weight(r))
      BY <1>1, <1>2, BringsMore
    <3> QED BY <3>1, <2>2
  <2> QED BY <2>1, <2>2
<1>4. Brings(toClient, sended, due)' <=> Brings(toClient', sended, due)
  BY DEF Brings
<1> QED BY <1>1, <1>3, <1>4

\* A thread whose step and next step have nothing to do with a chunk counted.
LEMMA OwedAside ==
  ASSUME NEW w \in Worker, NEW to, NEW x,
         pc \in [Worker -> Steps], job \in [Worker -> Pdu \cup {NoJob}],
         pc[w] \notin {"copy", "ack"}, to \notin {"copy", "ack"},
         pc' = [pc EXCEPT ![w] = to], job' = job \/ job' = [job EXCEPT ![w] = x]
  PROVE  Owed' = Owed /\ Counted(Chunk)' = Counted(Chunk)
<1>1. \A v \in Worker : /\ pc'[v] \in {"copy", "ack"} <=> pc[v] \in {"copy", "ack"}
                        /\ pc[v] \in {"copy", "ack"} => job'[v] = job[v]
  OBVIOUS
<1> QED BY <1>1, OwedSame

LEMMA ServerStepBytes ==
  ASSUME IndInv, BytesInv, ServerStep, UNCHANGED clientVars
  PROVE  BytesInv'
<1> USE DEF connVars
<1>1. /\ pc \in [Worker -> Steps] /\ job \in [Worker -> Pdu \cup {NoJob}]
      /\ toClient \in Seq(Respond) /\ UNCHANGED <<unacked, sended>>
      /\ handled \in Nat /\ sended \in Nat
  BY DEF IndInv, TypeInv, TypeOK, ServerTypeOK, WireTypeOK, ClientTypeOK, clientVars
\* A step that neither sends nor counts.
<1>2. ASSUME UNCHANGED <<toClient, handled>>,
             Owed' = Owed /\ Counted(Chunk)' = Counted(Chunk)
      PROVE  BytesInv'
  BY <1>1, <1>2, BytesKept
<1>3. ASSUME UNCHANGED <<toClient, handled>>, NEW w \in Worker, NEW to, NEW x,
             pc[w] \notin {"copy", "ack"}, to \notin {"copy", "ack"},
             pc' = [pc EXCEPT ![w] = to], job' = job \/ job' = [job EXCEPT ![w] = x]
      PROVE  BytesInv'
  <2>1. Owed' = Owed /\ Counted(Chunk)' = Counted(Chunk)
    BY <1>1, <1>3, OwedAside
  <2> QED BY <1>2, <1>3, <2>1
\* A step that leaves the threads where they are.
<1>4. ASSUME UNCHANGED <<toClient, handled, pc, job>> PROVE BytesInv'
  <2>1. Owed' = Owed /\ Counted(Chunk)' = Counted(Chunk)
    BY <1>4, OwedSame
  <2> QED BY <1>2, <1>4, <2>1
\* A step that sends an answer without bytes.
<1>5. ASSUME UNCHANGED handled, NEW w \in Worker, NEW to, NEW x, NEW r \in Respond,
             Weight(r) = 0, Send(r), pc[w] \notin {"copy", "ack"}, to \notin {"copy", "ack"},
             pc' = [pc EXCEPT ![w] = to], job' = job \/ job' = [job EXCEPT ![w] = x]
      PROVE  BytesInv'
  <2>1. Owed' = Owed /\ Counted(Chunk)' = Counted(Chunk)
    BY <1>1, <1>5, OwedAside
  <2>2. toClient' = toClient \/ toClient' = Append(toClient, r)
    BY <1>5 DEF Send
  <2> QED BY <1>1, <1>5, <2>1, <2>2, BytesKept
<1>6. ASSUME Reactor PROVE BytesInv'
  BY <1>4, <1>6 DEF Reactor, HandleClientData, CloseBegin, CloseRelease, CloseRemove,
     wireVars
<1>7. ASSUME NEW w \in Worker, TakeTask(w) PROVE BytesInv'
  <2>1. queue \in Seq(Pdu) /\ queue # <<>>
    BY <1>7 DEF TakeTask, IndInv, TypeInv, TypeOK, ServerTypeOK
  <2>2. Head(queue) \in Pdu
    BY <2>1, CarriesTail
  <2>3. ToolOf(Head(queue)) \in {"puts", "data", "finish"}
    BY <2>2, PduCases DEF ToolOf
  <2>4. /\ pc[w] = "idle" /\ UNCHANGED <<toClient, handled>>
        /\ pc' = [pc EXCEPT ![w] = ToolOf(Head(queue))]
        /\ job' = [job EXCEPT ![w] = Head(queue)]
    BY <1>7 DEF TakeTask, Goto, wireVars
  <2> QED BY <1>3, <2>3, <2>4
<1>8. ASSUME NEW w \in Worker,
             \/ PutsStart(w) \/ PutsLookup(w) \/ PutsOpen(w) \/ PutsInit(w) \/ PutsStatus(w)
             \/ PutsQuick(w) \/ DataStart(w) \/ DataFull(w) \/ DataInsert(w) \/ PutsFinish(w)
      PROVE  BytesInv'
  <2>1. UNCHANGED <<toClient, handled>>
    BY <1>8 DEF PutsStart, PutsLookup, PutsOpen, PutsInit, PutsStatus, PutsQuick,
       DataStart, DataFull, DataInsert, PutsFinish, wireVars
  <2>2. pc[w] \notin {"copy", "ack"}
    BY <1>8 DEF PutsStart, PutsLookup, PutsOpen, PutsInit, PutsStatus, PutsQuick,
       DataStart, DataFull, DataInsert, PutsFinish, Goto, Return
  <2>3. /\ \E to \in Steps \ {"copy", "ack"} : pc' = [pc EXCEPT ![w] = to]
        /\ job' = job \/ job' = [job EXCEPT ![w] = NoJob]
    <3> USE DEF Goto, Return, Steps, PutsSteps, DataSteps
    <3>1. CASE PutsStart(w) \/ PutsLookup(w) \/ PutsOpen(w)
      BY <3>1 DEF PutsStart, PutsLookup, PutsOpen
    <3>2. CASE PutsInit(w) \/ PutsStatus(w) \/ PutsQuick(w)
      BY <3>2 DEF PutsInit, PutsStatus, PutsQuick
    <3>3. CASE DataStart(w) \/ DataFull(w) \/ DataInsert(w) \/ PutsFinish(w)
      BY <3>3 DEF DataStart, DataFull, DataInsert, PutsFinish
    <3> QED BY <1>8, <3>1, <3>2, <3>3
  <2> QED BY <1>3, <2>1, <2>2, <2>3
<1>9. ASSUME NEW w \in Worker, PutsHandled(w) \/ PutsReply(w) PROVE BytesInv'
  <2>1. pc[w] \in Unanswered
    BY <1>9 DEF PutsHandled, PutsReply, Goto, Unanswered
  <2>2. Quiet /\ AllIdleBut(w)
    BY <2>1, AskerAlone DEF IndInv
  <2>3. \A v \in Worker : pc[v] \notin {"copy", "ack"} /\ pc'[v] \notin {"copy", "ack"}
    BY <1>1, <1>9, <2>1, <2>2 DEF PutsHandled, PutsReply, Goto, AllIdleBut, Unanswered
  <2>4. Owed' = 0 /\ Counted(Chunk)' = {}
    <3>1. Counted(Chunk)' = {} /\ Counted(Chunk \ {LastChunk})' = {} /\ Counted({LastChunk})' = {}
      BY <2>3 DEF Counted
    <3>2. ChunkSize * 0 + LastSize * 0 = 0
      BY ChunkAssumption
    <3> QED BY <3>1, <3>2, FS_EmptySet DEF Owed, Bytes
  <2>5. toClient = <<>> /\ sended = 0 /\ sended' = 0
    BY <1>1, <2>2 DEF Quiet, BytesInv
  <2>6. PICK due \in Nat : Brings(toClient', 0, due) /\ due <= handled'
    <3>1. Brings(<<>>, 0, 0)
      BY BringsNothing
    <3>2. CASE toClient' = toClient
      <4>1. handled' \in Nat
        BY <1>1, <1>9, SizeTypes DEF PutsHandled, PutsReply
      <4> QED BY <2>5, <3>1, <3>2, <4>1
    <3>3. CASE PutsReply(w) /\ toClient' = Append(toClient, Answer(verdict[w]))
      <4>1. Answer(verdict[w]) \in Respond
        BY <3>3, SentTypes DEF PutsReply, Goto, IndInv
      <4>2. Brings(toClient', 0, 0 + Weight(Answer(verdict[w])))
        BY <2>5, <3>1, <3>3, <4>1, <1>1, BringsMore
      <4>3. Weight(Answer(verdict[w])) \in Nat
        BY <4>1, WeightTypes
      <4>4. Weight(Answer(verdict[w])) <= handled /\ handled' = handled
        BY <1>1, <3>3, WeightTypes, SizeTypes DEF PutsReply, Goto, IndInv, FullInv
      <4> QED BY <4>2, <4>3, <4>4
    <3> QED BY <1>9, <3>2, <3>3 DEF PutsHandled, PutsReply, Send, wireVars
  <2>7. unacked' = unacked
    BY <1>1
  <2>8. IsFiniteSet(Counted(Chunk)') /\ due + Owed' <= handled'
    BY <2>4, <2>6, FS_EmptySet
  <2>9. Brings(toClient', sended', due)
    BY <2>5, <2>6
  <2>10. unacked' = Chunk => sended' = 0
    BY <2>5
  <2> QED BY <2>8, <2>9, <2>10 DEF BytesInv, Brings
<1>10. ASSUME NEW w \in Worker, PutsAgain(w) PROVE BytesInv'
  <2>1. SecondAnswer(w) \in Respond
    BY <1>10, SentTypes DEF PutsAgain, Return, Goto, IndInv
  <2>2. Weight(SecondAnswer(w)) = 0
    BY <1>10, WeightTypes DEF PutsAgain, Return, Goto, SecondAnswer, IndInv, PriorInv
  <2>3. /\ pc[w] \notin {"copy", "ack"} /\ UNCHANGED handled /\ Send(SecondAnswer(w))
        /\ pc' = [pc EXCEPT ![w] = "idle"] /\ job' = [job EXCEPT ![w] = NoJob]
    BY <1>10 DEF PutsAgain, Return, Goto
  <2> QED BY <1>5, <2>1, <2>2, <2>3
<1>11. ASSUME NEW w \in Worker, DataFinished(w) PROVE BytesInv'
  <2>1. Finished(verdict[w]) \in Respond /\ Weight(Finished(verdict[w])) = 0
    BY <1>11, SentTypes, WeightTypes DEF DataFinished, Return, Goto, IndInv
  <2>2. /\ pc[w] \notin {"copy", "ack"} /\ UNCHANGED handled /\ Send(Finished(verdict[w]))
        /\ pc' = [pc EXCEPT ![w] = "idle"] /\ job' = [job EXCEPT ![w] = NoJob]
    BY <1>11 DEF DataFinished, Return, Goto
  <2> QED BY <1>5, <2>1, <2>2
<1>12. ASSUME NEW w \in Worker, DataCount(w) PROVE BytesInv'
  <2>1. pc[w] = "count" /\ toClient' = toClient
    BY <1>12 DEF DataCount, Goto, Return, wireVars
  <2>2. job[w].chunk \in Chunk /\ SizeOf(job[w].chunk) \in Nat
    BY <2>1, PduCases, SizeTypes DEF IndInv, TypeInv, JobOK, DataSteps
  <2>3. CASE Fits(SizeOf(job[w].chunk))
    <3>1. /\ pc' = [pc EXCEPT ![w] = "copy"] /\ job' = job
          /\ handled' = handled + SizeOf(job[w].chunk)
      BY <1>12, <2>3 DEF DataCount, Goto
    <3>2. IsFiniteSet(Counted(Chunk)') /\ Owed' = Owed + SizeOf(job[w].chunk)
      BY <1>1, <2>1, <2>2, <3>1, OwedMore DEF BytesInv
    <3>3. PICK due \in Nat : Brings(toClient, sended, due) /\ due + Owed <= handled
      BY DEF BytesInv
    <3>4. Owed \in Nat
      BY OwedTypes DEF BytesInv
    <3>5. due + Owed' <= handled'
      BY <1>1, <2>2, <3>1, <3>2, <3>3, <3>4
    <3>6. Brings(toClient', sended', due)
      BY <1>1, <2>1, <3>3
    <3>7. unacked' = Chunk => sended' = 0
      BY <1>1 DEF BytesInv
    <3> QED BY <3>2, <3>5, <3>6, <3>7 DEF BytesInv, Brings
  <2>4. CASE ~Fits(SizeOf(job[w].chunk))
    <3>1. /\ pc' = [pc EXCEPT ![w] = "idle"] /\ job' = [job EXCEPT ![w] = NoJob]
          /\ handled' = handled
      BY <1>12, <2>4 DEF DataCount, Goto, Return
    <3> QED BY <1>3, <2>1, <3>1
  <2> QED BY <2>3, <2>4
<1>13. ASSUME NEW w \in Worker, DataCopy(w) PROVE BytesInv'
  <2>1. /\ pc[w] = "copy" /\ pc' = [pc EXCEPT ![w] = "ack"]
        /\ UNCHANGED <<toClient, handled, job>>
    BY <1>13 DEF DataCopy, Goto, wireVars
  <2>2. Owed' = Owed /\ Counted(Chunk)' = Counted(Chunk)
    BY <1>1, <2>1, OwedSame
  <2> QED BY <1>2, <2>1, <2>2
<1>14. ASSUME NEW w \in Worker, DataAck(w) PROVE BytesInv'
  <2>1. /\ pc[w] = "ack" /\ pc' = [pc EXCEPT ![w] = "full"]
        /\ UNCHANGED <<handled, job>> /\ Send(Ack(job[w].chunk))
    BY <1>14 DEF DataAck, Goto
  <2>2. /\ job[w].chunk \in Chunk /\ SizeOf(job[w].chunk) \in Nat
        /\ Ack(job[w].chunk) \in Respond
    BY <2>1, SentTypes, SizeTypes DEF IndInv
  <2>3. IsFiniteSet(Counted(Chunk)') /\ Owed = Owed' + SizeOf(job[w].chunk) /\ Owed' \in Nat
    BY <1>1, <2>1, <2>2, OwedLess DEF BytesInv
  <2>4. PICK due \in Nat : Brings(toClient, sended, due) /\ due + Owed <= handled
    BY DEF BytesInv
  <2>5. due + Owed' <= handled' /\ (due + SizeOf(job[w].chunk)) + Owed' <= handled'
    <3>1. \A a, b, c, d \in Nat : a + (b + c) <= d => a + b <= d /\ (a + c) + b <= d
      OBVIOUS
    <3>2. due + (Owed' + SizeOf(job[w].chunk)) <= handled /\ handled' = handled
      BY <2>1, <2>3, <2>4
    <3> QED BY <1>1, <2>2, <2>3, <3>1, <3>2
  <2>6. PICK more \in Nat : Brings(toClient', sended', more) /\ more + Owed' <= handled'
    <3>1. CASE toClient' = toClient
      BY <1>1, <2>4, <2>5, <3>1
    <3>2. CASE toClient' = Append(toClient, Ack(job[w].chunk))
      <4>1. Weight(Ack(job[w].chunk)) = SizeOf(job[w].chunk)
        BY <2>2, WeightTypes
      <4>2. Brings(toClient', sended', due + SizeOf(job[w].chunk))
        BY <1>1, <2>2, <2>4, <3>2, <4>1, BringsMore
      <4>3. due + SizeOf(job[w].chunk) \in Nat
        BY <2>2
      <4> QED BY <2>5, <4>2, <4>3
    <3> QED BY <2>1, <3>1, <3>2 DEF Send
  <2>7. unacked' = Chunk => sended' = 0
    BY <1>1 DEF BytesInv
  <2> QED BY <2>3, <2>6, <2>7 DEF BytesInv, Brings
<1>15. ASSUME NEW w \in Worker, UseFreed(w) PROVE BytesInv'
  BY <1>4, <1>15 DEF UseFreed, wireVars
<1> QED BY <1>6, <1>7, <1>8, <1>9, <1>10, <1>11, <1>12, <1>13, <1>14, <1>15
        DEF ServerStep, Pool, Puts, PutsData

LEMMA ClientStepBytes ==
  ASSUME IndInv, BytesInv, ClientStep, UNCHANGED serverVars
  PROVE  BytesInv'
<1>1. /\ toClient \in Seq(Respond) /\ handled \in Nat /\ sended \in Nat
      /\ UNCHANGED <<handled, pc, job>> /\ unacked \subseteq Chunk
  BY DEF IndInv, TypeInv, TypeOK, ServerTypeOK, WireTypeOK, ClientTypeOK, serverVars, connVars
<1>2. Owed' = Owed /\ Counted(Chunk)' = Counted(Chunk)
  BY <1>1, OwedSame
<1>3. ASSUME UNCHANGED <<toClient, unacked, sended>> PROVE BytesInv'
  BY <1>1, <1>2, <1>3, BytesKept
<1>4. PICK due \in Nat : Brings(toClient, sended, due) /\ due + Owed <= handled
  BY DEF BytesInv
<1>5. Owed \in Nat
  BY OwedTypes DEF BytesInv
<1> DEFINE m == Head(toClient)
\* A slot that raises the count by what its answer weighs.
<1>6. ASSUME toClient # <<>>, toClient' = Tail(toClient), sended' = sended + Weight(m),
             (unacked' = unacked /\ Weight(m) = 0) \/ unacked' # Chunk
      PROVE  BytesInv'
  <2>1. Brings(toClient', sended', due)
    BY <1>1, <1>4, <1>6, BringsLess
  <2>2. unacked' = Chunk => sended' = 0
    BY <1>1, <1>6 DEF BytesInv
  <2>3. IsFiniteSet(Counted(Chunk)') /\ due + Owed' <= handled'
    BY <1>1, <1>2, <1>4 DEF BytesInv
  <2> QED BY <2>1, <2>2, <2>3 DEF BytesInv, Brings
<1>7. ASSUME HandlePutsDataRespond PROVE BytesInv'
  <2>1. /\ toClient # <<>> /\ toClient' = Tail(toClient) /\ m.code = "PUTS_DATA"
        /\ unacked' = unacked \ {m.chunk} /\ sended' = sended + SizeOf(m.chunk)
    BY <1>7 DEF HandlePutsDataRespond, Slot
  <2>2. m \in Respond
    BY <1>1, <2>1, CarriesTail
  <2>3. m.chunk \in Chunk /\ m = Ack(m.chunk)
    BY <2>1, <2>2, RespondCases
  <2>4. Weight(m) = SizeOf(m.chunk) /\ unacked' # Chunk
    BY <2>1, <2>3, WeightTypes
  <2> QED BY <1>6, <2>1, <2>4
<1>8. ASSUME HandlePutsFinishRespond PROVE BytesInv'
  <2>1. /\ toClient # <<>> /\ toClient' = Tail(toClient) /\ m.code = "PUTS_FINISH"
        /\ UNCHANGED <<unacked, sended>>
    BY <1>8 DEF HandlePutsFinishRespond, Slot
  <2>2. m \in Respond
    BY <1>1, <2>1, CarriesTail
  <2>3. Weight(m) = 0
    BY <2>1, <2>2, RespondCases, WeightTypes
  <2> QED BY <1>1, <1>6, <2>1, <2>3
<1>9. ASSUME HandlePutsRespond PROVE BytesInv'
  <2>1. toClient # <<>> /\ toClient' = Tail(toClient) /\ m.code = "PUTS"
    BY <1>9 DEF HandlePutsRespond, Slot
  <2>2. m \in Respond
    BY <1>1, <2>1, CarriesTail
  <2>3. m = Answer(m.status)
    BY <2>1, <2>2, RespondCases
  <2>4. CASE m.status = "PUT_QUICK"
    <3>1. unacked' = {} /\ sended' = Total
      BY <1>9, <2>4 DEF HandlePutsRespond
    <3>2. Weight(m) = Total
      BY <2>3, <2>4, WeightTypes
    <3>3. sended + Total <= due /\ Total \in Nat
      BY <1>1, <1>4, <2>1, <3>2, BringsLess, SizeTypes
    <3>4. handled <= Total
      BY DEF IndInv, CountInv
    <3>5. sended = 0
      BY <1>1, <1>4, <1>5, <3>3, <3>4
    <3>6. {} # Chunk
      BY SizeTypes
    <3> QED BY <1>6, <2>1, <3>1, <3>2, <3>3, <3>5, <3>6
  <2>5. CASE m.status # "PUT_QUICK"
    <3>1. UNCHANGED <<unacked, sended>>
      BY <1>9, <2>5 DEF HandlePutsRespond
    <3>2. Weight(m) = 0
      BY <2>3, <2>5, WeightTypes
    <3> QED BY <1>1, <1>6, <2>1, <3>1, <3>2
  <2> QED BY <2>4, <2>5
<1>10. ASSUME SendCancelRequest PROVE BytesInv'
  BY <1>3, <1>10 DEF SendCancelRequest, wireVars
<1>11. ASSUME NEW i \in Sender, SendFileData(i) PROVE BytesInv'
  BY <1>3, <1>11 DEF SendFileData, Seek, Read, Check, FallAsleep, SendChunk, Coroutine
<1>12. ASSUME TProgress PROVE BytesInv'
  BY <1>3, <1>12 DEF TProgress, HandleStopPBClicked, HandleContinuePBClicked,
     HandleClosePBClicked, Click, wireVars
<1> QED BY <1>7, <1>8, <1>9, <1>10, <1>11, <1>12 DEF ClientStep, UdTool

LEMMA BytesStep == IndInv /\ BytesInv /\ [Next]_vars => BytesInv'
<1> SUFFICES ASSUME IndInv, BytesInv, [Next]_vars PROVE BytesInv'
  OBVIOUS
<1>1. ASSUME UNCHANGED <<toClient, unacked, sended, handled, pc, job>> PROVE BytesInv'
  <2>1. Owed' = Owed /\ Counted(Chunk)' = Counted(Chunk)
    BY <1>1, OwedSame
  <2>2. toClient \in Seq(Respond)
    BY DEF IndInv, TypeInv, TypeOK, WireTypeOK
  <2> QED BY <1>1, <2>1, <2>2, BytesKept
<1>2. CASE ServerStep /\ UNCHANGED clientVars
  BY <1>2, ServerStepBytes
<1>3. CASE ClientStep /\ UNCHANGED serverVars
  BY <1>3, ClientStepBytes
<1>4. CASE ClientDies /\ UNCHANGED serverVars
  BY <1>1, <1>4 DEF ClientDies, clientVars, serverVars, connVars
<1>5. CASE UNCHANGED vars
  BY <1>1, <1>5 DEF vars, wireVars, clientVars, serverVars, connVars
<1> QED BY <1>2, <1>3, <1>4, <1>5 DEF Next

LEMMA BytesAlways == Spec => []BytesInv
BY BytesInit, BytesStep, Inductive, PTL DEF Spec

\* The progress bar never runs ahead of the bytes the server has counted, nor those
\* ahead of the file: every acknowledgement on its way stands for bytes counted before
\* it was sent, and a quick upload, which shows the whole file at once, comes first.
THEOREM ProgressIsHonest == Spec => []ProgressHonest
<1>1. IndInv /\ BytesInv => ProgressHonest
  <2> SUFFICES ASSUME IndInv, BytesInv PROVE ProgressHonest
    OBVIOUS
  <2>1. toClient \in Seq(Respond) /\ handled \in Nat /\ sended \in Nat
    BY DEF IndInv, TypeInv, TypeOK, ServerTypeOK, WireTypeOK, ClientTypeOK
  <2>2. PICK due \in Nat : Brings(toClient, sended, due) /\ due + Owed <= handled
    BY DEF BytesInv
  <2>3. sended <= due /\ Owed \in Nat
    BY <2>1, <2>2, BringsUp, OwedTypes DEF BytesInv
  <2>4. sended <= handled
    BY <2>1, <2>2, <2>3
  <2> QED BY <2>4 DEF ProgressHonest, IndInv, CountInv
<1> QED BY <1>1, Inductive, BytesAlways, PTL

\* A paused upload sends no chunk that has not passed the check of the control word
\* yet: neither a coroutine that reads it after asyncSendFileData's read, nor one that
\* is woken for nothing.
THEOREM PausedHolds == Spec => PauseHolds
<1>1. ASSUME ClientTypeOK, [Next]_vars, ctrl = "pause", NEW i \in Sender, sender'[i] = "send"
      PROVE  sender[i] = "send"
  <2> USE <1>1 DEF ClientTypeOK
  <2>1. CASE UNCHANGED sender
    BY <2>1
  <2>2. ASSUME NEW j \in Sender, NEW to, to # "send", sender' = [sender EXCEPT ![j] = to]
        PROVE  sender[i] = "send"
    BY <2>2
  <2>3. ASSUME NEW j \in Sender, SendFileData(j) PROVE sender[i] = "send"
    BY <2>2, <2>3 DEF SendFileData, Seek, Read, Check, FallAsleep, SendChunk, Step, Woken,
       IsLast
  <2>4. ASSUME TProgress PROVE sender[i] = "send"
    BY <2>1, <2>2, <2>4 DEF TProgress, HandleStopPBClicked, HandleContinuePBClicked,
       HandleClosePBClicked, NotifyOne, Step
  <2>5. ASSUME UdTool PROVE sender[i] = "send"
    BY <2>1, <2>2, <2>5 DEF UdTool, HandlePutsRespond, HandlePutsDataRespond,
       HandlePutsFinishRespond, SendCancelRequest, SendFile, sendVars
  <2>6. CASE UNCHANGED clientVars \/ ClientDies \/ UNCHANGED vars
    BY <2>1, <2>6 DEF ClientDies, vars, clientVars, sendVars
  <2> QED BY <2>3, <2>4, <2>5, <2>6 DEF Next, ClientStep
<1>2. TypeOK => ClientTypeOK
  BY DEF TypeOK
<1>3. ClientTypeOK /\ [Next]_vars =>
        [ctrl = "pause" => \A i \in Sender : sender'[i] = "send" => sender[i] = "send"]_vars
  BY <1>1
<1> QED BY <1>2, <1>3, TypeCorrect, PTL DEF Spec, PauseHolds

-----------------------------------------------------------------------------
(* What StoredIntact takes: one coroutine.  The messages on their way form one *)
(* sequence, which grows at its end and is taken from at its head.             *)

LEMMA MovesAlong ==
  ASSUME NEW S, NEW a \in Seq(S), NEW b \in Seq(S), b # <<>>
  PROVE  Append(a, Head(b)) \o Tail(b) = a \o b
OBVIOUS

LEMMA TakesFirst ==
  ASSUME NEW S, NEW a \in Seq(S), NEW b \in Seq(S), a # <<>>
  PROVE  /\ a \o b \in Seq(S) /\ a \o b # <<>>
         /\ Head(a \o b) = Head(a)
         /\ Tail(a) \o b = Tail(a \o b)
OBVIOUS

LEMMA JoinsLast ==
  ASSUME NEW S, NEW a \in Seq(S), NEW b \in Seq(S), NEW x \in S
  PROVE  /\ a \o b \in Seq(S)
         /\ a \o Append(b, x) = Append(a \o b, x)
OBVIOUS

LEMMA TailRises ==
  ASSUME NEW s \in Seq(Pdu), s # <<>>, Rising(s)
  PROVE  /\ Head(s) \in Pdu /\ Head(s) = s[1] /\ 1 \in DOMAIN s
         /\ Rising(Tail(s))
         /\ IsData(Head(s)) => Before(Head(s).chunk, Tail(s))
         /\ \A c : Before(c, s) => Before(c, Tail(s))
         /\ AllSent(s) => AllSent(Tail(s))
<1>1. /\ Head(s) \in Pdu /\ Head(s) = s[1]
      /\ Len(s) \in Nat \ {0}
      /\ DOMAIN s = 1..Len(s)
      /\ DOMAIN Tail(s) = 1..(Len(s) - 1)
      /\ \A n \in 1..(Len(s) - 1) : Tail(s)[n] = s[n + 1]
  OBVIOUS
<1>2. \A n \in DOMAIN Tail(s) : n + 1 \in DOMAIN s /\ Tail(s)[n] = s[n + 1] /\ 1 < n + 1
  BY <1>1
<1>3. 1 \in DOMAIN s
  BY <1>1
<1>4. Rising(Tail(s))
  <2> SUFFICES ASSUME NEW m \in DOMAIN Tail(s), NEW n \in DOMAIN Tail(s), m < n,
                      IsData(Tail(s)[m]), IsData(Tail(s)[n])
               PROVE  Tail(s)[m].chunk < Tail(s)[n].chunk
    BY DEF Rising
  <2>1. m + 1 < n + 1
    BY <1>1
  <2> QED BY <1>2, <2>1 DEF Rising
<1>5. IsData(Head(s)) => Before(Head(s).chunk, Tail(s))
  BY <1>1, <1>2, <1>3 DEF Before, Rising
<1>6. ASSUME NEW c, Before(c, s) PROVE Before(c, Tail(s))
  BY <1>2, <1>6 DEF Before
<1>7. AllSent(s) => AllSent(Tail(s))
  BY <1>2 DEF AllSent
<1> QED BY <1>1, <1>3, <1>4, <1>5, <1>6, <1>7

LEMMA AppendRises ==
  ASSUME NEW s \in Seq(Pdu), NEW p \in Pdu, Rising(s),
         IsData(p) => \A n \in DOMAIN s : IsData(s[n]) => s[n].chunk < p.chunk
  PROVE  /\ Rising(Append(s, p))
         /\ \A c : Before(c, s) /\ (IsData(p) => c < p.chunk) => Before(c, Append(s, p))
         /\ AllSent(s) /\ (IsData(p) => p.intact /\ Sent(p.chunk)) => AllSent(Append(s, p))
<1>1. /\ Len(s) \in Nat
      /\ DOMAIN s = 1..Len(s)
      /\ DOMAIN Append(s, p) = 1..(Len(s) + 1)
      /\ Append(s, p)[Len(s) + 1] = p
      /\ \A n \in 1..Len(s) : Append(s, p)[n] = s[n]
  OBVIOUS
<1>2. \A n \in DOMAIN Append(s, p) : \/ n \in DOMAIN s /\ Append(s, p)[n] = s[n]
                                     \/ n = Len(s) + 1 /\ Append(s, p)[n] = p
  BY <1>1
<1>3. Rising(Append(s, p))
  <2> SUFFICES ASSUME NEW m \in DOMAIN Append(s, p), NEW n \in DOMAIN Append(s, p), m < n,
                      IsData(Append(s, p)[m]), IsData(Append(s, p)[n])
               PROVE  Append(s, p)[m].chunk < Append(s, p)[n].chunk
    BY DEF Rising
  <2>1. m \in DOMAIN s /\ Append(s, p)[m] = s[m]
    BY <1>1
  <2>2. CASE n \in DOMAIN s /\ Append(s, p)[n] = s[n]
    BY <2>1, <2>2 DEF Rising
  <2>3. CASE Append(s, p)[n] = p
    BY <2>1, <2>3
  <2> QED BY <1>2, <2>2, <2>3
<1>4. ASSUME NEW c, Before(c, s), IsData(p) => c < p.chunk PROVE Before(c, Append(s, p))
  BY <1>2, <1>4 DEF Before
<1>5. AllSent(s) /\ (IsData(p) => p.intact /\ Sent(p.chunk)) => AllSent(Append(s, p))
  BY <1>2 DEF AllSent
<1> QED BY <1>3, <1>4, <1>5

\* Steps that move no message, write no chunk and count no byte.
LEMMA WayAside ==
  ASSUME WayInv, Coming' = Coming, UNCHANGED <<sender, cursor, data, handled>>,
         \A v \in Worker :
           /\ pc'[v] \in Holding => pc[v] \in Holding /\ job'[v] = job[v]
           /\ pc'[v] = "copy" <=> pc[v] = "copy"
  PROVE  WayInv'
<1>1. \A c : Sent(c)' <=> Sent(c)
  BY DEF Sent
<1>2. \A c : Taken(c)' <=> Taken(c)
  BY <1>1 DEF Taken, Before
<1>3. Rising(Coming)' /\ AllSent(Coming)'
  BY <1>1 DEF WayInv, Rising, AllSent
<1>4. HeldInv'
  BY <1>2 DEF WayInv, HeldInv
<1>5. DataInv'
  BY <1>2 DEF WayInv, DataInv
<1>6. Have' = Have
  <2>1. \A v \in Worker : pc[v] = "copy" => job'[v] = job[v]
    BY DEF Holding
  <2> QED BY <2>1 DEF Have
<1>7. HandledInv'
  BY <1>6 DEF WayInv, HandledInv, Bytes
<1> QED BY <1>3, <1>4, <1>5, <1>7 DEF WayInv

\* A step of thread w between two steps that hold no chunk to write.
LEMMA WayAsideOf ==
  ASSUME WayInv, Coming' = Coming, UNCHANGED <<sender, cursor, data, handled>>,
         NEW w \in Worker, \A v \in Worker : v # w => pc'[v] = pc[v] /\ job'[v] = job[v],
         pc[w] # "copy", pc'[w] \notin Holding \/ (pc[w] = "data" /\ pc'[w] = "count" /\ UNCHANGED job)
  PROVE  WayInv'
<1>1. ASSUME NEW v \in Worker
      PROVE  /\ pc'[v] \in Holding => pc[v] \in Holding /\ job'[v] = job[v]
             /\ pc'[v] = "copy" <=> pc[v] = "copy"
  BY DEF Holding
<1> QED BY <1>1, WayAside

\* A chunk is taken off the stream by one thread.
LEMMA WayTakeTask ==
  ASSUME IndInv, WayInv, NEW w \in Worker, TakeTask(w), UNCHANGED clientVars
  PROVE  WayInv'
<1>0. PICK p : p = Head(queue)
  OBVIOUS
<1>1. /\ queue \in Seq(Pdu) /\ toServer \in Seq(Pdu) /\ queue # <<>>
      /\ queue' = Tail(queue) /\ toServer' = toServer
      /\ UNCHANGED <<sender, cursor, data, handled>>
  BY DEF TakeTask, wireVars, connVars, storeVars, clientVars, sendVars, IndInv, TypeInv,
     TypeOK, WireTypeOK, ServerTypeOK
<1>2. /\ Coming \in Seq(Pdu) /\ Coming # <<>> /\ Head(Coming) = p /\ Coming' = Tail(Coming)
  BY <1>0, <1>1, TakesFirst DEF Coming
<1>3. /\ p \in Pdu /\ p = Coming[1] /\ 1 \in DOMAIN Coming
      /\ Rising(Coming') /\ (IsData(p) => Before(p.chunk, Coming'))
      /\ \A c : Before(c, Coming) => Before(c, Coming')
      /\ AllSent(Coming')
  BY <1>2, TailRises DEF WayInv
<1>4. \A c : Sent(c)' <=> Sent(c)
  BY <1>1 DEF Sent
<1>5. \A c : Taken(c) => Taken(c)'
  BY <1>3, <1>4 DEF Taken, Before
<1>6. Rising(Coming)' /\ AllSent(Coming)'
  BY <1>3, <1>4 DEF Rising, AllSent
<1>7. /\ pc[w] = "idle" /\ pc'[w] = ToolOf(p) /\ job'[w] = p
      /\ \A v \in Worker : v # w => pc'[v] = pc[v] /\ job'[v] = job[v]
  BY <1>0 DEF TakeTask, Goto, IndInv, TypeInv, TypeOK, ServerTypeOK
<1>8. pc'[w] # "copy" /\ (pc'[w] \in Holding => IsData(p))
  BY <1>3, <1>7, PduCases DEF ToolOf, Holding, IsData
<1>9. Have' = Have
  BY <1>1, <1>7, <1>8 DEF Have
<1>10. HandledInv'
  BY <1>1, <1>9 DEF WayInv, HandledInv, Bytes
<1>11. DataInv'
  BY <1>1, <1>5 DEF WayInv, DataInv
<1>12. HeldInv'
  <2>1. ASSUME IsData(p)
        PROVE  /\ p.intact /\ p.chunk \in Chunk /\ Taken(p.chunk)'
               /\ data[p.chunk] = "hole"
               /\ \A v \in Worker : pc[v] \in Holding => job[v].chunk # p.chunk
    <3>1. p.intact /\ Sent(p.chunk) /\ p.chunk \in Chunk /\ p.chunk \in Int
      BY <1>3, <2>1, PduCases, ChunkAssumption DEF WayInv, AllSent, IsData, Chunk
    <3>2. ~Taken(p.chunk)
      BY <1>3, <2>1, <3>1 DEF Taken, Before
    <3>3. Taken(p.chunk)'
      BY <1>3, <1>4, <2>1, <3>1 DEF Taken, Before
    <3>4. data[p.chunk] = "hole"
      BY <3>1, <3>2 DEF WayInv, DataInv, IndInv, TypeInv, TypeOK, ServerTypeOK
    <3>5. \A v \in Worker : pc[v] \in Holding => job[v].chunk # p.chunk
      BY <3>2 DEF WayInv, HeldInv
    <3> QED BY <3>1, <3>3, <3>4, <3>5
  <2>2. ASSUME NEW v \in Worker, pc'[v] \in Holding
        PROVE  job'[v].intact /\ data'[job'[v].chunk] = "hole" /\ Taken(job[v].chunk)'
    <3>1. CASE v = w
      <4>1. job'[v] = p /\ IsData(p)
        BY <1>7, <1>8, <2>2, <3>1
      <4>2. Taken(job[v].chunk)' <=> Taken(p.chunk)'
        BY <4>1 DEF Taken, Sent, Before
      <4> QED BY <1>1, <2>1, <4>1, <4>2
    <3>2. CASE v # w
      <4>1. pc[v] \in Holding /\ job'[v] = job[v]
        BY <1>7, <2>2, <3>2
      <4>2. job[v].intact /\ data[job[v].chunk] = "hole" /\ Taken(job[v].chunk)
        BY <4>1 DEF WayInv, HeldInv
      <4>3. PICK c : c = job[v].chunk
        OBVIOUS
      <4>4. Taken(c)'
        BY <1>5, <4>2, <4>3
      <4>5. Taken(job[v].chunk)' <=> Taken(c)'
        BY <4>1, <4>3 DEF Taken, Sent, Before
      <4> QED BY <1>1, <4>1, <4>2, <4>4, <4>5
    <3> QED BY <3>1, <3>2
  <2>3. ASSUME NEW u \in Worker, NEW v \in Worker, pc'[u] \in Holding, pc'[v] \in Holding,
               job'[u].chunk = job'[v].chunk
        PROVE  u = v
    <3>1. u # w /\ v # w => pc[u] \in Holding /\ pc[v] \in Holding /\ job[u].chunk = job[v].chunk
      BY <1>7, <2>3
    <3>2. u # w /\ v # w => u = v
      BY <3>1 DEF WayInv, HeldInv
    <3> QED BY <1>7, <1>8, <2>1, <2>3, <3>2
  <2> QED BY <2>2, <2>3 DEF HeldInv
<1> QED BY <1>6, <1>10, <1>11, <1>12 DEF WayInv

LEMMA ChunkFinite == IsFiniteSet(Chunk) /\ Cardinality(Chunk) = NChunks
<1>1. IsFiniteSet(0..(NChunks - 1)) /\ Cardinality(0..(NChunks - 1)) = NChunks
  BY FS_Interval, ChunkAssumption
<1> QED BY <1>1 DEF Chunk

\* One more chunk is its bytes more.
LEMMA BytesOfMore ==
  ASSUME NEW S \in SUBSET Chunk, NEW c \in Chunk, c \notin S
  PROVE  Bytes((S \cup {c}) \ {LastChunk}, (S \cup {c}) \cap {LastChunk})
           = Bytes(S \ {LastChunk}, S \cap {LastChunk}) + SizeOf(c)
<1>1. PICK F, L : F = S \ {LastChunk} /\ L = S \cap {LastChunk}
  OBVIOUS
<1>2. IsFiniteSet(F) /\ IsFiniteSet(L)
  BY <1>1, ChunkFinite, FS_Subset
<1>3. CASE c = LastChunk
  <2>1. c \notin L
    BY <1>1
  <2>2. Bytes(F, L \cup {c}) = Bytes(F, L) + LastSize
    BY ONLY <1>2, <2>1, BytesMore
  <2>3. (S \cup {c}) \ {LastChunk} = F /\ (S \cup {c}) \cap {LastChunk} = L \cup {c}
    BY <1>1, <1>3
  <2>4. Bytes((S \cup {c}) \ {LastChunk}, (S \cup {c}) \cap {LastChunk}) = Bytes(F, L \cup {c})
    BY <2>3
  <2> QED BY <1>1, <1>3, <2>2, <2>4 DEF SizeOf
<1>4. CASE c # LastChunk
  <2>1. c \notin F
    BY <1>1
  <2>2. Bytes(F \cup {c}, L) = Bytes(F, L) + ChunkSize
    BY ONLY <1>2, <2>1, BytesMore
  <2>3. (S \cup {c}) \ {LastChunk} = F \cup {c} /\ (S \cup {c}) \cap {LastChunk} = L
    BY <1>1, <1>4
  <2>4. Bytes((S \cup {c}) \ {LastChunk}, (S \cup {c}) \cap {LastChunk}) = Bytes(F \cup {c}, L)
    BY <2>3
  <2> QED BY <1>1, <1>4, <2>2, <2>4 DEF SizeOf
<1> QED BY <1>3, <1>4

\* A chunk is counted by the one thread that holds it.
LEMMA WayDataCount ==
  ASSUME IndInv, WayInv, NEW w \in Worker, DataCount(w), UNCHANGED clientVars
  PROVE  WayInv'
<1>1. PICK c : c = job[w].chunk
  OBVIOUS
<1>2. /\ pc[w] = "count" /\ c \in Chunk
      /\ pc \in [Worker -> Steps] /\ job \in [Worker -> Pdu \cup {NoJob}]
  BY <1>1, PduCases DEF DataCount, Goto, Return, IndInv, TypeInv, TypeOK, ServerTypeOK,
     JobOK, DataSteps
<1>3. UNCHANGED <<sender, cursor, data, queue, toServer>>
  BY DEF DataCount, wireVars, storeVars, clientVars, sendVars
<1>4. Coming' = Coming
  BY <1>3 DEF Coming
<1>5. CASE Return(w, "count") /\ UNCHANGED handled
  <2>1. pc'[w] = "idle" /\ \A v \in Worker : v # w => pc'[v] = pc[v] /\ job'[v] = job[v]
    BY <1>2, <1>5 DEF Return, Goto
  <2>2. pc'[w] \notin Holding /\ pc[w] # "copy"
    BY <1>2, <2>1 DEF Holding
  <2> QED BY <1>3, <1>4, <1>5, <2>1, <2>2, WayAsideOf
<1>6. CASE Goto(w, "count", "copy") /\ handled' = handled + SizeOf(c) /\ UNCHANGED job
  <2>1. pc'[w] = "copy" /\ \A v \in Worker : v # w => pc'[v] = pc[v]
    BY <1>2, <1>6 DEF Goto
  <2>2. \A v \in Worker : pc'[v] \in Holding <=> pc[v] \in Holding
    BY <1>2, <2>1 DEF Holding
  <2>3. \A d : (Sent(d)' <=> Sent(d)) /\ (Taken(d)' <=> Taken(d))
    BY <1>3, <1>4 DEF Sent, Taken, Before
  <2>4. Rising(Coming)' /\ AllSent(Coming)'
    BY <1>4, <2>3 DEF WayInv, Rising, AllSent
  <2>5. DataInv'
    BY <1>3, <2>3 DEF WayInv, DataInv
  <2>6. HeldInv'
    BY <1>3, <1>6, <2>2, <2>3 DEF WayInv, HeldInv
  <2>7. /\ data[c] = "hole"
        /\ \A v \in Worker : pc[v] \in Holding /\ job[v].chunk = c => v = w
    BY <1>1, <1>2 DEF WayInv, HeldInv, Holding
  <2>8. c \notin Have
    BY <1>2, <2>7 DEF Have, Holding
  <2>9. Have' = Have \cup {c}
    <3>1. \A v \in Worker : pc'[v] = "copy" <=> pc[v] = "copy" \/ v = w
      BY <2>1
    <3> QED BY <1>1, <1>2, <1>3, <1>6, <3>1 DEF Have
  <2>10. Have \in SUBSET Chunk
    BY DEF Have
  <2>11. HandledInv'
    <3>1. Bytes((Have \cup {c}) \ {LastChunk}, (Have \cup {c}) \cap {LastChunk})
            = Bytes(Have \ {LastChunk}, Have \cap {LastChunk}) + SizeOf(c)
      BY <1>2, <2>8, <2>10, BytesOfMore
    <3>2. handled' = Bytes((Have \cup {c}) \ {LastChunk}, (Have \cup {c}) \cap {LastChunk})
      BY <1>6, <3>1 DEF WayInv, HandledInv
    <3> QED BY <2>9, <3>2 DEF HandledInv, Bytes
  <2> QED BY <2>4, <2>5, <2>6, <2>11 DEF WayInv
<1> QED BY <1>1, <1>5, <1>6 DEF DataCount

\* A thread whose mapping is there writes the chunk it holds, which is intact.
LEMMA WayDataCopy ==
  ASSUME IndInv, WayInv, NEW w \in Worker, DataCopy(w), serverUp', UNCHANGED clientVars
  PROVE  WayInv'
<1>1. PICK c : c = job[w].chunk
  OBVIOUS
<1>2. /\ pc[w] = "copy" /\ c \in Chunk /\ pc'[w] = "ack"
      /\ \A v \in Worker : v # w => pc'[v] = pc[v]
  BY <1>1, PduCases DEF DataCopy, Goto, IndInv, TypeInv, TypeOK, ServerTypeOK, JobOK,
     DataSteps
<1>3. UNCHANGED <<sender, cursor, queue, toServer, job, handled>>
  BY DEF DataCopy, wireVars, connVars, clientVars, sendVars
<1>4. Coming' = Coming
  BY <1>3 DEF Coming
<1>5. /\ job[w].intact /\ data[c] = "hole" /\ Taken(c)
      /\ \A v \in Worker : pc[v] \in Holding /\ job[v].chunk = c => v = w
  BY <1>1, <1>2 DEF WayInv, HeldInv, Holding
<1>6. data' = [data EXCEPT ![c] = "good"]
  BY <1>1, <1>5 DEF DataCopy, Copied
<1>7. data \in [Chunk -> {"hole", "good", "bad"}]
  BY DEF IndInv, TypeInv, TypeOK, ServerTypeOK
<1>8. data'[c] = "good" /\ \A d \in Chunk : d # c => data'[d] = data[d]
  BY <1>2, <1>6, <1>7
<1>9. \A d : (Sent(d)' <=> Sent(d)) /\ (Taken(d)' <=> Taken(d))
  BY <1>3, <1>4 DEF Sent, Taken, Before
<1>10. Rising(Coming)' /\ AllSent(Coming)'
  BY <1>4, <1>9 DEF WayInv, Rising, AllSent
<1>11. DataInv'
  BY <1>5, <1>8, <1>9 DEF WayInv, DataInv
<1>12. \A v \in Worker : pc'[v] \in Holding => v # w /\ pc[v] \in Holding
  BY <1>2 DEF Holding
<1>13. HeldInv'
  <2>1. ASSUME NEW v \in Worker, pc'[v] \in Holding
        PROVE  job[v].chunk \in Chunk /\ job[v].chunk # c
    <3>1. pc[v] \in DataSteps
      BY <1>12, <2>1 DEF Holding, DataSteps
    <3>2. job[v].chunk \in Chunk
      BY <3>1, PduCases DEF IndInv, TypeInv, JobOK
    <3> QED BY <1>5, <1>12, <2>1, <3>2
  <2>2. \A v \in Worker : pc'[v] \in Holding => data'[job[v].chunk] = data[job[v].chunk]
    BY <1>8, <2>1
  <2> QED BY <1>3, <1>9, <1>12, <2>2 DEF WayInv, HeldInv
<1>14. Have' = Have
  <2>1. \A v \in Worker : pc'[v] = "copy" <=> pc[v] = "copy" /\ v # w
    BY <1>2
  <2> QED BY <1>1, <1>2, <1>3, <1>8, <2>1 DEF Have
<1>15. HandledInv'
  BY <1>3, <1>14 DEF WayInv, HandledInv, Bytes
<1> QED BY <1>10, <1>11, <1>13, <1>15 DEF WayInv

\* Before the answer no coroutine has been started, and nothing is in the file.
LEMMA NothingYet ==
  ASSUME IndInv, WayInv, NEW w \in Worker, pc[w] \in Unanswered
  PROVE  /\ \A c \in Chunk : data[c] = "hole"
         /\ handled = 0
<1>1. Quiet /\ AllIdleBut(w)
  BY AskerAlone DEF IndInv
<1>2. \A c : ~Sent(c)
  BY <1>1 DEF Quiet, Sent
<1>3. \A c \in Chunk : data[c] = "hole"
  BY <1>2 DEF WayInv, DataInv, Taken, IndInv, TypeInv, TypeOK, ServerTypeOK
<1>4. Have = {}
  <2>1. \A v \in Worker : pc[v] # "copy"
    BY <1>1 DEF AllIdleBut, Unanswered
  <2> QED BY <1>3, <2>1 DEF Have
<1>5. handled = Bytes({}, {})
  BY <1>4 DEF WayInv, HandledInv
<1>6. ChunkSize * 0 + LastSize * 0 = 0
  BY ChunkAssumption
<1> QED BY <1>3, <1>5, <1>6, FS_EmptySet DEF Bytes

LEMMA WayPutsOpen ==
  ASSUME IndInv, WayInv, NEW w \in Worker, PutsOpen(w), UNCHANGED clientVars
  PROVE  WayInv'
<1>1. pc[w] = "open"
  BY DEF PutsOpen, Goto
<1>2. \A c \in Chunk : data[c] = "hole"
  BY <1>1, NothingYet DEF Unanswered
<1>3. data' = data
  <2>1. data \in [Chunk -> {"hole", "good", "bad"}]
    BY DEF IndInv, TypeInv, TypeOK, ServerTypeOK
  <2>2. data = [c \in Chunk |-> "hole"]
    BY <1>2, <2>1
  <2> QED BY <2>2 DEF PutsOpen
<1>4. /\ pc'[w] \in {"init", "reply"}
      /\ \A v \in Worker : v # w => pc'[v] = pc[v] /\ job'[v] = job[v]
  BY DEF PutsOpen, Goto, IndInv, TypeInv, TypeOK, ServerTypeOK
<1>5. UNCHANGED <<sender, cursor, handled, queue, toServer>>
  BY DEF PutsOpen, wireVars, connVars, clientVars, sendVars
<1>6. Coming' = Coming
  BY <1>5 DEF Coming
<1>7. pc'[w] \notin Holding /\ pc[w] # "copy"
  BY <1>1, <1>4 DEF Holding
<1> QED BY <1>3, <1>4, <1>5, <1>6, <1>7, WayAsideOf

LEMMA WayPutsHandled ==
  ASSUME IndInv, WayInv, ~priorRow, NEW w \in Worker, PutsHandled(w), UNCHANGED clientVars
  PROVE  WayInv'
<1>1. pc[w] = "handled"
  BY DEF PutsHandled, Goto
<1>2. handled = 0
  BY <1>1, NothingYet DEF Unanswered
<1>3. verdict[w] # "PUT_QUICK"
  BY <1>1 DEF IndInv, PriorInv
<1>4. handled' = handled
  BY <1>2, <1>3 DEF PutsHandled
<1>5. /\ pc'[w] = "status"
      /\ \A v \in Worker : v # w => pc'[v] = pc[v] /\ job'[v] = job[v]
  BY DEF PutsHandled, Goto, IndInv, TypeInv, TypeOK, ServerTypeOK
<1>6. UNCHANGED <<sender, cursor, data, queue, toServer>>
  BY DEF PutsHandled, wireVars, storeVars, clientVars, sendVars
<1>7. Coming' = Coming
  BY <1>6 DEF Coming
<1>8. pc'[w] \notin Holding /\ pc[w] # "copy"
  BY <1>1, <1>5 DEF Holding
<1> QED BY <1>4, <1>5, <1>6, <1>7, <1>8, WayAsideOf

\* A thread changes its own step and message only.
LEMMA ThreadsApart ==
  ASSUME TypeInv, NEW w \in Worker, Puts(w) \/ PutsData(w) \/ PutsFinish(w)
  PROVE  \A v \in Worker : v # w => pc'[v] = pc[v] /\ job'[v] = job[v]
<1>1. ASSUME NEW from, NEW to, (Goto(w, from, to) /\ UNCHANGED job) \/ Return(w, from)
      PROVE  \A v \in Worker : v # w => pc'[v] = pc[v] /\ job'[v] = job[v]
  BY <1>1 DEF Return, Goto, TypeInv, TypeOK, ServerTypeOK
<1>2. ASSUME Puts(w) PROVE \E from, to : (Goto(w, from, to) /\ UNCHANGED job) \/ Return(w, from)
  BY <1>2 DEF Puts, PutsStart, PutsLookup, PutsOpen, PutsInit, PutsHandled, PutsStatus,
     PutsReply, PutsQuick, PutsAgain
<1>3. ASSUME PutsData(w) \/ PutsFinish(w)
      PROVE  \E from, to : (Goto(w, from, to) /\ UNCHANGED job) \/ Return(w, from)
  BY <1>3 DEF PutsData, PutsFinish, DataStart, DataCount, DataCopy, DataAck, DataFull,
     DataInsert, DataFinished
<1> QED BY <1>1, <1>2, <1>3

\* The other steps of the request, of a chunk and of the finish.
LEMMA WayOthers ==
  ASSUME IndInv, WayInv, UNCHANGED clientVars, NEW w \in Worker,
         \/ PutsStart(w) \/ PutsLookup(w) \/ PutsInit(w) \/ PutsStatus(w) \/ PutsReply(w)
         \/ PutsQuick(w) \/ PutsAgain(w)
         \/ DataStart(w) \/ DataAck(w) \/ DataFull(w) \/ DataInsert(w) \/ DataFinished(w)
         \/ PutsFinish(w)
  PROVE  WayInv'
<1>1. \A v \in Worker : v # w => pc'[v] = pc[v] /\ job'[v] = job[v]
  BY ThreadsApart DEF IndInv, Puts, PutsData
<1>2. UNCHANGED <<queue, toServer, data, handled>>
  BY DEF PutsStart, PutsLookup, PutsInit, PutsStatus, PutsReply, PutsQuick, PutsAgain,
     DataStart, DataAck, DataFull, DataInsert, DataFinished, PutsFinish, wireVars, connVars,
     storeVars
<1>3. UNCHANGED <<sender, cursor>> /\ Coming' = Coming
  BY <1>2 DEF clientVars, sendVars, Coming
<1>4. pc \in [Worker -> Steps]
  BY DEF IndInv, TypeInv, TypeOK, ServerTypeOK
<1>5. CASE DataStart(w)
  <2>1. pc[w] = "data" /\ (pc'[w] = "idle" \/ (pc'[w] = "count" /\ UNCHANGED job))
    BY <1>4, <1>5 DEF DataStart, Goto, Return
  <2> QED BY <1>1, <1>2, <1>3, <2>1, WayAsideOf DEF Holding
<1>6. CASE ~DataStart(w)
  <2>1. pc[w] # "copy"
    BY <1>6 DEF PutsStart, PutsLookup, PutsInit, PutsStatus, PutsReply, PutsQuick, PutsAgain,
       DataAck, DataFull, DataInsert, DataFinished, PutsFinish, Goto, Return
  <2>2. pc'[w] \in {"idle", "lookup", "open", "init", "handled", "status", "reply", "quick",
                    "done", "again", "full", "insert", "finished"}
    BY <1>4, <1>6 DEF PutsStart, PutsLookup, PutsInit, PutsStatus, PutsReply, PutsQuick,
       PutsAgain, DataAck, DataFull, DataInsert, DataFinished, PutsFinish, Goto, Return
  <2>3. pc'[w] \notin Holding
    BY <2>2 DEF Holding
  <2> QED BY <1>1, <1>2, <1>3, <2>1, <2>3, WayAsideOf
<1> QED BY <1>5, <1>6

LEMMA ServerStepWay ==
  ASSUME IndInv, WayInv, ~priorRow, ServerStep, serverUp', UNCHANGED clientVars
  PROVE  WayInv'
<1>1. ASSUME HandleClientData PROVE WayInv'
  <2>1. /\ queue' = Append(queue, Head(toServer)) /\ toServer' = Tail(toServer)
        /\ toServer # <<>> /\ UNCHANGED <<pc, job, data, handled>>
    BY <1>1 DEF HandleClientData, connVars, storeVars
  <2>2. Coming' = Coming
    BY <2>1, MovesAlong DEF Coming, IndInv, TypeInv, TypeOK, WireTypeOK, ServerTypeOK
  <2> QED BY <2>1, <2>2, WayAside DEF clientVars, sendVars
<1>2. ASSUME CloseBegin \/ CloseRelease \/ CloseRemove PROVE WayInv'
  <2>1. UNCHANGED <<queue, toServer, pc, job, data, handled>>
    BY <1>2 DEF CloseBegin, CloseRelease, CloseRemove, wireVars, connVars, storeVars
  <2>2. Coming' = Coming
    BY <2>1 DEF Coming
  <2> QED BY <2>1, <2>2, WayAside DEF clientVars, sendVars
<1>3. ASSUME NEW w \in Worker, Pool(w) PROVE WayInv'
  <2>1. ~UseFreed(w)
    BY DEF UseFreed
  <2> QED BY <1>3, <2>1, WayTakeTask, WayDataCount, WayDataCopy, WayPutsOpen, WayPutsHandled,
             WayOthers DEF Pool, Puts, PutsData
<1> QED BY <1>1, <1>2, <1>3 DEF ServerStep, Reactor

\* Steps of the client that send nothing.
LEMMA WayGrows ==
  ASSUME WayInv, UNCHANGED serverVars, UNCHANGED toServer, \A c : Sent(c) => Sent(c)'
  PROVE  WayInv'
<1>1. Coming' = Coming /\ UNCHANGED <<pc, job, data, handled>>
  BY DEF Coming, serverVars, connVars, storeVars
<1>2. \A c : Taken(c) => Taken(c)'
  BY <1>1 DEF Taken, Before
<1>3. Rising(Coming)' /\ AllSent(Coming)'
  BY <1>1 DEF WayInv, Rising, AllSent
<1>4. HeldInv'
  <2>1. ASSUME NEW v \in Worker, pc[v] \in Holding PROVE Taken(job[v].chunk)'
    <3>1. PICK c : c = job[v].chunk
      OBVIOUS
    <3>2. Taken(c)'
      BY <1>2, <2>1, <3>1 DEF WayInv, HeldInv
    <3> QED BY <1>1, <3>1, <3>2 DEF Taken, Sent, Before
  <2> QED BY <1>1, <2>1 DEF WayInv, HeldInv
<1>5. DataInv'
  BY <1>1, <1>2 DEF WayInv, DataInv
<1>6. Have' = Have
  BY <1>1 DEF Have
<1>7. HandledInv'
  BY <1>1, <1>6 DEF WayInv, HandledInv, Bytes
<1> QED BY <1>3, <1>4, <1>5, <1>7 DEF WayInv

\* Steps of the client that send one message: the next chunk, or the finish.
LEMMA WaySends ==
  ASSUME IndInv, WayInv, UNCHANGED serverVars, \A c \in Chunk : Sent(c) => Sent(c)',
         NEW p \in Pdu, toServer' = Append(toServer, p),
         IsData(p) => /\ p.intact /\ Sent(p.chunk)'
                      /\ \A c : Sent(c) => c < p.chunk
  PROVE  WayInv'
<1>1. UNCHANGED <<queue, pc, job, data, handled>>
  BY DEF serverVars, connVars, storeVars
<1>2. PICK s \in Seq(Pdu) : s = Coming
  BY JoinsLast DEF Coming, IndInv, TypeInv, TypeOK, WireTypeOK, ServerTypeOK
<1>3. Coming' = Append(s, p)
  BY <1>1, <1>2, JoinsLast DEF Coming, IndInv, TypeInv, TypeOK, WireTypeOK, ServerTypeOK
<1>4. Rising(s) /\ AllSent(s)
  BY <1>2 DEF WayInv
<1>5. IsData(p) => \A n \in DOMAIN s : IsData(s[n]) => s[n].chunk < p.chunk
  BY <1>4 DEF AllSent
<1>6. /\ Rising(Append(s, p))
      /\ \A c : Before(c, s) /\ (IsData(p) => c < p.chunk) => Before(c, Append(s, p))
  BY <1>4, <1>5, AppendRises
<1>7. \A c \in Chunk : Taken(c) => Taken(c)'
  BY <1>2, <1>3, <1>6 DEF Taken, Before
<1>8. AllSent(Coming)'
  <2>1. \A n \in DOMAIN Append(s, p) : \/ n \in DOMAIN s /\ Append(s, p)[n] = s[n]
                                       \/ Append(s, p)[n] = p
    OBVIOUS
  <2>2. ASSUME NEW n \in DOMAIN Append(s, p), IsData(Append(s, p)[n])
        PROVE  Append(s, p)[n].intact /\ Sent(Append(s, p)[n].chunk)'
    <3>1. PICK m : m = Append(s, p)[n]
      OBVIOUS
    <3>2. CASE m = p
      BY <2>2, <3>1, <3>2
    <3>3. CASE n \in DOMAIN s /\ m = s[n]
      <4>1. m \in Pdu /\ IsData(m) /\ m.intact /\ Sent(m.chunk)
        BY <1>4, <2>2, <3>1, <3>3 DEF AllSent
      <4>2. m.chunk \in Chunk
        BY <4>1, PduCases DEF IsData
      <4> QED BY <3>1, <4>1, <4>2
    <3> QED BY <2>1, <3>1, <3>2, <3>3
  <2> QED BY <1>3, <2>2 DEF AllSent, Sent
<1>9. Rising(Coming)'
  BY <1>3, <1>6 DEF Rising
<1>10. HeldInv'
  <2>1. ASSUME NEW v \in Worker, pc[v] \in Holding PROVE Taken(job[v].chunk)'
    <3>0. job[v].chunk \in Chunk
      BY <2>1, PduCases DEF IndInv, TypeInv, JobOK, Holding, DataSteps
    <3>1. PICK c \in Chunk : c = job[v].chunk
      BY <3>0
    <3>2. Taken(c)'
      BY <1>7, <2>1, <3>1 DEF WayInv, HeldInv
    <3> QED BY <1>1, <3>1, <3>2 DEF Taken, Sent, Before
  <2> QED BY <1>1, <2>1 DEF WayInv, HeldInv
<1>11. DataInv'
  BY <1>1, <1>7 DEF WayInv, DataInv
<1>12. Have' = Have
  BY <1>1 DEF Have
<1>13. HandledInv'
  BY <1>1, <1>12 DEF WayInv, HandledInv, Bytes
<1> QED BY <1>8, <1>9, <1>10, <1>11, <1>13 DEF WayInv

\* A step of the only coroutine.
LEMMA AloneAtWork ==
  ASSUME IndInv, OneSender, NEW i \in Sender, sender[i] # "off", NEW to,
         to # "off", Step(i, to), \A j \in Sender : j # i => cursor'[j] = cursor[j],
         cursor'[i] \in Int /\ cursor[i] <= cursor'[i]
  PROVE  /\ sender'[i] = to
         /\ \A j \in Sender : j # i => sender'[j] = "off"
         /\ \A c \in Chunk : Sent(c) => Sent(c)'
         /\ \A c : Sent(c) => c < cursor[i]
<1>1. sender \in [Sender -> {"off", "seek", "read", "check", "falling", "blocked", "send", "end"}]
  BY DEF IndInv, TypeInv, TypeOK, ClientTypeOK
<1>2. \A j \in Sender : j # i => sender[j] = "off"
  BY DEF OneSender
<1>3. sender'[i] = to /\ \A j \in Sender : j # i => sender'[j] = "off"
  BY <1>1, <1>2 DEF Step
<1>4. cursor[i] \in Int
  BY ChunkAssumption DEF IndInv, TypeInv, TypeOK, ClientTypeOK
<1>5. \A c : Sent(c) => c < cursor[i]
  BY <1>2 DEF Sent
<1>6. ASSUME NEW c \in Chunk, Sent(c) PROVE Sent(c)'
  <2>1. c < cursor'[i]
    <3>1. c \in Int /\ c < cursor[i]
      BY <1>5, <1>6, ChunkAssumption DEF Chunk
    <3> QED BY <1>4, <3>1
  <2> QED BY <1>3, <2>1 DEF Sent
<1> QED BY <1>3, <1>5, <1>6

LEMMA ClientStepWay ==
  ASSUME IndInv, OneSender, OneSender', ReadInv, WayInv, ClientStep, UNCHANGED serverVars
  PROVE  ReadInv' /\ WayInv'
<1>1. /\ sender \in [Sender -> {"off", "seek", "read", "check", "falling", "blocked", "send",
                                "end"}]
      /\ cursor \in [Sender -> 0..NChunks] /\ intact \in [Sender -> BOOLEAN]
  BY DEF IndInv, TypeInv, TypeOK, ClientTypeOK
<1>2. ASSUME UdTool PROVE ReadInv' /\ WayInv'
  <2>1. UNCHANGED <<cursor, intact, filePos>>
    BY <1>2 DEF UdTool, HandlePutsRespond, HandlePutsDataRespond, HandlePutsFinishRespond,
       SendCancelRequest, Slot, sendVars
  <2>2. UNCHANGED sender \/ SendFile
    BY <1>2 DEF UdTool, HandlePutsRespond, HandlePutsDataRespond, HandlePutsFinishRespond,
       SendCancelRequest, Slot, sendVars
  <2>3. \A i \in Sender : sender'[i] = sender[i] \/ (sender[i] = "off" /\ sender'[i] = "seek")
    BY <1>1, <2>2 DEF SendFile
  <2>4. \A i \in Sender : sender[i] # "off" => sender'[i] # "off"
    BY <2>3
  <2>5. \A c : Sent(c) => Sent(c)'
    BY <2>1, <2>4 DEF Sent
  <2>6. ReadInv'
    BY <2>1, <2>3 DEF ReadInv
  <2>7. toServer' = toServer \/ toServer' = Append(toServer, FinishPdu)
    BY <1>2 DEF UdTool, HandlePutsRespond, HandlePutsDataRespond, HandlePutsFinishRespond,
       SendCancelRequest, Slot, wireVars
  <2>8. FinishPdu \in Pdu /\ ~IsData(FinishPdu)
    BY PduTypes DEF FinishPdu, IsData
  <2>9. CASE toServer' = toServer
    BY <2>5, <2>6, <2>9, WayGrows
  <2>10. CASE toServer' = Append(toServer, FinishPdu)
    BY <2>5, <2>6, <2>8, <2>10, WaySends
  <2> QED BY <2>7, <2>9, <2>10
<1>3. ASSUME TProgress PROVE ReadInv' /\ WayInv'
  <2>1. UNCHANGED <<cursor, intact, filePos, toServer>>
    BY <1>3 DEF TProgress, HandleStopPBClicked, HandleContinuePBClicked, HandleClosePBClicked,
       Click, wireVars
  <2>2. UNCHANGED sender \/ NotifyOne
    BY <1>3 DEF TProgress, HandleStopPBClicked, HandleContinuePBClicked, HandleClosePBClicked
  <2>3. \A i \in Sender : \/ sender'[i] = sender[i]
                          \/ sender[i] = "blocked" /\ sender'[i] = "check"
    BY <1>1, <2>2 DEF NotifyOne, Step
  <2>4. \A c : Sent(c) => Sent(c)'
    BY <2>1, <2>3 DEF Sent
  <2>5. ReadInv'
    BY <2>1, <2>3 DEF ReadInv
  <2> QED BY <2>1, <2>4, <2>5, WayGrows
<1>4. ASSUME NEW i \in Sender, Seek(i) \/ Read(i) \/ Check(i) \/ FallAsleep(i)
      PROVE  ReadInv' /\ WayInv'
  <2>1. sender[i] # "off" /\ UNCHANGED <<cursor, toServer>> /\ cursor[i] \in Int
    BY <1>1, <1>4, ChunkAssumption DEF Seek, Read, Check, FallAsleep, Coroutine
  <2>2. PICK to : to # "off" /\ Step(i, to)
    <3>1. (CASE ctrl = "run" -> "send" [] ctrl = "pause" -> "check" [] ctrl = "stop" -> "end")
             # "off"
      BY DEF IndInv, TypeInv, TypeOK, ClientTypeOK
    <3> QED BY <1>4, <3>1 DEF Seek, Read, Check, FallAsleep
  <2>3. /\ sender'[i] = to
        /\ \A j \in Sender : j # i => sender'[j] = "off"
    BY <2>1, <2>2, AloneAtWork
  <2>4. \A c : Sent(c) => Sent(c)'
    BY <2>1, <2>2, <2>3 DEF Sent, OneSender
  <2>5. WayInv'
    BY <2>1, <2>4, WayGrows
  <2>6. /\ sender'[i] = "read" => filePos' = OffsetOf(cursor'[i])
        /\ sender'[i] \in {"check", "falling", "blocked", "send"} => intact'[i]
    <3>1. CASE Seek(i)
      BY <1>1, <2>1, <3>1 DEF Seek, Step
    <3>2. CASE Read(i)
      <4>1. sender[i] = "read" /\ filePos = OffsetOf(cursor[i])
        BY <3>2 DEF Read, Coroutine, ReadInv
      <4>2. sender'[i] # "read"
        BY <1>1, <3>2 DEF Read, Step, IndInv, TypeInv, TypeOK, ClientTypeOK
      <4>3. sender'[i] \in {"check", "send"} => intact' = [intact EXCEPT ![i] = TRUE]
        BY <1>1, <3>2, <4>1 DEF Read, Step
      <4>4. sender'[i] \notin {"falling", "blocked"}
        BY <1>1, <3>2 DEF Read, Step, IndInv, TypeInv, TypeOK, ClientTypeOK
      <4>5. intact' = [intact EXCEPT ![i] = TRUE] => intact'[i]
        BY <1>1
      <4> QED BY <4>2, <4>3, <4>4, <4>5
    <3>3. CASE Check(i) \/ FallAsleep(i)
      BY <1>1, <3>3 DEF Check, FallAsleep, Coroutine, Step, ReadInv
    <3> QED BY <1>4, <3>1, <3>2, <3>3
  <2>7. ReadInv'
    BY <2>3, <2>6 DEF ReadInv
  <2> QED BY <2>5, <2>7
<1>5. ASSUME NEW i \in Sender, SendChunk(i) PROVE ReadInv' /\ WayInv'
  <2>1. PICK c : c = cursor[i]
    OBVIOUS
  <2>2. /\ sender[i] = "send" /\ intact[i] = TRUE /\ c \in Chunk /\ c \in Int
        /\ toServer' = Append(toServer, DataPdu(c, intact[i]))
        /\ cursor' = [cursor EXCEPT ![i] = c + 1] /\ UNCHANGED <<intact, filePos>>
    <3>1. sender[i] = "send"
      BY <1>5 DEF SendChunk, Coroutine
    <3>2. intact[i] = TRUE /\ c \in Chunk
      BY <1>1, <2>1, <3>1 DEF ReadInv, IndInv, TypeInv, CursorOK
    <3>3. c \in Int
      BY <3>2, ChunkAssumption DEF Chunk
    <3> QED BY <1>5, <2>1, <3>1, <3>2, <3>3 DEF SendChunk
  <2>3. cursor'[i] = c + 1 /\ \A j \in Sender : j # i => cursor'[j] = cursor[j]
    BY <1>1, <2>2
  <2>4. PICK to : to \in {"end", "seek"} /\ Step(i, to)
    BY <1>5 DEF SendChunk
  <2>5. /\ sender'[i] = to
        /\ \A j \in Sender : j # i => sender'[j] = "off"
        /\ \A d \in Chunk : Sent(d) => Sent(d)'
        /\ \A d : Sent(d) => d < c
    BY <2>1, <2>2, <2>3, <2>4, AloneAtWork
  <2>6. ReadInv'
    BY <2>4, <2>5 DEF ReadInv
  <2>7. DataPdu(c, TRUE) \in Pdu /\ DataPdu(c, TRUE).intact /\ DataPdu(c, TRUE).chunk = c
    BY <2>2, PduTypes DEF DataPdu
  <2>8. Sent(c)'
    BY <2>2, <2>3, <2>4, <2>5 DEF Sent
  <2>9. WayInv'
    <3>1. PICK p \in Pdu : p = DataPdu(c, TRUE)
      BY <2>7
    <3>2. p.intact /\ p.chunk = c /\ toServer' = Append(toServer, p)
      BY <2>2, <2>7, <3>1
    <3>3. p.intact /\ Sent(p.chunk)' /\ \A d : Sent(d) => d < p.chunk
      BY <2>5, <2>8, <3>2 DEF Sent
    <3> QED BY <2>5, <3>2, <3>3, WaySends
  <2> QED BY <2>6, <2>9
<1> QED BY <1>2, <1>3, <1>4, <1>5 DEF ClientStep, SendFileData

LEMMA IntactInit == Init => IntactInv
<1> SUFFICES ASSUME Init, ~priorRow PROVE ReadInv /\ WayInv
  BY DEF IntactInv
<1> USE DEF Init, ServerInit, ClientInit
<1>1. ReadInv
  BY DEF ReadInv
<1>2. Coming = <<PutsPdu>>
  BY DEF Coming
<1>3. \A n \in DOMAIN Coming : ~IsData(Coming[n])
  BY <1>2 DEF IsData, PutsPdu
<1>4. \A c \in Chunk : data[c] = "hole"
  OBVIOUS
<1>5. Have = {}
  BY <1>4 DEF Have
<1>6. ChunkSize * 0 + LastSize * 0 = 0
  BY ChunkAssumption
<1>7. HandledInv
  BY <1>5, <1>6, FS_EmptySet DEF HandledInv, Bytes
<1>8. HeldInv
  BY DEF HeldInv, Holding
<1> QED BY <1>1, <1>3, <1>4, <1>7, <1>8 DEF WayInv, Rising, AllSent, DataInv

\* Nothing un-starts a coroutine, revives the process or forgets the earlier row.
LEMMA NeverBack ==
  ASSUME TypeInv, [Next]_vars
  PROVE  /\ OneSender' => OneSender
         /\ serverUp' => serverUp
         /\ priorRow' = priorRow
<1>1. CASE ServerStep /\ UNCHANGED clientVars
  <2>1. serverUp
    <3>1. CASE Reactor
      BY <3>1 DEF Reactor, HandleClientData, CloseBegin, CloseRelease, CloseRemove
    <3>2. ASSUME NEW w \in Worker, TakeTask(w) \/ UseFreed(w) PROVE serverUp
      BY <3>2 DEF TakeTask, UseFreed, Goto
    <3>3. ASSUME NEW w \in Worker, Puts(w) PROVE serverUp
      BY <3>3 DEF Puts, PutsStart, PutsLookup, PutsOpen, PutsInit, PutsHandled, PutsStatus,
         PutsReply, PutsQuick, PutsAgain, Goto, Return
    <3>4. ASSUME NEW w \in Worker, PutsData(w) \/ PutsFinish(w) PROVE serverUp
      BY <3>4 DEF PutsData, DataStart, DataCount, DataCopy, DataAck, DataFull, DataInsert,
         DataFinished, PutsFinish, Goto, Return
    <3> QED BY <1>1, <3>1, <3>2, <3>3, <3>4 DEF ServerStep, Pool
  <2>2. priorRow' = priorRow
    <3>1. CASE Reactor
      BY <3>1 DEF Reactor, HandleClientData, CloseBegin, CloseRelease, CloseRemove, storeVars
    <3>2. ASSUME NEW w \in Worker, TakeTask(w) \/ UseFreed(w) PROVE priorRow' = priorRow
      BY <3>2 DEF TakeTask, UseFreed, storeVars
    <3>3. ASSUME NEW w \in Worker, Puts(w) PROVE priorRow' = priorRow
      BY <3>3 DEF Puts, PutsStart, PutsLookup, PutsOpen, PutsInit, PutsHandled, PutsStatus,
         PutsReply, PutsQuick, PutsAgain, storeVars
    <3>4. ASSUME NEW w \in Worker, PutsData(w) \/ PutsFinish(w) PROVE priorRow' = priorRow
      BY <3>4 DEF PutsData, DataStart, DataCount, DataCopy, DataAck, DataFull, DataInsert,
         DataFinished, PutsFinish, storeVars
    <3> QED BY <1>1, <3>1, <3>2, <3>3, <3>4 DEF ServerStep, Pool
  <2>3. UNCHANGED sender
    BY <1>1 DEF clientVars, sendVars
  <2> QED BY <2>1, <2>2, <2>3 DEF OneSender
<1>2. CASE ClientStep /\ UNCHANGED serverVars
  <2>1. sender \in [Sender -> {"off", "seek", "read", "check", "falling", "blocked", "send",
                               "end"}]
    BY DEF TypeInv, TypeOK, ClientTypeOK
  <2>2. UNCHANGED <<serverUp, priorRow>>
    BY <1>2 DEF serverVars, storeVars
  <2>3. UNCHANGED sender \/ \E i \in Sender : \E to : to # "off" /\ sender' = [sender EXCEPT ![i] = to]
    <3>1. ASSUME UdTool PROVE UNCHANGED sender \/ SendFile
      BY <3>1 DEF UdTool, HandlePutsRespond, HandlePutsDataRespond, HandlePutsFinishRespond,
         SendCancelRequest, Slot, sendVars
    <3>2. ASSUME TProgress PROVE UNCHANGED sender \/ NotifyOne
      BY <3>2 DEF TProgress, HandleStopPBClicked, HandleContinuePBClicked, HandleClosePBClicked
    <3>3. ASSUME NEW i \in Sender, SendFileData(i)
          PROVE  \E to : to # "off" /\ sender' = [sender EXCEPT ![i] = to]
      <4>1. (CASE ctrl = "run" -> "send" [] ctrl = "pause" -> "check" [] ctrl = "stop" -> "end")
               # "off"
        BY DEF TypeInv, TypeOK, ClientTypeOK
      <4> QED BY <3>3, <4>1 DEF SendFileData, Seek, Read, Check, FallAsleep, SendChunk, Step
    <3>4. SendFile => \E i \in Sender : sender' = [sender EXCEPT ![i] = "seek"]
      BY DEF SendFile
    <3>5. NotifyOne => UNCHANGED sender \/ \E i \in Sender : sender' = [sender EXCEPT ![i] = "check"]
      BY DEF NotifyOne, Step
    <3> QED BY <1>2, <3>1, <3>2, <3>3, <3>4, <3>5 DEF ClientStep
  <2>4. \A i \in Sender : sender[i] # "off" => sender'[i] # "off"
    BY <2>1, <2>3
  <2> QED BY <2>2, <2>4 DEF OneSender
<1>3. CASE UNCHANGED <<serverVars, clientVars>>
  BY <1>3 DEF serverVars, storeVars, clientVars, sendVars, OneSender
<1>4. ClientDies /\ UNCHANGED serverVars => UNCHANGED <<serverVars, clientVars>>
  BY DEF ClientDies
<1>5. UNCHANGED vars => UNCHANGED <<serverVars, clientVars>>
  BY DEF vars
<1> QED BY <1>1, <1>2, <1>3, <1>4, <1>5 DEF Next

LEMMA IntactStep == IndInv /\ IntactInv /\ [Next]_vars => IntactInv'
<1> SUFFICES ASSUME IndInv, IntactInv, [Next]_vars, OneSender', serverUp', ~priorRow'
             PROVE  ReadInv' /\ WayInv'
  BY DEF IntactInv
<1>1. OneSender /\ serverUp /\ ~priorRow
  BY NeverBack DEF IndInv
<1>2. ReadInv /\ WayInv
  BY <1>1 DEF IntactInv
<1>3. CASE ServerStep /\ UNCHANGED clientVars
  <2>1. WayInv'
    BY <1>1, <1>2, <1>3, ServerStepWay
  <2>2. ReadInv'
    BY <1>2, <1>3 DEF ReadInv, clientVars, sendVars
  <2> QED BY <2>1, <2>2
<1>4. CASE ClientStep /\ UNCHANGED serverVars
  BY <1>1, <1>2, <1>4, ClientStepWay
<1>5. CASE UNCHANGED <<toServer, serverVars, clientVars>>
  <2>1. ReadInv'
    BY <1>2, <1>5 DEF ReadInv, clientVars, sendVars
  <2>2. \A c : Sent(c) => Sent(c)'
    BY <1>5 DEF Sent, clientVars, sendVars
  <2>3. WayInv'
    BY <1>2, <1>5, <2>2, WayGrows
  <2> QED BY <2>1, <2>3
<1>6. ClientDies /\ UNCHANGED serverVars => UNCHANGED <<toServer, serverVars, clientVars>>
  BY DEF ClientDies
<1>7. UNCHANGED vars => UNCHANGED <<toServer, serverVars, clientVars>>
  BY DEF vars, wireVars
<1> QED BY <1>3, <1>4, <1>5, <1>6, <1>7 DEF Next

\* All bytes are the bytes of all chunks.
LEMMA AllBytesAllChunks ==
  ASSUME NEW S \in SUBSET Chunk, Bytes(S \ {LastChunk}, S \cap {LastChunk}) = Total
  PROVE  S = Chunk
<1>1. PICK F, L : F = S \ {LastChunk} /\ L = S \cap {LastChunk}
  OBVIOUS
<1> DEFINE fulls == Chunk \ {LastChunk}
<1>2. /\ IsFiniteSet(fulls) /\ Cardinality(fulls) = NChunks - 1
      /\ NChunks - 1 \in Nat
  <2>1. LastChunk \in Chunk
    BY SizeTypes
  <2> QED BY <2>1, ChunkFinite, ChunkAssumption, FS_RemoveElement
<1>3. F \in SUBSET fulls
  BY <1>1
<1>4. IsFiniteSet(F) /\ Cardinality(F) \in Nat /\ Cardinality(F) <= NChunks - 1
  BY <1>2, <1>3, FS_Subset, FS_CardinalityType
<1>5. ChunkSize * Cardinality(F) + LastSize * Cardinality(L) = (NChunks - 1) * ChunkSize + LastSize
  BY <1>1 DEF Bytes, Total
<1>6. \A a, b, k \in Nat : a <= b => k * a \in Nat /\ k * a <= b * k
  <2> SUFFICES ASSUME NEW a \in Nat, NEW b \in Nat, NEW k \in Nat, a <= b
               PROVE  k * a \in Nat /\ k * a <= b * k
    OBVIOUS
  <2>1. PICK d \in Nat : b = a + d
    <3>1. b - a \in Nat /\ b = a + (b - a)
      OBVIOUS
    <3> QED BY <3>1
  <2>2. b * k = k * a + d * k
    BY <2>1
  <2>3. d * k \in Nat /\ k * a \in Nat
    OBVIOUS
  <2> QED BY <2>2, <2>3
<1>7. LastChunk \in S
  <2> SUFFICES ASSUME LastChunk \notin S PROVE FALSE
    OBVIOUS
  <2>1. Cardinality(L) = 0
    BY <1>1, FS_EmptySet
  <2>2. ChunkSize * Cardinality(F) \in Nat /\ ChunkSize * Cardinality(F) <= (NChunks - 1) * ChunkSize
    BY <1>2, <1>4, <1>6, ChunkAssumption
  <2>3. LastSize * 0 = 0 /\ LastSize \in Nat \ {0} /\ (NChunks - 1) * ChunkSize \in Nat
    BY <1>2, ChunkAssumption
  <2>4. ChunkSize * Cardinality(F) = (NChunks - 1) * ChunkSize + LastSize
    BY <1>5, <2>1, <2>2, <2>3
  <2> QED BY <2>2, <2>3, <2>4
<1>8. Cardinality(F) = NChunks - 1
  <2>1. Cardinality(L) = 1
    <3>1. L = {LastChunk}
      BY <1>1, <1>7
    <3> QED BY <3>1, FS_Singleton
  <2>2. LastSize * 1 = LastSize /\ LastSize \in Nat /\ (NChunks - 1) * ChunkSize \in Nat
    BY <1>2, ChunkAssumption
  <2>3. ChunkSize * Cardinality(F) \in Nat
    BY <1>4, ChunkAssumption
  <2>4. ChunkSize * Cardinality(F) = (NChunks - 1) * ChunkSize
    BY <1>5, <2>1, <2>2, <2>3
  <2> SUFFICES ASSUME Cardinality(F) + 1 <= NChunks - 1 PROVE FALSE
    BY <1>2, <1>4
  <2>5. ChunkSize * (Cardinality(F) + 1) <= (NChunks - 1) * ChunkSize
    BY <1>2, <1>4, <1>6, ChunkAssumption
  <2>6. ChunkSize * (Cardinality(F) + 1) = ChunkSize * Cardinality(F) + ChunkSize
    BY <1>4, ChunkAssumption
  <2> QED BY <2>2, <2>3, <2>4, <2>5, <2>6, ChunkAssumption
<1>9. F = fulls
  BY <1>2, <1>3, <1>8, FS_Subset
<1> QED BY <1>1, <1>7, <1>9

LEMMA IntactAlways == Spec => []IntactInv
<1>1. Init => IntactInv
  BY IntactInit
<1>2. IndInv /\ IntactInv /\ [Next]_vars => IntactInv'
  BY IntactStep
<1> QED BY <1>1, <1>2, Inductive, PTL DEF Spec

\* What it takes for the recorded file to be the one the user chose: as long as the
\* answer that starts a coroutine is not repeated, every chunk is at its place once
\* nobody is copying any more, unless the process has died.
THEOREM OneSenderIsIntact == Spec => [](OneSender /\ serverUp => StoredIntact)
<1>1. IndInv /\ IntactInv => (OneSender /\ serverUp => StoredIntact)
  <2> SUFFICES ASSUME IndInv, IntactInv, OneSender, serverUp, rows = 1, ~priorRow,
                      \A w \in Worker : pc[w] # "copy", NEW c \in Chunk
               PROVE  data[c] = "good"
    BY DEF StoredIntact
  <2>1. handled = Total /\ HandledInv
    BY DEF IndInv, FullInv, IntactInv, WayInv
  <2>2. Have \in SUBSET Chunk
    BY DEF Have
  <2>3. Have = Chunk
    BY <2>1, <2>2, AllBytesAllChunks DEF HandledInv
  <2> QED BY <2>3 DEF Have
<1> QED BY <1>1, Inductive, IntactAlways, PTL

-----------------------------------------------------------------------------
(* What PriorFileKept takes: close() does not remove a file while init() is    *)
(* between its two stores.                                                     *)

LEMMA QuickCloses ==
  ASSUME IndInv, QuickInv, CloseRemove, ~RemovalBetween, UNCHANGED clientVars
  PROVE  QuickInv'
<1>1. UNCHANGED <<priorRow, fileSize, handled, pc, verdict>> /\ disk' = (disk /\ ~Unfinished)
  BY DEF CloseRemove, connVars
<1>2. ASSUME priorRow PROVE ~Unfinished
  <2>1. fileSize = 0 \/ handled = Total
    BY <1>2 DEF QuickInv, RemovalBetween
  <2>2. handled \in Nat /\ fileSize \in {0, Total} /\ Total \in Nat
    BY SizeTypes DEF IndInv, TypeInv, TypeOK, ServerTypeOK
  <2> QED BY <2>1, <2>2 DEF Unfinished
<1> QED BY <1>1, <1>2 DEF QuickInv

\* Whatever else happens keeps the file, and a count that is complete.
LEMMA QuickOthers ==
  ASSUME IndInv, QuickInv, UNCHANGED <<disk, priorRow, fileSize, handled>>,
         \A w \in Worker :
           /\ pc[w] = "handled" => pc'[w] = "handled"
           /\ pc'[w] \in {"init", "handled"} =>
                \/ pc[w] \in {"init", "handled"} /\ verdict'[w] = verdict[w]
                \/ priorRow => verdict'[w] = "PUT_QUICK"
  PROVE  QuickInv'
<1>1. ASSUME priorRow, \E w \in Worker : pc[w] = "handled"
      PROVE  \E w \in Worker : pc'[w] = "handled"
  BY <1>1
<1> QED BY <1>1 DEF QuickInv

LEMMA ServerStepQuick ==
  ASSUME IndInv, QuickInv, ServerStep, ~RemovalBetween, UNCHANGED clientVars
  PROVE  QuickInv'
<1> USE DEF IndInv, TypeInv, TypeOK, ServerTypeOK
<1>1. ASSUME HandleClientData \/ CloseBegin \/ CloseRelease PROVE QuickInv'
  <2>1. UNCHANGED <<pc, verdict, disk, priorRow, fileSize, handled>>
    BY <1>1 DEF HandleClientData, CloseBegin, CloseRelease, connVars, storeVars
  <2> QED BY <2>1, QuickOthers
<1>2. ASSUME NEW w \in Worker, Puts(w) \/ PutsData(w) \/ PutsFinish(w)
      PROVE  \A v \in Worker : v # w => pc'[v] = pc[v]
  BY <1>2, ThreadsApart
<1>3. ASSUME NEW w \in Worker, TakeTask(w) \/ UseFreed(w) PROVE QuickInv'
  <2>1. UNCHANGED <<verdict, disk, priorRow, fileSize, handled>>
    BY <1>3 DEF TakeTask, UseFreed, connVars, storeVars
  <2>2. \A v \in Worker : \/ pc'[v] = pc[v]
                          \/ pc[v] # "handled" /\ pc'[v] \notin {"init", "handled"}
    <3>1. CASE UseFreed(w)
      BY <3>1 DEF UseFreed
    <3>2. CASE TakeTask(w)
      <4>1. ToolOf(Head(queue)) \in {"puts", "data", "finish"}
        BY <3>2, CarriesTail, PduCases DEF TakeTask, ToolOf
      <4>2. pc[w] = "idle" /\ pc' = [pc EXCEPT ![w] = ToolOf(Head(queue))]
        BY <3>2 DEF TakeTask, Goto
      <4> QED BY <4>1, <4>2
    <3> QED BY <1>3, <3>1, <3>2
  <2> QED BY <2>1, <2>2, QuickOthers
<1>4. ASSUME NEW w \in Worker, PutsLookup(w) PROVE QuickInv'
  <2>1. UNCHANGED <<disk, priorRow, fileSize, handled>> /\ pc[w] = "lookup"
    BY <1>4 DEF PutsLookup, Goto, connVars, storeVars
  <2>2. pc'[w] \in {"init", "handled"} => priorRow /\ verdict'[w] = "PUT_QUICK"
    BY <1>4 DEF PutsLookup, Goto
  <2>3. \A v \in Worker : v # w => pc'[v] = pc[v] /\ verdict'[v] = verdict[v]
    BY <1>4 DEF PutsLookup, Goto
  <2> QED BY <2>1, <2>2, <2>3, QuickOthers
<1>5. ASSUME NEW w \in Worker, PutsOpen(w) PROVE QuickInv'
  <2>1. ~priorRow /\ ~priorRow'
    BY <1>5 DEF PutsOpen, Goto, PriorInv
  <2> QED BY <2>1 DEF QuickInv
<1>6. ASSUME NEW w \in Worker, PutsInit(w) PROVE QuickInv'
  <2>1. pc'[w] = "handled" /\ pc[w] = "init" /\ UNCHANGED <<disk, priorRow, verdict>>
    BY <1>6 DEF PutsInit, Goto, storeVars
  <2> QED BY <1>2, <1>6, <2>1 DEF QuickInv, Puts
<1>7. ASSUME NEW w \in Worker, PutsHandled(w) PROVE QuickInv'
  <2>1. /\ pc'[w] = "status" /\ pc[w] = "handled" /\ UNCHANGED <<disk, priorRow, verdict>>
        /\ priorRow => handled' = Total
    BY <1>7 DEF PutsHandled, Goto, storeVars, QuickInv
  <2> QED BY <1>2, <1>7, <2>1 DEF QuickInv, Puts
<1>8. ASSUME NEW w \in Worker, DataCount(w) PROVE QuickInv'
  <2>1. pc[w] = "count" /\ pc'[w] \in {"copy", "idle"}
        /\ UNCHANGED <<disk, priorRow, fileSize, verdict>>
    BY <1>8 DEF DataCount, Goto, Return, storeVars
  <2>2. handled = Total => handled' = handled
    <3>1. job[w].chunk \in Chunk
      BY <2>1, PduCases DEF JobOK, DataSteps
    <3>2. PICK size \in Nat \ {0} : size = SizeOf(job[w].chunk)
      BY <3>1, SizeTypes
    <3>3. Total \in Nat
      BY SizeTypes
    <3>4. ~(Total <= Total - size)
      BY <3>2, <3>3
    <3> QED BY <1>8, <3>2, <3>4 DEF DataCount, Fits
  <2>3. \A v \in Worker : v # w => pc'[v] = pc[v]
    BY <1>2, <1>8 DEF PutsData
  <2>4. \A v \in Worker : pc[v] = "handled" => pc'[v] = "handled"
    BY <2>1, <2>3
  <2>5. \A v \in Worker : pc'[v] \in {"init", "handled"} => pc[v] \in {"init", "handled"}
    BY <2>1, <2>3
  <2> QED BY <2>1, <2>2, <2>4, <2>5 DEF QuickInv
<1>9. ASSUME NEW w \in Worker,
             \/ PutsStart(w) \/ PutsStatus(w) \/ PutsReply(w) \/ PutsQuick(w) \/ PutsAgain(w)
             \/ DataStart(w) \/ DataCopy(w) \/ DataAck(w) \/ DataFull(w) \/ DataInsert(w)
             \/ DataFinished(w) \/ PutsFinish(w)
      PROVE  QuickInv'
  <2>1. UNCHANGED <<disk, priorRow, fileSize, handled>>
    BY <1>9 DEF PutsStart, PutsStatus, PutsReply, PutsQuick, PutsAgain, DataStart, DataCopy,
       DataAck, DataFull, DataInsert, DataFinished, PutsFinish, connVars, storeVars
  <2>2. \A v \in Worker : v # w => verdict'[v] = verdict[v]
    BY <1>9 DEF PutsStart, PutsStatus, PutsReply, PutsQuick, PutsAgain, DataStart, DataCopy,
       DataAck, DataFull, DataInsert, DataFinished, PutsFinish, Insert
  <2>3. pc[w] # "handled"
    BY <1>9 DEF PutsStart, PutsStatus, PutsReply, PutsQuick, PutsAgain, DataStart, DataCopy,
       DataAck, DataFull, DataInsert, DataFinished, PutsFinish, Goto, Return
  <2>4. pc'[w] \in {"idle", "lookup", "reply", "quick", "done", "again", "count", "ack", "full",
                    "insert", "finished"}
    BY <1>9 DEF PutsStart, PutsStatus, PutsReply, PutsQuick, PutsAgain, DataStart, DataCopy,
       DataAck, DataFull, DataInsert, DataFinished, PutsFinish, Goto, Return
  <2>5. \A v \in Worker : v # w => pc'[v] = pc[v]
    BY <1>2, <1>9 DEF Puts, PutsData
  <2> QED BY <2>1, <2>2, <2>3, <2>4, <2>5, QuickOthers
<1> QED BY <1>1, <1>3, <1>4, <1>5, <1>6, <1>7, <1>8, <1>9, QuickCloses
           DEF ServerStep, Reactor, Pool, Puts, PutsData

LEMMA QuickStep == IndInv /\ QuickInv /\ [Next]_vars /\ [~RemovalBetween]_vars => QuickInv'
<1> SUFFICES ASSUME IndInv, QuickInv, [Next]_vars, [~RemovalBetween]_vars PROVE QuickInv'
  OBVIOUS
<1>1. CASE ServerStep /\ UNCHANGED clientVars
  <2>1. CASE UNCHANGED vars
    BY <2>1 DEF vars, QuickInv, serverVars, connVars, storeVars
  <2> QED BY <1>1, <2>1, ServerStepQuick
<1>2. CASE UNCHANGED serverVars
  BY <1>2 DEF QuickInv, serverVars, connVars, storeVars
<1>3. UNCHANGED vars => UNCHANGED serverVars
  BY DEF vars
<1> QED BY <1>1, <1>2, <1>3 DEF Next

\* The one window in which close() can remove a file that another upload has stored:
\* without a removal between the two stores of UpDownCon::init, an earlier file stays.
THEOREM PriorFileStays == Spec /\ [][~RemovalBetween]_vars => []PriorFileKept
<1>1. Init => QuickInv
  BY DEF Init, ServerInit, QuickInv
<1>2. QuickInv => PriorFileKept
  BY DEF QuickInv, PriorFileKept
<1> QED BY <1>1, <1>2, QuickStep, Inductive, PTL DEF Spec

-----------------------------------------------------------------------------
(* What ClickWakes takes: one coroutine, and no click while it falls asleep.   *)

LEMMA AwakeStep ==
  TypeInv /\ OneSender /\ AwakeInv /\ [Next]_vars /\ [~ClickBetween]_vars => AwakeInv'
<1> SUFFICES ASSUME TypeInv, OneSender, AwakeInv, [Next]_vars, [~ClickBetween]_vars
             PROVE  AwakeInv'
  OBVIOUS
<1>1. /\ sender \in [Sender -> {"off", "seek", "read", "check", "falling", "blocked", "send",
                                "end"}]
      /\ ctrl \in {"run", "pause", "stop"}
  BY DEF TypeInv, TypeOK, ClientTypeOK
<1>2. CASE UNCHANGED <<sender, ctrl>>
  BY <1>2 DEF AwakeInv
<1>3. CASE UdTool
  <2>1. UNCHANGED ctrl /\ (UNCHANGED sender \/ SendFile)
    BY <1>3 DEF UdTool, HandlePutsRespond, HandlePutsDataRespond, HandlePutsFinishRespond,
       SendCancelRequest, Slot, sendVars, userVars
  <2>2. \A i \in Sender : sender'[i] = sender[i] \/ sender'[i] = "seek"
    BY <1>1, <2>1 DEF SendFile
  <2> QED BY <2>1, <2>2 DEF AwakeInv
<1>4. ASSUME NEW i \in Sender, SendFileData(i) PROVE AwakeInv'
  <2>1. UNCHANGED ctrl
    BY <1>4 DEF SendFileData, Seek, Read, Check, FallAsleep, SendChunk, userVars
  <2>2. \A j \in Sender : j # i => sender'[j] = sender[j]
    BY <1>1, <1>4 DEF SendFileData, Seek, Read, Check, FallAsleep, SendChunk, Step
  <2>3. sender'[i] \in {"falling", "blocked"} => ctrl = "pause"
    <3>1. CASE Seek(i) \/ Read(i) \/ SendChunk(i)
      BY <1>1, <3>1 DEF Seek, Read, SendChunk, Step
    <3>2. CASE Check(i)
      BY <1>1, <3>2 DEF Check, Step, Woken
    <3>3. CASE FallAsleep(i)
      BY <3>3 DEF FallAsleep, Coroutine, AwakeInv
    <3> QED BY <1>4, <3>1, <3>2, <3>3 DEF SendFileData
  <2> QED BY <2>1, <2>2, <2>3 DEF AwakeInv
<1>5. CASE HandleStopPBClicked
  <2>1. ctrl' = "pause"
    BY <1>5 DEF HandleStopPBClicked, Click
  <2> QED BY <2>1 DEF AwakeInv
<1>6. CASE HandleContinuePBClicked \/ HandleClosePBClicked
  <2>1. ctrl' # "pause" /\ NotifyOne /\ ctrl' # ctrl
    BY <1>6 DEF HandleContinuePBClicked, HandleClosePBClicked, Click
  <2>2. \A i \in Sender : sender[i] # "falling"
    <3>1. ctrl # "pause" => \A i \in Sender : sender[i] # "falling"
      BY DEF AwakeInv
    <3>2. ~ClickBetween
      BY <2>1 DEF vars, clientVars, userVars
    <3> QED BY <2>1, <3>1, <3>2 DEF ClickBetween
  <2>3. \A i \in Sender : sender'[i] # "falling"
    BY <1>1, <2>1, <2>2 DEF NotifyOne, Step
  <2>4. \A i \in Sender : sender'[i] # "blocked"
    <3>1. CASE UNCHANGED sender /\ \A i \in Sender : sender[i] # "blocked"
      BY <3>1
    <3>2. ASSUME NEW i \in Sender, sender[i] = "blocked", Step(i, "check")
          PROVE  \A j \in Sender : sender'[j] # "blocked"
      <4>1. \A j \in Sender : j # i => sender[j] = "off"
        BY <3>2 DEF OneSender
      <4> QED BY <1>1, <3>2, <4>1 DEF Step
    <3> QED BY <2>1, <3>1, <3>2 DEF NotifyOne
  <2> QED BY <2>3, <2>4 DEF AwakeInv
<1>7. CASE UNCHANGED clientVars
  BY <1>2, <1>7 DEF clientVars, sendVars, userVars
<1>8. (ClientDies => UNCHANGED clientVars) /\ (UNCHANGED vars => UNCHANGED clientVars)
  BY DEF ClientDies, vars
<1> QED BY <1>3, <1>4, <1>5, <1>6, <1>7, <1>8 DEF Next, ClientStep, TProgress

\* The two ways in which a press of continue or close can leave a coroutine asleep:
\* it falls between the coroutine's check and its sleep, or notify_one has two
\* sleepers to choose from.  Without them every press wakes.
THEOREM ClicksWake == Spec /\ []OneSender /\ [][~ClickBetween]_vars => []ClickWakes
<1>1. Init => AwakeInv
  BY DEF Init, ClientInit, AwakeInv
<1>2. AwakeInv => ClickWakes
  BY DEF AwakeInv, ClickWakes
<1>3. IndInv => TypeInv
  BY DEF IndInv
<1> QED BY <1>1, <1>2, <1>3, AwakeStep, Inductive, PTL DEF Spec
=============================================================================
