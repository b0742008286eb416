---------------------------- MODULE DownloadProofs ----------------------------
(***************************************************************************)
(* Theorems of Download, for every number of downloads, pool threads and   *)
(* chunks.  The inductive invariant follows the one request of each        *)
(* download through the four places it can be in: the stream, the queue,   *)
(* a pool thread and the answer to it.                                     *)
(***************************************************************************)
EXTENDS Download, TLAPS

-----------------------------------------------------------------------------
(* The inductive invariant *)

\* What a thread's step says of its task; only one that sends is past the first chunk.
JobOK ==
  \A w \in Worker :
    /\ pc[w] \notin DataSteps => cur[w] = 0
    /\ pc[w] # "idle" => job[w] \in Task
    /\ pc[w] \in GetsSteps => job[w].code = "GETS"
    /\ pc[w] \in DataSteps => job[w].code = "GETS_DATA"
    /\ pc[w] \in {"control", "apply"} => job[w].code \in Actions
    /\ pc[w] \in {"finish", "answer"} => job[w].code \in {"FINISH_OK", "FINISH_BAD"}

TypeInv == TypeOK /\ JobOK

Has(s, P)  == \E i \in DOMAIN s : s[i] \in P
Once(s, P) == \A i, j \in DOMAIN s : s[i] \in P /\ s[j] \in P => i = j

TasksOf(d, codes) == [d : {d}, code : codes]
Works(w, d, codes) == pc[w] # "idle" /\ job[w] \in TasksOf(d, codes)

InStream(d, codes) == Has(toServer[d], codes)
InQueue(d, codes)  == Has(queue, TasksOf(d, codes))
InPool(d, codes)   == \E w \in Worker : Works(w, d, codes)
InReply(d, as)     == Has(toClient[d], as)

Requests == {"GETS", "GETS_DATA"}
GetsAnswers   == [code : {"GETS"}, ok : BOOLEAN]
FinishAnswers(ok) == [code : {"GETS_FINISH"}, ok : {ok}]

\* A download's request for the file, or for the data after it, is in one place
\* and once: the client asks for the data when it has taken the answer out.
OneRequest(d) ==
  /\ Once(toServer[d], Requests)
  /\ Once(queue, TasksOf(d, Requests))
  /\ \A v, w \in Worker : Works(v, d, Requests) /\ Works(w, d, Requests) => v = w
  /\ InStream(d, Requests) => ~(InQueue(d, Requests) \/ InPool(d, Requests) \/ InReply(d, GetsAnswers))
  /\ InQueue(d, Requests) => ~(InPool(d, Requests) \/ InReply(d, GetsAnswers))
  /\ InPool(d, Requests) => ~InReply(d, GetsAnswers)

Pending(d, codes) == InStream(d, codes) \/ InQueue(d, codes) \/ InPool(d, codes)
Asking(d)     == Pending(d, {"GETS"}) \/ InReply(d, GetsAnswers)
Confirming(d) == Pending(d, {"FINISH_OK"}) \/ InReply(d, FinishAnswers(TRUE))
Denying(d)    == Pending(d, {"FINISH_BAD"}) \/ InReply(d, FinishAnswers(FALSE))

\* Until the client has taken the answer to its request, nothing else has begun.
AskInv(d) ==
  Asking(d) =>
    /\ file[d] = "none" /\ recv[d] = 0 /\ handled[d] = 0
    /\ ~Confirming(d) /\ ~Denying(d)
    /\ toClient[d] = <<>> \/ (Len(toClient[d]) = 1 /\ toClient[d][1] \in GetsAnswers)

\* handled_size is where the thread that sends has got to.
DataInv(d) ==
  /\ InStream(d, {"GETS_DATA"}) \/ InQueue(d, {"GETS_DATA"}) => handled[d] = 0
  /\ \A w \in Worker : Works(w, d, {"GETS_DATA"}) /\ pc[w] # "end" => cur[w] = handled[d]

\* While the file is open the stream carries the chunks from the next one expected
\* to the last one sent, and nothing else.
StreamInv(d) ==
  file[d] = "open" =>
    /\ recv[d] < NChunks
    /\ handled[d] = recv[d] + Len(toClient[d])
    /\ \A i \in DOMAIN toClient[d] : toClient[d][i] = Data(recv[d] + i - 1)

\* What the client asks to be confirmed is the whole file, and what it gives up is
\* gone.
EndInv(d) ==
  /\ file[d] = "whole" => recv[d] = NChunks /\ sound[d]
  /\ Confirming(d) \/ "done" \in told[d] => file[d] = "whole"
  /\ Denying(d) => file[d] = "none"
  /\ worker[d] = "gone" => file[d] # "open"
  /\ "gap" \notin told[d]

DownInv(d) == OneRequest(d) /\ AskInv(d) /\ DataInv(d) /\ StreamInv(d) /\ EndInv(d)

IndInv == TypeInv /\ \A d \in Down : DownInv(d)
-----------------------------------------------------------------------------
(* Sequences as streams of messages *)

LEMMA AppendHas ==
  ASSUME NEW S, NEW s \in Seq(S), NEW x \in S, NEW P
  PROVE  /\ Append(s, x) \in Seq(S)
         /\ Has(Append(s, x), P) <=> (Has(s, P) \/ x \in P)
         /\ Once(s, P) /\ (x \in P => ~Has(s, P)) => Once(Append(s, x), P)
  <1>1. /\ Append(s, x) \in Seq(S)
        /\ DOMAIN Append(s, x) = 1..(Len(s) + 1) /\ DOMAIN s = 1..Len(s) /\ Len(s) \in Nat
        /\ Append(s, x)[Len(s) + 1] = x
        /\ \A n \in 1..Len(s) : Append(s, x)[n] = s[n]
    OBVIOUS
  <1>2. \A n \in 1..(Len(s) + 1) : n \in 1..Len(s) \/ n = Len(s) + 1
    BY <1>1
  <1>3. 1..Len(s) \subseteq 1..(Len(s) + 1) /\ Len(s) + 1 \in 1..(Len(s) + 1)
    BY <1>1
  <1> QED
    BY <1>1, <1>2, <1>3 DEF Has, Once

LEMMA HasAlso ==
  ASSUME NEW S, NEW s \in Seq(S), NEW x \in S
  PROVE  \A P : Has(Append(s, x), P) <=> (Has(s, P) \/ x \in P)
  <1> SUFFICES ASSUME NEW P PROVE Has(Append(s, x), P) <=> (Has(s, P) \/ x \in P)
    OBVIOUS
  <1> QED
    BY AppendHas

LEMMA TailHas ==
  ASSUME NEW S, NEW s \in Seq(S), s # <<>>, NEW P
  PROVE  /\ Head(s) \in S /\ Tail(s) \in Seq(S)
         /\ Has(Tail(s), P) => Has(s, P)
         /\ Head(s) \in P => Has(s, P)
         /\ Once(s, P) => Once(Tail(s), P)
         /\ Once(s, P) /\ Head(s) \in P => ~Has(Tail(s), P)
  <1>1. /\ Head(s) \in S /\ Tail(s) \in Seq(S) /\ Head(s) = s[1]
        /\ Len(s) \in Nat \ {0} /\ DOMAIN s = 1..Len(s)
        /\ DOMAIN Tail(s) = 1..(Len(s) - 1)
        /\ \A n \in 1..(Len(s) - 1) : Tail(s)[n] = s[n + 1]
    OBVIOUS
  <1>2. \A n \in 1..(Len(s) - 1) : n \in Int /\ n + 1 \in 1..Len(s) /\ n + 1 # 1
    BY <1>1
  <1>3. 1 \in 1..Len(s)
    BY <1>1
  <1>4. Has(Tail(s), P) => Has(s, P)
    BY <1>1, <1>2 DEF Has
  <1>5. Once(s, P) => Once(Tail(s), P)
    BY <1>1, <1>2 DEF Once
  <1>6. Once(s, P) /\ Head(s) \in P => ~Has(Tail(s), P)
    BY <1>1, <1>2, <1>3 DEF Has, Once
  <1> QED
    BY <1>1, <1>3, <1>4, <1>5, <1>6 DEF Has

LEMMA EmptyHas == \A P : ~Has(<<>>, P) /\ Once(<<>>, P)
  BY DEF Has, Once

LEMMA HasMore ==
  ASSUME NEW s, NEW P, NEW Q, P \subseteq Q
  PROVE  Has(s, P) => Has(s, Q)
  BY DEF Has

-----------------------------------------------------------------------------
(* Types *)

SameTask(from, to) ==
  \/ from \in GetsSteps /\ to \in GetsSteps
  \/ from \in DataSteps /\ to \in DataSteps
  \/ from \in {"control", "apply"} /\ to \in {"control", "apply"}
  \/ from \in {"finish", "answer"} /\ to \in {"finish", "answer"}

PoolTypes ==
  /\ queue \in Seq(Task) /\ pc \in [Worker -> Steps]
  /\ job \in [Worker -> Task \cup {NoJob}] /\ cur \in [Worker -> Chunk]
  /\ JobOK

LEMMA ZeroIsChunk == 0 \in Chunk /\ Chunk \subseteq Nat
  BY DownloadAssumption DEF Chunk

LEMMA GotoTypes ==
  ASSUME PoolTypes, NEW w \in Worker, NEW from, NEW to, SameTask(from, to),
         Goto(w, from, to), UNCHANGED cur
  PROVE  PoolTypes'
  <1>1. from # "idle" /\ to # "idle" /\ to \in Steps
    BY DEF SameTask, Steps, GetsSteps, DataSteps
  <1>2. pc' \in [Worker -> Steps] /\ pc'[w] = to /\ \A v \in Worker : v # w => pc'[v] = pc[v]
    BY <1>1 DEF PoolTypes, Goto
  <1>3. JobOK'
    BY <1>1, <1>2 DEF PoolTypes, Goto, JobOK, SameTask, GetsSteps, DataSteps
  <1> QED
    BY <1>2, <1>3 DEF PoolTypes, Goto

LEMMA ReturnTypes ==
  ASSUME PoolTypes, NEW w \in Worker, NEW from, Return(w, from)
  PROVE  PoolTypes'
  <1>1. pc' \in [Worker -> Steps] /\ pc'[w] = "idle" /\ \A v \in Worker : v # w => pc'[v] = pc[v]
    BY DEF PoolTypes, Return, Steps
  <1>2. /\ job' \in [Worker -> Task \cup {NoJob}] /\ cur' \in [Worker -> Chunk] /\ cur'[w] = 0
        /\ \A v \in Worker : v # w => job'[v] = job[v] /\ cur'[v] = cur[v]
    BY ZeroIsChunk DEF PoolTypes, Return
  <1>3. JobOK'
    BY <1>1, <1>2 DEF PoolTypes, JobOK, GetsSteps, DataSteps
  <1> QED
    BY <1>1, <1>2, <1>3 DEF PoolTypes, Return

\* The variables of the connections and of the clients, each with its type.
RestTypes ==
  /\ toServer \in [Down -> Seq(Codes)] /\ toClient \in [Down -> Seq(Answers)]
  /\ status \in [Down -> {"START", "DOING", "PAUSE", "CLOSE", "FIN"}]
  /\ handled \in [Down -> 0..NChunks] /\ recv \in [Down -> 0..NChunks]
  /\ file \in [Down -> {"none", "open", "whole"}]
  /\ worker \in [Down -> {"active", "over", "stopping", "gone"}]
  /\ told \in [Down -> SUBSET {"done", "error", "gap", "cancelled"}]
  /\ clicks \in [Down -> 0..MaxClicks]

FlagTypes ==
  /\ verified \in [Down -> BOOLEAN] /\ closed \in [Down -> BOOLEAN]
  /\ sound \in [Down -> BOOLEAN] /\ serverUp \in BOOLEAN

LEMMA TypeParts == TypeInv <=> PoolTypes /\ RestTypes /\ FlagTypes
  <1>1. (\A f \in {verified, closed, sound} : f \in [Down -> BOOLEAN])
          <=> /\ verified \in [Down -> BOOLEAN] /\ closed \in [Down -> BOOLEAN]
              /\ sound \in [Down -> BOOLEAN]
    OBVIOUS
  <1> QED
    BY <1>1, Zenon DEF TypeInv, TypeOK, PoolTypes, RestTypes, FlagTypes

LEMMA TypePartsNext == PoolTypes' /\ RestTypes' /\ FlagTypes' => TypeInv'
  <1>1. FlagTypes' => \A f \in {verified', closed', sound'} : f \in [Down -> BOOLEAN]
    BY DEF FlagTypes
  <1> QED
    BY <1>1, Zenon DEF TypeInv, TypeOK, PoolTypes, RestTypes, FlagTypes

LEMMA ConIsDown ==
  ASSUME PoolTypes, NEW w \in Worker, pc[w] # "idle"
  PROVE  Con(w) \in Down /\ job[w].code \in Codes /\ job[w] = [d |-> Con(w), code |-> job[w].code]
  BY DEF PoolTypes, JobOK, Task, Con

LEMMA TaskIsOf ==
  ASSUME PoolTypes, NEW w \in Worker, pc[w] # "idle"
  PROVE  job[w] \in TasksOf(Con(w), {job[w].code})
  BY DEF PoolTypes, JobOK, Task, Con, TasksOf

LEMMA SentTypes ==
  ASSUME RestTypes, NEW d \in Down, NEW m \in Answers,
         toClient' = [toClient EXCEPT ![d] = Append(@, m)]
  PROVE  toClient' \in [Down -> Seq(Answers)]
  <1>1. Append(toClient[d], m) \in Seq(Answers)
    BY DEF RestTypes
  <1> QED
    BY <1>1 DEF RestTypes

LEMMA AnswerTypes ==
  /\ \A ok \in BOOLEAN : Answer("GETS", ok) \in Answers /\ Answer("GETS_FINISH", ok) \in Answers
  /\ \A c \in Chunk : Data(c) \in Answers
  BY DEF Answer, Answers

LEMMA GetsStepTypes ==
  ASSUME PoolTypes, RestTypes, FlagTypes, NEW w \in Worker,
         GetsStart(w) \/ GetsLookup(w) \/ GetsDoing(w) \/ GetsAccept(w) \/ GetsRefuse(w)
  PROVE  PoolTypes' /\ RestTypes' /\ FlagTypes'
  <1> USE DEF conVars, netVars, clientVars
  <1>1. CASE GetsStart(w)
    <2>1. PoolTypes'
      BY <1>1, GotoTypes, ReturnTypes DEF GetsStart, SameTask, GetsSteps
    <2> QED
      BY <1>1, <2>1 DEF GetsStart, RestTypes, FlagTypes
  <1>2. CASE GetsLookup(w)
    <2>1. PoolTypes'
      BY <1>2, GotoTypes DEF GetsLookup, SameTask, GetsSteps
    <2>2. pc[w] # "idle"
      BY <1>2 DEF GetsLookup, Goto
    <2>3. Con(w) \in Down
      BY <2>2, ConIsDown
    <2>4. handled' \in [Down -> 0..NChunks]
      <3>1. 0 \in 0..NChunks
        BY DownloadAssumption
      <3>2. handled' = [handled EXCEPT ![Con(w)] = 0] \/ handled' = handled
        BY <1>2 DEF GetsLookup
      <3> QED
        BY <3>1, <3>2 DEF RestTypes
    <2>5. verified' \in [Down -> BOOLEAN]
      BY <1>2, <2>3 DEF GetsLookup, FlagTypes
    <2> QED
      BY <1>2, <2>1, <2>4, <2>5 DEF GetsLookup, RestTypes, FlagTypes
  <1>3. CASE GetsDoing(w)
    <2>1. PoolTypes'
      BY <1>3, GotoTypes DEF GetsDoing, SameTask, GetsSteps
    <2> QED
      BY <1>3, <2>1 DEF GetsDoing, Store, RestTypes, FlagTypes
  <1>4. CASE GetsAccept(w) \/ GetsRefuse(w)
    <2>1. PoolTypes'
      BY <1>4, ReturnTypes DEF GetsAccept, GetsRefuse
    <2>2. pc[w] # "idle"
      BY <1>4 DEF GetsAccept, GetsRefuse, Return
    <2>3. Con(w) \in Down
      BY <2>2, ConIsDown
    <2>4. toClient' \in [Down -> Seq(Answers)]
      BY <1>4, <2>3, SentTypes, AnswerTypes DEF GetsAccept, GetsRefuse, Respond, Sent, NotSent, RestTypes
    <2>5. serverUp' \in BOOLEAN
      BY <1>4 DEF GetsAccept, GetsRefuse, Respond, Sent, NotSent, FlagTypes
    <2>6. status' \in [Down -> {"START", "DOING", "PAUSE", "CLOSE", "FIN"}]
      BY <1>4 DEF GetsAccept, GetsRefuse, Store, RestTypes
    <2> QED
      BY <1>4, <2>1, <2>4, <2>5, <2>6 DEF GetsAccept, GetsRefuse, RestTypes, FlagTypes
  <1> QED
    BY <1>1, <1>2, <1>3, <1>4

LEMMA DataStepTypes ==
  ASSUME PoolTypes, RestTypes, FlagTypes, NEW w \in Worker,
         \/ DataBegin(w) \/ DataSsl(w) \/ DataChunk(w) \/ DataPause(w) \/ DataWait(w)
         \/ DataSleep(w) \/ DataCancel(w) \/ DataEnd(w)
  PROVE  PoolTypes' /\ RestTypes' /\ FlagTypes'
  <1> USE DEF conVars, netVars, clientVars
  <1>1. CASE DataBegin(w)
    <2>1. PoolTypes'
      BY <1>1, GotoTypes, ReturnTypes DEF DataBegin, SameTask, DataSteps
    <2> QED
      BY <1>1, <2>1 DEF DataBegin, RestTypes, FlagTypes
  <1>2. CASE DataSsl(w)
    <2>1. PoolTypes'
      BY <1>2, GotoTypes, ReturnTypes DEF DataSsl, SameTask, DataSteps
    <2> QED
      BY <1>2, <2>1 DEF DataSsl, Store, RestTypes, FlagTypes
  <1>3. CASE DataChunk(w)
    <2>1. PoolTypes'
      BY <1>3, GotoTypes DEF DataChunk, SameTask, DataSteps
    <2>2. serverUp' \in BOOLEAN
      BY <1>3 DEF DataChunk
    <2> QED
      BY <1>3, <2>1, <2>2 DEF DataChunk, RestTypes, FlagTypes
  <1>4. CASE DataPause(w) \/ DataWait(w) \/ DataSleep(w) \/ DataCancel(w)
    <2>1. PoolTypes'
      BY <1>4, GotoTypes DEF DataPause, DataWait, DataSleep, DataCancel, Look, SameTask, DataSteps
    <2> QED
      BY <1>4, <2>1 DEF DataPause, DataWait, DataSleep, DataCancel, Look, RestTypes, FlagTypes
  <1>5. CASE DataEnd(w)
    <2>1. PoolTypes'
      BY <1>5, ReturnTypes DEF DataEnd
    <2> QED
      BY <1>5, <2>1 DEF DataEnd, Store, RestTypes, FlagTypes
  <1> QED
    BY <1>1, <1>2, <1>3, <1>4, <1>5

LEMMA ControlStepTypes ==
  ASSUME PoolTypes, RestTypes, FlagTypes, NEW w \in Worker,
         FinishCheck(w) \/ FinishAnswer(w) \/ ControlCheck(w) \/ ControlApply(w)
  PROVE  PoolTypes' /\ RestTypes' /\ FlagTypes'
  <1> USE DEF conVars, netVars, clientVars
  <1>1. CASE FinishCheck(w) \/ ControlCheck(w)
    <2>1. PoolTypes'
      BY <1>1, GotoTypes, ReturnTypes DEF FinishCheck, ControlCheck, SameTask
    <2> QED
      BY <1>1, <2>1 DEF FinishCheck, ControlCheck, RestTypes, FlagTypes
  <1>2. CASE FinishAnswer(w)
    <2>1. PoolTypes'
      BY <1>2, ReturnTypes DEF FinishAnswer
    <2>2. pc[w] # "idle"
      BY <1>2 DEF FinishAnswer, Return
    <2>3. Con(w) \in Down
      BY <2>2, ConIsDown
    <2>4. Answer("GETS_FINISH", job[w].code = "FINISH_OK") \in Answers
      BY AnswerTypes
    <2>5. toClient' \in [Down -> Seq(Answers)]
      BY <1>2, <2>3, <2>4, SentTypes DEF FinishAnswer, Respond, Sent, NotSent, RestTypes
    <2>6. serverUp' \in BOOLEAN
      BY <1>2 DEF FinishAnswer, Respond, Sent, NotSent, FlagTypes
    <2> QED
      BY <1>2, <2>1, <2>5, <2>6 DEF FinishAnswer, Store, RestTypes, FlagTypes
  <1>3. CASE ControlApply(w)
    <2>1. pc' \in [Worker -> Steps] /\ pc'[w] = "idle"
          /\ \A v \in Worker : v # w => pc'[v] = pc[v] \/ (pc[v] = "asleep" /\ pc'[v] = "wait")
      BY <1>3 DEF ControlApply, PoolTypes, Steps, DataSteps
    <2>2. /\ job' \in [Worker -> Task \cup {NoJob}]
          /\ \A v \in Worker : v # w => job'[v] = job[v]
      BY <1>3 DEF PoolTypes, ControlApply
    <2>3. pc[w] = "apply" /\ cur' = cur /\ queue' = queue
      BY <1>3 DEF ControlApply
    <2>4. ASSUME NEW v \in Worker, v # w
          PROVE  /\ pc'[v] \notin DataSteps => cur'[v] = 0
                 /\ pc'[v] # "idle" => job'[v] \in Task
                 /\ pc'[v] \in GetsSteps => job'[v].code = "GETS"
                 /\ pc'[v] \in DataSteps => job'[v].code = "GETS_DATA"
                 /\ pc'[v] \in {"control", "apply"} => job'[v].code \in Actions
                 /\ pc'[v] \in {"finish", "answer"} => job'[v].code \in {"FINISH_OK", "FINISH_BAD"}
      <3>1. CASE pc'[v] = pc[v]
        BY <2>2, <2>3, <2>4, <3>1 DEF PoolTypes, JobOK
      <3>2. CASE pc[v] = "asleep" /\ pc'[v] = "wait"
        BY <2>2, <2>3, <2>4, <3>2 DEF PoolTypes, JobOK, GetsSteps, DataSteps
      <3> QED
        BY <2>1, <2>4, <3>1, <3>2
    <2>5. JobOK'
      <3>1. cur'[w] = 0
        BY <2>3 DEF PoolTypes, JobOK, DataSteps
      <3>2. /\ pc'[w] \notin GetsSteps /\ pc'[w] \notin DataSteps
            /\ pc'[w] \notin {"control", "apply"} /\ pc'[w] \notin {"finish", "answer"}
        BY <2>1 DEF GetsSteps, DataSteps
      <3> QED
        BY <2>1, <2>4, <3>1, <3>2 DEF JobOK
    <2>6. status' \in [Down -> {"START", "DOING", "PAUSE", "CLOSE", "FIN"}]
      <3>1. job[w].code \in Actions
        BY <2>3 DEF PoolTypes, JobOK
      <3> QED
        BY <1>3, <3>1 DEF ControlApply, Store, RestTypes, Actions
    <2> QED
      BY <1>3, <2>1, <2>2, <2>3, <2>5, <2>6 DEF ControlApply, PoolTypes, RestTypes, FlagTypes
  <1> QED
    BY <1>1, <1>2, <1>3

\* The thread that sends is at the chunk handled_size says.
LEMMA SenderAt ==
  ASSUME PoolTypes, NEW w \in Worker, pc[w] \in DataSteps, pc[w] # "end", DataInv(Con(w))
  PROVE  cur[w] = handled[Con(w)] /\ handled[Con(w)] + 1 \in 0..NChunks
  <1>1. Works(w, Con(w), {"GETS_DATA"})
    BY ConIsDown DEF Works, TasksOf, PoolTypes, JobOK, DataSteps
  <1>2. cur[w] \in Chunk
    BY DEF PoolTypes
  <1> QED
    BY <1>1, <1>2, DownloadAssumption DEF DataInv, Chunk

LEMMA SendTypes ==
  ASSUME PoolTypes, RestTypes, FlagTypes, NEW w \in Worker, DataSend(w), DataInv(Con(w))
  PROVE  PoolTypes' /\ RestTypes' /\ FlagTypes'
  <1>1. pc[w] = "send" /\ pc' \in [Worker -> Steps] /\ pc'[w] \in {"end", "chunk"}
        /\ \A v \in Worker : v # w => pc'[v] = pc[v]
    BY DEF DataSend, Goto, PoolTypes, Steps, DataSteps
  <1>2. queue' = queue /\ job' = job
    BY DEF DataSend, Goto
  <1>3. job[w].code = "GETS_DATA" /\ Con(w) \in Down /\ job[w] \in Task
    BY <1>1, ConIsDown DEF PoolTypes, JobOK, DataSteps
  <1>4. cur[w] \in Chunk
    BY DEF PoolTypes
  <1>5. /\ cur' \in [Worker -> Chunk]
        /\ \A v \in Worker : v # w => cur'[v] = cur[v]
    <2>1. cur[w] # NChunks - 1 => cur[w] + 1 \in Chunk
      BY <1>4, DownloadAssumption DEF Chunk
    <2>2. CASE cur' = cur
      BY <2>2 DEF PoolTypes
    <2>3. CASE cur' = [cur EXCEPT ![w] = IF @ = NChunks - 1 THEN @ ELSE @ + 1]
      BY <2>1, <2>3 DEF PoolTypes
    <2> QED
      BY <2>2, <2>3 DEF DataSend
  <1>6. PoolTypes'
    <2>1. JobOK'
      BY <1>1, <1>2, <1>3, <1>5 DEF PoolTypes, JobOK, GetsSteps, DataSteps
    <2> QED
      BY <1>1, <1>2, <1>5, <2>1 DEF PoolTypes
  <1>7. toClient' \in [Down -> Seq(Answers)]
    <2>1. Data(cur[w]) \in Answers
      BY <1>4, AnswerTypes
    <2> QED
      BY <1>3, <2>1, SentTypes DEF DataSend, Sent, NotSent, RestTypes
  <1>8. serverUp' \in BOOLEAN
    BY DEF DataSend, Sent, NotSent, FlagTypes
  <1>9. handled' \in [Down -> 0..NChunks]
    <2>1. handled[Con(w)] + 1 \in 0..NChunks
      BY <1>1, SenderAt DEF DataSteps
    <2>2. CASE handled' = handled
      BY <2>2 DEF RestTypes
    <2>3. CASE handled' = [handled EXCEPT ![Con(w)] = @ + 1]
      BY <1>3, <2>1, <2>3 DEF RestTypes
    <2> QED
      BY <2>2, <2>3 DEF DataSend
  <1>10. RestTypes'
    BY <1>7, <1>9 DEF DataSend, RestTypes, clientVars
  <1>11. FlagTypes'
    BY <1>8 DEF DataSend, FlagTypes
  <1> QED
    BY <1>6, <1>10, <1>11

LEMMA TakeTaskTypes ==
  ASSUME PoolTypes, RestTypes, FlagTypes, NEW w \in Worker, TakeTask(w)
  PROVE  PoolTypes' /\ RestTypes' /\ FlagTypes'
  <1> USE DEF TakeTask
  <1>1. queue \in Seq(Task) /\ queue # <<>>
    BY DEF PoolTypes
  <1>2. Head(queue) \in Task /\ Tail(queue) \in Seq(Task)
    BY <1>1
  <1>3. Head(queue).code \in Codes
    BY <1>2 DEF Task
  <1>4. /\ pc' \in [Worker -> Steps] /\ pc'[w] = Entry(Head(queue).code)
        /\ \A v \in Worker : v # w => pc'[v] = pc[v]
    BY <1>3 DEF PoolTypes, Entry, Steps, GetsSteps, DataSteps
  <1>5. /\ job' \in [Worker -> Task \cup {NoJob}] /\ job'[w] = Head(queue)
        /\ \A v \in Worker : v # w => job'[v] = job[v]
    BY <1>2 DEF PoolTypes
  <1>6. cur' = cur /\ cur[w] = 0
    BY DEF PoolTypes, JobOK, DataSteps
  <1>7. /\ pc'[w] # "idle" /\ pc'[w] \in {"start", "begin", "control", "finish"}
        /\ pc'[w] = "start" => Head(queue).code = "GETS"
        /\ pc'[w] = "begin" => Head(queue).code = "GETS_DATA"
        /\ pc'[w] = "control" => Head(queue).code \in Actions
        /\ pc'[w] = "finish" => Head(queue).code \in {"FINISH_OK", "FINISH_BAD"}
    BY <1>3, <1>4 DEF Entry, Codes, Actions
  <1>8. JobOK'
    BY <1>2, <1>4, <1>5, <1>6, <1>7 DEF PoolTypes, JobOK, GetsSteps, DataSteps
  <1>9. PoolTypes'
    BY <1>2, <1>4, <1>5, <1>6, <1>8 DEF PoolTypes
  <1>10. RestTypes' /\ FlagTypes'
    BY DEF RestTypes, FlagTypes, netVars, conVars, clientVars
  <1> QED
    BY <1>9, <1>10

LEMMA ReactorStepTypes ==
  ASSUME PoolTypes, RestTypes, FlagTypes, NEW d \in Down, HandleClientData(d) \/ CloseCon(d)
  PROVE  PoolTypes' /\ RestTypes' /\ FlagTypes'
  <1>1. CASE HandleClientData(d)
    <2>1. toServer[d] \in Seq(Codes) /\ toServer[d] # <<>>
      BY <1>1 DEF HandleClientData, RestTypes
    <2>2. Head(toServer[d]) \in Codes /\ Tail(toServer[d]) \in Seq(Codes)
      BY <2>1
    <2>3. queue' \in Seq(Task)
      BY <1>1, <2>2 DEF HandleClientData, PoolTypes, Task
    <2>4. toServer' \in [Down -> Seq(Codes)]
      BY <1>1, <2>2 DEF HandleClientData, RestTypes
    <2>5. PoolTypes'
      BY <1>1, <2>3 DEF HandleClientData, PoolTypes, JobOK
    <2>6. RestTypes' /\ FlagTypes'
      BY <1>1, <2>4 DEF HandleClientData, RestTypes, FlagTypes, conVars, clientVars
    <2> QED
      BY <2>5, <2>6
  <1>2. CASE CloseCon(d)
    <2>1. PoolTypes'
      BY <1>2 DEF CloseCon, PoolTypes, JobOK, poolVars
    <2>2. RestTypes'
      BY <1>2 DEF CloseCon, RestTypes, netVars, clientVars
    <2>3. FlagTypes'
      BY <1>2 DEF CloseCon, FlagTypes
    <2> QED
      BY <2>1, <2>2, <2>3
  <1> QED
    BY <1>1, <1>2

LEMMA WriteTypes ==
  ASSUME RestTypes, NEW d \in Down, NEW m \in Codes, Write(d, m)
  PROVE  toServer' \in [Down -> Seq(Codes)]
  <1>1. Append(toServer[d], m) \in Seq(Codes)
    BY DEF RestTypes
  <1> QED
    BY <1>1 DEF Write, RestTypes

LEMMA TellTypes ==
  ASSUME RestTypes, NEW d \in Down, NEW os \in SUBSET {"done", "error", "gap", "cancelled"},
         Tell(d, os)
  PROVE  /\ told' \in [Down -> SUBSET {"done", "error", "gap", "cancelled"}]
         /\ worker' \in [Down -> {"active", "over", "stopping", "gone"}]
  BY DEF Tell, RestTypes

LEMMA HandlesTypes ==
  ASSUME RestTypes, NEW d \in Down, NEW code, Handles(d, code)
  PROVE  /\ toClient' \in [Down -> Seq(Answers)] /\ clicks' = clicks
         /\ Head(toClient[d]) \in Answers /\ Head(toClient[d]).code = code
         /\ toClient[d] # <<>>
  <1>1. toClient[d] \in Seq(Answers) /\ toClient[d] # <<>>
    BY DEF Handles, RestTypes
  <1>2. Head(toClient[d]) \in Answers /\ Tail(toClient[d]) \in Seq(Answers)
    BY <1>1
  <1> QED
    BY <1>2 DEF Handles, RestTypes

\* What the client does leaves the server's side as it is.
LEMMA ClientLeaves ==
  ASSUME PoolTypes, FlagTypes, UNCHANGED <<poolVars, conVars>>
  PROVE  PoolTypes' /\ FlagTypes' /\ UNCHANGED <<status, handled>>
  BY DEF PoolTypes, FlagTypes, JobOK, poolVars, conVars

\* A chunk that the client expects is one of the file.
LEMMA ChunkTypes ==
  ASSUME NEW m \in Answers, m.code = "GETS_DATA"
  PROVE  m.chunk \in Chunk /\ m = Data(m.chunk)
  BY DEF Answers, Data

LEMMA OkTypes ==
  ASSUME NEW m \in Answers, m.code \in {"GETS", "GETS_FINISH"}
  PROVE  m.ok \in BOOLEAN /\ m = Answer(m.code, m.ok)
  BY DEF Answers, Answer, Data

LEMMA ExpectedFits ==
  ASSUME NEW d \in Down, RestTypes, Handles(d, "GETS_DATA"), Expected(d)
  PROVE  recv[d] + 1 \in 0..NChunks
  <1>1. Head(toClient[d]).chunk \in Chunk
    BY HandlesTypes, ChunkTypes
  <1> QED
    BY <1>1, DownloadAssumption DEF Expected, Chunk

LEMMA SlotTypes ==
  ASSUME PoolTypes, RestTypes, FlagTypes, NEW d \in Down, Slots(d)
  PROVE  PoolTypes' /\ RestTypes' /\ FlagTypes'
  <1> DEFINE Told == SUBSET {"done", "error", "gap", "cancelled"}
  <1> USE ClientLeaves DEF Slot
  <1>1. CASE HandleGetsRespond(d)
    <2>1. PoolTypes' /\ FlagTypes' /\ UNCHANGED <<status, handled>>
      BY <1>1 DEF HandleGetsRespond, Handles
    <2>2. toClient' \in [Down -> Seq(Answers)] /\ clicks' = clicks /\ recv' = recv
      BY <1>1, HandlesTypes DEF HandleGetsRespond
    <2>3. toServer' \in [Down -> Seq(Codes)]
      <3>1. "GETS_DATA" \in Codes
        BY DEF Codes
      <3> QED
        BY <1>1, <3>1, WriteTypes DEF HandleGetsRespond, RemoveAndFail, RestTypes
    <2>4. told' \in [Down -> Told] /\ worker' \in [Down -> {"active", "over", "stopping", "gone"}]
      BY <1>1, TellTypes DEF HandleGetsRespond, RemoveAndFail, RestTypes
    <2>5. file' \in [Down -> {"none", "open", "whole"}]
      BY <1>1 DEF HandleGetsRespond, RemoveAndFail, SetFile, RestTypes
    <2> QED
      BY <2>1, <2>2, <2>3, <2>4, <2>5 DEF RestTypes
  <1>2. CASE HandleRecvTranDataPdu(d)
    <2>1. PoolTypes' /\ FlagTypes' /\ UNCHANGED <<status, handled>>
      BY <1>2 DEF HandleRecvTranDataPdu, Handles
    <2>2. toClient' \in [Down -> Seq(Answers)] /\ clicks' = clicks
      BY <1>2, HandlesTypes DEF HandleRecvTranDataPdu
    <2>3. toServer' \in [Down -> Seq(Codes)]
      <3>1. \A b : (IF b THEN "FINISH_OK" ELSE "FINISH_BAD") \in Codes
        BY DEF Codes
      <3> QED
        BY <1>2, <3>1, WriteTypes DEF HandleRecvTranDataPdu, RemoveAndFail, RestTypes
    <2>4. told' \in [Down -> Told] /\ worker' \in [Down -> {"active", "over", "stopping", "gone"}]
      BY <1>2, TellTypes DEF HandleRecvTranDataPdu, RemoveAndFail, RestTypes
    <2>5. file' \in [Down -> {"none", "open", "whole"}]
      BY <1>2, ZenonT(30) DEF HandleRecvTranDataPdu, RemoveAndFail, SetFile, RestTypes
    <2>6. recv' \in [Down -> 0..NChunks]
      BY <1>2, ExpectedFits DEF HandleRecvTranDataPdu, RestTypes
    <2> QED
      BY <2>1, <2>2, <2>3, <2>4, <2>5, <2>6 DEF RestTypes
  <1>3. CASE HandleGetsFinishRespond(d)
    <2>1. PoolTypes' /\ FlagTypes' /\ UNCHANGED <<status, handled>>
      BY <1>3 DEF HandleGetsFinishRespond, Handles
    <2>2. toClient' \in [Down -> Seq(Answers)] /\ clicks' = clicks
      BY <1>3, HandlesTypes DEF HandleGetsFinishRespond
    <2>3. told' \in [Down -> Told] /\ worker' \in [Down -> {"active", "over", "stopping", "gone"}]
      BY <1>3, TellTypes DEF HandleGetsFinishRespond
    <2>4. file' \in [Down -> {"none", "open", "whole"}]
      BY <1>3 DEF HandleGetsFinishRespond, SetFile, RestTypes
    <2> QED
      BY <1>3, <2>1, <2>2, <2>3, <2>4 DEF HandleGetsFinishRespond, RestTypes
  <1> QED
    BY <1>1, <1>2, <1>3 DEF Slots

LEMMA ButtonTypes ==
  ASSUME PoolTypes, RestTypes, FlagTypes, NEW d \in Down,
         SendControl(d) \/ SendCancelRequest(d) \/ BeginStop(d) \/ EndStop(d)
  PROVE  PoolTypes' /\ RestTypes' /\ FlagTypes'
  <1> DEFINE Told == SUBSET {"done", "error", "gap", "cancelled"}
  <1> USE ClientLeaves DEF Slot
  <1>1. CASE SendControl(d)
    <2>1. PoolTypes' /\ FlagTypes' /\ UNCHANGED <<status, handled>>
      BY <1>1 DEF SendControl
    <2>2. clicks' \in [Down -> 0..MaxClicks]
      BY <1>1, DownloadAssumption DEF SendControl, RestTypes
    <2>3. toServer' \in [Down -> Seq(Codes)]
      <3>1. {"PAUSE", "RESUME"} \subseteq Codes
        BY DEF Codes, Actions
      <3> QED
        BY <1>1, <3>1, WriteTypes DEF SendControl
    <2>4. told' \in [Down -> Told] /\ worker' \in [Down -> {"active", "over", "stopping", "gone"}]
      BY <1>1, TellTypes DEF SendControl, RestTypes
    <2> QED
      BY <1>1, <2>1, <2>2, <2>3, <2>4 DEF SendControl, RestTypes
  <1>2. CASE SendCancelRequest(d)
    <2>1. PoolTypes' /\ FlagTypes' /\ UNCHANGED <<status, handled>>
      BY <1>2 DEF SendCancelRequest
    <2>2. toServer' \in [Down -> Seq(Codes)]
      <3>1. "CANCEL" \in Codes
        BY DEF Codes, Actions
      <3> QED
        BY <1>2, <3>1, WriteTypes DEF SendCancelRequest
    <2>3. told' \in [Down -> Told] /\ worker' \in [Down -> {"active", "over", "stopping", "gone"}]
      BY <1>2, TellTypes DEF SendCancelRequest, RestTypes
    <2>4. file' \in [Down -> {"none", "open", "whole"}]
      BY <1>2 DEF SendCancelRequest, SetFile, RestTypes
    <2> QED
      BY <1>2, <2>1, <2>2, <2>3, <2>4 DEF SendCancelRequest, RestTypes
  <1>3. CASE BeginStop(d)
    BY <1>3 DEF BeginStop, RestTypes, netVars
  <1>4. CASE EndStop(d)
    <2>1. file' \in [Down -> {"none", "open", "whole"}]
      BY <1>4 DEF EndStop, SetFile, RestTypes
    <2> QED
      BY <1>4, <2>1 DEF EndStop, RestTypes, netVars
  <1> QED
    BY <1>1, <1>2, <1>3, <1>4

LEMMA TypesInit == Init => PoolTypes /\ RestTypes /\ FlagTypes
  <1> SUFFICES ASSUME Init PROVE PoolTypes /\ RestTypes /\ FlagTypes
    OBVIOUS
  <1>1. PoolTypes
    BY ZeroIsChunk DEF Init, PoolTypes, JobOK, Steps, GetsSteps, DataSteps
  <1>2. \A d \in Down : toServer[d] = <<"GETS">>
    BY DEF Init
  <1>3. <<"GETS">> \in Seq(Codes) /\ <<>> \in Seq(Answers)
    BY DEF Codes
  <1>4. RestTypes
    BY <1>3, DownloadAssumption DEF Init, RestTypes
  <1>5. FlagTypes
    BY DEF Init, FlagTypes
  <1> QED
    BY <1>1, <1>4, <1>5

-----------------------------------------------------------------------------
(* Steps that leave a download's messages where they are, or take some away *)

\* A thread that works for d after the step did so before it, at the same chunk.
PoolLess(d) ==
  \A w \in Worker, codes \in SUBSET Codes :
    Works(w, d, codes)' => /\ Works(w, d, codes)
                           /\ cur'[w] = cur[w]
                           /\ pc'[w] # "end" => pc[w] # "end"

QueueLess(d) ==
  /\ Once(queue, TasksOf(d, Requests)) => Once(queue', TasksOf(d, Requests))
  /\ \A codes \in SUBSET Codes : InQueue(d, codes)' => InQueue(d, codes)

LEMMA CodeSets ==
  /\ Requests \in SUBSET Codes
  /\ \A c \in Codes : {c} \in SUBSET Codes
  /\ {"GETS", "GETS_DATA", "FINISH_OK", "FINISH_BAD"} \subseteq Codes
  BY DEF Requests, Codes

LEMMA PendingLess ==
  ASSUME NEW d \in Down, PoolLess(d), QueueLess(d), toServer'[d] = toServer[d]
  PROVE  /\ \A codes \in SUBSET Codes : InStream(d, codes)' <=> InStream(d, codes)
         /\ \A codes \in SUBSET Codes : InPool(d, codes)' => InPool(d, codes)
         /\ \A codes \in SUBSET Codes : Pending(d, codes)' => Pending(d, codes)
  <1>1. \A codes \in SUBSET Codes : InStream(d, codes)' <=> InStream(d, codes)
    BY DEF InStream
  <1>2. \A codes \in SUBSET Codes : InPool(d, codes)' => InPool(d, codes)
    BY DEF InPool, PoolLess
  <1> QED
    BY <1>1, <1>2 DEF Pending, QueueLess

LEMMA Untouched ==
  ASSUME NEW d \in Down, DownInv(d), PoolLess(d), QueueLess(d),
         toServer'[d] = toServer[d], toClient'[d] = toClient[d],
         handled'[d] = handled[d], sound'[d] = sound[d], file'[d] = file[d],
         recv'[d] = recv[d], told'[d] = told[d], worker'[d] = worker[d]
  PROVE  DownInv(d)'
  <1> USE DEF DownInv
  <1>1. /\ \A codes \in SUBSET Codes : InStream(d, codes)' <=> InStream(d, codes)
        /\ \A codes \in SUBSET Codes : InPool(d, codes)' => InPool(d, codes)
        /\ \A codes \in SUBSET Codes : InQueue(d, codes)' => InQueue(d, codes)
        /\ \A codes \in SUBSET Codes : Pending(d, codes)' => Pending(d, codes)
        /\ \A as : InReply(d, as)' <=> InReply(d, as)
    BY PendingLess DEF QueueLess, InReply
  <1>2. OneRequest(d)'
    <2>1. \A v, w \in Worker : Works(v, d, Requests)' /\ Works(w, d, Requests)' => v = w
      BY CodeSets DEF PoolLess, OneRequest
    <2> QED
      BY <1>1, <2>1, CodeSets DEF OneRequest, QueueLess
  <1>3. /\ Asking(d)' => Asking(d)
        /\ Confirming(d)' => Confirming(d)
        /\ Denying(d)' => Denying(d)
    BY <1>1, CodeSets DEF Asking, Confirming, Denying
  <1>4. AskInv(d)'
    BY <1>3 DEF AskInv
  <1>5. DataInv(d)'
    BY <1>1, CodeSets DEF DataInv, PoolLess
  <1>6. StreamInv(d)'
    BY DEF StreamInv
  <1>7. EndInv(d)'
    BY <1>3 DEF EndInv
  <1> QED
    BY <1>2, <1>4, <1>5, <1>6, <1>7

LEMMA GotoLess ==
  ASSUME PoolTypes, NEW w \in Worker, NEW from, NEW to, from # "idle", to # "end" => from # "end",
         Goto(w, from, to), UNCHANGED cur, NEW d \in Down
  PROVE  PoolLess(d) /\ QueueLess(d)
  <1>1. pc[w] = from /\ pc'[w] = to /\ \A v \in Worker : v # w => pc'[v] = pc[v]
    BY DEF Goto, PoolTypes
  <1>2. PoolLess(d)
    BY <1>1 DEF Goto, PoolLess, Works
  <1> QED
    BY <1>2 DEF Goto, QueueLess, InQueue

LEMMA ReturnLess ==
  ASSUME PoolTypes, NEW w \in Worker, NEW from, Return(w, from), NEW d \in Down
  PROVE  /\ PoolLess(d) /\ QueueLess(d)
         /\ \A codes : ~Works(w, d, codes)'
  <1>1. /\ pc'[w] = "idle"
        /\ \A v \in Worker : v # w => pc'[v] = pc[v] /\ job'[v] = job[v] /\ cur'[v] = cur[v]
    BY DEF Return, PoolTypes
  <1>2. PoolLess(d)
    BY <1>1 DEF PoolLess, Works
  <1> QED
    BY <1>1, <1>2 DEF Return, QueueLess, InQueue, Works

\* All that a step of a pool thread can leave as it is.
Leaves == UNCHANGED <<toServer, toClient, handled, sound, file, recv, told, worker>>

LEMMA QuietStep ==
  ASSUME PoolTypes, RestTypes, \A d \in Down : DownInv(d), NEW w \in Worker,
         \/ GetsStart(w) \/ GetsLookup(w) \/ GetsDoing(w) \/ DataBegin(w) \/ DataSsl(w)
         \/ DataChunk(w) \/ DataPause(w) \/ DataWait(w) \/ DataSleep(w) \/ DataCancel(w)
         \/ DataEnd(w) \/ FinishCheck(w) \/ ControlCheck(w) \/ ControlApply(w)
  PROVE  \A d \in Down : DownInv(d)'
  <1> SUFFICES Leaves /\ \A d \in Down : PoolLess(d) /\ QueueLess(d)
    BY Untouched DEF Leaves
  <1> USE DEF netVars, conVars, clientVars
  <1>1. CASE GetsStart(w) \/ DataBegin(w) \/ DataSsl(w) \/ FinishCheck(w) \/ ControlCheck(w)
    <2>1. \A d \in Down : PoolLess(d) /\ QueueLess(d)
      BY <1>1, GotoLess, ReturnLess DEF GetsStart, DataBegin, DataSsl, FinishCheck, ControlCheck
    <2> QED
      BY <1>1, <2>1 DEF Leaves, GetsStart, DataBegin, DataSsl, FinishCheck, ControlCheck
  <1>2. CASE GetsLookup(w)
    <2>1. \A d \in Down : PoolLess(d) /\ QueueLess(d)
      BY <1>2, GotoLess DEF GetsLookup
    <2>2. pc[w] = "lookup"
      BY <1>2 DEF GetsLookup, Goto
    <2>3. Con(w) \in Down /\ Works(w, Con(w), {"GETS"})
      BY <2>2, ConIsDown DEF Works, TasksOf, PoolTypes, JobOK, GetsSteps
    <2>4. handled[Con(w)] = 0
      BY <2>3 DEF DownInv, AskInv, Asking, Pending, InPool
    <2>5. handled' = handled
      <3>1. [handled EXCEPT ![Con(w)] = 0] = handled
        BY <2>3, <2>4 DEF RestTypes
      <3> QED
        BY <1>2, <3>1 DEF GetsLookup
    <2> QED
      BY <1>2, <2>1, <2>5 DEF Leaves, GetsLookup
  <1>3. CASE GetsDoing(w) \/ DataChunk(w)
    <2>1. \A d \in Down : PoolLess(d) /\ QueueLess(d)
      BY <1>3, GotoLess DEF GetsDoing, DataChunk
    <2> QED
      BY <1>3, <2>1 DEF Leaves, GetsDoing, DataChunk
  <1>4. CASE DataPause(w) \/ DataWait(w) \/ DataSleep(w) \/ DataCancel(w)
    <2>1. \A d \in Down : PoolLess(d) /\ QueueLess(d)
      BY <1>4, GotoLess DEF DataPause, DataWait, DataSleep, DataCancel, Look
    <2> QED
      BY <1>4, <2>1 DEF Leaves, DataPause, DataWait, DataSleep, DataCancel, Look
  <1>5. CASE DataEnd(w)
    <2>1. \A d \in Down : PoolLess(d) /\ QueueLess(d)
      BY <1>5, ReturnLess DEF DataEnd
    <2> QED
      BY <1>5, <2>1 DEF Leaves, DataEnd
  <1>6. CASE ControlApply(w)
    <2>1. \A v \in Worker : pc'[v] # "idle" =>
            /\ pc[v] # "idle" /\ job'[v] = job[v] /\ cur'[v] = cur[v]
            /\ pc'[v] # "end" => pc[v] # "end"
      BY <1>6 DEF ControlApply, PoolTypes
    <2>2. \A d \in Down : PoolLess(d)
      BY <2>1 DEF PoolLess, Works
    <2>3. \A d \in Down : QueueLess(d)
      BY <1>6 DEF ControlApply, QueueLess, InQueue
    <2> QED
      BY <1>6, <2>2, <2>3 DEF Leaves, ControlApply
  <1> QED
    BY <1>1, <1>2, <1>3, <1>4, <1>5, <1>6

LEMMA CloseStep ==
  ASSUME PoolTypes, \A d \in Down : DownInv(d), NEW c \in Down, CloseCon(c)
  PROVE  \A d \in Down : DownInv(d)'
  <1>1. \A d \in Down : PoolLess(d) /\ QueueLess(d)
    BY DEF CloseCon, poolVars, PoolLess, QueueLess, Works, InQueue
  <1> QED
    BY <1>1, Untouched DEF CloseCon, netVars, clientVars

-----------------------------------------------------------------------------
(* Answers to requests and to the confirmation *)

\* One stream of a function of streams grows by a message.
LEMMA OneGrows ==
  ASSUME NEW S, NEW f \in [Down -> Seq(S)], NEW d \in Down, NEW m \in S,
         NEW g, g = [f EXCEPT ![d] = Append(@, m)]
  PROVE  /\ g[d] = Append(f[d], m) /\ f[d] \in Seq(S)
         /\ \A e \in Down : e # d => g[e] = f[e]
  OBVIOUS

LEMMA AnswerElsewhere ==
  ASSUME PoolTypes, RestTypes, \A d \in Down : DownInv(d),
         NEW w \in Worker, NEW from, NEW m \in Answers, from # "idle",
         Return(w, from), Respond(w, m),
         UNCHANGED <<toServer, handled, sound, file, recv, told, worker>>,
         NEW d \in Down, toClient' = toClient \/ d # Con(w)
  PROVE  DownInv(d)'
  <1>1. Con(w) \in Down
    BY ConIsDown DEF Return
  <1>2. toClient'[d] = toClient[d]
    <2>1. CASE toClient' = toClient
      BY <2>1
    <2>2. CASE toClient' # toClient
      <3>1. toClient' = [toClient EXCEPT ![Con(w)] = Append(@, m)] /\ d # Con(w)
        BY <2>2 DEF Respond, Sent, NotSent
      <3> QED
        BY <3>1 DEF RestTypes
    <2> QED
      BY <2>1, <2>2
  <1> QED
    BY <1>2, ReturnLess, Untouched

LEMMA GetsReply ==
  ASSUME PoolTypes, RestTypes, NEW w \in Worker, NEW d \in Down, d = Con(w), DownInv(d),
         NEW from \in GetsSteps, Return(w, from), NEW m \in GetsAnswers, Sent(w, m),
         UNCHANGED <<toServer, handled, sound, file, recv, told, worker>>
  PROVE  DownInv(d)'
  <1> USE DEF DownInv
  <1>1. pc[w] \in GetsSteps /\ pc[w] # "idle"
    BY DEF Return, GetsSteps
  <1>2. Works(w, d, {"GETS"}) /\ Works(w, d, Requests)
    BY <1>1, ConIsDown DEF Works, TasksOf, PoolTypes, JobOK, Requests
  <1>3. Asking(d) /\ InPool(d, Requests)
    BY <1>2 DEF Asking, Pending, InPool
  <1>4. ~InStream(d, Requests) /\ ~InQueue(d, Requests) /\ ~InReply(d, GetsAnswers)
    BY <1>3 DEF OneRequest
  <1>5. toClient[d] = <<>>
    <2>1. Len(toClient[d]) = 1 => 1 \in DOMAIN toClient[d]
      BY DEF RestTypes
    <2> QED
      BY <1>3, <1>4, <2>1 DEF AskInv, InReply, Has
  <1>6. toClient'[d] = <<m>>
    <2>1. toClient'[d] = Append(toClient[d], m)
      BY DEF Sent, RestTypes
    <2> QED
      BY <1>5, <2>1
  <1>7. PoolLess(d) /\ QueueLess(d) /\ \A codes : ~Works(w, d, codes)'
    BY ReturnLess
  <1>8. /\ \A codes \in SUBSET Codes : InStream(d, codes)' <=> InStream(d, codes)
        /\ \A codes \in SUBSET Codes : InQueue(d, codes)' => InQueue(d, codes)
        /\ \A codes \in SUBSET Codes : InPool(d, codes)' => InPool(d, codes)
        /\ \A codes \in SUBSET Codes : Pending(d, codes)' => Pending(d, codes)
    BY <1>7, PendingLess DEF QueueLess
  <1>9. \A v \in Worker : ~Works(v, d, Requests)'
    BY <1>2, <1>7, CodeSets DEF PoolLess, OneRequest
  <1>10. OneRequest(d)'
    BY <1>4, <1>7, <1>8, <1>9, CodeSets DEF OneRequest, QueueLess, InPool
  <1>11. ~Confirming(d)' /\ ~Denying(d)'
    <2>1. \A ok : m \notin FinishAnswers(ok)
      BY DEF GetsAnswers, FinishAnswers
    <2>2. \A ok : ~InReply(d, FinishAnswers(ok))'
      BY <1>6, <2>1 DEF InReply, Has
    <2> QED
      BY <1>3, <1>8, <2>2, CodeSets DEF AskInv, Confirming, Denying
  <1>12. AskInv(d)'
    BY <1>3, <1>6, <1>11 DEF AskInv
  <1>13. DataInv(d)'
    BY <1>7, <1>8, CodeSets DEF DataInv, PoolLess
  <1>14. StreamInv(d)' /\ EndInv(d)'
    BY <1>3, <1>11 DEF AskInv, StreamInv, EndInv
  <1> QED
    BY <1>10, <1>12, <1>13, <1>14

LEMMA FinishReply ==
  ASSUME PoolTypes, RestTypes, NEW w \in Worker, NEW d \in Down, d = Con(w), DownInv(d),
         Return(w, "answer"), NEW m \in Answers, Sent(w, m), m \notin GetsAnswers,
         m \in FinishAnswers(TRUE) => job[w].code = "FINISH_OK",
         m \in FinishAnswers(FALSE) => job[w].code = "FINISH_BAD",
         UNCHANGED <<toServer, handled, sound, file, recv, told, worker>>
  PROVE  DownInv(d)'
  <1> USE DEF DownInv
  <1>1. pc[w] = "answer" /\ job[w].code \in {"FINISH_OK", "FINISH_BAD"}
    BY DEF Return, PoolTypes, JobOK
  <1>2. toClient'[d] = Append(toClient[d], m) /\ toClient[d] \in Seq(Answers)
    BY OneGrows DEF Sent, RestTypes
  <1>3. \A as : InReply(d, as)' <=> (InReply(d, as) \/ m \in as)
    <2>1. \A as : Has(Append(toClient[d], m), as) <=> (Has(toClient[d], as) \/ m \in as)
      BY <1>2, HasAlso
    <2> QED
      BY <1>2, <2>1 DEF InReply
  <1>4. PoolLess(d) /\ QueueLess(d)
    BY ReturnLess
  <1>5. /\ \A codes \in SUBSET Codes : InStream(d, codes)' <=> InStream(d, codes)
        /\ \A codes \in SUBSET Codes : InQueue(d, codes)' => InQueue(d, codes)
        /\ \A codes \in SUBSET Codes : InPool(d, codes)' => InPool(d, codes)
        /\ \A codes \in SUBSET Codes : Pending(d, codes)' => Pending(d, codes)
    BY <1>4, PendingLess DEF QueueLess
  <1>6. Pending(d, {job[w].code})
    <2>1. job[w] \in TasksOf(d, {job[w].code}) /\ pc[w] # "idle"
      BY <1>1, TaskIsOf
    <2>2. Works(w, d, {job[w].code})
      BY <2>1 DEF Works
    <2> QED
      BY <2>2 DEF Pending, InPool
  <1>7. m \in FinishAnswers(TRUE) => Pending(d, {"FINISH_OK"})
    BY <1>1, <1>6
  <1>8. m \in FinishAnswers(FALSE) => Pending(d, {"FINISH_BAD"})
    BY <1>1, <1>6
  <1>9. /\ Confirming(d)' => Confirming(d)
        /\ Denying(d)' => Denying(d)
    BY <1>3, <1>5, <1>7, <1>8, CodeSets DEF Confirming, Denying
  <1>10. Confirming(d) \/ Denying(d)
    BY <1>1, <1>6 DEF Confirming, Denying
  <1>11. ~Asking(d)'
    <2>1. ~Asking(d)
      BY <1>10 DEF AskInv
    <2> QED
      BY <1>3, <1>5, <2>1, CodeSets DEF Asking
  <1>12. OneRequest(d)'
    <2>1. \A v, u \in Worker : Works(v, d, Requests)' /\ Works(u, d, Requests)' => v = u
      BY <1>4, CodeSets DEF PoolLess, OneRequest
    <2>2. InReply(d, GetsAnswers)' => InReply(d, GetsAnswers)
      BY <1>3
    <2> QED
      BY <1>4, <1>5, <2>1, <2>2, CodeSets DEF OneRequest, QueueLess
  <1>13. DataInv(d)'
    BY <1>4, <1>5, CodeSets DEF DataInv, PoolLess
  <1>14. StreamInv(d)' /\ EndInv(d)'
    BY <1>9, <1>10 DEF StreamInv, EndInv
  <1> QED
    BY <1>11, <1>12, <1>13, <1>14 DEF AskInv

LEMMA AnswerStep ==
  ASSUME PoolTypes, RestTypes, \A d \in Down : DownInv(d), NEW w \in Worker,
         GetsAccept(w) \/ GetsRefuse(w) \/ FinishAnswer(w)
  PROVE  \A d \in Down : DownInv(d)'
  <1> SUFFICES ASSUME NEW d \in Down PROVE DownInv(d)'
    OBVIOUS
  <1> DEFINE Same == UNCHANGED <<toServer, handled, sound, file, recv, told, worker>>
  <1>1. CASE GetsAccept(w) \/ GetsRefuse(w)
    <2>1. PICK ok \in BOOLEAN, from \in {"accept", "refuse"} :
            Return(w, from) /\ Respond(w, Answer("GETS", ok)) /\ Same
      BY <1>1 DEF GetsAccept, GetsRefuse, clientVars
    <2>2. Answer("GETS", ok) \in GetsAnswers /\ Answer("GETS", ok) \in Answers
      BY AnswerTypes DEF GetsAnswers, Answer
    <2>3. from \in GetsSteps /\ from # "idle"
      BY DEF GetsSteps
    <2>4. CASE d = Con(w) /\ toClient' # toClient
      <3>1. Sent(w, Answer("GETS", ok))
        BY <2>1, <2>4 DEF Respond, NotSent
      <3> QED
        BY <2>1, <2>2, <2>3, <2>4, <3>1, GetsReply
    <2> QED
      BY <2>1, <2>2, <2>3, <2>4, AnswerElsewhere
  <1>2. CASE FinishAnswer(w)
    <2>1. Return(w, "answer") /\ Respond(w, Answer("GETS_FINISH", job[w].code = "FINISH_OK")) /\ Same
      BY <1>2 DEF FinishAnswer, clientVars
    <2>2. \A ok \in BOOLEAN : Answer("GETS_FINISH", ok) \in Answers \ GetsAnswers
      BY AnswerTypes DEF GetsAnswers, Answer
    <2>3. /\ \A ok \in BOOLEAN : Answer("GETS_FINISH", ok) \in FinishAnswers(TRUE) => ok = TRUE
          /\ \A ok \in BOOLEAN : Answer("GETS_FINISH", ok) \in FinishAnswers(FALSE) => ok = FALSE
      BY DEF FinishAnswers, Answer
    <2>4. job[w].code \in {"FINISH_OK", "FINISH_BAD"}
      BY <2>1 DEF Return, PoolTypes, JobOK
    <2>5. CASE d = Con(w) /\ toClient' # toClient
      <3>1. Sent(w, Answer("GETS_FINISH", job[w].code = "FINISH_OK"))
        BY <2>1, <2>5 DEF Respond, NotSent
      <3> QED
        BY <2>1, <2>2, <2>3, <2>4, <2>5, <3>1, FinishReply
    <2> QED
      BY <2>1, <2>2, <2>5, AnswerElsewhere
  <1> QED
    BY <1>1, <1>2

-----------------------------------------------------------------------------
(* The thread that sends *)

\* Who works for a download has one of its tasks, with one code.
LEMMA WorksOnce ==
  ASSUME NEW w \in Worker, NEW d \in Down, NEW codes, Works(w, d, codes)
  PROVE  Con(w) = d /\ job[w].code \in codes /\ pc[w] # "idle"
  BY DEF Works, TasksOf, Con

\* A thread with the request for the data is alone with it.
LEMMA SenderAlone ==
  ASSUME PoolTypes, RestTypes, NEW w \in Worker, NEW d \in Down, d = Con(w), DownInv(d),
         pc[w] \in DataSteps
  PROVE  /\ Works(w, d, {"GETS_DATA"}) /\ Works(w, d, Requests)
         /\ \A v \in Worker : Works(v, d, Requests) => v = w
         /\ ~InStream(d, Requests) /\ ~InQueue(d, Requests) /\ ~InReply(d, GetsAnswers)
         /\ ~InStream(d, {"GETS_DATA"}) /\ ~InQueue(d, {"GETS_DATA"})
         /\ ~Asking(d)
  <1>1. job[w].code = "GETS_DATA" /\ pc[w] # "idle"
    BY DEF PoolTypes, JobOK, DataSteps
  <1>2. job[w] \in TasksOf(d, {job[w].code}) /\ TasksOf(d, {"GETS_DATA"}) \subseteq TasksOf(d, Requests)
    BY <1>1, TaskIsOf DEF TasksOf, Requests
  <1>3. Works(w, d, {"GETS_DATA"}) /\ Works(w, d, Requests)
    BY <1>1, <1>2 DEF Works
  <1>4. /\ \A v \in Worker : Works(v, d, Requests) => v = w
        /\ ~InStream(d, Requests) /\ ~InQueue(d, Requests) /\ ~InReply(d, GetsAnswers)
    BY <1>3 DEF DownInv, OneRequest, InPool
  <1>5. \A c \in Requests : TasksOf(d, {c}) \subseteq TasksOf(d, Requests)
    BY DEF TasksOf
  <1>6. \A c \in Requests : ~InStream(d, {c}) /\ ~InQueue(d, {c})
    BY <1>4, <1>5 DEF InStream, InQueue, Has
  <1>7. ~InPool(d, {"GETS"})
    <2> SUFFICES ASSUME NEW v \in Worker, Works(v, d, {"GETS"}) PROVE FALSE
      BY DEF InPool
    <2>1. Works(v, d, Requests) /\ job[v].code = "GETS"
      BY WorksOnce, <1>5 DEF Works, Requests
    <2> QED
      BY <1>1, <1>4, <2>1
  <1> QED
    BY <1>3, <1>4, <1>6, <1>7 DEF Asking, Pending, Requests

LEMMA SentChunk ==
  ASSUME PoolTypes, RestTypes, NEW w \in Worker, NEW d \in Down, d = Con(w), DownInv(d),
         DataSend(w), Sent(w, Data(cur[w])),
         handled' = [handled EXCEPT ![d] = @ + 1],
         cur' = [cur EXCEPT ![w] = IF @ = NChunks - 1 THEN @ ELSE @ + 1],
         Goto(w, "send", IF cur[w] = NChunks - 1 THEN "end" ELSE "chunk")
  PROVE  DownInv(d)'
  <1> USE DEF DownInv
  <1> DEFINE m == Data(cur[w])
  <1>1. pc[w] = "send" /\ pc[w] \in DataSteps
    BY DEF Goto, DataSteps
  <1>2. /\ Works(w, d, {"GETS_DATA"}) /\ Works(w, d, Requests)
        /\ \A v \in Worker : Works(v, d, Requests) => v = w
        /\ ~InStream(d, Requests) /\ ~InQueue(d, Requests) /\ ~InReply(d, GetsAnswers)
        /\ ~InStream(d, {"GETS_DATA"}) /\ ~InQueue(d, {"GETS_DATA"})
        /\ ~Asking(d)
    BY <1>1, SenderAlone
  <1>3. cur[w] = handled[d] /\ cur[w] \in Chunk
    BY <1>1, <1>2 DEF DataInv, PoolTypes
  <1>4. m \in Answers /\ m \notin GetsAnswers /\ \A ok : m \notin FinishAnswers(ok)
    BY <1>3, AnswerTypes DEF Data, GetsAnswers, FinishAnswers
  <1>5. toClient'[d] = Append(toClient[d], m) /\ toClient[d] \in Seq(Answers)
    BY <1>4, OneGrows DEF Sent, RestTypes
  <1>6. \A as : InReply(d, as)' <=> (InReply(d, as) \/ m \in as)
    <2>1. \A as : Has(Append(toClient[d], m), as) <=> (Has(toClient[d], as) \/ m \in as)
      BY <1>4, <1>5, HasAlso
    <2> QED
      BY <1>5, <2>1 DEF InReply
  <1>7. \A codes : \A v \in Worker : Works(v, d, codes)' <=> Works(v, d, codes)
    <2>1. \A v \in Worker : job'[v] = job[v] /\ (pc'[v] # "idle" <=> pc[v] # "idle")
      BY <1>1 DEF Goto, PoolTypes
    <2> QED
      BY <2>1 DEF Works
  <1>8. /\ \A codes : InStream(d, codes)' <=> InStream(d, codes)
        /\ \A codes : InQueue(d, codes)' <=> InQueue(d, codes)
        /\ \A codes : InPool(d, codes)' <=> InPool(d, codes)
    BY <1>7 DEF InStream, InQueue, InPool, DataSend, Goto
  <1>9. \A codes : Pending(d, codes)' <=> Pending(d, codes)
    BY <1>8 DEF Pending
  <1>10. ~Asking(d)' /\ (Confirming(d)' => Confirming(d)) /\ (Denying(d)' => Denying(d))
    BY <1>2, <1>4, <1>6, <1>9 DEF Asking, Confirming, Denying
  <1>11. OneRequest(d)'
    BY <1>2, <1>4, <1>6, <1>7, <1>8 DEF OneRequest, DataSend, Goto
  <1>12. handled'[d] = handled[d] + 1
    BY DEF RestTypes
  <1>13. pc'[w] # "end" => cur'[w] = cur[w] + 1
    BY DEF Goto, PoolTypes
  <1>14. DataInv(d)'
    <2>1. \A v \in Worker : Works(v, d, {"GETS_DATA"}) => Works(v, d, Requests)
      BY DEF Works, TasksOf, Requests
    <2>2. \A v \in Worker : Works(v, d, {"GETS_DATA"})' => v = w
      BY <1>2, <1>7, <2>1
    <2> QED
      BY <1>2, <1>3, <1>8, <1>12, <1>13, <2>2 DEF DataInv
  <1>15. UNCHANGED <<file, recv, told, worker, sound>>
    BY DEF DataSend, clientVars
  <1>16. StreamInv(d)'
    <2> SUFFICES ASSUME file[d] = "open"
        PROVE  /\ recv[d] < NChunks
               /\ handled[d] + 1 = recv[d] + Len(toClient'[d])
               /\ \A i \in DOMAIN toClient'[d] : toClient'[d][i] = Data(recv[d] + i - 1)
      BY <1>12, <1>15 DEF StreamInv
    <2>1. /\ DOMAIN toClient[d] = 1..Len(toClient[d]) /\ Len(toClient[d]) \in Nat
          /\ DOMAIN toClient'[d] = 1..(Len(toClient[d]) + 1)
          /\ Len(toClient'[d]) = Len(toClient[d]) + 1
          /\ toClient'[d][Len(toClient[d]) + 1] = m
          /\ \A i \in 1..Len(toClient[d]) : toClient'[d][i] = toClient[d][i]
      BY <1>4, <1>5
    <2>2. recv[d] \in Nat /\ handled[d] \in Nat
      BY DEF RestTypes
    <2>3. /\ recv[d] < NChunks /\ handled[d] = recv[d] + Len(toClient[d])
          /\ \A i \in 1..Len(toClient[d]) : toClient[d][i] = Data(recv[d] + i - 1)
      BY <2>1 DEF StreamInv
    <2>4. m = Data(recv[d] + (Len(toClient[d]) + 1) - 1)
      <3>1. cur[w] = recv[d] + (Len(toClient[d]) + 1) - 1
        BY <1>3, <2>1, <2>2, <2>3
      <3> QED
        BY <3>1
    <2>5. ASSUME NEW i \in 1..(Len(toClient[d]) + 1)
          PROVE  toClient'[d][i] = Data(recv[d] + i - 1)
      <3>1. i \in 1..Len(toClient[d]) \/ i = Len(toClient[d]) + 1
        BY <2>1
      <3> QED
        BY <2>1, <2>3, <2>4, <3>1
    <2>6. handled[d] + 1 = recv[d] + Len(toClient'[d])
      BY <2>1, <2>2, <2>3
    <2> QED
      BY <2>1, <2>3, <2>5, <2>6
  <1>17. EndInv(d)'
    BY <1>10, <1>15 DEF EndInv
  <1> QED
    BY <1>10, <1>11, <1>14, <1>16, <1>17 DEF AskInv

LEMMA SendStep ==
  ASSUME PoolTypes, RestTypes, \A d \in Down : DownInv(d), NEW w \in Worker, DataSend(w)
  PROVE  \A d \in Down : DownInv(d)'
  <1>1. pc[w] = "send" /\ pc[w] \in DataSteps /\ pc[w] # "idle" /\ queue' = queue
    BY DEF DataSend, Goto, DataSteps
  <1>2. Con(w) \in Down
    BY <1>1, ConIsDown
  <1>3. UNCHANGED <<toServer, sound, file, recv, told, worker>>
    BY DEF DataSend, clientVars
  <1>4. CASE Goto(w, "send", "end") /\ NotSent(w) /\ UNCHANGED <<handled, cur>>
    <2>1. \A d \in Down : PoolLess(d) /\ QueueLess(d)
      BY <1>4, GotoLess
    <2> QED
      BY <1>3, <1>4, <2>1, Untouched DEF NotSent
  <1>5. CASE /\ Goto(w, "send", IF cur[w] = NChunks - 1 THEN "end" ELSE "chunk")
             /\ Sent(w, Data(cur[w]))
             /\ handled' = [handled EXCEPT ![Con(w)] = @ + 1]
             /\ cur' = [cur EXCEPT ![w] = IF @ = NChunks - 1 THEN @ ELSE @ + 1]
    <2>1. ASSUME NEW d \in Down, d = Con(w) PROVE DownInv(d)'
      BY <1>5, <2>1, SentChunk
    <2>2. ASSUME NEW d \in Down, d # Con(w) PROVE DownInv(d)'
      <3>1. toClient'[d] = toClient[d] /\ handled'[d] = handled[d]
        BY <1>5, <2>2 DEF Sent, RestTypes
      <3>2. \A v \in Worker : v # w => pc'[v] = pc[v] /\ cur'[v] = cur[v]
        BY <1>5 DEF Goto, PoolTypes
      <3>3. \A v \in Worker, codes \in SUBSET Codes :
               Works(v, d, codes)' => v # w /\ Works(v, d, codes)
        <4>1. job' = job
          BY <1>5 DEF Goto
        <4>2. \A codes : job[w] \notin TasksOf(d, codes)
          BY <2>2 DEF TasksOf, Con
        <4> QED
          BY <3>2, <4>1, <4>2 DEF Works
      <3>4. PoolLess(d) /\ QueueLess(d)
        BY <1>1, <3>2, <3>3 DEF PoolLess, QueueLess, InQueue
      <3> QED
        BY <1>3, <3>1, <3>4, Untouched
    <2> QED
      BY <2>1, <2>2
  <1> QED
    BY <1>4, <1>5 DEF DataSend

-----------------------------------------------------------------------------
(* A request moves on: from the stream to the queue, from there to a thread *)

LEMMA MovedOn ==
  ASSUME NEW d \in Down, DownInv(d), OneRequest(d)', DataInv(d)',
         \A codes \in SUBSET Codes : Pending(d, codes)' => Pending(d, codes),
         toClient'[d] = toClient[d],
         handled'[d] = handled[d], sound'[d] = sound[d], file'[d] = file[d],
         recv'[d] = recv[d], told'[d] = told[d], worker'[d] = worker[d]
  PROVE  DownInv(d)'
  <1> USE DEF DownInv
  <1>1. \A as : InReply(d, as)' <=> InReply(d, as)
    BY DEF InReply
  <1>2. /\ Asking(d)' => Asking(d)
        /\ Confirming(d)' => Confirming(d)
        /\ Denying(d)' => Denying(d)
    BY <1>1, CodeSets DEF Asking, Confirming, Denying
  <1>3. AskInv(d)' /\ StreamInv(d)' /\ EndInv(d)'
    BY <1>2 DEF AskInv, StreamInv, EndInv
  <1> QED
    BY <1>3

LEMMA TakeStep ==
  ASSUME PoolTypes, RestTypes, \A d \in Down : DownInv(d), NEW w \in Worker, TakeTask(w)
  PROVE  \A d \in Down : DownInv(d)'
  <1> DEFINE t == Head(queue)
  <1> SUFFICES ASSUME NEW d \in Down PROVE DownInv(d)'
    OBVIOUS
  <1>1. queue \in Seq(Task) /\ queue # <<>> /\ queue' = Tail(queue) /\ pc[w] = "idle"
    BY DEF TakeTask, PoolTypes
  <1>2. /\ t \in Task
        /\ \A P : /\ Has(Tail(queue), P) => Has(queue, P)
                  /\ t \in P => Has(queue, P)
                  /\ Once(queue, P) => Once(Tail(queue), P)
                  /\ Once(queue, P) /\ t \in P => ~Has(Tail(queue), P)
    BY <1>1, TailHas
  <1>3. QueueLess(d)
    BY <1>1, <1>2 DEF QueueLess, InQueue
  <1>4. /\ pc'[w] # "idle" /\ job'[w] = t /\ cur' = cur /\ cur[w] = 0
        /\ \A v \in Worker : v # w => pc'[v] = pc[v] /\ job'[v] = job[v]
    <2>1. cur[w] = 0
      BY <1>1 DEF PoolTypes, JobOK, DataSteps
    <2> QED
      BY <1>2, <2>1 DEF TakeTask, PoolTypes, Entry
  <1>5. Leaves
    BY DEF TakeTask, Leaves, netVars, conVars, clientVars
  <1>6. CASE t.d # d
    <2>1. \A codes : ~Works(w, d, codes)'
      BY <1>4, <1>6 DEF Works, TasksOf
    <2>2. PoolLess(d)
      BY <1>4, <2>1 DEF PoolLess, Works
    <2> QED
      BY <1>3, <1>5, <2>2, Untouched DEF Leaves
  <1>7. CASE t.d = d
    <2>1. \A codes : t \in TasksOf(d, codes) => t.code \in codes
      BY <1>2 DEF TasksOf
    <2>2. \A codes : Works(w, d, codes)' => InQueue(d, codes)
      BY <1>2, <1>4 DEF Works, InQueue
    <2>3. \A codes : \A v \in Worker : v # w => (Works(v, d, codes)' <=> Works(v, d, codes))
      BY <1>4 DEF Works
    <2>4. \A codes : ~Works(w, d, codes)
      BY <1>1 DEF Works
    <2>5. \A codes : InPool(d, codes)' => InPool(d, codes) \/ InQueue(d, codes)
      BY <2>2, <2>3 DEF InPool
    <2>6. \A codes : InQueue(d, codes)' => InQueue(d, codes)
      BY <1>1, <1>2 DEF InQueue
    <2>7. \A codes : InStream(d, codes)' <=> InStream(d, codes)
      BY <1>5 DEF InStream, Leaves
    <2>8. \A codes : Pending(d, codes)' => Pending(d, codes)
      BY <2>5, <2>6, <2>7 DEF Pending
    <2>9. \A as : InReply(d, as)' <=> InReply(d, as)
      BY <1>5 DEF InReply, Leaves
    <2>10. OneRequest(d) /\ DataInv(d)
      BY DEF DownInv
    <2>11. OneRequest(d)'
      <3>1. CASE Works(w, d, Requests)'
        <4>1. InQueue(d, Requests)
          BY <2>2, <3>1
        <4>2. ~InStream(d, Requests) /\ ~InPool(d, Requests) /\ ~InReply(d, GetsAnswers)
          BY <2>10, <4>1 DEF OneRequest
        <4>3. ~InQueue(d, Requests)'
          <5>1. t \in TasksOf(d, Requests)
            BY <1>4, <3>1 DEF Works
          <5> QED
            BY <1>1, <1>2, <2>10, <5>1 DEF OneRequest, InQueue
        <4>4. \A v \in Worker : Works(v, d, Requests)' => v = w
          BY <2>3, <4>2 DEF InPool
        <4> QED
          BY <1>3, <1>5, <2>7, <2>9, <2>10, <4>2, <4>3, <4>4 DEF OneRequest, QueueLess, Leaves
      <3>2. CASE ~Works(w, d, Requests)'
        <4>1. \A v \in Worker : Works(v, d, Requests)' => Works(v, d, Requests)
          BY <2>3, <3>2
        <4>2. InPool(d, Requests)' => InPool(d, Requests)
          BY <4>1 DEF InPool
        <4> QED
          BY <1>3, <1>5, <2>6, <2>7, <2>9, <2>10, <4>1, <4>2 DEF OneRequest, QueueLess, Leaves
      <3> QED
        BY <3>1, <3>2
    <2>12. DataInv(d)'
      <3>1. Works(w, d, {"GETS_DATA"})' => handled[d] = 0
        BY <2>2, <2>10 DEF DataInv
      <3>2. \A v \in Worker : v # w => pc'[v] = pc[v]
        BY <1>4
      <3>3. \A v \in Worker : Works(v, d, {"GETS_DATA"})' /\ pc'[v] # "end" => cur'[v] = handled'[d]
        BY <1>4, <1>5, <2>3, <2>10, <3>1, <3>2 DEF DataInv, Leaves
      <3> QED
        BY <1>5, <2>6, <2>7, <2>10, <3>3 DEF DataInv, Leaves
    <2> QED
      BY <1>5, <2>8, <2>11, <2>12, MovedOn DEF Leaves
  <1> QED
    BY <1>6, <1>7

LEMMA ReceiveStep ==
  ASSUME PoolTypes, RestTypes, \A d \in Down : DownInv(d), NEW c \in Down, HandleClientData(c)
  PROVE  \A d \in Down : DownInv(d)'
  <1> SUFFICES ASSUME NEW d \in Down PROVE DownInv(d)'
    OBVIOUS
  <1> DEFINE s == toServer[c]
  <1> DEFINE t == [d |-> c, code |-> Head(s)]
  <1>1. /\ s \in Seq(Codes) /\ s # <<>> /\ queue \in Seq(Task)
        /\ queue' = Append(queue, t) /\ toServer'[c] = Tail(s)
        /\ \A e \in Down : e # c => toServer'[e] = toServer[e]
    BY DEF HandleClientData, PoolTypes, RestTypes
  <1>2. /\ Head(s) \in Codes
        /\ \A P : /\ Has(Tail(s), P) => Has(s, P)
                  /\ Head(s) \in P => Has(s, P)
                  /\ Once(s, P) => Once(Tail(s), P)
                  /\ Once(s, P) /\ Head(s) \in P => ~Has(Tail(s), P)
    BY <1>1, TailHas
  <1>3. t \in Task
    BY <1>2 DEF Task
  <1>4. \A P : /\ Has(queue', P) <=> (Has(queue, P) \/ t \in P)
               /\ Once(queue, P) /\ (t \in P => ~Has(queue, P)) => Once(queue', P)
    <2> SUFFICES ASSUME NEW P
        PROVE  /\ Has(Append(queue, t), P) <=> (Has(queue, P) \/ t \in P)
               /\ Once(queue, P) /\ (t \in P => ~Has(queue, P)) => Once(Append(queue, t), P)
      BY <1>1
    <2> QED
      BY <1>1, <1>3, AppendHas
  <1>5. UNCHANGED <<toClient, pc, job, cur, handled, sound, file, recv, told, worker>>
    BY DEF HandleClientData, conVars, clientVars
  <1>6. \A codes : \A v \in Worker : Works(v, d, codes)' <=> Works(v, d, codes)
    BY <1>5 DEF Works
  <1>7. CASE d # c
    <2>1. PoolLess(d)
      BY <1>5, <1>6 DEF PoolLess
    <2>2. \A codes : t \notin TasksOf(d, codes)
      BY <1>7 DEF TasksOf
    <2>3. QueueLess(d)
      BY <1>4, <2>2 DEF QueueLess, InQueue
    <2> QED
      BY <1>1, <1>5, <1>7, <2>1, <2>3, Untouched
  <1>8. CASE d = c
    <2>1. \A codes : t \in TasksOf(d, codes) => Head(s) \in codes
      BY DEF TasksOf
    <2>2. \A codes : InPool(d, codes)' <=> InPool(d, codes)
      BY <1>6 DEF InPool
    <2>3. \A codes : InQueue(d, codes)' => InQueue(d, codes) \/ Head(s) \in codes
      BY <1>4, <2>1 DEF InQueue
    <2>4. \A codes : (InStream(d, codes)' => InStream(d, codes)) /\ (Head(s) \in codes => InStream(d, codes))
      BY <1>1, <1>2, <1>8 DEF InStream
    <2>5. \A codes : Pending(d, codes)' => Pending(d, codes)
      BY <2>2, <2>3, <2>4 DEF Pending
    <2>6. \A as : InReply(d, as)' <=> InReply(d, as)
      BY <1>5 DEF InReply
    <2>7. OneRequest(d) /\ DataInv(d)
      BY DEF DownInv
    <2>8. OneRequest(d)'
      <3>1. Once(toServer'[d], Requests)
        BY <1>1, <1>2, <1>8, <2>7 DEF OneRequest
      <3>2. CASE Head(s) \in Requests
        <4>1. InStream(d, Requests)
          BY <2>4, <3>2
        <4>2. ~InQueue(d, Requests) /\ ~InPool(d, Requests) /\ ~InReply(d, GetsAnswers)
          BY <2>7, <4>1 DEF OneRequest
        <4>3. ~InStream(d, Requests)'
          BY <1>1, <1>2, <1>8, <2>7, <3>2 DEF OneRequest, InStream
        <4>4. Once(queue', TasksOf(d, Requests))
          BY <1>4, <2>7, <4>2 DEF OneRequest, InQueue
        <4> QED
          BY <1>6, <2>2, <2>6, <2>7, <3>1, <4>2, <4>3, <4>4 DEF OneRequest
      <3>3. CASE Head(s) \notin Requests
        <4>1. t \notin TasksOf(d, Requests)
          BY <2>1, <3>3
        <4>2. Once(queue', TasksOf(d, Requests)) /\ (InQueue(d, Requests)' => InQueue(d, Requests))
          BY <1>4, <2>7, <4>1 DEF OneRequest, InQueue
        <4> QED
          BY <1>6, <2>2, <2>4, <2>6, <2>7, <3>1, <4>2 DEF OneRequest
      <3> QED
        BY <3>2, <3>3
    <2>9. DataInv(d)'
      BY <1>5, <1>6, <2>3, <2>4, <2>7 DEF DataInv
    <2> QED
      BY <1>5, <2>5, <2>8, <2>9, MovedOn
  <1> QED
    BY <1>7, <1>8

-----------------------------------------------------------------------------
(* The client *)

Writes(d, m) == Write(d, m) \/ UNCHANGED toServer

\* What the client writes is the only message that is new on the way to the server.
LEMMA Written ==
  ASSUME RestTypes, NEW d \in Down, NEW m \in Codes, Writes(d, m), UNCHANGED <<poolVars, conVars>>
  PROVE  /\ \A codes : InStream(d, codes)' => InStream(d, codes) \/ m \in codes
         /\ \A codes : InQueue(d, codes)' <=> InQueue(d, codes)
         /\ \A codes : InPool(d, codes)' <=> InPool(d, codes)
         /\ \A codes : Pending(d, codes)' => Pending(d, codes) \/ m \in codes
         /\ Once(toServer[d], Requests) /\ (m \in Requests => ~InStream(d, Requests))
              => Once(toServer'[d], Requests)
         /\ \A codes : \A v \in Worker : Works(v, d, codes)' <=> Works(v, d, codes)
         /\ \A e \in Down : e # d => toServer'[e] = toServer[e]
  <1>1. CASE toServer' = toServer
    BY <1>1 DEF InStream, InQueue, InPool, Pending, Works, poolVars
  <1>2. CASE toServer' # toServer
    <2>1. toServer' = [toServer EXCEPT ![d] = Append(@, m)]
      BY <1>2 DEF Writes, Write
    <2>2. /\ toServer'[d] = Append(toServer[d], m) /\ toServer[d] \in Seq(Codes)
          /\ \A e \in Down : e # d => toServer'[e] = toServer[e]
      BY <2>1, OneGrows DEF RestTypes
    <2>3. \A P : Has(Append(toServer[d], m), P) <=> (Has(toServer[d], P) \/ m \in P)
      BY <2>2, HasAlso
    <2>4. Once(toServer[d], Requests) /\ (m \in Requests => ~Has(toServer[d], Requests))
            => Once(toServer'[d], Requests)
      BY <2>2, AppendHas
    <2>5. \A codes : InStream(d, codes)' => InStream(d, codes) \/ m \in codes
      BY <2>2, <2>3 DEF InStream
    <2> QED
      BY <2>2, <2>4, <2>5 DEF InStream, InQueue, InPool, Pending, Works, poolVars
  <1> QED
    BY <1>1, <1>2

\* A slot of one worker does not touch another download.
LEMMA ClientElsewhere ==
  ASSUME RestTypes, NEW c \in Down, NEW d \in Down, d # c, DownInv(d),
         UNCHANGED <<poolVars, conVars>>, toServer'[d] = toServer[d], toClient'[d] = toClient[d],
         file'[d] = file[d], recv'[d] = recv[d], told'[d] = told[d], worker'[d] = worker[d]
  PROVE  DownInv(d)'
  <1>1. PoolLess(d) /\ QueueLess(d)
    BY DEF PoolLess, QueueLess, Works, InQueue, poolVars
  <1>2. handled' = handled /\ sound' = sound
    BY DEF conVars
  <1> QED
    BY <1>1, <1>2, Untouched

\* No answer is taken: a button, or the destructor.
LEMMA ButtonHolds ==
  ASSUME RestTypes, NEW d \in Down, DownInv(d), NEW m \in Actions, Writes(d, m),
         UNCHANGED <<poolVars, conVars>>, toClient'[d] = toClient[d], recv'[d] = recv[d],
         file'[d] = file[d] \/ (file'[d] = "none" /\ Unfinished(d)),
         told'[d] \subseteq told[d] \cup {"error", "cancelled"},
         worker'[d] = "gone" => file'[d] # "open"
  PROVE  DownInv(d)'
  <1> USE DEF DownInv
  <1>1. m \in Codes /\ m \notin Requests
        /\ \A c \in {"GETS", "GETS_DATA", "FINISH_OK", "FINISH_BAD"} : m \notin {c}
    BY DEF Codes, Actions, Requests
  <1>2. /\ \A codes : InStream(d, codes)' => InStream(d, codes) \/ m \in codes
        /\ \A codes : InQueue(d, codes)' <=> InQueue(d, codes)
        /\ \A codes : InPool(d, codes)' <=> InPool(d, codes)
        /\ \A codes : Pending(d, codes)' => Pending(d, codes) \/ m \in codes
        /\ Once(toServer[d], Requests) => Once(toServer'[d], Requests)
        /\ \A codes : \A v \in Worker : Works(v, d, codes)' <=> Works(v, d, codes)
    BY <1>1, Written
  <1>3. \A as : InReply(d, as)' <=> InReply(d, as)
    BY DEF InReply
  <1>4. UNCHANGED <<queue, pc, job, cur, handled, sound>>
    BY DEF poolVars, conVars
  <1>5. /\ Asking(d)' => Asking(d)
        /\ Confirming(d)' => Confirming(d)
        /\ Denying(d)' => Denying(d)
    BY <1>1, <1>2, <1>3 DEF Asking, Confirming, Denying
  <1>6. OneRequest(d)'
    BY <1>1, <1>2, <1>3, <1>4 DEF OneRequest
  <1>7. AskInv(d)'
    BY <1>4, <1>5 DEF AskInv
  <1>8. DataInv(d)'
    BY <1>1, <1>2, <1>4 DEF DataInv
  <1>9. StreamInv(d)'
    BY <1>4 DEF StreamInv
  <1>10. EndInv(d)'
    BY <1>4, <1>5 DEF EndInv, Unfinished
  <1> QED
    BY <1>6, <1>7, <1>8, <1>9, <1>10

LEMMA ButtonOwn ==
  ASSUME RestTypes, NEW c \in Down, NEW d \in Down, d # c,
         SendControl(c) \/ SendCancelRequest(c) \/ BeginStop(c) \/ EndStop(c)
  PROVE  file'[d] = file[d] /\ told'[d] = told[d] /\ worker'[d] = worker[d] /\ recv'[d] = recv[d]
  BY DEF RestTypes, SendControl, SendCancelRequest, BeginStop, EndStop, SetFile, Tell

LEMMA ButtonStep ==
  ASSUME RestTypes, \A d \in Down : DownInv(d), NEW c \in Down,
         SendControl(c) \/ SendCancelRequest(c) \/ BeginStop(c) \/ EndStop(c)
  PROVE  \A d \in Down : DownInv(d)'
  <1>1. UNCHANGED <<poolVars, conVars>> /\ recv' = recv /\ toClient' = toClient
    BY DEF SendControl, SendCancelRequest, BeginStop, EndStop, Slot, netVars
  <1>2. \E m \in Actions : Writes(c, m)
    BY DEF SendControl, SendCancelRequest, BeginStop, EndStop, Writes, Actions, netVars
  <1>3. \A d \in Down : d # c =>
          file'[d] = file[d] /\ told'[d] = told[d] /\ worker'[d] = worker[d]
    BY ButtonOwn
  <1>4. told'[c] \subseteq told[c] \cup {"error", "cancelled"}
    BY DEF RestTypes, SendControl, SendCancelRequest, BeginStop, EndStop, Tell
  <1>5. file'[c] = file[c] \/ (file'[c] = "none" /\ Unfinished(c))
    BY DEF RestTypes, SendControl, SendCancelRequest, BeginStop, EndStop, SetFile
  <1>6. worker'[c] = "gone" => file'[c] # "open"
    <2>1. worker'[c] = "gone" => EndStop(c)
      BY DEF RestTypes, SendControl, SendCancelRequest, BeginStop, Slot, Tell
    <2>2. EndStop(c) => file'[c] = "none" \/ (file'[c] = file[c] /\ recv[c] = NChunks)
      BY DEF RestTypes, EndStop, SetFile, Unfinished
    <2>3. file[c] = "open" => recv[c] # NChunks
      BY DownloadAssumption DEF DownInv, StreamInv, RestTypes
    <2> QED
      BY <2>1, <2>2, <2>3
  <1>7. \A d \in Down : d # c => toServer'[d] = toServer[d]
    BY <1>2 DEF RestTypes, Writes, Write
  <1>8. ASSUME NEW d \in Down PROVE DownInv(d)'
    <2>1. CASE d = c
      BY <1>1, <1>2, <1>4, <1>5, <1>6, <2>1, ButtonHolds
    <2>2. CASE d # c
      BY <1>1, <1>3, <1>7, <2>2, ClientElsewhere
    <2> QED
      BY <2>1, <2>2
  <1> QED
    BY <1>8

\* A message that is taken out is gone, and what it was told something.
LEMMA Taken ==
  ASSUME RestTypes, NEW d \in Down, NEW code, Handles(d, code)
  PROVE  /\ toClient[d] \in Seq(Answers) /\ toClient[d] # <<>>
         /\ Head(toClient[d]) \in Answers /\ Head(toClient[d]).code = code
         /\ Head(toClient[d]) = toClient[d][1]
         /\ toClient'[d] = Tail(toClient[d])
         /\ \A as : InReply(d, as)' => InReply(d, as)
         /\ \A as : Head(toClient[d]) \in as => InReply(d, as)
         /\ \A e \in Down : e # d => toClient'[e] = toClient[e]
         /\ UNCHANGED <<poolVars, conVars, clicks>>
         /\ UNCHANGED <<queue, pc, job, cur, handled, sound>>
         /\ worker[d] # "gone"
  <1>1. toClient[d] \in Seq(Answers) /\ toClient[d] # <<>> /\ toClient'[d] = Tail(toClient[d])
        /\ \A e \in Down : e # d => toClient'[e] = toClient[e]
    BY DEF Handles, RestTypes
  <1>2. \A P : /\ Has(Tail(toClient[d]), P) => Has(toClient[d], P)
               /\ Head(toClient[d]) \in P => Has(toClient[d], P)
    BY <1>1, TailHas
  <1>3. Head(toClient[d]) \in Answers /\ Head(toClient[d]) = toClient[d][1]
    BY <1>1
  <1> QED
    BY <1>1, <1>2, <1>3 DEF Handles, Slot, InReply, poolVars, conVars

LEMMA GetsIs ==
  ASSUME NEW m \in Answers, m.code = "GETS"
  PROVE  m \in GetsAnswers
  <1>1. m.ok \in BOOLEAN /\ m = Answer("GETS", m.ok)
    BY OkTypes
  <1>2. \A ok \in BOOLEAN : Answer("GETS", ok) \in GetsAnswers
    BY DEF Answer, GetsAnswers
  <1> QED
    BY <1>1, <1>2

LEMMA LenZero ==
  ASSUME NEW S, NEW s \in Seq(S), Len(s) = 0
  PROVE  s = <<>>
  OBVIOUS

LEMMA TailOfOne ==
  ASSUME NEW S, NEW s \in Seq(S), Len(s) = 1
  PROVE  Tail(s) = <<>>
  <1>1. Tail(s) \in Seq(S) /\ Len(Tail(s)) = 0
    OBVIOUS
  <1> QED
    BY <1>1, LenZero

\* The answer to the request is the first message and nothing else has begun.
LEMMA GetsRespondHolds ==
  ASSUME RestTypes, NEW d \in Down, DownInv(d), HandleGetsRespond(d)
  PROVE  DownInv(d)'
  <1> USE DEF DownInv
  <1>1. Handles(d, "GETS") /\ recv' = recv
    BY DEF HandleGetsRespond
  <1>2. /\ Head(toClient[d]) \in GetsAnswers /\ InReply(d, GetsAnswers)
        /\ toClient[d] \in Seq(Answers) /\ toClient'[d] = Tail(toClient[d])
        /\ UNCHANGED <<poolVars, conVars>> /\ UNCHANGED <<queue, pc, job, cur, handled, sound>>
        /\ worker[d] # "gone"
    <2>1. Head(toClient[d]) \in GetsAnswers
      BY <1>1, Taken, GetsIs
    <2> QED
      BY <1>1, <2>1, Taken
  <1>3. /\ Asking(d) /\ file[d] = "none" /\ recv[d] = 0 /\ handled[d] = 0
        /\ ~Confirming(d) /\ ~Denying(d) /\ toClient'[d] = <<>>
    <2>1. Asking(d)
      BY <1>2 DEF Asking
    <2>2. toClient[d] # <<>>
      BY <1>1 DEF Handles
    <2>3. Len(toClient[d]) = 1 => Tail(toClient[d]) = <<>>
      BY <1>2, <2>2, TailOfOne
    <2> QED
      BY <1>2, <2>1, <2>2, <2>3 DEF AskInv
  <1>4. ~InStream(d, Requests) /\ ~InQueue(d, Requests) /\ ~InPool(d, Requests)
    BY <1>2 DEF OneRequest
  <1>5. "GETS_DATA" \in Codes /\ Writes(d, "GETS_DATA")
    BY DEF HandleGetsRespond, RemoveAndFail, Writes, Codes
  <1>6. /\ \A codes : InQueue(d, codes)' <=> InQueue(d, codes)
        /\ \A codes : InPool(d, codes)' <=> InPool(d, codes)
        /\ \A codes : Pending(d, codes)' => Pending(d, codes) \/ "GETS_DATA" \in codes
        /\ Once(toServer'[d], Requests)
    BY <1>2, <1>4, <1>5, Written DEF OneRequest
  <1>7. \A as : ~InReply(d, as)'
    BY <1>3, EmptyHas DEF InReply
  <1>8. ~Pending(d, {"GETS"})
    BY <1>4 DEF Pending, InStream, InQueue, InPool, Has, Works, TasksOf, Requests
  <1>9. ~Asking(d)' /\ ~Confirming(d)' /\ ~Denying(d)'
    BY <1>3, <1>6, <1>7, <1>8 DEF Asking, Confirming, Denying
  <1>10. OneRequest(d)'
    <2>1. \A v, w \in Worker : Works(v, d, Requests)' /\ Works(w, d, Requests)' => v = w
      BY <1>2 DEF Works, OneRequest
    <2> QED
      BY <1>2, <1>4, <1>6, <1>7, <2>1 DEF OneRequest
  <1>11. DataInv(d)'
    <2>1. \A w \in Worker : ~Works(w, d, {"GETS_DATA"})'
      BY <1>2, <1>4 DEF InPool, Works, TasksOf, Requests
    <2> QED
      BY <1>2, <1>3, <2>1 DEF DataInv
  <1>12. StreamInv(d)'
    <2>1. Len(toClient'[d]) = 0 /\ DOMAIN toClient'[d] = {}
      BY <1>3
    <2> QED
      BY <1>1, <1>2, <1>3, <2>1, DownloadAssumption DEF StreamInv
  <1>13. EndInv(d)'
    <2>1. "done" \notin told[d] /\ "gap" \notin told[d]
      BY <1>3 DEF EndInv
    <2>2. /\ file'[d] \in {"none", "open"}
          /\ "done" \notin told'[d] /\ "gap" \notin told'[d]
          /\ worker'[d] # "gone"
      BY <1>2, <1>3, <2>1 DEF HandleGetsRespond, RemoveAndFail, SetFile, Tell, RestTypes
    <2> QED
      BY <1>9, <2>2 DEF EndInv
  <1> QED
    BY <1>9, <1>10, <1>11, <1>12, <1>13 DEF AskInv

\* After the first answer: what the client writes neither asks nor asks for data.
LEMMA Onward ==
  ASSUME RestTypes, NEW d \in Down, DownInv(d), NEW m \in {"FINISH_OK", "FINISH_BAD"}, Writes(d, m),
         ~Asking(d), NEW code, Handles(d, code)
  PROVE  /\ OneRequest(d)' /\ AskInv(d)' /\ DataInv(d)'
         /\ \A codes : Pending(d, codes)' => Pending(d, codes) \/ m \in codes
  <1> USE DEF DownInv
  <1>1. m \in Codes /\ m \notin Requests /\ m \notin {"GETS"} /\ m \notin {"GETS_DATA"}
    BY DEF Codes, Requests
  <1>2. /\ UNCHANGED <<poolVars, conVars>> /\ UNCHANGED <<queue, pc, job, cur, handled, sound>>
        /\ \A as : InReply(d, as)' => InReply(d, as)
    BY Taken
  <1>3. /\ \A codes : InStream(d, codes)' => InStream(d, codes) \/ m \in codes
        /\ \A codes : InQueue(d, codes)' <=> InQueue(d, codes)
        /\ \A codes : InPool(d, codes)' <=> InPool(d, codes)
        /\ \A codes : Pending(d, codes)' => Pending(d, codes) \/ m \in codes
        /\ Once(toServer[d], Requests) => Once(toServer'[d], Requests)
        /\ \A codes : \A v \in Worker : Works(v, d, codes)' <=> Works(v, d, codes)
    BY <1>1, <1>2, Written
  <1>4. ~Asking(d)'
    BY <1>1, <1>2, <1>3 DEF Asking
  <1>5. OneRequest(d)'
    BY <1>1, <1>2, <1>3 DEF OneRequest
  <1>6. DataInv(d)'
    BY <1>1, <1>2, <1>3 DEF DataInv
  <1> QED
    BY <1>3, <1>4, <1>5, <1>6 DEF AskInv

LEMMA NotAskingAnyMore ==
  ASSUME RestTypes, NEW d \in Down, AskInv(d), NEW code, code # "GETS", Handles(d, code)
  PROVE  ~Asking(d)
  <1>1. toClient[d] # <<>> /\ toClient[d][1] = Head(toClient[d]) /\ Head(toClient[d]).code = code
    BY Taken
  <1> QED
    BY <1>1 DEF AskInv, GetsAnswers

\* The next chunk of an open file is the first message.
LEMMA NextChunk ==
  ASSUME RestTypes, NEW d \in Down, StreamInv(d), file[d] = "open", Handles(d, "GETS_DATA")
  PROVE  /\ Expected(d) /\ recv[d] < NChunks /\ recv[d] \in Nat
         /\ handled[d] = (recv[d] + 1) + Len(toClient'[d])
         /\ \A i \in DOMAIN toClient'[d] : toClient'[d][i] = Data((recv[d] + 1) + i - 1)
  <1>1. /\ toClient[d] \in Seq(Answers) /\ toClient[d] # <<>>
        /\ toClient'[d] = Tail(toClient[d]) /\ Head(toClient[d]) = toClient[d][1]
    BY Taken
  <1>2. /\ Len(toClient[d]) \in Nat \ {0} /\ DOMAIN toClient[d] = 1..Len(toClient[d])
        /\ Len(toClient'[d]) = Len(toClient[d]) - 1
        /\ DOMAIN toClient'[d] = 1..(Len(toClient[d]) - 1)
        /\ \A i \in 1..(Len(toClient[d]) - 1) : toClient'[d][i] = toClient[d][i + 1]
    BY <1>1
  <1>3. recv[d] \in Nat /\ handled[d] \in Nat
    BY DEF RestTypes
  <1>4. /\ recv[d] < NChunks /\ handled[d] = recv[d] + Len(toClient[d])
        /\ \A i \in 1..Len(toClient[d]) : toClient[d][i] = Data(recv[d] + i - 1)
    BY <1>2 DEF StreamInv
  <1>5. Expected(d)
    <2>1. 1 \in 1..Len(toClient[d]) /\ recv[d] + 1 - 1 = recv[d]
      BY <1>2, <1>3
    <2>2. toClient[d][1] = Data(recv[d])
      BY <1>4, <2>1
    <2> QED
      BY <1>1, <2>2 DEF Expected, Data
  <1>6. ASSUME NEW i \in 1..(Len(toClient[d]) - 1)
        PROVE  toClient'[d][i] = Data((recv[d] + 1) + i - 1)
    <2>1. i \in Nat /\ i >= 1 /\ i <= Len(toClient[d]) - 1 /\ Len(toClient[d]) \in Nat
      BY <1>2
    <2>2. i + 1 \in 1..Len(toClient[d])
      BY <2>1
    <2>3. recv[d] + (i + 1) - 1 = (recv[d] + 1) + i - 1
      BY <2>1, <1>3
    <2> QED
      BY <1>2, <1>4, <2>2, <2>3
  <1>7. handled[d] = (recv[d] + 1) + Len(toClient'[d])
    <2>1. Len(toClient[d]) \in Nat /\ Len(toClient'[d]) = Len(toClient[d]) - 1
      BY <1>2
    <2>2. handled[d] = recv[d] + Len(toClient[d])
      BY <1>4
    <2> QED
      BY <1>3, <2>1, <2>2, SMTT(20)
  <1> QED
    BY <1>2, <1>3, <1>4, <1>5, <1>6, <1>7

\* A chunk is dropped, appended, or the last one.
LEMMA ChunkHolds ==
  ASSUME RestTypes, NEW d \in Down, DownInv(d), HandleRecvTranDataPdu(d)
  PROVE  DownInv(d)'
  <1> USE DEF DownInv
  <1> DEFINE m == IF Verified(d) THEN "FINISH_OK" ELSE "FINISH_BAD"
  <1>1. Handles(d, "GETS_DATA")
    BY DEF HandleRecvTranDataPdu
  <1>2. /\ UNCHANGED <<queue, pc, job, cur, handled, sound>>
        /\ \A as : InReply(d, as)' => InReply(d, as)
        /\ worker[d] # "gone"
    BY <1>1, Taken
  <1>3. ~Asking(d)
    BY <1>1, NotAskingAnyMore
  <1>4. Writes(d, m) /\ m \in {"FINISH_OK", "FINISH_BAD"}
    BY DEF HandleRecvTranDataPdu, RemoveAndFail, Writes
  <1>5. /\ OneRequest(d)' /\ AskInv(d)' /\ DataInv(d)'
        /\ \A codes : Pending(d, codes)' => Pending(d, codes) \/ m \in codes
    <2> HIDE DEF m
    <2> QED
      BY <1>1, <1>3, <1>4, Onward
  <1>6. CASE file[d] # "open"
    <2>1. UNCHANGED <<toServer, file, recv, told, worker>>
      BY <1>6 DEF HandleRecvTranDataPdu
    <2>2. \A codes : Pending(d, codes)' => Pending(d, codes)
      BY <1>2, <2>1 DEF Pending, InStream, InQueue, InPool, Works
    <2>3. /\ Confirming(d)' => Confirming(d)
          /\ Denying(d)' => Denying(d)
      BY <1>2, <2>2 DEF Confirming, Denying
    <2>4. StreamInv(d)' /\ EndInv(d)'
      BY <1>2, <1>6, <2>1, <2>3 DEF StreamInv, EndInv
    <2> QED
      BY <1>5, <2>4
  <1>7. CASE file[d] = "open"
    <2>1. /\ Expected(d) /\ recv[d] < NChunks /\ recv[d] \in Nat
          /\ handled[d] = (recv[d] + 1) + Len(toClient'[d])
          /\ \A i \in DOMAIN toClient'[d] : toClient'[d][i] = Data((recv[d] + 1) + i - 1)
      BY <1>1, <1>7, NextChunk
    <2>2. ~Confirming(d) /\ ~Denying(d) /\ "done" \notin told[d] /\ "gap" \notin told[d]
      BY <1>7 DEF EndInv
    <2>3. recv'[d] = recv[d] + 1
      BY <1>7, <2>1 DEF HandleRecvTranDataPdu, RestTypes
    <2>4. "done" \notin told'[d] /\ "gap" \notin told'[d] /\ worker'[d] # "gone"
      BY <1>2, <1>7, <2>1, <2>2 DEF HandleRecvTranDataPdu, RemoveAndFail, Tell, RestTypes
    <2>5. CASE recv[d] + 1 # NChunks
      <3>1. UNCHANGED <<toServer, file>>
        BY <1>7, <2>1, <2>5 DEF HandleRecvTranDataPdu
      <3>2. \A codes : Pending(d, codes)' => Pending(d, codes)
        BY <1>2, <3>1 DEF Pending, InStream, InQueue, InPool, Works
      <3>3. ~Confirming(d)' /\ ~Denying(d)'
        BY <1>2, <2>2, <3>2 DEF Confirming, Denying
      <3>4. StreamInv(d)'
        <4>1. recv[d] + 1 < NChunks
          BY <2>1, <2>5, DownloadAssumption
        <4> QED
          BY <1>2, <2>1, <2>3, <4>1 DEF StreamInv
      <3>5. EndInv(d)'
        BY <1>7, <2>4, <3>1, <3>3 DEF EndInv
      <3> QED
        BY <1>5, <3>4, <3>5
    <2>6. CASE recv[d] + 1 = NChunks /\ file'[d] = "none"
      <3>1. StreamInv(d)'
        BY <2>6 DEF StreamInv
      <3>2. ~Confirming(d)'
        <4>1. ~Pending(d, {"FINISH_OK"})'
          <5>1. CASE toServer' = toServer
            BY <1>2, <2>2, <5>1 DEF Confirming, Pending, InStream, InQueue, InPool, Works
          <5>2. CASE toServer' # toServer
            <6>1. file' = [file EXCEPT ![d] = IF Verified(d) THEN "whole" ELSE "none"]
              BY <1>7, <2>1, <5>2 DEF HandleRecvTranDataPdu, RemoveAndFail, SetFile
            <6>2. m \notin {"FINISH_OK"}
              BY <2>6, <6>1 DEF RestTypes
            <6> QED
              BY <1>5, <2>2, <6>2 DEF Confirming
          <5> QED
            BY <5>1, <5>2
        <4> QED
          BY <1>2, <2>2, <4>1 DEF Confirming
      <3>3. EndInv(d)'
        BY <2>4, <2>6, <3>2 DEF EndInv
      <3> QED
        BY <1>5, <3>1, <3>3
    <2>7. CASE recv[d] + 1 = NChunks /\ file'[d] # "none"
      <3>1. file' = [file EXCEPT ![d] = IF Verified(d) THEN "whole" ELSE "none"]
        BY <1>7, <2>1, <2>7 DEF HandleRecvTranDataPdu, RemoveAndFail, SetFile, RestTypes
      <3>2. file'[d] = "whole" /\ Verified(d)
        BY <2>7, <3>1 DEF RestTypes
      <3>3. sound'[d] = sound[d] /\ sound[d]
        BY <1>2, <3>2 DEF Verified
      <3>4. m \notin {"FINISH_BAD"}
        BY <3>2
      <3>5. ~Denying(d)'
        BY <1>2, <1>5, <2>2, <3>4 DEF Denying
      <3>6. EndInv(d)'
        BY <2>3, <2>4, <2>7, <3>2, <3>3, <3>5 DEF EndInv
      <3>7. StreamInv(d)'
        BY <3>2 DEF StreamInv
      <3> QED
        BY <1>5, <3>6, <3>7
    <2> QED
      BY <2>5, <2>6, <2>7
  <1> QED
    BY <1>6, <1>7

\* What is taken out as the server's verdict.
LEMMA Verdict ==
  ASSUME RestTypes, NEW d \in Down, Handles(d, "GETS_FINISH")
  PROVE  /\ Head(toClient[d]).ok => InReply(d, FinishAnswers(TRUE))
         /\ ~Head(toClient[d]).ok => InReply(d, FinishAnswers(FALSE))
  <1> DEFINE m == Head(toClient[d])
  <1>1. /\ \A as : m \in as => InReply(d, as)
        /\ m \in Answers /\ m.code = "GETS_FINISH"
    BY Taken
  <1>2. m.ok \in BOOLEAN /\ m = Answer("GETS_FINISH", m.ok)
    BY <1>1, OkTypes
  <1>3. \A ok \in BOOLEAN : Answer("GETS_FINISH", ok) \in FinishAnswers(ok)
    BY DEF Answer, FinishAnswers
  <1>4. m.ok \in BOOLEAN /\ m \in FinishAnswers(m.ok)
    BY <1>2, <1>3
  <1>5. m.ok => InReply(d, FinishAnswers(TRUE))
    BY <1>1, <1>4
  <1>6. ~m.ok => InReply(d, FinishAnswers(FALSE))
    BY <1>1, <1>4
  <1> QED
    BY <1>5, <1>6

\* The server's verdict is the client's own, come back.
LEMMA FinishRespondHolds ==
  ASSUME RestTypes, NEW d \in Down, DownInv(d), HandleGetsFinishRespond(d)
  PROVE  DownInv(d)'
  <1> USE DEF DownInv
  <1> DEFINE m == Head(toClient[d])
  <1>1. Handles(d, "GETS_FINISH") /\ UNCHANGED <<toServer, recv>>
    BY DEF HandleGetsFinishRespond
  <1>2. /\ UNCHANGED <<queue, pc, job, cur, handled, sound>>
        /\ \A as : InReply(d, as)' => InReply(d, as)
        /\ worker[d] # "gone"
    BY <1>1, Taken
  <1>3. ~Asking(d)
    BY <1>1, NotAskingAnyMore
  <1>4. /\ OneRequest(d)' /\ AskInv(d)' /\ DataInv(d)'
    BY <1>1, <1>3, Onward DEF Writes
  <1>5. /\ Confirming(d)' => Confirming(d)
        /\ Denying(d)' => Denying(d)
    BY <1>1, <1>2 DEF Confirming, Denying, Pending, InStream, InQueue, InPool, Works
  <1>6. CASE m.ok /\ Tell(d, {"done"}) /\ UNCHANGED file
    <2>1. Confirming(d)
      BY <1>1, <1>6, Verdict DEF Confirming
    <2>2. file[d] = "whole"
      BY <2>1 DEF EndInv
    <2>3. told'[d] = told[d] \cup {"done"} /\ worker'[d] = "over"
      BY <1>6 DEF Tell, RestTypes
    <2>4. StreamInv(d)' /\ EndInv(d)'
      BY <1>1, <1>2, <1>5, <1>6, <2>2, <2>3 DEF StreamInv, EndInv
    <2> QED
      BY <1>4, <2>4
  <1>7. CASE ~m.ok /\ Tell(d, {"error"}) /\ SetFile(d, "none")
    <2>1. Denying(d)
      BY <1>1, <1>7, Verdict DEF Denying
    <2>2. file[d] = "none" /\ file'[d] = "none"
      BY <1>7, <2>1 DEF EndInv, SetFile, RestTypes
    <2>3. told'[d] = told[d] \cup {"error"} /\ worker'[d] = "over"
      BY <1>7 DEF Tell, RestTypes
    <2>4. StreamInv(d)' /\ EndInv(d)'
      BY <1>1, <1>2, <1>5, <2>2, <2>3 DEF StreamInv, EndInv
    <2> QED
      BY <1>4, <2>4
  <1> QED
    BY <1>6, <1>7 DEF HandleGetsFinishRespond

\* A slot writes only its own download's variables.
LEMMA SlotOwn ==
  ASSUME RestTypes, NEW c \in Down, NEW d \in Down, d # c, Slots(c)
  PROVE  /\ toServer'[d] = toServer[d] /\ file'[d] = file[d] /\ recv'[d] = recv[d]
         /\ told'[d] = told[d] /\ worker'[d] = worker[d]
  <1> USE DEF RestTypes, SetFile, Tell, Write, RemoveAndFail
  <1>1. CASE HandleGetsRespond(c)
    BY <1>1 DEF HandleGetsRespond
  <1>2. CASE HandleRecvTranDataPdu(c)
    BY <1>2 DEF HandleRecvTranDataPdu
  <1>3. CASE HandleGetsFinishRespond(c)
    BY <1>3 DEF HandleGetsFinishRespond
  <1> QED
    BY <1>1, <1>2, <1>3 DEF Slots

LEMMA SlotStep ==
  ASSUME RestTypes, \A d \in Down : DownInv(d), NEW c \in Down, Slots(c)
  PROVE  \A d \in Down : DownInv(d)'
  <1>1. \E code : Handles(c, code)
    BY DEF Slots, HandleGetsRespond, HandleRecvTranDataPdu, HandleGetsFinishRespond
  <1>2. UNCHANGED <<poolVars, conVars>> /\ \A d \in Down : d # c => toClient'[d] = toClient[d]
    BY <1>1, Taken
  <1>3. DownInv(c)'
    BY GetsRespondHolds, ChunkHolds, FinishRespondHolds DEF Slots
  <1>4. ASSUME NEW d \in Down, d # c PROVE DownInv(d)'
    BY <1>2, <1>4, SlotOwn, ClientElsewhere
  <1> QED
    BY <1>3, <1>4

-----------------------------------------------------------------------------
(* The invariant *)

LEMMA DownInit == Init => \A d \in Down : DownInv(d)
  <1> SUFFICES ASSUME Init, NEW d \in Down PROVE DownInv(d)
    OBVIOUS
  <1>1. /\ toServer[d] = <<"GETS">> /\ toClient[d] = <<>> /\ queue = <<>>
        /\ handled[d] = 0 /\ file[d] = "none" /\ recv[d] = 0 /\ told[d] = {}
        /\ worker[d] = "active" /\ \A w \in Worker : pc[w] = "idle"
    BY DEF Init
  <1>2. \A codes : ~InQueue(d, codes) /\ ~InPool(d, codes) /\ \A w \in Worker : ~Works(w, d, codes)
    BY <1>1, EmptyHas DEF InQueue, InPool, Works
  <1>3. \A as : ~InReply(d, as)
    BY <1>1, EmptyHas DEF InReply
  <1>4. \A codes : InStream(d, codes) => "GETS" \in codes
    BY <1>1 DEF InStream, Has
  <1>5. Once(toServer[d], Requests) /\ \A P : Once(queue, P)
    BY <1>1, EmptyHas DEF Once
  <1>6. OneRequest(d)
    BY <1>2, <1>3, <1>5 DEF OneRequest
  <1>7. ~Confirming(d) /\ ~Denying(d)
    BY <1>2, <1>3, <1>4 DEF Confirming, Denying, Pending
  <1>8. AskInv(d) /\ StreamInv(d) /\ EndInv(d)
    BY <1>1, <1>7 DEF AskInv, StreamInv, EndInv
  <1>9. DataInv(d)
    BY <1>1, <1>2, <1>4 DEF DataInv
  <1> QED
    BY <1>6, <1>8, <1>9 DEF DownInv

LEMMA TypesStep ==
  ASSUME PoolTypes, RestTypes, FlagTypes, \A d \in Down : DownInv(d), [Next]_vars
  PROVE  PoolTypes' /\ RestTypes' /\ FlagTypes'
  <1>1. ASSUME NEW w \in Worker, Pool(w) PROVE PoolTypes' /\ RestTypes' /\ FlagTypes'
    <2>1. CASE DataSend(w)
      <3>1. Con(w) \in Down
        BY <2>1, ConIsDown DEF DataSend, Goto
      <3>2. DataInv(Con(w))
        BY <3>1 DEF DownInv
      <3> QED
        BY <2>1, <3>2, SendTypes
    <2> QED
      BY <1>1, <2>1, TakeTaskTypes, GetsStepTypes, DataStepTypes, ControlStepTypes DEF Pool
  <1>2. ASSUME NEW d \in Down, HandleClientData(d) \/ CloseCon(d)
        PROVE  PoolTypes' /\ RestTypes' /\ FlagTypes'
    BY <1>2, ReactorStepTypes
  <1>3. ASSUME NEW d \in Down, Slots(d) PROVE PoolTypes' /\ RestTypes' /\ FlagTypes'
    BY <1>3, SlotTypes
  <1>4. ASSUME NEW d \in Down, SendControl(d) \/ SendCancelRequest(d) \/ BeginStop(d) \/ EndStop(d)
        PROVE  PoolTypes' /\ RestTypes' /\ FlagTypes'
    BY <1>4, ButtonTypes
  <1>5. CASE UNCHANGED vars
    <2>1. PoolTypes'
      BY <1>5 DEF vars, poolVars, PoolTypes, JobOK
    <2>2. RestTypes' /\ FlagTypes'
      BY <1>5 DEF vars, netVars, conVars, clientVars, RestTypes, FlagTypes
    <2> QED
      BY <2>1, <2>2
  <1> QED
    BY <1>1, <1>2, <1>3, <1>4, <1>5 DEF Next

LEMMA DownStep ==
  ASSUME PoolTypes, RestTypes, FlagTypes, \A d \in Down : DownInv(d), [Next]_vars
  PROVE  \A d \in Down : DownInv(d)'
  <1>1. ASSUME NEW w \in Worker, Pool(w) PROVE \A d \in Down : DownInv(d)'
    BY <1>1, TakeStep, QuietStep, AnswerStep, SendStep DEF Pool
  <1>2. ASSUME NEW c \in Down, HandleClientData(c) \/ CloseCon(c)
        PROVE  \A d \in Down : DownInv(d)'
    BY <1>2, ReceiveStep, CloseStep
  <1>3. ASSUME NEW c \in Down, Slots(c) PROVE \A d \in Down : DownInv(d)'
    BY <1>3, SlotStep
  <1>4. ASSUME NEW c \in Down, SendControl(c) \/ SendCancelRequest(c) \/ BeginStop(c) \/ EndStop(c)
        PROVE  \A d \in Down : DownInv(d)'
    BY <1>4, ButtonStep
  <1>5. CASE UNCHANGED vars
    <2>1. \A d \in Down : PoolLess(d) /\ QueueLess(d)
      BY <1>5 DEF vars, poolVars, PoolLess, QueueLess, Works, InQueue
    <2> QED
      BY <1>5, <2>1, Untouched DEF vars, netVars, conVars, clientVars
  <1> QED
    BY <1>1, <1>2, <1>3, <1>4, <1>5 DEF Next

LEMMA IndInvInit == Init => IndInv
  BY TypesInit, DownInit, TypeParts DEF IndInv

LEMMA IndInvStep == IndInv /\ [Next]_vars => IndInv'
  <1> SUFFICES ASSUME PoolTypes, RestTypes, FlagTypes, \A d \in Down : DownInv(d), [Next]_vars
      PROVE  PoolTypes' /\ RestTypes' /\ FlagTypes' /\ \A d \in Down : DownInv(d)'
    BY TypeParts, TypePartsNext DEF IndInv
  <1> QED
    BY TypesStep, DownStep

LEMMA IndInvAlways == Spec => []IndInv
  <1> QED
    BY IndInvInit, IndInvStep, PTL DEF Spec

\* Every variable keeps its type: handled_size never passes total_chunks, and no
\* thread reads behind the mapping.
THEOREM DownloadTypes == Spec => []TypeOK
  <1>1. IndInv => TypeOK
    BY DEF IndInv, TypeInv
  <1> QED
    BY <1>1, IndInvAlways, PTL

\* GetsFinishTool confirms from the server's status, yet who is told that a download
\* is done has the whole file with the right hash at the chosen path.
THEOREM DoneIsWhole == Spec => []DoneMeansWhole
  <1>1. IndInv => DoneMeansWhole
    BY DEF IndInv, DownInv, EndInv, DoneMeansWhole
  <1> QED
    BY <1>1, IndInvAlways, PTL

\* No partial file outlives its worker, whichever way the download ends.
THEOREM NoPartialLeft == Spec => []GoneLeavesNoPartial
  <1>1. IndInv => GoneLeavesNoPartial
    BY DEF IndInv, TypeInv, TypeOK, DownInv, EndInv, GoneLeavesNoPartial
  <1> QED
    BY <1>1, IndInvAlways, PTL

\* The client always finds the chunk it expects: the message "missing chunk" of
\* handleRecvTranDataPdu is never reported.
THEOREM ChunksFollow == Spec => []NoGap
  <1>1. IndInv => NoGap
    BY DEF IndInv, DownInv, EndInv, NoGap
  <1> QED
    BY <1>1, IndInvAlways, PTL

-----------------------------------------------------------------------------
(* Each download implements DownloadPromise *)

Keeps(d) == UNCHANGED <<Held(d), file[d] = "whole", told[d]>>

\* The promise's steps, in terms of the download's variables.
Receives(d) ==
  /\ file[d] # "whole" /\ Held(d) < NChunks
  /\ Held(d)' = Held(d) + 1
  /\ file'[d] = "whole" => Held(d)' = NChunks
  /\ told'[d] = told[d]

Drops(d) ==
  /\ file[d] # "whole" /\ file'[d] # "whole" /\ Held(d)' = 0
  /\ \E os \in SUBSET {"error", "cancelled"} : told'[d] = told[d] \cup os

Tells(d) ==
  \E os \in SUBSET {"done", "error", "cancelled"} :
    /\ "done" \in os => file[d] = "whole"
    /\ told'[d] = told[d] \cup os
    /\ Held(d)' = Held(d) /\ (file'[d] = "whole" <=> file[d] = "whole")

LEMMA PromiseSteps ==
  ASSUME NEW d \in Down, Keeps(d) \/ Receives(d) \/ Drops(d) \/ Tells(d)
  PROVE  Promise(d)!Next \/ UNCHANGED Promise(d)!promiseVars
  <1>1. CASE Keeps(d)
    BY <1>1 DEF Keeps, Promise!promiseVars
  <1>2. CASE Receives(d)
    BY <1>2 DEF Receives, Promise!Next, Promise!Receive
  <1>3. CASE Drops(d)
    BY <1>3 DEF Drops, Promise!Next, Promise!Drop
  <1>4. CASE Tells(d)
    BY <1>4 DEF Tells, Promise!Next, Promise!Tell
  <1> QED
    BY <1>1, <1>2, <1>3, <1>4

LEMMA SameIsKept ==
  ASSUME NEW d, file'[d] = file[d], recv'[d] = recv[d], told'[d] = told[d]
  PROVE  Keeps(d)
  BY DEF Keeps, Held

LEMMA SlotKeepsPromise ==
  ASSUME RestTypes, RestTypes', NEW d \in Down, DownInv(d), Slots(d)
  PROVE  Keeps(d) \/ Receives(d) \/ Drops(d) \/ Tells(d)
  <1> USE DEF DownInv, RestTypes, SetFile, Tell
  <1>1. CASE HandleGetsRespond(d)
    <2>1. file[d] = "none" /\ recv[d] = 0 /\ recv' = recv
      <3>1. Handles(d, "GETS")
        BY <1>1 DEF HandleGetsRespond
      <3>2. Head(toClient[d]) \in GetsAnswers
        BY <3>1, Taken, GetsIs
      <3>3. InReply(d, GetsAnswers)
        BY <3>1, <3>2, Taken
      <3> QED
        BY <1>1, <3>3 DEF AskInv, Asking, HandleGetsRespond
    <2>2. CASE file'[d] = "open" /\ told' = told
      BY <2>1, <2>2 DEF Keeps, Held
    <2>3. CASE file'[d] = "none" /\ told'[d] = told[d] \cup {"error"}
      BY <2>1, <2>3 DEF Tells, Held
    <2> QED
      BY <1>1, <2>1, <2>2, <2>3, SMTT(20) DEF HandleGetsRespond, RemoveAndFail
  <1>2. CASE HandleRecvTranDataPdu(d) /\ file[d] # "open"
    BY <1>2, SameIsKept DEF HandleRecvTranDataPdu
  <1>3. CASE HandleRecvTranDataPdu(d) /\ file[d] = "open"
    <2>1. Expected(d) /\ recv[d] < NChunks /\ recv[d] \in Nat
      BY <1>3, NextChunk DEF HandleRecvTranDataPdu
    <2>2. recv'[d] = recv[d] + 1
      BY <1>3, <2>1 DEF HandleRecvTranDataPdu
    <2>3. CASE file'[d] = "open" /\ told'[d] = told[d]
      BY <1>3, <2>1, <2>2, <2>3 DEF Receives, Held
    <2>4. CASE file'[d] = "whole" /\ told'[d] = told[d] /\ recv[d] + 1 = NChunks
      BY <1>3, <2>1, <2>2, <2>4 DEF Receives, Held
    <2>5. CASE file'[d] = "none" /\ told'[d] = told[d]
      <3>1. told'[d] = told[d] \cup {}
        BY <2>5
      <3> QED
        BY <1>3, <2>5, <3>1 DEF Drops, Held
    <2>6. CASE file'[d] = "none" /\ told'[d] = told[d] \cup {"error"}
      BY <1>3, <2>6 DEF Drops, Held
    <2>7. \/ UNCHANGED <<file, told>>
          \/ /\ recv[d] + 1 = NChunks /\ told' = told
             /\ SetFile(d, IF Verified(d) THEN "whole" ELSE "none")
          \/ RemoveAndFail(d)
      BY <1>3, <2>1 DEF HandleRecvTranDataPdu
    <2>8. CASE UNCHANGED <<file, told>>
      BY <1>3, <2>3, <2>8
    <2>9. CASE recv[d] + 1 = NChunks /\ told' = told /\ SetFile(d, IF Verified(d) THEN "whole" ELSE "none")
      BY <2>4, <2>5, <2>9
    <2>10. CASE RemoveAndFail(d)
      BY <2>6, <2>10 DEF RemoveAndFail
    <2> QED
      BY <2>7, <2>8, <2>9, <2>10
  <1>4. CASE HandleGetsFinishRespond(d)
    <2>1. Handles(d, "GETS_FINISH") /\ recv' = recv
      BY <1>4 DEF HandleGetsFinishRespond
    <2>2. CASE Head(toClient[d]).ok /\ Tell(d, {"done"}) /\ UNCHANGED file
      <3>1. file[d] = "whole"
        BY <2>1, <2>2, Verdict DEF EndInv, Confirming
      <3>2. told'[d] = told[d] \cup {"done"}
        BY <2>2
      <3> QED
        BY <2>1, <2>2, <3>1, <3>2 DEF Tells, Held
    <2>3. CASE ~Head(toClient[d]).ok /\ Tell(d, {"error"}) /\ SetFile(d, "none")
      <3>1. file[d] = "none"
        BY <2>1, <2>3, Verdict DEF EndInv, Denying
      <3>2. told'[d] = told[d] \cup {"error"} /\ file'[d] = "none"
        BY <2>3
      <3> QED
        BY <2>1, <3>1, <3>2 DEF Tells, Held
    <2> QED
      BY <1>4, <2>2, <2>3 DEF HandleGetsFinishRespond
  <1> QED
    BY <1>1, <1>2, <1>3, <1>4 DEF Slots

LEMMA ButtonKeepsPromise ==
  ASSUME RestTypes, RestTypes', NEW d \in Down, DownInv(d),
         SendControl(d) \/ SendCancelRequest(d) \/ BeginStop(d) \/ EndStop(d)
  PROVE  Keeps(d) \/ Receives(d) \/ Drops(d) \/ Tells(d)
  <1> USE DEF DownInv, RestTypes, SetFile, Tell
  <1>1. CASE SendControl(d)
    <2>1. UNCHANGED <<file, recv>>
      BY <1>1 DEF SendControl
    <2>2. told'[d] = told[d] \/ told'[d] = told[d] \cup {"error"}
      BY <1>1 DEF SendControl
    <2> QED
      BY <2>1, <2>2, SameIsKept DEF Tells, Held
  <1>2. CASE SendCancelRequest(d)
    <2>1. recv' = recv /\ \E os \in SUBSET {"error", "cancelled"} : told'[d] = told[d] \cup os
      <3>1. told'[d] = told[d] \cup {"cancelled"} \/ told'[d] = told[d] \cup {"error", "cancelled"}
        BY <1>2 DEF SendCancelRequest
      <3> QED
        BY <1>2, <3>1 DEF SendCancelRequest
    <2>2. CASE Unfinished(d)
      <3>1. file'[d] = "none" /\ file[d] # "whole"
        BY <1>2, <2>2 DEF SendCancelRequest, EndInv, Unfinished
      <3> QED
        BY <2>1, <3>1 DEF Drops, Held
    <2>3. CASE ~Unfinished(d)
      <3>1. file'[d] = file[d]
        BY <1>2, <2>3 DEF SendCancelRequest
      <3> QED
        BY <2>1, <3>1, ZenonT(30) DEF Tells, Held
    <2> QED
      BY <2>2, <2>3
  <1>3. CASE BeginStop(d)
    BY <1>3, SameIsKept DEF BeginStop
  <1>4. CASE EndStop(d)
    <2>1. UNCHANGED <<recv, told>>
      BY <1>4 DEF EndStop
    <2>2. CASE Unfinished(d)
      <3>1. file'[d] = "none" /\ file[d] # "whole" /\ told'[d] = told[d] \cup {}
        BY <1>4, <2>1, <2>2 DEF EndStop, EndInv, Unfinished
      <3> QED
        BY <3>1 DEF Drops, Held
    <2>3. CASE ~Unfinished(d)
      BY <1>4, <2>1, <2>3, SameIsKept DEF EndStop
    <2> QED
      BY <2>2, <2>3
  <1> QED
    BY <1>1, <1>2, <1>3, <1>4

LEMMA StepKeepsPromise ==
  ASSUME RestTypes, RestTypes', NEW d \in Down, DownInv(d), [Next]_vars
  PROVE  Keeps(d) \/ Receives(d) \/ Drops(d) \/ Tells(d)
  <1>1. CASE UNCHANGED vars
    BY <1>1, SameIsKept DEF vars, clientVars
  <1>2. ASSUME NEW w \in Worker, Pool(w) PROVE Keeps(d)
    BY <1>2, SameIsKept DEF Pool, TakeTask, GetsStart, GetsLookup, GetsDoing, GetsAccept, GetsRefuse,
       DataBegin, DataSsl, DataChunk, DataPause, DataWait, DataSleep, DataCancel, Look, DataSend,
       DataEnd, FinishCheck, FinishAnswer, ControlCheck, ControlApply, clientVars
  <1>3. ASSUME NEW c \in Down, HandleClientData(c) \/ CloseCon(c) PROVE Keeps(d)
    BY <1>3, SameIsKept DEF HandleClientData, CloseCon, clientVars
  <1>4. ASSUME NEW c \in Down, c # d,
               Slots(c) \/ SendControl(c) \/ SendCancelRequest(c) \/ BeginStop(c) \/ EndStop(c)
        PROVE  Keeps(d)
    BY <1>4, SlotOwn, ButtonOwn, SameIsKept
  <1> QED
    BY <1>1, <1>2, <1>3, <1>4, SlotKeepsPromise, ButtonKeepsPromise DEF Next

\* What the user sees of a download, with threads, messages and lost connections, is
\* what DownloadPromise promises: the copy only grows chunk by chunk, is sealed when it
\* is whole and its hash right, never lost after that, and nothing else is reported as done.
THEOREM DownloadImplementsPromise == Spec => PromiseKept
  <1>1. Init => \A d \in Down : Promise(d)!Init
    BY DEF Init, Held, Promise!Init
  <1>2. IndInv /\ IndInv' /\ [Next]_vars
          => [\A d \in Down : Promise(d)!Next \/ UNCHANGED Promise(d)!promiseVars]_vars
    <2> SUFFICES ASSUME IndInv, IndInv', [Next]_vars, NEW d \in Down
        PROVE  Promise(d)!Next \/ UNCHANGED Promise(d)!promiseVars
      OBVIOUS
    <2>1. RestTypes /\ RestTypes' /\ DownInv(d)
      BY Zenon DEF IndInv, TypeInv, TypeOK, RestTypes
    <2> QED
      BY <2>1, StepKeepsPromise, PromiseSteps
  <1> QED
    BY <1>1, <1>2, IndInvAlways, PTL DEF Spec, PromiseKept
=============================================================================
