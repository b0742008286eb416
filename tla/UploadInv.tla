----------------------------- MODULE UploadInv ------------------------------
(***************************************************************************)
(* The inductive invariants of Upload.  Each one is preserved by every     *)
(* step together with those before it; UploadProofs proves it.             *)
(***************************************************************************)
EXTENDS Upload, FiniteSets

-----------------------------------------------------------------------------
(* Types.  A thread's step says which message it holds and which verdicts it   *)
(* can have; a coroutine that still runs has a chunk to send.                  *)

JobOK ==
  \A w \in Worker :
    /\ pc[w] \in PutsSteps => job[w] = PutsPdu
    /\ pc[w] \in DataSteps => job[w] \in Pdu /\ job[w].code = "PUTS_DATA"
    /\ pc[w] \in {"done", "finished"} => verdict[w] \in {"SUCCESS", "FAILED"}

CursorOK == \A i \in Sender : sender[i] # "end" => cursor[i] \in Chunk

TypeInv == TypeOK /\ JobOK /\ CursorOK

-----------------------------------------------------------------------------
(* Order.  There is one request.  Until a thread has answered it, nothing else *)
(* of the connection is under way: the client sends nothing before the answer. *)

Unanswered == {"puts", "lookup", "open", "init", "handled", "status", "reply"}

AllIdleBut(w) == \A v \in Worker : v # w => pc[v] = "idle"

Quiet ==
  /\ toClient = <<>>
  /\ unacked = Chunk
  /\ \A i \in Sender : sender[i] = "off"
  /\ told # "success"
  /\ rows = 0

Requested ==
  /\ Quiet
  /\ toServer = <<PutsPdu>>
  /\ queue = <<>>
  /\ \A w \in Worker : pc[w] = "idle"

Queued ==
  /\ Quiet
  /\ toServer = <<>>
  /\ queue = <<PutsPdu>>
  /\ \A w \in Worker : pc[w] = "idle"

Checking ==
  /\ Quiet
  /\ toServer = <<>>
  /\ queue = <<>>
  /\ \E w \in Worker : pc[w] \in Unanswered /\ AllIdleBut(w)

Answered ==
  /\ ~Carries(toServer, PutsPdu)
  /\ ~Carries(queue, PutsPdu)
  /\ \A w \in Worker : pc[w] \notin Unanswered
  /\ \A v, w \in Worker :
       pc[v] \in {"quick", "done", "again"} /\ pc[w] \in {"quick", "done", "again"} => v = w

OrderInv == Requested \/ Queued \/ Checking \/ Answered

-----------------------------------------------------------------------------
(* One insertion.  While the status is DOING nobody has begun to insert, and   *)
(* the one thread that has put a quick upload on its way has left DOING behind.*)

InsertInv ==
  /\ InsertOnce
  /\ status = "DOING" => rows = 0 /\ Inserters = {}
  /\ \A w \in Worker : pc[w] = "reply" /\ verdict[w] = "PUT_QUICK" => status # "DOING"

-----------------------------------------------------------------------------
(* The stored file.  A thread that is to insert has all bytes counted, and the *)
(* file is there: close() marks the connection before it removes the file, and *)
(* a status that was overwritten afterwards finds no chunk left to handle.     *)

CountInv == handled <= Total

FullInv ==
  /\ rows = 1 => handled = Total
  /\ \A w \in Worker :
       /\ pc[w] \in {"insert", "finished", "quick", "done"} => handled = Total
       /\ pc[w] \in {"status", "reply"} /\ verdict[w] = "PUT_QUICK" => handled = Total

PriorInv ==
  \A w \in Worker :
    /\ pc[w] = "open" => ~priorRow /\ verdict[w] # "PUT_QUICK"
    /\ pc[w] = "quick" => priorRow
    /\ pc[w] \in {"init", "handled", "status", "reply"} /\ verdict[w] = "PUT_QUICK" => priorRow
    /\ pc[w] = "again" => verdict[w] # "PUT_QUICK"

NoDataWaits ==
  /\ \A p \in Pdu : p.code = "PUTS_DATA" => ~Carries(queue, p)
  /\ \A w \in Worker : pc[w] \notin DataSteps

FileInv ==
  /\ \A w \in Worker :
       /\ pc[w] \in {"init", "handled", "status"} /\ verdict[w] # "PUT_QUICK" /\ closing = "open"
          => disk
       /\ pc[w] = "insert" /\ ~priorRow => disk
  /\ status = "DOING" /\ closing = "open" => disk
  /\ status = "DOING" /\ closing # "open" => NoDataWaits
  /\ rows = 1 /\ ~priorRow => disk

SuccessInv ==
  /\ \A w \in Worker : pc[w] \in {"done", "finished"} /\ verdict[w] = "SUCCESS" => rows = 1
  /\ SuccessAnnounced => rows = 1

PhaseInv == phase = "active" => told = "nothing"

-----------------------------------------------------------------------------
(* The mapping and the chunks in it *)

MapThere == map = "mapped" \/ closing \in {"remove", "closed"}

MapInv ==
  /\ CrashOnlyAfterClose
  /\ status = "DOING" => MapThere
  /\ \A w \in Worker :
       /\ pc[w] \in {"count", "copy"} => MapThere
       /\ pc[w] = "status" /\ verdict[w] # "PUT_QUICK" => MapThere

WrittenInv ==
  /\ AckedIsWritten
  /\ \A w \in Worker : serverUp /\ pc[w] = "ack" => data[job[w].chunk] # "hole"
  /\ priorRow => \A c \in Chunk : data[c] # "hole"
  /\ Carries(toClient, Answer("PUT_QUICK")) => priorRow

-----------------------------------------------------------------------------
\* What every reachable state satisfies.
IndInv ==
  /\ TypeInv
  /\ OrderInv
  /\ InsertInv
  /\ CountInv
  /\ FullInv
  /\ PriorInv
  /\ FileInv
  /\ SuccessInv
  /\ PhaseInv
  /\ MapInv
  /\ WrittenInv

-----------------------------------------------------------------------------
(* The bytes.  What the client shows, what the answers on their way will add   *)
(* to that, and what threads have counted and not yet acknowledged, is at most *)
(* what the server has counted.                                                *)

\* By how much UdTool's slot raises sended_bytes, which a quick upload sets to the
\* size of the file.
Weight(m) ==
  CASE m.code = "PUTS_DATA"      -> SizeOf(m.chunk)
    [] m = Answer("PUT_QUICK")   -> Total
    [] OTHER                     -> 0

\* Handling the messages of s brings the count from the first number to the last.
Brings(s, first, last) ==
  \E f \in [0..Len(s) -> Nat] :
    /\ f[0] = first /\ f[Len(s)] = last
    /\ \A n \in 1..Len(s) : f[n] = f[n - 1] + Weight(s[n])
    /\ \A n \in 0..Len(s) : f[n] <= last

\* Threads that have counted the bytes of a chunk, one of these, and not answered.
Counted(chunks) ==
  {w \in Worker : pc[w] \in {"copy", "ack"} /\ job[w].chunk \in chunks}

Bytes(fulls, lasts) == ChunkSize * Cardinality(fulls) + LastSize * Cardinality(lasts)

Owed == Bytes(Counted(Chunk \ {LastChunk}), Counted({LastChunk}))

BytesInv ==
  /\ unacked = Chunk => sended = 0
  /\ IsFiniteSet(Counted(Chunk))
  /\ \E due \in Nat : Brings(toClient, sended, due) /\ due + Owed <= handled

-----------------------------------------------------------------------------
(* One coroutine.  As long as a single one has been started, it reads each     *)
(* chunk at its place, the chunks stay in order on their way, and each is in   *)
(* one place at a time: it is coming, a thread holds it, or it is in the file. *)

OneSender == \A i, j \in Sender : sender[i] # "off" /\ sender[j] # "off" => i = j

ReadInv ==
  \A i \in Sender :
    /\ sender[i] = "read" => filePos = OffsetOf(cursor[i])
    /\ sender[i] \in {"check", "falling", "blocked", "send"} => intact[i]

\* The messages that no thread has taken yet, the oldest first.
Coming == queue \o toServer

IsData(p) == p.code = "PUTS_DATA"

Rising(s) ==
  \A m, n \in DOMAIN s : m < n /\ IsData(s[m]) /\ IsData(s[n]) => s[m].chunk < s[n].chunk

Sent(c) == \E i \in Sender : sender[i] # "off" /\ c < cursor[i]

AllSent(s) == \A n \in DOMAIN s : IsData(s[n]) => s[n].intact /\ Sent(s[n].chunk)

\* Chunk c has been taken: it was sent, and comes no more.
Before(c, s) == \A n \in DOMAIN s : IsData(s[n]) => c < s[n].chunk

Taken(c) == Sent(c) /\ Before(c, Coming)

Holding == {"data", "count", "copy"}

HeldInv ==
  \A w \in Worker : pc[w] \in Holding =>
    /\ job[w].intact /\ data[job[w].chunk] = "hole" /\ Taken(job[w].chunk)
    /\ \A v \in Worker : pc[v] \in Holding /\ job[v].chunk = job[w].chunk => v = w

DataInv == \A c \in Chunk : data[c] # "bad" /\ (data[c] = "good" => Taken(c))

\* The chunks that are counted: those in the file and those being copied.
Have ==
  {c \in Chunk : data[c] = "good" \/ \E w \in Worker : pc[w] = "copy" /\ job[w].chunk = c}

HandledInv == handled = Bytes(Have \ {LastChunk}, Have \cap {LastChunk})

WayInv == Rising(Coming) /\ AllSent(Coming) /\ HeldInv /\ DataInv /\ HandledInv

\* A transfer to a file of its own, while the process lives: a thread whose mapping
\* is taken away dies over a chunk that is counted and not copied.
IntactInv == OneSender /\ serverUp /\ ~priorRow => ReadInv /\ WayInv

\* A pressed continue or close is missed only by a coroutine that is falling asleep,
\* or by all sleepers but one.
ClickBetween == ctrl = "pause" /\ ctrl' # "pause" /\ \E i \in Sender : sender[i] = "falling"

AwakeInv == ctrl # "pause" => \A i \in Sender : sender[i] \notin {"falling", "blocked"}

\* close() takes a quick upload for unfinished only between the two stores of init().
RemovalBetween == CloseRemove /\ \E w \in Worker : pc[w] = "handled"

QuickInv ==
  priorRow =>
    /\ disk
    /\ fileSize = 0 \/ handled = Total \/ \E w \in Worker : pc[w] = "handled"
    /\ \A w \in Worker : pc[w] \in {"init", "handled"} => verdict[w] = "PUT_QUICK"
=============================================================================
