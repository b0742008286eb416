------------------------------- MODULE Framing -------------------------------
(***************************************************************************)
(* From TLS records to PDUs on the server: sslReadAll fills the Buffer of  *)
(* a connection, handleClientData cuts whole PDUs out of it and queues     *)
(* them, and epoll reports an arrival once (EPOLLET).  Server.cpp keeps a  *)
(* copy of this code that nothing calls.  A cell is a byte, or several     *)
(* that matter together; the client writes each PDU as one record, and     *)
(* the network may deliver a record in two pieces if FSplit.               *)
(***************************************************************************)
EXTENDS Integers, Sequences, SequencesExt

CONSTANTS
  FBodies,     \* body lengths of the PDUs the client sends, in order
  FReadSize,   \* the 4096 of sslReadAll(client, 4096)
  FBufSize,    \* initial size of the Buffer
  FSplit       \* whether a record may arrive in pieces

ASSUME FramingAssumption ==
  /\ FBodies \in Seq(Nat)
  /\ FReadSize \in Nat \ {0} /\ FBufSize \in Nat

VARIABLES
  fNext, fRest,          \* the client: next PDU, cells of a record still under way
  fSocket,               \* kernel buffer: cells of whole records and of pieces
  fPiece, fSsl,          \* OpenSSL: piece of a record absorbed, cells decrypted
  fMem, fRead, fWrite,   \* Buffer: cells, read_pos_, write_pos_
  fTotal,                \* total_read; -1 is SIZE_MAX
  fPhase, fEvent,        \* the reactor's place, EPOLLIN not yet reported
  fQueued,               \* PDUs given to WorkQue
  fClosed

fVars == <<fNext, fRest, fSocket, fPiece, fSsl, fMem, fRead, fWrite, fTotal,
           fPhase, fEvent, fQueued, fClosed>>
fNet    == <<fNext, fRest>>
fTls    == <<fSocket, fPiece, fSsl>>
fBuffer == <<fMem, fRead, fWrite>>

FHeader == 2   \* PROTOCOLHEADER_LEN
FPdu(p) == [i \in 1..(FHeader + FBodies[p]) |-> <<p, i>>]
FJunk == <<0, 0>>

-----------------------------------------------------------------------------
(* Buffer: positions are size_t, so write_pos_ - 1 at 0 is also "one before". *)

ReadAbleBytes == fWrite - fRead

\* Mutant: the positions are reset, and what has not been read is not moved.
EnsureWriteAbleInPlace(len) ==
  IF Len(fMem) - fWrite >= len
  THEN [mem |-> fMem, read |-> fRead, write |-> fWrite]
  ELSE IF Len(fMem) - fWrite + fRead < len
  THEN [mem |-> fMem \o [i \in 1..(fWrite + len + 1 - Len(fMem)) |-> FJunk],
        read |-> fRead, write |-> fWrite]
  ELSE [mem |-> fMem, read |-> 0, write |-> ReadAbleBytes]

\* __makeSpace: grow, or move what has not been read to the front.
EnsureWriteAble(len) ==
  IF Len(fMem) - fWrite >= len
  THEN [mem |-> fMem, read |-> fRead, write |-> fWrite]
  ELSE IF Len(fMem) - fWrite + fRead < len
  THEN [mem |-> fMem \o [i \in 1..(fWrite + len + 1 - Len(fMem)) |-> FJunk],
        read |-> fRead, write |-> fWrite]
  ELSE [mem |-> [i \in DOMAIN fMem |->
                   IF i <= ReadAbleBytes THEN fMem[fRead + i] ELSE fMem[i]],
        read |-> 0, write |-> ReadAbleBytes]

\* SSL_read stores cells at beginWrite().
Store(mem, at, cells) ==
  [i \in DOMAIN mem |-> IF i - at \in DOMAIN cells THEN cells[i - at] ELSE mem[i]]

HasWritten(b, n) == fMem' = b.mem /\ fRead' = b.read /\ fWrite' = b.write + n

Retrieve(n) == fRead + n

-----------------------------------------------------------------------------
(* Network and OpenSSL *)

\* One SSL_write per PDU; whatever arrives raises the edge.
FDeliver ==
  /\ ~fClosed
  /\ \/ /\ fRest = <<>> /\ fNext <= Len(FBodies)
        /\ \E k \in 1..Len(FPdu(fNext)) :
             /\ k = Len(FPdu(fNext)) \/ FSplit
             /\ fSocket' = Append(fSocket,
                  [cells |-> SubSeq(FPdu(fNext), 1, k), whole |-> k = Len(FPdu(fNext))])
             /\ fRest' = SubSeq(FPdu(fNext), k + 1, Len(FPdu(fNext)))
        /\ fNext' = fNext + 1
     \/ /\ fRest # <<>>   \* joins its first piece, unless OpenSSL has that already
        /\ fSocket' = IF fSocket = <<>> THEN <<[cells |-> fRest, whole |-> TRUE]>>
                      ELSE Append(Front(fSocket), [cells |-> Last(fSocket).cells \o fRest,
                                                   whole |-> TRUE])
        /\ fRest' = <<>>
        /\ UNCHANGED fNext
  /\ fEvent' = TRUE
  /\ UNCHANGED <<fPiece, fSsl, fBuffer, fTotal, fPhase, fQueued, fClosed>>

\* The client hangs up: RDHUP closes without another read; what is in the socket
\* or half framed is gone.
FHangUp ==
  /\ ~fClosed /\ fPhase = "idle"
  /\ fClosed' = TRUE
  /\ UNCHANGED <<fNet, fTls, fBuffer, fTotal, fPhase, fEvent, fQueued>>

NothingPending == fSsl = <<>> /\ fSocket = <<>>   \* SSL_pending, FIONREAD

-----------------------------------------------------------------------------
(* The reactor *)

\* An edge is reported once, and only while there is still something to read.
EdgePending == fEvent /\ fSocket # <<>>

FWake ==
  /\ fPhase = "idle" /\ EdgePending /\ ~fClosed
  /\ fPhase' = "read" /\ fEvent' = FALSE /\ fTotal' = 0
  /\ UNCHANGED <<fNet, fTls, fBuffer, fQueued, fClosed>>

\* One SSL_read gives cells of one record at most.  Its -1 is kept in a size_t and
\* taken for a number of bytes: write_pos_ and total_read go back by one.
FSslRead ==
  /\ fPhase = "read"
  /\ LET room == FReadSize - fTotal
         b == EnsureWriteAble(room)
         Give(cells) ==
           LET n == IF Len(cells) < room THEN Len(cells) ELSE room
           IN  /\ HasWritten([b EXCEPT !.mem = Store(@, b.write, SubSeq(cells, 1, n))], n)
               /\ fSsl' = SubSeq(cells, n + 1, Len(cells))
               /\ fTotal' = fTotal + n
         WantRead == /\ HasWritten(b, -1)
                     /\ fTotal' = fTotal - 1
                     /\ fSsl' = <<>>
     IN  \/ /\ fSsl # <<>>
            /\ Give(fSsl) /\ UNCHANGED <<fSocket, fPiece>>
         \/ /\ fSsl = <<>> /\ fSocket # <<>> /\ Head(fSocket).whole
            /\ Give(fPiece \o Head(fSocket).cells)
            /\ fSocket' = Tail(fSocket) /\ fPiece' = <<>>
         \/ /\ fSsl = <<>> /\ fSocket # <<>> /\ ~Head(fSocket).whole
            /\ WantRead
            /\ fSocket' = Tail(fSocket) /\ fPiece' = Head(fSocket).cells
  /\ fPhase' = IF NothingPending' THEN "frame"
               ELSE IF fTotal' \in 0..(FReadSize - 1) THEN "read"
               ELSE IF fTotal' = -1 THEN "idle" ELSE "frame"
  /\ UNCHANGED <<fNet, fEvent, fQueued, fClosed>>

\* Whether a whole PDU is in mem behind at and before end; a header that is not one
\* gives a length nothing ever satisfies.
Whole(mem, at, end) ==
  /\ end - at >= FHeader
  /\ mem[at + 1][1] # 0 /\ mem[at + 1][2] = 1
  /\ end - at >= FHeader + FBodies[mem[at + 1][1]]

CutOne(mem, end, acc) ==
  IF Whole(mem, acc.at, end)
  THEN LET n == FHeader + FBodies[mem[acc.at + 1][1]]
       IN  [at |-> acc.at + n, pdus |-> Append(acc.pdus, SubSeq(mem, acc.at + 1, acc.at + n))]
  ELSE acc

\* The PDUs that are complete at the read position, up to the first that is not.  The
\* client sends no more than Len(FBodies).
Cut(mem, read, avail) ==
  LET cut[k \in 0..Len(FBodies)] ==
        IF k = 0 THEN [at |-> read, pdus |-> <<>>] ELSE CutOne(mem, read + avail, cut[k - 1])
  IN  cut[Len(FBodies)]

\* A read that returned SIZE_MAX is an error: nothing is framed.
FFrame ==
  /\ fPhase = "frame"
  /\ IF fTotal = -1
     THEN /\ fPhase' = "idle"
          /\ UNCHANGED <<fRead, fQueued>>
     ELSE LET c == Cut(fMem, fRead, ReadAbleBytes)
          IN  /\ fQueued' = fQueued \o c.pdus
              /\ fRead' = Retrieve(c.at - fRead)
              /\ fPhase' = "again"
  /\ UNCHANGED <<fNet, fTls, fMem, fWrite, fTotal, fEvent, fClosed>>

\* Mutant: the socket is not looked at again.
FAgainNever ==
  /\ fPhase = "again"
  /\ fPhase' = "idle" /\ fTotal' = 0
  /\ UNCHANGED <<fNet, fTls, fBuffer, fEvent, fQueued, fClosed>>

FAgain ==
  /\ fPhase = "again"
  /\ fPhase' = IF NothingPending THEN "idle" ELSE "read"
  /\ fTotal' = 0
  /\ UNCHANGED <<fNet, fTls, fBuffer, fEvent, fQueued, fClosed>>

FInit ==
  /\ fNext = 1 /\ fRest = <<>>
  /\ fSocket = <<>> /\ fPiece = <<>> /\ fSsl = <<>>
  /\ fMem = [i \in 1..FBufSize |-> FJunk] /\ fRead = 0 /\ fWrite = 0
  /\ fTotal = 0 /\ fPhase = "idle" /\ fEvent = FALSE
  /\ fQueued = <<>> /\ fClosed = FALSE

FNext == FDeliver \/ FHangUp \/ FWake \/ FSslRead \/ FFrame \/ FAgain

FSpec == FInit /\ [][FNext]_fVars

FTypeOK ==
  /\ fNext \in 1..(Len(FBodies) + 1)
  /\ fRead \in 0..Len(fMem) /\ fWrite \in -1..Len(fMem)
  /\ fTotal \in -1..FReadSize
  /\ fPhase \in {"idle", "read", "frame", "again"}
  /\ {fEvent, fClosed} \subseteq BOOLEAN

\* What the threads get is what the client sent: whole PDUs, none twice, none out
\* of order, however the reads cut the stream and the buffer moves its contents.
FInOrder ==
  /\ Len(fQueued) <= Len(FBodies)
  /\ \A k \in DOMAIN fQueued : fQueued[k] = FPdu(k)

\* Once everything sent has arrived and the reactor waits for an edge that will not
\* come, every PDU has been handed over: nothing waits in the socket, in OpenSSL or
\* in the buffer.  The comment at EventLoop.cpp:100 says that data which has not
\* all arrived is waited for.
FNothingLeft ==
  (fPhase = "idle" /\ ~EdgePending /\ ~fClosed /\ fNext > Len(FBodies) /\ fRest = <<>>)
    => Len(fQueued) = Len(FBodies)
=============================================================================
