----------------------------- MODULE UploadWire -----------------------------
(***************************************************************************)
(* What the two ends of one upload connection share: the file being        *)
(* uploaded, cut into chunks, the protocol messages (protocol.h) and the   *)
(* TLS stream between the client's SR_Tool and the server's reactor, one   *)
(* FIFO per direction.  A message travels whole: the reactor frames the    *)
(* byte stream into complete PDUs before it dispatches them.               *)
(***************************************************************************)
EXTENDS Naturals, Sequences

CONSTANTS
  NChunks,    \* total_chunks of the file, at least one
  ChunkSize,  \* bytes of every chunk but the last (2048 in the code)
  LastSize    \* bytes of the last chunk

ASSUME ChunkAssumption ==
  /\ NChunks \in Nat \ {0}
  /\ ChunkSize \in Nat \ {0}
  /\ LastSize \in 1..ChunkSize

VARIABLES
  toServer,   \* PDUs written by the client and not yet framed by the reactor
  toClient,   \* responses written by the pool and not yet handled by UdTool
  linkUp      \* FALSE once the client process or its network is gone

wireVars == <<toServer, toClient, linkUp>>

-----------------------------------------------------------------------------
Chunk    == 0..(NChunks - 1)
LastChunk == NChunks - 1

\* UdTool::setTranPdu computes these from file_size; asyncSendFileData and the
\* server's PutsDataTool only ever use them through the PDU's fields.
SizeOf(c)   == IF c = LastChunk THEN LastSize ELSE ChunkSize
OffsetOf(c) == c * ChunkSize
Total       == (NChunks - 1) * ChunkSize + LastSize

-----------------------------------------------------------------------------
\* Client to server.  intact says that the payload of a data PDU is the bytes
\* of its own chunk, the only thing about it the properties tell apart.
PutsPdu      == [code |-> "PUTS"]
DataPdu(c, b) == [code |-> "PUTS_DATA", chunk |-> c, intact |-> b]
FinishPdu    == [code |-> "PUTS_FINISH"]

Pdu == {PutsPdu, FinishPdu}
         \cup [code : {"PUTS_DATA"}, chunk : Chunk, intact : BOOLEAN]

\* Server to client (PDURespond with its code and status).
PutsStatuses == {"SUCCESS", "PUT_QUICK", "NO_CAPACITY", "FAILED"}

Answer(s)   == [code |-> "PUTS", status |-> s]
Ack(c)      == [code |-> "PUTS_DATA", chunk |-> c]
Finished(s) == [code |-> "PUTS_FINISH", status |-> s]

Respond == {Answer(s) : s \in PutsStatuses}
             \cup {Ack(c) : c \in Chunk}
             \cup {Finished(s) : s \in {"SUCCESS", "FAILED"}}

\* m is in the stream or queue s.
Carries(s, m) == \E n \in DOMAIN s : s[n] = m

WireTypeOK ==
  /\ toServer \in Seq(Pdu)
  /\ toClient \in Seq(Respond)
  /\ linkUp \in BOOLEAN
=============================================================================
