-------------------------------- MODULE Wire --------------------------------
(***************************************************************************)
(* The messages of the protocol byte by byte: what the serializer of one   *)
(* program writes and what that of another reads.  Client, server and load *)
(* balancer each have a copy of Serializer.cpp; only the pairs that talk   *)
(* to each other are here.  A byte is a token that names its field, the    *)
(* number the field holds and its place in the host's order, so a field    *)
(* read at a wrong offset, width or byte order is not the one written.     *)
(***************************************************************************)
EXTENDS Naturals, Sequences, SequencesExt

CONSTANTS
  WTails,       \* lengths tried for msg and data
  WBufferSize   \* BufferPool::getBufferSize()

ASSUME WireAssumption == WTails \subseteq Nat /\ WBufferSize \in Nat

VARIABLES wPhase, wRoute, wTail, wWire, wGot

wVars == <<wPhase, wRoute, wTail, wWire, wGot>>

-----------------------------------------------------------------------------
(* The structs of protocol.h: the width of each field *)

Header      == [type |-> 2, body_len |-> 4, version |-> 1, reserved |-> 1]
PDU         == [code |-> 4, user |-> 20, pwd |-> 20, file_name |-> 100, msg_len |-> 4]
PDURespond  == [code |-> 4, status |-> 4, msg_amount |-> 4, msg_len |-> 4]
TranPdu     == [tran_pdu_code |-> 4, user |-> 20, pwd |-> 20, file_name |-> 100,
                file_md5 |-> 100, file_size |-> 8, sended_size |-> 8, parent_dir_id |-> 8]
TranDataPdu == [code |-> 4, status |-> 4, file_offset |-> 8, chunk_size |-> 4,
                total_chunks |-> 4, chunk_index |-> 4, check_sum |-> 4]
\* Mutant: the hash field is made as long as a hash, the macro is forgotten.
FinishPduShort == [code |-> 4, file_size |-> 8, file_md5 |-> 65]
TranFinishPdu  == [code |-> 4, file_size |-> 8, file_md5 |-> 100]
TranControlPdu == [code |-> 4, action |-> 4, msg_len |-> 4]
UserInfo    == [user |-> 50, pwd |-> 50, cipher |-> 50, is_vip |-> 50, capacity_sum |-> 50,
                used_capacity |-> 50, salt |-> 50, vip_date |-> 50]
FileInfo    == [file_id |-> 8, file_name |-> 100, dir_grade |-> 4, file_type |-> 10,
                file_size |-> 8, parent_dir |-> 8, file_date |-> 100]
ServerInfoPack == [name |-> 31, ip |-> 21, sport |-> 4, lport |-> 4, cur_con_count |-> 8]
ServerState == [code |-> 4, cur_con_count |-> 8]

Struct ==
  [PDU |-> PDU, PDURespond |-> PDURespond, TranPdu |-> TranPdu, TranDataPdu |-> TranDataPdu,
   TranFinishPdu |-> TranFinishPdu, TranControlPdu |-> TranControlPdu, UserInfo |-> UserInfo,
   FileInfo |-> FileInfo, ServerInfoPack |-> ServerInfoPack, ServerState |-> ServerState]

\* The *_BODY_LEN and *_BODY_BASE_LEN macros.
BodyLen ==
  [PDU |-> 3*4 + 140, PDURespond |-> 4*4, TranPdu |-> 4 + 3*8 + 240,
   TranDataPdu |-> 6*4 + 8, TranFinishPdu |-> 4 + 8 + 100, TranControlPdu |-> 3*4,
   UserInfo |-> 8 * 50, FileInfo |-> 4 + 3*8 + 210, ServerInfoPack |-> 2*4 + 8 + 52,
   ServerState |-> 4 + 8]

-----------------------------------------------------------------------------
(* Fields as the serializers pass them to writeData: N(f) was converted to or *)
(* from network order, R(f) is raw, T(f, l) is the tail of the length in l.   *)

N(f) == [name |-> f, how |-> "net"]
R(f) == [name |-> f, how |-> "raw"]
T(f, l) == [name |-> f, how |-> l]

HeaderBytes == <<N("type"), N("body_len"), R("version"), R("reserved")>>
ServerReadsHeader == HeaderBytes
ClientReadsHeader == HeaderBytes

\* From the client to the server.
ClientWritesPDU == <<N("code"), R("user"), R("pwd"), R("file_name"), N("msg_len"), T("msg", "msg_len")>>
ServerReadsPDU  == <<N("code"), R("user"), R("pwd"), R("file_name"), N("msg_len"), T("msg", "msg_len")>>

ClientWritesTranPdu ==
  <<N("tran_pdu_code"), R("user"), R("pwd"), R("file_name"), R("file_md5"),
    N("file_size"), N("sended_size"), N("parent_dir_id")>>
ServerReadsTranPdu ==
  <<N("tran_pdu_code"), R("user"), R("pwd"), R("file_name"), R("file_md5"),
    N("file_size"), N("sended_size"), N("parent_dir_id")>>

ClientWritesTranDataPdu ==
  <<N("code"), N("status"), N("file_offset"), N("chunk_size"), N("total_chunks"),
    N("chunk_index"), N("check_sum"), T("data", "chunk_size")>>
ServerReadsTranDataPdu ==
  <<N("code"), N("status"), N("file_offset"), N("chunk_size"), N("total_chunks"),
    N("chunk_index"), N("check_sum"), T("data", "chunk_size")>>

ClientWritesTranFinishPdu == <<N("code"), N("file_size"), R("file_md5")>>
ServerReadsTranFinishPdu  == <<N("code"), N("file_size"), R("file_md5")>>

ClientWritesTranControlPdu == <<N("code"), N("action"), N("msg_len"), T("msg", "msg_len")>>
ServerReadsTranControlPdu  == <<N("code"), N("action"), N("msg_len"), T("msg", "msg_len")>>

\* From the server to the client.
ServerWritesPDURespond == <<N("code"), N("status"), N("msg_amount"), N("msg_len"), T("msg", "msg_len")>>
ClientReadsPDURespond  == <<N("code"), N("status"), N("msg_amount"), N("msg_len"), T("msg", "msg_len")>>

\* Mutant: an offset sent in the order of the host.
DataPduRawOffset ==
  <<N("code"), N("status"), R("file_offset"), N("chunk_size"), N("total_chunks"),
    N("chunk_index"), N("check_sum"), T("data", "chunk_size")>>

ServerWritesTranDataPdu ==
  <<N("code"), N("status"), N("file_offset"), N("chunk_size"), N("total_chunks"),
    N("chunk_index"), N("check_sum"), T("data", "chunk_size")>>
ClientReadsTranDataPdu ==
  <<N("code"), N("status"), N("file_offset"), N("chunk_size"), N("total_chunks"),
    N("chunk_index"), N("check_sum"), T("data", "chunk_size")>>

ServerWritesUserInfo ==
  <<R("user"), R("pwd"), R("cipher"), R("is_vip"), R("capacity_sum"), R("used_capacity"),
    R("salt"), R("vip_date")>>
ClientReadsUserInfo ==
  <<R("user"), R("pwd"), R("cipher"), R("is_vip"), R("capacity_sum"), R("used_capacity"),
    R("salt"), R("vip_date")>>

ServerWritesFileInfo ==
  <<N("file_id"), R("file_name"), N("dir_grade"), R("file_type"), N("file_size"),
    N("parent_dir"), R("file_date")>>
ClientReadsFileInfo ==
  <<N("file_id"), R("file_name"), N("dir_grade"), R("file_type"), N("file_size"),
    N("parent_dir"), R("file_date")>>

\* From the server to the load balancer, and from there to the client.
ServerWritesServerInfoPack == <<R("name"), R("ip"), N("sport"), N("lport"), N("cur_con_count")>>
BalancerReadsServerInfoPack == <<R("name"), R("ip"), N("sport"), N("lport"), N("cur_con_count")>>
BalancerWritesServerInfoPack == <<R("name"), R("ip"), N("sport"), N("lport"), N("cur_con_count")>>
ClientReadsServerInfoPack == <<R("name"), R("ip"), N("sport"), N("lport"), N("cur_con_count")>>
ServerWritesServerState == <<N("code"), N("cur_con_count")>>
BalancerReadsServerState == <<N("code"), N("cur_con_count")>>

Route(kind, writes, reads) == [kind |-> kind, writes |-> writes, reads |-> reads]

Routes == {
  Route("PDU", ClientWritesPDU, ServerReadsPDU),
  Route("TranPdu", ClientWritesTranPdu, ServerReadsTranPdu),
  Route("TranDataPdu", ClientWritesTranDataPdu, ServerReadsTranDataPdu),
  Route("TranFinishPdu", ClientWritesTranFinishPdu, ServerReadsTranFinishPdu),
  Route("TranControlPdu", ClientWritesTranControlPdu, ServerReadsTranControlPdu),
  Route("PDURespond", ServerWritesPDURespond, ClientReadsPDURespond),
  Route("TranDataPdu", ServerWritesTranDataPdu, ClientReadsTranDataPdu),
  Route("UserInfo", ServerWritesUserInfo, ClientReadsUserInfo),
  Route("FileInfo", ServerWritesFileInfo, ClientReadsFileInfo),
  Route("ServerInfoPack", ServerWritesServerInfoPack, BalancerReadsServerInfoPack),
  Route("ServerInfoPack", BalancerWritesServerInfoPack, ClientReadsServerInfoPack),
  Route("ServerState", ServerWritesServerState, BalancerReadsServerState) }

-----------------------------------------------------------------------------
(* Bytes *)

HasTail(r) == \E i \in DOMAIN r.writes : r.writes[i].name \in {"msg", "data"}

\* What a field of message (r, n) holds: only lengths matter.
ValueOf(r, n, f) ==
  CASE f = "body_len" -> BodyLen[r.kind] + n
    [] f \in {"msg_len", "chunk_size"} -> n
    [] OTHER -> 0

\* htons, htonl and htonll on a little-endian host.  The last is two htonl, of the
\* halves, which change places.
Htonl(bs) == Reverse(bs)
Htonll(bs) == Htonl(SubSeq(bs, 5, 8)) \o Htonl(SubSeq(bs, 1, 4))
Net(bs) == IF Len(bs) = 8 THEN Htonll(bs) ELSE Htonl(bs)

Host(f, v, width) == [i \in 1..width |-> [name |-> f, value |-> v, place |-> i]]

\* One writeData of the serializer.
WriteData(widths, r, n, field) ==
  CASE field.how = "net" -> Net(Host(field.name, ValueOf(r, n, field.name), widths[field.name]))
    [] field.how = "raw" -> Host(field.name, ValueOf(r, n, field.name), widths[field.name])
    [] OTHER -> Host(field.name, 0, n)

\* A serializer: one field behind the other.
WriteFields(widths, fields, r, n) ==
  LET out[i \in 0..Len(fields)] ==
        IF i = 0 THEN <<>> ELSE out[i - 1] \o WriteData(widths, r, n, fields[i])
  IN  out[Len(fields)]

Written(r, n) == WriteFields(Header, HeaderBytes, r, n)
                 \o WriteFields(Struct[r.kind], r.writes, r, n)

\* The buffer comes from a pool: what the serializer does not write is left over
\* from another message.
Stale == [name |-> "stale", value |-> 0, place |-> 1]
Transmitted(r, n) ==
  LET total == 8 + BodyLen[r.kind] + n
      w == Written(r, n)
  IN  [i \in 1..total |-> IF i <= Len(w) THEN w[i] ELSE Stale]

\* One writeData of the deserializer, at offset at: the number and name that the
\* width bytes make after ntoh, or nothing if they are not one field's bytes.
Garbled == [name |-> "garbled", value |-> 0]
ReadField(bs, at, width, how) ==
  LET slice == SubSeq(bs, at + 1, at + width)
      host  == IF how = "net" THEN Net(slice) ELSE slice
  IN  IF width = 0 THEN [name |-> "empty", value |-> 0]
      ELSE IF Len(slice) = width /\ \A i \in 1..width : host[i] = [host[1] EXCEPT !.place = i]
      THEN [name |-> host[1].name, value |-> host[1].value]
      ELSE Garbled

\* A deserializer reads the field at the offset so far, beside the fields so far.  A
\* tail is as long as the length that was read before it says.
ReadOne(widths, bs, acc, field) ==
  LET width == IF field.how \in {"net", "raw"} THEN widths[field.name]
               ELSE acc.got[field.how].value
  IN  [at |-> acc.at + width,
       got |-> [f \in DOMAIN acc.got \cup {field.name} |->
                  IF f = field.name THEN ReadField(bs, acc.at, width, field.how)
                  ELSE acc.got[f]]]

ReadFields(widths, fields, bs, start) ==
  LET pass[i \in 0..Len(fields)] ==
        IF i = 0 THEN [at |-> start, got |-> [f \in {} |-> Garbled]]
        ELSE ReadOne(widths, bs, pass[i - 1], fields[i])
  IN  pass[Len(fields)]

-----------------------------------------------------------------------------
WInit ==
  /\ wPhase = "idle"
  /\ wRoute \in Routes
  /\ wTail \in IF HasTail(wRoute) THEN WTails ELSE {0}
  /\ wWire = <<>> /\ wGot = [f \in {} |-> Garbled]

\* serialize, whose checks of type, size and buffer throw, and SSL_write.
WSerialize ==
  /\ wPhase = "idle"
  /\ 8 + BodyLen[wRoute.kind] + wTail <= WBufferSize
  /\ wWire' = Transmitted(wRoute, wTail)
  /\ wPhase' = "sent"
  /\ UNCHANGED <<wRoute, wTail, wGot>>

\* The header first, then deserialize on header and body.
WDeserialize ==
  /\ wPhase = "sent"
  /\ LET h == ReadFields(Header, ServerReadsHeader, wWire, 0)
     IN  /\ h.got["type"].name = "type"
         /\ Len(wWire) >= 8 + h.got["body_len"].value
         /\ wGot' = ReadFields(Struct[wRoute.kind], wRoute.reads, wWire, 8).got
  /\ wPhase' = "read"
  /\ UNCHANGED <<wRoute, wTail, wWire>>

WNext == WSerialize \/ WDeserialize

WSpec == WInit /\ [][WNext]_wVars

WTypeOK ==
  /\ wPhase \in {"idle", "sent", "read"}
  /\ wRoute \in Routes /\ wTail \in WTails \cup {0}
  /\ Len(wWire) <= WBufferSize

\* Every field of a message arrives under its own name with its own value, and so
\* does the tail, in whichever program's copies it was written and read.
WReadBack ==
  wPhase = "read" =>
    /\ \A f \in DOMAIN Struct[wRoute.kind] :
         f \in DOMAIN wGot /\ wGot[f] = [name |-> f, value |-> ValueOf(wRoute, wTail, f)]
    /\ wTail > 0 => \E f \in DOMAIN wGot : f \in {"msg", "data"} /\ wGot[f].name = f

\* The length in the header, from a macro and a message length, is what the
\* serializer writes, so no byte of an earlier message leaves with this one; but
\* PDU_BODY_BASE_LEN counts three integers where PDU has two: four stale bytes
\* follow every PDU, and nothing behind it starts before them.  A tail is
\* as long as its msg_len says; what the string behind it holds is not looked at (the
\* answer to GETS announces eight bytes more than its string has).
WLengthHonest ==
  LET stale == {i \in DOMAIN wWire : wWire[i].name = "stale"}
  IN  stale = IF wPhase # "idle" /\ wRoute.kind = "PDU"
              THEN (Len(wWire) - 3)..Len(wWire) ELSE {}
=============================================================================
