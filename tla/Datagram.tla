------------------------------ MODULE Datagram ------------------------------
(***************************************************************************)
(* h3-datagram over h3-quinn: HTTP datagrams, each marked with the stream  *)
(* it belongs to.                                                          *)
(*                                                                         *)
(* QUIC may lose and reorder datagrams.  A payload is a sequence of chunks *)
(* of bytes, as a Buf may hold it.                                         *)
(***************************************************************************)
EXTENDS VarInt, SequencesExt

CONSTANT
  PeerDatagrams     \* datagrams any other sender may have put on the wire

ASSUME PeerDatagramsAssumption == \A b \in PeerDatagrams : b \in Seq(Byte)

VARIABLES
  conn_error,       \* SharedState.connection_error; "" while there is none
  net,              \* datagrams under way
  dsent,            \* history: what send_datagram was given and QUIC took
  dread             \* history: what read_datagram returned

(* A payload: a Buf has an empty chunk only when nothing is left.          *)
IsBuf(chunks) == chunks \in Seq(Seq(Byte)) /\ \A i \in 1 .. Len(chunks) : chunks[i] # <<>>

(* set_conn_error: the first error stays.                                  *)
SetError(code) == conn_error' = IF conn_error = "" THEN code ELSE conn_error

-----------------------------------------------------------------------------
(***************************************************************************)
(* Datagram::encode gives an EncodedDatagram, a Buf of the quarter stream  *)
(* id followed by the payload, which h3-quinn copies to one run of bytes.  *)
(***************************************************************************)
encode_datagram(stream_id, payload) ==
  LET quarter == OverFour(stream_id)
  IN [stream_id |-> VarEncode(quarter), len |-> VarSize(quarter), pos |-> 0, payload |-> payload]

dremaining(e) == e.len - e.pos + Len(FlattenSeq(e.payload))

dchunk(e) ==
  IF e.len - e.pos > 0 THEN SubSeq(e.stream_id, e.pos + 1, e.len)
  ELSE IF e.payload = <<>> THEN <<>> ELSE Head(e.payload)

(* The payload, a Buf too, forgets what was consumed.                      *)
AdvancePayload(chunks, cnt) ==
  IF cnt = 0 THEN chunks
  ELSE IF cnt >= Len(Head(chunks)) THEN Tail(chunks)
  ELSE [chunks EXCEPT ![1] = SubSeq(@, cnt + 1, Len(@))]

(* Deliberate bug: what the header takes is not taken off the count.       *)
dadvance_Twice(e, cnt) ==
  LET advanced == IF cnt < e.len - e.pos THEN cnt ELSE e.len - e.pos
  IN [e EXCEPT !.pos = @ + advanced,
               !.payload = AdvancePayload(@, IF @ = <<>> THEN 0 ELSE cnt)]

dadvance(e, cnt) ==
  LET advanced == IF cnt < e.len - e.pos THEN cnt ELSE e.len - e.pos
  IN [e EXCEPT !.pos = @ + advanced, !.payload = AdvancePayload(@, cnt - advanced)]

(* Buf::copy_to_bytes, chunk by chunk.                                     *)
CopyChunk(st) ==
  IF dremaining(st.buf) = 0 THEN st
  ELSE [buf |-> dadvance(st.buf, Len(dchunk(st.buf))), out |-> st.out \o dchunk(st.buf)]
copy_to_bytes(e) ==
  LET After[k \in 0 .. dremaining(e)] ==
        IF k = 0 THEN [buf |-> e, out |-> <<>>] ELSE CopyChunk(After[k - 1])
  IN After[dremaining(e)].out

(* Datagram::decode.                                                       *)
DecodesTo(bytes) == [stream_id |-> TimesFour(VarValue(bytes)), payload |-> VarRest(bytes)]
Decodable(bytes) == VarThere(bytes) /\ IsVarInt(TimesFour(VarValue(bytes)))

-----------------------------------------------------------------------------
(***************************************************************************)
(* DatagramSender and DatagramReader.                                      *)
(***************************************************************************)
InitDatagrams ==
  /\ net \in {{}} \cup {{d} : d \in PeerDatagrams}
  /\ dsent = {}
  /\ dread = {}

(* A sender is made for a stream a client has opened (Datagram::new        *)
(* asserts as much), and QUIC takes the datagram.                          *)
send_datagram(stream_id, payload) ==
  /\ stream_id[8] % 4 = 0
  /\ net' = net \cup {copy_to_bytes(encode_datagram(stream_id, payload))}
  /\ dsent' = dsent \cup {[stream_id |-> stream_id, payload |-> FlattenSeq(payload)]}
  /\ UNCHANGED <<dread, conn_error>>

(* The connection is lost; when QUIC refuses a datagram as too large or    *)
(* not available nothing changes.                                          *)
SendDatagramFails ==
  /\ SetError("remote")
  /\ UNCHANGED <<net, dsent, dread>>

read_datagram(bytes) ==
  /\ bytes \in net
  /\ net' = net \ {bytes}
  /\ IF Decodable(bytes)
     THEN dread' = dread \cup {DecodesTo(bytes)} /\ UNCHANGED conn_error
     ELSE SetError("H3_DATAGRAM_ERROR") /\ UNCHANGED dread
  /\ UNCHANGED dsent

LoseDatagram(bytes) ==
  /\ bytes \in net
  /\ net' = net \ {bytes}
  /\ UNCHANGED <<dsent, dread, conn_error>>
=============================================================================
