---------------------------- MODULE WebTransport ----------------------------
(***************************************************************************)
(* A WebTransport session on a server: how it is accepted, one stream that *)
(* belongs to it, and its datagrams.                                       *)
(*                                                                         *)
(* The stream is followed byte by byte from end to end.  Either it is      *)
(* opened as OpenUni and OpenBi open one, header first, by futures that    *)
(* may be dropped half-way; or it carries what some other peer has sent.   *)
(* It is received in chunks of any size, told apart by AcceptRecvStream    *)
(* (unidirectional) or BiStreamResolver (bidirectional), kept until the    *)
(* application asks for it, and read through BufRecvStream.                *)
(***************************************************************************)
EXTENDS FrameStream, Settings, Datagram

CONSTANTS
  Offers,       \* what the client announces: its config, and either whether it
                \* sends grease with it or the payload of its SETTINGS
  Connects,     \* CONNECT requests: their stream id, whether they are valid, and
                \* the payloads the application then sends as datagrams
  Sessions,     \* session ids that streams are opened for
  Data,         \* the bytes the application writes on a stream it opens
  MaxChunk      \* bound: bytes QUIC takes or hands over at a time

(* Session and stream ids are VarInts, here of at most four bytes.         *)
ASSUME SessionsAssumption == \A s \in Sessions : s \in Nat /\ s < 64 * 256 * 256 * 256
ASSUME ConnectsAssumption ==
  \A c \in Connects : c.id \in Nat /\ c.id < 64 * 256 * 256 * 256 /\ \A p \in c.payloads : IsBuf(p)
ASSUME DataAssumption == Data \in Seq(Byte)
ASSUME WebTransportAssumption == MaxChunk \in Nat \ {0} /\ None \notin Nat

VARIABLES
  enabled,               \* enable_webtransport of the server's own config
  offer, connect,        \* what the client announces and asks for
  settings,              \* SharedState.settings; None until SETTINGS is handled
  session,               \* WebTransportSession.session_id; None before accept
  response,              \* the status that answered CONNECT
  kind,                  \* "uni" or "bi"
  opener,                \* OpenUni or OpenBi, and the stream it gives
  ty, id,                \* AcceptRecvStream.ty and .id; the session id for "bi"
  phase,                 \* where the accepted stream is
  got,                   \* history: the bytes its reader was given
  told,                  \* what its reader was told of its end: "", "end", "broken"
  halves                 \* BidiStream::split was called

negotiation == <<enabled, offer, connect, settings, session, response>>
accepted == <<ty, id, phase>>
reading == <<got, told, halves>>
dgrams == <<net, dsent, dread>>
bytes_in == <<buf, eos, expected, remaining_data>>
vars == <<stream, bytes_in, negotiation, kind, opener, accepted, reading, dgrams, conn_error>>

PUSH == 1
WEBTRANSPORT_UNI == 84

-----------------------------------------------------------------------------
(***************************************************************************)
(* SETTINGS and CONNECT.                                                   *)
(***************************************************************************)
IsConfig(o) == "grease" \in DOMAIN o

(* A client that is h3 announces some configuration h3 can have.           *)
ASSUME OffersAssumption ==
  \A o \in Offers : IsConfig(o) => o.config \in ConfigSettings /\ o.grease \in BOOLEAN

Announced(o) == IF IsConfig(o) THEN try_from_config(o.config, o.grease) ELSE Default
Announces(o) == IF IsConfig(o) THEN encode_settings(Announced(o)) ELSE o.payload

(* What the server decodes; a client whose configuration cannot be written *)
(* panics instead and sends nothing.                                       *)
SettingsReceived ==
  [o \in Offers |-> IF IsConfig(o) /\ EncodePanics(Announced(o)) THEN None
                    ELSE decode_settings(Announces(o))]

(* poll_control handles the SETTINGS frame.                                *)
ReceiveSettings ==
  /\ settings = None
  /\ conn_error = ""
  /\ SettingsReceived[offer] # None
  /\ LET s == SettingsReceived[offer]
     IN IF s.error = "" THEN settings' = from_settings(s) /\ UNCHANGED conn_error
        ELSE SetError("H3_SETTINGS_ERROR") /\ UNCHANGED settings
  /\ UNCHANGED <<stream, bytes_in, enabled, offer, connect, session, response, kind, opener,
                 accepted, reading, dgrams>>

KnownSettings == IF settings = None THEN DefaultConfig ELSE settings

(* StreamId::index, which From<StreamId> for SessionId takes.              *)
index(stream_id) == stream_id \div 4

(* WebTransportSession::accept, with what is known of the client by then.  *)
(* A CONNECT that is not for WebTransport is answered with an error and    *)
(* yet gives a session.                                                    *)
accept ==
  /\ session = None
  /\ response = None
  /\ conn_error = ""
  /\ IF ~KnownSettings.enable_webtransport \/ ~KnownSettings.enable_datagram
     THEN SetError("H3_SETTINGS_ERROR") /\ UNCHANGED <<session, response>>
     ELSE /\ session' = index(connect.id)
          /\ response' = IF connect.valid THEN 200 ELSE 400
          /\ UNCHANGED conn_error
  /\ UNCHANGED <<stream, bytes_in, enabled, offer, connect, settings, kind, opener, accepted, reading,
                 dgrams>>

(* send_response fails: no session, and stream and connection are dropped. *)
AcceptFails ==
  /\ session = None
  /\ response = None
  /\ KnownSettings.enable_webtransport /\ KnownSettings.enable_datagram
  /\ response' = 0
  /\ SetError("remote")
  /\ UNCHANGED <<stream, bytes_in, enabled, offer, connect, settings, session, kind, opener, accepted,
                 reading, dgrams>>

-----------------------------------------------------------------------------
(***************************************************************************)
(* OpenUni and OpenBi, and writing on the stream they return.              *)
(***************************************************************************)
Unopened == [at |-> "none", session |-> None, left |-> <<>>]

(* UniStreamHeader and BidiStreamHeader.                                   *)
StreamHeader(k, s) ==
  VarEncode(u64(IF k = "uni" THEN WEBTRANSPORT_UNI ELSE WEBTRANSPORT_BI_STREAM))
  \o VarEncode(u64(s))

OnlyOpener == UNCHANGED <<sent, bytes_in, negotiation, accepted, reading, dgrams>>

Open(k, s) ==
  /\ opener.at = "none"
  /\ wire = <<>> /\ ending = "open"
  /\ kind' = k
  /\ opener' = [at |-> "header", session |-> s, left |-> StreamHeader(k, s)]
  /\ UNCHANGED <<wire, ending, conn_error>> /\ OnlyOpener

(* Deliberate bug: the stream is returned after the first write.           *)
PollSend_Once(n) ==
  /\ opener.at = "header"
  /\ n <= Len(opener.left)
  /\ wire' = wire \o SubSeq(opener.left, 1, n)
  /\ opener' = [opener EXCEPT !.left = Data, !.at = "open"]
  /\ UNCHANGED <<ending, kind, conn_error>> /\ OnlyOpener

(* QUIC takes n bytes of the header; the future is ready once it has all.  *)
PollSend(n) ==
  /\ opener.at = "header"
  /\ n <= Len(opener.left)
  /\ wire' = wire \o SubSeq(opener.left, 1, n)
  /\ opener' = IF n < Len(opener.left)
               THEN [opener EXCEPT !.left = SubSeq(@, n + 1, Len(@))]
               ELSE [opener EXCEPT !.left = Data, !.at = "open"]
  /\ UNCHANGED <<ending, kind, conn_error>> /\ OnlyOpener

(* The peer stops the stream, or the connection is lost, while the header  *)
(* is written.                                                             *)
PollSendFails(lost) ==
  /\ opener.at = "header"
  /\ opener' = [opener EXCEPT !.at = "failed"]
  /\ IF lost THEN SetError("remote") /\ ending' = "lost"
     ELSE ending' = "reset" /\ UNCHANGED conn_error
  /\ UNCHANGED <<wire, kind>> /\ OnlyOpener

(* A dropped future drops its stream, which QUIC then finishes.            *)
DropOpen ==
  /\ opener.at = "header"
  /\ opener' = [opener EXCEPT !.at = "dropped"]
  /\ ending' = "fin"
  /\ UNCHANGED <<wire, kind, conn_error>> /\ OnlyOpener

(* AsyncWrite::poll_write.                                                 *)
poll_write(n) ==
  /\ opener.at = "open" /\ ending = "open"
  /\ n <= Len(opener.left)
  /\ wire' = wire \o SubSeq(opener.left, 1, n)
  /\ opener' = [opener EXCEPT !.left = SubSeq(@, n + 1, Len(@))]
  /\ UNCHANGED <<ending, kind, conn_error>> /\ OnlyOpener

(* poll_close and poll_shutdown finish the stream; or it is reset.         *)
CloseStream(end) ==
  /\ opener.at = "open" /\ ending = "open"
  /\ ending' = end
  /\ UNCHANGED <<wire, kind, opener, conn_error>> /\ OnlyOpener

-----------------------------------------------------------------------------
(***************************************************************************)
(* AcceptRecvStream: poll_type, as poll_accept_recv calls it.              *)
(***************************************************************************)
NeedsId(type) == type \in {PUSH, WEBTRANSPORT_UNI}

(* into_stream and what poll_accept_recv does with it: a WebTransport      *)
(* stream is kept, the others are for Control or dropped.                  *)
Kept(type) == IF type = WEBTRANSPORT_UNI /\ enabled THEN "ready" ELSE "gone"

(* Deliberate bug: the length in the first byte is not looked at.          *)
WantedNow_One == IF expected = None /\ received' > pos THEN 1 ELSE expected

(* What poll_next_varint sees once it has polled the stream: it fixes how  *)
(* many bytes it wants by the first byte it ever sees.                     *)
WantedNow == IF expected = None /\ received' > pos THEN encoded_size(wire[pos + 1]) ELSE expected
EnoughNow == WantedNow # None /\ received' - pos >= WantedNow

(* The type, or after it the id.                                           *)
TakeVarint ==
  LET v == Var(wire, pos) IN
  /\ pos' = VarEnd(wire, pos)
  /\ cuts' = {c \in cuts \cup {received'} : c > pos'}
  /\ IF ty = None
     THEN ty' = v /\ phase' = (IF NeedsId(v) THEN phase ELSE Kept(v)) /\ UNCHANGED id
     ELSE id' = v /\ phase' = Kept(ty) /\ UNCHANGED ty
  /\ UNCHANGED conn_error

LookForVarint(stopped) ==
  /\ expected' = WantedNow
  /\ IF EnoughNow
     THEN IF HasVar(wire, pos, received') THEN TakeVarint
          ELSE /\ SetError("H3_INTERNAL_ERROR")
               /\ phase' = "error"
               /\ pos' = pos + 1
               /\ cuts' = {c \in cuts \cup {received'} : c > pos'}
               /\ UNCHANGED <<ty, id>>
     ELSE /\ phase' = IF stopped THEN "gone" ELSE phase
          /\ cuts' = {c \in cuts \cup {received'} : c > pos}
          /\ UNCHANGED <<pos, ty, id, conn_error>>

Polling == kind = "uni" /\ phase = "queued" /\ conn_error = ""
OnlyAccept == UNCHANGED <<stream, remaining_data, negotiation, kind, opener, reading, dgrams>>

PollTypeChunk(n) ==
  /\ Polling
  /\ ReadChunk(n)
  /\ LookForVarint(FALSE)
  /\ UNCHANGED eos /\ OnlyAccept

(* Deliberate bug: the end is waited at.                                   *)
PollTypeEnd_Waits ==
  /\ Polling
  /\ AtEnd
  /\ eos' = TRUE
  /\ UNCHANGED received
  /\ LookForVarint(FALSE)
  /\ OnlyAccept

(* The stream has ended: one more look at what is buffered.                *)
PollTypeEnd ==
  /\ Polling
  /\ AtEnd
  /\ eos' = TRUE
  /\ UNCHANGED received
  /\ LookForVarint(TRUE)
  /\ OnlyAccept

PollTypeReset ==
  /\ Polling
  /\ Broken /\ ending = "reset"
  /\ UNCHANGED <<received, eos>>
  /\ LookForVarint(TRUE)
  /\ OnlyAccept

PollTypeLost ==
  /\ Polling
  /\ Broken /\ ending = "lost"
  /\ SetError("remote")
  /\ phase' = "error"
  /\ UNCHANGED <<ty, id, buf, eos, expected>> /\ OnlyAccept

(* AcceptUni::poll.                                                        *)
AcceptUni ==
  /\ session # None
  /\ conn_error = ""
  /\ kind = "uni" /\ phase = "ready"
  /\ phase' = "mine"
  /\ UNCHANGED <<stream, bytes_in, negotiation, kind, opener, ty, id, reading, dgrams, conn_error>>

-----------------------------------------------------------------------------
(***************************************************************************)
(* accept_bi and BiStreamResolver::resolve.                                *)
(***************************************************************************)
Resolving == kind = "bi" /\ phase = "queued" /\ session # None

(* FrameDecoder::decode on what is buffered by now, unknown frames skipped *)
(* one by one; into_inner leaves the rest of the buffer to the reader.     *)
ResolveFrame ==
  LET d == Decode(wire, pos, received) IN
  /\ Resolving
  /\ ~TooShort
  /\ expected' = IF d.res = "incomplete" THEN d.min ELSE None
  /\ IF d.res \in {"frame", "unknown"} THEN advance(d.end) ELSE UNCHANGED <<pos, cuts>>
  /\ IF d.res = "frame" /\ d.type = WEBTRANSPORT_BI_STREAM
     THEN phase' = "mine" /\ id' = Var(wire, d.at) /\ UNCHANGED conn_error
     ELSE /\ phase' = CASE d.res = "frame" -> "request"
                        [] d.res = "error" -> "error"
                        [] OTHER -> phase
          /\ IF d.res = "error" THEN SetError(d.code) ELSE UNCHANGED conn_error
          /\ UNCHANGED id
  /\ UNCHANGED <<received, eos, ty>> /\ OnlyAccept

(* There is nothing that could be decoded.                                 *)
Starved == TooShort \/ Decode(wire, pos, received).res = "incomplete"

ResolveChunk(n) ==
  /\ Resolving
  /\ Starved
  /\ ReadChunk(n)
  /\ cuts' = cuts \cup {received'}
  /\ UNCHANGED <<pos, eos, expected, accepted, conn_error>> /\ OnlyAccept

(* accept_with_frame: no frame at all, or half of one.                     *)
ResolveEnd ==
  /\ Resolving
  /\ Starved
  /\ AtEnd
  /\ eos' = TRUE
  /\ phase' = "gone"
  /\ IF remaining > 0 THEN SetError("H3_FRAME_ERROR") ELSE UNCHANGED conn_error
  /\ UNCHANGED <<buf, expected, ty, id>> /\ OnlyAccept

ResolveBroken ==
  /\ Resolving
  /\ Starved
  /\ Broken
  /\ phase' = "gone"
  /\ IF ending = "lost" THEN SetError("remote") ELSE UNCHANGED conn_error
  /\ UNCHANGED <<buf, eos, expected, ty, id>> /\ OnlyAccept

-----------------------------------------------------------------------------
(***************************************************************************)
(* BufRecvStream as the application reads it.                              *)
(***************************************************************************)
Reading == phase = "mine" /\ told = ""
OnlyRead == UNCHANGED <<stream, expected, remaining_data, negotiation, kind, opener, accepted,
                        dgrams, conn_error>>

Give(from, to) == got' = got \o SubSeq(wire, from + 1, to)

(* Deliberate bug: what is buffered is passed over.                        *)
poll_data_Direct(n) ==
  /\ Reading
  /\ ReadChunk(n) /\ Give(received, received') /\ pos' = received' /\ cuts' = {}
  /\ UNCHANGED <<eos, told, halves>> /\ OnlyRead

(* RecvStream::poll_data: the first buffered chunk, else straight from     *)
(* QUIC past the buffer.                                                   *)
poll_data(n) ==
  /\ Reading
  /\ IF remaining > 0
     THEN LET end == ChunkEnd(cuts, Unlimited)
          IN advance(end) /\ Give(pos, end) /\ UNCHANGED received
     ELSE ReadChunk(n) /\ Give(received, received') /\ pos' = received' /\ UNCHANGED cuts
  /\ UNCHANGED <<eos, told, halves>> /\ OnlyRead

(* AsyncRead::poll_read with room for limit bytes: QUIC is polled only     *)
(* when nothing is buffered, and what does not fit stays buffered.         *)
poll_read(n, limit) ==
  /\ Reading
  /\ IF remaining > 0 THEN UNCHANGED received ELSE ReadChunk(n)
  /\ LET bounds == IF remaining > 0 THEN cuts ELSE {received'}
         end == ChunkEnd(bounds, limit)
     IN pos' = end /\ cuts' = {c \in bounds : c > end} /\ Give(pos, end)
  /\ UNCHANGED <<eos, told, halves>> /\ OnlyRead

(* Nothing is buffered, and the stream has ended or is broken.             *)
ReadEnd ==
  /\ Reading
  /\ remaining = 0
  /\ \/ AtEnd /\ eos' = TRUE /\ told' = "end"
     \/ Broken /\ told' = "broken" /\ UNCHANGED eos
  /\ UNCHANGED <<buf, got, halves>> /\ OnlyRead

(* BidiStream::split: the receiving half keeps the buffer.                 *)
split ==
  /\ Reading
  /\ kind = "bi" /\ ~halves
  /\ halves' = TRUE
  /\ SplitBuffer
  /\ UNCHANGED <<got, told>> /\ OnlyRead

-----------------------------------------------------------------------------
(***************************************************************************)
(* Datagrams of the session.                                               *)
(***************************************************************************)
OnlyDatagrams == UNCHANGED <<stream, bytes_in, negotiation, kind, opener, accepted, reading>>

(* datagram_sender is made for the stream of CONNECT.                      *)
SendDatagram(payload) ==
  /\ session # None /\ conn_error = ""
  /\ send_datagram(u64(connect.id), payload)
  /\ OnlyDatagrams

LoseConnection ==
  /\ session # None /\ conn_error = ""
  /\ SendDatagramFails
  /\ OnlyDatagrams

ReadDatagram(bytes) == session # None /\ read_datagram(bytes) /\ OnlyDatagrams
DatagramLost(bytes) == LoseDatagram(bytes) /\ OnlyDatagrams

-----------------------------------------------------------------------------
Init ==
  /\ InitStream
  /\ InitDatagrams
  /\ conn_error = ""
  /\ enabled \in BOOLEAN
  /\ offer \in Offers
  /\ connect \in Connects
  /\ kind \in {"uni", "bi"}
  /\ settings = None /\ session = None /\ response = None
  /\ opener = Unopened
  /\ ty = None /\ id = None
  /\ phase = "queued"
  /\ got = <<>> /\ told = "" /\ halves = FALSE

PollType ==
  \/ \E n \in 1 .. MaxChunk : PollTypeChunk(n)
  \/ PollTypeEnd
  \/ PollTypeReset
  \/ PollTypeLost

Resolve ==
  \/ \E n \in 1 .. MaxChunk : ResolveChunk(n)
  \/ ResolveFrame
  \/ ResolveEnd
  \/ ResolveBroken

Next ==
  \/ ReceiveSettings
  \/ accept
  \/ AcceptFails
  \/ \E k \in {"uni", "bi"}, s \in Sessions : Open(k, s)
  \/ \E n \in 1 .. MaxChunk : PollSend(n)
  \/ \E lost \in BOOLEAN : PollSendFails(lost)
  \/ DropOpen
  \/ \E n \in 1 .. MaxChunk : poll_write(n)
  \/ \E end \in {"fin", "reset"} : CloseStream(end)
  \/ PollType
  \/ AcceptUni
  \/ Resolve
  \/ \E n \in 1 .. MaxChunk : poll_data(n)
  \/ \E n, limit \in 1 .. MaxChunk : poll_read(n, limit)
  \/ ReadEnd
  \/ split
  \/ \E p \in connect.payloads : SendDatagram(p)
  \/ LoseConnection
  \/ \E d \in net : ReadDatagram(d)
  \/ \E d \in net : DatagramLost(d)

Spec == Init /\ [][Next]_vars

(* QUIC delivers what was sent, the application keeps polling its          *)
(* connection and polls the resolvers it was given.                        *)
FairSpec == Spec /\ WF_vars(PollType) /\ WF_vars(Resolve)

-----------------------------------------------------------------------------
(***************************************************************************)
(* Properties.                                                             *)
(***************************************************************************)

(* What SharedState.connection_error may hold.                             *)
Errors == {"", "remote", "H3_INTERNAL_ERROR", "H3_FRAME_ERROR", "H3_FRAME_UNEXPECTED",
           "H3_SETTINGS_ERROR", "H3_DATAGRAM_ERROR"}

WriterType ==
  /\ wire \in Seq(Byte) /\ ending \in {"fin", "reset", "lost", "open"}
  /\ kind \in {"uni", "bi"}
  /\ opener \in [at : {"none", "header", "open", "failed", "dropped"},
                 session : Sessions \cup {None}, left : Seq(Byte)]
BufferType ==
  /\ pos \in 0 .. received /\ received \in 0 .. Len(wire)
  /\ cuts \subseteq (pos + 1) .. received
  /\ received > pos => received \in cuts
  /\ expected \in Nat \cup {None}
IdType == ty \in Nat \cup {None} /\ id \in Nat \cup {None}
ReaderType ==
  /\ phase \in {"queued", "ready", "mine", "request", "gone", "error"}
  /\ got \in Seq(Byte) /\ told \in {"", "end", "broken"}
FlagType == enabled \in BOOLEAN /\ eos \in BOOLEAN
SharedType == conn_error \in Errors /\ response \in {None, 0, 200, 400}

(* BufList holds exactly the received bytes that were not consumed, in     *)
(* non-empty chunks, whichever of the ways of consuming them is used.      *)
TypeOK == WriterType /\ BufferType /\ IdType /\ ReaderType /\ FlagType /\ SharedType

(* The reference: where a session's stream names its session, and where    *)
(* its data begins.                                                        *)
IdAt(w) == VarEnd(w, 0)
SessionOf(k, w) == IF k = "uni" THEN Var(w, IdAt(w)) ELSE FramesOf(w)[1].len
DataStart(k, w) == IF k = "uni" THEN VarEnd(w, IdAt(w)) ELSE FramesOf(w)[1].at

(* A stream the application is given belongs to the session its opener     *)
(* named, however its header was written and received piece by piece; one  *)
(* whose opening failed or was dropped is never handed over.               *)
ResolvedIsOpened ==
  phase \in {"ready", "mine"} =>
    /\ id = SessionOf(kind, wire)
    /\ opener.at \in {"none", "open"}
    /\ opener.at = "open" => id = opener.session

(* The reader of a session's stream is given what follows the header, all  *)
(* of it, once and in order, through poll_data, AsyncRead and split in any *)
(* mixture; it is told of the end only when it has everything.             *)
ReadsAreExact ==
  phase = "mine" =>
    LET start == DataStart(kind, wire) IN
    /\ start + Len(got) = pos
    /\ got = SubSeq(wire, start + 1, pos)
    /\ told = "end" => ending = "fin" /\ pos = Len(wire)

(* A header is whole: its type, and the id if the type has one.            *)
HeaderWhole(w) ==
  /\ HasVar(w, 0, Len(w))
  /\ NeedsId(Var(w, 0)) => HasVar(w, IdAt(w), Len(w))
TypeSize(w) == encoded_size(w[1])
IdSize(w) == encoded_size(w[IdAt(w) + 1])

(* AcceptRecvStream keeps the length it expected of the type for the id    *)
(* that follows.  This alone can make it fail: H3_INTERNAL_ERROR is only   *)
(* ever raised for an id longer than its type, and a finished stream with  *)
(* a whole header is only ever dropped as unfinished when its id is        *)
(* shorter than its type and too little follows.                           *)
OnlyStaleLengthsFail ==
  /\ conn_error = "H3_INTERNAL_ERROR" =>
       /\ ty # None /\ NeedsId(ty)
       /\ IdSize(wire) > TypeSize(wire)
  /\ (kind = "uni" /\ phase = "gone" /\ ending = "fin" /\ HeaderWhole(wire)) =>
       \/ ty # None /\ (NeedsId(ty) => id # None)
       \/ IdSize(wire) < TypeSize(wire) /\ Len(wire) - IdAt(wire) < TypeSize(wire)

(* What read_datagram returns was sent for that stream with that payload,  *)
(* whichever way the payload is split into chunks; H3_DATAGRAM_ERROR is    *)
(* raised for a stream id that is cut short or above 2 ^ 62 - 1 alone.     *)
DatagramsKeepTheirStream ==
  /\ \A d \in dread :
       \/ d \in dsent
       \/ \E b \in PeerDatagrams :
            VarThere(b) /\ d = [stream_id |-> d.stream_id, payload |-> VarRest(b)]
            /\ d.stream_id[8] % 4 = 0 /\ OverFour(d.stream_id) = VarValue(b)
  /\ conn_error = "H3_DATAGRAM_ERROR" =>
       \E b \in PeerDatagrams : ~VarThere(b) \/ VarValue(b)[1] >= 16

(* A SETTINGS frame that does not decode, the first known frame of a       *)
(* bidirectional stream some other peer has sent.                          *)
SettingsOnStream ==
  /\ kind = "bi" /\ opener.at = "none"
  /\ Len(FramesOf(wire)) >= 1
  /\ LET f == FramesOf(wire)[1] IN f.type = SETTINGS /\ BadSettings(wire, f.at, f.len)

(* A session exists only when the client has announced WebTransport and    *)
(* datagrams; the server knows the client's configuration as it is, grease *)
(* and integers of every size included.  With a client that offers both    *)
(* there is a settings error only if accept ran before the client's        *)
(* SETTINGS were handled, or a SETTINGS frame that does not decode came on *)
(* a stream where none is allowed.                                         *)
SessionIsNegotiated ==
  /\ settings # None => settings = offer.config
  /\ session # None => settings # None /\ offer.config.enable_webtransport
                                       /\ offer.config.enable_datagram
  /\ conn_error = "H3_SETTINGS_ERROR" =>
       \/ settings = None \/ ~offer.config.enable_webtransport \/ ~offer.config.enable_datagram
       \/ SettingsOnStream

(* A stream that has ended, in whatever way and wherever in its header,    *)
(* does not stay among those that wait for their header.                   *)
EndedIsSettled ==
  (ending # "open" /\ (kind = "uni" \/ session # None))
    ~> (phase # "queued" \/ conn_error # "")
=============================================================================
