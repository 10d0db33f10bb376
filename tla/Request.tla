------------------------------- MODULE Request -------------------------------
(***************************************************************************)
(* Receiving a request (server: RequestResolver, then RequestStream) or a  *)
(* response (client: RequestStream) from a stream of frames: the message's *)
(* header, then recv_data until it returns None, then recv_trailers.  The  *)
(* caller may drop any of these futures while it is pending and call       *)
(* again, and may split the stream between two calls.                      *)
(*                                                                         *)
(* One step is one round of poll_next's loop, or one poll_data.  A poll    *)
(* that returns Pending leaves the state as it is.                         *)
(***************************************************************************)
EXTENDS FrameStream

CONSTANTS
  Roles,        \* the kinds of endpoint to explore
  MaxChunk      \* bound: bytes QUIC hands over at once

ASSUME RequestAssumption == Roles \subseteq {"client", "server"} /\ MaxChunk \in Nat \ {0}

VARIABLES
  role,
  phase,        \* what the caller asks for: "head", "body", "trailers"
  pc,           \* no call in progress; in poll_next (decode, recv); in poll_data
  trailers,     \* RequestStream.trailers, or what recv_trailers holds of it: a field
                \* section, None if there is none
  body,         \* positions of the bytes recv_data has returned
  outcome,      \* how the message ended for the caller, None before
  stopped,      \* codes passed to stop_sending and reset
  halves,       \* the stream was split
  panicked      \* an assertion failed

frames == <<buf, eos, expected, remaining_data>>
message == <<phase, trailers, body, outcome, stopped>>
vars == <<stream, frames, role, pc, message, halves, panicked>>

Init ==
  /\ InitStream
  /\ role \in Roles
  /\ phase = "head"
  /\ pc = "idle"
  /\ trailers = None
  /\ body = {}
  /\ outcome = None
  /\ stopped = {}
  /\ halves = FALSE
  /\ panicked = FALSE

(***************************************************************************)
(* Outcomes.                                                               *)
(***************************************************************************)
Conn(code) == <<"connection", code>>
StreamErr(code) == <<"stream", code>>
Complete == <<"message", "complete">>

(* A field section is known by its first byte, as far as results are told  *)
(* apart: decode_stateless fails or refuses it, Header::try_from finds an  *)
(* invalid or misplaced field, or it has no pseudo-headers, which into_-   *)
(* request_parts and into_response_parts miss and trailers do without.     *)
decode_stateless(at, len) ==
  IF len = 0 THEN "failed"
  ELSE CASE wire[at + 1] = 2 -> "too long"
         [] wire[at + 1] = 3 -> "failed"
         [] OTHER -> "ok"
try_from(at, len) ==
  IF decode_stateless(at, len) = "ok" /\ wire[at + 1] = 4 THEN "malformed"
  ELSE decode_stateless(at, len)
into_parts(at, len) ==
  IF try_from(at, len) = "ok" /\ wire[at + 1] = 5 THEN "malformed"
  ELSE try_from(at, len)

(* What a section that does not decode makes of the message ...            *)
FieldsOutcome(f) ==
  CASE f = "too long" -> StreamErr("HeaderTooBig")
    [] f = "failed" -> Conn("QPACK_DECOMPRESSION_FAILED")
    [] f = "malformed" -> StreamErr("H3_MESSAGE_ERROR")
    [] f = "ok" -> None

(* ... and what the peer is told: in the header ...                        *)
HeadCodes(f) ==
  CASE f = "malformed" /\ role = "server" -> {"H3_MESSAGE_ERROR"}
    [] f \in {"malformed", "too long"} /\ role = "client" -> {"H3_REQUEST_CANCELLED"}
    [] OTHER -> {}

(* ... and in the trailers.                                                *)
TrailerCodes(f) ==
  CASE f = "malformed" -> {"H3_MESSAGE_ERROR"}
    [] f = "too long" /\ role = "client" -> {"H3_REQUEST_CANCELLED"}
    [] OTHER -> {}

(* The stream ends before its header.                                      *)
NoHeader == IF role = "server" THEN StreamErr("H3_REQUEST_INCOMPLETE")
            ELSE Conn("H3_FRAME_UNEXPECTED")

(* handle_quic_stream_error.                                               *)
QuicOutcome == IF ending = "reset" THEN StreamErr("RemoteTerminate") ELSE Conn("lost")

-----------------------------------------------------------------------------
(* The call returns: to be continued, or with the end of the message.      *)
Return(o, codes) ==
  /\ outcome' = o
  /\ stopped' = stopped \cup codes
  /\ pc' = "idle"

Finish(o) == Return(o, {}) /\ UNCHANGED <<phase, trailers, body>>

(* recv_data returns None: the caller goes on to the trailers.             *)
BodyDone ==
  /\ Return(None, {})
  /\ phase' = "trailers"
  /\ UNCHANGED body

(* The end of poll_recv_trailers, with the field section sec.              *)
DecodeTrailers(sec) ==
  /\ Return(IF sec = "ok" THEN Complete ELSE FieldsOutcome(sec), TrailerCodes(sec))
  /\ trailers' = None
  /\ UNCHANGED <<phase, body>>

(* accept_with_frame and resolve, or recv_response, on the first frame.    *)
RecvHead(f) ==
  IF f.type = HEADERS
  THEN /\ Return(FieldsOutcome(into_parts(f.at, f.len)), HeadCodes(into_parts(f.at, f.len)))
       /\ phase' = IF into_parts(f.at, f.len) = "ok" THEN "body" ELSE phase
       /\ UNCHANGED <<trailers, body>>
  ELSE Finish(Conn("H3_FRAME_UNEXPECTED"))

(* poll_recv_data on the next frame.                                       *)
RecvData(f) ==
  \/ /\ f.type = HEADERS
     /\ BodyDone
     /\ trailers' = try_from(f.at, f.len)
  \/ /\ f.type = DATA
     /\ pc' = "data"
     /\ UNCHANGED message
  \/ /\ f.type \notin {HEADERS, DATA}
     /\ Finish(Conn("H3_FRAME_UNEXPECTED"))

(* Deliberate bug: what follows the trailers is not looked at.             *)
RecvTrailers_AnyTrailing(f) ==
  IF f.type # HEADERS \/ trailers # None THEN Finish(Conn("H3_FRAME_UNEXPECTED"))
  ELSE DecodeTrailers(try_from(f.at, f.len))

(* poll_recv_trailers on a frame; after the trailers no known frame is     *)
(* allowed, and is_eos tells whether there is anything left to look at.    *)
RecvTrailers(f) ==
  IF f.type # HEADERS \/ trailers # None THEN Finish(Conn("H3_FRAME_UNEXPECTED"))
  ELSE IF eos /\ f.end = received THEN DecodeTrailers(try_from(f.at, f.len))
  ELSE /\ trailers' = try_from(f.at, f.len)
       /\ pc' = "decode"
       /\ UNCHANGED <<phase, body, outcome, stopped>>

OnFrame(f) ==
  \/ phase = "head" /\ RecvHead(f)
  \/ phase = "body" /\ RecvData(f)
  \/ phase = "trailers" /\ RecvTrailers(f)

(* poll_next returns Ok(None): the stream has ended between two frames.    *)
OnEnd ==
  \/ phase = "head" /\ Return(NoHeader, IF role = "server" THEN {"H3_REQUEST_INCOMPLETE"} ELSE {})
                    /\ UNCHANGED <<phase, trailers, body>>
  \/ phase = "body" /\ BodyDone /\ UNCHANGED trailers
  \/ phase = "trailers" /\ IF trailers = None THEN Finish(Complete)
                           ELSE DecodeTrailers(trailers)

-----------------------------------------------------------------------------
(***************************************************************************)
(* Calls.                                                                  *)
(***************************************************************************)

(* poll_next begins by asserting that no DATA is left to read.             *)
EnterNext ==
  IF remaining_data = 0 THEN pc' = "decode" /\ UNCHANGED panicked
  ELSE panicked' = TRUE /\ UNCHANGED pc

Idle == pc = "idle" /\ outcome = None /\ ~panicked

CallHead ==
  /\ Idle
  /\ phase = "head"
  /\ EnterNext
  /\ UNCHANGED <<stream, frames, role, message, halves>>

(* Deliberate bug: the next frame is read whether or not DATA is left.     *)
CallRecvData_AlwaysNext ==
  /\ Idle
  /\ phase = "body"
  /\ EnterNext
  /\ UNCHANGED <<stream, frames, role, message, halves>>

CallRecvData ==
  /\ Idle
  /\ phase = "body"
  /\ IF remaining_data # 0 THEN pc' = "data" /\ UNCHANGED panicked ELSE EnterNext
  /\ UNCHANGED <<stream, frames, role, message, halves>>

CallRecvTrailers ==
  /\ Idle
  /\ phase = "trailers"
  /\ IF trailers # None /\ is_eos THEN DecodeTrailers(trailers) /\ UNCHANGED panicked
     ELSE EnterNext /\ UNCHANGED message
  /\ UNCHANGED <<stream, frames, role, halves>>

(* The future is dropped; what it has learnt is in the stream.  A request  *)
(* resolver goes with its future.                                          *)
DropCall ==
  /\ pc \in {"recv", "data"}
  /\ phase # "head" \/ role = "client"
  /\ pc' = "idle"
  /\ UNCHANGED <<stream, frames, role, message, halves, panicked>>

(* Deliberate bug: the receiving half starts afresh in the frame.          *)
Split_Afresh ==
  /\ Idle
  /\ phase # "head"
  /\ ~halves
  /\ halves' = TRUE
  /\ remaining_data' = 0
  /\ UNCHANGED <<stream, buf, eos, expected, role, pc, message, panicked>>

(* RequestStream::split: the receiving half takes the buffer, the decoder, *)
(* the rest of a DATA frame and the trailers with it.                      *)
Split ==
  /\ Idle
  /\ phase # "head"
  /\ ~halves
  /\ halves' = TRUE
  /\ SplitFrames
  /\ UNCHANGED <<stream, role, pc, message, panicked>>

(***************************************************************************)
(* poll_next.                                                              *)
(***************************************************************************)
DecodeFrame ==
  /\ pc = "decode"
  /\ UNCHANGED <<stream, received, eos, role, halves, panicked>>
  /\ IF TooShort THEN /\ pc' = "recv"
                      /\ UNCHANGED <<pos, cuts, expected, remaining_data, message>>
     ELSE LET d == Decode(wire, pos, received) IN
       \/ /\ d.res = "incomplete"
          /\ expected' = d.min
          /\ pc' = "recv"
          /\ UNCHANGED <<pos, cuts, remaining_data, message>>
       \/ /\ d.res = "unknown"
          /\ advance(d.end)
          /\ expected' = None
          /\ UNCHANGED <<pc, remaining_data, message>>
       \/ /\ d.res = "error"
          /\ Finish(Conn(d.code))
          /\ UNCHANGED <<pos, cuts, expected, remaining_data>>
       \/ /\ d.res = "frame"
          /\ advance(d.end)
          /\ expected' = None
          /\ remaining_data' = IF d.type \in {DATA, WEBTRANSPORT_BI_STREAM} THEN d.len
                               ELSE remaining_data
          /\ OnFrame(d)

RecvChunk(n) ==
  /\ pc = "recv"
  /\ ReadChunk(n)
  /\ cuts' = cuts \cup {received'}
  /\ pc' = "decode"
  /\ UNCHANGED <<stream, pos, eos, expected, remaining_data, role, message, halves, panicked>>

(* Deliberate bug: an incomplete frame is waited for at the end.           *)
RecvEnd_Waits ==
  /\ pc = "recv"
  /\ AtEnd
  /\ eos' = TRUE
  /\ IF remaining > 0 THEN pc' = "decode" /\ UNCHANGED message ELSE OnEnd
  /\ UNCHANGED <<stream, buf, expected, remaining_data, role, halves, panicked>>

(* The end of the stream: clean, or in the middle of a frame.              *)
RecvEnd ==
  /\ pc = "recv"
  /\ AtEnd
  /\ eos' = TRUE
  /\ IF remaining > 0 THEN Finish(Conn("H3_FRAME_ERROR")) ELSE OnEnd
  /\ UNCHANGED <<stream, buf, expected, remaining_data, role, halves, panicked>>

RecvBroken ==
  /\ pc \in {"recv", "data"}
  /\ pc = "data" => remaining_data # 0
  /\ Broken
  /\ Finish(QuicOutcome)
  /\ UNCHANGED <<stream, frames, role, halves, panicked>>

(***************************************************************************)
(* poll_data: asks QUIC for more whether or not something is buffered,     *)
(* then hands out (part of) the first chunk.                               *)
(***************************************************************************)

(* recv_data returns what there is up to end.                              *)
ReturnData(end) ==
  /\ pos' = end
  /\ cuts' = {c \in cuts \cup {received'} : c > end}
  /\ remaining_data' = remaining_data - (end - pos)
  /\ body' = body \cup (pos + 1) .. end
  /\ pc' = "idle"
  /\ UNCHANGED <<phase, trailers, outcome, stopped>>

(* Deliberate bug: nothing to hand out is taken for the end of the body.   *)
PollData_NoneIfNothing(n) ==
  /\ pc = "data"
  /\ remaining_data # 0
  /\ IF n = 0 THEN ~AtEnd /\ UNCHANGED received ELSE ReadChunk(n)
  /\ IF received' = pos THEN BodyDone /\ UNCHANGED <<pos, cuts, remaining_data, trailers>>
     ELSE ReturnData(ChunkEnd(cuts \cup {received'}, remaining_data))
  /\ UNCHANGED <<stream, eos, expected, role, halves, panicked>>

(* QUIC has another chunk (n > 0), or nothing (n = 0).                     *)
PollData(n) ==
  /\ pc = "data"
  /\ remaining_data # 0
  /\ IF n = 0 THEN ~AtEnd /\ remaining > 0 /\ UNCHANGED received ELSE ReadChunk(n)
  /\ ReturnData(ChunkEnd(cuts \cup {received'}, remaining_data))
  /\ UNCHANGED <<stream, eos, expected, role, halves, panicked>>

(* The stream is at its end.                                               *)
PollDataAtEnd ==
  /\ pc = "data"
  /\ remaining_data # 0
  /\ AtEnd
  /\ eos' = TRUE
  /\ LET end == ChunkEnd(cuts, remaining_data) IN
     IF remaining = 0
     THEN BodyDone /\ UNCHANGED <<trailers, buf, remaining_data>>
     ELSE IF end - pos < remaining_data /\ end = received
     THEN Finish(Conn("H3_FRAME_ERROR")) /\ advance(end) /\ UNCHANGED <<received, remaining_data>>
     ELSE UNCHANGED received /\ ReturnData(end)
  /\ UNCHANGED <<stream, expected, role, halves, panicked>>

(* An empty DATA frame was read.                                           *)
PollDataEmpty ==
  /\ pc = "data"
  /\ remaining_data = 0
  /\ BodyDone
  /\ UNCHANGED <<stream, frames, role, trailers, halves, panicked>>

(* What a poll does with the answer of QUIC.                               *)
Receive ==
  \/ \E n \in 1 .. MaxChunk : RecvChunk(n)
  \/ RecvEnd \/ RecvBroken
  \/ \E n \in 0 .. MaxChunk : PollData(n)
  \/ PollDataAtEnd

Call == CallHead \/ CallRecvData \/ CallRecvTrailers

Next ==
  \/ Call
  \/ DecodeFrame \/ PollDataEmpty
  \/ Receive
  \/ DropCall
  \/ Split

Spec == Init /\ [][Next]_vars
(* The caller asks until the message has ended; QUIC delivers what was     *)
(* sent, also to a caller who drops futures that are pending.              *)
FairSpec ==
  /\ Spec
  /\ WF_vars(Call)
  /\ WF_vars(DecodeFrame \/ PollDataEmpty)
  /\ SF_vars(Receive)

-----------------------------------------------------------------------------
(***************************************************************************)
(* Properties, stated on the frames of the whole stream.                   *)
(***************************************************************************)
Codes == {"H3_MESSAGE_ERROR", "H3_REQUEST_CANCELLED", "H3_REQUEST_INCOMPLETE"}
Outcomes ==
  {Complete}
  \cup {StreamErr(c) : c \in {"HeaderTooBig", "H3_MESSAGE_ERROR", "H3_REQUEST_INCOMPLETE",
                              "RemoteTerminate"}}
  \cup {Conn(c) : c \in {"QPACK_DECOMPRESSION_FAILED", "H3_FRAME_UNEXPECTED",
                         "H3_FRAME_ERROR", "H3_SETTINGS_ERROR", "lost"}}
Sections == {"ok", "too long", "failed", "malformed"}
ASSUME NoneAssumption == None \notin Nat \cup Outcomes \cup Sections

TypeOK ==
  /\ wire \in Wires /\ ending \in Endings
  /\ sent \in Seq([type : Int, at : Nat, len : Nat])
  /\ pos \in 0 .. received /\ received \in 0 .. Len(wire)
  /\ cuts \subseteq (pos + 1) .. received
  /\ remaining > 0 => received \in cuts
  /\ eos \in BOOLEAN
  /\ expected \in Nat \cup {None}
  /\ remaining_data \in Nat
  /\ role \in Roles
  /\ phase \in {"head", "body", "trailers"}
  /\ pc \in {"idle", "decode", "recv", "data"}
  /\ trailers \in Sections \cup {None}
  /\ body \subseteq 1 .. Len(wire)
  /\ outcome \in Outcomes \cup {None}
  /\ stopped \subseteq Codes
  /\ halves \in BOOLEAN /\ panicked \in BOOLEAN

EmptyData == \E i \in 1 .. Len(sent) : sent[i].type = DATA /\ sent[i].len = 0
TruncatedData == \E i \in 1 .. Len(sent) : sent[i].type = DATA /\ sent[i].at + sent[i].len > Len(wire)

(* RFC 9114, 4.1: HEADERS, any number of DATA, at most one more HEADERS.   *)
Allowed(i) ==
  IF i = 1 THEN sent[i].type = HEADERS
  ELSE sent[i].type \in {DATA, HEADERS} /\ \A j \in 2 .. (i - 1) : sent[j].type = DATA
FirstBad == CHOOSE i \in 1 .. Len(sent) : ~Allowed(i) /\ \A j \in 1 .. (i - 1) : Allowed(j)
Section(i) == IF i = 1 THEN into_parts(sent[i].at, sent[i].len)
              ELSE try_from(sent[i].at, sent[i].len)

(* The outcome of the frames, with code for one that is not allowed.       *)
OutcomeWith(code) ==
  IF sent = <<>> THEN NoHeader
  ELSE IF Allowed(1) /\ Section(1) # "ok" THEN FieldsOutcome(Section(1))
  ELSE IF \E i \in 1 .. Len(sent) : ~Allowed(i) THEN Conn(code)
  ELSE IF Len(sent) > 1 /\ sent[Len(sent)].type = HEADERS /\ Section(Len(sent)) # "ok"
  THEN FieldsOutcome(Section(Len(sent)))
  ELSE Complete

(* RFC 9114 asks whether a frame is whole, then whether it is allowed.     *)
BadCode(f) == IF f.type = Truncated THEN "H3_FRAME_ERROR" ELSE "H3_FRAME_UNEXPECTED"
Demanded == OutcomeWith(BadCode(sent[FirstBad]))

(* h3 decodes a SETTINGS frame before it asks whether it is allowed here.  *)
Undecodable(f) == f.type = SETTINGS /\ BadSettings(wire, f.at, f.len)
ReportedCode(f) == IF Undecodable(f) THEN "H3_SETTINGS_ERROR" ELSE BadCode(f)
Reported == OutcomeWith(ReportedCode(sent[FirstBad]))

(* However the bytes are cut into chunks, whatever futures are dropped and *)
(* wherever the stream is split, a message has the outcome its frames      *)
(* demand, and none is complete unless the peer ended it.  Only a SETTINGS *)
(* frame that does not decode ends it with another code than the           *)
(* H3_FRAME_UNEXPECTED that RFC 9114, 7.2.4 demands of SETTINGS on any     *)
(* stream but the control stream.  (Messages with an empty or a truncated  *)
(* DATA frame: see NoneIsTrustworthy.)                                     *)
OutcomeIsRFCExceptSettings ==
  outcome # None =>
    /\ outcome = Complete => ending = "fin"
    /\ \/ EmptyData \/ TruncatedData
       \/ outcome = Reported
       \/ ending # "fin" /\ outcome = QuicOutcome

(* What recv_data returns is the payload of the DATA frames, from its      *)
(* beginning and without a gap: no byte of a frame header, of an unknown   *)
(* frame or of the trailers is taken for data.                             *)
BodyBytes ==
  (UNION {(sent[i].at + 1) .. (sent[i].at + sent[i].len) :
            i \in {j \in 1 .. Len(sent) : sent[j].type = DATA}}) \cap (1 .. Len(wire))
BodyIsFaithful ==
  /\ body \subseteq BodyBytes
  /\ \A p \in body, q \in BodyBytes : q < p => q \in body

(* "or `None` if the response body is finished": when recv_data returns    *)
(* None for a valid message, all of the body has been returned.            *)
NoneMeansFinished == phase = "trailers" /\ Demanded = Complete => body = BodyBytes

(* The None of recv_data may be relied on, with two exceptions: an empty   *)
(* DATA frame is taken for the end of the body, and after a DATA frame cut *)
(* short by the end of the stream the caller, told None, runs into "There  *)
(* is still data to read, please call poll_data() until it returns None.". *)
NoneIsTrustworthy ==
  /\ ~EmptyData => NoneMeansFinished
  /\ panicked => TruncatedData

(* A message of which QUIC has everything comes to an end for its caller,  *)
(* whatever the decoder believes it still has to wait for.                 *)
MessageEnds == ending # "open" ~> outcome # None \/ panicked
=============================================================================
