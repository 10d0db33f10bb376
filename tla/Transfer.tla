------------------------------ MODULE Transfer ------------------------------
(***************************************************************************)
(* Sending a message: the sending half of RequestStream writes frames      *)
(* through h3-quinn's SendStream, which holds one WriteBuf at a time, and  *)
(* the peer reads them through h3-quinn's RecvStream, which keeps a read   *)
(* in progress across calls.                                               *)
(*                                                                         *)
(* write() awaits poll_ready, hands its frame over with send_data and      *)
(* awaits poll_ready again.  Its caller may drop the future wherever it is *)
(* pending and go on with the next call.  QUIC takes any part of a buffer  *)
(* as long as flow control has room.  The i-th byte of all the frames that *)
(* were handed over is the number i, so that bytes lost, repeated or out   *)
(* of order show.                                                          *)
(***************************************************************************)
EXTENDS Integers, Sequences, SequencesExt, FiniteSetsExt

CONSTANTS
  HeaderLen,    \* encoded size of the type and length of a frame
  GreaseLen,    \* of a grease frame, which is all header
  Payloads,     \* sizes of the payloads a DATA frame may have
  Window,       \* how many unread bytes QUIC takes
  MaxData,      \* bound: calls of send_data
  MaxDrops,     \* bound: futures dropped half way
  Grease,       \* the values send_grease_frame may begin with
  StopCode,     \* the code the reader passes to stop_sending
  None

Frames == [type : {"HEADERS", "DATA", "GREASE"}, payload : Nat]
WriteBufs == [at : Nat, pos : Nat, len : Nat, payload : Nat, taken : Nat]

ASSUME SizesAssumption == /\ HeaderLen \in Nat \ {0} /\ GreaseLen \in Nat \ {0}
                          /\ Payloads \subseteq Nat
                          /\ Window \in Nat \ {0}
ASSUME BoundAssumption == MaxData \in Nat /\ MaxDrops \in Nat /\ Grease \subseteq BOOLEAN
ASSUME CodeAssumption == StopCode # None /\ StopCode # 0
ASSUME NoneAssumption == None \notin Frames \cup WriteBufs \cup {"Ok", "InternalError", "fin"}

VARIABLES
  (* the writer's RequestStream *)
  pc,                 \* where the call in progress is
  frame,              \* the frame it has still to hand over
  send_grease_frame,
  phase,              \* what of the message the caller has still to send
  result,             \* what the last call that returned gave
  datas, drops,       \* how many calls of send_data, and futures dropped
  (* its h3-quinn SendStream *)
  writing,            \* the WriteBuf not yet written, or None
  accepted,           \* history: how many bytes were given to send_data
  (* the QUIC stream *)
  sent,               \* bytes QUIC has taken
  fin, reset, lost,   \* the writer finished or reset it; the connection is gone
  stop, stopped,      \* the code of the reader's STOP_SENDING, sent and arrived
  (* the reader's h3-quinn RecvStream *)
  read,               \* how many bytes it has handed out
  reading,            \* `stream` is inside read_chunk_fut
  pending_stop,
  asked,              \* stop_sending was called
  told                \* how the stream ended for the reader

writer == <<pc, frame, send_grease_frame, phase, result, datas, drops>>
quic == <<sent, fin, reset, lost, stop, stopped>>
reader == <<read, reading, pending_stop, asked, told>>
vars == <<writer, writing, accepted, quic, reader>>

Frame(type, payload) == [type |-> type, payload |-> payload]
GreaseFrame == Frame("GREASE", 0)

-----------------------------------------------------------------------------
(***************************************************************************)
(* WriteBuf: the encoded header, from pos to len, then the payload.        *)
(***************************************************************************)
encode_frame_header(f) == IF f.type = "GREASE" THEN GreaseLen ELSE HeaderLen
WriteBuf(at, f) ==
  [at |-> at, pos |-> 0, len |-> encode_frame_header(f), payload |-> f.payload, taken |-> 0]

has_remaining(w) == w.pos < w.len \/ w.taken < w.payload

(* Mutant: nothing comes after the header.                                 *)
chunk_HeaderOnly(w) == [i \in 1 .. (w.len - w.pos) |-> w.at + w.pos + i]

(* chunk() is the rest of the header, or else the rest of the payload.     *)
chunk(w) ==
  LET from == IF w.pos < w.len THEN w.pos ELSE w.len + w.taken
      size == IF w.pos < w.len THEN w.len - w.pos ELSE w.payload - w.taken
  IN [i \in 1 .. size |-> w.at + from + i]

advance(w, cnt) ==
  LET head == Min({cnt, w.len - w.pos})
  IN [w EXCEPT !.pos = @ + head, !.taken = @ + (cnt - head)]

(* The first n bytes.                                                      *)
Bytes(n) == [i \in 1 .. n |-> i]

-----------------------------------------------------------------------------
Init ==
  /\ pc = "idle" /\ frame = None /\ phase = "headers" /\ result = None
  /\ datas = 0 /\ drops = 0
  /\ send_grease_frame \in Grease
  /\ writing = None /\ accepted = 0
  /\ sent = <<>> /\ fin = FALSE /\ reset = FALSE /\ lost = FALSE
  /\ stop = None /\ stopped = None
  /\ read = 0 /\ reading = FALSE /\ pending_stop = None /\ asked = FALSE /\ told = None

-----------------------------------------------------------------------------
(***************************************************************************)
(* The caller: a header, DATA, perhaps trailers, finish.                   *)
(***************************************************************************)
Call(f, then) ==
  /\ pc = "idle"
  /\ pc' = "ready" /\ frame' = f /\ phase' = then /\ result' = None
  /\ UNCHANGED <<send_grease_frame, drops, writing, accepted, quic, reader>>

(* Fields beyond the peer's max_field_section_size are refused.            *)
HeaderTooBig ==
  /\ pc = "idle" /\ phase \in {"headers", "body"}
  /\ result' = "HeaderTooBig"
  /\ UNCHANGED <<pc, frame, send_grease_frame, phase, datas, drops, writing, accepted, quic, reader>>

send_response ==
  phase = "headers" /\ Call(Frame("HEADERS", 1), "body") /\ UNCHANGED datas

send_data(n) ==
  /\ phase = "body" /\ datas < MaxData
  /\ Call(Frame("DATA", n), "body")
  /\ datas' = datas + 1

send_trailers ==
  phase = "body" /\ Call(Frame("HEADERS", 1), "trailers") /\ UNCHANGED datas

(* finish() sends the grease frame first; it may be called again when its  *)
(* future was dropped.                                                     *)
finish ==
  /\ pc = "idle" /\ phase \in {"body", "trailers", "over"} /\ ~fin
  /\ IF send_grease_frame THEN pc' = "ready" /\ frame' = GreaseFrame
     ELSE pc' = "finish" /\ frame' = None
  /\ phase' = "over" /\ result' = None
  /\ UNCHANGED <<send_grease_frame, datas, drops, writing, accepted, quic, reader>>

(* The future is dropped where poll_ready is pending.                      *)
DropCall ==
  /\ pc # "idle"
  /\ writing # None /\ has_remaining(writing)
  /\ drops < MaxDrops /\ drops' = drops + 1
  /\ pc' = "idle" /\ frame' = None
  /\ UNCHANGED <<send_grease_frame, phase, result, datas, writing, accepted, quic, reader>>

stop_stream ==
  /\ pc = "idle" /\ ~reset
  /\ reset' = TRUE
  /\ UNCHANGED <<writer, writing, accepted, sent, fin, lost, stop, stopped, reader>>

Fail(error) ==
  /\ result' = error /\ pc' = "idle" /\ frame' = None
  /\ UNCHANGED <<send_grease_frame, phase, datas, drops, writing, accepted, quic, reader>>

-----------------------------------------------------------------------------
(***************************************************************************)
(* h3-quinn's SendStream.  One poll_write per step.                        *)
(***************************************************************************)
(* quinn::SendStream::poll_write: an error, or room for some of the chunk. *)
WriteError ==
  IF lost THEN "ConnectionError"
  ELSE IF reset \/ fin THEN "Undefined"
  ELSE IF stopped # None THEN "RemoteTerminate"
  ELSE None
Room == Window - (Len(sent) - read)

PollWrite(n) ==
  /\ pc # "idle" /\ writing # None /\ has_remaining(writing)
  /\ WriteError = None
  /\ n \in 1 .. Min({Len(chunk(writing)), Room})
  /\ sent' = sent \o SubSeq(chunk(writing), 1, n)
  /\ writing' = advance(writing, n)
  /\ UNCHANGED <<writer, accepted, fin, reset, lost, stop, stopped, reader>>

PollWriteFails ==
  /\ pc # "idle" /\ writing # None /\ has_remaining(writing)
  /\ WriteError # None
  /\ Fail(WriteError)

(* poll_ready has written everything, and clears `writing`.                *)
Flushed == writing # None => ~has_remaining(writing)

(* Mutant: write() without the first poll_ready.                           *)
poll_ready_AtOnce ==
  /\ pc = "ready" /\ pc' = "send"
  /\ UNCHANGED <<frame, send_grease_frame, phase, result, datas, drops, writing, accepted, quic,
                 reader>>

(* write(): the first poll_ready is done.                                  *)
poll_ready ==
  /\ pc = "ready" /\ pc' = "send"
  /\ Flushed /\ writing' = None
  /\ UNCHANGED <<frame, send_grease_frame, phase, result, datas, drops, accepted, quic, reader>>

(* write(): the frame is handed over.  SendStream refuses a second buffer  *)
(* as a misuse.                                                            *)
HandOver ==
  /\ pc = "send"
  /\ IF writing # None
     THEN Fail("InternalError")
     ELSE /\ writing' = WriteBuf(accepted, frame)
          /\ accepted' = accepted + encode_frame_header(frame) + frame.payload
          /\ pc' = "write"
          /\ UNCHANGED <<frame, send_grease_frame, phase, result, datas, drops, quic, reader>>

(* write() returns; finish() goes on after its grease frame.               *)
Return(left) ==
  /\ pc = "write"
  /\ writing' = left
  /\ frame' = None
  /\ IF frame.type = "GREASE"
     THEN pc' = "finish" /\ send_grease_frame' = FALSE /\ UNCHANGED result
     ELSE pc' = "idle" /\ result' = "Ok" /\ UNCHANGED send_grease_frame
  /\ UNCHANGED <<phase, datas, drops, accepted, quic, reader>>

(* Mutant: write() without the second poll_ready.                          *)
WriteReturns_AtOnce == Return(writing)
WriteReturns == Flushed /\ Return(None)

(* quinn::SendStream::finish, which does not mind a stream that was        *)
(* stopped.                                                                *)
Finish(left) ==
  /\ pc = "finish"
  /\ writing' = left
  /\ pc' = "idle"
  /\ fin' = (fin \/ (~reset /\ stopped = None))
  /\ result' = IF reset \/ fin THEN "Undefined" ELSE "Ok"
  /\ UNCHANGED <<frame, send_grease_frame, phase, datas, drops, accepted, sent, reset, lost, stop,
                 stopped, reader>>

(* Mutant: the end is announced before the last buffer is written.         *)
poll_finish_AtOnce == Finish(writing)
poll_finish == Flushed /\ Finish(None)

-----------------------------------------------------------------------------
(***************************************************************************)
(* h3-quinn's RecvStream.                                                  *)
(***************************************************************************)
(* What a read may end the stream with.                                    *)
ReadEnds ==
  {e \in {"broken", "fin"} :
     IF e = "broken" THEN stop # None \/ lost \/ reset
     ELSE stop = None /\ fin /\ read = Len(sent)}

(* quinn::RecvStream::stop: ignored on a stream that has ended.            *)
Stopping(code) == IF stop = None /\ told # "fin" THEN code ELSE stop

(* poll_data moves the stream into read_chunk_fut, where it stays while    *)
(* there is nothing to read, although the caller drops its own future.     *)
PollDataPending ==
  /\ told = None
  /\ ~reading /\ reading' = TRUE
  /\ ReadEnds = {} /\ read = Len(sent)
  /\ UNCHANGED <<writer, writing, accepted, quic, read, pending_stop, asked, told>>

(* The read is done: the stream comes back, and is stopped now if it could *)
(* not be before.                                                          *)
ReadDone ==
  /\ reading' = FALSE
  /\ pending_stop' = None
  /\ stop' = IF pending_stop # None THEN Stopping(pending_stop) ELSE stop

PollData(n) ==
  /\ told = None /\ stop = None
  /\ n \in 1 .. (Len(sent) - read)
  /\ read' = read + n
  /\ ReadDone
  /\ UNCHANGED <<writer, writing, accepted, sent, fin, reset, lost, stopped, asked, told>>

PollDataEnds ==
  /\ told = None
  /\ told' \in ReadEnds
  /\ ReadDone
  /\ UNCHANGED <<writer, writing, accepted, sent, fin, reset, lost, stopped, read, asked>>

stop_sending ==
  /\ ~asked /\ asked' = TRUE
  /\ IF reading THEN pending_stop' = StopCode /\ UNCHANGED stop
     ELSE stop' = Stopping(StopCode) /\ UNCHANGED pending_stop
  /\ UNCHANGED <<writer, writing, accepted, sent, fin, reset, lost, stopped, read, reading, told>>

-----------------------------------------------------------------------------
(* STOP_SENDING reaches the writer; the connection is lost.                *)
DeliverStop ==
  /\ stop # None /\ stopped = None
  /\ stopped' = stop
  /\ UNCHANGED <<writer, writing, accepted, sent, fin, reset, lost, stop, reader>>

Lose ==
  /\ ~lost /\ lost' = TRUE
  /\ UNCHANGED <<writer, writing, accepted, sent, fin, reset, stop, stopped, reader>>

WriterStep ==
  \/ \E n \in 1 .. Window : PollWrite(n)
  \/ PollWriteFails \/ poll_ready \/ HandOver \/ WriteReturns \/ poll_finish
ReaderStep == (\E n \in 1 .. Window : PollData(n)) \/ PollDataEnds

Next ==
  \/ send_response \/ (\E n \in Payloads : send_data(n)) \/ send_trailers \/ finish
  \/ HeaderTooBig \/ DropCall \/ stop_stream
  \/ WriterStep \/ ReaderStep
  \/ PollDataPending \/ stop_sending \/ DeliverStop \/ Lose

Spec == Init /\ [][Next]_vars
(* A caller awaits the calls it does not drop, the reader reads on until   *)
(* the stream has ended for it, and QUIC delivers STOP_SENDING.            *)
FairSpec == Spec /\ WF_vars(WriterStep) /\ WF_vars(ReaderStep) /\ WF_vars(DeliverStop)

-----------------------------------------------------------------------------
(***************************************************************************)
(* Properties.                                                             *)
(***************************************************************************)
(* Types; in particular a WriteBuf never runs past its end.                *)
TypeOK ==
  /\ pc \in {"idle", "ready", "send", "write", "finish"}
  /\ frame \in Frames \cup {None}
  /\ phase \in {"headers", "body", "trailers", "over"}
  /\ writing \in {w \in WriteBufs : w.pos <= w.len /\ w.taken <= w.payload} \cup {None}
  /\ accepted \in Nat /\ sent \in Seq(Nat)
  /\ read \in 0 .. Len(sent) /\ Len(sent) - read <= Window
  /\ fin \in BOOLEAN /\ reset \in BOOLEAN /\ lost \in BOOLEAN
  /\ reading \in BOOLEAN /\ asked \in BOOLEAN /\ send_grease_frame \in BOOLEAN
  /\ stop \in {StopCode, None} /\ stopped \in {StopCode, None}
  /\ pending_stop \in {StopCode, None}
  /\ told \in {"fin", "broken", None}

(* "Flush it first, so that `send_data` is never called while the stream   *)
(* is not ready": whatever futures are dropped, and also after a write has *)
(* failed, h3 never misuses the transport, which would end the connection. *)
NeverMisused == result # "InternalError"

(* A call that returns Ok has been written, with all that was dropped half *)
(* way before it.                                                          *)
OkMeansWritten == result = "Ok" /\ pc = "idle" => sent = Bytes(accepted)

(* A call that is not dropped returns: the reader goes on, stops the       *)
(* stream, or sees it end, and each of these lets the writer go on.        *)
CallReturns == pc # "idle" ~> pc = "idle"

(* The reader gets the frames handed to send_data, whole and in order, and *)
(* sees the end only after all of them.                                    *)
Stream == INSTANCE ByteStream WITH out <- Bytes(accepted), got <- SubSeq(sent, 1, read)
ImplementsByteStream == Stream!Spec
=============================================================================
