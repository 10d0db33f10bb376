------------------------------- MODULE Control -------------------------------
(***************************************************************************)
(* The receiving side of an h3 connection driver (ConnectionInner together *)
(* with the client's poll_close or the server's poll_next_control): it     *)
(* sorts the peer's unidirectional streams, reads the peer's control       *)
(* stream frame by frame, and squeezes the sending of one grease stream    *)
(* into the same poll function.  The peer may do anything.                 *)
(*                                                                         *)
(* A poll is a sequence of steps of one task; between its steps QUIC       *)
(* delivers more.  A poll that ends pending runs again only when something *)
(* it has registered for happens, which armed records.                     *)
(***************************************************************************)
EXTENDS Integers, Sequences, FiniteSets

CONSTANTS
  Uni,           \* unidirectional streams the peer may open
  GoawayIds,     \* identifiers the peer may put in a GOAWAY
  PushIds,       \* push ids it may put in a MAX_PUSH_ID
  MaxFrames,     \* bound: frames the peer writes on its control stream
  MaxUnread,     \* bound: how many of them wait unread
  Configs,       \* the endpoints to explore: role and config.send_grease
  EnableWT,      \* config.settings.enable_webtransport
  None

ASSUME UniAssumption == Uni \subseteq Nat /\ IsFiniteSet(Uni)
ASSUME GoawayIdsAssumption == GoawayIds \subseteq Nat
ASSUME PushIdsAssumption == PushIds \subseteq Nat
ASSUME MaxFramesAssumption == MaxFrames \in Nat /\ MaxUnread \in Nat
ASSUME ConfigAssumption ==
  /\ Configs \subseteq [role : {"client", "server"}, send_grease : BOOLEAN]
  /\ EnableWT \in BOOLEAN

(* Stream headers as far as the driver tells them apart; ignored stands    *)
(* for push streams and for streams that end before their header.          *)
StreamTypes == {"control", "encoder", "decoder", "webtransport", "unknown", "ignored"}

(* The errors the driver ends a connection with.                           *)
Codes == {"H3_STREAM_CREATION_ERROR", "H3_CLOSED_CRITICAL_STREAM", "H3_FRAME_ERROR",
          "frame error", "H3_FRAME_UNEXPECTED", "H3_MISSING_SETTINGS", "H3_ID_ERROR"}

ASSUME NoneAssumption == None \notin Nat \cup StreamTypes \cup Codes

(* What poll_next on the control stream can give: frames, or the ways the  *)
(* stream ends (closed stands for a clean end, a reset and an unknown      *)
(* error; malformed for the errors of Frame::decode, and HEADERS for every *)
(* frame that does not belong on a control stream).  The push id of a      *)
(* CANCEL_PUSH is left out: h3 never promises a push and never allows one, *)
(* so none of them means anything to it.                                   *)
Goaway(id) == [type |-> "GOAWAY", id |-> id]
MaxPushId(id) == [type |-> "MAX_PUSH_ID", id |-> id]
Plain(type) == [type |-> type, id |-> 0]
Ends == {Plain("closed"), Plain("truncated"), Plain("malformed")}
Frames == {Goaway(id) : id \in GoawayIds} \cup {MaxPushId(id) : id \in PushIds} \cup Ends
          \cup {Plain(t) : t \in {"SETTINGS", "CANCEL_PUSH", "HEADERS"}}

VARIABLES
  role, send_grease,
  ustate, utype,        \* per stream: how far it has come; its header, once sent
  bidi,                 \* the peer has opened a bidirectional stream
  inbox, sent,          \* the peer's control stream: unread frames; how many written
  control_recv, encoder_recv, decoder_recv,
  wt_uni_streams,       \* buffered for AcceptUni
  stopped,              \* streams answered with stop_sending
  got_peer_settings, recv_closing,
  grease_step, send_grease_stream_flag,
  error,                \* code of the connection error, None while there is none
  pc, frame,            \* where the poll is; the frame poll_control has read
  awake, armed,
  consumed, handled     \* history: frames read, and frames handled by the role

peer == <<ustate, utype, bidi, inbox, sent>>
critical == <<control_recv, encoder_recv, decoder_recv, wt_uni_streams, stopped>>
grease == <<grease_step, send_grease_stream_flag>>
task == <<pc, frame, awake, armed>>
vars == <<role, send_grease, peer, critical, got_peer_settings, recv_closing, grease,
          error, task, consumed, handled>>

Init ==
  /\ \E c \in Configs : role = c.role /\ send_grease = c.send_grease
  /\ ustate = [k \in Uni |-> "none"]
  /\ utype = [k \in Uni |-> None]
  /\ bidi = FALSE
  /\ inbox = <<>>
  /\ sent = 0
  /\ control_recv = None
  /\ encoder_recv = None
  /\ decoder_recv = None
  /\ wt_uni_streams = <<>>
  /\ stopped = {}
  /\ got_peer_settings = FALSE
  /\ recv_closing = None
  /\ grease_step = "NotStarted"
  /\ send_grease_stream_flag = send_grease
  /\ error = None
  /\ pc = "idle"
  /\ frame = None
  /\ awake = TRUE
  /\ armed = {}
  /\ consumed = <<>>
  /\ handled = <<>>

(***************************************************************************)
(* The peer and QUIC (external), as long as there is no connection error.  *)
(***************************************************************************)
Notify(event) == /\ error = None
                 /\ awake' = (awake \/ event \in armed)

OpenUni(k) ==
  /\ ustate[k] = "none"
  /\ \A j \in Uni : j < k => ustate[j] # "none"
  /\ ustate' = [ustate EXCEPT ![k] = "arrived"]
  /\ Notify("accept")
  /\ UNCHANGED <<role, send_grease, utype, bidi, inbox, sent, critical, got_peer_settings,
                 recv_closing, grease, error, pc, frame, armed, consumed, handled>>

(* poll_type can complete on the stream: its header is there, or it ended  *)
(* before (poll_next_varint asks QUIC for bytes before it looks at those it *)
(* has, so a header of two integers may wait for what follows it).         *)
SendHeader(k, type) ==
  /\ ustate[k] # "none"
  /\ utype[k] = None
  /\ utype' = [utype EXCEPT ![k] = type]
  /\ Notify("accept")
  /\ UNCHANGED <<role, send_grease, ustate, bidi, inbox, sent, critical, got_peer_settings,
                 recv_closing, grease, error, pc, frame, armed, consumed, handled>>

SendFrame(f) ==
  /\ \E k \in Uni : utype[k] = "control"
  /\ sent < MaxFrames
  /\ Len(inbox) < MaxUnread
  /\ \A i \in 1 .. Len(inbox) : inbox[i] \notin Ends
  /\ \A i \in 1 .. Len(consumed) : consumed[i] \notin Ends
  /\ inbox' = Append(inbox, f)
  /\ sent' = sent + 1
  /\ Notify("control")
  /\ UNCHANGED <<role, send_grease, ustate, utype, bidi, critical, got_peer_settings,
                 recv_closing, grease, error, pc, frame, armed, consumed, handled>>

OpenBidi ==
  /\ ~bidi
  /\ bidi' = TRUE
  /\ Notify("accept")
  /\ UNCHANGED <<role, send_grease, ustate, utype, inbox, sent, critical, got_peer_settings,
                 recv_closing, grease, error, pc, frame, armed, consumed, handled>>

(* QUIC has room for the grease stream now.                                *)
UnblockGrease ==
  /\ "grease" \in armed
  /\ ~awake
  /\ awake' = TRUE
  /\ UNCHANGED <<role, send_grease, peer, critical, got_peer_settings, recv_closing, grease,
                 error, pc, frame, armed, consumed, handled>>

(***************************************************************************)
(* The poll.                                                               *)
(***************************************************************************)

(* handle_connection_error: the poll returns the error and the connection  *)
(* is over (module Driver has the details).                                *)
Fail(code) ==
  /\ error' = code
  /\ pc' = "failed"

StartPoll ==
  /\ pc = "idle"
  /\ awake
  /\ awake' = FALSE
  /\ armed' = {}
  /\ pc' = "accept"
  /\ UNCHANGED <<role, send_grease, peer, critical, got_peer_settings, recv_closing, grease,
                 error, frame, consumed, handled>>

(* poll_accept_recv takes every stream QUIC has ...                        *)
AcceptRecv ==
  /\ pc = "accept"
  /\ ustate' = [k \in Uni |-> IF ustate[k] = "arrived" THEN "pending" ELSE ustate[k]]
  /\ armed' = armed \cup {"accept"}
  /\ pc' = "resolve"
  /\ UNCHANGED <<role, send_grease, utype, bidi, inbox, sent, critical, got_peer_settings,
                 recv_closing, grease, error, frame, awake, consumed, handled>>

(* ... and resolves those whose header is there, in the order they came.   *)
Resolvable(k) == ustate[k] = "pending" /\ utype[k] # None

(* A second stream of a kind of which the peer may have one.               *)
Duplicate(k) ==
  \/ utype[k] = "control" /\ control_recv # None
  \/ utype[k] = "encoder" /\ encoder_recv # None
  \/ utype[k] = "decoder" /\ decoder_recv # None

Resolve(k) ==
  /\ pc = "resolve"
  /\ Resolvable(k)
  /\ \A j \in Uni : j < k => ~Resolvable(j)
  /\ ustate' = [ustate EXCEPT ![k] = "taken"]
  /\ control_recv' = IF utype[k] = "control" /\ control_recv = None THEN k ELSE control_recv
  /\ encoder_recv' = IF utype[k] = "encoder" THEN k ELSE encoder_recv
  /\ decoder_recv' = IF utype[k] = "decoder" THEN k ELSE decoder_recv
  /\ wt_uni_streams' = IF utype[k] = "webtransport" /\ EnableWT
                       THEN Append(wt_uni_streams, k) ELSE wt_uni_streams
  /\ stopped' = IF utype[k] = "unknown" THEN stopped \cup {k} ELSE stopped
  /\ IF Duplicate(k) THEN Fail("H3_STREAM_CREATION_ERROR") ELSE UNCHANGED <<error, pc>>
  /\ UNCHANGED <<role, send_grease, utype, bidi, inbox, sent, got_peer_settings, recv_closing,
                 grease, frame, awake, armed, consumed, handled>>

AllResolved == pc = "resolve" /\ \A k \in Uni : ~Resolvable(k)

(* Deliberate bug: pending without a waker at the control stream.          *)
NothingToRead_Unarmed ==
  /\ AllResolved
  /\ control_recv = None \/ inbox = <<>>
  /\ pc' = "accept bi"
  /\ UNCHANGED <<role, send_grease, peer, critical, got_peer_settings, recv_closing, grease,
                 error, frame, awake, armed, consumed, handled>>

(* poll_control has no control stream yet, or nothing to read on it.       *)
NothingToRead ==
  /\ AllResolved
  /\ control_recv = None \/ inbox = <<>>
  /\ armed' = IF control_recv = None THEN armed ELSE armed \cup {"control"}
  /\ pc' = "accept bi"
  /\ UNCHANGED <<role, send_grease, peer, critical, got_peer_settings, recv_closing, grease,
                 error, frame, awake, consumed, handled>>

(* Deliberate bug: a repeated SETTINGS is let through.                     *)
ControlError_Lax(f) ==
  CASE f.type = "closed" -> "H3_CLOSED_CRITICAL_STREAM"
    [] f.type = "truncated" -> "H3_FRAME_ERROR"
    [] f.type = "malformed" -> "frame error"
    [] OTHER ->
         IF ~got_peer_settings /\ f.type # "SETTINGS" THEN "H3_MISSING_SETTINGS"
         ELSE IF f.type = "HEADERS" THEN "H3_FRAME_UNEXPECTED" ELSE None

(* The connection error poll_control answers a frame with, None if none.   *)
ControlError(f) ==
  CASE f.type = "closed" -> "H3_CLOSED_CRITICAL_STREAM"
    [] f.type = "truncated" -> "H3_FRAME_ERROR"
    [] f.type = "malformed" -> "frame error"
    [] f.type = "SETTINGS" -> IF got_peer_settings THEN "H3_FRAME_UNEXPECTED" ELSE None
    [] OTHER ->
         IF ~got_peer_settings THEN "H3_MISSING_SETTINGS"
         ELSE IF f.type = "HEADERS" THEN "H3_FRAME_UNEXPECTED" ELSE None

(* Deliberate bug: poll_control ends pending with a frame in its hand.     *)
ReadFrame_Drops ==
  /\ AllResolved
  /\ control_recv # None
  /\ inbox # <<>>
  /\ inbox' = Tail(inbox)
  /\ consumed' = Append(consumed, Head(inbox))
  /\ pc' = "accept bi"
  /\ got_peer_settings' = (got_peer_settings \/ Head(inbox).type = "SETTINGS")
  /\ UNCHANGED <<role, send_grease, ustate, utype, bidi, sent, critical, recv_closing, grease,
                 error, frame, awake, armed, handled>>

(* poll_control reads a frame.  The first SETTINGS takes effect here.      *)
ReadFrame ==
  /\ AllResolved
  /\ control_recv # None
  /\ inbox # <<>>
  /\ inbox' = Tail(inbox)
  /\ consumed' = Append(consumed, Head(inbox))
  /\ IF ControlError(Head(inbox)) # None
     THEN Fail(ControlError(Head(inbox))) /\ UNCHANGED <<frame, got_peer_settings>>
     ELSE /\ frame' = Head(inbox)
          /\ pc' = "grease"
          /\ got_peer_settings' = (got_peer_settings \/ Head(inbox).type = "SETTINGS")
          /\ UNCHANGED error
  /\ UNCHANGED <<role, send_grease, ustate, utype, bidi, sent, critical, recv_closing, grease,
                 awake, armed, handled>>

(* poll_grease_stream goes as far as QUIC lets it.  When QUIC is not ready *)
(* poll_control ends pending, with the frame it has read still in its hand. *)
Rank == [NotStarted |-> 0, DataPrepared |-> 1, DataSent |-> 2, Finished |-> 3]

GreasePending(step) ==
  /\ pc = "grease"
  /\ send_grease_stream_flag
  /\ Rank[grease_step] <= Rank[step]
  /\ step # "Finished"
  /\ grease_step' = step
  /\ armed' = armed \cup {"grease"}
  /\ pc' = "accept bi"
  /\ frame' = None
  /\ UNCHANGED <<role, send_grease, peer, critical, got_peer_settings, recv_closing,
                 send_grease_stream_flag, error, awake, consumed, handled>>

(* Finished, or given up after an error at whatever step.                  *)
GreaseOver(step) ==
  /\ pc = "grease"
  /\ send_grease_stream_flag
  /\ Rank[grease_step] <= Rank[step]
  /\ grease_step' = step
  /\ send_grease_stream_flag' = FALSE
  /\ UNCHANGED <<role, send_grease, peer, critical, got_peer_settings, recv_closing, error,
                 task, consumed, handled>>

(* StreamId::is_request: client-initiated and bidirectional.               *)
is_request(id) == id % 4 = 0

(* Identifiers may not rise.                                              *)
process_goaway(id) ==
  IF recv_closing # None /\ recv_closing < id
  THEN Fail("H3_ID_ERROR") /\ UNCHANGED recv_closing
  ELSE recv_closing' = id /\ pc' = "accept" /\ UNCHANGED error

(* The client's poll_close with a frame poll_control has let through: it   *)
(* has no use for CANCEL_PUSH and MAX_PUSH_ID.                             *)
poll_close(f) ==
  \/ /\ f.type = "GOAWAY"
     /\ IF is_request(f.id) THEN process_goaway(f.id)
        ELSE Fail("H3_ID_ERROR") /\ UNCHANGED recv_closing
  \/ /\ f.type = "SETTINGS"
     /\ pc' = "accept"
     /\ UNCHANGED <<recv_closing, error>>
  \/ /\ f.type \in {"CANCEL_PUSH", "MAX_PUSH_ID"}
     /\ Fail("H3_FRAME_UNEXPECTED")
     /\ UNCHANGED recv_closing

(* The server's poll_next_control with it: all but GOAWAY is ignored.      *)
poll_next_control(f) ==
  \/ f.type = "GOAWAY" /\ process_goaway(f.id)
  \/ /\ f.type \in {"SETTINGS", "CANCEL_PUSH", "MAX_PUSH_ID"}
     /\ pc' = "accept"
     /\ UNCHANGED <<recv_closing, error>>

(* poll_control returns the frame; the role handles it and, unless it      *)
(* fails, asks for the next one.                                           *)
HandleFrame ==
  /\ pc = "grease"
  /\ ~send_grease_stream_flag
  /\ handled' = Append(handled, frame)
  /\ frame' = None
  /\ IF role = "client" THEN poll_close(frame) ELSE poll_next_control(frame)
  /\ UNCHANGED <<role, send_grease, peer, critical, got_peer_settings, grease, awake, armed,
                 consumed>>

(* The end of the poll: the client objects to a bidirectional stream, the  *)
(* server returns it and is called again; otherwise the poll is pending.   *)
EndPoll ==
  /\ pc = "accept bi"
  /\ IF bidi /\ role = "client"
     THEN Fail("H3_STREAM_CREATION_ERROR") /\ UNCHANGED <<bidi, awake>>
     ELSE /\ pc' = "idle"
          /\ awake' = (awake \/ bidi)
          /\ bidi' = FALSE
          /\ UNCHANGED error
  /\ UNCHANGED <<role, send_grease, ustate, utype, inbox, sent, critical, got_peer_settings,
                 recv_closing, grease, frame, armed, consumed, handled>>

(* AcceptUni::poll of a WebTransport session pops the stream pushed last.  *)
PopWebTransport ==
  /\ pc = "idle"
  /\ wt_uni_streams # <<>>
  /\ wt_uni_streams' = SubSeq(wt_uni_streams, 1, Len(wt_uni_streams) - 1)
  /\ UNCHANGED <<role, send_grease, peer, control_recv, encoder_recv, decoder_recv, stopped,
                 got_peer_settings, recv_closing, grease, error, task, consumed, handled>>

PeerNext ==
  \/ \E k \in Uni : OpenUni(k)
  \/ \E k \in Uni, type \in StreamTypes : SendHeader(k, type)
  \/ \E f \in Frames : SendFrame(f)
  \/ OpenBidi
  \/ UnblockGrease

Step ==
  \/ StartPoll
  \/ AcceptRecv
  \/ \E k \in Uni : Resolve(k)
  \/ NothingToRead
  \/ ReadFrame
  \/ \E step \in DOMAIN Rank : GreasePending(step) \/ GreaseOver(step)
  \/ HandleFrame
  \/ EndPoll

Next == Step \/ PeerNext \/ PopWebTransport

Spec == Init /\ [][Next]_vars
(* The executor polls the driver when it was notified, to the poll's end.  *)
FairSpec == Spec /\ WF_vars(Step)

-----------------------------------------------------------------------------
(***************************************************************************)
(* Properties.                                                             *)
(***************************************************************************)
PeerTypes ==
  /\ ustate \in [Uni -> {"none", "arrived", "pending", "taken"}]
  /\ utype \in [Uni -> StreamTypes \cup {None}]
  /\ bidi \in BOOLEAN
  /\ inbox \in Seq(Frames) /\ sent \in 0 .. MaxFrames
StreamsTypes ==
  /\ control_recv \in Uni \cup {None} /\ encoder_recv \in Uni \cup {None}
  /\ decoder_recv \in Uni \cup {None}
  /\ wt_uni_streams \in Seq(Uni) /\ stopped \subseteq Uni
DriverTypes ==
  /\ got_peer_settings \in BOOLEAN
  /\ recv_closing \in GoawayIds \cup {None}
  /\ error \in Codes \cup {None}
  /\ pc \in {"idle", "accept", "resolve", "grease", "accept bi", "failed"}
  /\ frame \in Frames \cup {None}
  /\ consumed \in Seq(Frames) /\ handled \in Seq(Frames)
TaskTypes ==
  /\ grease_step \in {"NotStarted", "DataPrepared", "DataSent", "Finished"}
  /\ send_grease_stream_flag \in BOOLEAN
  /\ awake \in BOOLEAN /\ armed \subseteq {"accept", "control", "grease"}
TypeOK ==
  /\ [role |-> role, send_grease |-> send_grease] \in Configs
  /\ PeerTypes /\ StreamsTypes /\ DriverTypes /\ TaskTypes

(* The i-th frame of a control stream s gives an identifier that role r    *)
(* must not accept: a push id that no PUSH_PROMISE has mentioned to a      *)
(* server and no MAX_PUSH_ID has allowed to a client (h3 sends neither     *)
(* frame), a maximum that is reduced, or a GOAWAY that rises or, to a      *)
(* client, does not name a request.                                        *)
PushIdWrong(r, s, i) ==
  /\ i > 1
  /\ \/ s[i].type = "CANCEL_PUSH"
     \/ /\ r = "server" /\ s[i].type = "MAX_PUSH_ID"
        /\ \E j \in 1 .. (i - 1) : s[j].type = "MAX_PUSH_ID" /\ s[j].id > s[i].id
GoawayWrong(r, s, i) ==
  /\ s[i].type = "GOAWAY"
  /\ \/ r = "client" /\ s[i].id % 4 # 0
     \/ \E j \in 1 .. (i - 1) : s[j].type = "GOAWAY" /\ s[j].id < s[i].id

(* What RFC 9114 demands of an endpoint in role r for that frame, from the *)
(* sequence of frames alone.                                               *)
Demanded(r, s, i) ==
  CASE s[i].type = "closed" -> "H3_CLOSED_CRITICAL_STREAM"
    [] s[i].type = "truncated" -> "H3_FRAME_ERROR"
    [] s[i].type = "malformed" -> "frame error"
    [] OTHER ->
         IF i = 1 THEN IF s[i].type = "SETTINGS" THEN None ELSE "H3_MISSING_SETTINGS"
         ELSE IF \/ s[i].type \in {"SETTINGS", "HEADERS"}
                 \/ r = "client" /\ s[i].type = "MAX_PUSH_ID"
         THEN "H3_FRAME_UNEXPECTED"
         ELSE IF PushIdWrong(r, s, i) \/ GoawayWrong(r, s, i) THEN "H3_ID_ERROR" ELSE None

(* The same but for the push ids, which h3 does not look at (the TODOs in  *)
(* poll_next_control): a server takes the frame for a good one, a client   *)
(* wants no CANCEL_PUSH at all.                                            *)
Verdict(r, s, i) ==
  IF PushIdWrong(r, s, i)
  THEN IF r = "client" THEN "H3_FRAME_UNEXPECTED" ELSE None
  ELSE Demanded(r, s, i)

(* A second control, encoder or decoder stream never goes unanswered, in   *)
(* whatever order headers arrive.                                          *)
OneCriticalStreamEach ==
  \A j, k \in Uni :
    /\ j # k
    /\ ustate[j] = "taken" /\ ustate[k] = "taken"
    /\ utype[j] = utype[k] /\ utype[j] \in {"control", "encoder", "decoder"}
    => error = "H3_STREAM_CREATION_ERROR"

(* Every frame read before the last was acceptable; the last one, once it  *)
(* is dealt with, is acceptable or has failed the connection with the code *)
(* it must have; and nothing but the last frame, or a stream that may not  *)
(* be there, fails it.                                                     *)
FramesJudged ==
  ~send_grease =>
    /\ \A i \in 1 .. (Len(consumed) - 1) : Verdict(role, consumed, i) = None
    /\ consumed # <<>> /\ pc # "grease" =>
         \/ Verdict(role, consumed, Len(consumed)) = None
         \/ error = Verdict(role, consumed, Len(consumed))
    /\ error \notin {None, "H3_STREAM_CREATION_ERROR"} =>
         consumed # <<>> /\ error = Verdict(role, consumed, Len(consumed))

(* The driver fails on exactly the control frames RFC 9114 makes an error, *)
(* with the code it demands, but for the push ids, and on every second     *)
(* critical stream (poll_accept_recv, poll_control, poll_next_control,     *)
(* poll_close, process_goaway, without grease in the way).                 *)
VerdictIsRFCExceptPushIds == OneCriticalStreamEach /\ FramesJudged

(* Without grease, every control frame that was read has reached the code  *)
(* that handles it or has failed the connection.                           *)
NoFrameLost ==
  ~send_grease /\ error = None /\ pc # "grease" => handled = consumed

(* What has arrived gets read: a poll that ends pending has registered for *)
(* whatever could let it go on, and every stream whose header arrives is   *)
(* sorted, whatever came before it.                                        *)
ArrivedIsRead ==
  /\ (~send_grease /\ inbox # <<>>) ~> (inbox = <<>> \/ error # None)
  /\ \A k \in Uni : utype[k] # None ~> ustate[k] = "taken" \/ error # None

(* "This method will return `None` when the connection receives a GOAWAY   *)
(* frame and all requests have been completed.": accept() waits for        *)
(* recv_closing, so a GOAWAY that was read must be in it.                  *)
GoawayIsRemembered ==
  (\E i \in 1 .. Len(consumed) : consumed[i].type = "GOAWAY")
    /\ pc = "idle" => recv_closing # None
=============================================================================
