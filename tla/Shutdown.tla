------------------------------ MODULE Shutdown ------------------------------
(***************************************************************************)
(* Graceful shutdown between an h3 client and an h3 server.                *)
(*                                                                         *)
(* Either side may announce its end with a GOAWAY on its control stream.   *)
(* The server rejects requests above the identifier it announced, waits    *)
(* for the requests it has accepted (the ends of which reach it through an *)
(* unbounded channel, from whatever thread drops the last half of a        *)
(* request) and then lets accept() return None.  The client stops opening  *)
(* requests once it knows.  Request streams and the two control streams    *)
(* are separate QUIC streams: nothing orders what arrives on one with what *)
(* arrives on another.                                                     *)
(*                                                                         *)
(* Stream identifiers are modelled by their index (the k-th                *)
(* client-initiated bidirectional stream is k), push identifiers by        *)
(* numbers.                                                                *)
(***************************************************************************)
EXTENDS Integers, Sequences

CONSTANTS
  MaxIndex,      \* the largest stream index: VarInt::MAX >> 2 in the code
  Senders,       \* SendRequest handles of the client
  Grace,         \* arguments the user may pass to the server's shutdown()
  MaxShutdowns,  \* bound: calls of shutdown() by the users, both sides together
  MaxCancels,    \* bound: shutdown or accept futures dropped while they write
  None

ASSUME MaxIndexAssumption == MaxIndex \in Nat
ASSUME GraceAssumption == Grace \subseteq Nat
ASSUME BoundsAssumption == MaxShutdowns \in Nat /\ MaxCancels \in Nat
ASSUME NoneAssumption == None \notin Int \cup [left : Int, idle : BOOLEAN]

Index == 0 .. MaxIndex
Side == {"client", "server"}
Peer(s) == IF s = "client" THEN "server" ELSE "client"

VARIABLES
  sent_closing,     \* per side: the identifier of the last GOAWAY it decided on
  recv_closing,     \* per side: the identifier of the last GOAWAY it received
  buffered,         \* per side: a GOAWAY handed to QUIC and not yet flushed
  wire,             \* per side: GOAWAYs it has sent and the peer has not read
  mode,             \* per side: what the future in progress is doing
  closing,          \* SharedState.closing of the client
  sender,           \* per SendRequest: idle, or past the is_closing check
  opened,           \* number of request streams opened
  stream,           \* per request stream: its fate
  part,             \* per request: which halves of its RequestStream are alive
  last_accepted_stream, ongoing_streams,
  request_end,      \* the channel of RequestEnd, which removes in any order
  id_error,         \* some side answered a GOAWAY with H3_ID_ERROR
  closed,           \* the server's Connection was dropped
  grace,            \* history: how many more requests shutdown(n) still promises
  shutdowns, cancels

server == <<last_accepted_stream, ongoing_streams, request_end>>
goaway == <<sent_closing, recv_closing, buffered, wire, mode, id_error>>
requests == <<sender, opened, stream, part>>
history == <<grace, shutdowns, cancels>>
vars == <<goaway, closing, requests, server, closed, history>>

Init ==
  /\ sent_closing = [s \in Side |-> None]
  /\ recv_closing = [s \in Side |-> None]
  /\ buffered = [s \in Side |-> None]
  /\ wire = [s \in Side |-> <<>>]
  /\ mode = [s \in Side |-> "driving"]
  /\ closing = FALSE
  /\ sender = [h \in Senders |-> "idle"]
  /\ opened = 0
  /\ stream = [i \in Index |-> "unopened"]
  /\ part = [i \in Index |-> "none"]
  /\ last_accepted_stream = None
  /\ ongoing_streams = {}
  /\ request_end = {}
  /\ id_error = FALSE
  /\ closed = FALSE
  /\ grace = None
  /\ shutdowns = 0
  /\ cancels = 0

(***************************************************************************)
(* The client's SendRequest::send_request: the check of the closing flag,  *)
(* then, after an await, the new stream.                                   *)
(***************************************************************************)
CheckClosing(h) ==
  /\ sender[h] = "idle"
  /\ ~closing
  /\ sender' = [sender EXCEPT ![h] = "checked"]
  /\ UNCHANGED <<goaway, closing, opened, stream, part, server, closed, history>>

OpenRequest(h) ==
  /\ sender[h] = "checked"
  /\ opened \in Index
  /\ ~closed
  /\ sender' = [sender EXCEPT ![h] = "idle"]
  /\ stream' = [stream EXCEPT ![opened] = "opened"]
  /\ opened' = opened + 1
  /\ UNCHANGED <<goaway, closing, part, server, closed, history>>

(* Deliberate bug: GOAWAY goes out however large its identifier.           *)
shutdown_Unchecked(s, max_id, begin, skip) ==
  /\ mode' = [mode EXCEPT ![s] = begin]
  /\ sent_closing' = [sent_closing EXCEPT ![s] = max_id]
  /\ closing' = (closing \/ s = "client")

(***************************************************************************)
(* ConnectionInner::shutdown, generic over the identifier.  The identifier *)
(* is recorded before the frame is written; a call that would not lower it *)
(* returns at once.  begin is the mode that starts the write, skip the one *)
(* an early return leads to.                                               *)
(***************************************************************************)
shutdown(s, max_id, begin, skip) ==
  IF sent_closing[s] # None /\ sent_closing[s] <= max_id
  THEN /\ mode' = [mode EXCEPT ![s] = skip]
       /\ UNCHANGED <<sent_closing, closing>>
  ELSE /\ mode' = [mode EXCEPT ![s] = begin]
       /\ sent_closing' = [sent_closing EXCEPT ![s] = max_id]
       /\ closing' = (closing \/ s = "client")

(* StreamId + usize saturates at the largest index.                        *)
Plus(i, n) == IF i + n > MaxIndex THEN MaxIndex ELSE i + n

(* Deliberate bug: max_requests is ignored.                                *)
MaxId_NoGrace(max_requests) ==
  IF last_accepted_stream = None THEN 0 ELSE last_accepted_stream

(* The identifier the server's shutdown(max_requests) announces.           *)
MaxId(max_requests) ==
  IF last_accepted_stream = None THEN 0 ELSE Plus(last_accepted_stream, max_requests)

(* server::Connection::shutdown.                                           *)
ServerShutdown(n) ==
  /\ mode["server"] = "driving"
  /\ ~closed
  /\ shutdowns < MaxShutdowns
  /\ shutdowns' = shutdowns + 1
  /\ shutdown("server", MaxId(n), "ready", "driving")
  /\ grace' = IF sent_closing' = sent_closing THEN grace
              ELSE [left |-> n, idle |-> last_accepted_stream = None]
  /\ UNCHANGED <<recv_closing, buffered, wire, id_error, requests, server, closed, cancels>>

(* client::Connection::shutdown: always PushId(0).                         *)
ClientShutdown ==
  /\ mode["client"] = "driving"
  /\ ~closed
  /\ shutdowns < MaxShutdowns
  /\ shutdowns' = shutdowns + 1
  /\ shutdown("client", 0, "ready", "driving")
  /\ UNCHANGED <<recv_closing, buffered, wire, id_error, requests, server, closed,
                 grace, cancels>>

(***************************************************************************)
(* stream::write on the control stream: flush what an earlier, dropped     *)
(* write left behind, hand the frame to QUIC, flush it.  mode is "ready",  *)
(* then "flush"; "ready last" and "flush last" are the same inside the     *)
(* accept() that is about to return None.                                  *)
(***************************************************************************)
Writing(s) == mode[s] \in {"ready", "flush", "ready last", "flush last"}

FlushControl(s) ==
  /\ Writing(s)
  /\ buffered[s] # None
  /\ ~closed
  /\ wire' = [wire EXCEPT ![s] = Append(@, buffered[s])]
  /\ buffered' = [buffered EXCEPT ![s] = None]
  /\ UNCHANGED <<sent_closing, recv_closing, mode, id_error, closing, requests, server,
                 closed, history>>

SendGoaway(s) ==
  /\ mode[s] \in {"ready", "ready last"}
  /\ buffered[s] = None
  /\ buffered' = [buffered EXCEPT ![s] = sent_closing[s]]
  /\ mode' = [mode EXCEPT ![s] = IF mode[s] = "ready" THEN "flush" ELSE "flush last"]
  /\ UNCHANGED <<sent_closing, recv_closing, wire, id_error, closing, requests, server,
                 closed, history>>

ShutdownReturns(s) ==
  /\ mode[s] \in {"flush", "flush last"}
  /\ buffered[s] = None
  /\ mode' = [mode EXCEPT ![s] = IF mode[s] = "flush" THEN "driving" ELSE "ended"]
  /\ UNCHANGED <<sent_closing, recv_closing, buffered, wire, id_error, closing, requests,
                 server, closed, history>>

(* The user drops the future: what was recorded stays recorded.            *)
CancelWrite(s) ==
  /\ Writing(s)
  /\ cancels < MaxCancels
  /\ cancels' = cancels + 1
  /\ mode' = [mode EXCEPT ![s] = "driving"]
  /\ UNCHANGED <<sent_closing, recv_closing, buffered, wire, id_error, closing, requests,
                 server, closed, grace, shutdowns>>

(* process_goaway, from the client's poll_close or the server's            *)
(* poll_next_control.                                                      *)
ProcessGoaway(s) ==
  /\ mode[s] = "driving"
  /\ wire[Peer(s)] # <<>>
  /\ LET id == Head(wire[Peer(s)])
     IN IF recv_closing[s] # None /\ recv_closing[s] < id
        THEN id_error' = TRUE /\ UNCHANGED <<recv_closing, closing>>
        ELSE /\ recv_closing' = [recv_closing EXCEPT ![s] = id]
             /\ closing' = (closing \/ s = "client")
             /\ UNCHANGED id_error
  /\ wire' = [wire EXCEPT ![Peer(s)] = Tail(@)]
  /\ UNCHANGED <<sent_closing, buffered, mode, requests, server, closed, history>>

(***************************************************************************)
(* The server's poll_accept_request_stream_internal.                       *)
(***************************************************************************)

(* poll_requests_completion: what is still ongoing once the channel is empty. *)
StillOngoing == ongoing_streams \ request_end
poll_requests_completion ==
  /\ ongoing_streams' = StillOngoing
  /\ request_end' = {}

(* accept() is about to return None, after a last shutdown(0).             *)
ReturnNone ==
  /\ shutdown("server", MaxId(0), "ready last", "ended")
  /\ grace' = IF sent_closing' = sent_closing THEN grace
              ELSE [left |-> 0, idle |-> last_accepted_stream = None]

(* QUIC (external) hands over request streams in the order of their ids.   *)
Incoming(i) ==
  /\ mode["server"] = "driving"
  /\ ~closed
  /\ stream[i] = "opened"
  /\ \A j \in Index : j < i => stream[j] # "opened"

(* Deliberate bug: off by one.                                             *)
InGrace_OneMore(i) == sent_closing["server"] # None => i <= sent_closing["server"] + 1

InGrace(i) == sent_closing["server"] # None => i <= sent_closing["server"]

AcceptRequest(i) ==
  /\ Incoming(i)
  /\ InGrace(i)
  /\ stream' = [stream EXCEPT ![i] = "accepted"]
  /\ part' = [part EXCEPT ![i] = "whole"]
  /\ last_accepted_stream' = i
  /\ ongoing_streams' = StillOngoing \cup {i}
  /\ request_end' = {}
  /\ grace' = IF grace = None THEN None ELSE [left |-> grace.left - 1, idle |-> grace.idle]
  /\ UNCHANGED <<goaway, closing, sender, opened, closed, shutdowns, cancels>>

RejectRequest(i) ==
  /\ Incoming(i)
  /\ ~InGrace(i)
  /\ stream' = [stream EXCEPT ![i] = "rejected"]
  /\ poll_requests_completion
  /\ IF StillOngoing = {} THEN ReturnNone
     ELSE UNCHANGED <<mode, sent_closing, closing, grace>>
  /\ UNCHANGED <<recv_closing, buffered, wire, id_error, sender, opened, part,
                 last_accepted_stream, closed, shutdowns, cancels>>

(* Deliberate bug: None as soon as the peer has said GOAWAY.               *)
AcceptReturnsNone_Early ==
  /\ mode["server"] = "driving"
  /\ ~closed
  /\ recv_closing["server"] # None
  /\ poll_requests_completion
  /\ ReturnNone
  /\ UNCHANGED <<recv_closing, buffered, wire, id_error, requests, last_accepted_stream,
                 closed, shutdowns, cancels>>

(* No request has arrived, the peer has said GOAWAY and all is done.       *)
AcceptReturnsNone ==
  /\ mode["server"] = "driving"
  /\ ~closed
  /\ recv_closing["server"] # None
  /\ StillOngoing = {}
  /\ poll_requests_completion
  /\ ReturnNone
  /\ UNCHANGED <<recv_closing, buffered, wire, id_error, requests, last_accepted_stream,
                 closed, shutdowns, cancels>>

(***************************************************************************)
(* Request handlers, on any thread: RequestStream::split, and the drop of  *)
(* a half.  The last half takes the Arc<RequestEnd> with it.               *)
(***************************************************************************)
SplitRequest(i) ==
  /\ part[i] = "whole"
  /\ part' = [part EXCEPT ![i] = "two"]
  /\ UNCHANGED <<goaway, closing, sender, opened, stream, server, closed, history>>

(* Deliberate bug: nobody announces the end of the request.                *)
DropPart_Silent(i) ==
  /\ part[i] \in {"whole", "two", "one"}
  /\ part' = [part EXCEPT ![i] = IF @ = "two" THEN "one" ELSE "none"]
  /\ stream' = [stream EXCEPT ![i] = IF part[i] = "two" THEN @ ELSE "done"]
  /\ UNCHANGED <<goaway, closing, sender, opened, server, closed, history>>

DropPart(i) ==
  /\ part[i] \in {"whole", "two", "one"}
  /\ IF part[i] = "two"
     THEN /\ part' = [part EXCEPT ![i] = "one"]
          /\ UNCHANGED <<stream, request_end>>
     ELSE /\ part' = [part EXCEPT ![i] = "none"]
          /\ stream' = [stream EXCEPT ![i] = "done"]
          /\ request_end' = request_end \cup {i}
  /\ UNCHANGED <<goaway, closing, sender, opened, last_accepted_stream, ongoing_streams,
                 closed, history>>

(* Deliberate bug: a Connection that does not close QUIC when dropped.     *)
DropServer_Silent ==
  /\ mode["server"] = "ended"
  /\ ~closed
  /\ closed' = TRUE
  /\ UNCHANGED <<goaway, closing, requests, server, history>>

(* The user drops the server's Connection once accept() has returned None; *)
(* requests nobody has accepted end with the connection.                   *)
DropServer ==
  /\ mode["server"] = "ended"
  /\ ~closed
  /\ closed' = TRUE
  /\ stream' = [i \in Index |-> IF stream[i] = "opened" THEN "lost" ELSE stream[i]]
  /\ UNCHANGED <<goaway, closing, sender, opened, part, server, history>>

Next ==
  \/ \E h \in Senders : CheckClosing(h) \/ OpenRequest(h)
  \/ \E n \in Grace : ServerShutdown(n)
  \/ ClientShutdown
  \/ \E s \in Side : FlushControl(s) \/ SendGoaway(s) \/ ShutdownReturns(s)
  \/ \E s \in Side : CancelWrite(s) \/ ProcessGoaway(s)
  \/ \E i \in Index : AcceptRequest(i) \/ RejectRequest(i)
  \/ AcceptReturnsNone
  \/ \E i \in Index : SplitRequest(i) \/ DropPart(i)
  \/ DropServer

(* The server keeps calling accept() and drops the connection after None;  *)
(* drivers and writes in progress are polled; request handlers finish; a   *)
(* request that passed the closing check gets its stream.                  *)
Fairness ==
  /\ \A h \in Senders : WF_vars(OpenRequest(h))
  /\ \A s \in Side : /\ WF_vars(FlushControl(s) \/ SendGoaway(s) \/ ShutdownReturns(s))
                     /\ WF_vars(ProcessGoaway(s))
  /\ WF_vars(\E i \in Index : AcceptRequest(i) \/ RejectRequest(i))
  /\ WF_vars(AcceptReturnsNone)
  /\ \A i \in Index : WF_vars(DropPart(i))
  /\ WF_vars(DropServer)

Spec == Init /\ [][Next]_vars
FairSpec == Spec /\ Fairness

-----------------------------------------------------------------------------
(***************************************************************************)
(* Properties.                                                             *)
(***************************************************************************)
Modes == {"driving", "ready", "flush", "ready last", "flush last", "ended"}

TypeOK ==
  /\ sent_closing \in [Side -> Index \cup {None}]
  /\ recv_closing \in [Side -> Index \cup {None}]
  /\ buffered \in [Side -> Index \cup {None}]
  /\ wire \in [Side -> Seq(Index)]
  /\ mode \in [Side -> Modes]
  /\ closing \in BOOLEAN
  /\ sender \in [Senders -> {"idle", "checked"}]
  /\ opened \in 0 .. (MaxIndex + 1)
  /\ stream \in [Index -> {"unopened", "opened", "accepted", "rejected", "done", "lost"}]
  /\ part \in [Index -> {"none", "whole", "two", "one"}]
  /\ last_accepted_stream \in Index \cup {None}
  /\ ongoing_streams \subseteq Index
  /\ request_end \subseteq Index
  /\ id_error \in BOOLEAN
  /\ closed \in BOOLEAN
  /\ grace \in {None} \cup [left : Int, idle : BOOLEAN]
  /\ shutdowns \in 0 .. MaxShutdowns
  /\ cancels \in 0 .. MaxCancels

(* Two h3 endpoints never make each other fail with H3_ID_ERROR: whatever  *)
(* sequence of shutdown() calls, dropped futures and accepted requests, the *)
(* identifiers a side puts on its control stream never rise (the early     *)
(* return of ConnectionInner::shutdown against process_goaway's check).    *)
NoIdError == ~id_error

(* A GOAWAY identifier is an upper bound: no request above an identifier   *)
(* the server has announced, on the wire or read by the client, has been   *)
(* accepted or ever is, so the client may retry what is above it elsewhere. *)
Announced == {recv_closing["client"], buffered["server"]}
             \cup {wire["server"][k] : k \in 1 .. Len(wire["server"])}
GoawayIsUpperBound ==
  \A id \in Announced \ {None}, i \in Index :
    stream[i] \in {"accepted", "done"} => i <= id

(* A request is counted as ongoing, or its end is in the channel, from its *)
(* acceptance to its removal, and not longer.                              *)
OngoingIsAccurate ==
  /\ \A i \in Index : stream[i] = "accepted" <=> i \in StillOngoing
  /\ request_end \subseteq ongoing_streams

(* accept() returns None, and the connection is closed, only when every    *)
(* request it handed out has ended on all its halves: the ends counted     *)
(* through the channel match the requests accepted at all times.           *)
NoneMeansAllDone ==
  /\ OngoingIsAccurate
  /\ mode["server"] \in {"ready last", "flush last", "ended"} =>
       \A i \in Index : stream[i] # "accepted"

(* A server that was told GOAWAY finishes: accept() returns None once the  *)
(* handlers are done, even if a shutdown of its own was cancelled.         *)
ServerFinishes == recv_closing["server"] # None ~> mode["server"] = "ended"

(* No request is left hanging: each stream the client opens is answered,   *)
(* rejected, or ends with the connection.                                  *)
EveryRequestResolved ==
  \A i \in Index : stream[i] = "opened" ~> stream[i] \in {"done", "rejected", "lost"}

(* "Initiate a graceful shutdown, accepting `max_request` potentially still *)
(* in-flight": after shutdown(n) no request is rejected before n more have *)
(* been accepted.  The exception is a shutdown(n) before any request was   *)
(* accepted: it announces the first request, whatever n is.                *)
Rejected(i) == stream[i] # "rejected" /\ stream'[i] = "rejected"
GraceHonouredWhenBusy ==
  [][\A i \in Index : Rejected(i) => grace.left <= 0 \/ grace.idle]_vars
=============================================================================
