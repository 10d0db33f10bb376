# TLA+ models of h3

h3 is an HTTP/3 implementation that is generic over a QUIC transport.  This
directory holds TLA+ modules of the parts of it whose correctness depends on
more than one step: what happens when streams, handles, driver tasks and the
peer meet in an order nobody wrote a test for.  Modules are translated from the
source; identifiers in them are the source's where TLA+ allows it, and
`PROJECT.json` maps every definition to the lines it stands for.

```
tlc -workers 2 -config MCDriver.cfg MCDriver     # one of the runs below
tlapm DriverProofs.tla                           # one of the modules of proofs
```

## 1. The system

### Components

| component | state | operations | depends on order of |
|---|---|---|---|
| **shared connection state** (`h3/src/shared_state.rs`, `error/connection_error_creators.rs`) | `connection_error` (OnceLock), `waker` (AtomicWaker), `closing`, `settings`; `handled_connection_error` in the driver | `set_conn_error_and_wake`, `poll_connection_error`, `handle_connection_error`, `close_if_needed` | every thread that has a stream or handle against every task that polls the connection |
| **SendRequest handles** (`client/connection.rs`) | `sender_count` | `clone`, `drop`, `send_request` | clones and drops on different threads |
| **graceful shutdown** (`connection.rs`, `server/connection.rs`, `client/connection.rs`, `server/stream.rs`) | `sent_closing`, `recv_closing`, `last_accepted_stream`, `ongoing_streams`, the `RequestEnd` channel | `shutdown`, `process_goaway`, `poll_accept_request_stream`, `poll_requests_completion`, `drop` of either half of a request | GOAWAYs in both directions, new request streams, ends of requests, dropped futures |
| **control and unidirectional streams** (`connection.rs`) | `pending_recv_streams`, `control_recv`, `encoder_recv`, `decoder_recv`, `wt_uni_streams`, `got_peer_settings`, the grease step | `poll_accept_recv`, `poll_control`, `poll_next_control`, `poll_close`, `poll_grease_stream` | headers and frames of several streams |
| **frame streams** (`frame.rs`, `buf.rs`, `proto/frame.rs`, `stream.rs`) | `BufList`, `eos`, `FrameDecoder.expected`, `remaining_data` | `poll_next`, `poll_data`, `decode`, `split` | how QUIC cuts the bytes into chunks |
| **receiving a message** (`connection.rs`, `server/request.rs`, `client/stream.rs`) | `trailers`, the position in the message | `recv_response`, `resolve_request`, `recv_data`, `recv_trailers`, `stop_sending` | what is buffered when, futures dropped half way |
| **QPACK with a dynamic table** (`qpack/dynamic.rs`, `encoder.rs`, `decoder.rs`, `vas.rs`, `block.rs`, `stream.rs`) | the table on each side, `track_map`, `track_blocks`, `largest_known_received`, `blocked_streams` | `encode`, `on_decoder_recv`, `on_encoder_recv`, `decode_header`, `ack_header`, `stream_canceled`, `set_dynamic_table_size` | instructions, acknowledgements and sections on separate streams |
| **sending a message** (`connection.rs`, `stream.rs`, `server/stream.rs`) over **h3-quinn**'s streams | `writing` (the one WriteBuf a stream holds), `send_grease_frame`; `read_chunk_fut`, `pending_stop` | `send_response`, `send_data`, `send_trailers`, `finish`, `stop_stream`; `poll_ready`, `poll_finish`, `poll_data`, `stop_sending` | flow control, futures dropped half way, a stop during a read |
| **stream headers** (`stream.rs`, `proto/stream.rs`) | `AcceptRecvStream.expected`, its type and id | `poll_type`, `into_stream`; `UniStreamHeader`, `BidiStreamHeader` | how QUIC cuts the header, where the stream ends |
| **header sections** (`proto/headers.rs`, `ext.rs`, `qpack/encoder.rs` and `decoder.rs`, `static_.rs`, `prefix_*`) | none: functions of a list of fields, of bytes, of a limit | `Header`, `HeaderIter`, `encode_stateless`, `decode_stateless`, `hpack_encode`, `hpack_decode`, `into_*_parts` | the order of fields; what the sender knows of the receiver's limit |
| **settings** (`config.rs`, `proto/frame.rs`) | `SharedState.settings` | `Settings::encode`, `decode`, `try_from`, `from` | whether SETTINGS have arrived when they are looked at |
| **h3-webtransport** (`server.rs`, `stream.rs`) | `session_id`, the header an `OpenUni`/`OpenBi` has left, `BufRecvStream`'s buffer | `accept`, `accept_uni`, `accept_bi`, `open_uni`, `open_bi`, `poll_data`, `poll_read`, `poll_write`, `split` | SETTINGS against CONNECT, futures dropped inside a header, reads of different kinds mixed |
| **h3-datagram** | none | `Datagram::encode`, `decode`, `DatagramSender`, `DatagramReader` | loss and reordering |

### How they interact

Everything a user holds (the `Connection`, `SendRequest`s, `RequestStream`s or
their halves) shares one `SharedState` and may be on a thread of its own.  Only
the task that polls the `Connection` reads the control stream, accepts streams
and closes QUIC; it *pulls*: a stream that meets a connection error records it
in the OnceLock and wakes whoever is registered in the AtomicWaker.  Requests
tell the server that they have ended through an unbounded channel read by
`accept()`.  Request streams, the two control streams and the two QPACK streams
are separate QUIC streams: each is ordered, nothing orders one with another.

### What is hard

* check-then-register on a waker shared with other threads;
* `async` functions whose state survives when the future is dropped half way
  (a frame taken off a stream, a GOAWAY recorded but not written);
* decisions made on a flag that is stale after the next `await`;
* frames cut anywhere by QUIC, with a decoder that guesses how much to wait for;
* counts kept on one side of the connection about the other (requests, table
  entries, streams blocked).

`PROJECT.json` lists these hazards one by one, at the line where each bites,
with the properties that would catch it.

### What makes each component correct

* connection errors: one error per connection, the first; everybody who reports
  reports that one; QUIC is closed once, for it; the driver gets to know,
  and so does every task that waits on the connection and has not lost its waker to
  another.
* shutdown: identifiers never rise; nothing above an announced identifier is
  processed; `accept()` returns `None` exactly when it may; no request hangs.
* control stream: the peer's frames get the verdict the RFC demands (all but push
  ids), none is lost, a duplicate critical stream is noticed.
* request streams: the outcome is what the frames demand, but for a SETTINGS frame
  that does not decode, and neither it nor the body depends on chunks, on dropped
  futures or on `split`.
* sending: the peer gets whole frames in order, and the end only after all of
  them, whatever futures were dropped.
* QPACK: what is decoded is what was encoded, in every order of delivery.
* header sections: what h3 sends arrives unchanged or is held back, what is no
  message is refused, and nothing that ends early is read as something else.
* WebTransport: a session exists only when both sides announced it, a stream goes
  to the session its opener named and its reader gets every byte after the
  header, a datagram keeps its stream.

## 2. Modules

| module | models | state ↔ code |
|---|---|---|
| `ConnectionErrorCell` | the abstract promise about connection errors: one decision, told to everyone, one close | - |
| `Driver` | SharedState, the error creators, h3-quinn's accept futures, the tasks that poll a connection, streams and `SendRequest`s that raise errors; one step per access to shared memory | `connection_error`, `waker`, `handled`, `sender_count` are the fields of those names; `pc`/`round` is where a poll is and which of its calls of `poll_connection_error` it has reached; `awake` is the executor's notification; `incoming` is the task whose waker `incoming_uni` and `incoming_bi` hold, each one only; `quic`, `closes` is the transport |
| `Shutdown` | GOAWAY in both directions, acceptance, rejection and end of requests, dropped shutdown futures | `sent_closing`, `recv_closing`, `last_accepted_stream`, `ongoing_streams` as in the code; `buffered`, `wire` is the way of a GOAWAY through QUIC; `mode` is the future in progress; stream ids are their indices |
| `Control` | sorting of unidirectional streams, the control stream, the grease stream, as one poll of the driver against a free peer | fields of `ConnectionInner`; `armed` is what the last pending poll registered for |
| `FrameStream` | the bytes: varints, `Frame::decode`, `FrameDecoder`, `BufRecvStream`; operators and state shared by users of a frame stream; on `Settings` for the payload of a SETTINGS frame | `buf`, `eos`, `expected`, `remaining_data` |
| `Request` | receiving a request or response on top of `FrameStream` | `trailers`, `phase` of the message, `pc` inside a call, `halves` after `split` |
| `ByteStream` | the abstract promise of a sending half: bytes in order, the end after all | - |
| `Transfer` | the sending half of `RequestStream` through h3-quinn's `SendStream`, and h3-quinn's `RecvStream` at the other end | `writing`, `send_grease_frame`, `pending_stop` as in the code; `reading` says that `stream` is inside `read_chunk_fut`; `sent`, `fin`, `reset`, `stop` is the QUIC stream; `accepted` is the history of how many bytes h3 has handed over, and the i-th of them is the byte i |
| `DriverProofs`, `ShutdownProofs`, `ControlProofs`, `TransferProofs`, `FrameStreamProofs`, `RequestProofs`, `WebTransportProofs`, `QpackProofs` | the theorems about the modules of those names (section 4) | |
| `VarInt` | variable-length integers as bytes, big-endian words of eight for values up to 2^64 - 1 | - |
| `Settings` | the SETTINGS payload and the conversions from and to `Config` | the entries of `frame::Settings` in their order; grease included |
| `Datagram` | `Datagram`, `EncodedDatagram` as a `Buf`, `DatagramSender`, `DatagramReader` | `net` is the set of datagrams QUIC carries, in no order; `dsent`, `dread` are histories |
| `WebTransport` | a server's session: SETTINGS and CONNECT, one stream from its opener to its reader byte by byte, datagrams; on `FrameStream`, `Settings`, `Datagram` | `ty`, `id`, `expected` are those of `AcceptRecvStream`; `opener` is the future of `open_uni`/`open_bi` and then its stream; `phase` is where the accepted stream is; `got`, `told` are what its reader has seen |
| `StaticTable` | the static table and the two lookups as the code writes them | - |
| `Huffman` | the code table, `HuffmanEncoder` (partial bytes, padding), the decoder's bit window and `check_eof` | `BitWindow` is a pair of positions |
| `FieldSection` | prefixed integers, strings, the representations of a field, one field to and from bytes | a word is a name with the bytes it is spelled by (`Spelling`) |
| `Message` | a header section from caller to caller: parts, `Header`, fields, block, and back, with the limit on its size and the 431 answer | `step` is how far it has come; `settings` is what the sender knows of `limit` |
| `Qpack` | Encoder, Decoder, DynamicTable, VirtualAddressSpace and their instructions | fields of `DynamicTable` as in the code, `vas` is `dropped` and the length of `fields` |

`MCDriver`, `MCShutdown`, `MCControl`, `MCRequest`, `MCTransfer`, `MCQpack`,
`MCMessage` and `MCWebTransport` give the constants values that a `.cfg` cannot write.
Every module with variables has a `TypeOK`; a run lists it where it says more than
types: in `Driver` (`sender_count` is in range) and in `Qpack` (the table never exceeds
its size); both are also proved.  A definition called `X_Something`
directly before `X` is `X` with a plausible bug: replacing `X` by it shows that
the property named in `PROJECT.json` is able to fail.

### What is taken as given

QUIC delivers each stream in order and without loss, or ends the connection; it
reports an error once it is closed.  The end of a connection wakes the tasks whose
wakers the two accept futures of h3-quinn hold, and no other: each future belongs to
the connection, not to a task, and keeps the waker it was last polled with
(`PollIncoming`, `Woken`).  The notification inside quinn is taken to reach both.
Memory is sequentially consistent: the OnceLock and the AtomicWaker are modelled
as atomic cells, which is what their documentation promises.  What of a message
no property tells apart (names, reasons of errors) is left out.  A field section
is its first byte in `Request`: it decodes, does not, is too big, or breaks the rules on
headers before or after pseudo-headers were taken (`MCRequest`); `Message` has the
section itself.  There the `http` crate's types are external: `Valid` says which of
the words in use a `Method`, `HeaderName` and so on accept.

## 3. Runs

Passing runs:

* **driver** (`MCDriver.cfg`).  Two tasks, one request stream, two `SendRequest`
  handles, client and server, three checks per poll (what `accept()` and
  `poll_close()` do).  Any party meets any error at any step.  Shows that all
  parties agree (`Agreement`), QUIC is closed once and for the first error
  (`ClosedOnceForFirstError`), the connection ends with NO_ERROR only after the
  last handle (`NoErrorOnlyAfterLastSender`), no error is left with everyone
  asleep (`NoLostWakeup`), errors are handled and every task returns that has not
  lost its waker (`EveryTaskReturns`), and that it all implements
  `ConnectionErrorCell` (`ImplementsCell`).  Two tasks that share a connection
  overwrite each other's waker in the AtomicWaker and in each accept future: one that
  sleeps and has lost all of them (`Replaced`) is woken by nobody, and
  `EveryTaskReturns` says that no other task sleeps on.
  Bounds: with two tasks, a stream and two handles every pair of different kinds
  of parties races; `MaxArrivals` = 1 lets a task come back once more for a
  reason of its own.  488 003 states.
* **shutdown** (`MCShutdown.cfg`).  Three request indices, two handles, grace 0
  or 1, two calls of `shutdown` (by one side or one each), one dropped future.
  Shows `NoIdError`, `GoawayIsUpperBound`, `NoneMeansAllDone` (with an accurate
  `ongoing_streams` on the way there), `GraceHonouredWhenBusy`, and as liveness
  `ServerFinishes` and `EveryRequestResolved`.  Bounds: with indices 0..2 there is one
  below, at and above an announced identifier, and the largest makes `Plus`
  saturate; a second shutdown is needed for identifiers to rise or fall, a
  cancelled one for `sent_closing` and the wire to differ.
* **control** (`MCControl.cfg`).  Client, server and greasing server; two
  unidirectional streams of any type, three control frames, ends of the stream
  of three kinds.  Shows `VerdictIsRFCExceptPushIds` (against a definition, `Demanded`,
  that looks at the whole sequence of frames as RFC 9114 does, and demands one critical
  stream of each kind; on CANCEL_PUSH and a falling MAX_PUSH_ID, `PushIdWrong`, it
  says what the code does instead, `Verdict`),
  `NoFrameLost`, and `ArrivedIsRead`: streams are sorted and frames read once
  they are there.  Bounds: a verdict depends on at most one
  earlier frame besides SETTINGS; GOAWAY ids 0, 1, 4 cover valid request ids in
  both orders and one that is not a request id; of two push ids one is below the
  other; two streams make a duplicate.
* **request** (`MCRequest.cfg`).  The byte streams of `MCWires`: valid and
  invalid messages of up to four frames (among them frames whose payload lacks its
  integer, or ends within it, and SETTINGS frames that are empty, end within an
  entry and carry a forbidden identifier, in place of the header, after it, after the
  body and after the trailers) and every prefix of each, received in
  chunks of 1 to 3 bytes, then finished, reset, lost or left open, by a client
  or a server that may drop a pending future or split the stream at any time.
  Shows `OutcomeIsRFCExceptSettings` and `BodyIsFaithful` (against a parser of the
  whole stream; a SETTINGS frame that does not decode ends the connection with
  H3_SETTINGS_ERROR, any other with the code RFC 9114 demands), `NoneIsTrustworthy` (but for an empty DATA frame, `None` means the body
  is over; only a truncated one makes a legal caller panic), and `MessageEnds` as
  liveness.
  Bounds: chunks of 1 cut everywhere, of 3 join the end of one frame with the
  beginning of the next; payloads look like frame headers, so that reading at a
  wrong offset shows.
* **transfer** (`MCTransfer.cfg`).  A header, up to one DATA frame (empty or
  not), perhaps trailers, grease or not, and `finish`; two futures dropped at any
  pending point; a reset, a lost connection; a reader that stops the stream, also
  with a read in progress; room for two bytes in QUIC.  Shows that h3 never
  misuses the transport (`NeverMisused`), that `Ok` means written
  (`OkMeansWritten`), that calls return, also when the reader stops during a read
  (`CallReturns`), and that the reader sees a prefix of whole frames
  and the end only after all (`ImplementsByteStream`).  Bounds: headers of two
  and three bytes against a window of two make every write partial, and the
  window can hold the end of one frame and the beginning of the next; with two
  drops a dropped call can follow a dropped one.
* **qpack** (`MCQpack.cfg`).  Two streams with two sections each, four lists of
  fields, a table of one or two entries.  Everything is evicted soon and the
  encoded insert count wraps.  Shows `DecodesToOriginal`, `TablesAgree`,
  `TracksOutstanding`, `BlockedAreCounted` (and that a section waits only for
  insertions on their way).  It assumes callers that are `Careful` (section 5).
* **message** (`MCMessage.cfg`).  Requests (three methods and CONNECT with and without a
  protocol, six forms of URI, four Host fields), responses with every status of
  the static table and every list of three fields of four, trailers with each
  static entry and name; limits 41, 100 and 1000, known to the sender or not;
  sections cut by 1 to 4 and 8 bytes; lists of fields from a foreign peer,
  complete ones with up to two fields inserted or one missing; blocks with dynamic
  references, indices at both ends of the static table, endless integers, and
  Huffman strings of one byte (all 256) and two.  Shows `ArrivesUnchanged`,
  `LimitsAreRespected`, `WellFormedOnly`, `CutNeverInvents` and
  `StringsAreCanonical`.  Bounds: all bytes a value may hold go through the
  Huffman code alone, and in pairs of one for each of eight lengths of code, so
  that every alignment within a byte occurs; limit 41 is that of a section
  with one short field; integers up to 2^21 stand for `u64` (`MaxPower`).  66 491 states.
* **webtransport** (`MCWebTransport.cfg`).  What a client announces, with seven
  configurations at the limits of SETTINGS, grease or not, and six foreign payloads
  (repeated, forbidden, cut, empty); streams h3 opens for sessions 1, 64 and 16384
  (ids of one, two and four bytes), and foreign ones with types of two and four
  bytes before ids of one, two and four, other types, frames before the session's
  header, SETTINGS frames that decode and that do not, and every prefix of each; written and read in chunks of 1 to 3 bytes,
  finished, reset, lost or left open; openers dropped or failed at any byte; five
  foreign datagrams, a payload in two chunks.  Shows `SessionIsNegotiated`,
  `ResolvedIsOpened`, `ReadsAreExact`, `OnlyStaleLengthsFail`,
  `DatagramsKeepTheirStream`, and as liveness `EndedIsSettled`.  Bounds: offers,
  streams and datagrams are varied one at a time, since nothing in the code
  relates a stream's bytes to a datagram's; chunks of 1 cut everywhere, 3 joins a
  type of two bytes with the beginning of its id.  183 604 states.

Runs that find a disagreement between the code and what the repository says of
it; the findings in `PROJECT.json` quote the lines:

* **accept_uni**: a task that only awaits `WebTransportSession::accept_uni`
  checks once per poll and can sleep with an error unhandled (`NoLostWakeup`).
  Theorem `WakeupNotLost` is the other half: two checks per poll are enough.
* **grease**: a control frame in hand when the grease stream is pending is
  dropped; a GOAWAY is forgotten (`GoawayIsRemembered`).
* **empty_data**: `recv_data` returns `None` at an empty DATA frame inside a
  body (`NoneMeansFinished`).
* **qpack_cancel**: a stream cancelled before its insertions arrive lets the
  encoder get a whole table ahead; the next section is misread
  (`DecodesToOriginal`).

Six more places where a doc, comment or test says one thing and the code does another
were met and have no run of their own.  The models have what the code does, the
properties say it, and the passing runs reach it:

* a server takes a CANCEL_PUSH for a push it has never promised, and a MAX_PUSH_ID
  below an earlier one (`server/connection.rs:249`), although the comments there quote
  that both "MUST be treated as a connection error of type H3_ID_ERROR", as TODO
  (`:257-270`); a client refuses CANCEL_PUSH, but as H3_FRAME_UNEXPECTED
  (`client/connection.rs:455`).  `Demanded` in `Control` is what the RFC says, `Verdict` what
  the code does; they differ in `PushIdWrong` alone.
* a SETTINGS frame on a request or WebTransport stream is decoded before it is refused
  (`proto/frame.rs:115`); one that does not decode gives H3_SETTINGS_ERROR
  (`error/internal_error.rs:39-46`, whose TODO says so), where the tests quote "If an
  endpoint receives a SETTINGS frame on a different stream, the endpoint MUST respond
  with a connection error of type H3_FRAME_UNEXPECTED" (`tests/request.rs:1234`).
  `Demanded` in `Request` is what the RFC says, `Reported` what the code does.
* `:authority` a with Host a and then Host b is accepted: only the first Host is
  compared (`proto/headers.rs:83`), against the comment "If both fields are present, they
  MUST contain the same value" (`:88`).  `WellFormedOnly` speaks of the first Host.
* `shutdown(n)` before the first request announces the first request whatever n
  is (`server/connection.rs:168`), although it is documented as "accepting
  `max_request` potentially still in-flight" (`:163`); `GraceHonouredWhenBusy`
  excepts this case.
* a stream that ends inside a DATA frame, after a chunk was handed out, gives
  `recv_data` `None` (`frame.rs:123`), and `recv_trailers` then fails the
  assertion whose message asks for just that (`frame.rs:67-69`);
  `NoneIsTrustworthy` excepts it.
* `SessionId` is documented as "the same as the stream id of the CONNECT
  request" (`webtransport/session_id.rs:11`), but `From<StreamId>` takes the
  index, a quarter of it (`:48`, used in `h3-webtransport/src/server.rs:145`): a CONNECT
  on stream 4 gives session 1, and h3's own streams are opened for it.

Deadlock is not checked in any run: a connection on which everything has
happened rests, and so do these models.  That they do not rest too early is what
the liveness properties say.

### Fairness

* `Driver`: a thread finishes a call it has begun (`TaskStep`, `WakeConnection`)
  and an executor polls a task it was told to wake (`StartPoll`).  Users, peers
  and QUIC owe nothing: no error has to happen, no handle has to be dropped.
* `Shutdown`: both sides keep polling (`FlushControl`, `SendGoaway`,
  `ShutdownReturns`, `ProcessGoaway`, `AcceptRequest`/`RejectRequest`,
  `AcceptReturnsNone`), a
  `send_request` that has passed its check opens its stream, request handlers
  end (`DropPart`) and the server's `Connection` is dropped after `accept()`
  returned `None`, as the examples do.  Nobody has to shut down or open requests.
* `Control`: a driver that was woken polls (`WF(Step)`); the peer owes nothing.
* `Request`: the caller asks until the message has ended (`Call`), a poll that
  can go on does, and QUIC delivers what was sent.  This last is strong fairness
  (`SF(Receive)`): a caller who drops and repeats his calls disables it again
  and again, and the bytes arrive all the same.
* `Transfer`: a caller awaits the calls it does not drop, the reader polls until
  the stream has ended for it, and QUIC delivers STOP_SENDING.  Without a reader
  that polls on, a stop asked for during a pending read is never sent (h3-quinn
  notes it in `pending_stop`), and `CallReturns` would fail.
* `WebTransport`: the connection is polled and QUIC delivers (`WF(PollType)`), a
  resolver that was handed out is polled (`WF(Resolve)`).  The opener, the reader
  and the peer owe nothing.
* `Qpack`, `Message`: none; everything checked is safety.

## 4. Proofs

Each theorem holds for every value of the constants that satisfies the
assumptions the module declares; TLC evaluates these on the runs.  A temporal
theorem is `Init => IInv`, `IInv /\ [Next]_vars => IInv'` (a lemma for each
action), and `IInv => P`.  TLC has checked every `IInv` on the run's own
instance; of `Qpack`'s `Inv` it has checked, with numbers bounded, all that does not
quantify over functions (`Leads`, `Walk`), and `WaitsCounted`.

### Connection errors (`DriverProofs`)

For any sets of tasks, streams and handles (handles finitely many), any codes and
any bound on arrivals:

| theorem | statement |
|---|---|
| `Invariance` | `Spec => []IInv`, the inductive invariant |
| `TypeCorrect` | `Spec => []TypeOK` |
| `AllAgree` | `Spec => []Agreement` |
| `ClosedOnce` | `Spec => []ClosedOnceForFirstError` |
| `LastSender` | `Spec => []NoErrorOnlyAfterLastSender` |
| `WakeupNotLost` | if every task checks more than once per poll, `Spec => []NoLostWakeup` |
| `Refinement` | `Spec => ImplementsCell`: every behaviour of `Driver` is one of `ConnectionErrorCell` |

*Assumptions*: `ChecksAssumption`, `StartsAssumption`, `RolesAssumption`,
`ErrorsAssumption` (HTTP/3 codes and QUIC errors are different things, and the
codes the code names exist), `PartiesAssumption`, `NoneAssumption`,
`MaxArrivalsAssumption`.

*Argument.*  `Agreement` is not inductive: that nobody has reported anything
else says nothing about a task that is about to.  `IInv` adds

* `SenderInv`: `sender_count` is the number of live handles (by cardinality;
  without it the subtraction in `DropSender` would not even be type-correct);
* `PollerInv`: the task inside a poll is the one that holds the connection, and
  there is one;
* `ErrorInv`: who is about to wake, close or return has seen the recorded error;
  nothing is handled or reported before one is recorded;
* `LastInv`: once a handle has taken the count to zero, or NO_ERROR is recorded,
  no handle is left that could be used or cloned.

`WakeInv` carries the wake-up argument on top of `IInv`.  A task is *alert* when
it was notified or still has a check ahead of it in this poll.
`SomebodyListens`: as long as nothing is handled, some task is alert or
registered.  `SomebodyAlert`: once an error is recorded and no handle owes its
wake any more, some task is alert, which is what `NoLostWakeup` needs.
`RoundInv` says that a poll past its first check is registered or was notified
since; it is here that one check per poll is not enough.  The refinement maps `err` to `connection_error`, `told` to `result`
and `wire` to the first code QUIC was closed with.

### Shutdown (`ShutdownProofs`)

For any number of request streams and handles, any grace, any number of calls of
`shutdown` by either side and of dropped futures:

| theorem | statement |
|---|---|
| `Inductive` | `Spec => []IInv` |
| `NeverIdError` | `Spec => []NoIdError` |
| `GoawayBounds` | `Spec => []GoawayIsUpperBound` |
| `NoneAfterAll` | `Spec => []NoneMeansAllDone` |
| `GraceHonoured` | `Spec => []GraceHonouredWhenBusy` |

*Assumptions*: `MaxIndexAssumption`, `GraceAssumption`, `BoundsAssumption`,
`NoneAssumption`.

*Argument.*  That no endpoint refuses a GOAWAY follows from `GoawayInv`: for each
side, identifiers do not rise along the way from what the other endpoint has read,
through `wire` and `buffered`, to `sent_closing`.  A `shutdown` that recorded its
identifier and was dropped before it wrote it is why the last of these
is not simply the next.  `OrderInv` and `BoundInv` say that streams are opened and
dealt with in the order of their indices, so that `last_accepted_stream` and
`sent_closing` each separate two sets of streams; only with both is
`GoawayIsUpperBound` preserved by an acceptance.  `PartInv` ties a request to its
living halves, for the count in `NoneMeansAllDone`; `GraceInv` is the equation
between what was promised and the distance to the announced identifier, with
`Plus` saturating.

### The control stream (`ControlProofs`)

For any number of the peer's unidirectional streams and frames, in both roles:

| theorem | statement |
|---|---|
| `Inductive` | `Spec => []IInv` |
| `DriverJudgesFrames` | `Spec => []VerdictIsRFCExceptPushIds` |
| `FramesReachTheRole` | `Spec => []NoFrameLost` |

*Assumptions*: `UniAssumption`, `GoawayIdsAssumption`, `PushIdsAssumption`,
`MaxFramesAssumption`, `ConfigAssumption`, `NoneAssumption`.

*Argument.*  The verdict is defined on the whole sequence of frames; the driver has
`got_peer_settings` and `recv_closing`.  `HistoryInv` says that these are enough:
the flag is up once a frame was read, and `recv_closing` is the lowest GOAWAY of
the frames handled (`Lowest`), which lemma `DemandedNext` turns into the verdict on
the next frame.  The frame `poll_control` holds while it deals with the grease
stream is read and not handled; that it is not lost needs that no grease is sent,
which is where run **grease** finds the opposite.  `CriticalInv` says that each sorted critical
stream is the registered one.

### Sending (`TransferProofs`)

For any sizes of header, payload, trailers and grease, any window, chunk and
number of dropped futures:

| theorem | statement |
|---|---|
| `Inductive` | `Spec => []IInv` |
| `TransportNotMisused` | `Spec => []NeverMisused` |
| `OkAfterAll` | `Spec => []OkMeansWritten` |
| `Refinement` | `Spec => ImplementsByteStream` |

*Assumptions*: `SizesAssumption`, `BoundAssumption`, `CodeAssumption`,
`NoneAssumption`.

*Argument.*  `InOrder`: what QUIC has taken and what is left of `writing` are, put
together, the bytes handed over, and the payload is not touched before the header
is through.  `CallInv` says that a call only gets to its `send_data` when nothing is
left in `writing` - a dropped call leaves its rest there for the next one to write -
and `EndInv` that the end comes after the last byte.  The refinement maps
`ByteStream`'s sequence to the bytes handed over and the reader's position to what
h3-quinn's `RecvStream` has returned.

### Receiving (`FrameStreamProofs`, `RequestProofs`)

For every sequence of bytes a peer may send, every way of cutting it into chunks,
every ending, any futures dropped and a split at any time:

| theorem | statement |
|---|---|
| `WaitIsRight` | where `Frame::decode` says "incomplete", no frame can be decoded from fewer bytes than the number it gives, guess or not |
| `FramesEquation` | the reference parser satisfies the equation it is defined by |
| `Inductive` | `Spec => []IInv` |
| `OutcomeReported` | `Spec => []OutcomeIsRFCExceptSettings` |
| `BodyFaithful` | `Spec => []BodyIsFaithful` |
| `NoneTrustworthy` | `Spec => []NoneIsTrustworthy` |

*Assumptions*: `WiresAssumption` (a wire is a sequence of bytes, of any length),
`EndingsAssumption`, `RequestAssumption` (`MaxChunk` is any positive number),
`NoneAssumption`.

*Argument.*  The properties compare a decoder that sees a window of the bytes with a
parser of them all, and neither knows of the other.  `PosInv` ties them together:
the decoder stands where the reference has a frame begin, at `pos` or, inside a DATA
frame, `remaining_data` further; `Count` is how many reference frames lie before it.
`DecodedFrame`, `DecodedUnknown`, `DecodedError` and `DecodedNothing` say what the
reference has at `pos` for each result of `Frame::decode`, and `AlignedNext`,
`AlignedUnknown` and `AlignedCut` carry `PosInv` over the frame.  `DataInv`: the
body handed out is the payload of all DATA frames up to `pos`.  `PhaseInv`: the
frames passed so far are allowed, and `trailers` is the last of them.  `PollInv` is
about waiting: `expected` is a number of bytes below which nothing can be decoded
(`Hopeless`), so that at the end of the stream "not enough" means cut short.  An
outcome then is the verdict on the first frame that is not allowed (`NextIsBad`) or
on all of them (`AllRead`).  For a SETTINGS frame `DecodedError` and `DecodedFrame` say
which of the two codes it is: the decoder refuses it itself exactly if its payload does
not decode.

`FramesFrom` is recursive.  Its equation, and that frames never begin before the
position they are looked for from (`FramesAhead`), are proved by induction on the
distance to the end, with the induction stated for sets (`SetInduction`) because the
library's theorems take a predicate.

### Streams of a session (`WebTransportProofs`)

For every session id of up to four bytes, every header and data written in pieces of
any size or abandoned half-way, every stream another peer may have sent, every way of
cutting it into chunks and any mixture of reads:

| theorem | statement |
|---|---|
| `Inductive` | `Spec => []IInv` |
| `TypeCorrect` | `Spec => []TypeOK`: `BufList` is what was received and not consumed |
| `ResolvedOpened` | `Spec => []ResolvedIsOpened` |
| `ReadsExact` | `Spec => []ReadsAreExact` |
| `OnlyStaleLengths` | `Spec => []OnlyStaleLengthsFail` |
| `DatagramsKept` | `Spec => []DatagramsKeepTheirStream` |
| `DatagramRoundTrip` | `Datagram::decode` reads the stream id and the payload that `encode` was given and `copy_to_bytes` copied, wherever the payload is cut |
| `SettingsRoundTrip` | `Settings::decode` and `From<&frame::Settings>` give back every configuration whose SETTINGS can be written, with grease or without |
| `Negotiated` | `Spec => [](IsConfig(offer) => SessionIsNegotiated)` |

*Assumptions*: `WiresAssumption` and `EndingsAssumption` as above,
`SessionsAssumption` (an id is below 2^30, so that all of `FrameStream`'s integers
are numbers TLC has too), `DataAssumption`, `WebTransportAssumption`; for datagrams
`PeerDatagramsAssumption` (a datagram is bytes) and `ConnectsAssumption` (a stream id
below 2^30 too, and payloads that are `Buf`s: none of their chunks is empty, since
`Buf::chunk` returns an empty slice only when nothing is left); for SETTINGS
`OffersAssumption` (an h3 client announces some `config::Settings`: any two `u64`s
and any three flags).

*Argument.*  The properties speak of `SessionOf` and `DataStart`, which look at all of
the wire; the acceptor has looked at a part, and the wire may still grow.
`UniInv` says that `ty`, `id` and `pos` are what the bytes received so far say, and
that `expected`, once the type is known, is the type's length and not the id's: it is
from there that `OnlyStaleLengthsFail` follows and that nothing stronger does.
`BiInv` says that the frames from `pos` on are all the frames (the resolver has
passed unknown ones alone), and that none of them precedes a header of h3's own.
`OpenInv` says that a stream h3 opens begins with the header of its session, as far as
it is written, and that a stream whose opening failed lacks a part of it.
`HeaderReadBack` closes the circle: bytes that begin with such a header are read as
that type and session once it is whole, and not before; it rests on `ReadBack`, the
round trip of integers in place.  `VarGrows` and `SubSeqGrows` carry what was read over
later writes.

For datagrams `NetInv` says that everything under way is another sender's or decodes to
something that was sent; it is kept by `DatagramRoundTrip`, and next to `IInv` it is
inductive (`DInv`).  `copy_to_bytes` is a loop over the chunks of `EncodedDatagram`.
`Copied` gives its states explicitly (the header first, then one chunk after the
other, then nothing more) and shows by induction that the loop goes through them;
`FlattenJoins` does the same for `FlattenSeq`, which puts the chunks together.

For SETTINGS the loop of `decode` runs over the bytes that `encode` has put together
from the front.  `FlattenTails` puts them together from the end, so that what is left
after k rounds is the k-th tail; `EntriesRead` shows by induction that after k rounds
the first k entries are there, without the grease, and that the rounds after the last
entry change nothing.  It needs that no identifier is written twice or is a forbidden
one, and that an unknown one comes first: `FiveInserted` and `ConfigWritten` show that
of what `TryFrom<Config>` inserts.  `Negotiated` then is inductive next to `IInv`
(`KInv`): `ReceiveSettings` takes what the client has, before that `accept` knows only
the default, which has neither extension, and the resolver raises H3_SETTINGS_ERROR only
at a SETTINGS frame of another peer (`ResolverRefuses`), which stays the first frame of
its stream (`SettingsStay`).  For SETTINGS that another client has made
(`payload` in `Offers`) what they mean is given by hand, and the property remains
with TLC.

### QPACK (`QpackProofs`)

For any streams, fields, lists of fields, static tables, limits and sets of table sizes:

| theorem | statement |
|---|---|
| `Invariant` | `Spec => []Inv` |
| `TypeCorrect` | `Spec => []TypeOK` |
| `BothTablesAgree` | `Spec => []TablesAgree` |
| `WhatIsDecodedWasEncoded` | `Spec => []DecodesToOriginal`, with it that nothing fails or panics |
| `OutstandingIsTracked` | `Spec => []TracksOutstanding` |
| `WaitingIsCounted` | `Spec => []BlockedAreCounted` |
| `PrefixRoundTrip` | `HeaderPrefix::get` after `new` gives the required insert count and the base, for every table size, while the two sides are less than `max_entries` insertions apart |

*Assumptions*: `FieldsAssumption` (a field is a name and a value and takes at least the 32
bytes of overhead), `BoundsAssumption` (finitely many streams and sizes; no size of 1 to
31, where the code divides by zero), `NoFieldAssumption`.  All but the last theorem have two hypotheses.
`Careful`: the callers behave as section 5 says; run **qpack_cancel** shows one way
to lose `DecodesToOriginal` without.  `Small`: the table is never larger than 8191
bytes, 255 entries.  An increment is a `u8`, and `on_encoder_recv` fails with what it has
already applied when one batch inserts more.

*Argument.*  `Inv` describes what is on its way by where it leads.  `Leads(dec,
encoder_stream, enc)`: each instruction takes a table to one that `Follows` it (the
same entries at the same indices, except evicted ones), and the last one is the
encoder's.  `Walk(decoder_stream, ...)`: the answers take `largest_known_received` to
what the decoder has inserted, and the number of unacknowledged blocks of a stream to one
that still covers the sections to be decoded (`Settled`).  `Tally` says that `track_map`
counts the references in `track_blocks`, place by place; `Aligned` that the last of
these blocks are those of the sections; `LiveIn` that no tracked entry is evicted;
`Supported` that each section means in the encoder's table what was encoded.
This is not inductive without `AllAsked`: every insertion the decoder has not seen
is required by a section still to be decoded.  From it follows `Behind`: the encoder
evicts nothing the decoder has not inserted, so the two are less than a table
apart.  That is the hypothesis of `PrefixRoundTrip`, so that the decoder recovers the required
insert count (`NeedsIs`), and with `Follows` the fields (`SectionDecoded`).  `AllAsked`
is what a cancellation at the wrong moment breaks.  `Sizing` says that a change of size
travels alone.

`Sound` and `Written` are the invariant of the loop of `encode` over its fields,
`Took` what one field adds to it: a line that means the field, references to
live entries that are tracked from then on, instructions that lead from the
table before to the table after.

`BlockedAreCounted` needs more: `WaitsCounted` says for each r above
`largest_known_received` that the sections requiring r are no more than
`blocked_streams` counts at r.  It is kept by every step in which `Inv` holds
(`NextCounts`), and each waiting stream is one of these sections (`BlockedFollows` maps
them into the pairs that `blocked_count` counts).  A section requires one number only
(`RequiredOnce`), again because of `PrefixRoundTrip`.

Sizes and sections are recursive functions; `Recursion` gives their values step by
step, by an induction over a set (`SetInduction`) in the place of a predicate.

### Integers (`FrameStreamProofs`)

| theorem | statement |
|---|---|
| `VarIntRoundTrip` | `VarInt::decode` reads back what `encode` wrote and leaves what follows, for every value below 2^62 |
| `QuarterRoundTrip`, `ProductRoundTrip` | the id of a request stream survives the division by four in `Datagram::encode` and the product in `decode`, for every `u64`, and the product does not overflow |

### Only model-checked

Liveness (`EveryTaskReturns`, and that of the other modules), since fairness and
ENABLED are beyond the prover.  `SessionIsNegotiated` of `WebTransport` for a client
that is not h3.  `Huffman`, `FieldSection` and `Message`, which use RECURSIVE
operators over bytes and fields.

## 5. Limits

*QPACK.*  The connection uses only the stateless functions of `qpack`; the
dynamic encoder and decoder modelled in `Qpack` are complete but have no caller
outside their tests.  Their correctness rests on habits of a caller that does
not exist yet.  `Careful` states them: the table size is changed only when
nothing is in flight, sections are encoded only when the decoder has the size,
and a stream is cancelled only when the decoder has caught up.  The proofs also need
`Small`, which no run comes near: a table of at most 255 entries.  Without `Careful`
`DecodesToOriginal`, `TablesAgree` and `TypeOK` fail: both sides compute the
modulus of the insert count from their present size; a shrink with references
outstanding leaves `curr_size` above the limit; and see run qpack_cancel.  Table
sizes of 1 to 31, for which the code divides by zero, are outside the model
(`BoundsAssumption`).  `blocked_max` is checked before insertions only, so that
the number of blocked streams stays below it is neither so nor claimed.

*Request.*  Messages with an empty or truncated DATA frame are left out of
`OutcomeIsRFCExceptSettings`, and only of it; `NoneIsTrustworthy` and run empty_data
say what happens to them.  A SETTINGS frame that does not decode has the code of its
payload's error (section 3).  A frame whose payload ends within its integer is waited for as if
it were incomplete, and is H3_FRAME_ERROR only once the stream ends.  The 431 response to a request whose header is too large is
taken to be sent; what it says and whether it fits is in `Message`.

*Message.*  Some things are as the code has them, and the properties say so where
they bear on them.  `send_request` answers a bad authority by closing the
connection with H3_INTERNAL_ERROR.  A Host field that is no authority passes the
sender and is refused by the server.  The receiver does not ask that a pseudo-header
occurs once (the last one counts) or Host does (the first is compared with
`:authority`, the others not at all), that a
pseudo-header belongs to this kind of message, or is absent
from trailers, nor that only CONNECT goes without scheme and path.  A Huffman code
cut by the end of its string is let pass.

*WebTransport.*  `h3-webtransport` has a server only: the model pairs the crate's own
opener with its own acceptor, and adds foreign streams.  As the code has it: a
header that is complete may wait for more data, because `poll_next_varint` polls the
stream before it looks at what is buffered; after a type of two bytes an id of
one is waited for as if it had two, or dropped at the end of the stream; an id longer
than its type that is cut in its middle is H3_INTERNAL_ERROR for the whole
connection; a CONNECT that is not for WebTransport is answered 400 and yields a
session all the same; a SETTINGS frame that does not decode at the head of a
bidirectional stream is H3_SETTINGS_ERROR for the connection, and `SessionIsNegotiated`
excepts it.  `OnlyStaleLengthsFail` shows that a header is lost or
refused for no reason but these lengths.  One stream is followed at a time: that
`AcceptUni` takes the newest stream first, and neither it nor the
`DatagramReader` looks at the session, cannot be seen.
A datagram too large, or datagrams not supported, change no state.

*Transfer.*  What happens to a stream that is dropped, and to `poll_send`, is
left to quinn and to WebTransport.  `finish()` clears `send_grease_frame` only
after the grease frame is written: a caller who drops and repeats it sends more
than one, which the model allows.

*Shutdown.*  The announced identifier is the last request the server processes,
where RFC 9114, 5.2 counts it among the rejected ones; `GoawayIsUpperBound` says
what the code does (nothing *above* it is processed).

*Driver.*  With two tasks on one connection `NoLostWakeup` speaks of some task, and
`EveryTaskReturns` of every task but a replaced one: in the code nothing wakes that one.
What else could wake it (data on a stream of its own) is `Arrival`, which nobody owes.

*Control.*  No push is ever promised or allowed by h3, so `PushIdWrong` takes every
CANCEL_PUSH to be wrong; its id is not kept.

*Not modelled.*

* several streams of one session at a time, and several sessions;
* opening streams in `h3-quinn`, which forwards to quinn and is one step where it is
  used; accepting them is modelled for its wakers, in `Driver`;
* the bytes of GOAWAY, CANCEL_PUSH and MAX_PUSH_ID on a control stream: `Control`
  takes frames whole, and a payload longer or shorter than its integer is outside it;
* push: h3 implements neither side of it, beyond the refusals in `Control`;
* the encodings of QPACK's encoder and decoder instructions: `Qpack` passes them whole
  (its sections use the same representations as `FieldSection`);
* error types, `quic.rs`: data and interfaces.  The builders' setters: one
  assignment each;
* examples, fuzz targets and compliance tooling.

## 6. Plan

Done, in this order: connection errors, shutdown, control
stream, request streams, QPACK, sending, header sections, WebTransport with
settings and datagrams; then the proofs of section 4.

Next modules:

1. `ControlPayload`: GOAWAY, CANCEL_PUSH and MAX_PUSH_ID by bytes on the control
   stream; a payload longer or shorter than its integer.
2. several WebTransport streams and sessions on top of `Control`'s queue.

Next theorems: `QpackProofs` without `Small`, for which `on_encoder_recv` would have
to report the insertions it applied before it failed; what of
`Qpack` survives without `Careful`.
