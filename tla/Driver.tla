------------------------------- MODULE Driver -------------------------------
(***************************************************************************)
(* How a connection error travels in h3.                                   *)
(*                                                                         *)
(* Request streams and SendRequest handles run on any thread and share     *)
(* with the connection only SharedState: a OnceLock holding the first      *)
(* connection error and one AtomicWaker.  Only the task that polls the     *)
(* Connection (server accept, client poll_close, WebTransport accept) can  *)
(* close QUIC.  The model has one step per access to shared memory, so the *)
(* streams' "set, then wake" and the driver's "check, then register"       *)
(* interleave as they can on several threads.                              *)
(***************************************************************************)
EXTENDS Integers, Sequences, FiniteSets

CONSTANTS
  Tasks,        \* tasks that poll the connection, one at a time
  Starts,       \* sets of tasks that may be waiting on it from the start (more
                \* than one only where a server's WebTransportSession shares it)
  Checks,       \* Checks[t]: calls of poll_connection_error in one poll by t
  Streams,      \* request streams
  Senders,      \* SendRequest handles (client)
  FirstSender,  \* the handle the client builder returns
  Codes,        \* HTTP/3 error codes an InternalConnectionError can carry
  QuicErrors,   \* variants of ConnectionErrorIncoming
  Roles,        \* the kinds of endpoint to explore
  MaxArrivals,  \* bound: control frames, wake-ups by data, calls after an error
  None

Handles == Streams \cup Senders
Errors == Codes \cup QuicErrors

ASSUME ChecksAssumption == Checks \in [Tasks -> Nat \ {0}]
ASSUME StartsAssumption == Starts \subseteq SUBSET Tasks /\ {} \notin Starts
ASSUME RolesAssumption == Roles \subseteq {"client", "server"}
ASSUME ErrorsAssumption ==
  /\ Codes \cap QuicErrors = {}
  /\ {"H3_NO_ERROR", "H3_INTERNAL_ERROR"} \subseteq Codes
  /\ {"Timeout", "InternalError", "Undefined"} \subseteq QuicErrors
ASSUME PartiesAssumption ==
  /\ FirstSender \in Senders
  /\ IsFiniteSet(Senders)
  /\ Streams \cap Senders = {}
  /\ Tasks \cap (Streams \cup Senders) = {}
ASSUME NoneAssumption ==
  /\ None \notin Codes \cup QuicErrors \cup Tasks
  /\ \A c \in {"Local", "Timeout", "Remote"} : \A e \in Codes \cup QuicErrors : None # <<c, e>>
ASSUME MaxArrivalsAssumption == MaxArrivals \in Nat

VARIABLES
  role,              \* "client" or "server"
  connection_error,  \* SharedState.connection_error
  waker,             \* SharedState.waker: the task registered last, if any
  handled,           \* ConnectionInner.handled_connection_error
  dropped,           \* the Connection was dropped
  pc, round, awake,  \* per task: where it is, which check, notified or not
  poller,            \* the task that holds the connection
  incoming,          \* h3-quinn's accept futures: per direction, the task that
                     \* polled it last and whose waker it keeps
  hpc, raising,      \* per handle: where it is, and what set_conn_error returned
  sender_count,      \* SendRequest.sender_count
  result,            \* what each task and handle has returned to its user
  quic,              \* None while QUIC is alive, else the error it reports
  closes,            \* the codes passed to quic::Connection::close, in order
  arrivals

vars == <<role, connection_error, waker, handled, dropped, pc, round, awake,
          poller, incoming, hpc, raising, sender_count, result, quic, closes, arrivals>>

shared == <<connection_error, waker>>
tasks  == <<pc, round, poller, incoming>>
handles == <<hpc, raising, sender_count>>

(***************************************************************************)
(* Pure parts of connection_error_creators.rs.                             *)
(***************************************************************************)

(* The user-facing ConnectionError: Local with a code, Timeout, or Remote. *)
convert_to_connection_error(e) ==
  <<IF e \in Codes THEN "Local" ELSE IF e = "Timeout" THEN "Timeout" ELSE "Remote", e>>

(* The close calls an error needs: none when QUIC itself reported the end. *)
close_if_needed(e) ==
  IF e \in Codes THEN <<e>>
  ELSE IF e = "InternalError" THEN <<"H3_INTERNAL_ERROR">> ELSE <<>>

(* Deliberate bug: a plain store in place of get_or_init.                  *)
set_conn_error_Last(e) == e

(* OnceLock::get_or_init: the value after the call, which it also returns. *)
set_conn_error(e) == IF connection_error = None THEN e ELSE connection_error

(* A local close makes QUIC report Undefined(LocallyClosed) from then on.  *)
QuicAfter(calls) == IF quic = None /\ calls # <<>> THEN "Undefined" ELSE quic

-----------------------------------------------------------------------------
Init ==
  /\ role \in Roles
  /\ connection_error = None
  /\ waker = None
  /\ handled = None
  /\ dropped = FALSE
  /\ \E start \in Starts :
       /\ role = "client" => \A t, u \in start : t = u
       /\ pc = [t \in Tasks |-> IF t \in start THEN "idle" ELSE "new"]
  /\ round = [t \in Tasks |-> 0]
  /\ awake = [t \in Tasks |-> TRUE]
  /\ poller = None
  /\ incoming = [d \in {"uni", "bi"} |-> None]
  /\ hpc = [h \in Handles |->
              IF h \in Streams \/ (h = FirstSender /\ role = "client")
              THEN "live" ELSE "unborn"]
  /\ raising = [h \in Handles |-> None]
  /\ sender_count = IF role = "client" THEN 1 ELSE 0
  /\ result = [p \in Tasks \cup Handles |-> None]
  /\ quic = None
  /\ closes = <<>>
  /\ arrivals = 0

(***************************************************************************)
(* Streams and SendRequest handles.                                        *)
(***************************************************************************)

(* set_conn_error_and_wake, first half: get_or_init on the OnceLock, whose *)
(* answer the handle keeps.                                                *)
RecordError(h, e) ==
  /\ connection_error' = set_conn_error(e)
  /\ raising' = [raising EXCEPT ![h] = set_conn_error(e)]
  /\ UNCHANGED <<role, waker, handled, dropped, tasks, awake, sender_count,
                 result, quic, closes, arrivals>>

(* handle_connection_error_on_stream: a protocol violation found on a      *)
(* stream, or a request that cannot be built.                              *)
RaiseOnStream(h, e) ==
  /\ hpc[h] = "live"
  /\ hpc' = [hpc EXCEPT ![h] = "wake"]
  /\ RecordError(h, e)

(* handle_quic_stream_error: an operation on the stream, or opening one,   *)
(* fails because the QUIC connection is gone.                              *)
SeeQuicError(h) ==
  /\ hpc[h] = "live"
  /\ quic # None
  /\ hpc' = [hpc EXCEPT ![h] = "wake"]
  /\ RecordError(h, quic)

(* Second half: AtomicWaker::wake takes the registered task out of its     *)
(* slot and notifies it; then the error returned by the OnceLock is handed *)
(* to the user (the drop of a SendRequest has nobody to hand it to).       *)
WakeConnection(h) ==
  /\ hpc[h] \in {"wake", "dropwake"}
  /\ awake' = [t \in Tasks |-> awake[t] \/ waker = t]
  /\ waker' = None
  /\ hpc' = [hpc EXCEPT ![h] = IF hpc[h] = "wake" THEN "failed" ELSE "gone"]
  /\ result' = IF hpc[h] = "wake"
               THEN [result EXCEPT ![h] = convert_to_connection_error(raising[h])]
               ELSE result
  /\ UNCHANGED <<role, connection_error, handled, dropped, tasks, raising,
                 sender_count, quic, closes, arrivals>>

(* Deliberate bug: a derived Clone, which does not count.                  *)
CloneSender_Uncounted(a, b) ==
  /\ hpc[a] \in {"live", "failed"}
  /\ hpc[b] = "unborn"
  /\ hpc' = [hpc EXCEPT ![b] = "live"]
  /\ UNCHANGED <<role, shared, handled, dropped, tasks, awake, raising, sender_count,
                 result, quic, closes, arrivals>>

(* SendRequest::clone.                                                     *)
CloneSender(a, b) ==
  /\ hpc[a] \in {"live", "failed"}
  /\ hpc[b] = "unborn"
  /\ sender_count' = sender_count + 1
  /\ hpc' = [hpc EXCEPT ![b] = "live"]
  /\ UNCHANGED <<role, shared, handled, dropped, tasks, awake, raising,
                 result, quic, closes, arrivals>>

(* Deliberate bug: fetch_sub's answer is taken for the count that is left. *)
DropSender_Early(a) ==
  /\ hpc[a] \in {"live", "failed"}
  /\ sender_count' = sender_count - 1
  /\ hpc' = [hpc EXCEPT ![a] = IF sender_count <= 2 THEN "dropset" ELSE "gone"]
  /\ UNCHANGED <<role, shared, handled, dropped, tasks, awake, raising, result,
                 quic, closes, arrivals>>

(* SendRequest::drop: whoever takes the count from one to zero ...         *)
DropSender(a) ==
  /\ hpc[a] \in {"live", "failed"}
  /\ sender_count' = sender_count - 1
  /\ hpc' = [hpc EXCEPT ![a] = IF sender_count = 1 THEN "dropset" ELSE "gone"]
  /\ UNCHANGED <<role, shared, handled, dropped, tasks, awake, raising, result,
                 quic, closes, arrivals>>

(* ... ends the connection with NO_ERROR.                                  *)
LastSenderGone(a) ==
  /\ hpc[a] = "dropset"
  /\ hpc' = [hpc EXCEPT ![a] = "dropwake"]
  /\ RecordError(a, "H3_NO_ERROR")

HandleNext ==
  \/ \E h \in Handles : WakeConnection(h) \/ SeeQuicError(h)
  \/ \E h \in Handles, e \in Codes \ {"H3_NO_ERROR"} : RaiseOnStream(h, e)
  \/ \E a, b \in Senders : CloneSender(a, b)
  \/ \E a \in Senders : DropSender(a) \/ LastSenderGone(a)

(***************************************************************************)
(* The tasks that drive the connection.  A poll runs to its end without    *)
(* yielding and under exclusive access (&mut self, or the Mutex of a       *)
(* WebTransportSession), but other threads run between any two of its      *)
(* steps.  A server accept() or client poll_close() calls                  *)
(* poll_connection_error in poll_control, poll_accept_recv and             *)
(* poll_accept_bi, and from the second call on polls QUIC after it: for    *)
(* unidirectional streams first, with the control stream, and for          *)
(* bidirectional ones at the end.  AcceptUni::poll makes one check and     *)
(* polls for unidirectional streams alone.                                 *)
(***************************************************************************)
PollsQuic(t) == round[t] > 1 \/ Checks[t] = 1
Direction(t) == IF round[t] = Checks[t] /\ Checks[t] > 1 THEN "bi" ELSE "uni"

(* The tasks that the end of the QUIC connection wakes.  A connection has  *)
(* one accept future per direction, which keeps the waker of its last      *)
(* poll.  (The control stream and the streams without a header yet hold    *)
(* wakers too, of the same tasks: they are polled after the "uni" future   *)
(* and before the "bi" one.)                                               *)
Woken == {incoming["uni"], incoming["bi"]}

BeginPoll(t) ==
  /\ poller = None
  /\ ~dropped
  /\ poller' = t
  /\ pc' = [pc EXCEPT ![t] = "check"]
  /\ round' = [round EXCEPT ![t] = 1]
  /\ awake' = [awake EXCEPT ![t] = FALSE]
  /\ UNCHANGED <<role, shared, handled, dropped, incoming, handles, result, quic, closes>>

(* The executor polls a task that was notified.                            *)
StartPoll(t) ==
  /\ pc[t] = "idle"
  /\ awake[t]
  /\ BeginPoll(t)
  /\ UNCHANGED arrivals

(* A user who has been given an error calls again.                         *)
PollAgain(t) ==
  /\ pc[t] = "done"
  /\ arrivals < MaxArrivals
  /\ arrivals' = arrivals + 1
  /\ BeginPoll(t)

(* The poll of t returns a connection error to the user.                   *)
ReturnError(t, err) ==
  /\ result' = [result EXCEPT ![t] = err]
  /\ pc' = [pc EXCEPT ![t] = "done"]
  /\ round' = [round EXCEPT ![t] = 0]
  /\ poller' = None

(* Where an error found by poll_connection_error in poll_accept_bi ends:   *)
(* the client's poll_close sees a ready poll and reports a server-initiated *)
(* stream, which must not replace the error found.                         *)
ClientAcceptBi(t) == role = "client" /\ round[t] = Checks[t]

(* close_if_needed and convert_to_connection_error: the driver closes QUIC *)
(* if the error needs it and remembers the error.  Closing a connection    *)
(* that was alive wakes the tasks whose wakers QUIC keeps, and no other.   *)
CloseAndRemember(e) ==
  /\ closes' = closes \o close_if_needed(e)
  /\ quic' = QuicAfter(close_if_needed(e))
  /\ awake' = [t \in Tasks |->
                 awake[t] \/ (quic = None /\ close_if_needed(e) # <<>> /\ t \in Woken)]
  /\ handled' = convert_to_connection_error(e)

(* poll_connection_error with an error already handled by the driver.      *)
CheckHandled(t) ==
  /\ pc[t] = "check"
  /\ handled # None
  /\ ReturnError(t, handled)
  /\ UNCHANGED <<role, shared, handled, dropped, awake, incoming, handles, quic,
                 closes, arrivals>>

(* poll_connection_error finds the error a stream has left.                *)
CheckFindsError(t) ==
  /\ pc[t] = "check"
  /\ handled = None
  /\ connection_error # None
  /\ CloseAndRemember(connection_error)
  /\ IF ClientAcceptBi(t)
     THEN pc' = [pc EXCEPT ![t] = "again"] /\ UNCHANGED <<result, round, poller>>
     ELSE ReturnError(t, convert_to_connection_error(connection_error))
  /\ UNCHANGED <<role, shared, dropped, incoming, handles, arrivals>>

(* poll_connection_error finds no error; it has yet to register its waker. *)
CheckFindsNone(t) ==
  /\ pc[t] = "check"
  /\ handled = None
  /\ connection_error = None
  /\ pc' = [pc EXCEPT ![t] = "register"]
  /\ UNCHANGED <<role, shared, handled, dropped, round, poller, incoming, awake,
                 handles, result, quic, closes, arrivals>>

(* Deliberate bug: pending without having registered the waker.            *)
RegisterWaker_Forgotten(t) ==
  /\ pc[t] = "register"
  /\ pc' = [pc EXCEPT ![t] = "work"]
  /\ UNCHANGED <<role, shared, handled, dropped, round, poller, incoming, awake,
                 handles, result, quic, closes, arrivals>>

(* AtomicWaker::register; the slot holds one task.                         *)
RegisterWaker(t) ==
  /\ pc[t] = "register"
  /\ waker' = t
  /\ pc' = [pc EXCEPT ![t] = "work"]
  /\ UNCHANGED <<role, connection_error, handled, dropped, round, poller, incoming,
                 awake, handles, result, quic, closes, arrivals>>

(* Deliberate bug: the pending accept future is dropped, and with it the   *)
(* waker it has kept.                                                      *)
PollIncoming_NotKept(t) ==
  /\ pc[t] = "work"
  /\ PollsQuic(t)
  /\ quic = None
  /\ pc' = [pc EXCEPT ![t] = "polled"]
  /\ UNCHANGED <<role, shared, handled, dropped, round, poller, incoming, awake,
                 handles, result, quic, closes, arrivals>>

(* The accept future of this round is pending and keeps the waker of t in  *)
(* place of the one it had.                                                *)
PollIncoming(t) ==
  /\ pc[t] = "work"
  /\ PollsQuic(t)
  /\ quic = None
  /\ incoming' = [incoming EXCEPT ![Direction(t)] = t]
  /\ pc' = [pc EXCEPT ![t] = "polled"]
  /\ UNCHANGED <<role, shared, handled, dropped, round, poller, awake, handles,
                 result, quic, closes, arrivals>>

(* Nothing is left to do in this round.                                    *)
RoundOver(t) == pc[t] = (IF PollsQuic(t) THEN "polled" ELSE "work")

(* On to the next poll_connection_error of the same poll.                  *)
NextCheck(t) ==
  /\ RoundOver(t)
  /\ round[t] < Checks[t]
  /\ round' = [round EXCEPT ![t] = @ + 1]
  /\ pc' = [pc EXCEPT ![t] = "check"]
  /\ UNCHANGED <<role, shared, handled, dropped, poller, incoming, awake, handles,
                 result, quic, closes, arrivals>>

(* A control frame was read: poll_control starts over.                     *)
NextFrame(t) ==
  /\ pc[t] = "polled"
  /\ round[t] < Checks[t]
  /\ arrivals < MaxArrivals
  /\ arrivals' = arrivals + 1
  /\ round' = [round EXCEPT ![t] = 1]
  /\ pc' = [pc EXCEPT ![t] = "check"]
  /\ UNCHANGED <<role, shared, handled, dropped, poller, incoming, awake, handles,
                 result, quic, closes>>

(* Nothing left to do: Poll::Pending.                                      *)
EndPoll(t) ==
  /\ RoundOver(t)
  /\ round[t] = Checks[t]
  /\ pc' = [pc EXCEPT ![t] = "idle"]
  /\ round' = [round EXCEPT ![t] = 0]
  /\ poller' = None
  /\ UNCHANGED <<role, shared, handled, dropped, incoming, awake, handles,
                 result, quic, closes, arrivals>>

(* handle_connection_error, first half, on an error the driver found: the  *)
(* error an accept future or a unidirectional stream reports, a violation  *)
(* on such a stream, or a bidirectional stream opened by a server.         *)
DriverError(t, e) ==
  /\ handled = None
  /\ LET violation == e \in Codes \ {"H3_NO_ERROR"}
         ended == quic # None /\ e = quic
     IN \/ /\ pc[t] = "work" /\ PollsQuic(t)
           /\ ended \/ (violation /\ role = "client" /\ Direction(t) = "bi")
        \/ /\ pc[t] = "polled" /\ Direction(t) = "uni"
           /\ ended \/ violation
  /\ connection_error' = set_conn_error(e)
  /\ pc' = [pc EXCEPT ![t] = "close"]
  /\ UNCHANGED <<role, waker, handled, dropped, round, poller, incoming, awake,
                 handles, result, quic, closes, arrivals>>

(* handle_connection_error, second half, on the error that won.            *)
DriverClose(t) ==
  /\ pc[t] = "close"
  /\ CloseAndRemember(connection_error)
  /\ ReturnError(t, convert_to_connection_error(connection_error))
  /\ UNCHANGED <<role, shared, dropped, incoming, handles, arrivals>>

(* Deliberate bug: no early return for an error that was handled.          *)
HandleAgain_Closes(t) ==
  /\ pc[t] = "again"
  /\ CloseAndRemember(connection_error)
  /\ ReturnError(t, convert_to_connection_error(connection_error))
  /\ UNCHANGED <<role, shared, dropped, incoming, handles, arrivals>>

(* handle_connection_error once more, for an error that was handled: the   *)
(* early return that gives back the first one.                             *)
HandleAgain(t) ==
  /\ pc[t] = "again"
  /\ ReturnError(t, handled)
  /\ UNCHANGED <<role, shared, handled, dropped, awake, incoming, handles, quic,
                 closes, arrivals>>

(* The user drops a waiting future (a select! branch lost, the connection  *)
(* handed to another task) and polls the connection from task u instead.   *)
MoveOn(t, u) ==
  /\ pc[t] = "idle"
  /\ pc[u] = "new"
  /\ pc' = [pc EXCEPT ![t] = "retired", ![u] = "idle"]
  /\ UNCHANGED <<role, shared, handled, dropped, round, poller, incoming, awake,
                 handles, result, quic, closes, arrivals>>

(* The user drops the Connection: the server's Drop closes QUIC.           *)
DropConnection ==
  /\ poller = None
  /\ ~dropped
  /\ dropped' = TRUE
  /\ LET calls == IF role = "server" THEN <<"H3_NO_ERROR">> ELSE <<>>
     IN closes' = closes \o calls /\ quic' = QuicAfter(calls)
  /\ UNCHANGED <<role, shared, handled, tasks, awake, handles, result, arrivals>>

(* QUIC (external) ends on its own and wakes the tasks whose wakers it     *)
(* keeps.                                                                  *)
QuicEnds(e) ==
  /\ quic = None
  /\ quic' = e
  /\ awake' = [t \in Tasks |-> awake[t] \/ t \in Woken]
  /\ UNCHANGED <<role, shared, handled, dropped, tasks, handles, result,
                 closes, arrivals>>

(* A task that waits or polls is notified for a reason of its own: data    *)
(* that arrived, a request that ended, another future of the same task.    *)
Arrival(t) ==
  /\ ~awake[t]
  /\ pc[t] \notin {"done", "retired"}
  /\ arrivals < MaxArrivals
  /\ arrivals' = arrivals + 1
  /\ awake' = [awake EXCEPT ![t] = TRUE]
  /\ UNCHANGED <<role, shared, handled, dropped, tasks, handles, result, quic,
                 closes>>

TaskStep(t) ==
  \/ CheckHandled(t) \/ CheckFindsError(t) \/ CheckFindsNone(t)
  \/ RegisterWaker(t) \/ PollIncoming(t) \/ NextCheck(t) \/ EndPoll(t)
  \/ DriverClose(t) \/ HandleAgain(t)

Next ==
  \/ HandleNext
  \/ \E t \in Tasks : StartPoll(t) \/ TaskStep(t)
  \/ \E t \in Tasks, e \in Errors : DriverError(t, e)
  \/ \E t \in Tasks : NextFrame(t) \/ Arrival(t) \/ PollAgain(t)
  \/ \E t, u \in Tasks : MoveOn(t, u)
  \/ DropConnection
  \/ \E e \in QuicErrors : QuicEnds(e)

(* Threads that have begun a call finish it, and executors poll the tasks  *)
(* they were told to wake.  Users, peers and QUIC owe nothing.             *)
Fairness ==
  /\ \A t \in Tasks : WF_vars(StartPoll(t))
  /\ \A t \in Tasks : WF_vars(TaskStep(t) \/ \E e \in Errors : DriverError(t, e))
  /\ \A h \in Handles : WF_vars(WakeConnection(h))

Spec == Init /\ [][Next]_vars
FairSpec == Spec /\ Fairness

-----------------------------------------------------------------------------
(***************************************************************************)
(* Properties.                                                             *)
(***************************************************************************)

Reports == {convert_to_connection_error(e) : e \in Errors}
TaskStates == {"new", "idle", "check", "register", "work", "polled", "close", "again",
               "done", "retired"}

TypeOK ==
  /\ role \in Roles
  /\ connection_error \in Errors \cup {None}
  /\ waker \in Tasks \cup {None}
  /\ handled \in Reports \cup {None}
  /\ dropped \in BOOLEAN
  /\ pc \in [Tasks -> TaskStates]
  /\ round \in [Tasks -> Nat]
  /\ awake \in [Tasks -> BOOLEAN]
  /\ poller \in Tasks \cup {None}
  /\ incoming \in [{"uni", "bi"} -> Tasks \cup {None}]
  /\ hpc \in [Handles -> {"unborn", "live", "wake", "failed",
                          "dropset", "dropwake", "gone"}]
  /\ raising \in [Handles -> Errors \cup {None}]
  /\ sender_count \in Nat
  /\ result \in [Tasks \cup Handles -> Reports \cup {None}]
  /\ quic \in QuicErrors \cup {None}
  /\ closes \in Seq(Codes)
  /\ arrivals \in 0..MaxArrivals

(* Every driver task, stream and SendRequest that has returned a connection *)
(* error has returned the same one, the first that was recorded, whatever  *)
(* each of them met itself (set_conn_error and the two early returns on    *)
(* handled_connection_error).                                              *)
Agreement ==
  /\ \A p \in Tasks \cup Handles :
       result[p] # None => result[p] = convert_to_connection_error(connection_error)
  /\ handled # None => handled = convert_to_connection_error(connection_error)

(* QUIC is closed exactly once for an error, when the driver handles it,   *)
(* with the code of the first error even if another was met in between, and *)
(* not at all when QUIC itself ended; the only other close is the server's *)
(* Drop, after it.                                                         *)
ClosedOnceForFirstError ==
  closes = (IF handled = None THEN <<>> ELSE close_if_needed(connection_error))
           \o (IF dropped /\ role = "server" THEN <<"H3_NO_ERROR">> ELSE <<>>)

(* A connection is ended with NO_ERROR on behalf of its SendRequest handles *)
(* only when none is left: a clone that races with the drop of another     *)
(* handle keeps it open (sender_count).                                    *)
NoErrorOnlyAfterLastSender ==
  (\E h \in Senders : hpc[h] \in {"dropset", "dropwake"}) \/ connection_error = "H3_NO_ERROR"
    => \A h \in Senders : hpc[h] \in {"unborn", "gone", "dropset", "dropwake"}

(* An error that was recorded and whose recorder has finished its wake call *)
(* is never left with every driver task asleep: the check-then-register of *)
(* poll_connection_error loses no wake-up.                                 *)
Asleep(t) == pc[t] \in {"new", "retired"} \/ (pc[t] = "idle" /\ ~awake[t])
NoLostWakeup ==
  /\ connection_error # None
  /\ handled = None
  /\ ~dropped
  /\ \A h \in Handles : hpc[h] \notin {"wake", "dropwake"}
  => \E t \in Tasks : ~Asleep(t)

(* A task that waits on a connection another task has polled since: it     *)
(* sleeps, and neither accept future has kept its waker.                   *)
Replaced(t) ==
  /\ pc[t] = "idle"
  /\ ~awake[t]
  /\ t \notin Woken
  /\ Woken \ {None} # {}

(* The end of the QUIC connection and an error a stream has recorded reach *)
(* the driver, and every task that waits on the connection returns the     *)
(* error, also one that was not in the AtomicWaker's only slot when the    *)
(* stream woke it.  What wakes such a task is the close, through an accept *)
(* future that has kept its waker; a task that has lost those to a task    *)
(* sharing its WebTransportSession may sleep for ever, and no other may.   *)
EveryTaskReturns ==
  /\ connection_error # None \/ quic # None ~> handled # None \/ dropped
  /\ \A t \in Tasks :
       handled # None ~>
         result[t] # None \/ dropped \/ pc[t] \in {"new", "retired"} \/ Replaced(t)

close_code(e) == IF close_if_needed(e) = <<>> THEN None ELSE close_if_needed(e)[1]

(* The connection error is one shared decision: Driver implements          *)
(* ConnectionErrorCell.                                                    *)
Cell == INSTANCE ConnectionErrorCell
          WITH Parties <- Tasks \cup Handles,
               Errors <- Errors,
               Report <- convert_to_connection_error,
               CloseWith <- close_code,
               DropCode <- "H3_NO_ERROR",
               err <- connection_error,
               told <- result,
               wire <- IF closes = <<>> THEN None ELSE closes[1]
ImplementsCell == Cell!Spec
=============================================================================
