---------------------------- MODULE DriverProofs ----------------------------
(***************************************************************************)
(* Proofs about module Driver, for any number of tasks, streams and        *)
(* SendRequest handles and any set of error codes.                         *)
(***************************************************************************)
EXTENDS Driver, TLAPS, FiniteSetTheorems, SequenceTheorems

(***************************************************************************)
(* The pure helpers.                                                       *)
(***************************************************************************)

(* The user-facing error is never mistaken for "no error yet".             *)
LEMMA ConvertNotNone == \A e \in Errors : convert_to_connection_error(e) # None
BY NoneAssumption DEF Errors, convert_to_connection_error

(* What close_if_needed passes to QUIC are HTTP/3 codes.                   *)
LEMMA CloseIsCodes == \A e \in Errors : close_if_needed(e) \in Seq(Codes)
BY ErrorsAssumption DEF Errors, close_if_needed

(* get_or_init yields an error, and the one recorded first.                *)
LEMMA SetConnErrorType ==
  ASSUME connection_error \in Errors \cup {None}, NEW e \in Errors
  PROVE  /\ set_conn_error(e) \in Errors
         /\ connection_error # None => set_conn_error(e) = connection_error
BY DEF set_conn_error

(***************************************************************************)
(* Type correctness.                                                       *)
(***************************************************************************)

(* A connection just built is type-correct.                                *)
LEMMA InitType == Init => TypeOK
<1> SUFFICES ASSUME Init PROVE TypeOK OBVIOUS
<1>1. /\ role \in Roles /\ connection_error \in Errors \cup {None}
      /\ waker \in Tasks \cup {None} /\ dropped \in BOOLEAN
      /\ handled \in Reports \cup {None}
  BY DEF Init, Reports
<1>2. pc \in [Tasks -> TaskStates]
  BY DEF Init, TaskStates
<1>3. /\ round \in [Tasks -> Nat] /\ awake \in [Tasks -> BOOLEAN]
      /\ poller \in Tasks \cup {None} /\ incoming \in [{"uni", "bi"} -> Tasks \cup {None}]
  BY DEF Init
<1>4. /\ hpc \in [Handles -> {"unborn", "live", "wake", "failed",
                             "dropset", "dropwake", "gone"}]
      /\ raising \in [Handles -> Errors \cup {None}]
      /\ sender_count \in Nat
  BY DEF Init
<1>5. result \in [Tasks \cup Handles -> Reports \cup {None}]
  BY DEF Init
<1>6. /\ quic \in QuicErrors \cup {None} /\ closes \in Seq(Codes)
      /\ arrivals \in 0 .. MaxArrivals
  BY MaxArrivalsAssumption DEF Init
<1> QED BY <1>1, <1>2, <1>3, <1>4, <1>5, <1>6 DEF TypeOK

(***************************************************************************)
(* sender_count counts the SendRequest handles that have not been dropped. *)
(* The subtraction in DropSender keeps it a natural number only because of *)
(* this, so it comes before type correctness.                              *)
(***************************************************************************)
LiveSenders == {h \in Senders : hpc[h] \in {"live", "failed", "wake"}}
SenderInv == sender_count = Cardinality(LiveSenders)

(* The live handles are a finite set, so that they can be counted.         *)
LEMMA LiveFinite ==
  IsFiniteSet(LiveSenders) /\ Cardinality(LiveSenders) \in Nat
  /\ (Cardinality(LiveSenders) = 0 <=> LiveSenders = {})
<1>1. LiveSenders \subseteq Senders BY DEF LiveSenders
<1>2. IsFiniteSet(LiveSenders) BY <1>1, PartiesAssumption, FS_Subset
<1> QED BY <1>2, FS_CardinalityType, FS_EmptySet

(* Builder::build hands out one SendRequest and counts one.                *)
LEMMA InitSenders == Init => SenderInv
<1> SUFFICES ASSUME Init PROVE SenderInv OBVIOUS
<1> USE PartiesAssumption
<1>1. CASE role = "client"
  <2>1. LiveSenders = {FirstSender} BY <1>1 DEF LiveSenders, Init, Handles
  <2> QED BY <2>1, <1>1, FS_Singleton DEF SenderInv, Init
<1>2. CASE role # "client"
  <2>1. LiveSenders = {} BY <1>2 DEF LiveSenders, Init, Handles
  <2> QED BY <2>1, <1>2, FS_EmptySet DEF SenderInv, Init
<1> QED BY <1>1, <1>2

(* What one step can do to the set of live handles: nothing, unless it     *)
(* clones or drops one.                                                    *)
LEMMA NextSenders ==
  ASSUME TypeOK, SenderInv, [Next]_vars
  PROVE  SenderInv'
<1> USE PartiesAssumption
<1>1. ASSUME UNCHANGED sender_count, LiveSenders' = LiveSenders PROVE SenderInv'
  BY <1>1 DEF SenderInv
<1>2. ASSUME UNCHANGED <<hpc, sender_count>> PROVE SenderInv'
  BY <1>1, <1>2 DEF LiveSenders
<1>3. ASSUME NEW h \in Handles, WakeConnection(h) PROVE SenderInv'
  <2>1. LiveSenders' = LiveSenders
    BY <1>3 DEF WakeConnection, LiveSenders, Handles, TypeOK
  <2> QED BY <1>1, <1>3, <2>1 DEF WakeConnection
<1>4. ASSUME NEW h \in Handles,
             SeeQuicError(h) \/ \E e \in Codes : RaiseOnStream(h, e)
      PROVE SenderInv'
  <2>1. LiveSenders' = LiveSenders
    BY <1>4 DEF SeeQuicError, RaiseOnStream, LiveSenders, Handles, TypeOK
  <2> QED BY <1>1, <1>4, <2>1 DEF SeeQuicError, RaiseOnStream, RecordError
<1>5. ASSUME NEW a \in Senders, NEW b \in Senders, CloneSender(a, b) PROVE SenderInv'
  <2>1. LiveSenders' = LiveSenders \cup {b} /\ b \notin LiveSenders
    BY <1>5 DEF CloneSender, LiveSenders, Handles, TypeOK
  <2>2. Cardinality(LiveSenders') = Cardinality(LiveSenders) + 1
    BY <2>1, LiveFinite, FS_AddElement
  <2> QED BY <2>2, <1>5 DEF SenderInv, CloneSender
<1>6. ASSUME NEW a \in Senders, DropSender(a) PROVE SenderInv'
  <2>1. LiveSenders' = LiveSenders \ {a} /\ a \in LiveSenders
    BY <1>6 DEF DropSender, LiveSenders, Handles, TypeOK
  <2>2. Cardinality(LiveSenders') = Cardinality(LiveSenders) - 1
    BY <2>1, LiveFinite, FS_RemoveElement
  <2> QED BY <2>2, <1>6 DEF SenderInv, DropSender
<1>7. ASSUME NEW a \in Senders, LastSenderGone(a) PROVE SenderInv'
  <2>1. LiveSenders' = LiveSenders
    BY <1>7 DEF LastSenderGone, LiveSenders, Handles, TypeOK
  <2> QED BY <1>1, <1>7, <2>1 DEF LastSenderGone, RecordError
<1>8. ASSUME NEW t \in Tasks,
             StartPoll(t) \/ TaskStep(t) \/ NextFrame(t) \/ Arrival(t) \/ PollAgain(t)
             \/ (\E e \in Errors : DriverError(t, e)) \/ (\E u \in Tasks : MoveOn(t, u))
      PROVE SenderInv'
  BY <1>2, <1>8 DEF StartPoll, BeginPoll, TaskStep, CheckHandled, CheckFindsError,
     CheckFindsNone, RegisterWaker, PollIncoming, NextCheck, EndPoll, DriverClose, HandleAgain,
     NextFrame, Arrival, PollAgain, DriverError, MoveOn, handles
<1>9. CASE DropConnection \/ \E e \in QuicErrors : QuicEnds(e)
  BY <1>2, <1>9 DEF DropConnection, QuicEnds, handles
<1>10. CASE UNCHANGED vars
  BY <1>2, <1>10 DEF vars
<1> QED BY <1>3, <1>4, <1>5, <1>6, <1>7, <1>8, <1>9, <1>10 DEF Next, HandleNext
(***************************************************************************)
(* Where everybody stands with the connection error.  Only one task is     *)
(* inside a poll; whoever is about to wake the connection, to close it or  *)
(* to return has seen the recorded error; nobody has returned anything     *)
(* before one was recorded.                                                *)
(***************************************************************************)
InPoll == {"check", "register", "work", "polled", "close", "again"}

PollerInv ==
  /\ \A t \in Tasks : pc[t] \in InPoll <=> poller = t
  /\ dropped => poller = None

ErrorInv ==
  /\ \A h \in Handles : hpc[h] \in {"wake", "dropwake"} =>
        connection_error # None /\ raising[h] = connection_error
  /\ \A t \in Tasks :
       /\ pc[t] = "close" => connection_error # None /\ handled = None
       /\ pc[t] \in {"register", "work", "polled"} => handled = None
       /\ pc[t] \in {"again", "done"} => handled # None
  /\ handled # None => connection_error # None
  /\ \A p \in Tasks \cup Handles : result[p] # None => connection_error # None

(* Type correctness is preserved by every step.                            *)
LEMMA NextType ==
  ASSUME TypeOK, SenderInv, ErrorInv, [Next]_vars
  PROVE  TypeOK'
<1> USE DEF TypeOK
<1>h. ASSUME NEW h \in Handles, NEW e \in Errors, RecordError(h, e),
             \E s \in {"wake", "dropwake"} : hpc' = [hpc EXCEPT ![h] = s]
      PROVE  TypeOK'
  BY <1>h, SetConnErrorType DEF RecordError, tasks
<1>1. ASSUME NEW h \in Handles, WakeConnection(h) PROVE TypeOK'
  <2>1. hpc[h] = "wake" => raising[h] \in Errors BY DEF ErrorInv
  <2>2. result' \in [Tasks \cup Handles -> Reports \cup {None}]
    BY <1>1, <2>1 DEF WakeConnection, Reports
  <2> QED BY <1>1, <2>2 DEF WakeConnection, tasks, Reports
<1>2. ASSUME NEW h \in Handles,
             SeeQuicError(h) \/ \E e \in Codes : RaiseOnStream(h, e)
      PROVE TypeOK'
  BY <1>h, <1>2 DEF SeeQuicError, RaiseOnStream, Errors
<1>3. ASSUME NEW a \in Senders, NEW b \in Senders, CloneSender(a, b) PROVE TypeOK'
  BY <1>3 DEF CloneSender, Handles, shared, tasks
<1>4. ASSUME NEW a \in Senders, DropSender(a) PROVE TypeOK'
  <2>1. a \in LiveSenders BY <1>4 DEF DropSender, LiveSenders
  <2>2. sender_count # 0 BY <2>1, LiveFinite DEF SenderInv
  <2> QED BY <1>4, <2>2 DEF DropSender, Handles, shared, tasks
<1>5. ASSUME NEW a \in Senders, LastSenderGone(a) PROVE TypeOK'
  BY <1>h, <1>5, ErrorsAssumption DEF LastSenderGone, Handles, Errors
<1>6. ASSUME NEW t \in Tasks, StartPoll(t) \/ PollAgain(t) PROVE TypeOK'
  <2>1. BeginPoll(t) BY <1>6 DEF StartPoll, PollAgain
  <2>2. arrivals' \in 0 .. MaxArrivals
    BY <1>6, MaxArrivalsAssumption DEF StartPoll, PollAgain
  <2> QED BY <2>1, <2>2 DEF BeginPoll, shared, handles, TaskStates
<1>7. ASSUME NEW t \in Tasks,
             CheckFindsNone(t) \/ RegisterWaker(t) \/ PollIncoming(t) \/ NextCheck(t)
             \/ EndPoll(t) \/ NextFrame(t)
      PROVE TypeOK'
  <2>1. /\ pc' \in [Tasks -> TaskStates]
        /\ round' \in [Tasks -> Nat]
        /\ poller' \in Tasks \cup {None}
        /\ waker' \in Tasks \cup {None}
        /\ incoming' \in [{"uni", "bi"} -> Tasks \cup {None}]
        /\ arrivals' \in 0 .. MaxArrivals
    <3>1. CASE CheckFindsNone(t) BY <3>1 DEF CheckFindsNone, shared, TaskStates
    <3>2. CASE RegisterWaker(t) BY <3>2 DEF RegisterWaker, TaskStates
    <3>3. CASE NextCheck(t) BY <3>3 DEF NextCheck, shared, TaskStates
    <3>4. CASE EndPoll(t) BY <3>4 DEF EndPoll, shared, TaskStates
    <3>5. CASE NextFrame(t)
      BY <3>5, MaxArrivalsAssumption DEF NextFrame, shared, TaskStates
    <3>6. CASE PollIncoming(t) BY <3>6 DEF PollIncoming, shared, TaskStates
    <3> QED BY <1>7, <3>1, <3>2, <3>3, <3>4, <3>5, <3>6
  <2>2. UNCHANGED <<role, connection_error, handled, dropped, awake, handles, result, quic,
                    closes>>
    BY <1>7 DEF CheckFindsNone, RegisterWaker, PollIncoming, NextCheck, EndPoll, NextFrame,
       shared
  <2> QED BY <2>1, <2>2 DEF handles
<1>8. ASSUME NEW t \in Tasks, Arrival(t) PROVE TypeOK'
  BY <1>8, MaxArrivalsAssumption DEF Arrival, shared, handles, tasks
<1>9. ASSUME NEW t \in Tasks, CheckHandled(t) \/ HandleAgain(t) PROVE TypeOK'
  <2>1. /\ ReturnError(t, handled)
        /\ UNCHANGED <<role, shared, handled, dropped, awake, incoming, handles, quic, closes,
                        arrivals>>
    BY <1>9 DEF CheckHandled, HandleAgain
  <2> QED BY <2>1 DEF ReturnError, shared, handles, TaskStates
<1>10. ASSUME NEW e \in Errors, CloseAndRemember(e)
       PROVE  /\ closes' \in Seq(Codes)
              /\ quic' \in QuicErrors \cup {None}
              /\ awake' \in [Tasks -> BOOLEAN]
              /\ handled' \in Reports \cup {None}
  BY <1>10, CloseIsCodes, ErrorsAssumption DEF CloseAndRemember, QuicAfter, Reports
<1>11. ASSUME NEW t \in Tasks, CheckFindsError(t) PROVE TypeOK'
  <2>1. connection_error \in Errors BY <1>11 DEF CheckFindsError
  <2>2. /\ pc' \in [Tasks -> TaskStates]
        /\ round' \in [Tasks -> Nat]
        /\ poller' \in Tasks \cup {None}
        /\ result' \in [Tasks \cup Handles -> Reports \cup {None}]
    <3>1. CASE ClientAcceptBi(t)
      BY <1>11, <3>1 DEF CheckFindsError, TaskStates
    <3>2. CASE ~ClientAcceptBi(t)
      <4>1. ReturnError(t, convert_to_connection_error(connection_error))
        BY <1>11, <3>2 DEF CheckFindsError
      <4>2. convert_to_connection_error(connection_error) \in Reports BY <2>1 DEF Reports
      <4> QED BY <4>1, <4>2 DEF ReturnError, TaskStates
    <3> QED BY <3>1, <3>2
  <2>3. CloseAndRemember(connection_error) BY <1>11 DEF CheckFindsError
  <2>4. UNCHANGED <<role, shared, dropped, incoming, handles, arrivals>> BY <1>11 DEF CheckFindsError
  <2> QED BY <1>10, <2>1, <2>2, <2>3, <2>4 DEF shared, handles
<1>12. ASSUME NEW t \in Tasks, DriverClose(t) PROVE TypeOK'
  <2>0. pc[t] = "close" BY <1>12 DEF DriverClose
  <2>1. connection_error \in Errors BY <2>0 DEF ErrorInv
  <2>2. /\ pc' \in [Tasks -> TaskStates]
        /\ round' \in [Tasks -> Nat]
        /\ poller' \in Tasks \cup {None}
        /\ result' \in [Tasks \cup Handles -> Reports \cup {None}]
    BY <1>12, <2>1 DEF DriverClose, ReturnError, Reports, TaskStates
  <2>3. CloseAndRemember(connection_error) BY <1>12 DEF DriverClose
  <2>4. UNCHANGED <<role, shared, dropped, incoming, handles, arrivals>> BY <1>12 DEF DriverClose
  <2> QED BY <1>10, <2>1, <2>2, <2>3, <2>4 DEF shared, handles
<1>13. ASSUME NEW t \in Tasks, NEW e \in Errors, DriverError(t, e) PROVE TypeOK'
  BY <1>13, SetConnErrorType DEF DriverError, handles, TaskStates
<1>14. ASSUME NEW t \in Tasks, NEW u \in Tasks, MoveOn(t, u) PROVE TypeOK'
  BY <1>14 DEF MoveOn, shared, handles, TaskStates
<1>15. CASE DropConnection
  <2>1. closes' \in Seq(Codes) /\ quic' \in QuicErrors \cup {None}
    BY <1>15, ErrorsAssumption DEF DropConnection, QuicAfter
  <2> QED BY <1>15, <2>1 DEF DropConnection, shared, handles, tasks
<1>16. ASSUME NEW e \in QuicErrors, QuicEnds(e) PROVE TypeOK'
  BY <1>16 DEF QuicEnds, shared, handles, tasks
<1>17. CASE UNCHANGED vars
  BY <1>17 DEF vars
<1> QED BY <1>1, <1>2, <1>3, <1>4, <1>5, <1>6, <1>7, <1>8, <1>9, <1>11, <1>12, <1>13, <1>14,
           <1>15, <1>16, <1>17 DEF Next, HandleNext, TaskStep
(***************************************************************************)
(* One poll at a time, and everybody's view of the error.                  *)
(***************************************************************************)

(* At most one task at a time is inside a poll of the connection.          *)
LEMMA NextPoller ==
  ASSUME TypeOK, PollerInv, [Next]_vars
  PROVE  PollerInv'
<1> USE NoneAssumption DEF TypeOK, PollerInv, InPoll
<1>1. ASSUME UNCHANGED <<pc, poller, dropped>> PROVE PollerInv'
  BY <1>1
<1>2. CASE HandleNext
  BY <1>1, <1>2 DEF HandleNext, WakeConnection, SeeQuicError, RaiseOnStream, RecordError,
     CloneSender, DropSender, LastSenderGone, tasks
<1>3. ASSUME NEW t \in Tasks, BeginPoll(t) PROVE PollerInv'
  BY <1>3 DEF BeginPoll
<1>4. ASSUME NEW t \in Tasks, NEW e, pc[t] \in InPoll, ReturnError(t, e), UNCHANGED dropped
      PROVE  PollerInv'
  BY <1>4 DEF ReturnError
<1>5. ASSUME NEW t \in Tasks, pc[t] \in InPoll, UNCHANGED <<poller, dropped>>,
             \E s \in InPoll : pc' = [pc EXCEPT ![t] = s]
      PROVE  PollerInv'
  BY <1>5
<1>6. ASSUME NEW t \in Tasks, EndPoll(t) PROVE PollerInv'
  BY <1>6 DEF EndPoll, RoundOver
<1>7. ASSUME NEW t \in Tasks, NEW u \in Tasks, MoveOn(t, u) PROVE PollerInv'
  BY <1>7 DEF MoveOn
<1>8. ASSUME NEW t \in Tasks, TaskStep(t) PROVE PollerInv'
  <2>1. CASE CheckHandled(t) BY <1>4, <2>1 DEF CheckHandled
  <2>2. CASE CheckFindsError(t) BY <1>4, <1>5, <2>2 DEF CheckFindsError
  <2>3. CASE CheckFindsNone(t) BY <1>5, <2>3 DEF CheckFindsNone
  <2>4. CASE RegisterWaker(t) BY <1>5, <2>4 DEF RegisterWaker
  <2>5. CASE NextCheck(t) BY <1>5, <2>5 DEF NextCheck, RoundOver
  <2>6. CASE DriverClose(t) BY <1>4, <2>6 DEF DriverClose
  <2>7. CASE HandleAgain(t) BY <1>4, <2>7 DEF HandleAgain
  <2>8. CASE PollIncoming(t) BY <1>5, <2>8 DEF PollIncoming
  <2> QED BY <1>6, <1>8, <2>1, <2>2, <2>3, <2>4, <2>5, <2>6, <2>7, <2>8 DEF TaskStep
<1>9. ASSUME NEW t \in Tasks, StartPoll(t) \/ PollAgain(t) PROVE PollerInv'
  BY <1>3, <1>9 DEF StartPoll, PollAgain
<1>10. ASSUME NEW t \in Tasks, NEW e \in Errors, DriverError(t, e) PROVE PollerInv'
  BY <1>5, <1>10 DEF DriverError
<1>11. ASSUME NEW t \in Tasks, NextFrame(t) PROVE PollerInv'
  BY <1>5, <1>11 DEF NextFrame
<1>12. ASSUME NEW t \in Tasks, Arrival(t) PROVE PollerInv'
  BY <1>1, <1>12 DEF Arrival, tasks
<1>13. CASE DropConnection
  BY <1>13 DEF DropConnection, tasks
<1>14. CASE (\E e \in QuicErrors : QuicEnds(e)) \/ UNCHANGED vars
  BY <1>1, <1>14 DEF QuicEnds, tasks, vars
<1> QED BY <1>2, <1>7, <1>8, <1>9, <1>10, <1>11, <1>12, <1>13, <1>14 DEF Next

(* Recording an error on a handle's behalf keeps everybody's view.         *)
LEMMA NextError ==
  ASSUME TypeOK, PollerInv, ErrorInv, Agreement, [Next]_vars
  PROVE  ErrorInv' /\ Agreement'
<1> USE DEF TypeOK, ErrorInv, Agreement
<1>1. ASSUME NEW h \in Handles, NEW e \in Errors, RecordError(h, e),
             \E s \in {"wake", "dropwake"} : hpc' = [hpc EXCEPT ![h] = s]
      PROVE  ErrorInv' /\ Agreement'
  <2>1. /\ connection_error' # None /\ raising'[h] = connection_error'
        /\ connection_error # None => connection_error' = connection_error
    BY <1>1, SetConnErrorType, NoneAssumption DEF RecordError, Errors
  <2>2. UNCHANGED <<handled, pc, result>> BY <1>1 DEF RecordError, tasks
  <2>3. \A g \in Handles \ {h} : hpc'[g] = hpc[g] /\ raising'[g] = raising[g]
    BY <1>1 DEF RecordError
  <2> QED BY <2>1, <2>2, <2>3
<1>2. ASSUME NEW h \in Handles, WakeConnection(h) PROVE ErrorInv' /\ Agreement'
  <2>1. UNCHANGED <<connection_error, handled, pc, raising>>
    BY <1>2 DEF WakeConnection, tasks
  <2>2. \A g \in Handles : hpc'[g] \in {"wake", "dropwake"} => hpc'[g] = hpc[g]
    BY <1>2 DEF WakeConnection
  <2>3. \A p \in Tasks \cup Handles :
           \/ result'[p] = result[p]
           \/ /\ result'[p] = convert_to_connection_error(connection_error)
              /\ connection_error # None
    <3>1. CASE hpc[h] = "wake"
      <4>1. raising[h] = connection_error /\ connection_error # None BY <3>1
      <4>2. result' = [result EXCEPT ![h] = convert_to_connection_error(connection_error)]
        BY <1>2, <3>1, <4>1 DEF WakeConnection
      <4> QED BY <4>1, <4>2
    <3>2. CASE hpc[h] # "wake" BY <1>2, <3>2 DEF WakeConnection
    <3> QED BY <3>1, <3>2
  <2> QED BY <2>1, <2>2, <2>3
<1>3. ASSUME UNCHANGED <<connection_error, handled, pc, result, raising>>,
             \A g \in Handles : hpc'[g] \in {"wake", "dropwake"} => hpc'[g] = hpc[g]
      PROVE  ErrorInv' /\ Agreement'
  BY <1>3
<1>4. CASE HandleNext
  <2>1. ASSUME NEW a \in Senders, NEW b \in Senders, CloneSender(a, b)
        PROVE  ErrorInv' /\ Agreement'
    BY <1>3, <2>1 DEF CloneSender, shared, tasks, Handles
  <2>2. ASSUME NEW a \in Senders, DropSender(a) PROVE ErrorInv' /\ Agreement'
    BY <1>3, <2>2 DEF DropSender, shared, tasks, Handles
  <2>3. ASSUME NEW a \in Senders, LastSenderGone(a) PROVE ErrorInv' /\ Agreement'
    BY <1>1, <2>3, ErrorsAssumption DEF LastSenderGone, Errors, Handles
  <2>4. ASSUME NEW h \in Handles, SeeQuicError(h) \/ \E e \in Codes : RaiseOnStream(h, e)
        PROVE  ErrorInv' /\ Agreement'
    BY <1>1, <2>4 DEF SeeQuicError, RaiseOnStream, Errors
  <2> QED BY <1>2, <1>4, <2>1, <2>2, <2>3, <2>4 DEF HandleNext
<1>5. ASSUME NEW t \in Tasks, UNCHANGED <<connection_error, handled, result, handles>>,
             NEW s \in TaskStates, pc' = [pc EXCEPT ![t] = s],
             s \in {"register", "work", "polled"} => handled = None,
             s \notin {"close", "again", "done"}
      PROVE  ErrorInv' /\ Agreement'
  BY <1>5 DEF handles
<1>6. ASSUME NEW t \in Tasks, UNCHANGED <<connection_error, handles, handled>>,
             handled # None, ReturnError(t, handled)
      PROVE  ErrorInv' /\ Agreement'
  BY <1>6 DEF ReturnError, handles
<1>7. ASSUME NEW t \in Tasks, pc[t] \in InPoll, handled = None, connection_error # None,
             UNCHANGED <<connection_error, handles>>,
             CloseAndRemember(connection_error),
             \/ ReturnError(t, convert_to_connection_error(connection_error))
             \/ pc' = [pc EXCEPT ![t] = "again"] /\ UNCHANGED result
      PROVE  ErrorInv' /\ Agreement'
  <2>1. handled' = convert_to_connection_error(connection_error) /\ handled' # None
    BY <1>7, ConvertNotNone DEF CloseAndRemember
  <2>2. \A u \in Tasks \ {t} : pc[u] \notin InPoll BY <1>7 DEF PollerInv
  <2>3. \A u \in Tasks : pc'[u] \notin {"close", "register", "work", "polled"}
    BY <1>7, <2>2 DEF ReturnError, InPoll
  <2> QED BY <1>7, <2>1, <2>3 DEF ReturnError, handles
<1>8. ASSUME NEW t \in Tasks, TaskStep(t) PROVE ErrorInv' /\ Agreement'
  <2>1. CASE CheckHandled(t) BY <1>6, <2>1 DEF CheckHandled, shared
  <2>2. CASE CheckFindsError(t) BY <1>7, <2>2 DEF CheckFindsError, shared, InPoll
  <2>3. CASE CheckFindsNone(t) BY <1>5, <2>3 DEF CheckFindsNone, shared, TaskStates
  <2>4. CASE RegisterWaker(t) BY <1>5, <2>4 DEF RegisterWaker, TaskStates
  <2>5. CASE NextCheck(t) BY <1>5, <2>5 DEF NextCheck, shared, TaskStates
  <2>6. CASE DriverClose(t) BY <1>7, <2>6 DEF DriverClose, shared, InPoll
  <2>7. CASE HandleAgain(t) BY <1>6, <2>7 DEF HandleAgain, shared
  <2>8. CASE EndPoll(t) BY <1>5, <2>8 DEF EndPoll, shared, TaskStates
  <2>9. CASE PollIncoming(t) BY <1>5, <2>9 DEF PollIncoming, shared, TaskStates
  <2> QED BY <1>8, <2>1, <2>2, <2>3, <2>4, <2>5, <2>6, <2>7, <2>8, <2>9 DEF TaskStep
<1>9. ASSUME NEW t \in Tasks, StartPoll(t) \/ PollAgain(t) PROVE ErrorInv' /\ Agreement'
  <2>1. BeginPoll(t) BY <1>9 DEF StartPoll, PollAgain
  <2> QED BY <1>5, <2>1 DEF BeginPoll, shared, TaskStates
<1>10. ASSUME NEW t \in Tasks, NEW e \in Errors, DriverError(t, e) PROVE ErrorInv' /\ Agreement'
  <2>1. /\ connection_error' # None
        /\ connection_error # None => connection_error' = connection_error
    BY <1>10, SetConnErrorType, NoneAssumption DEF DriverError, Errors
  <2>2. UNCHANGED <<handled, handles, result>> /\ handled = None
        /\ pc' = [pc EXCEPT ![t] = "close"]
    BY <1>10 DEF DriverError
  <2> QED BY <2>1, <2>2 DEF handles
<1>11. ASSUME NEW t \in Tasks, NextFrame(t) PROVE ErrorInv' /\ Agreement'
  BY <1>5, <1>11 DEF NextFrame, shared, TaskStates
<1>12. ASSUME NEW t \in Tasks, NEW u \in Tasks, MoveOn(t, u) PROVE ErrorInv' /\ Agreement'
  BY <1>12 DEF MoveOn, shared, handles
<1>13. CASE DropConnection \/ (\E t \in Tasks : Arrival(t)) \/ (\E e \in QuicErrors : QuicEnds(e))
            \/ UNCHANGED vars
  BY <1>3, <1>13 DEF DropConnection, Arrival, QuicEnds, shared, handles, tasks, vars
<1> QED BY <1>4, <1>8, <1>9, <1>10, <1>11, <1>12, <1>13 DEF Next
(***************************************************************************)
(* QUIC is closed once.                                                    *)
(***************************************************************************)

(* Steps keep what is known of the close: nothing is passed to QUIC but    *)
(* by whoever handled the recorded error, or by the server's Drop.         *)
LEMMA NextClosed ==
  ASSUME TypeOK, PollerInv, ErrorInv, ClosedOnceForFirstError, [Next]_vars
  PROVE  ClosedOnceForFirstError'
<1> USE DEF TypeOK
<1> DEFINE errorPart == IF handled = None THEN <<>> ELSE close_if_needed(connection_error)
           dropPart == IF dropped /\ role = "server" THEN <<"H3_NO_ERROR">> ELSE <<>>
<1>0. errorPart \in Seq(Codes) /\ dropPart \in Seq(Codes) /\ closes = errorPart \o dropPart
  BY CloseIsCodes, ErrorsAssumption DEF ErrorInv, ClosedOnceForFirstError
<1>1. ASSUME UNCHANGED <<closes, handled, dropped, role>>,
             handled = None \/ UNCHANGED connection_error
      PROVE  ClosedOnceForFirstError'
  BY <1>1 DEF ClosedOnceForFirstError
<1>2. ASSUME NEW t \in Tasks, pc[t] \in InPoll, handled = None, connection_error # None,
             UNCHANGED <<connection_error, dropped, role>>,
             CloseAndRemember(connection_error)
      PROVE  ClosedOnceForFirstError'
  <2>1. ~dropped BY <1>2, NoneAssumption DEF PollerInv
  <2>2. closes = <<>> BY <1>2, <2>1 DEF ClosedOnceForFirstError
  <2>3. handled' # None /\ closes' = closes \o close_if_needed(connection_error)
    BY <1>2, ConvertNotNone DEF CloseAndRemember
  <2>4. close_if_needed(connection_error) \in Seq(Codes) BY <1>2, CloseIsCodes
  <2>5. closes' = close_if_needed(connection_error) /\ closes' \o <<>> = closes'
    BY <2>2, <2>3, <2>4, ConcatEmptySeq
  <2>6. UNCHANGED connection_error /\ ~dropped' BY <1>2, <2>1
  <2>7. (IF handled = None THEN <<>> ELSE close_if_needed(connection_error))' = closes'
    BY <2>3, <2>5, <2>6 DEF close_if_needed
  <2> QED BY <2>5, <2>6, <2>7 DEF ClosedOnceForFirstError
<1>3. CASE DropConnection
  <2>1. dropPart = <<>> /\ closes = errorPart BY <1>0, <1>3, ConcatEmptySeq DEF DropConnection
  <2>2. closes' = errorPart \o (IF role = "server" THEN <<"H3_NO_ERROR">> ELSE <<>>)
    BY <1>3, <2>1 DEF DropConnection
  <2> QED BY <1>3, <2>2 DEF DropConnection, ClosedOnceForFirstError, shared, close_if_needed
<1>4. CASE HandleNext
  BY <1>1, <1>4, SetConnErrorType DEF HandleNext, WakeConnection, SeeQuicError, RaiseOnStream,
     RecordError, CloneSender, DropSender, LastSenderGone, shared, ErrorInv, set_conn_error
<1>5. ASSUME NEW t \in Tasks, TaskStep(t) PROVE ClosedOnceForFirstError'
  <2>1. CASE CheckFindsError(t) BY <1>2, <2>1 DEF CheckFindsError, shared, InPoll
  <2>2. CASE DriverClose(t) BY <1>2, <2>2 DEF DriverClose, shared, InPoll, ErrorInv
  <2> QED BY <1>1, <1>5, <2>1, <2>2 DEF TaskStep, CheckHandled, CheckFindsNone, RegisterWaker,
             PollIncoming, NextCheck, EndPoll, HandleAgain, shared
<1>6. ASSUME NEW t \in Tasks,
             StartPoll(t) \/ PollAgain(t) \/ NextFrame(t) \/ Arrival(t)
             \/ (\E e \in Errors : DriverError(t, e)) \/ (\E u \in Tasks : MoveOn(t, u))
      PROVE  ClosedOnceForFirstError'
  BY <1>1, <1>6 DEF StartPoll, PollAgain, BeginPoll, NextFrame, Arrival, DriverError, MoveOn,
     shared
<1>7. CASE (\E e \in QuicErrors : QuicEnds(e)) \/ UNCHANGED vars
  BY <1>1, <1>7 DEF QuicEnds, shared, vars
<1> QED BY <1>3, <1>4, <1>5, <1>6, <1>7 DEF Next

(***************************************************************************)
(* The last SendRequest: once a handle has taken the count to zero, or     *)
(* NO_ERROR was recorded, no handle is left that could be used or cloned.  *)
(***************************************************************************)
LastInv ==
  (\E h \in Senders : hpc[h] \in {"dropset", "dropwake"}) \/ connection_error = "H3_NO_ERROR"
    => LiveSenders = {}

(* Steps keep: a NO_ERROR of the last SendRequest, recorded or about to    *)
(* be, means that no handle is left.                                       *)
LEMMA NextLast ==
  ASSUME TypeOK, SenderInv, LastInv, [Next]_vars
  PROVE  LastInv'
<1> USE PartiesAssumption, ErrorsAssumption DEF TypeOK, LastInv
<1>1. ASSUME UNCHANGED hpc,
             connection_error' = "H3_NO_ERROR" => connection_error = "H3_NO_ERROR"
      PROVE  LastInv'
  BY <1>1 DEF LiveSenders
<1>2. ASSUME NEW h \in Handles, hpc[h] = "live", NEW e \in Errors, e # "H3_NO_ERROR",
             RecordError(h, e), hpc' = [hpc EXCEPT ![h] = "wake"]
      PROVE  LastInv'
  <2>1. LiveSenders' = LiveSenders BY <1>2 DEF LiveSenders, Handles
  <2>2. connection_error' = "H3_NO_ERROR" => connection_error = "H3_NO_ERROR"
    BY <1>2 DEF RecordError, set_conn_error
  <2>3. \A s \in Senders : hpc'[s] \in {"dropset", "dropwake"} => hpc'[s] = hpc[s]
    BY <1>2
  <2> QED BY <2>1, <2>2, <2>3
<1>3. ASSUME NEW h \in Handles, WakeConnection(h) PROVE LastInv'
  <2>1. LiveSenders' = LiveSenders BY <1>3 DEF WakeConnection, LiveSenders, Handles
  <2> QED BY <1>3, <2>1 DEF WakeConnection, Handles
<1>4. ASSUME NEW a \in Senders, NEW b \in Senders, CloneSender(a, b) PROVE LastInv'
  <2>1. a \in LiveSenders BY <1>4 DEF CloneSender, LiveSenders
  <2> QED BY <1>4, <2>1 DEF CloneSender, shared, Handles
<1>5. ASSUME NEW a \in Senders, DropSender(a) PROVE LastInv'
  <2>1. a \in LiveSenders BY <1>5 DEF DropSender, LiveSenders
  <2>2. connection_error # "H3_NO_ERROR"
        /\ \A h \in Senders : hpc[h] \notin {"dropset", "dropwake"}
    BY <2>1
  <2>3. CASE sender_count = 1
    <3>1. LiveSenders' = LiveSenders \ {a} BY <1>5 DEF DropSender, LiveSenders, Handles
    <3>0. Cardinality(LiveSenders) = 1 BY <2>3 DEF SenderInv
    <3>2. Cardinality(LiveSenders \ {a}) = 0
      <4>1. Cardinality(LiveSenders \ {a}) = Cardinality(LiveSenders) - 1
        BY <2>1, LiveFinite, FS_RemoveElement
      <4> HIDE DEF LastInv, TypeOK
      <4> QED BY <3>0, <4>1
    <3>3. IsFiniteSet(LiveSenders \ {a}) BY LiveFinite, FS_RemoveElement
    <3> QED BY <3>1, <3>2, <3>3, FS_EmptySet
  <2>4. CASE sender_count # 1
    BY <1>5, <2>2, <2>4 DEF DropSender, shared, Handles
  <2> QED BY <2>3, <2>4
<1>6. ASSUME NEW a \in Senders, LastSenderGone(a) PROVE LastInv'
  <2>1. LiveSenders' = LiveSenders BY <1>6 DEF LastSenderGone, LiveSenders, Handles
  <2>2. LiveSenders = {} BY <1>6 DEF LastSenderGone
  <2> QED BY <2>1, <2>2
<1>7. CASE HandleNext
  <2>1. ASSUME NEW h \in Handles, SeeQuicError(h) PROVE LastInv'
    BY <1>2, <2>1 DEF SeeQuicError, Errors
  <2>2. ASSUME NEW h \in Handles, NEW e \in Codes \ {"H3_NO_ERROR"}, RaiseOnStream(h, e)
        PROVE  LastInv'
    BY <1>2, <2>2 DEF RaiseOnStream, Errors
  <2> QED BY <1>3, <1>4, <1>5, <1>6, <1>7, <2>1, <2>2 DEF HandleNext
<1>8. ASSUME NEW t \in Tasks, NEW e \in Errors, DriverError(t, e) PROVE LastInv'
  BY <1>1, <1>8 DEF DriverError, set_conn_error, handles
<1>9. ASSUME NEW t \in Tasks,
             StartPoll(t) \/ TaskStep(t) \/ NextFrame(t) \/ Arrival(t) \/ PollAgain(t)
             \/ (\E u \in Tasks : MoveOn(t, u))
      PROVE  LastInv'
  BY <1>1, <1>9 DEF StartPoll, BeginPoll, TaskStep, CheckHandled, CheckFindsError,
     CheckFindsNone, RegisterWaker, PollIncoming, NextCheck, EndPoll, DriverClose, HandleAgain,
     NextFrame, Arrival, PollAgain, MoveOn, handles, shared
<1>10. CASE DropConnection \/ (\E e \in QuicErrors : QuicEnds(e)) \/ UNCHANGED vars
  BY <1>1, <1>10 DEF DropConnection, QuicEnds, handles, shared, vars
<1> QED BY <1>7, <1>8, <1>9, <1>10 DEF Next
(***************************************************************************)
(* No lost wake-up.  A task is alert when it is certain to look at the     *)
(* error cell again: it was notified, or its poll still has a check to go. *)
(* The strengthening says of the time before an error too that somebody is *)
(* alert or registered, and of a poll past its first check that its task   *)
(* is registered or was notified since.                                    *)
(***************************************************************************)
Idle == {"new", "retired"}

Alert(t) ==
  \/ pc[t] \notin Idle /\ awake[t]
  \/ pc[t] \in {"check", "close", "again"}
  \/ pc[t] \in {"register", "work", "polled"} /\ round[t] < Checks[t]

RoundInv ==
  \A t \in Tasks :
    /\ pc[t] \in InPoll => round[t] \in 1 .. Checks[t]
    /\ pc[t] = "new" => awake[t]
    /\ pc[t] \in InPoll /\ (round[t] > 1 \/ pc[t] \in {"work", "polled"}) => waker = t \/ awake[t]

SomebodyListens ==
  handled = None /\ ~dropped =>
    \E t \in Tasks : pc[t] \notin Idle /\ (Alert(t) \/ waker = t)

SomebodyAlert ==
  /\ connection_error # None
  /\ handled = None
  /\ ~dropped
  /\ \A h \in Handles : hpc[h] \notin {"wake", "dropwake"}
  => \E t \in Tasks : Alert(t)

WakeInv == RoundInv /\ SomebodyListens /\ SomebodyAlert

(* Before the first poll no task sleeps and no wake-up is owed.            *)
LEMMA InitWake == Init => WakeInv
<1> SUFFICES ASSUME Init PROVE WakeInv OBVIOUS
<1>1. RoundInv BY DEF Init, RoundInv, InPoll
<1>2. \E t \in Tasks : pc[t] = "idle" /\ awake[t]
  <2>1. PICK start \in Starts : pc = [t \in Tasks |-> IF t \in start THEN "idle" ELSE "new"]
    BY DEF Init
  <2>2. PICK t \in start : t \in Tasks BY StartsAssumption
  <2> QED BY <2>1, <2>2 DEF Init
<1>3. SomebodyListens BY <1>2 DEF SomebodyListens, Alert, Idle
<1>4. SomebodyAlert BY DEF Init, SomebodyAlert
<1> QED BY <1>1, <1>3, <1>4 DEF WakeInv

(* Steps keep: somebody sleeps only if a later check of the same poll, or  *)
(* the waker in the slot, will notice an error that is recorded.           *)
LEMMA NextWake ==
  ASSUME \A t \in Tasks : Checks[t] > 1,
         TypeOK, PollerInv, ErrorInv, WakeInv, [Next]_vars
  PROVE  WakeInv'
<1> USE NoneAssumption, ChecksAssumption DEF TypeOK, WakeInv
<1>0. \A t \in Tasks : Checks[t] \in Nat OBVIOUS
(* Steps that leave the tasks alone and notify some of them perhaps.       *)
<1>1. ASSUME UNCHANGED <<pc, round, handled>>,
             \A t \in Tasks : awake[t] => awake'[t],
             \A t \in Tasks : waker = t => waker' = t \/ awake'[t]
      PROVE  RoundInv' /\ (dropped' = dropped => SomebodyListens')
  BY <1>1 DEF RoundInv, SomebodyListens, Alert, Idle, InPoll
<1>2. ASSUME UNCHANGED <<pc, round, handled, dropped, waker>>,
             \A t \in Tasks : awake[t] => awake'[t],
             \/ /\ UNCHANGED connection_error
                /\ \A h \in Handles : hpc[h] \in {"wake", "dropwake"} => hpc'[h] = hpc[h]
             \/ \E h \in Handles : hpc'[h] \in {"wake", "dropwake"}
      PROVE  WakeInv'
  <2>1. RoundInv' /\ SomebodyListens' BY <1>1, <1>2
  <2>2. SomebodyAlert' BY <1>2 DEF SomebodyAlert, Alert
  <2> QED BY <2>1, <2>2
(* Taking the waker out of its slot notifies the task that was in it.      *)
<1>3. ASSUME NEW h \in Handles, WakeConnection(h) PROVE WakeInv'
  <2>1. /\ UNCHANGED <<pc, round, handled, dropped, connection_error>>
        /\ \A t \in Tasks : (awake[t] => awake'[t]) /\ (waker = t => awake'[t])
    BY <1>3 DEF WakeConnection, tasks
  <2>2. RoundInv' /\ SomebodyListens' BY <1>1, <2>1
  <2>3. handled = None /\ ~dropped => \E t \in Tasks : Alert(t)'
    BY <2>1 DEF SomebodyListens, Alert, Idle
  <2>4. SomebodyAlert' BY <2>1, <2>3 DEF SomebodyAlert
  <2> QED BY <2>2, <2>4
<1>4. CASE HandleNext
  <2>1. ASSUME NEW h \in Handles, NEW e, RecordError(h, e),
               \E s \in {"wake", "dropwake"} : hpc' = [hpc EXCEPT ![h] = s]
        PROVE  WakeInv'
    BY <1>2, <2>1 DEF RecordError, tasks
  <2>2. ASSUME NEW h \in Handles, SeeQuicError(h) \/ \E e \in Codes : RaiseOnStream(h, e)
        PROVE  WakeInv'
    BY <2>1, <2>2 DEF SeeQuicError, RaiseOnStream
  <2>3. ASSUME NEW a \in Senders, LastSenderGone(a) PROVE WakeInv'
    BY <2>1, <2>3 DEF LastSenderGone, Handles
  <2>4. ASSUME NEW a \in Senders, NEW b \in Senders, CloneSender(a, b) PROVE WakeInv'
    BY <1>2, <2>4 DEF CloneSender, shared, tasks, Handles
  <2>5. ASSUME NEW a \in Senders, DropSender(a) PROVE WakeInv'
    BY <1>2, <2>5 DEF DropSender, shared, tasks, Handles
  <2> QED BY <1>3, <1>4, <2>2, <2>3, <2>4, <2>5 DEF HandleNext
(* A task that goes to another place and is alert there.                   *)
<1>5. ASSUME NEW t \in Tasks,
             \A u \in Tasks \ {t} :
               pc'[u] = pc[u] /\ round'[u] = round[u] /\ awake'[u] = awake[u],
             pc'[t] \in {"check", "close"},
             round'[t] \in 1 .. Checks[t],
             round'[t] > 1 => waker = t \/ awake'[t],
             UNCHANGED waker
      PROVE  WakeInv'
  <2>1. RoundInv' BY <1>5 DEF RoundInv, InPoll
  <2>2. Alert(t)' /\ pc'[t] \notin Idle BY <1>5 DEF Alert, Idle
  <2>3. SomebodyListens' BY <2>2 DEF SomebodyListens
  <2>4. SomebodyAlert' BY <2>2 DEF SomebodyAlert
  <2> QED BY <2>1, <2>3, <2>4
<1>6. ASSUME NEW t \in Tasks, StartPoll(t) \/ PollAgain(t) PROVE WakeInv'
  <2>1. BeginPoll(t) BY <1>6 DEF StartPoll, PollAgain
  <2>2. pc'[t] = "check" /\ round'[t] = 1 /\ waker' = waker BY <2>1 DEF BeginPoll, shared
  <2>3. \A u \in Tasks \ {t} :
           pc'[u] = pc[u] /\ round'[u] = round[u] /\ awake'[u] = awake[u]
    BY <2>1 DEF BeginPoll
  <2>4. 1 \in 1 .. Checks[t] BY <1>0
  <2> HIDE DEF WakeInv, TypeOK
  <2> QED BY <1>5, <2>2, <2>3, <2>4
<1>7. ASSUME NEW t \in Tasks, NextCheck(t) PROVE WakeInv'
  <2>1. round[t] + 1 \in 1 .. Checks[t] /\ (waker = t \/ awake[t])
    BY <1>0, <1>7 DEF NextCheck, RoundOver, RoundInv, InPoll
  <2> QED BY <1>5, <1>7, <2>1 DEF NextCheck, shared
<1>8. ASSUME NEW t \in Tasks, NextFrame(t) PROVE WakeInv'
  BY <1>0, <1>5, <1>8 DEF NextFrame, shared
<1>9. ASSUME NEW t \in Tasks, NEW e \in Errors, DriverError(t, e) PROVE WakeInv'
  <2>1. round[t] \in 1 .. Checks[t] /\ (waker = t \/ awake[t])
    BY <1>9 DEF DriverError, RoundInv, InPoll
  <2> QED BY <1>5, <1>9, <2>1 DEF DriverError
(* Once the driver has handled the error nobody needs to be woken.         *)
<1>10. ASSUME NEW t \in Tasks, handled' # None, RoundInv' PROVE WakeInv'
  BY <1>10 DEF SomebodyListens, SomebodyAlert
<1>11. ASSUME NEW t \in Tasks, UNCHANGED waker, \A u \in Tasks : awake[u] => awake'[u],
              \/ pc' = [pc EXCEPT ![t] = "done"] /\ round' = [round EXCEPT ![t] = 0]
              \/ pc[t] = "check" /\ pc' = [pc EXCEPT ![t] = "again"] /\ UNCHANGED round
       PROVE  RoundInv'
  BY <1>11 DEF RoundInv, InPoll
<1>12. ASSUME NEW t \in Tasks, CheckHandled(t) \/ HandleAgain(t) PROVE WakeInv'
  <2>1. handled' # None BY <1>12 DEF CheckHandled, HandleAgain, ErrorInv
  <2>2. RoundInv' BY <1>11, <1>12 DEF CheckHandled, HandleAgain, ReturnError, shared
  <2> QED BY <1>10, <2>1, <2>2
<1>13. ASSUME NEW t \in Tasks, CheckFindsError(t) \/ DriverClose(t) PROVE WakeInv'
  <2>1. connection_error \in Errors BY <1>13 DEF CheckFindsError, DriverClose, ErrorInv
  <2>2. CloseAndRemember(connection_error) BY <1>13 DEF CheckFindsError, DriverClose
  <2>3. handled' # None BY <2>1, <2>2, ConvertNotNone DEF CloseAndRemember
  <2>4. \A u \in Tasks : awake[u] => awake'[u] BY <2>2 DEF CloseAndRemember
  <2>5. RoundInv'
    <3>1. CASE CheckFindsError(t)
      BY <1>11, <2>4, <3>1 DEF CheckFindsError, ReturnError, shared
    <3>2. CASE DriverClose(t)
      BY <1>11, <2>4, <3>2 DEF DriverClose, ReturnError, shared
    <3> QED BY <1>13, <3>1, <3>2
  <2> QED BY <1>10, <2>3, <2>5
(* Between the check and the registration of a last round the registration *)
(* of an earlier round counts.                                             *)
<1>14. ASSUME NEW t \in Tasks, CheckFindsNone(t) PROVE WakeInv'
  <2>1. /\ UNCHANGED <<round, awake, waker, connection_error, handled, dropped>>
        /\ pc[t] = "check" /\ pc' = [pc EXCEPT ![t] = "register"]
        /\ connection_error = None
    BY <1>14 DEF CheckFindsNone, shared
  <2>2. RoundInv' BY <2>1 DEF RoundInv, InPoll
  <2>3. round[t] \in 1 .. Checks[t] /\ (round[t] > 1 => waker = t \/ awake[t])
    BY <2>1 DEF RoundInv, InPoll
  <2>4. round[t] < Checks[t] \/ waker = t \/ awake[t] BY <1>0, <2>3
  <2>5. pc'[t] \notin Idle /\ (Alert(t)' \/ waker' = t) BY <2>1, <2>4 DEF Alert, Idle
  <2>6. SomebodyListens' BY <2>5 DEF SomebodyListens
  <2>7. SomebodyAlert' BY <2>1 DEF SomebodyAlert
  <2> QED BY <2>2, <2>6, <2>7
<1>15. ASSUME NEW t \in Tasks, RegisterWaker(t) PROVE WakeInv'
  <2>1. /\ UNCHANGED <<round, awake, connection_error, handled, dropped, hpc>>
        /\ pc[t] = "register" /\ pc' = [pc EXCEPT ![t] = "work"] /\ waker' = t
    BY <1>15 DEF RegisterWaker, handles
  <2>2. \A u \in Tasks \ {t} : pc[u] \notin InPoll BY <2>1 DEF PollerInv, InPoll
  <2>3. RoundInv' BY <2>1, <2>2 DEF RoundInv, InPoll
  <2>4. SomebodyListens' BY <2>1 DEF SomebodyListens, Idle
  <2>5. \A u \in Tasks : Alert(u) => Alert(u)' BY <2>1 DEF Alert, Idle
  <2>6. SomebodyAlert' BY <2>1, <2>5 DEF SomebodyAlert
  <2> QED BY <2>3, <2>4, <2>6
<1>16. ASSUME NEW t \in Tasks, EndPoll(t) PROVE WakeInv'
  <2>1. /\ UNCHANGED <<waker, awake, connection_error, handled, dropped, hpc>>
        /\ pc[t] \in {"work", "polled"} /\ pc' = [pc EXCEPT ![t] = "idle"]
        /\ round[t] = Checks[t] /\ round' = [round EXCEPT ![t] = 0]
    BY <1>16 DEF EndPoll, RoundOver, handles, shared
  <2>2. RoundInv' BY <2>1 DEF RoundInv, InPoll
  <2>3. waker = t \/ awake[t] BY <2>1 DEF RoundInv, InPoll
  <2>4. SomebodyListens' BY <2>1, <2>3 DEF SomebodyListens, Idle, Alert
  <2>5. \A u \in Tasks : Alert(u) => Alert(u)' BY <1>0, <2>1 DEF Alert, Idle
  <2>6. SomebodyAlert' BY <2>1, <2>5 DEF SomebodyAlert
  <2> QED BY <2>2, <2>4, <2>6
(* An accept future takes the waker of a task that is registered already.  *)
<1>20. ASSUME NEW t \in Tasks, PollIncoming(t) PROVE WakeInv'
  <2>1. /\ UNCHANGED <<round, waker, awake, connection_error, handled, dropped, hpc>>
        /\ pc[t] = "work" /\ pc' = [pc EXCEPT ![t] = "polled"]
    BY <1>20 DEF PollIncoming, handles, shared
  <2>2. RoundInv' BY <2>1 DEF RoundInv, InPoll
  <2>3. waker = t \/ awake[t] BY <2>1 DEF RoundInv, InPoll
  <2>4. SomebodyListens' BY <2>1, <2>3 DEF SomebodyListens, Idle, Alert
  <2>5. \A u \in Tasks : Alert(u) => Alert(u)' BY <2>1 DEF Alert, Idle
  <2>6. SomebodyAlert' BY <2>1, <2>5 DEF SomebodyAlert
  <2> QED BY <2>2, <2>4, <2>6
<1>17. ASSUME NEW t \in Tasks, NEW u \in Tasks, MoveOn(t, u) PROVE WakeInv'
  <2>1. /\ UNCHANGED <<round, waker, awake>>
        /\ pc[u] = "new" /\ pc' = [pc EXCEPT ![t] = "retired", ![u] = "idle"] /\ pc[t] = "idle"
    BY <1>17 DEF MoveOn, shared
  <2>2. RoundInv' BY <2>1 DEF RoundInv, InPoll
  <2>3. awake'[u] /\ pc'[u] = "idle" BY <2>1 DEF RoundInv
  <2>4. Alert(u)' /\ pc'[u] \notin Idle BY <2>3 DEF Alert, Idle
  <2> QED BY <2>2, <2>4 DEF SomebodyListens, SomebodyAlert
<1>18. CASE DropConnection
  <2>1. RoundInv' BY <1>1, <1>18 DEF DropConnection, shared, tasks
  <2> QED BY <1>18, <2>1 DEF DropConnection, SomebodyListens, SomebodyAlert
<1>19. CASE (\E t \in Tasks : Arrival(t)) \/ (\E e \in QuicErrors : QuicEnds(e)) \/ UNCHANGED vars
  BY <1>2, <1>19 DEF Arrival, QuicEnds, shared, tasks, handles, vars
<1> QED BY <1>4, <1>6, <1>7, <1>8, <1>9, <1>12, <1>13, <1>14, <1>15, <1>16, <1>17, <1>18, <1>19,
           <1>20 DEF Next, TaskStep
(***************************************************************************)
(* The theorems.                                                           *)
(***************************************************************************)
IInv == /\ TypeOK
        /\ SenderInv
        /\ PollerInv
        /\ ErrorInv
        /\ Agreement
        /\ ClosedOnceForFirstError
        /\ LastInv

(* The inductive invariant holds of a connection just built.               *)
LEMMA InitIInv == Init => IInv
<1> SUFFICES ASSUME Init PROVE IInv OBVIOUS
<1>1. PollerInv BY NoneAssumption DEF Init, PollerInv, InPoll
<1>2. ErrorInv /\ Agreement BY DEF Init, ErrorInv, Agreement
<1>3. ClosedOnceForFirstError
  <2>1. <<>> \o <<>> = <<>> BY ConcatEmptySeq
  <2> QED BY <2>1 DEF Init, ClosedOnceForFirstError
<1>4. LastInv
  <2>1. connection_error # "H3_NO_ERROR" BY NoneAssumption, ErrorsAssumption DEF Init
  <2> QED BY <2>1 DEF Init, LastInv, Handles
<1> QED BY <1>1, <1>2, <1>3, <1>4, InitType, InitSenders DEF IInv

(* The inductive invariant of the error cell holds in every reachable      *)
(* state; it is the conjunction of type correctness with what each party   *)
(* knows about the recorded error at every point of its code.              *)
THEOREM Invariance == Spec => []IInv
<1>1. IInv /\ [Next]_vars => IInv'
  BY NextType, NextSenders, NextPoller, NextError, NextClosed, NextLast DEF IInv
<1> QED BY InitIInv, <1>1, PTL DEF Spec

(* Type correctness; in particular sender_count never goes below zero.     *)
THEOREM TypeCorrect == Spec => []TypeOK
<1>1. IInv => TypeOK BY DEF IInv
<1> QED BY <1>1, Invariance, PTL

(* All tasks, streams and SendRequest handles that return a connection     *)
(* error return the same one, the first recorded.                          *)
THEOREM AllAgree == Spec => []Agreement
<1>1. IInv => Agreement BY DEF IInv
<1> QED BY <1>1, Invariance, PTL

(* QUIC is closed at most once for an error, with the first error's code.  *)
THEOREM ClosedOnce == Spec => []ClosedOnceForFirstError
<1>1. IInv => ClosedOnceForFirstError BY DEF IInv
<1> QED BY <1>1, Invariance, PTL

(* No clone of SendRequest is left when the connection ends with NO_ERROR  *)
(* on behalf of the last one, whatever clones and drops raced.             *)
THEOREM LastSender == Spec => []NoErrorOnlyAfterLastSender
<1>1. IInv => NoErrorOnlyAfterLastSender
  BY DEF IInv, LastInv, LiveSenders, NoErrorOnlyAfterLastSender, TypeOK, Handles
<1> QED BY <1>1, Invariance, PTL

(* As long as every poll checks the error cell at least twice, the later   *)
(* check covers the gap between the earlier check and its registration:    *)
(* no wake-up is lost, whatever the number of tasks and streams.           *)
THEOREM WakeupNotLost ==
  ASSUME \A t \in Tasks : Checks[t] > 1
  PROVE  Spec => []NoLostWakeup
<1>1. IInv /\ WakeInv /\ [Next]_vars => WakeInv'
  BY NextWake DEF IInv
<1>2. WakeInv => NoLostWakeup
  BY DEF WakeInv, SomebodyAlert, NoLostWakeup, Alert, Asleep, Idle
<1> QED BY Invariance, InitWake, <1>1, <1>2, PTL DEF Spec
(***************************************************************************)
(* Refinement: with told <- result and wire <- the first close, Driver     *)
(* implements ConnectionErrorCell.                                         *)
(***************************************************************************)
Wire == IF closes = <<>> THEN None ELSE closes[1]

(* Closing for the recorded error, when nothing was closed before, sets    *)
(* the wire to the code that error closes with.                            *)
LEMMA CloseSetsWire ==
  ASSUME TypeOK, PollerInv, ErrorInv, ClosedOnceForFirstError,
         NEW t \in Tasks, pc[t] \in InPoll, handled = None, connection_error # None,
         CloseAndRemember(connection_error)
  PROVE  Wire = None /\ Wire' = close_code(connection_error)
<1>1. ~dropped BY NoneAssumption DEF PollerInv, TypeOK
<1>2. closes = <<>>
  BY <1>1, ConcatEmptySeq DEF ClosedOnceForFirstError
<1>3. close_if_needed(connection_error) \in Seq(Codes) BY CloseIsCodes DEF TypeOK
<1>4. closes' = close_if_needed(connection_error)
  BY <1>2, <1>3, ConcatEmptySeq DEF CloseAndRemember
<1> QED BY <1>2, <1>4 DEF Wire, close_code

(* The cell starts empty.                                                  *)
LEMMA InitCell == Init => Cell!Init
BY DEF Init, Cell!Init

(* Every step of the code is a step of the cell, or changes nothing of it. *)
LEMMA StepCell ==
  ASSUME IInv, [Next]_vars
  PROVE  [Cell!Next]_(Cell!vars)
<1> USE DEF IInv
<1> DEFINE Parties == Tasks \cup Handles
<1>1. ASSUME UNCHANGED <<connection_error, result, closes>> PROVE UNCHANGED Cell!vars
  BY <1>1 DEF Cell!vars
<1>2. ASSUME NEW e \in Errors, connection_error' = set_conn_error(e), UNCHANGED <<result, closes>>
      PROVE  [Cell!Next]_(Cell!vars)
  BY <1>2 DEF set_conn_error, Cell!vars, Cell!Next, Cell!Decide
<1>3. ASSUME NEW p \in Parties, connection_error # None, UNCHANGED connection_error,
             result' = [result EXCEPT ![p] = convert_to_connection_error(connection_error)],
             UNCHANGED closes \/ (Wire = None /\ Wire' = close_code(connection_error))
      PROVE  Cell!Next
  <2>1. Cell!Learn(p) BY <1>3 DEF Cell!Learn, Wire
  <2> QED BY <2>1 DEF Cell!Next
<1>4. ASSUME connection_error # None, UNCHANGED <<connection_error, result>>,
             Wire = None, Wire' = close_code(connection_error)
      PROVE  Cell!Next
  BY <1>4 DEF Cell!Next, Cell!Close, Wire
<1>5. CASE HandleNext
  <2>1. ASSUME NEW h \in Handles, WakeConnection(h) PROVE [Cell!Next]_(Cell!vars)
    <3>1. CASE hpc[h] = "wake"
      <4>1. connection_error # None /\ raising[h] = connection_error
        BY <3>1 DEF ErrorInv
      <4>2. UNCHANGED <<connection_error, closes>>
            /\ result' = [result EXCEPT ![h] = convert_to_connection_error(connection_error)]
        BY <2>1, <3>1, <4>1 DEF WakeConnection
      <4> QED BY <1>3, <4>1, <4>2
    <3>2. CASE hpc[h] # "wake" BY <1>1, <2>1, <3>2 DEF WakeConnection
    <3> QED BY <3>1, <3>2
  <2>2. ASSUME NEW h \in Handles, SeeQuicError(h) PROVE [Cell!Next]_(Cell!vars)
    BY <1>2, <2>2 DEF SeeQuicError, RecordError, TypeOK, Errors
  <2>3. ASSUME NEW h \in Handles, NEW e \in Codes, RaiseOnStream(h, e)
        PROVE  [Cell!Next]_(Cell!vars)
    BY <1>2, <2>3 DEF RaiseOnStream, RecordError, Errors
  <2>4. ASSUME NEW a \in Senders, LastSenderGone(a) PROVE [Cell!Next]_(Cell!vars)
    BY <1>2, <2>4, ErrorsAssumption DEF LastSenderGone, RecordError, Errors
  <2>5. ASSUME NEW a \in Senders, DropSender(a) \/ \E b \in Senders : CloneSender(a, b)
        PROVE  [Cell!Next]_(Cell!vars)
    BY <1>1, <2>5 DEF DropSender, CloneSender, shared
  <2> QED BY <1>5, <2>1, <2>2, <2>3, <2>4, <2>5 DEF HandleNext
<1>6. ASSUME NEW t \in Tasks, CheckHandled(t) \/ HandleAgain(t) PROVE Cell!Next
  <2>1. handled # None BY <1>6 DEF CheckHandled, HandleAgain, ErrorInv
  <2>2. connection_error # None /\ handled = convert_to_connection_error(connection_error)
    BY <2>1 DEF ErrorInv, Agreement
  <2>3. UNCHANGED <<connection_error, closes>> /\ result' = [result EXCEPT ![t] = handled]
    BY <1>6 DEF CheckHandled, HandleAgain, ReturnError, shared
  <2> QED BY <1>3, <2>2, <2>3
<1>7. ASSUME NEW t \in Tasks, CheckFindsError(t) \/ DriverClose(t) PROVE Cell!Next
  <2>1. /\ pc[t] \in InPoll /\ handled = None /\ connection_error # None
        /\ CloseAndRemember(connection_error) /\ UNCHANGED connection_error
    BY <1>7 DEF CheckFindsError, DriverClose, ErrorInv, InPoll, shared
  <2>2. Wire = None /\ Wire' = close_code(connection_error) BY <2>1, CloseSetsWire
  <2>3. \/ UNCHANGED result
        \/ result' = [result EXCEPT ![t] = convert_to_connection_error(connection_error)]
    BY <1>7 DEF CheckFindsError, DriverClose, ReturnError
  <2> QED BY <1>3, <1>4, <2>1, <2>2, <2>3
<1>8. ASSUME NEW t \in Tasks, NEW e \in Errors, DriverError(t, e) PROVE [Cell!Next]_(Cell!vars)
  BY <1>2, <1>8 DEF DriverError
<1>9. ASSUME NEW t \in Tasks,
             CheckFindsNone(t) \/ RegisterWaker(t) \/ PollIncoming(t) \/ NextCheck(t)
             \/ EndPoll(t) \/ StartPoll(t) \/ PollAgain(t) \/ NextFrame(t) \/ Arrival(t)
             \/ (\E u \in Tasks : MoveOn(t, u))
      PROVE  UNCHANGED Cell!vars
  BY <1>1, <1>9 DEF CheckFindsNone, RegisterWaker, PollIncoming, NextCheck, EndPoll,
     StartPoll, PollAgain, BeginPoll, NextFrame, Arrival, MoveOn, shared
<1>10. CASE DropConnection
  <2>1. UNCHANGED <<connection_error, result>> BY <1>10 DEF DropConnection, shared
  <2>2. CASE role = "server"
    <3>1. closes' = closes \o <<"H3_NO_ERROR">> BY <1>10, <2>2 DEF DropConnection
    <3>2. CASE closes = <<>>
      <4>1. closes' = <<"H3_NO_ERROR">>
        BY <3>1, <3>2, ErrorsAssumption, ConcatEmptySeq DEF TypeOK
      <4>2. Wire = None /\ Wire' = "H3_NO_ERROR" BY <3>2, <4>1 DEF Wire
      <4> QED BY <2>1, <4>2 DEF Cell!Next, Cell!Drop, Wire
    <3>3. CASE closes # <<>>
      <4>1. closes' # <<>> /\ closes'[1] = closes[1]
        BY <3>1, <3>3, ErrorsAssumption DEF TypeOK
      <4> QED BY <2>1, <3>3, <4>1 DEF Cell!vars
    <3> QED BY <3>2, <3>3
  <2>3. CASE role # "server"
    <3>1. closes' = closes BY <1>10, <2>3, ConcatEmptySeq DEF DropConnection, TypeOK
    <3> QED BY <1>1, <2>1, <3>1
  <2> QED BY <2>2, <2>3
<1>11. CASE (\E e \in QuicErrors : QuicEnds(e)) \/ UNCHANGED vars
  BY <1>1, <1>11 DEF QuicEnds, shared, vars
<1> QED BY <1>5, <1>6, <1>7, <1>8, <1>9, <1>10, <1>11 DEF Next, TaskStep

(* Driver implements the abstract cell: one decision, reported alike by    *)
(* all, and one close.                                                     *)
THEOREM Refinement == Spec => ImplementsCell
<1>1. IInv /\ [Next]_vars => [Cell!Next]_(Cell!vars) BY StepCell
<1> QED BY Invariance, InitCell, <1>1, PTL DEF Spec, ImplementsCell, Cell!Spec
=============================================================================
