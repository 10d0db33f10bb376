---------------------------- MODULE ControlProofs ----------------------------
(***************************************************************************)
(* Proofs about module Control, for any number of the peer's streams, any  *)
(* frames in any order and any number of them, and both roles.             *)
(***************************************************************************)
EXTENDS Control, TLAPS

(***************************************************************************)
(* The inductive invariant.                                                *)
(***************************************************************************)

(* There is an error exactly when the poll has failed, and a frame in      *)
(* poll_control's hand while it deals with grease.                         *)
PollInv ==
  /\ pc = "failed" <=> error # None
  /\ pc = "grease" => frame \in Frames

(* A stream that was sorted has a header, and unless a second one of its   *)
(* kind has failed the connection it is the registered one.                *)
CriticalInv ==
  \A k \in Uni : ustate[k] = "taken" =>
    /\ utype[k] # None
    /\ error # "H3_STREAM_CREATION_ERROR" =>
         /\ utype[k] = "control" => control_recv = k
         /\ utype[k] = "encoder" => encoder_recv = k
         /\ utype[k] = "decoder" => decoder_recv = k

(* c is the lowest GOAWAY of a sequence of frames, None if it has none.    *)
IsGoaway(s, j) == s[j].type = "GOAWAY"
Lowest(c, s) ==
  /\ c = None => \A j \in 1 .. Len(s) : ~IsGoaway(s, j)
  /\ c # None =>
       /\ c \in Nat
       /\ \E j \in 1 .. Len(s) : IsGoaway(s, j) /\ s[j].id = c
       /\ \A j \in 1 .. Len(s) : IsGoaway(s, j) => c <= s[j].id

(* Without grease in the way, and as long as there is no error: the frames *)
(* read are those handled, but for the one in poll_control's hand, and     *)
(* what is remembered of them decides about the next one.                  *)
HistoryInv ==
  ~send_grease =>
    /\ ~send_grease_stream_flag
    /\ error = None =>
         /\ pc # "grease" => handled = consumed
         /\ pc = "grease" =>
              /\ consumed = Append(handled, frame)
              /\ frame.type \in {"SETTINGS", "CANCEL_PUSH", "MAX_PUSH_ID", "GOAWAY"}
              /\ frame.type = "SETTINGS" <=> handled = <<>>
         /\ got_peer_settings <=> consumed # <<>>
         /\ Lowest(recv_closing, handled)
         /\ \A i \in 1 .. Len(handled) : Verdict(role, handled, i) = None

IInv == TypeOK /\ PollInv /\ CriticalInv /\ HistoryInv /\ FramesJudged

(***************************************************************************)
(* Frames and sequences of them.                                           *)
(***************************************************************************)

(* The fields of a frame.                                                  *)
LEMMA FrameFields ==
  ASSUME NEW f \in Frames
  PROVE  /\ f.type \in {"GOAWAY", "closed", "truncated", "malformed", "SETTINGS",
                        "CANCEL_PUSH", "MAX_PUSH_ID", "HEADERS"}
         /\ f.id \in Nat
         /\ f.type = "GOAWAY" => f.id \in GoawayIds
<1>1. CASE \E id \in GoawayIds : f = Goaway(id)
  BY <1>1, GoawayIdsAssumption DEF Goaway
<1>2. CASE f \in Ends BY <1>2 DEF Ends, Plain
<1>3. CASE f \in {Plain(t) : t \in {"SETTINGS", "CANCEL_PUSH", "HEADERS"}} BY <1>3 DEF Plain
<1>4. CASE \E id \in PushIds : f = MaxPushId(id)
  BY <1>4, PushIdsAssumption DEF MaxPushId
<1> QED BY <1>1, <1>2, <1>3, <1>4 DEF Frames

(* The verdict on a frame does not depend on those after it.               *)
LEMMA VerdictAppend ==
  ASSUME NEW s \in Seq(Frames), NEW f \in Frames, NEW r, NEW i \in 1 .. Len(s)
  PROVE  Verdict(r, Append(s, f), i) = Verdict(r, s, i)
<1> DEFINE t == Append(s, f)
<1>1. t[i] = s[i] /\ \A j \in 1 .. (i - 1) : t[j] = s[j] OBVIOUS
<1> HIDE DEF t
<1>2. PushIdWrong(r, t, i) <=> PushIdWrong(r, s, i) BY <1>1 DEF PushIdWrong
<1>3. GoawayWrong(r, t, i) <=> GoawayWrong(r, s, i) BY <1>1 DEF GoawayWrong
<1>4. Demanded(r, t, i) = Demanded(r, s, i) BY <1>1, <1>2, <1>3 DEF Demanded
<1>5. Verdict(r, t, i) = Verdict(r, s, i) BY <1>2, <1>4 DEF Verdict
<1> QED BY <1>5 DEF t

(* The error poll_control answers a frame with is a code.                  *)
LEMMA ControlErrorType ==
  ASSUME NEW f \in Frames
  PROVE  ControlError(f) \in Codes \cup {None}
BY FrameFields DEF ControlError, Codes

(***************************************************************************)
(* Type correctness.                                                       *)
(***************************************************************************)

(* The types hold at the start.                                            *)
LEMMA InitType == Init => TypeOK
<1> SUFFICES ASSUME Init PROVE TypeOK OBVIOUS
<1>1. PICK c \in Configs : role = c.role /\ send_grease = c.send_grease BY DEF Init
<1>2. c = [role |-> c.role, send_grease |-> c.send_grease] /\ c.send_grease \in BOOLEAN
  BY ConfigAssumption
<1>3. [role |-> role, send_grease |-> send_grease] \in Configs BY <1>1, <1>2
<1>4. send_grease_stream_flag \in BOOLEAN BY <1>1, <1>2 DEF Init
<1>5. sent \in 0 .. MaxFrames BY MaxFramesAssumption DEF Init
<1>6. PeerTypes
  <2>1. /\ ustate = [k \in Uni |-> "none"] /\ utype = [k \in Uni |-> None]
        /\ bidi = FALSE /\ inbox = <<>>
    BY DEF Init
  <2>2. inbox \in Seq(Frames) BY <2>1
  <2>3. ustate \in [Uni -> {"none", "arrived", "pending", "taken"}] BY <2>1
  <2>4. utype \in [Uni -> StreamTypes \cup {None}] BY <2>1
  <2>5. bidi \in BOOLEAN BY <2>1
  <2> QED BY <1>5, <2>2, <2>3, <2>4, <2>5 DEF PeerTypes
<1>7. StreamsTypes BY DEF Init, StreamsTypes
<1>8. DriverTypes
  <2>1. /\ got_peer_settings = FALSE /\ recv_closing = None /\ error = None /\ pc = "idle"
        /\ frame = None /\ consumed = <<>> /\ handled = <<>>
    BY DEF Init
  <2>2. consumed \in Seq(Frames) /\ handled \in Seq(Frames) BY <2>1
  <2>3. got_peer_settings \in BOOLEAN BY <2>1
  <2> QED BY <2>1, <2>2, <2>3 DEF DriverTypes
<1>9. TaskTypes BY <1>4 DEF Init, TaskTypes
<1> QED BY <1>3, <1>6, <1>7, <1>8, <1>9 DEF TypeOK

(* Frames the role is given are handled: the error and recv_closing stay   *)
(* what they may be.                                                       *)
LEMMA HandleType ==
  ASSUME TypeOK, NEW f \in Frames,
         \/ role = "client" /\ poll_close(f)
         \/ role # "client" /\ poll_next_control(f)
  PROVE  /\ recv_closing' \in GoawayIds \cup {None} /\ error' \in Codes \cup {None}
         /\ pc' \in {"accept", "failed"}
<1>1. recv_closing \in GoawayIds \cup {None} /\ error \in Codes \cup {None}
  BY DEF TypeOK, DriverTypes
<1>2. f.type = "GOAWAY" => f.id \in GoawayIds BY FrameFields
<1>3. CASE poll_close(f)
  BY <1>1, <1>2, <1>3 DEF poll_close, process_goaway, Fail, Codes
<1>4. CASE poll_next_control(f)
  BY <1>1, <1>2, <1>4 DEF poll_next_control, process_goaway, Fail, Codes
<1> QED BY <1>3, <1>4

(* The endpoint is what it was configured to be.                           *)
LEMMA ConfigKept ==
  ASSUME [Next]_vars
  PROVE  UNCHANGED <<role, send_grease>>
<1>1. CASE PeerNext BY <1>1 DEF PeerNext, OpenUni, SendHeader, SendFrame, OpenBidi, UnblockGrease
<1>2. CASE Step BY <1>2 DEF Step, StartPoll, AcceptRecv, Resolve, NothingToRead, ReadFrame,
                            GreasePending, GreaseOver, HandleFrame, EndPoll
<1>3. CASE PopWebTransport BY <1>3 DEF PopWebTransport
<1>4. CASE UNCHANGED vars BY <1>4 DEF vars
<1> QED BY <1>1, <1>2, <1>3, <1>4 DEF Next

(* Every step keeps the types of what the peer and QUIC hold ...           *)
LEMMA NextPeerTypes ==
  ASSUME TypeOK, [Next]_vars
  PROVE  PeerTypes'
<1>0. PeerTypes BY DEF TypeOK
<1>1. ASSUME UNCHANGED peer PROVE PeerTypes' BY <1>0, <1>1 DEF peer, PeerTypes
<1>2. ASSUME NEW k \in Uni, OpenUni(k) PROVE PeerTypes'
  BY <1>0, <1>2 DEF OpenUni, PeerTypes
<1>3. ASSUME NEW k \in Uni, NEW type \in StreamTypes, SendHeader(k, type) PROVE PeerTypes'
  BY <1>0, <1>3 DEF SendHeader, PeerTypes
<1>4. ASSUME NEW f \in Frames, SendFrame(f) PROVE PeerTypes'
  BY <1>0, <1>4, MaxFramesAssumption DEF SendFrame, PeerTypes
<1>5. CASE OpenBidi BY <1>0, <1>5 DEF OpenBidi, PeerTypes
<1>6. CASE AcceptRecv BY <1>0, <1>6 DEF AcceptRecv, PeerTypes
<1>7. ASSUME NEW k \in Uni, Resolve(k) PROVE PeerTypes' BY <1>0, <1>7 DEF Resolve, PeerTypes
<1>8. CASE ReadFrame BY <1>0, <1>8 DEF ReadFrame, PeerTypes
<1>9. CASE EndPoll
  <2>1. bidi' \in BOOLEAN BY <1>0, <1>9 DEF EndPoll, PeerTypes
  <2> QED BY <1>0, <1>9, <2>1 DEF EndPoll, PeerTypes
<1>10. CASE \/ UnblockGrease \/ StartPoll \/ NothingToRead \/ HandleFrame \/ PopWebTransport
            \/ \E step \in DOMAIN Rank : GreasePending(step) \/ GreaseOver(step)
            \/ UNCHANGED vars
  BY <1>1, <1>10 DEF UnblockGrease, StartPoll, NothingToRead, HandleFrame, PopWebTransport,
     GreasePending, GreaseOver, vars
<1> QED BY <1>2, <1>3, <1>4, <1>5, <1>6, <1>7, <1>8, <1>9, <1>10 DEF Next, Step, PeerNext

(* ... of the streams that were sorted ...                                 *)
LEMMA NextStreamsTypes ==
  ASSUME TypeOK, [Next]_vars
  PROVE  StreamsTypes'
<1>0. StreamsTypes BY DEF TypeOK
<1>1. ASSUME UNCHANGED critical PROVE StreamsTypes' BY <1>0, <1>1 DEF critical, StreamsTypes
<1>2. ASSUME NEW k \in Uni, Resolve(k) PROVE StreamsTypes'
  BY <1>0, <1>2 DEF Resolve, StreamsTypes
<1>3. CASE PopWebTransport BY <1>0, <1>3 DEF PopWebTransport, StreamsTypes
<1>4. CASE \/ PeerNext \/ StartPoll \/ AcceptRecv \/ NothingToRead \/ ReadFrame \/ HandleFrame
           \/ \E step \in DOMAIN Rank : GreasePending(step) \/ GreaseOver(step)
           \/ EndPoll \/ UNCHANGED vars
  BY <1>1, <1>4 DEF PeerNext, OpenUni, SendHeader, SendFrame, OpenBidi, UnblockGrease, StartPoll,
     AcceptRecv, NothingToRead, ReadFrame, HandleFrame, GreasePending, GreaseOver, EndPoll, vars
<1> QED BY <1>2, <1>3, <1>4 DEF Next, Step

(* ... of the driver ...                                                   *)
LEMMA NextDriverTypes ==
  ASSUME TypeOK, PollInv, [Next]_vars
  PROVE  DriverTypes'
<1>0. DriverTypes BY DEF TypeOK
<1>1. ASSUME UNCHANGED <<got_peer_settings, recv_closing, consumed, handled>>,
             error' \in Codes \cup {None},
             pc' \in {"idle", "accept", "resolve", "grease", "accept bi", "failed"},
             frame' \in Frames \cup {None}
      PROVE  DriverTypes'
  BY <1>0, <1>1 DEF DriverTypes
<1>2. ASSUME NEW k \in Uni, Resolve(k) PROVE DriverTypes'
  <2>1. error' \in Codes \cup {None}
        /\ pc' \in {"idle", "accept", "resolve", "grease", "accept bi", "failed"}
    BY <1>0, <1>2 DEF Resolve, Fail, Codes, DriverTypes
  <2> QED BY <1>0, <1>1, <1>2, <2>1 DEF Resolve, DriverTypes
<1>3. CASE ReadFrame
  <2>1. Head(inbox) \in Frames /\ consumed' \in Seq(Frames)
    <3>1. inbox \in Seq(Frames) /\ inbox # <<>> /\ consumed \in Seq(Frames)
      BY <1>0, <1>3 DEF ReadFrame, TypeOK, PeerTypes, DriverTypes
    <3>2. consumed' = Append(consumed, Head(inbox)) BY <1>3 DEF ReadFrame
    <3> QED BY <3>1, <3>2
  <2>2. ControlError(Head(inbox)) \in Codes \cup {None} BY <2>1, ControlErrorType
  <2>3. UNCHANGED <<recv_closing, handled>> BY <1>3 DEF ReadFrame
  <2>4. CASE ControlError(Head(inbox)) # None
    BY <1>0, <1>3, <2>1, <2>2, <2>3, <2>4 DEF ReadFrame, Fail, DriverTypes
  <2>5. CASE ControlError(Head(inbox)) = None
    <3>1. got_peer_settings' \in BOOLEAN BY <1>3, <2>5 DEF ReadFrame
    <3> QED BY <1>0, <1>3, <2>1, <2>3, <2>5, <3>1 DEF ReadFrame, DriverTypes
  <2> QED BY <2>4, <2>5
<1>4. CASE HandleFrame
  <2>1. frame \in Frames BY <1>4 DEF HandleFrame, PollInv
  <2>2. /\ recv_closing' \in GoawayIds \cup {None} /\ error' \in Codes \cup {None}
        /\ pc' \in {"accept", "failed"}
    BY <1>4, <2>1, HandleType DEF HandleFrame
  <2>3. handled' \in Seq(Frames) /\ UNCHANGED <<got_peer_settings, consumed>> /\ frame' = None
    BY <1>0, <1>4, <2>1 DEF HandleFrame, DriverTypes
  <2> QED BY <1>0, <2>2, <2>3 DEF DriverTypes
<1>5. CASE EndPoll
  <2>1. error' \in Codes \cup {None} /\ pc' \in {"idle", "failed"}
    BY <1>0, <1>5 DEF EndPoll, Fail, Codes, DriverTypes
  <2> QED BY <1>0, <1>1, <1>5, <2>1 DEF EndPoll, DriverTypes
<1>6. CASE \/ PeerNext \/ StartPoll \/ AcceptRecv \/ NothingToRead \/ PopWebTransport
           \/ \E step \in DOMAIN Rank : GreasePending(step) \/ GreaseOver(step)
           \/ UNCHANGED vars
  <2>1. /\ UNCHANGED <<got_peer_settings, recv_closing, consumed, handled, error>>
        /\ UNCHANGED pc \/ pc' \in {"accept", "resolve", "accept bi"}
        /\ UNCHANGED frame \/ frame' = None
    BY <1>6 DEF PeerNext, OpenUni, SendHeader, SendFrame, OpenBidi, UnblockGrease, StartPoll,
       AcceptRecv, NothingToRead, PopWebTransport, GreasePending, GreaseOver, vars, task
  <2> QED BY <1>0, <1>1, <2>1 DEF DriverTypes
<1> QED BY <1>2, <1>3, <1>4, <1>5, <1>6 DEF Next, Step

(* ... and of the task.                                                    *)
LEMMA NextTaskTypes ==
  ASSUME TypeOK, [Next]_vars
  PROVE  TaskTypes'
<1>0. TaskTypes BY DEF TypeOK
<1>1. ASSUME UNCHANGED grease, awake' \in BOOLEAN, armed' \subseteq {"accept", "control", "grease"}
      PROVE  TaskTypes'
  BY <1>0, <1>1 DEF grease, TaskTypes
<1>2. CASE PeerNext
  <2>1. awake' \in BOOLEAN
    BY <1>2 DEF PeerNext, OpenUni, SendHeader, SendFrame, OpenBidi, UnblockGrease, Notify
  <2>2. UNCHANGED grease /\ UNCHANGED armed
    BY <1>2 DEF PeerNext, OpenUni, SendHeader, SendFrame, OpenBidi, UnblockGrease
  <2> QED BY <1>0, <1>1, <2>1, <2>2 DEF TaskTypes
<1>3. ASSUME NEW step \in DOMAIN Rank, GreasePending(step) \/ GreaseOver(step) PROVE TaskTypes'
  <2>1. step \in {"NotStarted", "DataPrepared", "DataSent", "Finished"} BY DEF Rank
  <2>2. CASE GreasePending(step) BY <1>0, <2>1, <2>2 DEF GreasePending, TaskTypes
  <2>3. CASE GreaseOver(step) BY <1>0, <2>1, <2>3 DEF GreaseOver, TaskTypes, task
  <2> QED BY <1>3, <2>2, <2>3
<1>4. CASE EndPoll
  <2>1. awake' \in BOOLEAN BY <1>0, <1>4 DEF EndPoll, TaskTypes
  <2> QED BY <1>0, <1>1, <1>4, <2>1 DEF EndPoll, TaskTypes
<1>5. CASE \/ StartPoll \/ AcceptRecv \/ NothingToRead \/ ReadFrame \/ HandleFrame
           \/ PopWebTransport \/ \E k \in Uni : Resolve(k)
           \/ UNCHANGED vars
  BY <1>0, <1>1, <1>5 DEF StartPoll, AcceptRecv, NothingToRead, ReadFrame, HandleFrame,
     PopWebTransport, Resolve, TaskTypes, task, vars
<1> QED BY <1>2, <1>3, <1>4, <1>5 DEF Next, Step

(* Every step keeps the types.                                             *)
LEMMA NextType ==
  ASSUME TypeOK, PollInv, [Next]_vars
  PROVE  TypeOK'
<1>1. [role |-> role, send_grease |-> send_grease]' \in Configs
  BY ConfigKept DEF TypeOK
<1> QED BY <1>1, NextPeerTypes, NextStreamsTypes, NextDriverTypes, NextTaskTypes DEF TypeOK

(***************************************************************************)
(* The poll and the critical streams.                                      *)
(***************************************************************************)

(* The invariants hold at the start.                                       *)
LEMMA InitRest == Init => PollInv /\ CriticalInv /\ HistoryInv /\ FramesJudged
<1> SUFFICES ASSUME Init PROVE PollInv /\ CriticalInv /\ HistoryInv /\ FramesJudged
  OBVIOUS
<1>1. PollInv BY DEF Init, PollInv
<1>2. CriticalInv BY DEF Init, CriticalInv
<1>3. 1 .. Len(<<>>) = {} /\ 1 .. (Len(<<>>) - 1) = {} OBVIOUS
<1>4. HistoryInv
  <2>1. Lowest(recv_closing, handled) BY <1>3 DEF Init, Lowest
  <2> QED BY <1>3, <2>1 DEF Init, HistoryInv
<1>5. FramesJudged BY <1>3 DEF Init, FramesJudged
<1> QED BY <1>1, <1>2, <1>4, <1>5

(* Handling a frame either fails or goes on.                               *)
LEMMA HandleEnds ==
  ASSUME NEW f,
         \/ role = "client" /\ poll_close(f)
         \/ role # "client" /\ poll_next_control(f)
  PROVE  \/ pc' = "failed" /\ error' # None /\ error' # "H3_STREAM_CREATION_ERROR"
         \/ pc' = "accept" /\ error' = error
<1>1. "H3_ID_ERROR" # None /\ "H3_FRAME_UNEXPECTED" # None BY NoneAssumption DEF Codes
<1>2. CASE poll_close(f) BY <1>1, <1>2 DEF poll_close, process_goaway, Fail
<1>3. CASE poll_next_control(f) BY <1>1, <1>3 DEF poll_next_control, process_goaway, Fail
<1> QED BY <1>2, <1>3

(* An error ends the poll, and only an error does.                         *)
LEMMA NextPoll ==
  ASSUME TypeOK, PollInv, [Next]_vars
  PROVE  PollInv'
<1>0. "H3_STREAM_CREATION_ERROR" # None BY NoneAssumption DEF Codes
<1>1. ASSUME UNCHANGED <<pc, error, frame>> PROVE PollInv' BY <1>1 DEF PollInv
<1>2. ASSUME pc # "failed", pc' \notin {"failed", "grease"}, UNCHANGED error PROVE PollInv'
  BY <1>2 DEF PollInv
<1>3. ASSUME pc' = "failed", error' # None PROVE PollInv' BY <1>3 DEF PollInv
<1>4. ASSUME NEW k \in Uni, Resolve(k) PROVE PollInv'
  <2>1. CASE Duplicate(k) BY <1>0, <1>3, <1>4, <2>1 DEF Resolve, Fail
  <2>2. CASE ~Duplicate(k) BY <1>1, <1>4, <2>2 DEF Resolve
  <2> QED BY <2>1, <2>2
<1>5. CASE ReadFrame
  <2>1. Head(inbox) \in Frames /\ pc = "resolve"
    BY <1>5 DEF ReadFrame, AllResolved, TypeOK, PeerTypes
  <2>2. CASE ControlError(Head(inbox)) # None
    BY <1>3, <1>5, <2>2 DEF ReadFrame, Fail
  <2>3. CASE ControlError(Head(inbox)) = None
    BY <1>5, <2>1, <2>3 DEF ReadFrame, PollInv
  <2> QED BY <2>2, <2>3
<1>6. CASE HandleFrame
  <2>1. \/ pc' = "failed" /\ error' # None
        \/ pc' = "accept" /\ error' = error
    BY <1>6, HandleEnds DEF HandleFrame
  <2>2. pc = "grease" BY <1>6 DEF HandleFrame
  <2> QED BY <1>2, <1>3, <2>1, <2>2
<1>7. CASE EndPoll
  <2>1. CASE bidi /\ role = "client" BY <1>0, <1>3, <1>7, <2>1 DEF EndPoll, Fail
  <2>2. CASE ~(bidi /\ role = "client") BY <1>2, <1>7, <2>2 DEF EndPoll
  <2> QED BY <2>1, <2>2
<1>8. CASE StartPoll \/ AcceptRecv \/ NothingToRead
           \/ \E step \in DOMAIN Rank : GreasePending(step)
  BY <1>2, <1>8 DEF StartPoll, AcceptRecv, NothingToRead, AllResolved, GreasePending
<1>9. CASE \/ PeerNext \/ PopWebTransport \/ UNCHANGED vars
           \/ \E step \in DOMAIN Rank : GreaseOver(step)
  BY <1>1, <1>9 DEF PeerNext, OpenUni, SendHeader, SendFrame, OpenBidi, UnblockGrease,
     PopWebTransport, GreaseOver, vars, task
<1> QED BY <1>4, <1>5, <1>6, <1>7, <1>8, <1>9 DEF Next, Step

(* A stream of a kind of which there may be one is registered, or is the   *)
(* second one and fails the connection.                                    *)
LEMMA NextCritical ==
  ASSUME TypeOK, PollInv, CriticalInv, [Next]_vars
  PROVE  CriticalInv'
<1> DEFINE SCE == "H3_STREAM_CREATION_ERROR"
<1>0. /\ None \notin Uni /\ None # SCE /\ None \notin StreamTypes
      /\ ustate \in [Uni -> {"none", "arrived", "pending", "taken"}]
      /\ utype \in [Uni -> StreamTypes \cup {None}]
  BY NoneAssumption, UniAssumption DEF Codes, TypeOK, PeerTypes
<1>1. ASSUME \A k \in Uni : ustate'[k] = "taken" => ustate[k] = "taken" /\ utype'[k] = utype[k],
             UNCHANGED <<control_recv, encoder_recv, decoder_recv>>,
             error' = error \/ error' = SCE \/ error # SCE
      PROVE  CriticalInv'
  BY <1>1 DEF CriticalInv
<1>2. ASSUME NEW k \in Uni, OpenUni(k) PROVE CriticalInv'
  BY <1>0, <1>1, <1>2 DEF OpenUni, critical
<1>3. ASSUME NEW k \in Uni, NEW type \in StreamTypes, SendHeader(k, type) PROVE CriticalInv'
  <2>1. utype[k] = None /\ utype' = [utype EXCEPT ![k] = type]
        /\ UNCHANGED <<ustate, control_recv, encoder_recv, decoder_recv, error>>
    BY <1>3 DEF SendHeader, critical
  <2>2. ustate[k] # "taken" BY <2>1 DEF CriticalInv
  <2>3. \A j \in Uni : ustate'[j] = "taken" => ustate[j] = "taken" /\ utype'[j] = utype[j]
    BY <1>0, <2>1, <2>2
  <2> QED BY <1>1, <2>1, <2>3
<1>4. CASE AcceptRecv BY <1>0, <1>1, <1>4 DEF AcceptRecv, critical
<1>5. ASSUME NEW k \in Uni, Resolve(k) PROVE CriticalInv'
  <2>1. /\ utype[k] # None /\ pc = "resolve" /\ utype' = utype
        /\ ustate' = [ustate EXCEPT ![k] = "taken"]
    BY <1>5 DEF Resolve, Resolvable
  <2>2. error = None BY <2>1 DEF PollInv
  <2>3. \A j \in Uni : ustate'[j] = "taken" => ustate[j] = "taken" \/ j = k
    BY <1>0, <2>1
  <2>4. \A j \in Uni : ustate'[j] = "taken" => utype'[j] # None
    BY <2>1, <2>3 DEF CriticalInv
  <2>5. CASE Duplicate(k)
    <3>1. error' = SCE BY <1>5, <2>5 DEF Resolve, Fail
    <3> QED BY <2>4, <3>1 DEF CriticalInv
  <2>6. CASE ~Duplicate(k)
    <3>1. /\ control_recv' = IF utype[k] = "control" /\ control_recv = None THEN k ELSE control_recv
          /\ encoder_recv' = IF utype[k] = "encoder" THEN k ELSE encoder_recv
          /\ decoder_recv' = IF utype[k] = "decoder" THEN k ELSE decoder_recv
      BY <1>5 DEF Resolve
    <3>2. \A j \in Uni : ustate[j] = "taken" =>
             /\ utype[j] = "control" => control_recv = j
             /\ utype[j] = "encoder" => encoder_recv = j
             /\ utype[j] = "decoder" => decoder_recv = j
      BY <1>0, <2>2 DEF CriticalInv
    <3>3. /\ utype[k] = "control" => control_recv = None
          /\ utype[k] = "encoder" => encoder_recv = None
          /\ utype[k] = "decoder" => decoder_recv = None
      BY <2>6 DEF Duplicate
    <3>4. ASSUME NEW j \in Uni, ustate'[j] = "taken"
          PROVE  /\ utype[j] = "control" => control_recv' = j
                 /\ utype[j] = "encoder" => encoder_recv' = j
                 /\ utype[j] = "decoder" => decoder_recv' = j
      <4>1. CASE j = k BY <3>1, <3>3, <4>1
      <4>2. CASE j # k
        <5>1. ustate[j] = "taken" BY <2>3, <3>4, <4>2
        <5> QED BY <1>0, <3>1, <3>2, <3>3, <5>1
      <4> QED BY <4>1, <4>2
    <3> QED BY <2>1, <2>4, <3>4 DEF CriticalInv
  <2> QED BY <2>5, <2>6
<1>6. CASE \/ ReadFrame \/ HandleFrame \/ EndPoll
  <2>1. error = None /\ UNCHANGED <<ustate, utype, control_recv, encoder_recv, decoder_recv>>
    BY <1>6 DEF ReadFrame, AllResolved, HandleFrame, EndPoll, peer, critical, PollInv
  <2> QED BY <1>0, <1>1, <2>1
<1>7. CASE \/ StartPoll \/ NothingToRead \/ PopWebTransport \/ OpenBidi \/ UnblockGrease
           \/ (\E f \in Frames : SendFrame(f))
           \/ (\E step \in DOMAIN Rank : GreasePending(step) \/ GreaseOver(step))
           \/ UNCHANGED vars
  BY <1>1, <1>7 DEF StartPoll, NothingToRead, PopWebTransport, OpenBidi, UnblockGrease, SendFrame,
     GreasePending, GreaseOver, peer, critical, vars
<1> QED BY <1>2, <1>3, <1>4, <1>5, <1>6, <1>7 DEF Next, Step, PeerNext

(***************************************************************************)
(* The control stream.                                                     *)
(***************************************************************************)

(* A frame that is no GOAWAY leaves the lowest GOAWAY as it is, and one    *)
(* that does not rise becomes it.                                          *)
LEMMA LowestAppend ==
  ASSUME NEW s \in Seq(Frames), NEW f \in Frames, NEW c, Lowest(c, s)
  PROVE  /\ f.type # "GOAWAY" => Lowest(c, Append(s, f))
         /\ f.type = "GOAWAY" /\ (c = None \/ f.id <= c) => Lowest(f.id, Append(s, f))
<1> DEFINE t == Append(s, f)
<1>1. /\ Len(s) \in Nat /\ Len(t) = Len(s) + 1 /\ t[Len(s) + 1] = f
      /\ \A j \in 1 .. Len(s) : t[j] = s[j]
  OBVIOUS
<1>2. \A j \in 1 .. Len(s) : s[j] \in Frames OBVIOUS
<1>3. f.id \in Nat /\ \A j \in 1 .. Len(s) : s[j].id \in Nat BY <1>2, FrameFields
<1> HIDE DEF t
<1>4. \A j \in 1 .. Len(t) : j \in 1 .. Len(s) \/ j = Len(s) + 1 BY <1>1
<1>5. \A j \in 1 .. Len(s) : j \in 1 .. Len(t) /\ (IsGoaway(t, j) <=> IsGoaway(s, j))
  BY <1>1 DEF IsGoaway
<1>6. Len(s) + 1 \in 1 .. Len(t) /\ (IsGoaway(t, Len(s) + 1) <=> f.type = "GOAWAY")
  BY <1>1 DEF IsGoaway
<1>7. ASSUME f.type # "GOAWAY" PROVE Lowest(c, t)
  <2>1. CASE c = None BY <1>4, <1>5, <1>6, <1>7, <2>1 DEF Lowest
  <2>2. CASE c # None
    <3>1. /\ c \in Nat
          /\ \E j \in 1 .. Len(s) : IsGoaway(s, j) /\ s[j].id = c
          /\ \A j \in 1 .. Len(s) : IsGoaway(s, j) => c <= s[j].id
      BY <2>2 DEF Lowest
    <3>2. \E j \in 1 .. Len(t) : IsGoaway(t, j) /\ t[j].id = c BY <1>1, <1>5, <3>1
    <3>3. \A j \in 1 .. Len(t) : IsGoaway(t, j) => c <= t[j].id
      BY <1>1, <1>4, <1>5, <1>6, <1>7, <3>1
    <3> QED BY <2>2, <3>1, <3>2, <3>3 DEF Lowest
  <2> QED BY <2>1, <2>2
<1>8. ASSUME f.type = "GOAWAY", c = None \/ f.id <= c PROVE Lowest(f.id, t)
  <2>1. f.id # None BY <1>3, NoneAssumption
  <2>2. \E j \in 1 .. Len(t) : IsGoaway(t, j) /\ t[j].id = f.id BY <1>1, <1>6, <1>8
  <2>3. ASSUME NEW j \in 1 .. Len(s), IsGoaway(s, j) PROVE f.id <= s[j].id
    <3>1. c # None BY <2>3 DEF Lowest
    <3>2. c \in Nat /\ c <= s[j].id BY <2>3, <3>1 DEF Lowest
    <3> QED BY <1>3, <1>8, <3>1, <3>2
  <2>4. \A j \in 1 .. Len(t) : IsGoaway(t, j) => f.id <= t[j].id
    BY <1>1, <1>3, <1>4, <1>5, <1>6, <2>3
  <2> QED BY <1>3, <2>1, <2>2, <2>4 DEF Lowest
<1> QED BY <1>7, <1>8 DEF t

(* An identifier is higher than an earlier one exactly when it is higher   *)
(* than the lowest.                                                        *)
LEMMA LowestDecides ==
  ASSUME NEW s \in Seq(Frames), NEW f \in Frames, NEW c, Lowest(c, s)
  PROVE  (\E j \in 1 .. Len(s) : s[j].type = "GOAWAY" /\ s[j].id < f.id)
         <=> c # None /\ c < f.id
<1>1. f.id \in Nat /\ \A j \in 1 .. Len(s) : s[j].id \in Nat
  <2>1. \A j \in 1 .. Len(s) : s[j] \in Frames OBVIOUS
  <2> QED BY <2>1, FrameFields
<1>2. CASE c = None BY <1>2 DEF Lowest, IsGoaway
<1>3. CASE c # None
  <2>1. /\ c \in Nat
        /\ \E j \in 1 .. Len(s) : s[j].type = "GOAWAY" /\ s[j].id = c
        /\ \A j \in 1 .. Len(s) : s[j].type = "GOAWAY" => c <= s[j].id
    BY <1>3 DEF Lowest, IsGoaway
  <2> QED BY <1>1, <1>3, <2>1
<1> QED BY <1>2, <1>3

(* The verdict on a frame, from what the driver remembers of               *)
(* those before it: whether there were any, and the lowest GOAWAY.         *)
VerdictNext(r, s, c, f) ==
  CASE f.type = "closed" -> "H3_CLOSED_CRITICAL_STREAM"
    [] f.type = "truncated" -> "H3_FRAME_ERROR"
    [] f.type = "malformed" -> "frame error"
    [] OTHER ->
         IF s = <<>> THEN IF f.type = "SETTINGS" THEN None ELSE "H3_MISSING_SETTINGS"
         ELSE IF f.type \in {"SETTINGS", "HEADERS"} \/ (r = "client" /\ f.type # "GOAWAY")
         THEN "H3_FRAME_UNEXPECTED"
         ELSE IF f.type = "GOAWAY" /\ ((r = "client" /\ f.id % 4 # 0) \/ (c # None /\ c < f.id))
         THEN "H3_ID_ERROR" ELSE None

(* That much is enough.                                                    *)
LEMMA VerdictLast ==
  ASSUME NEW s \in Seq(Frames), NEW f \in Frames, NEW r, NEW c, Lowest(c, s)
  PROVE  Verdict(r, Append(s, f), Len(s) + 1) = VerdictNext(r, s, c, f)
<1> DEFINE t == Append(s, f)
<1>1. /\ Len(s) \in Nat /\ t[Len(s) + 1] = f /\ (Len(s) + 1) - 1 = Len(s)
      /\ \A j \in 1 .. Len(s) : t[j] = s[j]
      /\ s = <<>> <=> Len(s) + 1 = 1
  OBVIOUS
<1> HIDE DEF t
<1>2. GoawayWrong(r, t, Len(s) + 1)
        <=> f.type = "GOAWAY" /\ ((r = "client" /\ f.id % 4 # 0) \/ (c # None /\ c < f.id))
  <2>1. (\E j \in 1 .. ((Len(s) + 1) - 1) : t[j].type = "GOAWAY" /\ t[j].id < f.id)
        <=> c # None /\ c < f.id
    BY <1>1, LowestDecides
  <2> QED BY <1>1, <2>1 DEF GoawayWrong
<1>3. Verdict(r, t, Len(s) + 1) = VerdictNext(r, s, c, f)
  <2>1. CASE s = <<>>
    BY <1>1, <2>1 DEF Verdict, PushIdWrong, Demanded, VerdictNext
  <2>2. CASE s # <<>> /\ PushIdWrong(r, t, Len(s) + 1)
    <3>1. f.type = "CANCEL_PUSH" \/ (r = "server" /\ f.type = "MAX_PUSH_ID")
      BY <1>1, <2>2 DEF PushIdWrong
    <3> QED BY <2>2, <3>1 DEF Verdict, VerdictNext
  <2>3. CASE s # <<>> /\ ~PushIdWrong(r, t, Len(s) + 1)
    <3>1. Len(s) + 1 > 1 /\ Len(s) + 1 # 1 BY <1>1, <2>3
    <3>2. f.type # "CANCEL_PUSH" BY <1>1, <2>3, <3>1 DEF PushIdWrong
    <3>3. Verdict(r, t, Len(s) + 1) = Demanded(r, t, Len(s) + 1) BY <2>3 DEF Verdict
    <3>4. Demanded(r, t, Len(s) + 1) = VerdictNext(r, s, c, f)
      BY <1>1, <1>2, <2>3, <3>1, <3>2, FrameFields DEF Demanded, VerdictNext
    <3> QED BY <3>3, <3>4
  <2> QED BY <2>1, <2>2, <2>3
<1> QED BY <1>3 DEF t

(* poll_control objects to a frame as the verdict has it, and lets through *)
(* only a first SETTINGS and then frames that belong on a control stream.  *)
LEMMA ReadJudges ==
  ASSUME NEW f \in Frames, NEW s, NEW c, NEW r, got_peer_settings <=> s # <<>>
  PROVE  /\ ControlError(f) # None => ControlError(f) = VerdictNext(r, s, c, f)
         /\ ControlError(f) = None =>
              /\ f.type \in {"SETTINGS", "CANCEL_PUSH", "MAX_PUSH_ID", "GOAWAY"}
              /\ f.type = "SETTINGS" <=> s = <<>>
<1>1. /\ "H3_CLOSED_CRITICAL_STREAM" # None /\ "H3_FRAME_ERROR" # None /\ "frame error" # None
      /\ "H3_MISSING_SETTINGS" # None /\ "H3_FRAME_UNEXPECTED" # None
  BY NoneAssumption DEF Codes
<1>2. CASE s = <<>> BY <1>1, <1>2, FrameFields DEF ControlError, VerdictNext
<1>3. CASE s # <<>> BY <1>1, <1>3, FrameFields DEF ControlError, VerdictNext
<1> QED BY <1>2, <1>3

(* The role's handler goes on exactly when the verdict has nothing to say  *)
(* against the frame, and keeps the lowest GOAWAY.                         *)
LEMMA HandleJudges ==
  ASSUME NEW s \in Seq(Frames), NEW f \in Frames, Lowest(recv_closing, s),
         recv_closing \in GoawayIds \cup {None}, role \in {"client", "server"},
         f.type \in {"SETTINGS", "CANCEL_PUSH", "MAX_PUSH_ID", "GOAWAY"},
         f.type = "SETTINGS" <=> s = <<>>,
         \/ role = "client" /\ poll_close(f)
         \/ role # "client" /\ poll_next_control(f)
  PROVE  \/ /\ error' = error
            /\ VerdictNext(role, s, recv_closing, f) = None
            /\ Lowest(recv_closing', Append(s, f))
         \/ error' # None /\ error' = VerdictNext(role, s, recv_closing, f)
<1>1. "H3_ID_ERROR" # None /\ "H3_FRAME_UNEXPECTED" # None BY NoneAssumption DEF Codes
<1>2. f.id \in Nat /\ (recv_closing # None => recv_closing \in Nat)
  BY FrameFields, GoawayIdsAssumption
<1>3. CASE f.type = "GOAWAY"
  <2>0. s # <<>> BY <1>3
  <2>1. CASE role = "client" /\ ~is_request(f.id)
    <3>1. error' = "H3_ID_ERROR" BY <1>3, <2>1 DEF poll_close, Fail
    <3>2. VerdictNext(role, s, recv_closing, f) = "H3_ID_ERROR"
      BY <1>2, <1>3, <2>0, <2>1 DEF VerdictNext, is_request
    <3> QED BY <1>1, <3>1, <3>2
  <2>2. CASE role # "client" \/ is_request(f.id)
    <3>1. process_goaway(f.id)
      BY <1>3, <2>2 DEF poll_close, poll_next_control
    <3>2. CASE recv_closing # None /\ recv_closing < f.id
      <4>1. error' = "H3_ID_ERROR" BY <3>1, <3>2 DEF process_goaway, Fail
      <4>2. VerdictNext(role, s, recv_closing, f) = "H3_ID_ERROR"
        BY <1>3, <2>0, <3>2 DEF VerdictNext
      <4> QED BY <1>1, <4>1, <4>2
    <3>3. CASE ~(recv_closing # None /\ recv_closing < f.id)
      <4>1. recv_closing' = f.id /\ error' = error BY <3>1, <3>3 DEF process_goaway
      <4>2. VerdictNext(role, s, recv_closing, f) = None
        BY <1>3, <2>0, <2>2, <3>3 DEF VerdictNext, is_request
      <4>3. recv_closing = None \/ f.id <= recv_closing BY <1>2, <3>3
      <4>4. Lowest(f.id, Append(s, f)) BY <1>3, <4>3, LowestAppend
      <4> QED BY <4>1, <4>2, <4>4
    <3> QED BY <3>2, <3>3
  <2> QED BY <2>1, <2>2
<1>4. CASE f.type = "SETTINGS"
  <2>1. recv_closing' = recv_closing /\ error' = error
    BY <1>4 DEF poll_close, poll_next_control
  <2>2. VerdictNext(role, s, recv_closing, f) = None BY <1>4 DEF VerdictNext
  <2>3. Lowest(recv_closing, Append(s, f)) BY <1>4, LowestAppend
  <2> QED BY <2>1, <2>2, <2>3
<1>5. CASE f.type \in {"CANCEL_PUSH", "MAX_PUSH_ID"}
  <2>0. s # <<>> BY <1>5
  <2>1. CASE role = "client"
    <3>1. error' = "H3_FRAME_UNEXPECTED" BY <1>5, <2>1 DEF poll_close, Fail
    <3>2. VerdictNext(role, s, recv_closing, f) = "H3_FRAME_UNEXPECTED"
      BY <1>5, <2>0, <2>1 DEF VerdictNext
    <3> QED BY <1>1, <3>1, <3>2
  <2>2. CASE role # "client"
    <3>1. recv_closing' = recv_closing /\ error' = error
      BY <1>5, <2>2 DEF poll_next_control
    <3>2. VerdictNext(role, s, recv_closing, f) = None
      BY <1>5, <2>0, <2>2 DEF VerdictNext
    <3>3. Lowest(recv_closing, Append(s, f)) BY <1>5, LowestAppend
    <3> QED BY <3>1, <3>2, <3>3
  <2> QED BY <2>1, <2>2
<1> QED BY <1>3, <1>4, <1>5

(* Every frame of the control stream is judged by the verdict: each        *)
(* step keeps what is remembered in step with what was read.               *)
LEMMA NextHistory ==
  ASSUME TypeOK, PollInv, HistoryInv, FramesJudged, [Next]_vars
  PROVE  HistoryInv' /\ FramesJudged'
<1> SUFFICES ASSUME ~send_grease PROVE HistoryInv' /\ FramesJudged'
  BY ConfigKept DEF HistoryInv, FramesJudged
<1>0. /\ role' = role /\ send_grease' = send_grease /\ ~send_grease_stream_flag
      /\ role \in {"client", "server"}
      /\ consumed \in Seq(Frames) /\ handled \in Seq(Frames) /\ inbox \in Seq(Frames)
      /\ recv_closing \in GoawayIds \cup {None}
  BY ConfigKept, ConfigAssumption DEF HistoryInv, TypeOK, PeerTypes, DriverTypes
<1>1. ASSUME UNCHANGED <<got_peer_settings, recv_closing, send_grease_stream_flag, consumed,
                         handled, error>>,
             \/ UNCHANGED <<pc, frame>>
             \/ pc # "grease" /\ pc' # "grease"
      PROVE  HistoryInv' /\ FramesJudged'
  BY <1>0, <1>1 DEF HistoryInv, FramesJudged
<1>2. ASSUME UNCHANGED <<send_grease_stream_flag, consumed>>, error = None,
             error' = "H3_STREAM_CREATION_ERROR", pc # "grease"
      PROVE  HistoryInv' /\ FramesJudged'
  <2>1. error' # None BY <1>2, NoneAssumption DEF Codes
  <2>5. HistoryInv' BY <1>0, <1>2, <2>1 DEF HistoryInv
  <2>2. handled = consumed /\ \A i \in 1 .. Len(handled) : Verdict(role, handled, i) = None
    BY <1>2 DEF HistoryInv
  <2>3. consumed # <<>> => Len(consumed) \in 1 .. Len(consumed) BY <1>0
  <2>4. FramesJudged'
    <3>1. \A i \in 1 .. (Len(consumed) - 1) : Verdict(role, consumed, i) = None
      BY DEF FramesJudged
    <3>2. consumed # <<>> => Verdict(role, consumed, Len(consumed)) = None BY <2>2, <2>3
    <3> QED BY <1>0, <1>2, <3>1, <3>2 DEF FramesJudged
  <2> QED BY <2>4, <2>5
<1>3. CASE ReadFrame
  <2> DEFINE f == Head(inbox)
  <2>1. /\ pc = "resolve" /\ f \in Frames /\ consumed' = Append(consumed, f)
        /\ UNCHANGED <<recv_closing, send_grease_stream_flag, handled>>
    BY <1>0, <1>3 DEF ReadFrame, AllResolved, grease
  <2>2. error = None BY <2>1 DEF PollInv
  <2>3. /\ handled = consumed /\ (got_peer_settings <=> consumed # <<>>)
        /\ Lowest(recv_closing, consumed)
        /\ \A i \in 1 .. Len(consumed) : Verdict(role, consumed, i) = None
    BY <2>1, <2>2 DEF HistoryInv
  <2>4. IF ControlError(f) # None
        THEN Fail(ControlError(f)) /\ UNCHANGED <<frame, got_peer_settings>>
        ELSE /\ frame' = f /\ pc' = "grease" /\ UNCHANGED error
             /\ got_peer_settings' = (got_peer_settings \/ f.type = "SETTINGS")
    BY <1>3 DEF ReadFrame
  <2> HIDE DEF f
  <2>5. Len(consumed) \in Nat /\ Len(consumed') = Len(consumed) + 1 /\ consumed' # <<>>
    BY <1>0, <2>1
  <2>6. \A i \in 1 .. (Len(consumed') - 1) : Verdict(role, consumed', i) = None
    BY <1>0, <2>1, <2>3, <2>5, VerdictAppend
  <2>7. got_peer_settings <=> consumed # <<>>
    BY <2>3
  <2>8. CASE ControlError(f) # None
    <3>1. error' = ControlError(f) BY <2>4, <2>8 DEF Fail
    <3>2. ControlError(f) = VerdictNext(role, consumed, recv_closing, f)
      BY <2>1, <2>7, <2>8, ReadJudges
    <3>3. error' = Verdict(role, consumed', Len(consumed'))
      BY <1>0, <2>1, <2>3, <2>5, <3>1, <3>2, VerdictLast
    <3>4. FramesJudged' BY <1>0, <2>5, <2>6, <3>3 DEF FramesJudged
    <3>5. HistoryInv' BY <1>0, <2>1, <2>8, <3>1 DEF HistoryInv
    <3> QED BY <3>4, <3>5
  <2>9. CASE ControlError(f) = None
    <3>1. frame' = f /\ pc' = "grease" /\ error' = error
          /\ (got_peer_settings' <=> (got_peer_settings \/ f.type = "SETTINGS"))
      BY <2>4, <2>9
    <3>2. /\ f.type \in {"SETTINGS", "CANCEL_PUSH", "MAX_PUSH_ID", "GOAWAY"}
          /\ f.type = "SETTINGS" <=> consumed = <<>>
      BY <2>1, <2>7, <2>9, ReadJudges
    <3>3. got_peer_settings' BY <2>3, <3>1, <3>2
    <3>4. FramesJudged' BY <1>0, <2>2, <2>6, <3>1 DEF FramesJudged
    <3>5. HistoryInv'
      <4>1. /\ consumed' = Append(handled', frame')
            /\ frame'.type \in {"SETTINGS", "CANCEL_PUSH", "MAX_PUSH_ID", "GOAWAY"}
            /\ frame'.type = "SETTINGS" <=> handled' = <<>>
        BY <2>1, <2>3, <3>1, <3>2
      <4>2. got_peer_settings' <=> consumed' # <<>> BY <2>5, <3>3
      <4>3. /\ Lowest(recv_closing', handled')
            /\ \A i \in 1 .. Len(handled') : Verdict(role', handled', i) = None
        BY <1>0, <2>1, <2>3
      <4> QED BY <1>0, <2>1, <3>1, <4>1, <4>2, <4>3 DEF HistoryInv
    <3> QED BY <3>4, <3>5
  <2> QED BY <2>8, <2>9
<1>4. CASE HandleFrame
  <2>1. /\ pc = "grease" /\ handled' = Append(handled, frame) /\ frame \in Frames
        /\ \/ role = "client" /\ poll_close(frame)
           \/ role # "client" /\ poll_next_control(frame)
        /\ UNCHANGED <<consumed, got_peer_settings, send_grease_stream_flag>>
    BY <1>4 DEF HandleFrame, PollInv, grease
  <2>2. error = None BY <2>1 DEF PollInv
  <2>3. /\ consumed = Append(handled, frame)
        /\ frame.type \in {"SETTINGS", "CANCEL_PUSH", "MAX_PUSH_ID", "GOAWAY"}
        /\ frame.type = "SETTINGS" <=> handled = <<>>
        /\ got_peer_settings <=> consumed # <<>>
        /\ Lowest(recv_closing, handled)
        /\ \A i \in 1 .. Len(handled) : Verdict(role, handled, i) = None
    BY <2>1, <2>2 DEF HistoryInv
  <2>4. pc' # "grease" BY <2>1, HandleEnds
  <2>5. Len(handled) \in Nat /\ Len(consumed) = Len(handled) + 1 BY <1>0, <2>1, <2>3
  <2>6. \A i \in 1 .. Len(handled) : Verdict(role, consumed, i) = None
    BY <1>0, <2>1, <2>3, VerdictAppend
  <2>7. Verdict(role, consumed, Len(consumed))
          = VerdictNext(role, handled, recv_closing, frame)
    BY <1>0, <2>1, <2>3, <2>5, VerdictLast
  <2>8. \/ /\ error' = error
           /\ VerdictNext(role, handled, recv_closing, frame) = None
           /\ Lowest(recv_closing', consumed)
        \/ error' # None /\ error' = VerdictNext(role, handled, recv_closing, frame)
    BY <1>0, <2>1, <2>3, HandleJudges
  <2>9. FramesJudged'
    <3>1. \A i \in 1 .. (Len(consumed) - 1) : Verdict(role, consumed, i) = None
      BY <2>5, <2>6
    <3>2. \/ Verdict(role, consumed, Len(consumed)) = None
          \/ error' = Verdict(role, consumed, Len(consumed))
      BY <2>7, <2>8
    <3>3. error' # None =>
             consumed # <<>> /\ error' = Verdict(role, consumed, Len(consumed))
      BY <2>2, <2>5, <2>7, <2>8
    <3> QED BY <1>0, <2>1, <3>1, <3>2, <3>3 DEF FramesJudged
  <2>10. HistoryInv'
    <3>1. CASE error' # None BY <1>0, <2>1, <3>1 DEF HistoryInv
    <3>2. CASE error' = None
      <4>1. Verdict(role, consumed, Len(consumed)) = None /\ Lowest(recv_closing', consumed)
        BY <2>7, <2>8, <3>2
      <4>2. \A i \in 1 .. Len(consumed) : Verdict(role, consumed, i) = None
        BY <2>5, <2>6, <4>1
      <4> QED BY <1>0, <2>1, <2>3, <2>4, <4>1, <4>2 DEF HistoryInv
    <3> QED BY <3>1, <3>2
  <2> QED BY <2>9, <2>10
<1>5. ASSUME NEW k \in Uni, Resolve(k) PROVE HistoryInv' /\ FramesJudged'
  <2>1. /\ pc = "resolve" /\ error = None
        /\ UNCHANGED <<got_peer_settings, recv_closing, send_grease_stream_flag, consumed, handled>>
    BY <1>5 DEF Resolve, PollInv, grease
  <2>2. CASE Duplicate(k)
    <3>1. error' = "H3_STREAM_CREATION_ERROR" BY <1>5, <2>2 DEF Resolve, Fail
    <3> QED BY <1>2, <2>1, <3>1
  <2>3. CASE ~Duplicate(k) BY <1>1, <1>5, <2>1, <2>3 DEF Resolve
  <2> QED BY <2>2, <2>3
<1>6. CASE EndPoll
  <2>1. /\ pc = "accept bi" /\ error = None
        /\ UNCHANGED <<got_peer_settings, recv_closing, send_grease_stream_flag, consumed, handled>>
    BY <1>6 DEF EndPoll, PollInv, grease
  <2>2. CASE bidi /\ role = "client"
    <3>1. error' = "H3_STREAM_CREATION_ERROR" BY <1>6, <2>2 DEF EndPoll, Fail
    <3> QED BY <1>2, <2>1, <3>1
  <2>3. CASE ~(bidi /\ role = "client") BY <1>1, <1>6, <2>1, <2>3 DEF EndPoll
  <2> QED BY <2>2, <2>3
<1>7. CASE \/ PeerNext \/ PopWebTransport \/ StartPoll \/ AcceptRecv \/ NothingToRead
           \/ UNCHANGED vars
  BY <1>1, <1>7 DEF PeerNext, OpenUni, SendHeader, SendFrame, OpenBidi, UnblockGrease,
     PopWebTransport, StartPoll, AcceptRecv, NothingToRead, AllResolved, vars, task, grease
<1>8. \A step \in DOMAIN Rank : ~(GreasePending(step) \/ GreaseOver(step))
  BY <1>0 DEF GreasePending, GreaseOver
<1> QED BY <1>3, <1>4, <1>5, <1>6, <1>7, <1>8 DEF Next, Step

(***************************************************************************)
(* The theorems.                                                           *)
(***************************************************************************)

(* The invariant is inductive.                                             *)
THEOREM Inductive == Spec => []IInv
<1>1. Init => IInv BY InitType, InitRest DEF IInv
<1>2. IInv /\ [Next]_vars => IInv'
  BY NextType, NextPoll, NextCritical, NextHistory DEF IInv
<1> QED BY <1>1, <1>2, PTL DEF Spec

(* Whatever the peer sends and however its delivery interleaves with the   *)
(* polls, the driver fails on exactly the control frames RFC 9114 makes an *)
(* error, with the code it demands, push ids excepted, and on every second *)
(* control, encoder or decoder stream (poll_accept_recv, poll_control,     *)
(* poll_next_control, poll_close and process_goaway).                      *)
THEOREM DriverJudgesFrames == Spec => []VerdictIsRFCExceptPushIds
<1>1. IInv => VerdictIsRFCExceptPushIds
  <2> SUFFICES ASSUME IInv PROVE OneCriticalStreamEach
    BY DEF IInv, VerdictIsRFCExceptPushIds
  <2>1. CriticalInv BY DEF IInv
  <2> QED BY <2>1 DEF CriticalInv, OneCriticalStreamEach
<1> QED BY <1>1, Inductive, PTL

(* A control frame that was read is handled or fails the connection, when  *)
(* no grease stream is in the way (poll_control keeps no frame back).      *)
THEOREM FramesReachTheRole == Spec => []NoFrameLost
<1>1. IInv => NoFrameLost BY DEF IInv, HistoryInv, NoFrameLost
<1> QED BY <1>1, Inductive, PTL
==============================================================================
