--------------------------- MODULE ShutdownProofs ---------------------------
(***************************************************************************)
(* Proofs about module Shutdown, for any number of request streams and     *)
(* handles, any arguments of shutdown() and any number of its calls.       *)
(***************************************************************************)
EXTENDS Shutdown, TLAPS

(***************************************************************************)
(* The inductive invariant.                                                *)
(***************************************************************************)

(* What a side has announced, from the oldest that its peer has read to    *)
(* the one it has decided on last, never rises.                            *)
Falls(s) ==
  /\ mode[s] \in {"ready", "ready last"} => sent_closing[s] # None
  /\ buffered[s] # None => sent_closing[s] # None /\ sent_closing[s] <= buffered[s]
  /\ \A k \in DOMAIN wire[s] :
       /\ sent_closing[s] # None /\ sent_closing[s] <= wire[s][k]
       /\ buffered[s] # None => buffered[s] <= wire[s][k]
       /\ \A l \in DOMAIN wire[s] : k < l => wire[s][l] <= wire[s][k]
  /\ recv_closing[Peer(s)] # None =>
       /\ sent_closing[s] # None /\ sent_closing[s] <= recv_closing[Peer(s)]
       /\ buffered[s] # None => buffered[s] <= recv_closing[Peer(s)]
       /\ \A k \in DOMAIN wire[s] : wire[s][k] <= recv_closing[Peer(s)]
GoawayInv == ~id_error /\ \A s \in Side : Falls(s)

(* Request streams are opened, and dealt with, in the order of their       *)
(* indices.  Those the server has accepted are the ones up to the last,    *)
(* and the identifier it has decided on separates accepted from rejected.  *)
Answered(i) == stream[i] \in {"accepted", "done"}
Settled(i) == stream[i] \in {"accepted", "done", "rejected"}
OrderInv ==
  /\ \A i \in Index : stream[i] = "unopened" <=> opened <= i
  /\ \A i, j \in Index : stream[i] = "opened" /\ Settled(j) => j < i
  /\ ~closed => \A i \in Index : stream[i] # "lost"
  /\ \A i \in Index : Answered(i) <=> last_accepted_stream # None /\ i <= last_accepted_stream
BoundInv ==
  /\ \A i \in Index : stream[i] = "rejected" =>
       sent_closing["server"] # None /\ sent_closing["server"] < i
  /\ last_accepted_stream # None /\ sent_closing["server"] # None =>
       last_accepted_stream <= sent_closing["server"]

(* A request is accepted as long as a half of it is alive.                 *)
PartInv == \A i \in Index : part[i] # "none" <=> stream[i] = "accepted"

(* What shutdown(n) still promises is what lies between the last request   *)
(* accepted and the identifier announced.                                  *)
GraceInv ==
  /\ sent_closing["server"] # None => grace # None
  /\ grace # None /\ ~grace.idle =>
       /\ last_accepted_stream # None
       /\ sent_closing["server"] = Plus(last_accepted_stream, grace.left)

IInv == /\ TypeOK /\ GoawayInv /\ OrderInv /\ BoundInv /\ PartInv
        /\ NoneMeansAllDone /\ GraceInv

(***************************************************************************)
(* The operators.                                                          *)
(***************************************************************************)

(* StreamId + usize stays a stream identifier, and does not go down.       *)
LEMMA PlusType ==
  \A i \in Index, n \in Nat : Plus(i, n) \in Index /\ i <= Plus(i, n)
BY MaxIndexAssumption DEF Plus, Index

(* The server announces a stream identifier, not below the last request it *)
(* has accepted.                                                           *)
LEMMA MaxIdType ==
  ASSUME TypeOK, NEW n \in Nat
  PROVE  /\ MaxId(n) \in Index
         /\ last_accepted_stream # None => /\ last_accepted_stream <= MaxId(n)
                                           /\ MaxId(n) = Plus(last_accepted_stream, n)
<1>1. last_accepted_stream \in Index \cup {None} BY DEF TypeOK
<1>2. 0 \in Index BY MaxIndexAssumption DEF Index
<1> QED BY <1>1, <1>2, PlusType DEF MaxId

(* ConnectionInner::shutdown records the identifier it was given if it is  *)
(* the first or lower than the last, and touches no other.                 *)
LEMMA ShutdownRecords ==
  ASSUME TypeOK, NEW s \in Side, NEW max_id \in Index, NEW begin \in Modes, NEW skip \in Modes,
         shutdown(s, max_id, begin, skip)
  PROVE  /\ sent_closing' \in [Side -> Index \cup {None}]
         /\ mode' \in [Side -> Modes]
         /\ closing' \in BOOLEAN
         /\ \A t \in Side \ {s} : sent_closing'[t] = sent_closing[t] /\ mode'[t] = mode[t]
         /\ \/ /\ sent_closing' = sent_closing /\ mode'[s] = skip
               /\ sent_closing[s] # None /\ sent_closing[s] <= max_id
            \/ /\ sent_closing'[s] = max_id /\ mode'[s] = begin /\ max_id # None
               /\ sent_closing' # sent_closing
               /\ sent_closing[s] # None => max_id < sent_closing[s]
<1>1. /\ sent_closing \in [Side -> Index \cup {None}]
      /\ mode \in [Side -> Modes]
      /\ closing \in BOOLEAN
  BY DEF TypeOK
<1>2. Index \subseteq Int /\ None \notin Int BY NoneAssumption DEF Index
<1>3. CASE sent_closing[s] # None /\ sent_closing[s] <= max_id
  BY <1>1, <1>2, <1>3 DEF shutdown
<1>4. CASE ~(sent_closing[s] # None /\ sent_closing[s] <= max_id)
  <2>1. /\ mode' = [mode EXCEPT ![s] = begin]
        /\ sent_closing' = [sent_closing EXCEPT ![s] = max_id]
        /\ closing' = (closing \/ s = "client")
    BY <1>4 DEF shutdown
  <2>2. sent_closing[s] # max_id BY <1>2, <1>4
  <2>3. /\ sent_closing' \in [Side -> Index \cup {None}] /\ sent_closing'[s] = max_id
        /\ mode' \in [Side -> Modes] /\ mode'[s] = begin
        /\ \A t \in Side \ {s} : sent_closing'[t] = sent_closing[t] /\ mode'[t] = mode[t]
    BY <1>1, <2>1
  <2>4. sent_closing' # sent_closing BY <2>2, <2>3
  <2>5. closing' \in BOOLEAN BY <2>1
  <2>6. max_id # None /\ (sent_closing[s] # None => max_id < sent_closing[s])
    <3>1. max_id \in Int /\ (sent_closing[s] # None => sent_closing[s] \in Int)
      BY <1>1, <1>2
    <3> QED BY <1>2, <1>4, <3>1
  <2> QED BY <2>3, <2>4, <2>5, <2>6
<1> QED BY <1>3, <1>4

(***************************************************************************)
(* Type correctness.                                                       *)
(***************************************************************************)

(* The types hold at the start.                                            *)
LEMMA InitType == Init => TypeOK
<1> SUFFICES ASSUME Init PROVE TypeOK OBVIOUS
<1>1. 0 \in Nat /\ 0 <= MaxIndex + 1 /\ 0 \in 0 .. MaxShutdowns /\ 0 \in 0 .. MaxCancels
  BY MaxIndexAssumption, BoundsAssumption
<1>2. wire \in [Side -> Seq(Index)] /\ mode \in [Side -> Modes]
  BY DEF Init, Modes
<1>3. opened \in 0 .. (MaxIndex + 1) BY MaxIndexAssumption DEF Init
<1> QED BY <1>1, <1>2, <1>3 DEF Init, TypeOK

(* ReturnNone, inside either of its two callers.                           *)
LEMMA ReturnNoneRecords ==
  ASSUME TypeOK, ReturnNone
  PROVE  /\ shutdown("server", MaxId(0), "ready last", "ended")
         /\ sent_closing' \in [Side -> Index \cup {None}]
         /\ mode' \in [Side -> Modes]
         /\ closing' \in BOOLEAN
         /\ grace' \in {None} \cup [left : Int, idle : BOOLEAN]
<1>1. shutdown("server", MaxId(0), "ready last", "ended") BY DEF ReturnNone
<1>2. MaxId(0) \in Index BY MaxIdType
<1>3. "server" \in Side /\ "ready last" \in Modes /\ "ended" \in Modes BY DEF Side, Modes
<1>4. /\ sent_closing' \in [Side -> Index \cup {None}]
      /\ mode' \in [Side -> Modes]
      /\ closing' \in BOOLEAN
  BY <1>1, <1>2, <1>3, ShutdownRecords
<1>5. grace' \in {None} \cup [left : Int, idle : BOOLEAN]
  <2>1. grace \in {None} \cup [left : Int, idle : BOOLEAN] BY DEF TypeOK
  <2>2. [left |-> 0, idle |-> last_accepted_stream = None] \in [left : Int, idle : BOOLEAN]
    OBVIOUS
  <2> QED BY <2>1, <2>2 DEF ReturnNone
<1> QED BY <1>1, <1>4, <1>5

(* Every step keeps the types.                                             *)
LEMMA NextType ==
  ASSUME TypeOK, [Next]_vars
  PROVE  TypeOK'
<1> USE DEF TypeOK
<1>1. ASSUME NEW h \in Senders, CheckClosing(h) PROVE TypeOK'
  BY <1>1 DEF CheckClosing, goaway, server, history
<1>2. ASSUME NEW h \in Senders, OpenRequest(h) PROVE TypeOK'
  BY <1>2, MaxIndexAssumption DEF OpenRequest, goaway, server, history, Index
<1>3. ASSUME NEW n \in Grace, ServerShutdown(n) PROVE TypeOK'
  <2>1. n \in Nat BY GraceAssumption
  <2>2. /\ sent_closing' \in [Side -> Index \cup {None}]
        /\ mode' \in [Side -> Modes]
        /\ closing' \in BOOLEAN
    BY <1>3, <2>1, MaxIdType, ShutdownRecords DEF ServerShutdown, Side, Modes
  <2>3. grace' \in {None} \cup [left : Int, idle : BOOLEAN] /\ shutdowns' \in 0 .. MaxShutdowns
    BY <1>3, <2>1, BoundsAssumption DEF ServerShutdown
  <2> QED BY <1>3, <2>2, <2>3 DEF ServerShutdown, requests, server
<1>4. CASE ClientShutdown
  <2>1. 0 \in Index BY MaxIndexAssumption DEF Index
  <2>2. /\ sent_closing' \in [Side -> Index \cup {None}]
        /\ mode' \in [Side -> Modes]
        /\ closing' \in BOOLEAN
    BY <1>4, <2>1, ShutdownRecords DEF ClientShutdown, Side, Modes
  <2>3. shutdowns' \in 0 .. MaxShutdowns BY <1>4, BoundsAssumption DEF ClientShutdown
  <2> QED BY <1>4, <2>2, <2>3 DEF ClientShutdown, requests, server
<1>5. ASSUME NEW s \in Side, FlushControl(s) PROVE TypeOK'
  <2>1. buffered[s] \in Index BY <1>5 DEF FlushControl
  <2>2. wire' \in [Side -> Seq(Index)] BY <1>5, <2>1 DEF FlushControl
  <2> QED BY <1>5, <2>2 DEF FlushControl, requests, server, history
<1>6. ASSUME NEW s \in Side, SendGoaway(s) \/ ShutdownReturns(s) PROVE TypeOK'
  <2>1. mode' \in [Side -> Modes] /\ buffered' \in [Side -> Index \cup {None}]
    <3>1. CASE SendGoaway(s) BY <3>1 DEF SendGoaway, Modes
    <3>2. CASE ShutdownReturns(s) BY <3>2 DEF ShutdownReturns, Modes
    <3> QED BY <1>6, <3>1, <3>2
  <2> QED BY <1>6, <2>1 DEF SendGoaway, ShutdownReturns, requests, server, history
<1>7. ASSUME NEW s \in Side, CancelWrite(s) PROVE TypeOK'
  <2>1. mode' \in [Side -> Modes] BY <1>7 DEF CancelWrite, Modes
  <2>2. cancels' \in 0 .. MaxCancels BY <1>7, BoundsAssumption DEF CancelWrite
  <2> QED BY <1>7, <2>1, <2>2 DEF CancelWrite, requests, server
<1>8. ASSUME NEW s \in Side, ProcessGoaway(s) PROVE TypeOK'
  <2>1. Peer(s) \in Side BY DEF Peer, Side
  <2>2. Head(wire[Peer(s)]) \in Index /\ Tail(wire[Peer(s)]) \in Seq(Index)
    BY <1>8, <2>1 DEF ProcessGoaway
  <2>3. wire' \in [Side -> Seq(Index)] BY <1>8, <2>1, <2>2 DEF ProcessGoaway
  <2>4. recv_closing' \in [Side -> Index \cup {None}] /\ id_error' \in BOOLEAN
        /\ closing' \in BOOLEAN
    BY <1>8, <2>2 DEF ProcessGoaway
  <2> QED BY <1>8, <2>3, <2>4 DEF ProcessGoaway, requests, server, history
<1>9. ASSUME NEW i \in Index, AcceptRequest(i) PROVE TypeOK'
  <2>1. grace' \in {None} \cup [left : Int, idle : BOOLEAN]
    BY <1>9 DEF AcceptRequest
  <2> QED BY <1>9, <2>1 DEF AcceptRequest, StillOngoing, goaway
<1>10. ASSUME NEW i \in Index, RejectRequest(i) PROVE TypeOK'
  <2>1. /\ sent_closing' \in [Side -> Index \cup {None}]
        /\ mode' \in [Side -> Modes]
        /\ closing' \in BOOLEAN
        /\ grace' \in {None} \cup [left : Int, idle : BOOLEAN]
    BY <1>10, ReturnNoneRecords DEF RejectRequest
  <2> QED BY <1>10, <2>1 DEF RejectRequest, poll_requests_completion, StillOngoing
<1>11. CASE AcceptReturnsNone
  BY <1>11, ReturnNoneRecords
     DEF AcceptReturnsNone, poll_requests_completion, StillOngoing, requests
<1>12. ASSUME NEW i \in Index, SplitRequest(i) PROVE TypeOK'
  BY <1>12 DEF SplitRequest, goaway, server, history
<1>13. ASSUME NEW i \in Index, DropPart(i) PROVE TypeOK'
  <2>1. /\ part' \in [Index -> {"none", "whole", "two", "one"}]
        /\ stream' \in [Index -> {"unopened", "opened", "accepted", "rejected", "done", "lost"}]
        /\ request_end' \subseteq Index
    <3>1. CASE part[i] = "two" BY <1>13, <3>1 DEF DropPart
    <3>2. CASE part[i] # "two"
      <4>1. /\ part' = [part EXCEPT ![i] = "none"]
            /\ stream' = [stream EXCEPT ![i] = "done"]
            /\ request_end' = request_end \cup {i}
        BY <1>13, <3>2 DEF DropPart
      <4> QED BY <4>1
    <3> QED BY <3>1, <3>2
  <2> QED BY <1>13, <2>1 DEF DropPart, goaway, history
<1>14. CASE DropServer
  BY <1>14 DEF DropServer, goaway, server, history
<1>15. CASE UNCHANGED vars
  BY <1>15 DEF vars, goaway, requests, server, history
<1> QED BY <1>1, <1>2, <1>3, <1>4, <1>5, <1>6, <1>7, <1>8, <1>9, <1>10, <1>11, <1>12,
           <1>13, <1>14, <1>15 DEF Next

(***************************************************************************)
(* Identifiers never rise.                                                 *)
(***************************************************************************)

(* Nothing has been announced at the start.                                *)
LEMMA InitGoaway == Init => GoawayInv
BY DEF Init, GoawayInv, Falls, Side, Peer

(* A function on 1 .. n is a sequence over any set its values lie in.      *)
LEMMA IsASeq ==
  ASSUME NEW S, NEW n \in Nat, NEW f, \A k \in 1 .. n : f[k] \in S,
         f = [k \in 1 .. n |-> f[k]]
  PROVE  f \in Seq(S)
OBVIOUS

(* The types of what Falls speaks of.                                      *)
LEMMA GoawayTypes ==
  ASSUME TypeOK, NEW s \in Side
  PROVE  /\ Peer(s) \in Side /\ Peer(s) # s /\ Peer(Peer(s)) = s
         /\ sent_closing[s] # None => sent_closing[s] \in Int
         /\ buffered[s] # None => buffered[s] \in Int
         /\ recv_closing[s] # None => recv_closing[s] \in Int
         /\ wire[s] \in Seq(Int)
         /\ \A k \in DOMAIN wire[s] : wire[s][k] \in Int /\ wire[s][k] # None
<1>1. Index \subseteq Int /\ None \notin Index BY NoneAssumption DEF Index
<1>2. wire[s] \in Seq(Index) BY DEF TypeOK
<1>3. wire[s] \in Seq(Int)
  <2>1. Len(wire[s]) \in Nat /\ wire[s] = [k \in 1 .. Len(wire[s]) |-> wire[s][k]]
        /\ \A k \in 1 .. Len(wire[s]) : wire[s][k] \in Index
    BY <1>2
  <2> QED BY <1>1, <2>1, IsASeq
<1>4. \A k \in DOMAIN wire[s] : wire[s][k] \in Index BY <1>2
<1>5. /\ sent_closing[s] \in Index \cup {None} /\ buffered[s] \in Index \cup {None}
      /\ recv_closing[s] \in Index \cup {None}
  BY DEF TypeOK
<1>6. Peer(s) \in Side /\ Peer(s) # s /\ Peer(Peer(s)) = s BY DEF Peer, Side
<1> QED BY <1>1, <1>3, <1>4, <1>5, <1>6

(* A side of which nothing has changed but that it does not begin to write. *)
LEMMA FallsKept ==
  ASSUME NEW s \in Side, Falls(s),
         sent_closing'[s] = sent_closing[s], buffered'[s] = buffered[s], wire'[s] = wire[s],
         recv_closing'[Peer(s)] = recv_closing[Peer(s)],
         mode'[s] \in {"ready", "ready last"} => mode[s] \in {"ready", "ready last"}
  PROVE  Falls(s)'
BY DEF Falls

(* ConnectionInner::shutdown lowers what was decided on, or decides first. *)
LEMMA ShutdownFalls ==
  ASSUME TypeOK, GoawayInv, NEW s \in Side, NEW max_id \in Index,
         NEW begin \in Modes, NEW skip \in {"driving", "ended"},
         shutdown(s, max_id, begin, skip),
         UNCHANGED <<recv_closing, buffered, wire, id_error>>
  PROVE  GoawayInv'
<1>0. skip \in Modes BY DEF Modes
<1>1. /\ \A t \in Side \ {s} : sent_closing'[t] = sent_closing[t] /\ mode'[t] = mode[t]
      /\ \/ /\ sent_closing' = sent_closing /\ mode'[s] = skip
         \/ /\ sent_closing'[s] = max_id /\ max_id # None
            /\ sent_closing[s] # None => max_id < sent_closing[s]
  BY <1>0, ShutdownRecords
<1>2. ASSUME NEW t \in Side, t # s PROVE Falls(t)'
  BY <1>1, <1>2, FallsKept DEF GoawayInv
<1>3. Falls(s)'
  <2>1. Falls(s) BY DEF GoawayInv
  <2>2. CASE sent_closing' = sent_closing /\ mode'[s] = skip
    BY <2>1, <2>2, FallsKept
  <2>3. CASE /\ sent_closing'[s] = max_id /\ max_id # None
             /\ sent_closing[s] # None => max_id < sent_closing[s]
    <3>1. max_id \in Int BY DEF Index
    <3>2. /\ sent_closing[s] # None => sent_closing[s] \in Int
          /\ buffered[s] # None => buffered[s] \in Int
          /\ recv_closing[Peer(s)] # None => recv_closing[Peer(s)] \in Int
          /\ \A k \in DOMAIN wire[s] : wire[s][k] \in Int
      BY GoawayTypes
    <3>3. /\ buffered[s] # None => sent_closing[s] # None /\ sent_closing[s] <= buffered[s]
          /\ recv_closing[Peer(s)] # None =>
               sent_closing[s] # None /\ sent_closing[s] <= recv_closing[Peer(s)]
          /\ \A k \in DOMAIN wire[s] : sent_closing[s] # None /\ sent_closing[s] <= wire[s][k]
      BY <2>1 DEF Falls
    <3>4. /\ buffered[s] # None => max_id <= buffered[s]
          /\ recv_closing[Peer(s)] # None => max_id <= recv_closing[Peer(s)]
      BY <2>3, <3>1, <3>2, <3>3
    <3>5. \A k \in DOMAIN wire[s] : max_id <= wire[s][k]
      BY <2>3, <3>1, <3>2, <3>3
    <3> QED BY <2>1, <2>3, <3>4, <3>5 DEF Falls
  <2> QED BY <1>1, <2>2, <2>3
<1> QED BY <1>2, <1>3 DEF GoawayInv

(* Every step keeps what was announced falling; process_goaway finds       *)
(* nothing to object to.                                                   *)
LEMMA NextGoaway ==
  ASSUME TypeOK, GoawayInv, [Next]_vars
  PROVE  GoawayInv'
<1>0. ASSUME UNCHANGED <<sent_closing, recv_closing, buffered, wire, id_error>>,
             \A s \in Side : mode'[s] \in {"ready", "ready last"} =>
                               mode[s] \in {"ready", "ready last"}
      PROVE  GoawayInv'
  BY <1>0, FallsKept DEF GoawayInv
<1>1. ASSUME NEW n \in Grace, ServerShutdown(n) PROVE GoawayInv'
  <2>1. n \in Nat BY GraceAssumption
  <2> QED BY <1>1, <2>1, MaxIdType, ShutdownFalls DEF ServerShutdown, Side, Modes
<1>2. CASE ClientShutdown
  <2>1. 0 \in Index BY MaxIndexAssumption DEF Index
  <2> QED BY <1>2, <2>1, ShutdownFalls DEF ClientShutdown, Side, Modes
<1>3. ASSUME ReturnNone, UNCHANGED <<recv_closing, buffered, wire, id_error>> PROVE GoawayInv'
  BY <1>3, MaxIdType, ShutdownFalls DEF ReturnNone, Side, Modes
<1>4. ASSUME NEW s \in Side, FlushControl(s) PROVE GoawayInv'
  <2>1. ASSUME NEW t \in Side, t # s PROVE Falls(t)'
    BY <1>4, <2>1, FallsKept DEF GoawayInv, FlushControl, TypeOK
  <2>2. Falls(s)'
    <3> DEFINE w == wire[s]
    <3>1. Falls(s) BY DEF GoawayInv
    <3>2. /\ w \in Seq(Int) /\ buffered[s] \in Int /\ buffered[s] # None
          /\ sent_closing[s] # None => sent_closing[s] \in Int
          /\ \A k \in DOMAIN w : w[k] \in Int /\ w[k] # None
      BY <1>4, GoawayTypes DEF FlushControl
    <3>3. wire'[s] = Append(w, buffered[s]) /\ buffered'[s] = None
      BY <1>4 DEF FlushControl, TypeOK
    <3>4. /\ DOMAIN wire'[s] = 1 .. (Len(w) + 1) /\ DOMAIN w = 1 .. Len(w) /\ Len(w) \in Nat
          /\ \A k \in 1 .. Len(w) : wire'[s][k] = w[k]
          /\ wire'[s][Len(w) + 1] = buffered[s]
      BY <3>2, <3>3
    <3>5. UNCHANGED <<sent_closing, recv_closing, mode>> BY <1>4 DEF FlushControl
    <3> HIDE DEF w
    <3>6. \A k \in DOMAIN wire'[s] : k \in DOMAIN w \/ k = Len(w) + 1 BY <3>4
    <3>7. /\ sent_closing[s] # None /\ sent_closing[s] <= buffered[s]
          /\ \A k \in DOMAIN w : sent_closing[s] <= w[k] /\ buffered[s] <= w[k]
      BY <3>1, <3>2 DEF Falls, w
    <3>8. \A k \in DOMAIN wire'[s] : sent_closing[s] <= wire'[s][k]
      BY <3>4, <3>6, <3>7
    <3>9. \A k, l \in DOMAIN w : k < l => w[l] <= w[k] BY <3>1 DEF Falls, w
    <3>10. \A k, l \in DOMAIN wire'[s] : k < l => wire'[s][l] <= wire'[s][k]
      BY <3>4, <3>6, <3>7, <3>9
    <3>11. recv_closing[Peer(s)] # None =>
             /\ sent_closing[s] <= recv_closing[Peer(s)]
             /\ buffered[s] <= recv_closing[Peer(s)]
             /\ \A k \in DOMAIN w : w[k] <= recv_closing[Peer(s)]
      BY <3>1, <3>2 DEF Falls, w
    <3>12. recv_closing[Peer(s)] # None =>
             \A k \in DOMAIN wire'[s] : wire'[s][k] <= recv_closing[Peer(s)]
      BY <3>4, <3>6, <3>11
    <3> QED BY <3>3, <3>5, <3>7, <3>8, <3>10, <3>11, <3>12 DEF Falls
  <2> QED BY <1>4, <2>1, <2>2 DEF GoawayInv, FlushControl
<1>5. ASSUME NEW s \in Side, SendGoaway(s) PROVE GoawayInv'
  <2>1. ASSUME NEW t \in Side, t # s PROVE Falls(t)'
    BY <1>5, <2>1, FallsKept DEF GoawayInv, SendGoaway, TypeOK
  <2>2. Falls(s)'
    <3>1. Falls(s) BY DEF GoawayInv
    <3>2. buffered'[s] = sent_closing[s] /\ mode'[s] \notin {"ready", "ready last"}
      BY <1>5 DEF SendGoaway, TypeOK, Modes
    <3>3. sent_closing[s] # None /\ sent_closing[s] \in Int
      BY <1>5, <3>1, GoawayTypes DEF Falls, SendGoaway
    <3>4. UNCHANGED <<sent_closing, recv_closing, wire>> BY <1>5 DEF SendGoaway
    <3>5. \A k \in DOMAIN wire[s] :
             /\ sent_closing[s] <= wire[s][k]
             /\ \A l \in DOMAIN wire[s] : k < l => wire[s][l] <= wire[s][k]
      BY <3>1 DEF Falls
    <3>6. recv_closing[Peer(s)] # None =>
             /\ sent_closing[s] <= recv_closing[Peer(s)]
             /\ \A k \in DOMAIN wire[s] : wire[s][k] <= recv_closing[Peer(s)]
      BY <3>1 DEF Falls
    <3>7. /\ sent_closing'[s] = sent_closing[s] /\ wire'[s] = wire[s]
          /\ recv_closing'[Peer(s)] = recv_closing[Peer(s)]
      BY <3>4
    <3>8. sent_closing[s] <= sent_closing[s] BY <3>3
    <3> QED BY <3>2, <3>3, <3>5, <3>6, <3>7, <3>8 DEF Falls
  <2> QED BY <1>5, <2>1, <2>2 DEF GoawayInv, SendGoaway
<1>6. ASSUME NEW s \in Side, ShutdownReturns(s) \/ CancelWrite(s) PROVE GoawayInv'
  <2>1. \A t \in Side : mode'[t] \in {"ready", "ready last"} => mode[t] \in {"ready", "ready last"}
    BY <1>6 DEF ShutdownReturns, CancelWrite, TypeOK
  <2> QED BY <1>0, <1>6, <2>1 DEF ShutdownReturns, CancelWrite
<1>7. ASSUME NEW s \in Side, ProcessGoaway(s) PROVE GoawayInv'
  <2> DEFINE t == Peer(s)
             w == wire[t]
  <2>1. t \in Side /\ t # s /\ Peer(t) = s BY GoawayTypes
  <2>2. Falls(t) BY <2>1 DEF GoawayInv
  <2>3. w \in Seq(Int) /\ w # <<>> /\ DOMAIN w = 1 .. Len(w) /\ 1 \in DOMAIN w
    BY <1>7, <2>1, GoawayTypes DEF ProcessGoaway
  <2>4. /\ wire'[t] = Tail(w) /\ Head(w) = w[1]
        /\ DOMAIN Tail(w) = 1 .. (Len(w) - 1)
        /\ \A k \in 1 .. (Len(w) - 1) : Tail(w)[k] = w[k + 1] /\ k + 1 \in DOMAIN w
    BY <1>7, <2>1, <2>3 DEF ProcessGoaway, TypeOK
  <2>5. w[1] \in Int /\ \A k \in DOMAIN w : w[k] \in Int /\ w[k] # None
    BY <2>1, <2>3, GoawayTypes
  <2>6. recv_closing[s] # None => recv_closing[s] \in Int /\ w[1] <= recv_closing[s]
    BY <2>1, <2>2, <2>3, GoawayTypes DEF Falls
  <2>7. ~(recv_closing[s] # None /\ recv_closing[s] < Head(w))
    BY <2>4, <2>5, <2>6
  <2>8. recv_closing' = [recv_closing EXCEPT ![s] = w[1]] /\ UNCHANGED id_error
    BY <1>7, <2>4, <2>7 DEF ProcessGoaway
  <2>9. UNCHANGED <<sent_closing, buffered, mode>> BY <1>7 DEF ProcessGoaway
  <2>10. ASSUME NEW u \in Side, u # t PROVE Falls(u)'
    <3>1. u = s BY <2>1, <2>10 DEF Side
    <3>2. wire'[u] = wire[u] BY <1>7, <2>1, <2>10 DEF ProcessGoaway, TypeOK
    <3>3. recv_closing'[Peer(u)] = recv_closing[Peer(u)]
      BY <2>1, <2>8, <3>1 DEF TypeOK
    <3> QED BY <2>9, <3>2, <3>3, FallsKept DEF GoawayInv
  <2>11. Falls(t)'
    <3>1. recv_closing'[s] = w[1] BY <2>8 DEF TypeOK
    <3>2. \A k \in DOMAIN w : /\ sent_closing[t] # None /\ sent_closing[t] <= w[k]
                              /\ buffered[t] # None => buffered[t] <= w[k]
                              /\ \A l \in DOMAIN w : k < l => w[l] <= w[k]
      BY <2>2 DEF Falls
    <3> HIDE DEF w, t
    <3>3. \A k \in DOMAIN wire'[t] :
             /\ sent_closing[t] # None /\ sent_closing[t] <= wire'[t][k]
             /\ buffered[t] # None => buffered[t] <= wire'[t][k]
             /\ \A l \in DOMAIN wire'[t] : k < l => wire'[t][l] <= wire'[t][k]
      BY <2>3, <2>4, <3>2
    <3>4. \A k \in DOMAIN wire'[t] : wire'[t][k] <= w[1]
      <4> SUFFICES ASSUME NEW k \in DOMAIN wire'[t] PROVE wire'[t][k] <= w[1]
        OBVIOUS
      <4>1. k \in 1 .. (Len(w) - 1) BY <2>4
      <4>2. 1 < k + 1 /\ k + 1 \in DOMAIN w /\ wire'[t][k] = w[k + 1] BY <2>4, <4>1
      <4> QED BY <2>3, <3>2, <4>2
    <3>5. /\ mode[t] \in {"ready", "ready last"} => sent_closing[t] # None
          /\ buffered[t] # None => sent_closing[t] # None /\ sent_closing[t] <= buffered[t]
      BY <2>2 DEF Falls
    <3>6. /\ sent_closing[t] # None /\ sent_closing[t] <= w[1]
          /\ buffered[t] # None => buffered[t] <= w[1]
      BY <2>3, <3>2
    <3>7. UNCHANGED <<sent_closing, buffered, mode>> BY <2>9
    <3> QED BY <2>1, <3>1, <3>3, <3>4, <3>5, <3>6, <3>7 DEF Falls
  <2> QED BY <2>8, <2>10, <2>11 DEF GoawayInv
<1>8. ASSUME NEW i \in Index, RejectRequest(i) PROVE GoawayInv'
  <2>1. CASE StillOngoing = {} BY <1>3, <1>8, <2>1 DEF RejectRequest
  <2>2. CASE StillOngoing # {} BY <1>0, <1>8, <2>2 DEF RejectRequest
  <2> QED BY <2>1, <2>2
<1>9. CASE AcceptReturnsNone BY <1>3, <1>9 DEF AcceptReturnsNone
<1>10. CASE UNCHANGED goaway BY <1>0, <1>10 DEF goaway
<1>11. ASSUME \/ \E h \in Senders : CheckClosing(h) \/ OpenRequest(h)
              \/ \E i \in Index : AcceptRequest(i) \/ SplitRequest(i) \/ DropPart(i)
              \/ DropServer \/ UNCHANGED vars
       PROVE  UNCHANGED goaway
  BY <1>11 DEF CheckClosing, OpenRequest, AcceptRequest, SplitRequest, DropPart, DropServer, vars
<1> QED BY <1>1, <1>2, <1>4, <1>5, <1>6, <1>7, <1>8, <1>9, <1>10, <1>11 DEF Next

(***************************************************************************)
(* The order of requests.                                                  *)
(***************************************************************************)

(* Requests, and the bound between accepted and rejected, are in order at  *)
(* the start.                                                              *)
LEMMA InitOrder == Init => OrderInv /\ BoundInv /\ PartInv /\ NoneMeansAllDone /\ GraceInv
<1> SUFFICES ASSUME Init PROVE OrderInv /\ BoundInv /\ PartInv /\ NoneMeansAllDone /\ GraceInv
  OBVIOUS
<1>1. OrderInv BY MaxIndexAssumption DEF Init, OrderInv, Answered, Settled, Index
<1>2. BoundInv /\ PartInv BY DEF Init, BoundInv, PartInv, Side
<1>3. NoneMeansAllDone BY DEF Init, NoneMeansAllDone, OngoingIsAccurate, StillOngoing, Side
<1>4. GraceInv BY DEF Init, GraceInv, Side
<1> QED BY <1>1, <1>2, <1>3, <1>4

(* The types of what the order of requests is about.                       *)
LEMMA OrderTypes ==
  ASSUME TypeOK
  PROVE  /\ Index \subseteq Int /\ None \notin Index /\ opened \in Int
         /\ stream \in [Index -> {"unopened", "opened", "accepted", "rejected", "done", "lost"}]
         /\ last_accepted_stream # None => last_accepted_stream \in Index
         /\ sent_closing["server"] # None => sent_closing["server"] \in Index
<1>1. Index \subseteq Int /\ None \notin Index BY NoneAssumption DEF Index
<1>2. "server" \in Side BY DEF Side
<1> QED BY <1>1, <1>2 DEF TypeOK

(* When QUIC hands over a request, the server has accepted every earlier   *)
(* one that its GOAWAY does not exclude.                                   *)
LEMMA BeforeIncoming ==
  ASSUME TypeOK, OrderInv, BoundInv, NEW i \in Index, Incoming(i), NEW j \in Index, j < i,
         sent_closing["server"] # None => j <= sent_closing["server"]
  PROVE  Answered(j)
<1>1. stream[i] = "opened" /\ ~closed /\ stream[j] # "opened" BY DEF Incoming
<1>2. stream[j] # "unopened"
  <2>1. ~(opened <= i) BY <1>1 DEF OrderInv
  <2>2. ~(opened <= j) BY <2>1, OrderTypes
  <2> QED BY <2>2 DEF OrderInv
<1>3. stream[j] # "lost" BY <1>1 DEF OrderInv
<1>4. stream[j] # "rejected"
  <2>1. sent_closing["server"] # None => sent_closing["server"] \in Int /\ j \in Int
    BY OrderTypes
  <2> QED BY <2>1 DEF BoundInv
<1> QED BY <1>1, <1>2, <1>3, <1>4, OrderTypes DEF Answered

(* A request that QUIC hands over is above every request accepted.         *)
LEMMA IncomingIsLater ==
  ASSUME TypeOK, OrderInv, NEW i \in Index, Incoming(i), last_accepted_stream # None
  PROVE  last_accepted_stream < i
<1>1. last_accepted_stream \in Index /\ last_accepted_stream <= last_accepted_stream
  BY OrderTypes
<1>2. Answered(last_accepted_stream) BY <1>1 DEF OrderInv
<1> QED BY <1>1, <1>2 DEF OrderInv, Incoming, Answered, Settled

(* Requests are opened, accepted and rejected in order.                    *)
LEMMA NextOrder ==
  ASSUME TypeOK, OrderInv, BoundInv, PartInv, [Next]_vars
  PROVE  OrderInv'
<1> DEFINE Kept == UNCHANGED <<opened, stream, closed, last_accepted_stream>>
<1>1. ASSUME Kept PROVE OrderInv'
  BY <1>1 DEF OrderInv, Answered, Settled
<1>2. ASSUME NEW h \in Senders, OpenRequest(h) PROVE OrderInv'
  <2>1. /\ opened \in Index /\ stream' = [stream EXCEPT ![opened] = "opened"]
        /\ opened' = opened + 1 /\ ~closed
        /\ UNCHANGED <<closed, last_accepted_stream>>
    BY <1>2 DEF OpenRequest, server
  <2>2. stream[opened] = "unopened"
    <3>1. opened <= opened BY OrderTypes
    <3> QED BY <2>1, <3>1 DEF OrderInv
  <2>3. \A k \in Index : stream'[k] = IF k = opened THEN "opened" ELSE stream[k]
    BY <2>1, OrderTypes
  <2>4. \A k \in Index : (stream[k] = "unopened" <=> opened <= k)
                         /\ k \in Int /\ (opened + 1 <= k <=> opened <= k /\ k # opened)
    BY OrderTypes DEF OrderInv
  <2>5. \A k \in Index : stream'[k] = "unopened" <=> opened' <= k
    BY <2>1, <2>3, <2>4
  <2>6. \A k \in Index : Settled(k)' <=> Settled(k) BY <2>2, <2>3 DEF Settled
  <2>7. \A k \in Index : Answered(k)' <=> Answered(k) BY <2>2, <2>3 DEF Answered
  <2>8. \A k \in Index : Settled(k) => k < opened
    BY <2>4, OrderTypes DEF Settled
  <2>9. \A k, j \in Index : stream'[k] = "opened" /\ Settled(j)' => j < k
    BY <2>3, <2>6, <2>8 DEF OrderInv
  <2> QED BY <2>1, <2>3, <2>5, <2>7, <2>9 DEF OrderInv
<1>3. ASSUME NEW i \in Index, Incoming(i), UNCHANGED <<opened, closed>>,
             NEW fate \in {"accepted", "rejected"}, stream' = [stream EXCEPT ![i] = fate]
      PROVE  /\ \A k \in Index : stream'[k] = "unopened" <=> opened' <= k
             /\ \A k, j \in Index : stream'[k] = "opened" /\ Settled(j)' => j < k
             /\ \A k \in Index : ~closed' => stream'[k] # "lost"
             /\ \A k \in Index : stream'[k] = IF k = i THEN fate ELSE stream[k]
  <2>1. \A k \in Index : stream'[k] = IF k = i THEN fate ELSE stream[k] BY <1>3, OrderTypes
  <2>2. stream[i] = "opened" /\ \A j \in Index : j < i => stream[j] # "opened"
    BY <1>3 DEF Incoming
  <2>3. \A k \in Index : stream'[k] = "unopened" <=> opened' <= k
    BY <1>3, <2>1, <2>2 DEF OrderInv
  <2>4. ASSUME NEW k \in Index, NEW j \in Index, stream'[k] = "opened", Settled(j)'
        PROVE  j < k
    <3>1. k # i /\ stream[k] = "opened" BY <2>1, <2>4
    <3>2. i < k BY <2>2, <3>1, OrderTypes
    <3>3. CASE j = i BY <3>2, <3>3
    <3>4. CASE j # i BY <2>1, <2>4, <3>1, <3>4 DEF Settled, OrderInv
    <3> QED BY <3>3, <3>4
  <2>5. \A k \in Index : ~closed' => stream'[k] # "lost" BY <1>3, <2>1 DEF OrderInv
  <2> QED BY <2>1, <2>3, <2>4, <2>5
<1>4. ASSUME NEW i \in Index, AcceptRequest(i) PROVE OrderInv'
  <2>1. /\ Incoming(i) /\ InGrace(i) /\ stream' = [stream EXCEPT ![i] = "accepted"]
        /\ UNCHANGED <<opened, closed>> /\ last_accepted_stream' = i
    BY <1>4 DEF AcceptRequest
  <2>2. /\ \A k \in Index : stream'[k] = "unopened" <=> opened' <= k
        /\ \A k, j \in Index : stream'[k] = "opened" /\ Settled(j)' => j < k
        /\ \A k \in Index : ~closed' => stream'[k] # "lost"
        /\ \A k \in Index : stream'[k] = IF k = i THEN "accepted" ELSE stream[k]
    BY <1>3, <2>1
  <2>3. ASSUME NEW k \in Index PROVE Answered(k)' <=> k <= i
    <3>1. CASE k = i BY <2>2, <3>1, OrderTypes DEF Answered
    <3>2. CASE k < i
      <4>1. sent_closing["server"] # None => k <= sent_closing["server"]
        BY <2>1, <3>2, OrderTypes DEF InGrace
      <4>2. Answered(k) BY <2>1, <3>2, <4>1, BeforeIncoming
      <4>3. k # i /\ k <= i BY <3>2, OrderTypes
      <4> QED BY <2>2, <4>2, <4>3 DEF Answered
    <3>3. CASE i < k
      <4>1. ~Settled(k) BY <2>1, <3>3, OrderTypes DEF Incoming, OrderInv
      <4>2. k # i /\ ~(k <= i) BY <3>3, OrderTypes
      <4> QED BY <2>2, <4>1, <4>2 DEF Settled, Answered
    <3> QED BY <3>1, <3>2, <3>3, OrderTypes
  <2>4. last_accepted_stream' # None BY <2>1, OrderTypes
  <2> QED BY <2>1, <2>2, <2>3, <2>4 DEF OrderInv
<1>5. ASSUME NEW i \in Index, RejectRequest(i) PROVE OrderInv'
  <2>1. /\ Incoming(i) /\ stream' = [stream EXCEPT ![i] = "rejected"]
        /\ UNCHANGED <<opened, closed, last_accepted_stream>>
    BY <1>5 DEF RejectRequest
  <2>2. /\ \A k \in Index : stream'[k] = "unopened" <=> opened' <= k
        /\ \A k, j \in Index : stream'[k] = "opened" /\ Settled(j)' => j < k
        /\ \A k \in Index : ~closed' => stream'[k] # "lost"
        /\ \A k \in Index : stream'[k] = IF k = i THEN "rejected" ELSE stream[k]
    BY <1>3, <2>1
  <2>3. \A k \in Index : Answered(k)' <=> Answered(k)
    BY <2>1, <2>2 DEF Answered, Incoming
  <2> QED BY <2>1, <2>2, <2>3 DEF OrderInv
<1>6. ASSUME NEW i \in Index, DropPart(i) PROVE OrderInv'
  <2>1. UNCHANGED <<opened, closed, last_accepted_stream>> /\ part[i] # "none"
    BY <1>6 DEF DropPart
  <2>2. stream[i] = "accepted" BY <2>1 DEF PartInv
  <2>3. CASE stream' = stream BY <1>1, <2>1, <2>3
  <2>4. CASE stream' = [stream EXCEPT ![i] = "done"]
    <3>1. \A k \in Index : stream'[k] = IF k = i THEN "done" ELSE stream[k]
      BY <2>4, OrderTypes
    <3>2. \A k \in Index : /\ Answered(k)' <=> Answered(k)
                           /\ Settled(k)' <=> Settled(k)
                           /\ \A x \in {"unopened", "opened", "lost"} :
                                stream'[k] = x <=> stream[k] = x
      BY <2>2, <3>1 DEF Answered, Settled
    <3> QED BY <2>1, <3>2 DEF OrderInv
  <2> QED BY <1>6, <2>3, <2>4 DEF DropPart
<1>7. CASE DropServer
  <2>1. /\ closed' = TRUE /\ UNCHANGED <<opened, last_accepted_stream>>
        /\ \A k \in Index : stream'[k] = IF stream[k] = "opened" THEN "lost" ELSE stream[k]
    BY <1>7 DEF DropServer, server
  <2>2. \A k \in Index : /\ Answered(k)' <=> Answered(k)
                         /\ stream'[k] = "unopened" <=> stream[k] = "unopened"
                         /\ stream'[k] # "opened"
    BY <2>1 DEF Answered
  <2> QED BY <2>1, <2>2 DEF OrderInv
<1>8. ASSUME \/ \E h \in Senders : CheckClosing(h)
             \/ \E n \in Grace : ServerShutdown(n)
             \/ ClientShutdown
             \/ \E s \in Side : FlushControl(s) \/ SendGoaway(s) \/ ShutdownReturns(s)
             \/ \E s \in Side : CancelWrite(s) \/ ProcessGoaway(s)
             \/ AcceptReturnsNone
             \/ \E i \in Index : SplitRequest(i)
             \/ UNCHANGED vars
      PROVE  Kept
  BY <1>8 DEF CheckClosing, ServerShutdown, ClientShutdown, FlushControl, SendGoaway,
     ShutdownReturns, CancelWrite, ProcessGoaway, AcceptReturnsNone, SplitRequest, vars,
     requests, server
<1> QED BY <1>1, <1>2, <1>4, <1>5, <1>6, <1>7, <1>8 DEF Next

(* What shutdown on the server's side does to what it has decided on: only *)
(* a lower identifier, not below the last request accepted, replaces it.   *)
LEMMA ShutdownBound ==
  ASSUME TypeOK, BoundInv, NEW n \in Nat, NEW begin \in Modes, NEW skip \in Modes,
         shutdown("server", MaxId(n), begin, skip),
         UNCHANGED <<stream, last_accepted_stream>>
  PROVE  BoundInv'
<1> DEFINE sent == sent_closing["server"]
<1>1. MaxId(n) \in Index BY MaxIdType
<1>2. "server" \in Side BY DEF Side
<1>3. \/ sent_closing' = sent_closing
      \/ /\ sent_closing'["server"] = MaxId(n) /\ MaxId(n) # None
         /\ sent # None => MaxId(n) < sent
  BY <1>1, <1>2, ShutdownRecords
<1>4. CASE sent_closing' = sent_closing BY <1>4 DEF BoundInv
<1>5. CASE /\ sent_closing'["server"] = MaxId(n) /\ MaxId(n) # None
           /\ sent # None => MaxId(n) < sent
  <2>1. MaxId(n) \in Int /\ (sent # None => sent \in Int) BY <1>1, OrderTypes
  <2>2. ASSUME NEW i \in Index, stream[i] = "rejected" PROVE MaxId(n) < i
    <3>1. sent # None /\ sent < i BY <2>2 DEF BoundInv
    <3> QED BY <1>5, <2>1, <3>1, OrderTypes
  <2>3. last_accepted_stream # None => last_accepted_stream <= MaxId(n) BY MaxIdType
  <2> QED BY <1>5, <2>2, <2>3 DEF BoundInv
<1> QED BY <1>3, <1>4, <1>5

(* The same for what shutdown(n) promises.                                 *)
LEMMA ShutdownGrace ==
  ASSUME TypeOK, GraceInv, NEW n \in Nat, NEW begin \in Modes, NEW skip \in Modes,
         shutdown("server", MaxId(n), begin, skip), UNCHANGED last_accepted_stream,
         grace' = IF sent_closing' = sent_closing THEN grace
                  ELSE [left |-> n, idle |-> last_accepted_stream = None]
  PROVE  GraceInv'
<1>1. MaxId(n) \in Index BY MaxIdType
<1>2. "server" \in Side BY DEF Side
<1>3. \/ sent_closing' = sent_closing
      \/ sent_closing'["server"] = MaxId(n) /\ sent_closing' # sent_closing
  BY <1>1, <1>2, ShutdownRecords
<1>4. CASE sent_closing' = sent_closing
  <2>1. grace' = grace BY <1>4
  <2> QED BY <1>4, <2>1 DEF GraceInv
<1>5. CASE sent_closing'["server"] = MaxId(n) /\ sent_closing' # sent_closing
  <2> DEFINE first == last_accepted_stream = None
  <2>1. grace' = [left |-> n, idle |-> first] BY <1>5
  <2>2. first \in BOOLEAN /\ (~first => last_accepted_stream # None) OBVIOUS
  <2> HIDE DEF first
  <2>3. grace' # None /\ grace'.left = n /\ (~grace'.idle => last_accepted_stream # None)
    <3>1. grace' \in [left : Int, idle : BOOLEAN] BY <2>1, <2>2
    <3>2. grace' # None BY <3>1, NoneAssumption
    <3>3. grace'.left = n /\ grace'.idle = first BY <2>1
    <3> QED BY <2>2, <3>2, <3>3
  <2>4. last_accepted_stream # None => MaxId(n) = Plus(last_accepted_stream, n) BY MaxIdType
  <2> QED BY <1>5, <2>3, <2>4 DEF GraceInv
<1> QED BY <1>3, <1>4, <1>5

(* The identifier the server has decided on stays between the requests it  *)
(* accepts and those it rejects.                                           *)
LEMMA NextBound ==
  ASSUME TypeOK, OrderInv, BoundInv, PartInv, [Next]_vars
  PROVE  BoundInv'
<1> DEFINE sent == sent_closing["server"]
<1>0. "server" \in Side /\ "client" \in Side /\ "server" # "client" BY DEF Side
<1>1. ASSUME sent_closing'["server"] = sent, UNCHANGED <<stream, last_accepted_stream>>
      PROVE  BoundInv'
  BY <1>1 DEF BoundInv
<1>2. ASSUME NEW h \in Senders, OpenRequest(h) PROVE BoundInv'
  <2>1. /\ stream' = [stream EXCEPT ![opened] = "opened"]
        /\ UNCHANGED <<sent_closing, last_accepted_stream>>
    BY <1>2 DEF OpenRequest, goaway, server
  <2>2. \A k \in Index : stream'[k] = "rejected" => stream[k] = "rejected"
    BY <2>1, OrderTypes
  <2> QED BY <2>1, <2>2 DEF BoundInv
<1>3. ASSUME NEW n \in Grace, ServerShutdown(n) PROVE BoundInv'
  <2>1. n \in Nat BY GraceAssumption
  <2> QED BY <1>3, <2>1, ShutdownBound DEF ServerShutdown, requests, server, Modes
<1>4. CASE ClientShutdown
  <2>1. 0 \in Index BY MaxIndexAssumption DEF Index
  <2>2. sent_closing'["server"] = sent
    BY <1>0, <1>4, <2>1, ShutdownRecords DEF ClientShutdown, Modes
  <2> QED BY <1>1, <1>4, <2>2 DEF ClientShutdown, requests, server
<1>5. ASSUME NEW i \in Index, AcceptRequest(i) PROVE BoundInv'
  <2>1. /\ InGrace(i) /\ stream' = [stream EXCEPT ![i] = "accepted"]
        /\ UNCHANGED sent_closing /\ last_accepted_stream' = i
    BY <1>5 DEF AcceptRequest, goaway
  <2>2. \A k \in Index : stream'[k] = "rejected" => stream[k] = "rejected"
    BY <2>1, OrderTypes
  <2> QED BY <2>1, <2>2 DEF BoundInv, InGrace
<1>6. ASSUME NEW i \in Index, RejectRequest(i) PROVE BoundInv'
  <2>1. /\ ~InGrace(i) /\ stream' = [stream EXCEPT ![i] = "rejected"]
        /\ UNCHANGED last_accepted_stream
    BY <1>6 DEF RejectRequest
  <2>2. sent # None /\ sent < i BY <2>1, OrderTypes DEF InGrace
  <2>3. \A k \in Index : stream'[k] = "rejected" => stream[k] = "rejected" \/ k = i
    BY <2>1, OrderTypes
  <2>4. \A k \in Index : stream'[k] = "rejected" => sent < k BY <2>2, <2>3 DEF BoundInv
  <2>5. CASE StillOngoing # {}
    BY <1>6, <2>1, <2>2, <2>4, <2>5 DEF RejectRequest, BoundInv
  <2>6. CASE StillOngoing = {}
    <3>1. ReturnNone BY <1>6, <2>6 DEF RejectRequest
    <3>2. MaxId(0) \in Index /\ 0 \in Nat BY MaxIdType
    <3>3. \/ sent_closing' = sent_closing
          \/ /\ sent_closing'["server"] = MaxId(0) /\ MaxId(0) # None
             /\ sent # None => MaxId(0) < sent
      BY <1>0, <3>1, <3>2, ShutdownRecords DEF ReturnNone, Modes
    <3>4. CASE sent_closing' = sent_closing BY <2>1, <2>2, <2>4, <3>4 DEF BoundInv
    <3>5. CASE /\ sent_closing'["server"] = MaxId(0) /\ MaxId(0) # None /\ MaxId(0) < sent
      <4>1. MaxId(0) \in Int /\ sent \in Int BY <2>2, <3>2, OrderTypes
      <4>2. \A k \in Index : stream'[k] = "rejected" => MaxId(0) < k
        BY <2>4, <3>5, <4>1, OrderTypes
      <4>3. last_accepted_stream # None => last_accepted_stream <= MaxId(0)
        BY <3>2, MaxIdType
      <4> QED BY <2>1, <3>5, <4>2, <4>3 DEF BoundInv
    <3> QED BY <2>2, <3>3, <3>4, <3>5
  <2> QED BY <2>5, <2>6
<1>7. CASE AcceptReturnsNone
  BY <1>7, ShutdownBound DEF AcceptReturnsNone, ReturnNone, requests, Modes
<1>8. ASSUME NEW i \in Index, DropPart(i) PROVE BoundInv'
  <2>1. UNCHANGED <<sent_closing, last_accepted_stream>> BY <1>8 DEF DropPart, goaway
  <2>2. stream' = stream \/ stream' = [stream EXCEPT ![i] = "done"] BY <1>8 DEF DropPart
  <2>3. \A k \in Index : stream'[k] = "rejected" => stream[k] = "rejected"
    BY <2>2, OrderTypes
  <2> QED BY <2>1, <2>3 DEF BoundInv
<1>9. CASE DropServer
  <2>1. /\ UNCHANGED <<sent_closing, last_accepted_stream>>
        /\ \A k \in Index : stream'[k] = IF stream[k] = "opened" THEN "lost" ELSE stream[k]
    BY <1>9 DEF DropServer, goaway, server
  <2> QED BY <2>1 DEF BoundInv
<1>10. ASSUME \/ \E h \in Senders : CheckClosing(h)
              \/ \E s \in Side : FlushControl(s) \/ SendGoaway(s) \/ ShutdownReturns(s)
              \/ \E s \in Side : CancelWrite(s) \/ ProcessGoaway(s)
              \/ \E i \in Index : SplitRequest(i)
              \/ UNCHANGED vars
       PROVE  UNCHANGED <<sent_closing, stream, last_accepted_stream>>
  BY <1>10 DEF CheckClosing, FlushControl, SendGoaway, ShutdownReturns, CancelWrite,
     ProcessGoaway, SplitRequest, vars, goaway, requests, server
<1> QED BY <1>1, <1>2, <1>3, <1>4, <1>5, <1>6, <1>7, <1>8, <1>9, <1>10 DEF Next

(***************************************************************************)
(* The requests the server waits for.                                      *)
(***************************************************************************)

(* The halves of a request are alive from its acceptance to its end.       *)
LEMMA NextPart ==
  ASSUME TypeOK, OrderInv, PartInv, [Next]_vars
  PROVE  PartInv'
<1>0. part \in [Index -> {"none", "whole", "two", "one"}] BY DEF TypeOK
<1>1. ASSUME UNCHANGED part,
             \A k \in Index : stream'[k] = "accepted" <=> stream[k] = "accepted"
      PROVE  PartInv'
  BY <1>1 DEF PartInv
<1>2. ASSUME NEW h \in Senders, OpenRequest(h) PROVE PartInv'
  <2>1. opened \in Index /\ stream' = [stream EXCEPT ![opened] = "opened"] /\ part' = part
    BY <1>2 DEF OpenRequest
  <2>2. stream[opened] = "unopened"
    <3>1. opened <= opened BY OrderTypes
    <3> QED BY <2>1, <3>1 DEF OrderInv
  <2>3. \A k \in Index : stream'[k] = "accepted" <=> stream[k] = "accepted"
    BY <2>1, <2>2, OrderTypes
  <2> QED BY <1>1, <2>1, <2>3
<1>3. ASSUME NEW i \in Index, AcceptRequest(i) PROVE PartInv'
  <2>1. /\ stream' = [stream EXCEPT ![i] = "accepted"] /\ part' = [part EXCEPT ![i] = "whole"]
    BY <1>3 DEF AcceptRequest
  <2> QED BY <1>0, <2>1, OrderTypes DEF PartInv
<1>4. ASSUME NEW i \in Index, RejectRequest(i) PROVE PartInv'
  <2>1. /\ stream[i] = "opened" /\ stream' = [stream EXCEPT ![i] = "rejected"] /\ part' = part
    BY <1>4 DEF RejectRequest, Incoming
  <2>2. \A k \in Index : stream'[k] = "accepted" <=> stream[k] = "accepted"
    BY <2>1, OrderTypes
  <2> QED BY <1>1, <2>1, <2>2
<1>5. ASSUME NEW i \in Index, SplitRequest(i) PROVE PartInv'
  <2>1. part[i] = "whole" /\ part' = [part EXCEPT ![i] = "two"] /\ stream' = stream
    BY <1>5 DEF SplitRequest
  <2> QED BY <1>0, <2>1 DEF PartInv
<1>6. ASSUME NEW i \in Index, DropPart(i) PROVE PartInv'
  <2>1. CASE part[i] = "two"
    <3>1. part' = [part EXCEPT ![i] = "one"] /\ stream' = stream BY <1>6, <2>1 DEF DropPart
    <3> QED BY <1>0, <2>1, <3>1 DEF PartInv
  <2>2. CASE part[i] # "two"
    <3>1. part' = [part EXCEPT ![i] = "none"] /\ stream' = [stream EXCEPT ![i] = "done"]
      BY <1>6, <2>2 DEF DropPart
    <3> QED BY <1>0, <3>1, OrderTypes DEF PartInv
  <2> QED BY <2>1, <2>2
<1>7. CASE DropServer
  BY <1>1, <1>7 DEF DropServer
<1>8. ASSUME \/ \E h \in Senders : CheckClosing(h)
             \/ \E n \in Grace : ServerShutdown(n)
             \/ ClientShutdown
             \/ \E s \in Side : FlushControl(s) \/ SendGoaway(s) \/ ShutdownReturns(s)
             \/ \E s \in Side : CancelWrite(s) \/ ProcessGoaway(s)
             \/ AcceptReturnsNone
             \/ UNCHANGED vars
      PROVE  UNCHANGED <<stream, part>>
  BY <1>8 DEF CheckClosing, ServerShutdown, ClientShutdown, FlushControl, SendGoaway,
     ShutdownReturns, CancelWrite, ProcessGoaway, AcceptReturnsNone, vars, requests
<1> QED BY <1>1, <1>2, <1>3, <1>4, <1>5, <1>6, <1>7, <1>8 DEF Next

(* The requests counted as ongoing are those accepted and not done, in     *)
(* whatever order their ends come through the channel.                     *)
LEMMA NextOngoing ==
  ASSUME TypeOK, OrderInv, PartInv, OngoingIsAccurate, [Next]_vars
  PROVE  OngoingIsAccurate'
<1>1. ASSUME UNCHANGED <<ongoing_streams, request_end>>,
             \A k \in Index : stream'[k] = "accepted" <=> stream[k] = "accepted"
      PROVE  OngoingIsAccurate'
  BY <1>1 DEF OngoingIsAccurate, StillOngoing
<1>2. ASSUME NEW h \in Senders, OpenRequest(h) PROVE OngoingIsAccurate'
  <2>1. /\ opened \in Index /\ stream' = [stream EXCEPT ![opened] = "opened"]
        /\ UNCHANGED <<ongoing_streams, request_end>>
    BY <1>2 DEF OpenRequest, server
  <2>2. stream[opened] = "unopened"
    <3>1. opened <= opened BY OrderTypes
    <3> QED BY <2>1, <3>1 DEF OrderInv
  <2>3. \A k \in Index : stream'[k] = "accepted" <=> stream[k] = "accepted"
    BY <2>1, <2>2, OrderTypes
  <2> QED BY <1>1, <2>1, <2>3
<1>3. ASSUME NEW i \in Index, AcceptRequest(i) PROVE OngoingIsAccurate'
  <2>1. /\ stream' = [stream EXCEPT ![i] = "accepted"]
        /\ ongoing_streams' = StillOngoing \cup {i} /\ request_end' = {}
    BY <1>3 DEF AcceptRequest
  <2> QED BY <2>1, OrderTypes DEF OngoingIsAccurate, StillOngoing
<1>4. ASSUME poll_requests_completion,
             \A k \in Index : stream'[k] = "accepted" <=> stream[k] = "accepted"
      PROVE  OngoingIsAccurate'
  BY <1>4 DEF poll_requests_completion, OngoingIsAccurate, StillOngoing
<1>5. ASSUME NEW i \in Index, RejectRequest(i) PROVE OngoingIsAccurate'
  <2>1. /\ stream[i] = "opened" /\ stream' = [stream EXCEPT ![i] = "rejected"]
        /\ poll_requests_completion
    BY <1>5 DEF RejectRequest, Incoming
  <2>2. \A k \in Index : stream'[k] = "accepted" <=> stream[k] = "accepted"
    BY <2>1, OrderTypes
  <2> QED BY <1>4, <2>1, <2>2
<1>6. CASE AcceptReturnsNone
  BY <1>4, <1>6 DEF AcceptReturnsNone, requests
<1>7. ASSUME NEW i \in Index, DropPart(i) PROVE OngoingIsAccurate'
  <2>1. CASE part[i] = "two" BY <1>1, <1>7, <2>1 DEF DropPart
  <2>2. CASE part[i] # "two"
    <3>1. /\ stream' = [stream EXCEPT ![i] = "done"]
          /\ request_end' = request_end \cup {i} /\ ongoing_streams' = ongoing_streams
          /\ part[i] # "none"
      BY <1>7, <2>2 DEF DropPart
    <3>2. stream[i] = "accepted" BY <3>1 DEF PartInv
    <3> QED BY <3>1, <3>2, OrderTypes DEF OngoingIsAccurate, StillOngoing
  <2> QED BY <2>1, <2>2
<1>8. CASE DropServer
  BY <1>1, <1>8 DEF DropServer, server
<1>9. ASSUME \/ \E h \in Senders : CheckClosing(h)
             \/ \E n \in Grace : ServerShutdown(n)
             \/ ClientShutdown
             \/ \E s \in Side : FlushControl(s) \/ SendGoaway(s) \/ ShutdownReturns(s)
             \/ \E s \in Side : CancelWrite(s) \/ ProcessGoaway(s)
             \/ \E i \in Index : SplitRequest(i)
             \/ UNCHANGED vars
      PROVE  UNCHANGED <<stream, ongoing_streams, request_end>>
  BY <1>9 DEF CheckClosing, ServerShutdown, ClientShutdown, FlushControl, SendGoaway,
     ShutdownReturns, CancelWrite, ProcessGoaway, SplitRequest, vars, requests, server
<1> QED BY <1>1, <1>2, <1>3, <1>5, <1>6, <1>7, <1>8, <1>9 DEF Next

(* accept() is on its way to None, or there, only with no request left.    *)
LEMMA NextDone ==
  ASSUME TypeOK, OrderInv, PartInv, NoneMeansAllDone, [Next]_vars
  PROVE  NoneMeansAllDone'
<1> DEFINE Ending == mode["server"] \in {"ready last", "flush last", "ended"}
           AllDone == \A i \in Index : stream[i] # "accepted"
<1>0. OngoingIsAccurate' BY NextOngoing DEF NoneMeansAllDone
<1>1. (Ending => AllDone) /\ OngoingIsAccurate BY DEF NoneMeansAllDone
<1> SUFFICES Ending' => AllDone' BY <1>0 DEF NoneMeansAllDone
<1> HIDE DEF Ending, AllDone
<1>2. ASSUME Ending' => Ending,
             \A i \in Index : stream'[i] = "accepted" => stream[i] = "accepted"
      PROVE  Ending' => AllDone'
  BY <1>1, <1>2 DEF AllDone
<1>3. "server" \in Side /\ "client" \in Side /\ "server" # "client" BY DEF Side
<1>4. mode \in [Side -> Modes] BY DEF TypeOK
<1>5. ASSUME StillOngoing = {}, \A i \in Index : stream'[i] = "accepted" => stream[i] = "accepted"
      PROVE  AllDone'
  BY <1>1, <1>5 DEF OngoingIsAccurate, AllDone
<1>6. ASSUME NEW h \in Senders, CheckClosing(h) \/ OpenRequest(h) PROVE Ending' => AllDone'
  <2>1. CASE CheckClosing(h) BY <1>2, <2>1 DEF CheckClosing, goaway, Ending
  <2>2. CASE OpenRequest(h)
    <3>1. UNCHANGED mode /\ stream' = [stream EXCEPT ![opened] = "opened"]
      BY <2>2 DEF OpenRequest, goaway
    <3>2. \A i \in Index : stream'[i] = "accepted" => stream[i] = "accepted"
      BY <3>1, OrderTypes
    <3> QED BY <1>2, <3>1, <3>2 DEF Ending
  <2> QED BY <1>6, <2>1, <2>2
<1>7. ASSUME NEW n \in Grace, ServerShutdown(n) PROVE Ending' => AllDone'
  <2>1. n \in Nat BY GraceAssumption
  <2>2. mode'["server"] \in {"ready", "driving"}
    BY <1>3, <1>7, <2>1, MaxIdType, ShutdownRecords DEF ServerShutdown, Modes
  <2> QED BY <2>2 DEF Ending
<1>8. CASE ClientShutdown
  <2>1. 0 \in Index BY MaxIndexAssumption DEF Index
  <2>2. mode'["server"] = mode["server"]
    BY <1>3, <1>8, <2>1, ShutdownRecords DEF ClientShutdown, Modes
  <2> QED BY <1>2, <1>8, <2>2 DEF ClientShutdown, requests, Ending
<1>9. ASSUME NEW s \in Side, FlushControl(s) \/ ProcessGoaway(s) PROVE Ending' => AllDone'
  BY <1>2, <1>9 DEF FlushControl, ProcessGoaway, requests, Ending
<1>10. ASSUME NEW s \in Side, SendGoaway(s) \/ ShutdownReturns(s) \/ CancelWrite(s)
       PROVE  Ending' => AllDone'
  <2>1. UNCHANGED stream
    BY <1>10 DEF SendGoaway, ShutdownReturns, CancelWrite, requests
  <2>2. Ending' => Ending
    <3>1. CASE SendGoaway(s) BY <1>3, <1>4, <3>1 DEF SendGoaway, Ending
    <3>2. CASE ShutdownReturns(s) BY <1>3, <1>4, <3>2 DEF ShutdownReturns, Ending
    <3>3. CASE CancelWrite(s) BY <1>3, <1>4, <3>3 DEF CancelWrite, Ending
    <3> QED BY <1>10, <3>1, <3>2, <3>3
  <2> QED BY <1>2, <2>1, <2>2
<1>11. ASSUME NEW i \in Index, AcceptRequest(i) PROVE Ending' => AllDone'
  BY <1>11 DEF AcceptRequest, Incoming, goaway, Ending
<1>12. ASSUME NEW i \in Index, RejectRequest(i) PROVE Ending' => AllDone'
  <2>1. stream' = [stream EXCEPT ![i] = "rejected"] BY <1>12 DEF RejectRequest
  <2>2. \A k \in Index : stream'[k] = "accepted" => stream[k] = "accepted"
    BY <2>1, OrderTypes
  <2>3. CASE StillOngoing = {} BY <1>5, <2>2, <2>3
  <2>4. CASE StillOngoing # {}
    BY <1>2, <1>12, <2>2, <2>4 DEF RejectRequest, Ending
  <2> QED BY <2>3, <2>4
<1>13. CASE AcceptReturnsNone
  BY <1>5, <1>13 DEF AcceptReturnsNone, requests
<1>14. ASSUME NEW i \in Index, SplitRequest(i) PROVE Ending' => AllDone'
  BY <1>2, <1>14 DEF SplitRequest, goaway, Ending
<1>15. ASSUME NEW i \in Index, DropPart(i) PROVE Ending' => AllDone'
  <2>1. UNCHANGED mode /\ (stream' = stream \/ stream' = [stream EXCEPT ![i] = "done"])
    BY <1>15 DEF DropPart, goaway
  <2>2. \A k \in Index : stream'[k] = "accepted" => stream[k] = "accepted"
    BY <2>1, OrderTypes
  <2> QED BY <1>2, <2>1, <2>2 DEF Ending
<1>16. CASE DropServer
  BY <1>2, <1>16 DEF DropServer, goaway, Ending
<1>17. CASE UNCHANGED vars
  BY <1>2, <1>17 DEF vars, goaway, requests, Ending
<1> QED BY <1>6, <1>7, <1>8, <1>9, <1>10, <1>11, <1>12, <1>13, <1>14, <1>15, <1>16, <1>17
        DEF Next

(* Every request accepted uses up one of those shutdown(n) has promised.   *)
LEMMA NextGrace ==
  ASSUME TypeOK, OrderInv, BoundInv, GraceInv, [Next]_vars
  PROVE  GraceInv'
<1>0. "server" \in Side /\ "client" \in Side /\ "server" # "client" BY DEF Side
<1>1. ASSUME UNCHANGED <<grace, last_accepted_stream>>,
             sent_closing'["server"] = sent_closing["server"]
      PROVE  GraceInv'
  BY <1>1 DEF GraceInv
<1>2. ASSUME NEW n \in Grace, ServerShutdown(n) PROVE GraceInv'
  <2>1. n \in Nat BY GraceAssumption
  <2> QED BY <1>2, <2>1, ShutdownGrace DEF ServerShutdown, server, Modes
<1>3. ASSUME ReturnNone, UNCHANGED last_accepted_stream PROVE GraceInv'
  BY <1>3, ShutdownGrace DEF ReturnNone, Modes
<1>4. CASE ClientShutdown
  <2>1. 0 \in Index BY MaxIndexAssumption DEF Index
  <2>2. sent_closing'["server"] = sent_closing["server"]
    BY <1>0, <1>4, <2>1, ShutdownRecords DEF ClientShutdown, Modes
  <2> QED BY <1>1, <1>4, <2>2 DEF ClientShutdown, server
<1>5. ASSUME NEW i \in Index, AcceptRequest(i) PROVE GraceInv'
  <2>1. /\ Incoming(i) /\ InGrace(i) /\ UNCHANGED sent_closing /\ last_accepted_stream' = i
        /\ grace' = IF grace = None THEN None
                    ELSE [left |-> grace.left - 1, idle |-> grace.idle]
    BY <1>5 DEF AcceptRequest, goaway
  <2>2. grace # None => grace \in [left : Int, idle : BOOLEAN] BY DEF TypeOK
  <2>3. CASE grace = None
    <3>1. grace' = None /\ sent_closing["server"] = None BY <2>1, <2>3 DEF GraceInv
    <3> QED BY <2>1, <3>1 DEF GraceInv
  <2>4. CASE grace # None
    <3>1. /\ grace' = [left |-> grace.left - 1, idle |-> grace.idle]
          /\ grace.left \in Int /\ grace.idle \in BOOLEAN
      BY <2>1, <2>2, <2>4
    <3>2. grace' # None
      <4>1. grace' \in [left : Int, idle : BOOLEAN] BY <3>1
      <4> QED BY <4>1, NoneAssumption
    <3>3. grace'.left = grace.left - 1 /\ grace'.idle = grace.idle BY <3>1
    <3>4. ASSUME ~grace.idle
          PROVE  sent_closing["server"] = Plus(i, grace.left - 1)
      <4>1. /\ last_accepted_stream # None
            /\ sent_closing["server"] = Plus(last_accepted_stream, grace.left)
        BY <2>4, <3>4 DEF GraceInv
      <4>2. /\ last_accepted_stream \in Int /\ i \in Int /\ last_accepted_stream < i
            /\ last_accepted_stream \in Index
        BY <2>1, <4>1, OrderTypes, IncomingIsLater
      <4>3. ~(last_accepted_stream + 1 < i)
        <5> SUFFICES ASSUME last_accepted_stream + 1 < i PROVE FALSE OBVIOUS
        <5>1. last_accepted_stream + 1 \in Index
          BY <4>2, MaxIndexAssumption DEF Index
        <5>2. sent_closing["server"] # None => last_accepted_stream + 1 <= sent_closing["server"]
          BY <2>1, <4>2, OrderTypes DEF InGrace
        <5>3. Answered(last_accepted_stream + 1) BY <2>1, <5>1, <5>2, BeforeIncoming
        <5>4. last_accepted_stream + 1 <= last_accepted_stream BY <5>1, <5>3 DEF OrderInv
        <5> QED BY <4>2, <5>4
      <4>4. i = last_accepted_stream + 1 BY <4>2, <4>3
      <4>5. i + (grace.left - 1) = last_accepted_stream + grace.left BY <3>1, <4>2, <4>4
      <4> QED BY <4>1, <4>5 DEF Plus
    <3>5. i # None BY OrderTypes
    <3> QED BY <2>1, <3>2, <3>3, <3>4, <3>5 DEF GraceInv
  <2> QED BY <2>3, <2>4
<1>6. ASSUME NEW i \in Index, RejectRequest(i) PROVE GraceInv'
  <2>1. CASE StillOngoing = {} BY <1>3, <1>6, <2>1 DEF RejectRequest
  <2>2. CASE StillOngoing # {} BY <1>1, <1>6, <2>2 DEF RejectRequest
  <2> QED BY <2>1, <2>2
<1>7. CASE AcceptReturnsNone BY <1>3, <1>7 DEF AcceptReturnsNone
<1>8. ASSUME \/ \E h \in Senders : CheckClosing(h) \/ OpenRequest(h)
             \/ \E s \in Side : FlushControl(s) \/ SendGoaway(s) \/ ShutdownReturns(s)
             \/ \E s \in Side : CancelWrite(s) \/ ProcessGoaway(s)
             \/ \E i \in Index : SplitRequest(i) \/ DropPart(i)
             \/ DropServer
             \/ UNCHANGED vars
      PROVE  UNCHANGED <<sent_closing, last_accepted_stream, grace>>
  BY <1>8 DEF CheckClosing, OpenRequest, FlushControl, SendGoaway, ShutdownReturns,
     CancelWrite, ProcessGoaway, SplitRequest, DropPart, DropServer, vars, goaway, server,
     history
<1> QED BY <1>1, <1>2, <1>4, <1>5, <1>6, <1>7, <1>8 DEF Next

(***************************************************************************)
(* The theorems.                                                           *)
(***************************************************************************)

(* The inductive invariant holds in every reachable state.                 *)
THEOREM Inductive == Spec => []IInv
<1>1. Init => IInv BY InitType, InitGoaway, InitOrder DEF IInv
<1>2. IInv /\ [Next]_vars => IInv'
  <2> SUFFICES ASSUME IInv, [Next]_vars PROVE IInv' OBVIOUS
  <2>1. TypeOK /\ GoawayInv /\ OrderInv /\ BoundInv /\ PartInv /\ NoneMeansAllDone /\ GraceInv
    BY DEF IInv
  <2>2. TypeOK' /\ GoawayInv' BY <2>1, NextType, NextGoaway
  <2>3. OrderInv' /\ BoundInv' BY <2>1, NextOrder, NextBound
  <2>4. PartInv' /\ NoneMeansAllDone' /\ GraceInv' BY <2>1, NextPart, NextDone, NextGrace
  <2> QED BY <2>2, <2>3, <2>4 DEF IInv
<1> QED BY <1>1, <1>2, PTL DEF Spec

(* Every variable keeps its type, for any number of streams and handles.   *)
THEOREM TypeCorrect == Spec => []TypeOK
<1>1. IInv => TypeOK BY DEF IInv
<1> QED BY <1>1, Inductive, PTL

(* No sequence of shutdown() calls, dropped futures and requests makes one *)
(* endpoint refuse a GOAWAY of the other with H3_ID_ERROR.                 *)
THEOREM NeverIdError == Spec => []NoIdError
<1>1. IInv => NoIdError BY DEF IInv, GoawayInv, NoIdError
<1> QED BY <1>1, Inductive, PTL

(* A request above any identifier the server has announced is not accepted,*)
(* before or after the announcement: the identifiers on their way to the   *)
(* client are not below the one decided on last, and that one is not below *)
(* a request accepted.                                                     *)
THEOREM GoawayBounds == Spec => []GoawayIsUpperBound
<1>1. IInv => GoawayIsUpperBound
  <2> SUFFICES ASSUME IInv, NEW id \in Announced \ {None}, NEW i \in Index, Answered(i)
               PROVE  i <= id
    BY DEF GoawayIsUpperBound, Answered
  <2> DEFINE sent == sent_closing["server"]
  <2>1. TypeOK /\ Falls("server") /\ OrderInv /\ BoundInv
    BY DEF IInv, GoawayInv, Side
  <2>2. "server" \in Side /\ Peer("server") = "client" /\ "client" \in Side BY DEF Side, Peer
  <2>3. sent # None /\ sent <= id
    <3>1. CASE id = recv_closing["client"] BY <2>1, <2>2, <3>1 DEF Falls
    <3>2. CASE id = buffered["server"] BY <2>1, <3>2 DEF Falls
    <3>3. CASE \E k \in 1 .. Len(wire["server"]) : id = wire["server"][k]
      <4>1. wire["server"] \in Seq(Int) BY <2>1, <2>2, GoawayTypes
      <4>2. DOMAIN wire["server"] = 1 .. Len(wire["server"]) BY <4>1
      <4> QED BY <2>1, <3>3, <4>2 DEF Falls
    <3> QED BY <3>1, <3>2, <3>3 DEF Announced
  <2>4. id \in Int
    <3>1. CASE id = recv_closing["client"] BY <2>1, <2>2, <3>1, GoawayTypes
    <3>2. CASE id = buffered["server"] BY <2>1, <2>2, <3>2, GoawayTypes
    <3>3. CASE \E k \in 1 .. Len(wire["server"]) : id = wire["server"][k]
      <4>1. wire["server"] \in Seq(Int) BY <2>1, <2>2, GoawayTypes
      <4> QED BY <3>3, <4>1
    <3> QED BY <3>1, <3>2, <3>3 DEF Announced
  <2>5. last_accepted_stream # None /\ i <= last_accepted_stream BY <2>1 DEF OrderInv
  <2>6. last_accepted_stream <= sent BY <2>1, <2>3, <2>5 DEF BoundInv
  <2>7. i \in Int /\ last_accepted_stream \in Int /\ sent \in Int
    BY <2>1, <2>3, <2>5, OrderTypes
  <2> QED BY <2>3, <2>4, <2>5, <2>6, <2>7
<1> QED BY <1>1, Inductive, PTL

(* accept() returns None only after every request it handed out has ended, *)
(* whichever thread drops the last half of it and whenever the channel is  *)
(* read.                                                                   *)
THEOREM NoneAfterAll == Spec => []NoneMeansAllDone
<1>1. IInv => NoneMeansAllDone BY DEF IInv
<1> QED BY <1>1, Inductive, PTL

(* After shutdown(n) on a connection that has accepted a request, n more   *)
(* are accepted before one is rejected.                                    *)
THEOREM GraceHonoured == Spec => GraceHonouredWhenBusy
<1> DEFINE Honoured == \A i \in Index : Rejected(i) => grace.left <= 0 \/ grace.idle
<1>1. IInv /\ [Next]_vars => [Honoured]_vars
  <2> SUFFICES ASSUME IInv, Next, NEW i \in Index, Rejected(i), ~grace.idle
               PROVE  grace.left <= 0
    OBVIOUS
  <2> DEFINE sent == sent_closing["server"]
             last == last_accepted_stream
  <2>1. TypeOK /\ OrderInv /\ BoundInv /\ GraceInv BY DEF IInv
  <2>2. RejectRequest(i)
    <3>1. stream[i] # "rejected" /\ stream'[i] = "rejected" BY DEF Rejected
    <3>2. ASSUME NEW h \in Senders, OpenRequest(h) PROVE FALSE
      BY <2>1, <3>1, <3>2, OrderTypes DEF OpenRequest
    <3>3. ASSUME NEW j \in Index, AcceptRequest(j) PROVE FALSE
      BY <2>1, <3>1, <3>3, OrderTypes DEF AcceptRequest
    <3>4. ASSUME NEW j \in Index, DropPart(j) PROVE FALSE
      <4>1. stream' = stream \/ stream' = [stream EXCEPT ![j] = "done"] BY <3>4 DEF DropPart
      <4> QED BY <2>1, <3>1, <4>1, OrderTypes
    <3>5. ASSUME DropServer PROVE FALSE BY <3>1, <3>5 DEF DropServer
    <3>6. ASSUME NEW j \in Index, RejectRequest(j) PROVE j = i
      BY <2>1, <3>1, <3>6, OrderTypes DEF RejectRequest
    <3>7. ASSUME \/ \E h \in Senders : CheckClosing(h)
                 \/ \E n \in Grace : ServerShutdown(n)
                 \/ ClientShutdown
                 \/ \E s \in Side : FlushControl(s) \/ SendGoaway(s) \/ ShutdownReturns(s)
                 \/ \E s \in Side : CancelWrite(s) \/ ProcessGoaway(s)
                 \/ AcceptReturnsNone
                 \/ \E j \in Index : SplitRequest(j)
          PROVE  FALSE
      <4>1. UNCHANGED stream
        BY <3>7 DEF CheckClosing, ServerShutdown, ClientShutdown, FlushControl, SendGoaway,
           ShutdownReturns, CancelWrite, ProcessGoaway, AcceptReturnsNone, SplitRequest, requests
      <4> QED BY <3>1, <4>1
    <3> QED BY <3>2, <3>3, <3>4, <3>5, <3>6, <3>7 DEF Next
  <2>3. Incoming(i) /\ ~InGrace(i) BY <2>2 DEF RejectRequest
  <2>4. sent # None /\ sent \in Int /\ i \in Int /\ sent < i /\ i <= MaxIndex
    BY <2>1, <2>3, OrderTypes DEF InGrace, Index
  <2>5. grace # None /\ grace.left \in Int
    BY <2>1, <2>4 DEF GraceInv, TypeOK
  <2>6. last # None /\ sent = Plus(last, grace.left) BY <2>1, <2>5 DEF GraceInv
  <2>7. last \in Index /\ last \in Int /\ 0 <= last BY <2>1, <2>6, OrderTypes DEF Index
  <2> SUFFICES ASSUME 1 <= grace.left PROVE FALSE BY <2>5
  <2>8. sent = last + grace.left BY <2>4, <2>5, <2>6, <2>7, MaxIndexAssumption DEF Plus
  <2>9. last + 1 <= sent /\ last + 1 < i /\ last + 1 \in Index
    BY <2>4, <2>5, <2>7, <2>8, MaxIndexAssumption DEF Index
  <2>10. Answered(last + 1) BY <2>1, <2>3, <2>9, BeforeIncoming
  <2>11. last + 1 <= last BY <2>1, <2>9, <2>10 DEF OrderInv
  <2> QED BY <2>7, <2>11
<1> QED BY <1>1, Inductive, PTL DEF Spec, GraceHonouredWhenBusy
=============================================================================
