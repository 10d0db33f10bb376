--------------------------- MODULE MCWebTransport ---------------------------
EXTENDS WebTransport

On == [DefaultConfig EXCEPT !.enable_webtransport = TRUE, !.enable_datagram = TRUE]

(* Configurations at the limits of what SETTINGS can say, announced by h3. *)
Configs ==
  {On,
   DefaultConfig,
   [On EXCEPT !.enable_datagram = FALSE],
   [On EXCEPT !.enable_webtransport = FALSE, !.enable_extended_connect = TRUE],
   [On EXCEPT !.max_field_section_size = u64(64), !.max_webtransport_sessions = u64(63)],
   [On EXCEPT !.max_field_section_size = u64(16384), !.max_webtransport_sessions = VarMax],
   [On EXCEPT !.max_field_section_size = [VarMax EXCEPT ![1] = 64]]}

Entry(setting, value) == VarEncode(setting) \o VarEncode(value)
Both == Entry(ENABLE_WEBTRANSPORT, u64(2)) \o Entry(H3_DATAGRAM, u64(1))

(* SETTINGS of other clients, with what they mean.                         *)
Others ==
  {[payload |-> Both, config |-> On],
   [payload |-> Both \o Entry(u64(2), Zero), config |-> None],
   [payload |-> Both \o Entry(H3_DATAGRAM, Zero), config |-> None],
   [payload |-> Both \o <<6>>, config |-> None],
   [payload |-> Both \o <<6, 64>>, config |-> None],
   [payload |-> <<>>, config |-> DefaultConfig]}

MCOffers == {[config |-> c, grease |-> g] : c \in Configs, g \in BOOLEAN} \cup Others

Payload == <<<<1, 2>>, <<3>>>>
MCConnects == {[id |-> 4, valid |-> v, payloads |-> ps] : v \in BOOLEAN, ps \in {{}, {Payload}}}

(* Streams of other clients: types and ids of every encoded length, an id  *)
(* shorter than its type, and longer; frames before the session's, and     *)
(* SETTINGS that decode and that do not; cut short anywhere.               *)
Types == {<<64, 84>>, <<128, 0, 0, 84>>}
Ids == {<<4>>, <<64, 4>>, <<128, 0, 0, 4>>}
Streams ==
  {t \o i \o <<7, 8>> : t \in Types, i \in Ids}
  \cup {<<1>> \o i \o <<7>> : i \in Ids}
  \cup {<<0, 4, 0>>, <<64, 2, 9>>}
  \cup {<<64, 65>> \o i \o <<7, 8>> : i \in Ids}
  \cup {<<33, 1, 0, 64, 65, 4, 7>>, <<1, 1, 1>>, <<2, 0>>}
  \cup {<<4, 0>>, <<4, 2, 2, 0>>, <<33, 1, 0, 4, 1, 0>>}
MCWires == UNION {{SubSeq(s, 1, k) : k \in 0 .. Len(s)} : s \in Streams}

MCData == <<7, 8>>

MCPeerDatagrams ==
  {<<64, 1, 5>>,
   <<207, 255, 255, 255, 255, 255, 255, 255, 5>>,
   <<208, 0, 0, 0, 0, 0, 0, 0, 5>>,
   <<192, 0>>,
   <<>>}

(* Offers, streams and datagrams are varied one at a time.                 *)
GoodOffer == offer = [config |-> On, grease |-> TRUE] /\ connect.valid
NoStream == wire = <<>> /\ ending = "reset" /\ kind = "uni"
NoDatagram == net = {} /\ connect.payloads = {}
VaryOffer == NoStream /\ NoDatagram /\ enabled
VaryStream == GoodOffer /\ NoDatagram /\ (enabled \/ (kind = "uni" /\ Len(wire) = 5))
VaryDatagram == GoodOffer /\ NoStream /\ enabled

MCInit == Init /\ (VaryOffer \/ VaryStream \/ VaryDatagram)
MCSpec == MCInit /\ [][Next]_vars /\ WF_vars(PollType) /\ WF_vars(Resolve)
=============================================================================
