------------------------------ MODULE Settings ------------------------------
(***************************************************************************)
(* What an endpoint announces: its Config as a SETTINGS frame, the bytes   *)
(* of that frame, and what the peer makes of them.                         *)
(***************************************************************************)
EXTENDS VarInt, SequencesExt

QPACK_MAX_TABLE_CAPACITY == u64(1)
MAX_HEADER_LIST_SIZE == u64(6)
QPACK_MAX_BLOCKED_STREAMS == u64(7)
ENABLE_CONNECT_PROTOCOL == u64(8)
H3_DATAGRAM == u64(51)
ENABLE_WEBTRANSPORT == u64(727725890)
WEBTRANSPORT_MAX_SESSIONS == u64(727725891)

is_supported ==
  {QPACK_MAX_TABLE_CAPACITY, MAX_HEADER_LIST_SIZE, QPACK_MAX_BLOCKED_STREAMS,
   ENABLE_CONNECT_PROTOCOL, H3_DATAGRAM, ENABLE_WEBTRANSPORT, WEBTRANSPORT_MAX_SESSIONS}
is_forbidden == {u64(n) : n \in {0, 2, 3, 4, 5}}
SETTINGS_LEN == 8
WRITE_BUF_ENCODE_SIZE == 64

(* One of SettingId::grease; 33 + 31 N is none of the supported ones.      *)
grease == u64(33)

-----------------------------------------------------------------------------
(***************************************************************************)
(* frame::Settings: its entries, or why there are none.                    *)
(***************************************************************************)
Fine(entries) == [error |-> "", entries |-> entries]
Failed(error) == [error |-> error, entries |-> <<>>]
Default == Fine(<<>>)

insert(s, id, value) ==
  IF s.error # "" THEN s
  ELSE IF Len(s.entries) >= SETTINGS_LEN THEN Failed("Exceeded")
  ELSE IF \E i \in DOMAIN s.entries : s.entries[i].id = id THEN Failed("Repeated")
  ELSE Fine(Append(s.entries, [id |-> id, value |-> value]))

get(s, id, default) ==
  LET here == {i \in DOMAIN s.entries : s.entries[i].id = id}
  IN IF here = {} THEN default ELSE s.entries[CHOOSE i \in here : \A j \in here : i <= j].value

(* Settings::encode, without its frame header; writing a value that is no  *)
(* VarInt panics, and so does writing past the end of WriteBuf.            *)
encode_settings(s) ==
  FlattenSeq([i \in DOMAIN s.entries |->
                VarEncode(s.entries[i].id) \o VarEncode(s.entries[i].value)])
EncodePanics(s) ==
  \/ \E i \in DOMAIN s.entries : ~IsVarInt(s.entries[i].value)
  \/ 3 + Len(encode_settings(s)) > WRITE_BUF_ENCODE_SIZE

(* Deliberate bug: an unknown setting ends the frame.                      *)
DecodeEntry_StopsAtUnknown(st) ==
  LET rest == VarRest(st.rest)
      id == VarValue(st.rest)
  IN IF st.rest = <<>> \/ st.settings.error # "" THEN st
     ELSE IF Len(st.rest) < 2 \/ ~VarThere(st.rest) \/ ~VarThere(rest)
     THEN [st EXCEPT !.settings = Failed("Malformed")]
     ELSE IF id \in is_forbidden THEN [st EXCEPT !.settings = Failed("InvalidSettingId")]
     ELSE [rest |-> IF id \in is_supported THEN VarRest(rest) ELSE <<>>,
           settings |-> IF id \in is_supported THEN insert(st.settings, id, VarValue(rest))
                        ELSE st.settings]

(* One round of the loop of Settings::decode.                              *)
DecodeEntry(st) ==
  LET rest == VarRest(st.rest)
      id == VarValue(st.rest)
  IN IF st.rest = <<>> \/ st.settings.error # "" THEN st
     ELSE IF Len(st.rest) < 2 \/ ~VarThere(st.rest) \/ ~VarThere(rest)
     THEN [st EXCEPT !.settings = Failed("Malformed")]
     ELSE IF id \in is_forbidden THEN [st EXCEPT !.settings = Failed("InvalidSettingId")]
     ELSE [rest |-> VarRest(rest),
           settings |-> IF id \in is_supported THEN insert(st.settings, id, VarValue(rest))
                        ELSE st.settings]

decode_settings(payload) ==
  LET After[k \in Nat] == IF k = 0 THEN [rest |-> payload, settings |-> Default]
                          ELSE DecodeEntry(After[k - 1])
  IN After[Len(payload)].settings

-----------------------------------------------------------------------------
(***************************************************************************)
(* config::Settings, and its way to and from frame::Settings.              *)
(***************************************************************************)
Zero == u64(0)
Flag(b) == IF b THEN u64(1) ELSE Zero
VarMax == [u64(0) EXCEPT ![1] = 63, ![2] = 255, ![3] = 255, ![4] = 255,
                         ![5] = 255, ![6] = 255, ![7] = 255, ![8] = 255]

(* Every configuration there can be.                                       *)
ConfigSettings ==
  [max_field_section_size : U64, enable_webtransport : BOOLEAN, enable_extended_connect : BOOLEAN,
   enable_datagram : BOOLEAN, max_webtransport_sessions : U64]

DefaultConfig ==
  [max_field_section_size |-> VarMax, enable_webtransport |-> FALSE,
   enable_extended_connect |-> FALSE, enable_datagram |-> FALSE,
   max_webtransport_sessions |-> Zero]

(* TryFrom<Config> for frame::Settings.                                    *)
try_from_config(c, send_grease) ==
  LET s0 == IF send_grease THEN insert(Default, grease, Zero) ELSE Default
      s1 == insert(s0, MAX_HEADER_LIST_SIZE, c.max_field_section_size)
      s2 == insert(s1, ENABLE_CONNECT_PROTOCOL, Flag(c.enable_extended_connect))
      s3 == insert(s2, ENABLE_WEBTRANSPORT, Flag(c.enable_webtransport))
      s4 == insert(s3, H3_DATAGRAM, Flag(c.enable_datagram))
  IN insert(s4, WEBTRANSPORT_MAX_SESSIONS, c.max_webtransport_sessions)

(* From<&frame::Settings> for config::Settings.                            *)
from_settings(s) ==
  [max_field_section_size |-> get(s, MAX_HEADER_LIST_SIZE, VarMax),
   enable_webtransport |-> get(s, ENABLE_WEBTRANSPORT, Zero) # Zero,
   enable_extended_connect |-> get(s, ENABLE_CONNECT_PROTOCOL, Zero) # Zero,
   enable_datagram |-> get(s, H3_DATAGRAM, Zero) # Zero,
   max_webtransport_sessions |-> get(s, WEBTRANSPORT_MAX_SESSIONS, Zero)]
=============================================================================
