----------------------------- MODULE FrameStream -----------------------------
(***************************************************************************)
(* Receiving frames from a QUIC stream: BufRecvStream over BufList, the    *)
(* frame decoder and FrameStream.                                          *)
(*                                                                         *)
(* A stream carries a fixed sequence of bytes, wire, which QUIC hands over *)
(* in chunks of any size.  BufList is the part of wire that was received   *)
(* and not yet consumed, cuts the chunk boundaries within it.  Bytes are   *)
(* named by their positions, so that what a reader is given can be         *)
(* compared with what was sent.                                            *)
(***************************************************************************)
EXTENDS Settings

CONSTANTS
  Wires,     \* byte sequences a peer may send
  Endings,   \* what may follow: "fin", "reset", "lost" (the connection), "open"
  None

ASSUME WiresAssumption == \A w \in Wires : w \in Seq(Byte)
ASSUME EndingsAssumption == Endings \subseteq {"fin", "reset", "lost", "open"}

VARIABLES
  wire, ending,          \* what the peer sends, and what follows it
  sent,                  \* history: the frames of wire
  pos, received, cuts,   \* BufList: bytes pos+1 .. received, and where its chunks end
  eos,                   \* BufRecvStream.eos
  expected,              \* FrameDecoder.expected
  remaining_data         \* FrameStream.remaining_data

stream == <<wire, ending, sent>>
buf == <<pos, received, cuts>>

-----------------------------------------------------------------------------
(***************************************************************************)
(* Frame::decode, on the bytes of w from p up to limit.                    *)
(***************************************************************************)
DATA == 0
HEADERS == 1
PUSH_PROMISE == 5
IdFrames == {3, 7, 13}          \* CANCEL_PUSH, GOAWAY, MAX_PUSH_ID: one integer
SETTINGS == 4
H2Frames == {2, 6, 8, 9}        \* known from HTTP/2, forbidden
WEBTRANSPORT_BI_STREAM == 65
Unlimited == 1073741824         \* stands for usize::MAX

(* VarInt::decode: whether the integer at p is there, and what it is.      *)
HasVar(w, p, limit) == p < limit /\ p + encoded_size(w[p + 1]) <= limit
Var(w, p) ==
  LET b(i) == w[p + i]
      u16 == (b(1) % 64) * 256 + b(2)
      u32 == (u16 * 256 + b(3)) * 256 + b(4)
  IN CASE b(1) \div 64 = 0 -> b(1) % 64
       [] b(1) \div 64 = 1 -> u16
       [] b(1) \div 64 = 2 -> u32
       [] OTHER -> (((u32 * 256 + b(5)) * 256 + b(6)) * 256 + b(7)) * 256 + b(8)
VarEnd(w, p) == p + encoded_size(w[p + 1])

(* How many bytes UnexpectedEnd says are missing, which is a guess.        *)
Missing(w, p, limit) == IF p >= limit THEN 0 ELSE w[p + 1] \div 64

Incomplete(min) == [res |-> "incomplete", min |-> min]
Unknown(end) == [res |-> "unknown", end |-> end]
Forbidden == [res |-> "error", code |-> "H3_FRAME_UNEXPECTED"]
InvalidSettings == [res |-> "error", code |-> "H3_SETTINGS_ERROR"]
Decoded(type, len, at, end) ==
  [res |-> "frame", type |-> type, len |-> len, at |-> at, end |-> end]

(* Settings::decode fails on the len bytes from at.                        *)
BadSettings(w, at, len) == decode_settings(SubSeq(w, at + 1, at + len)).error # ""

(* A frame whose payload, len bytes from at, is there.                     *)
DecodePayload(w, type, at, len) ==
  IF type \in H2Frames THEN Forbidden
  ELSE IF type = SETTINGS /\ BadSettings(w, at, len) THEN InvalidSettings
  ELSE IF type \in IdFrames \cup {PUSH_PROMISE} THEN
    IF ~HasVar(w, at, at + len) THEN Incomplete(Missing(w, at, at + len))
    ELSE Decoded(type, len, at, IF type = PUSH_PROMISE THEN at + len ELSE VarEnd(w, at))
  ELSE IF type \in {HEADERS, SETTINGS} THEN Decoded(type, len, at, at + len)
  ELSE Unknown(at + len)

Decode(w, p, limit) ==
  IF ~HasVar(w, p, limit) THEN Incomplete(limit - p + 1)
  ELSE LET type == Var(w, p)
           q == VarEnd(w, p)
       IN IF type = WEBTRANSPORT_BI_STREAM THEN
            IF HasVar(w, q, limit) THEN Decoded(type, Unlimited, q, VarEnd(w, q))
            ELSE Incomplete(Missing(w, q, limit))
          ELSE IF ~HasVar(w, q, limit) THEN Incomplete(limit - p + 1)
          ELSE LET len == Var(w, q)
                   at == VarEnd(w, q)
               IN IF type = DATA THEN Decoded(type, len, at, at)
                  ELSE IF limit - at < len THEN Incomplete(2 + len)
                  ELSE DecodePayload(w, type, at, len)

-----------------------------------------------------------------------------
(***************************************************************************)
(* BufList and BufRecvStream.                                              *)
(***************************************************************************)
remaining == received - pos
is_eos == eos /\ remaining = 0

(* Consuming up to end drops the chunk boundaries that are passed.         *)
advance(end) ==
  /\ pos' = end
  /\ cuts' = {c \in cuts : c > end}

(* BufRecvStream::poll_read: the results the stream underneath may give.   *)
ReadChunk(n) ==
  /\ ~eos
  /\ received' = received + n
  /\ received' <= Len(wire)

AtEnd == eos \/ (received = Len(wire) /\ ending = "fin")
Broken == ~eos /\ ending \in {"reset", "lost"}

(* FrameDecoder::decode does not look at a buffer it knows to be too small. *)
TooShort == remaining = 0 \/ (expected # None /\ remaining < expected)

(* BufList::take_chunk: the end of the first chunk, or of the frame.       *)
ChunkEnd(bounds, limit) ==
  LET first == CHOOSE c \in bounds : \A d \in bounds : c <= d
  IN IF first - pos < limit THEN first ELSE pos + limit

-----------------------------------------------------------------------------
(***************************************************************************)
(* The reference: the frames of w by their types and lengths, with unknown *)
(* ones left out.  A last frame that is cut short is Truncated, and so is  *)
(* one whose payload ends within its integer; RFC 9114, 7.1, demands the   *)
(* same error for both.                                                    *)
(***************************************************************************)
Truncated == -1

HasHeader(w, p) == HasVar(w, p, Len(w)) /\ HasVar(w, VarEnd(w, p), Len(w))
FrameAt(w, p) ==
  [type |-> Var(w, p), at |-> VarEnd(w, VarEnd(w, p)), len |-> Var(w, VarEnd(w, p))]
EndOf(f) == f.at + f.len
CutShort(f) == [f EXCEPT !.type = Truncated]
LacksInteger(w, f) ==
  f.type \in IdFrames \cup {PUSH_PROMISE} /\ ~HasVar(w, f.at, EndOf(f))
KnownTypes == {DATA, HEADERS, SETTINGS, PUSH_PROMISE} \cup IdFrames \cup H2Frames

(* The frames from p on, given those from every later position.            *)
NextFrames(w, F, p) ==
  LET f == FrameAt(w, p) IN
  IF p = Len(w) THEN <<>>
  ELSE IF ~HasHeader(w, p) THEN <<[type |-> Truncated, at |-> p, len |-> 0]>>
  ELSE IF f.type = WEBTRANSPORT_BI_STREAM THEN <<f>>
  ELSE IF EndOf(f) > Len(w)
  THEN IF f.type = DATA THEN <<f, CutShort(f)>> ELSE <<CutShort(f)>>
  ELSE IF LacksInteger(w, f) THEN <<CutShort(f)>>
  ELSE IF f.type \in KnownTypes THEN <<f>> \o F[EndOf(f)]
  ELSE F[EndOf(f)]

FramesFrom(w) == LET F[p \in 0 .. Len(w)] == NextFrames(w, F, p) IN F
FramesOf(w) == FramesFrom(w)[0]

InitStream ==
  /\ wire \in Wires
  /\ ending \in Endings
  /\ sent = FramesOf(wire)
  /\ pos = 0
  /\ received = 0
  /\ cuts = {}
  /\ eos = FALSE
  /\ expected = None
  /\ remaining_data = 0

(* The receiving halves of BufRecvStream::split and FrameStream::split.    *)
SplitBuffer == UNCHANGED <<buf, eos>>
SplitFrames == SplitBuffer /\ UNCHANGED <<expected, remaining_data>>
=============================================================================
