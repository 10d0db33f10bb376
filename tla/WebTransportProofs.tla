-------------------------- MODULE WebTransportProofs --------------------------
(***************************************************************************)
(* Theorems about the streams of WebTransport: for every header that h3    *)
(* opens a stream with, every stream another peer may have sent, and every *)
(* way of writing, cutting and reading the bytes.                          *)
(***************************************************************************)
EXTENDS WebTransport, FrameStreamProofs

(***************************************************************************)
(* The inductive invariant.                                                *)
(***************************************************************************)

(* What of a header a stream has so far.                                   *)
Header == StreamHeader(kind, opener.session)
OpenInv ==
  /\ opener.at # "none" =>
       /\ opener.session \in Sessions
       /\ \A i \in 1 .. Len(wire) : i <= Len(Header) => wire[i] = Header[i]
  /\ opener.at = "header" =>
       /\ ending = "open"
       /\ Len(opener.left) >= 1 /\ Len(wire) + Len(opener.left) = Len(Header)
       /\ \A i \in 1 .. Len(opener.left) : opener.left[i] = Header[Len(wire) + i]
  /\ opener.at \in {"header", "failed", "dropped"} => Len(wire) < Len(Header)
  /\ opener.at = "open" => Len(wire) >= Len(Header)

(* Before the first byte.                                                  *)
FreshInv ==
  wire = <<>> /\ ending = "open" => phase = "queued" /\ ty = None /\ id = None /\ expected = None
EosInv == eos => received = Len(wire) /\ ending = "fin"

(* What AcceptRecvStream knows is what the bytes say.                      *)
UniInv ==
  kind = "uni" =>
    /\ ty = None =>
         /\ id = None /\ phase \notin {"ready", "mine"}
         /\ phase = "queued" => pos = 0
         /\ expected # None => received > 0 /\ expected = encoded_size(wire[1])
    /\ ty # None =>
         /\ HasVar(wire, 0, received)
         /\ ty = Var(wire, 0) /\ expected = TypeSize(wire)
    /\ ty # None /\ phase = "queued" => NeedsId(ty) /\ pos = IdAt(wire) /\ id = None
    /\ id # None => HasVar(wire, IdAt(wire), received) /\ id = Var(wire, IdAt(wire))
    /\ phase \in {"ready", "mine"} => id # None
    /\ phase = "ready" => pos = VarEnd(wire, IdAt(wire))
    /\ phase = "gone" /\ ending = "open" => ty # None /\ (NeedsId(ty) => id # None)

(* The resolver has skipped unknown frames alone, and none of h3's own.    *)
BiInv ==
  kind = "bi" =>
    /\ phase # "ready"
    /\ phase = "queued" => FramesFrom(wire)[pos] = FramesOf(wire)
    /\ phase = "queued" /\ opener.at # "none" => pos = 0

ReaderInv ==
  /\ phase # "mine" => got = <<>> /\ told = ""
  /\ phase = "mine" => DataStart(kind, wire) \in Nat /\ pos >= DataStart(kind, wire)
ErrorInv == conn_error = "H3_INTERNAL_ERROR" => kind = "uni" /\ IdAt(wire) < Len(wire)

IInv ==
  /\ TypeOK /\ OpenInv /\ FreshInv /\ EosInv /\ UniInv /\ BiInv /\ ReaderInv /\ ErrorInv
  /\ ResolvedIsOpened /\ ReadsAreExact /\ OnlyStaleLengthsFail

-----------------------------------------------------------------------------
(***************************************************************************)
(* The integers of a header.                                               *)
(***************************************************************************)

(* The bytes of a number of at most thirty bits.                           *)
LEMMA SmallU64 ==
  ASSUME NEW n \in Nat, n < 64 * 256 * 256 * 256
  PROVE  /\ u64(n) \in U64 /\ IsVarInt(u64(n))
         /\ u64(n)[1] = 0 /\ u64(n)[2] = 0 /\ u64(n)[3] = 0 /\ u64(n)[4] = 0
         /\ n = ((u64(n)[5] * 256 + u64(n)[6]) * 256 + u64(n)[7]) * 256 + u64(n)[8]
<1> DEFINE x == u64(n)
           a == n \div 256
           b == a \div 256
<1>1. 2 ^ 24 = 256 * 256 * 256 /\ 2 ^ 16 = 256 * 256 BY SMT
<1>2. a \in Nat /\ a < 64 * 256 * 256 /\ n % 256 \in 0 .. 255 /\ n = a * 256 + (n % 256) BY SMT
<1>3. b \in Nat /\ b < 64 * 256 /\ a % 256 \in 0 .. 255 /\ a = b * 256 + (a % 256)
  <2> HIDE DEF a
  <2> QED BY <1>2, SMT
<1>4. b \div 256 \in 0 .. 63 /\ b % 256 \in 0 .. 255 /\ b = (b \div 256) * 256 + (b % 256)
  <2> HIDE DEF b
  <2> QED BY <1>3, SMT
<1>5. n \div (256 * 256) = b /\ n \div (256 * 256 * 256) = b \div 256 BY SMT
<1>6. x = <<0, 0, 0, 0, b \div 256, b % 256, a % 256, n % 256>> BY <1>1, <1>5 DEF u64
<1> HIDE DEF x, a, b
<1>7. x \in [1 .. 8 -> 0 .. 255] BY <1>2, <1>3, <1>4, <1>6
<1>8. x[1] = 0 /\ x[2] = 0 /\ x[3] = 0 /\ x[4] = 0 /\ x[5] = b \div 256 /\ x[6] = b % 256
      /\ x[7] = a % 256 /\ x[8] = n % 256
  BY <1>6
<1>9. n = ((x[5] * 256 + x[6]) * 256 + x[7]) * 256 + x[8] BY <1>2, <1>3, <1>4, <1>8
<1> QED BY <1>7, <1>8, <1>9 DEF x, U64, Byte, IsVarInt

(* A byte sequence holds e from p + 1 on, as far as it is long.            *)
Begins(w, p, e) == \A i \in 1 .. Len(e) : p + i <= Len(w) => w[p + i] = e[i]

(* What VarInt::encode writes of a number of at most thirty bits.          *)
LEMMA EncodedSmall ==
  ASSUME NEW n \in Nat, n < 64 * 256 * 256 * 256
  PROVE  LET e == VarEncode(u64(n))
             x == u64(n)
         IN /\ e \in Seq(Byte) /\ Len(e) \in {1, 2, 4, 8} /\ encoded_size(e[1]) = Len(e)
            /\ e[1] \in 0 .. 255
            /\ Len(e) = 1 => n = e[1] % 64
            /\ Len(e) = 2 => n = (e[1] % 64) * 256 + e[2]
            /\ Len(e) = 4 => n = (((e[1] % 64) * 256 + e[2]) * 256 + e[3]) * 256 + e[4]
            /\ Len(e) = 8 => /\ e[1] % 64 = 0 /\ e[2] = 0 /\ e[3] = 0 /\ e[4] = 0
                             /\ n = ((e[5] * 256 + e[6]) * 256 + e[7]) * 256 + e[8]
<1> DEFINE x == u64(n)
           e == VarEncode(u64(n))
           m == VarSize(x)
<1>1. /\ x \in U64 /\ IsVarInt(x) /\ x[1] = 0 /\ x[2] = 0 /\ x[3] = 0 /\ x[4] = 0
      /\ n = ((x[5] * 256 + x[6]) * 256 + x[7]) * 256 + x[8]
  BY SmallU64
<1>2. m \in {1, 2, 4, 8} /\ FitsIn(x, m) BY <1>1, VarSizeFits
<1>3. /\ e \in Seq(Byte) /\ Len(e) = m /\ e[1] % 64 = x[9 - m] /\ encoded_size(e[1]) = m
      /\ \A i \in 2 .. m : e[i] = x[8 - m + i]
  BY <1>1, Encoded
<1>4. \A i \in 1 .. 8 : x[i] \in 0 .. 255 BY <1>1 DEF U64, Byte
<1> HIDE DEF x, e, m
<1>5. e[1] \in 0 .. 255
  <2>1. 1 \in 1 .. Len(e) BY <1>2, <1>3
  <2> QED BY <1>3, <2>1, ByteAt
<1>6. CASE m = 1
  <2>1. x[5] = 0 /\ x[6] = 0 /\ x[7] = 0 BY <1>2, <1>6 DEF FitsIn
  <2>2. e[1] % 64 = x[8] /\ x[8] \in 0 .. 255 BY <1>3, <1>4, <1>6
  <2>3. n = x[8] BY <1>1, <2>1, <2>2, SMT
  <2> QED BY <1>2, <1>3, <1>5, <1>6, <2>2, <2>3, SMT DEF e, x
<1>7. CASE m = 2
  <2>1. x[5] = 0 /\ x[6] = 0 BY <1>2, <1>7 DEF FitsIn
  <2>2. e[1] % 64 = x[7] /\ e[2] = x[8] BY <1>3, <1>7
  <2>3. n = (e[1] % 64) * 256 + e[2] BY <1>1, <1>4, <2>1, <2>2, SMT
  <2> QED BY <1>2, <1>3, <1>5, <1>7, <2>3, SMT DEF e, x
<1>8. CASE m = 4
  <2>1. e[1] % 64 = x[5] /\ e[2] = x[6] /\ e[3] = x[7] /\ e[4] = x[8] BY <1>3, <1>8
  <2>2. n = (((e[1] % 64) * 256 + e[2]) * 256 + e[3]) * 256 + e[4] BY <1>1, <2>1, SMT
  <2> QED BY <1>2, <1>3, <1>5, <1>8, <2>2, SMT DEF e, x
<1>9. CASE m = 8
  <2>1. /\ e[1] % 64 = x[1] /\ e[2] = x[2] /\ e[3] = x[3] /\ e[4] = x[4]
        /\ e[5] = x[5] /\ e[6] = x[6] /\ e[7] = x[7] /\ e[8] = x[8]
    BY <1>3, <1>9
  <2>2. n = ((e[5] * 256 + e[6]) * 256 + e[7]) * 256 + e[8] BY <1>1, <2>1, SMT
  <2> QED BY <1>1, <1>2, <1>3, <1>5, <1>9, <2>1, <2>2, SMT DEF e, x
<1> QED BY <1>2, <1>6, <1>7, <1>8, <1>9

(* The top bits of a first byte, by the length they announce.              *)
LEMMA LengthBits ==
  ASSUME NEW b \in 0 .. 255
  PROVE  /\ encoded_size(b) = 1 => b \div 64 = 0
         /\ encoded_size(b) = 2 => b \div 64 = 1
         /\ encoded_size(b) = 4 => b \div 64 = 2
         /\ encoded_size(b) = 8 => b \div 64 = 3
<1>1. b \in Byte BY DEF Byte
<1>2. /\ b < 64 => b \div 64 = 0
      /\ 64 <= b /\ b < 128 => b \div 64 = 1
      /\ 128 <= b /\ b < 192 => b \div 64 = 2
      /\ 192 <= b => b \div 64 = 3
  BY SMT
<1>3. /\ encoded_size(b) \in {1, 2, 4, 8}
      /\ b < 64 => encoded_size(b) = 1
      /\ 64 <= b /\ b < 128 => encoded_size(b) = 2
      /\ 128 <= b /\ b < 192 => encoded_size(b) = 4
      /\ 192 <= b => encoded_size(b) = 8
  BY <1>1, EncodedSize
<1> DEFINE top == b \div 64
           size == encoded_size(b)
<1> HIDE DEF top, size
<1>4. b < 64 \/ (64 <= b /\ b < 128) \/ (128 <= b /\ b < 192) \/ 192 <= b BY SMT
<1> QED BY <1>2, <1>3, <1>4, SMT DEF top, size

(* A number of at most thirty bits is read back where it was written.      *)
LEMMA ReadBack ==
  ASSUME NEW n \in Nat, n < 64 * 256 * 256 * 256,
         NEW w \in Seq(Byte), NEW p \in Nat, Begins(w, p, VarEncode(u64(n)))
  PROVE  LET e == VarEncode(u64(n))
         IN /\ e \in Seq(Byte) /\ Len(e) \in {1, 2, 4, 8}
            /\ p < Len(w) => VarEnd(w, p) = p + Len(e) /\ encoded_size(w[p + 1]) = Len(e)
            /\ HasVar(w, p, Len(w)) <=> p + Len(e) <= Len(w)
            /\ p + Len(e) <= Len(w) => Var(w, p) = n
<1> DEFINE e == VarEncode(u64(n))
           b(i) == w[p + i]
           u16 == (b(1) % 64) * 256 + b(2)
           u32 == (u16 * 256 + b(3)) * 256 + b(4)
           word == (((u32 * 256 + b(5)) * 256 + b(6)) * 256 + b(7)) * 256 + b(8)
<1>0. Len(w) \in Nat OBVIOUS
<1>1. /\ e \in Seq(Byte) /\ Len(e) \in {1, 2, 4, 8} /\ encoded_size(e[1]) = Len(e)
      /\ e[1] \in 0 .. 255
      /\ Len(e) = 1 => n = e[1] % 64
      /\ Len(e) = 2 => n = (e[1] % 64) * 256 + e[2]
      /\ Len(e) = 4 => n = (((e[1] % 64) * 256 + e[2]) * 256 + e[3]) * 256 + e[4]
      /\ Len(e) = 8 => /\ e[1] % 64 = 0 /\ e[2] = 0 /\ e[3] = 0 /\ e[4] = 0
                       /\ n = ((e[5] * 256 + e[6]) * 256 + e[7]) * 256 + e[8]
  BY EncodedSmall
<1>2. \A i \in 1 .. Len(e) : p + i <= Len(w) => w[p + i] = e[i] BY DEF Begins
<1> HIDE DEF e
<1>3. p < Len(w) => w[p + 1] = e[1] BY <1>0, <1>1, <1>2, SMT
<1>4. p < Len(w) => VarEnd(w, p) = p + Len(e) /\ encoded_size(w[p + 1]) = Len(e)
  BY <1>1, <1>3, Zenon DEF VarEnd
<1>5. HasVar(w, p, Len(w)) <=> p + Len(e) <= Len(w) BY <1>0, <1>1, <1>4, SMT DEF HasVar
<1>6. ASSUME p + Len(e) <= Len(w) PROVE Var(w, p) = n
  <2>1. Var(w, p) = CASE b(1) \div 64 = 0 -> b(1) % 64
                      [] b(1) \div 64 = 1 -> u16
                      [] b(1) \div 64 = 2 -> u32
                      [] OTHER -> word
    BY Zenon DEF Var
  <2>2. \A i \in 1 .. Len(e) : b(i) = e[i] BY <1>0, <1>1, <1>2, <1>6, SMT
  <2>3. /\ encoded_size(e[1]) = 1 => e[1] \div 64 = 0
        /\ encoded_size(e[1]) = 2 => e[1] \div 64 = 1
        /\ encoded_size(e[1]) = 4 => e[1] \div 64 = 2
        /\ encoded_size(e[1]) = 8 => e[1] \div 64 = 3
    BY <1>1, LengthBits
  <2>4. b(1) = e[1] BY <1>1, <2>2, SMT
  <2>9. 1 # 0 /\ 2 # 0 /\ 2 # 1 /\ 3 # 0 /\ 3 # 1 /\ 3 # 2 BY SMT
  <2>5. CASE Len(e) = 1
    <3>1. b(1) \div 64 = 0 BY <1>1, <2>3, <2>4, <2>5
    <3>2. Var(w, p) = b(1) % 64 BY <2>1, <3>1
    <3> QED BY <1>1, <2>4, <2>5, <3>2, Zenon
  <2>6. CASE Len(e) = 2
    <3>1. b(1) \div 64 = 1 BY <1>1, <2>3, <2>4, <2>6
    <3>2. Var(w, p) = u16
      <4> HIDE DEF b, u16, u32, word
      <4> QED BY <2>1, <3>1, <2>9, Zenon
    <3>3. b(2) = e[2] BY <2>2, <2>6, SMT
    <3> QED BY <1>1, <2>4, <2>6, <3>2, <3>3, Zenon
  <2>7. CASE Len(e) = 4
    <3>1. b(1) \div 64 = 2 BY <1>1, <2>3, <2>4, <2>7
    <3>2. Var(w, p) = u32
      <4> HIDE DEF b, u16, u32, word
      <4> QED BY <2>1, <3>1, <2>9, Zenon
    <3>3. b(2) = e[2] /\ b(3) = e[3] /\ b(4) = e[4] BY <2>2, <2>7, SMT
    <3>4. n = (((e[1] % 64) * 256 + e[2]) * 256 + e[3]) * 256 + e[4] BY <1>1, <2>7, ZenonT(40)
    <3>5. u32 = (((e[1] % 64) * 256 + e[2]) * 256 + e[3]) * 256 + e[4] BY <2>4, <3>3, ZenonT(40)
    <3> QED BY <3>2, <3>4, <3>5, ZenonT(40)
  <2>8. CASE Len(e) = 8
    <3>1. b(1) \div 64 = 3 BY <1>1, <2>3, <2>4, <2>8
    <3>2. Var(w, p) = word
      <4> HIDE DEF b, u16, u32, word
      <4> QED BY <2>1, <3>1, <2>9, Zenon
    <3>3. /\ b(2) = e[2] /\ b(3) = e[3] /\ b(4) = e[4] /\ b(5) = e[5] /\ b(6) = e[6]
          /\ b(7) = e[7] /\ b(8) = e[8]
      BY <2>2, <2>8, SMT
    <3>4. (b(1) % 64) = 0 /\ b(2) = 0 /\ b(3) = 0 /\ b(4) = 0 BY <1>1, <2>4, <2>8, <3>3, Zenon
    <3>5. u32 = 0 BY <3>4, SMT
    <3>6. e[5] \in 0 .. 255
      <4>1. 5 \in 1 .. Len(e) BY <2>8
      <4> QED BY <1>1, <4>1, ByteAt
    <3>7. u32 * 256 + b(5) = e[5]
      <4>1. \A c \in 0 .. 255 : 0 * 256 + c = c BY SMT
      <4>2. 0 * 256 + e[5] = e[5] BY <3>6, <4>1, Zenon
      <4>3. b(5) = e[5] BY <3>3, Zenon
      <4> HIDE DEF u32, b
      <4> QED BY <3>5, <4>2, <4>3, Zenon
    <3>8. Var(w, p) = ((e[5] * 256 + b(6)) * 256 + b(7)) * 256 + b(8)
      <4> HIDE DEF u32, b
      <4> QED BY <3>2, <3>7, Zenon
    <3> QED BY <1>1, <2>8, <3>3, <3>8, Zenon
  <2> QED BY <1>1, <2>5, <2>6, <2>7, <2>8
<1> QED BY <1>1, <1>4, <1>5, <1>6, Zenon DEF e

(* A stream that begins with a header, or with a part of one, is read as   *)
(* the stream of that session once the header is whole, and not before.    *)
LEMMA HeaderReadBack ==
  ASSUME NEW k \in {"uni", "bi"}, NEW s \in Sessions, NEW w \in Seq(Byte),
         \A i \in 1 .. Len(w) : i <= Len(StreamHeader(k, s)) => w[i] = StreamHeader(k, s)[i]
  PROVE  LET h == StreamHeader(k, s)
             q == VarEnd(w, 0)
         IN /\ h \in Seq(Byte) /\ Len(h) \in Nat /\ Len(h) >= 2
            /\ Whole(w, 0, Len(w)) => Len(h) <= Len(w)
            /\ Len(h) <= Len(w) =>
                 /\ Whole(w, 0, Len(w))
                 /\ Var(w, 0) = IF k = "uni" THEN WEBTRANSPORT_UNI ELSE WEBTRANSPORT_BI_STREAM
                 /\ Var(w, q) = s /\ VarEnd(w, q) = Len(h)
<1> DEFINE t == IF k = "uni" THEN WEBTRANSPORT_UNI ELSE WEBTRANSPORT_BI_STREAM
           a == VarEncode(u64(t))
           c == VarEncode(u64(s))
           h == StreamHeader(k, s)
           q == VarEnd(w, 0)
<1>0. Len(w) \in Nat OBVIOUS
<1>1. t \in Nat /\ t < 64 * 256 * 256 * 256
  BY SMT DEF WEBTRANSPORT_UNI, WEBTRANSPORT_BI_STREAM
<1>2. s \in Nat /\ s < 64 * 256 * 256 * 256 BY SessionsAssumption, Zenon
<1>3. h = a \o c BY Zenon DEF StreamHeader
<1> HIDE DEF t, h
<1>4. a \in Seq(Byte) /\ Len(a) \in {1, 2, 4, 8} BY <1>1, EncodedSmall, Zenon
<1>5. c \in Seq(Byte) /\ Len(c) \in {1, 2, 4, 8} BY <1>2, EncodedSmall, Zenon
<1> HIDE DEF a, c
<1>6. /\ h \in Seq(Byte) /\ Len(h) = Len(a) + Len(c)
      /\ \A i \in 1 .. Len(a) : h[i] = a[i]
      /\ \A i \in 1 .. Len(c) : h[Len(a) + i] = c[i]
  BY <1>3, <1>4, <1>5
<1>7. \A i \in 1 .. Len(w) : i <= Len(h) => w[i] = h[i] BY Zenon DEF h
<1>17. Len(a) \in Nat /\ Len(a) >= 1 /\ Len(c) \in Nat /\ Len(c) >= 1 /\ Len(h) = Len(a) + Len(c)
  <2>1. \A m \in {1, 2, 4, 8} : m \in Nat /\ m >= 1 BY SMT
  <2> QED BY <1>4, <1>5, <1>6, <2>1, Zenon
<1>8. Begins(w, 0, a) BY <1>0, <1>4, <1>5, <1>6, <1>7, SMT DEF Begins
<1>9. Begins(w, Len(a), c) BY <1>0, <1>4, <1>5, <1>6, <1>7, SMT DEF Begins
<1>10. Len(a) \in Nat /\ 0 \in Nat BY <1>4
<1>11. /\ 0 < Len(w) => q = 0 + Len(a)
       /\ HasVar(w, 0, Len(w)) <=> 0 + Len(a) <= Len(w)
       /\ 0 + Len(a) <= Len(w) => Var(w, 0) = t
  BY <1>1, <1>8, <1>10, ReadBack, Zenon DEF a
<1>12. /\ Len(a) < Len(w) => VarEnd(w, Len(a)) = Len(a) + Len(c)
       /\ HasVar(w, Len(a), Len(w)) <=> Len(a) + Len(c) <= Len(w)
       /\ Len(a) + Len(c) <= Len(w) => Var(w, Len(a)) = s
  BY <1>2, <1>9, <1>10, ReadBack, Zenon DEF c
<1> HIDE DEF q
<1>13. HasVar(w, 0, Len(w)) => q = Len(a) BY <1>0, <1>4, <1>11, SMT
<1>14. Whole(w, 0, Len(w)) => Len(h) <= Len(w)
  BY <1>6, <1>12, <1>13, Zenon DEF Whole, q
<1>15. ASSUME Len(h) <= Len(w)
       PROVE  Whole(w, 0, Len(w)) /\ Var(w, 0) = t /\ Var(w, q) = s /\ VarEnd(w, q) = Len(h)
  <2>1. 0 + Len(a) <= Len(w) /\ Len(a) < Len(w) /\ Len(a) + Len(c) <= Len(w)
    BY <1>0, <1>15, <1>17, SMT
  <2>2. HasVar(w, 0, Len(w)) /\ Var(w, 0) = t /\ q = Len(a) BY <1>11, <1>13, <2>1, Zenon
  <2>3. VarEnd(w, q) = Len(h) /\ HasVar(w, q, Len(w)) /\ Var(w, q) = s
    BY <1>6, <1>12, <2>1, <2>2, Zenon
  <2> QED BY <2>2, <2>3, Zenon DEF Whole, q
<1>16. Len(h) \in Nat /\ Len(h) >= 2 BY <1>17, SMT
<1> QED BY <1>6, <1>14, <1>15, <1>16, Zenon DEF h, q, t

(* An integer that is there stays when the stream grows.                   *)
LEMMA VarGrows ==
  ASSUME NEW w \in Seq(Byte), NEW v \in Seq(Byte), NEW limit \in Nat,
         limit <= Len(w), limit <= Len(v), \A i \in 1 .. limit : v[i] = w[i],
         NEW p \in Nat, HasVar(w, p, limit)
  PROVE  HasVar(v, p, limit) /\ v[p + 1] = w[p + 1] /\ VarEnd(v, p) = VarEnd(w, p)
         /\ Var(v, p) = Var(w, p)
<1>1. p < limit /\ p + encoded_size(w[p + 1]) <= limit BY DEF HasVar
<1>2. p + 1 \in 1 .. Len(w) BY <1>1
<1>3. w[p + 1] \in Byte /\ encoded_size(w[p + 1]) \in {1, 2, 4, 8} BY <1>2, ByteAt
<1>4. v[p + 1] = w[p + 1] BY <1>1
<1>5. HasVar(v, p, limit) /\ VarEnd(v, p) = VarEnd(w, p) BY <1>1, <1>4, Zenon DEF HasVar, VarEnd
<1> DEFINE b(i) == w[p + i]
           n == encoded_size(w[p + 1])
<1>6. \A i \in 1 .. n : v[p + i] = b(i)
  <2> HIDE DEF n
  <2>1. \A i \in 1 .. n : p + i \in 1 .. limit BY <1>1, <1>3 DEF n
  <2> QED BY <2>1
<1>7. /\ b(1) \div 64 \in 0 .. 3
      /\ b(1) \div 64 # 0 => 2 \in 1 .. n
      /\ b(1) \div 64 \notin {0, 1} => 3 \in 1 .. n /\ 4 \in 1 .. n
      /\ b(1) \div 64 \notin {0, 1, 2} => 5 \in 1 .. n /\ 6 \in 1 .. n /\ 7 \in 1 .. n /\ 8 \in 1 .. n
  BY <1>3, TopBits
<1> HIDE DEF n
<1> DEFINE u16(x) == (x[p + 1] % 64) * 256 + x[p + 2]
           u32(x) == (u16(x) * 256 + x[p + 3]) * 256 + x[p + 4]
           word(x) == (((u32(x) * 256 + x[p + 5]) * 256 + x[p + 6]) * 256 + x[p + 7]) * 256 + x[p + 8]
<1>8. \A x : Var(x, p) = CASE x[p + 1] \div 64 = 0 -> x[p + 1] % 64
                           [] x[p + 1] \div 64 = 1 -> u16(x)
                           [] x[p + 1] \div 64 = 2 -> u32(x)
                           [] OTHER -> word(x)
  BY Zenon DEF Var
<1>9. 1 # 0 /\ 2 # 0 /\ 2 # 1 /\ 3 # 0 /\ 3 # 1 /\ 3 # 2 BY SMT
<1>10. CASE b(1) \div 64 = 0
  <2>1. Var(w, p) = w[p + 1] % 64 BY <1>8, <1>10
  <2>2. Var(v, p) = v[p + 1] % 64 BY <1>4, <1>8, <1>10
  <2> QED BY <1>4, <1>5, <2>1, <2>2, Zenon
<1>11. CASE b(1) \div 64 = 1
  <2>0. w[p + 1] \div 64 = 1 /\ v[p + 1] \div 64 = 1 BY <1>4, <1>11, Zenon
  <2>1. v[p + 2] = w[p + 2] BY <1>6, <1>7, <1>9, <1>11, Zenon
  <2>2. Var(w, p) = u16(w)
    <3> HIDE DEF u16, u32, word
    <3> QED BY <1>8, <1>9, <1>11, Zenon
  <2>3. Var(v, p) = u16(v)
    <3> HIDE DEF u16, u32, word
    <3> QED BY <1>8, <1>9, <2>0, Zenon
  <2>4. u16(v) = u16(w) BY <1>4, <2>1, Zenon
  <2> QED BY <1>4, <1>5, <2>2, <2>3, <2>4, Zenon
<1>12. CASE b(1) \div 64 = 2
  <2>0. w[p + 1] \div 64 = 2 /\ v[p + 1] \div 64 = 2 BY <1>4, <1>12, Zenon
  <2>1. b(1) \div 64 # 0 /\ b(1) \div 64 \notin {0, 1} BY <1>9, <1>12, Zenon
  <2>2. v[p + 2] = w[p + 2] /\ v[p + 3] = w[p + 3] /\ v[p + 4] = w[p + 4]
    BY <1>6, <1>7, <2>1, Zenon
  <2>3. Var(w, p) = u32(w)
    <3> HIDE DEF u16, u32, word
    <3> QED BY <1>8, <1>9, <1>12, Zenon
  <2>4. Var(v, p) = u32(v)
    <3> HIDE DEF u16, u32, word
    <3> QED BY <1>8, <1>9, <2>0, Zenon
  <2>5. u32(v) = u32(w) BY <1>4, <2>2, Zenon
  <2> QED BY <1>4, <1>5, <2>3, <2>4, <2>5, Zenon
<1>13. CASE b(1) \div 64 = 3
  <2>0. w[p + 1] \div 64 = 3 /\ v[p + 1] \div 64 = 3 BY <1>4, <1>13, Zenon
  <2>1. b(1) \div 64 # 0 /\ b(1) \div 64 \notin {0, 1} /\ b(1) \div 64 \notin {0, 1, 2}
    BY <1>9, <1>13, Zenon
  <2>2. /\ v[p + 2] = w[p + 2] /\ v[p + 3] = w[p + 3] /\ v[p + 4] = w[p + 4]
        /\ v[p + 5] = w[p + 5] /\ v[p + 6] = w[p + 6] /\ v[p + 7] = w[p + 7]
        /\ v[p + 8] = w[p + 8]
    BY <1>6, <1>7, <2>1, Zenon
  <2>3. Var(w, p) = word(w)
    <3> HIDE DEF u16, u32, word
    <3> QED BY <1>8, <1>9, <1>13, Zenon
  <2>4. Var(v, p) = word(v)
    <3> HIDE DEF u16, u32, word
    <3> QED BY <1>8, <1>9, <2>0, Zenon
  <2>5. u32(v) = u32(w) BY <1>4, <2>2, Zenon
  <2>6. word(v) = word(w)
    <3> HIDE DEF u32
    <3> QED BY <2>2, <2>5, Zenon
  <2> QED BY <1>4, <1>5, <2>3, <2>4, <2>6, Zenon
<1>14. b(1) \div 64 \in {0, 1, 2, 3} BY <1>7
<1> QED BY <1>10, <1>11, <1>12, <1>13, <1>14, Zenon

(* What was read is joined by what is read next.                           *)
LEMMA SubSeqJoined ==
  ASSUME NEW w \in Seq(Byte), NEW a \in Nat, NEW b \in Nat, NEW c \in Nat,
         a <= b, b <= c, c <= Len(w)
  PROVE  /\ SubSeq(w, a + 1, b) \in Seq(Byte) /\ Len(SubSeq(w, a + 1, b)) = b - a
         /\ SubSeq(w, a + 1, b) \o SubSeq(w, b + 1, c) = SubSeq(w, a + 1, c)
<1> DEFINE x == SubSeq(w, a + 1, b)
           y == SubSeq(w, b + 1, c)
           z == SubSeq(w, a + 1, c)
<1>1. x \in Seq(Byte) /\ Len(x) = b - a /\ \A i \in 1 .. (b - a) : x[i] = w[a + i] OBVIOUS
<1>2. y \in Seq(Byte) /\ Len(y) = c - b /\ \A i \in 1 .. (c - b) : y[i] = w[b + i] OBVIOUS
<1>3. z \in Seq(Byte) /\ Len(z) = c - a /\ \A i \in 1 .. (c - a) : z[i] = w[a + i] OBVIOUS
<1> HIDE DEF x, y, z
<1>0. b - a \in Nat /\ c - b \in Nat /\ (b - a) + (c - b) = c - a OBVIOUS
<1>7. /\ x \o y \in Seq(Byte) /\ Len(x \o y) = Len(x) + Len(y)
      /\ \A i \in 1 .. (Len(x) + Len(y)) :
           (x \o y)[i] = IF i <= Len(x) THEN x[i] ELSE y[i - Len(x)]
  <2>1. x \in Seq(Byte) /\ y \in Seq(Byte) BY <1>1, <1>2, Zenon
  <2> QED BY ONLY <2>1
<1>4. x \o y \in Seq(Byte) /\ Len(x \o y) = c - a BY <1>0, <1>1, <1>2, <1>7, Zenon
<1>8. \A i \in 1 .. (c - a) : (x \o y)[i] = IF i <= b - a THEN x[i] ELSE y[i - (b - a)]
  BY <1>0, <1>1, <1>2, <1>7, Zenon
<1>5. ASSUME NEW i \in 1 .. (c - a) PROVE (x \o y)[i] = z[i]
  <2>1. CASE i <= b - a
    <3>1. i \in 1 .. (b - a) BY <2>1
    <3> QED BY <1>1, <1>3, <1>8, <2>1, <3>1, Zenon
  <2>2. CASE ~(i <= b - a)
    <3>1. i - (b - a) \in 1 .. (c - b) /\ b + (i - (b - a)) = a + i BY <2>2
    <3>2. (x \o y)[i] = y[i - (b - a)] BY <1>8, <2>2, Zenon
    <3> QED BY <1>2, <1>3, <3>1, <3>2, Zenon
  <2> QED BY <2>1, <2>2
<1>6. x \o y = z BY <1>3, <1>4, <1>5, SeqEqual
<1> QED BY <1>1, <1>6 DEF x, y, z

(* What was read stays what it was when the stream grows.                  *)
LEMMA SubSeqGrows ==
  ASSUME NEW w \in Seq(Byte), NEW v \in Seq(Byte), Len(w) <= Len(v),
         \A i \in 1 .. Len(w) : v[i] = w[i], NEW a \in Nat, NEW b \in Nat, a <= b, b <= Len(w)
  PROVE  SubSeq(v, a + 1, b) = SubSeq(w, a + 1, b)
<1> DEFINE x == SubSeq(v, a + 1, b)
           y == SubSeq(w, a + 1, b)
<1>1. x \in Seq(Byte) /\ Len(x) = b - a /\ \A i \in 1 .. (b - a) : x[i] = v[a + i] OBVIOUS
<1>2. y \in Seq(Byte) /\ Len(y) = b - a /\ \A i \in 1 .. (b - a) : y[i] = w[a + i] OBVIOUS
<1> HIDE DEF x, y
<1>3. \A i \in 1 .. (b - a) : a + i \in 1 .. Len(w) OBVIOUS
<1>4. \A i \in 1 .. (b - a) : x[i] = y[i] BY <1>1, <1>2, <1>3
<1>5. x = y BY <1>1, <1>2, <1>4, SeqEqual
<1> QED BY <1>5 DEF x, y

(* The same by the reference.                                              *)
LEMMA OpenedStream ==
  ASSUME NEW k \in {"uni", "bi"}, NEW s \in Sessions, NEW w \in Seq(Byte),
         \A i \in 1 .. Len(w) : i <= Len(StreamHeader(k, s)) => w[i] = StreamHeader(k, s)[i],
         Len(StreamHeader(k, s)) <= Len(w)
  PROVE  SessionOf(k, w) = s /\ DataStart(k, w) = Len(StreamHeader(k, s))
<1> DEFINE h == StreamHeader(k, s)
           q == VarEnd(w, 0)
           f == FrameAt(w, 0)
<1>1. /\ Whole(w, 0, Len(w)) /\ Var(w, q) = s /\ VarEnd(w, q) = Len(h)
      /\ Var(w, 0) = IF k = "uni" THEN WEBTRANSPORT_UNI ELSE WEBTRANSPORT_BI_STREAM
  BY HeaderReadBack
<1>2. CASE k = "uni" BY <1>1, <1>2, Zenon DEF SessionOf, DataStart, IdAt
<1>3. CASE k = "bi"
  <2>1. f.type = WEBTRANSPORT_BI_STREAM /\ f.len = s /\ f.at = Len(h) BY <1>1, <1>3 DEF FrameAt
  <2>2. HasHeader(w, 0) BY <1>1, Zenon DEF Whole, HasHeader
  <2>3. 0 \in 0 .. Len(w) OBVIOUS
  <2>4. FramesFrom(w)[0] = <<f>> BY <2>1, <2>2, <2>3, FramesCases, Zenon
  <2> HIDE DEF f
  <2>5. FramesOf(w)[1] = f BY <2>4 DEF FramesOf
  <2> QED BY <1>3, <2>1, <2>5 DEF SessionOf, DataStart
<1> QED BY <1>2, <1>3

-----------------------------------------------------------------------------
(***************************************************************************)
(* Steps of the rest of the session: the negotiation, and datagrams.       *)
(***************************************************************************)

(* What a step that is none of the reader's leaves as it is.               *)
LEMMA ReaderSame ==
  ASSUME TypeOK, UNCHANGED <<ty, id, phase, got, told, enabled, eos>>
  PROVE  IdType' /\ ReaderType' /\ FlagType'
<1>1. IdType /\ ReaderType /\ FlagType BY Zenon DEF TypeOK
<1>2. IdType' BY <1>1 DEF IdType
<1>3. ReaderType' BY <1>1, Zenon DEF ReaderType
<1>4. FlagType' BY <1>1, Zenon DEF FlagType
<1> QED BY <1>2, <1>3, <1>4

(* They leave the stream and its reader alone.                             *)
LEMMA Elsewhere ==
  ASSUME IInv,
         UNCHANGED <<wire, ending, kind, enabled, pos, received, cuts, eos, expected, phase,
                     ty, id, got, opener, told>>,
         conn_error' \in Errors, response' \in {None, 0, 200, 400},
         conn_error' = "H3_INTERNAL_ERROR" => conn_error = "H3_INTERNAL_ERROR"
  PROVE  IInv'
<1>1. TypeOK'
  <2>1. WriterType' BY DEF IInv, TypeOK, WriterType
  <2>2. BufferType' BY DEF IInv, TypeOK, BufferType
  <2>3. IdType' /\ ReaderType' /\ FlagType' BY ReaderSame DEF IInv
  <2> QED BY <2>1, <2>2, <2>3, Zenon DEF TypeOK, SharedType
<1>2. OpenInv' BY DEF IInv, OpenInv, Header
<1>3. FreshInv' /\ EosInv' BY DEF IInv, FreshInv, EosInv
<1>4. UniInv' BY DEF IInv, UniInv, TypeSize, IdAt
<1>5. BiInv' BY Zenon DEF IInv, BiInv
<1>6. ReaderInv' /\ ErrorInv' BY DEF IInv, ReaderInv, ErrorInv, IdAt
<1>7. ResolvedIsOpened' BY Zenon DEF IInv, ResolvedIsOpened
<1>8. ReadsAreExact' BY Zenon DEF IInv, ReadsAreExact
<1>9. OnlyStaleLengthsFail'
  BY DEF IInv, OnlyStaleLengthsFail, HeaderWhole, IdAt, IdSize, TypeSize
<1> QED BY <1>1, <1>2, <1>3, <1>4, <1>5, <1>6, <1>7, <1>8, <1>9 DEF IInv

(* ReceiveSettings, accept and AcceptFails.                                *)
LEMMA Negotiates ==
  ASSUME IInv, ReceiveSettings \/ accept \/ AcceptFails
  PROVE  IInv'
<1>1. conn_error \in Errors /\ response \in {None, 0, 200, 400}
  BY DEF IInv, TypeOK, SharedType
<1>2. UNCHANGED <<wire, ending, kind, enabled, pos, received, cuts, eos, expected, phase,
                  ty, id, got, opener, told>>
  BY DEF ReceiveSettings, accept, AcceptFails, stream, bytes_in, buf, accepted, reading
<1>3. conn_error' = conn_error \/ SetError("H3_SETTINGS_ERROR") \/ SetError("remote")
  BY DEF ReceiveSettings, accept, AcceptFails
<1>4. conn_error' \in Errors /\ conn_error' \in {"H3_SETTINGS_ERROR", "remote", conn_error}
  BY <1>1, <1>3 DEF SetError, Errors
<1>5. response' \in {None, 0, 200, 400}
  <2>1. CASE ReceiveSettings BY <1>1, <2>1 DEF ReceiveSettings
  <2>2. CASE accept
    <3>1. response' \in {response, 200, 400} BY <2>2, Zenon DEF accept
    <3> QED BY <1>1, <3>1
  <2>3. CASE AcceptFails BY <2>3 DEF AcceptFails
  <2> QED BY <2>1, <2>2, <2>3
<1>6. conn_error' = "H3_INTERNAL_ERROR" => conn_error = "H3_INTERNAL_ERROR" BY <1>4
<1> QED BY <1>2, <1>4, <1>5, <1>6, Elsewhere

(* SendDatagram, LoseConnection, ReadDatagram and DatagramLost.            *)
LEMMA Datagrams ==
  ASSUME IInv,
         \/ \E p \in connect.payloads : SendDatagram(p)
         \/ LoseConnection
         \/ \E d \in net : ReadDatagram(d)
         \/ \E d \in net : DatagramLost(d)
  PROVE  IInv'
<1>1. conn_error \in Errors /\ response \in {None, 0, 200, 400}
  BY DEF IInv, TypeOK, SharedType
<1>2. OnlyDatagrams BY DEF SendDatagram, LoseConnection, ReadDatagram, DatagramLost
<1>3. conn_error' = conn_error \/ SetError("H3_DATAGRAM_ERROR") \/ SetError("remote")
  BY DEF SendDatagram, LoseConnection, ReadDatagram, DatagramLost, send_datagram,
         SendDatagramFails, read_datagram, LoseDatagram
<1>4. conn_error' \in Errors /\ conn_error' \in {"H3_DATAGRAM_ERROR", "remote", conn_error}
  BY <1>1, <1>3 DEF SetError, Errors
<1>5. UNCHANGED <<wire, ending, kind, enabled, pos, received, cuts, eos, expected, phase,
                  ty, id, got, opener, told, response>>
  BY <1>2 DEF OnlyDatagrams, stream, bytes_in, buf, negotiation, accepted, reading
<1>6. response' \in {None, 0, 200, 400} BY <1>1, <1>5
<1>7. conn_error' = "H3_INTERNAL_ERROR" => conn_error = "H3_INTERNAL_ERROR" BY <1>4
<1> QED BY <1>4, <1>5, <1>6, <1>7, Elsewhere

-----------------------------------------------------------------------------
(***************************************************************************)
(* Steps of the writer.                                                    *)
(***************************************************************************)

(* The stream is the same, or longer.                                      *)
Grows == Len(wire) <= Len(wire') /\ \A i \in 1 .. Len(wire) : wire'[i] = wire[i]

(* What was read of the header, and of its end, is true of a longer stream.*)
LEMMA HeaderStays ==
  ASSUME IInv, wire' \in Seq(Byte), Grows, ending = "open",
         UNCHANGED <<kind, pos, received, eos, expected, phase, ty, id>>,
         conn_error' = "H3_INTERNAL_ERROR" => conn_error = "H3_INTERNAL_ERROR"
  PROVE  FreshInv' /\ EosInv' /\ UniInv' /\ ErrorInv' /\ OnlyStaleLengthsFail'
<1> DEFINE q == IdAt(wire)
<1>1. wire \in Seq(Byte) /\ received \in Nat /\ received <= Len(wire) /\ Len(wire) \in Nat
  BY DEF IInv, TypeOK, WriterType, BufferType
<1>2. /\ Len(wire') \in Nat /\ Len(wire) <= Len(wire') /\ received <= Len(wire')
      /\ \A i \in 1 .. Len(wire) : wire'[i] = wire[i]
      /\ \A i \in 1 .. received : wire'[i] = wire[i]
  BY <1>1 DEF Grows
<1>3. FreshInv /\ EosInv /\ UniInv /\ ErrorInv /\ OnlyStaleLengthsFail BY DEF IInv
<1>4. FreshInv'
  <2>1. wire' = <<>> => wire = <<>> BY <1>1, <1>2
  <2> QED BY <1>3, <2>1 DEF FreshInv
<1>5. EosInv' BY <1>3 DEF EosInv
<1>6. ASSUME HasVar(wire, 0, received)
      PROVE  /\ HasVar(wire', 0, received) /\ Var(wire', 0) = Var(wire, 0)
             /\ TypeSize(wire') = TypeSize(wire) /\ IdAt(wire') = q /\ q \in Nat
  <2>1. 0 \in Nat /\ 0 + 1 = 1 OBVIOUS
  <2>2. /\ HasVar(wire', 0, received) /\ Var(wire', 0) = Var(wire, 0)
        /\ wire'[0 + 1] = wire[0 + 1] /\ VarEnd(wire', 0) = VarEnd(wire, 0)
    BY <1>1, <1>2, <1>6, <2>1, VarGrows
  <2>3. VarEnd(wire, 0) \in Nat BY <1>1, <1>6, VarType
  <2> QED BY <2>1, <2>2, <2>3, Zenon DEF TypeSize, IdAt
<1>7. ASSUME HasVar(wire, 0, received), HasVar(wire, q, received)
      PROVE  /\ HasVar(wire', q, received) /\ Var(wire', q) = Var(wire, q)
             /\ VarEnd(wire', q) = VarEnd(wire, q)
  <2>1. q \in Nat BY <1>6, <1>7
  <2> HIDE DEF q
  <2> QED BY <1>1, <1>2, <1>7, <2>1, VarGrows
<1>8. UniInv'
  <2> SUFFICES ASSUME kind = "uni" PROVE UniInv' BY DEF UniInv
  <2>1. ty = None /\ expected # None => received > 0 /\ expected = encoded_size(wire'[1])
    <3>1. received > 0 => wire'[1] = wire[1] BY <1>1, <1>2
    <3> QED BY <1>3, <3>1 DEF UniInv
  <2>2. ty # None => /\ HasVar(wire', 0, received) /\ ty = Var(wire', 0)
                     /\ expected = TypeSize(wire') /\ IdAt(wire') = q
    BY <1>3, <1>6, Zenon DEF UniInv
  <2>3. id # None => ty # None BY <1>3, Zenon DEF UniInv
  <2>4. id # None => /\ HasVar(wire', q, received) /\ id = Var(wire', q)
                     /\ VarEnd(wire', q) = VarEnd(wire, q)
    BY <1>3, <1>7, <2>3, Zenon DEF UniInv
  <2>5. ty # None /\ phase = "queued" => NeedsId(ty) /\ pos = IdAt(wire') /\ id = None
    BY <1>3, <2>2, Zenon DEF UniInv
  <2>6. phase = "ready" => pos = VarEnd(wire', IdAt(wire'))
    BY <1>3, <2>2, <2>3, <2>4, Zenon DEF UniInv
  <2>7. id # None => HasVar(wire', IdAt(wire'), received) /\ id = Var(wire', IdAt(wire'))
    BY <2>2, <2>3, <2>4, Zenon
  <2>8. /\ ty = None => id = None /\ phase \notin {"ready", "mine"} /\ (phase = "queued" => pos = 0)
        /\ phase \in {"ready", "mine"} => id # None
        /\ phase = "gone" => ty # None /\ (NeedsId(ty) => id # None)
    BY <1>3, Zenon DEF UniInv
  <2>9. /\ kind' = kind /\ pos' = pos /\ received' = received /\ expected' = expected
        /\ phase' = phase /\ ty' = ty /\ id' = id
    OBVIOUS
  <2> QED BY <2>1, <2>2, <2>5, <2>6, <2>7, <2>8, <2>9, Zenon DEF UniInv
<1>9. ErrorInv' /\ OnlyStaleLengthsFail'
  <2>1. CASE conn_error' = "H3_INTERNAL_ERROR"
    <3>1. conn_error = "H3_INTERNAL_ERROR" BY <2>1
    <3>2. kind = "uni" /\ q < Len(wire) BY <1>3, <3>1 DEF ErrorInv
    <3>3. ty # None /\ NeedsId(ty) /\ IdSize(wire) > TypeSize(wire)
      BY <1>3, <3>1 DEF OnlyStaleLengthsFail
    <3>4. HasVar(wire, 0, received) BY <1>3, <3>2, <3>3 DEF UniInv
    <3>5. TypeSize(wire') = TypeSize(wire) /\ IdAt(wire') = q /\ q \in Nat BY <1>6, <3>4
    <3> HIDE DEF q
    <3>6. wire'[q + 1] = wire[q + 1]
      <4>1. q + 1 \in 1 .. Len(wire) BY <1>1, <3>2, <3>5
      <4> QED BY <1>2, <4>1
    <3>7. IdSize(wire') = IdSize(wire) BY <3>5, <3>6 DEF IdSize, q
    <3>8. q < Len(wire') BY <1>1, <1>2, <3>2, <3>5
    <3>9. ErrorInv' BY <3>2, <3>5, <3>8 DEF ErrorInv
    <3>10. kind = "uni" /\ phase = "gone" => ty # None /\ (NeedsId(ty) => id # None)
      BY <1>3, Zenon DEF UniInv
    <3> QED BY <3>3, <3>5, <3>7, <3>9, <3>10 DEF OnlyStaleLengthsFail
  <2>2. CASE conn_error' # "H3_INTERNAL_ERROR"
    <3>1. kind = "uni" /\ phase = "gone" => ty # None /\ (NeedsId(ty) => id # None)
      BY <1>3, Zenon DEF UniInv
    <3> QED BY <2>2, <3>1 DEF ErrorInv, OnlyStaleLengthsFail
  <2> QED BY <2>1, <2>2
<1> QED BY <1>4, <1>5, <1>8, <1>9

(* A step of the writer after which the stream begins as its opener says.  *)
LEMMA Writes ==
  ASSUME IInv, WriterType', OpenInv', SharedType', Grows, ending = "open",
         UNCHANGED <<kind, enabled, pos, received, cuts, eos, expected, phase, ty, id, got, told>>,
         opener.at \in {"header", "open"}, opener.at = "open" => opener'.at = "open",
         opener'.at # "none", opener'.session = opener.session,
         conn_error' = "H3_INTERNAL_ERROR" => conn_error = "H3_INTERNAL_ERROR"
  PROVE  IInv'
<1> DEFINE s == opener.session
           h == StreamHeader(kind, s)
<1>0. wire' \in Seq(Byte) BY Zenon DEF WriterType
<1>1. TypeOK /\ OpenInv /\ ResolvedIsOpened /\ ReadsAreExact /\ ReaderInv /\ BiInv BY DEF IInv
<1>2. /\ wire \in Seq(Byte) /\ received \in Nat /\ received <= Len(wire) /\ Len(wire) \in Nat
      /\ kind \in {"uni", "bi"}
      /\ pos \in Nat /\ pos <= Len(wire)
  BY <1>1 DEF TypeOK, WriterType, BufferType
<1>3. /\ Len(wire') \in Nat /\ Len(wire) <= Len(wire')
      /\ \A i \in 1 .. Len(wire) : wire'[i] = wire[i]
  BY <1>0 DEF Grows
<1>4. FreshInv' /\ EosInv' /\ UniInv' /\ ErrorInv' /\ OnlyStaleLengthsFail'
  BY <1>0, HeaderStays
<1>5. TypeOK'
  <2>1. BufferType' BY <1>1, <1>2, <1>3 DEF TypeOK, BufferType
  <2>2. IdType' /\ ReaderType' /\ FlagType' BY <1>1, ReaderSame
  <2> QED BY <2>1, <2>2, Zenon DEF TypeOK
<1>6. BiInv'
  <2>1. opener.at # "none" OBVIOUS
  <2>2. kind = "bi" /\ phase = "queued" => pos = 0 BY <1>1, <2>1, Zenon DEF BiInv
  <2>3. FramesFrom(wire')[0] = FramesOf(wire') BY Zenon DEF FramesOf
  <2>4. kind = "bi" => phase # "ready" BY <1>1, Zenon DEF BiInv
  <2>5. kind' = kind /\ phase' = phase /\ pos' = pos OBVIOUS
  <2> QED BY <2>2, <2>3, <2>4, <2>5, Zenon DEF BiInv
<1>7. ASSUME phase \in {"ready", "mine"}
      PROVE  /\ opener.at = "open" /\ opener'.at = "open"
             /\ SessionOf(kind, wire) = s /\ SessionOf(kind, wire') = s
             /\ DataStart(kind, wire) = Len(h) /\ DataStart(kind, wire') = Len(h)
             /\ Len(h) \in Nat
  <2>1. opener.at = "open" /\ opener'.at = "open" BY <1>1, <1>7 DEF ResolvedIsOpened
  <2>2. /\ s \in Sessions /\ Len(h) <= Len(wire)
        /\ \A i \in 1 .. Len(wire) : i <= Len(h) => wire[i] = h[i]
    BY <1>1, <2>1 DEF OpenInv, Header
  <2>3. /\ Len(h) <= Len(wire')
        /\ \A i \in 1 .. Len(wire') : i <= Len(h) => wire'[i] = h[i]
    BY <2>1 DEF OpenInv, Header
  <2>4. SessionOf(kind, wire) = s /\ DataStart(kind, wire) = Len(h)
    BY <1>2, <2>2, OpenedStream
  <2>5. SessionOf(kind, wire') = s /\ DataStart(kind, wire') = Len(h)
    BY <1>0, <1>2, <2>2, <2>3, OpenedStream
  <2>6. Len(h) \in Nat BY <1>2, <2>2, HeaderReadBack
  <2> QED BY <2>1, <2>4, <2>5, <2>6
<1>8. ResolvedIsOpened'
  <2>1. kind' = kind /\ phase' = phase /\ id' = id /\ opener'.session = s OBVIOUS
  <2> HIDE DEF s, h
  <2>2. phase \in {"ready", "mine"} => id = s BY <1>1, <1>7 DEF ResolvedIsOpened
  <2> QED BY <1>7, <2>1, <2>2 DEF ResolvedIsOpened
<1> HIDE DEF h
<1>9. ReadsAreExact' /\ ReaderInv'
  <2>1. CASE phase = "mine"
    <3>1. /\ DataStart(kind, wire) = Len(h) /\ DataStart(kind, wire') = Len(h) /\ Len(h) \in Nat
      BY <1>7, <2>1
    <3>2. /\ Len(h) + Len(got) = pos /\ got = SubSeq(wire, Len(h) + 1, pos) /\ told # "end"
      BY <1>1, <2>1, <3>1, Zenon DEF ReadsAreExact
    <3>3. Len(h) <= pos BY <1>1, <2>1, <3>1 DEF ReaderInv
    <3>4. SubSeq(wire', Len(h) + 1, pos) = SubSeq(wire, Len(h) + 1, pos)
      BY <1>0, <1>2, <1>3, <3>1, <3>3, SubSeqGrows
    <3>5. kind' = kind /\ phase' = phase /\ pos' = pos /\ got' = got /\ told' = told OBVIOUS
    <3>6. ReadsAreExact' BY <3>1, <3>2, <3>4, <3>5, Zenon DEF ReadsAreExact
    <3>7. ReaderInv' BY <1>2, <2>1, <3>1, <3>3, <3>5 DEF ReaderInv
    <3> QED BY <3>6, <3>7
  <2>2. CASE phase # "mine" BY <1>1, <2>2 DEF ReadsAreExact, ReaderInv
  <2> QED BY <2>1, <2>2
<1> QED BY <1>4, <1>5, <1>6, <1>8, <1>9 DEF IInv

(* The bytes of a header that are written, and those that are left.        *)
LEMMA PartWritten ==
  ASSUME NEW w \in Seq(Byte), NEW l \in Seq(Byte), NEW n \in Nat, n <= Len(l)
  PROVE  LET v == w \o SubSeq(l, 1, n)
             r == SubSeq(l, n + 1, Len(l))
         IN /\ v \in Seq(Byte) /\ Len(v) = Len(w) + n
            /\ \A i \in 1 .. Len(w) : v[i] = w[i]
            /\ \A i \in 1 .. n : v[Len(w) + i] = l[i]
            /\ r \in Seq(Byte) /\ Len(r) = Len(l) - n
            /\ \A i \in 1 .. (Len(l) - n) : r[i] = l[n + i]
<1> DEFINE a == SubSeq(l, 1, n)
           r == SubSeq(l, n + 1, Len(l))
<1>1. a \in Seq(Byte) /\ Len(a) = n /\ \A i \in 1 .. n : a[i] = l[i] OBVIOUS
<1>2. r \in Seq(Byte) /\ Len(r) = Len(l) - n /\ \A i \in 1 .. (Len(l) - n) : r[i] = l[n + i]
  OBVIOUS
<1> HIDE DEF a, r
<1>3. /\ w \o a \in Seq(Byte) /\ Len(w \o a) = Len(w) + n
      /\ \A i \in 1 .. Len(w) : (w \o a)[i] = w[i]
      /\ \A i \in 1 .. n : (w \o a)[Len(w) + i] = a[i]
  BY <1>1
<1> QED BY <1>1, <1>2, <1>3, Zenon DEF a, r

(* What OpenInv says of a stream whose header is being written.            *)
LEMMA HeaderLeft ==
  ASSUME IInv, opener.at = "header"
  PROVE  /\ ending = "open" /\ opener.session \in Sessions
         /\ Header \in Seq(Byte) /\ Len(Header) \in Nat
         /\ Len(opener.left) >= 1 /\ Len(wire) + Len(opener.left) = Len(Header)
         /\ \A i \in 1 .. Len(wire) : wire[i] = Header[i]
         /\ \A i \in 1 .. Len(opener.left) : opener.left[i] = Header[Len(wire) + i]
<1>1. wire \in Seq(Byte) /\ kind \in {"uni", "bi"} BY DEF IInv, TypeOK, WriterType
<1>2. /\ ending = "open" /\ opener.session \in Sessions
      /\ Len(opener.left) >= 1 /\ Len(wire) + Len(opener.left) = Len(Header)
      /\ \A i \in 1 .. Len(opener.left) : opener.left[i] = Header[Len(wire) + i]
      /\ \A i \in 1 .. Len(wire) : i <= Len(Header) => wire[i] = Header[i]
      /\ Len(wire) < Len(Header)
  BY DEF IInv, OpenInv
<1>3. Header \in Seq(Byte) /\ Len(Header) \in Nat BY <1>1, <1>2, HeaderReadBack DEF Header
<1>4. \A i \in 1 .. Len(wire) : i <= Len(Header) BY <1>1, <1>2, <1>3
<1> QED BY <1>2, <1>3, <1>4

(* OpenUni and OpenBi begin on a stream nothing has happened on.           *)
LEMMA Opens ==
  ASSUME IInv, NEW k \in {"uni", "bi"}, NEW s \in Sessions, Open(k, s)
  PROVE  IInv'
<1> DEFINE h == StreamHeader(k, s)
<1>1. /\ wire = <<>> /\ ending = "open" /\ kind' = k
      /\ opener' = [at |-> "header", session |-> s, left |-> h]
      /\ wire' = wire /\ ending' = ending /\ conn_error' = conn_error
  BY DEF Open
<1>2. /\ UNCHANGED <<pos, received, cuts, eos, expected, enabled, ty, id, phase, got, told>>
      /\ response' = response
  BY DEF Open, OnlyOpener, bytes_in, buf, negotiation, accepted, reading
<1>3. phase = "queued" /\ ty = None /\ id = None /\ expected = None
  BY <1>1 DEF IInv, FreshInv
<1>4. h \in Seq(Byte) /\ Len(h) \in Nat /\ Len(h) >= 2
  <2>1. <<>> \in Seq(Byte) /\ Len(<<>>) = 0 OBVIOUS
  <2>2. \A i \in 1 .. Len(<<>>) : i <= Len(h) => <<>>[i] = h[i] BY <2>1
  <2> QED BY <2>1, <2>2, HeaderReadBack
<1> HIDE DEF h
<1>5. wire \in Seq(Byte) /\ Len(wire) = 0 /\ pos = 0 /\ received = 0
  BY <1>1 DEF IInv, TypeOK, BufferType
<1>6. conn_error # "H3_INTERNAL_ERROR" BY <1>3 DEF IInv, OnlyStaleLengthsFail
<1>7. TypeOK'
  <2>1. TypeOK BY DEF IInv
  <2>2. WriterType' BY <1>1, <1>4, <1>5 DEF WriterType
  <2>3. BufferType' BY <1>1, <1>2, <2>1 DEF TypeOK, BufferType
  <2>4. IdType' /\ ReaderType' /\ FlagType' BY <1>2, <2>1, ReaderSame
  <2>5. SharedType' BY <1>1, <1>2, <2>1, Zenon DEF TypeOK, SharedType
  <2> QED BY <2>2, <2>3, <2>4, <2>5, Zenon DEF TypeOK
<1>8. OpenInv'
  <2>1. Header' = h BY <1>1 DEF Header, h
  <2>2. opener'.at = "header" /\ opener'.session = s /\ opener'.left = h BY <1>1
  <2>3. Len(wire') = 0 /\ ending' = "open" BY <1>1, <1>5
  <2> QED BY <1>4, <2>1, <2>2, <2>3 DEF OpenInv
<1>9. FreshInv' /\ EosInv' BY <1>1, <1>2, <1>3 DEF IInv, FreshInv, EosInv
<1>10. UniInv' BY <1>2, <1>3, <1>5 DEF UniInv
<1>11. BiInv'
  <2>1. FramesFrom(wire')[0] = FramesOf(wire') BY Zenon DEF FramesOf
  <2> QED BY <1>2, <1>3, <1>5, <2>1 DEF BiInv
<1>12. ErrorInv' /\ OnlyStaleLengthsFail'
  BY <1>1, <1>2, <1>3, <1>6 DEF ErrorInv, OnlyStaleLengthsFail
<1>13. ReaderInv' /\ ResolvedIsOpened' /\ ReadsAreExact'
  BY <1>2, <1>3 DEF IInv, ReaderInv, ResolvedIsOpened, ReadsAreExact
<1> QED BY <1>7, <1>8, <1>9, <1>10, <1>11, <1>12, <1>13 DEF IInv

(* PollSend: the stream is open once the header is whole, and has a part   *)
(* of the header before.                                                   *)
LEMMA SendsHeader ==
  ASSUME IInv, NEW n \in Nat, n # 0, PollSend(n)
  PROVE  IInv'
<1> DEFINE l == opener.left
           v == wire \o SubSeq(l, 1, n)
           r == SubSeq(l, n + 1, Len(l))
<1>1. /\ opener.at = "header" /\ n <= Len(l) /\ wire' = v
      /\ opener' = IF n < Len(l) THEN [opener EXCEPT !.left = r]
                   ELSE [opener EXCEPT !.left = Data, !.at = "open"]
      /\ ending' = ending /\ kind' = kind /\ conn_error' = conn_error
  BY DEF PollSend
<1>2. /\ UNCHANGED <<pos, received, cuts, eos, expected, enabled, ty, id, phase, got, told>>
      /\ response' = response
  BY DEF PollSend, OnlyOpener, bytes_in, buf, negotiation, accepted, reading
<1>3. /\ wire \in Seq(Byte) /\ kind \in {"uni", "bi"} /\ l \in Seq(Byte)
      /\ opener \in [at : {"none", "header", "open", "failed", "dropped"},
                     session : Sessions \cup {None}, left : Seq(Byte)]
  BY DEF IInv, TypeOK, WriterType
<1>4. /\ ending = "open" /\ opener.session \in Sessions
      /\ Header \in Seq(Byte) /\ Len(Header) \in Nat
      /\ Len(l) >= 1 /\ Len(wire) + Len(l) = Len(Header)
      /\ \A i \in 1 .. Len(wire) : wire[i] = Header[i]
      /\ \A i \in 1 .. Len(l) : l[i] = Header[Len(wire) + i]
  BY <1>1, HeaderLeft
<1> HIDE DEF l
<1>5. /\ v \in Seq(Byte) /\ Len(v) = Len(wire) + n
      /\ \A i \in 1 .. Len(wire) : v[i] = wire[i]
      /\ \A i \in 1 .. n : v[Len(wire) + i] = l[i]
      /\ r \in Seq(Byte) /\ Len(r) = Len(l) - n
      /\ \A i \in 1 .. (Len(l) - n) : r[i] = l[n + i]
  <2>1. l \in Seq(Byte) /\ n <= Len(l) /\ wire \in Seq(Byte) BY <1>1, <1>3
  <2>2. /\ v \in Seq(Byte) /\ Len(v) = Len(wire) + n
        /\ \A i \in 1 .. Len(wire) : v[i] = wire[i]
        /\ \A i \in 1 .. n : v[Len(wire) + i] = l[i]
    BY ONLY <2>1, n \in Nat, PartWritten
  <2>3. r \in Seq(Byte) /\ Len(r) = Len(l) - n /\ \A i \in 1 .. (Len(l) - n) : r[i] = l[n + i]
    BY ONLY <2>1, n \in Nat, PartWritten
  <2> QED BY <2>2, <2>3, Zenon
<1> HIDE DEF v, r
<1>6. Len(wire) \in Nat /\ Len(l) \in Nat BY <1>3
<1>7. Grows BY <1>1, <1>5, <1>6 DEF Grows
<1>8. /\ opener'.session = opener.session /\ opener'.at \in {"header", "open"}
      /\ n < Len(l) => opener'.at = "header" /\ opener'.left = r
      /\ ~(n < Len(l)) => opener'.at = "open" /\ opener'.left = Data
      /\ opener' \in [at : {"none", "header", "open", "failed", "dropped"},
                      session : Sessions \cup {None}, left : Seq(Byte)]
  <2>1. CASE n < Len(l)
    <3>1. opener' = [opener EXCEPT !.left = r] BY <1>1, <2>1, Zenon
    <3> QED BY <1>1, <1>3, <1>5, <2>1, <3>1
  <2>2. CASE ~(n < Len(l))
    <3>1. opener' = [opener EXCEPT !.left = Data, !.at = "open"] BY <1>1, <2>2, Zenon
    <3> QED BY <1>3, <2>2, <3>1, DataAssumption
  <2> QED BY <2>1, <2>2
<1>9. WriterType' BY <1>1, <1>3, <1>4, <1>5, <1>8 DEF WriterType
<1>10. Header' = Header BY <1>1, <1>8 DEF Header
<1>11. \A i \in 1 .. Len(v) : v[i] = Header[i]
  <2> TAKE i \in 1 .. Len(v)
  <2>1. CASE i <= Len(wire) BY <1>4, <1>5, <1>6, <2>1
  <2>2. CASE ~(i <= Len(wire))
    <3> DEFINE j == i - Len(wire)
    <3>1. j \in 1 .. n /\ j \in 1 .. Len(l) /\ Len(wire) + j = i BY <1>1, <1>5, <1>6, <2>2
    <3> HIDE DEF j
    <3> QED BY <1>4, <1>5, <3>1
  <2> QED BY <2>1, <2>2
<1>12. OpenInv'
  <2>1. CASE n < Len(l)
    <3>1. opener'.at = "header" /\ opener'.left = r BY <1>8, <2>1
    <3>2. /\ Len(r) >= 1 /\ Len(v) + Len(r) = Len(Header) /\ Len(v) < Len(Header)
      BY <1>4, <1>5, <1>6, <2>1
    <3>3. \A i \in 1 .. Len(r) : r[i] = Header[Len(v) + i]
      <4> TAKE i \in 1 .. Len(r)
      <4>1. n + i \in 1 .. Len(l) /\ i \in 1 .. (Len(l) - n) BY <1>5, <1>6, <2>1
      <4>2. Len(wire) + (n + i) = Len(v) + i BY <1>5, <1>6
      <4>3. r[i] = Header[Len(wire) + (n + i)] BY <1>4, <1>5, <4>1, Zenon
      <4> QED BY <4>2, <4>3
    <3> QED BY <1>1, <1>4, <1>8, <1>10, <1>11, <3>1, <3>2, <3>3 DEF OpenInv
  <2>2. CASE ~(n < Len(l))
    <3>1. opener'.at = "open" BY <1>8, <2>2
    <3>2. Len(v) >= Len(Header) BY <1>1, <1>4, <1>5, <1>6, <2>2
    <3> QED BY <1>1, <1>4, <1>8, <1>10, <1>11, <3>1, <3>2 DEF OpenInv
  <2> QED BY <2>1, <2>2
<1>13. SharedType' BY <1>1, <1>2, Zenon DEF IInv, TypeOK, SharedType
<1> QED BY <1>1, <1>2, <1>4, <1>7, <1>8, <1>9, <1>12, <1>13, Writes

(* A step that ends the stream, or its opening, and writes nothing.        *)
LEMMA EndsWriting ==
  ASSUME IInv, opener.at \in {"header", "open"}, ending = "open",
         wire' = wire, kind' = kind, ending' \in {"fin", "reset", "lost"},
         opener.at = "open" => opener' = opener,
         opener.at = "header" => opener' \in {[opener EXCEPT !.at = "failed"],
                                              [opener EXCEPT !.at = "dropped"]},
         conn_error' = conn_error \/ SetError("remote"), OnlyOpener
  PROVE  IInv'
<1>1. /\ UNCHANGED <<pos, received, cuts, eos, expected, enabled, ty, id, phase, got, told>>
      /\ response' = response
  BY DEF OnlyOpener, bytes_in, buf, negotiation, accepted, reading
<1>2. /\ wire \in Seq(Byte) /\ kind \in {"uni", "bi"} /\ Len(wire) \in Nat
      /\ opener \in [at : {"none", "header", "open", "failed", "dropped"},
                     session : Sessions \cup {None}, left : Seq(Byte)]
  BY DEF IInv, TypeOK, WriterType
<1>3. /\ opener'.session = opener.session /\ opener'.at \in {"open", "failed", "dropped"}
      /\ opener.at = "open" <=> opener'.at = "open"
      /\ opener' \in [at : {"none", "header", "open", "failed", "dropped"},
                      session : Sessions \cup {None}, left : Seq(Byte)]
  BY <1>2
<1>4. WriterType' BY <1>2, <1>3 DEF WriterType
<1>5. OpenInv'
  <2>1. Header' = Header BY <1>3 DEF Header
  <2>2. /\ opener.session \in Sessions
        /\ \A i \in 1 .. Len(wire) : i <= Len(Header) => wire[i] = Header[i]
        /\ opener.at = "header" => Len(wire) < Len(Header)
        /\ opener.at = "open" => Len(wire) >= Len(Header)
    BY DEF IInv, OpenInv
  <2> QED BY <1>3, <2>1, <2>2 DEF OpenInv
<1>6. conn_error' \in Errors /\ conn_error' \in {"remote", conn_error}
  <2>1. conn_error \in Errors BY DEF IInv, TypeOK, SharedType
  <2> QED BY <2>1 DEF SetError, Errors
<1>7. SharedType' BY <1>1, <1>6 DEF IInv, TypeOK, SharedType
<1>8. Grows BY <1>2 DEF Grows
<1>9. conn_error' = "H3_INTERNAL_ERROR" => conn_error = "H3_INTERNAL_ERROR" BY <1>6
<1> QED BY <1>1, <1>3, <1>4, <1>5, <1>7, <1>8, <1>9, Writes

(* PollSendFails, DropOpen and CloseStream.                                *)
LEMMA Closes ==
  ASSUME IInv,
         \/ \E lost \in BOOLEAN : PollSendFails(lost)
         \/ DropOpen
         \/ \E end \in {"fin", "reset"} : CloseStream(end)
  PROVE  IInv'
<1>1. ASSUME NEW lost \in BOOLEAN, PollSendFails(lost) PROVE IInv'
  <2>1. opener.at = "header" BY <1>1 DEF PollSendFails
  <2>2. ending = "open" BY <2>1, HeaderLeft
  <2>3. /\ opener' = [opener EXCEPT !.at = "failed"] /\ wire' = wire /\ kind' = kind
        /\ ending' \in {"reset", "lost"} /\ (conn_error' = conn_error \/ SetError("remote"))
        /\ OnlyOpener
    BY <1>1, Zenon DEF PollSendFails
  <2>4. opener.at # "open" BY <2>1
  <2>5. ending' \in {"fin", "reset", "lost"} BY <2>3
  <2> QED BY <2>1, <2>2, <2>3, <2>4, <2>5, EndsWriting
<1>2. CASE DropOpen
  <2>1. opener.at = "header" BY <1>2 DEF DropOpen
  <2>2. ending = "open" BY <2>1, HeaderLeft
  <2>3. /\ opener' = [opener EXCEPT !.at = "dropped"] /\ wire' = wire /\ kind' = kind
        /\ ending' = "fin" /\ conn_error' = conn_error /\ OnlyOpener
    BY <1>2 DEF DropOpen
  <2> QED BY <2>1, <2>2, <2>3, EndsWriting
<1>3. ASSUME NEW end \in {"fin", "reset"}, CloseStream(end) PROVE IInv'
  <2>1. /\ opener.at = "open" /\ ending = "open" /\ ending' = end /\ opener' = opener
        /\ wire' = wire /\ kind' = kind /\ conn_error' = conn_error /\ OnlyOpener
    BY <1>3 DEF CloseStream
  <2> QED BY <2>1, EndsWriting
<1> QED BY <1>1, <1>2, <1>3

(* poll_write: data follows the header.                                    *)
LEMMA WritesData ==
  ASSUME IInv, NEW n \in Nat, n # 0, poll_write(n)
  PROVE  IInv'
<1> DEFINE l == opener.left
           v == wire \o SubSeq(l, 1, n)
           r == SubSeq(l, n + 1, Len(l))
<1>1. /\ opener.at = "open" /\ ending = "open" /\ n <= Len(l) /\ wire' = v
      /\ opener' = [opener EXCEPT !.left = r]
      /\ ending' = ending /\ kind' = kind /\ conn_error' = conn_error
  BY DEF poll_write
<1>2. /\ UNCHANGED <<pos, received, cuts, eos, expected, enabled, ty, id, phase, got, told>>
      /\ response' = response
  BY DEF poll_write, OnlyOpener, bytes_in, buf, negotiation, accepted, reading
<1>3. /\ wire \in Seq(Byte) /\ kind \in {"uni", "bi"} /\ l \in Seq(Byte)
      /\ opener \in [at : {"none", "header", "open", "failed", "dropped"},
                     session : Sessions \cup {None}, left : Seq(Byte)]
  BY DEF IInv, TypeOK, WriterType
<1> HIDE DEF l
<1>4. /\ v \in Seq(Byte) /\ Len(v) = Len(wire) + n
      /\ \A i \in 1 .. Len(wire) : v[i] = wire[i]
      /\ r \in Seq(Byte)
  BY <1>1, <1>3, PartWritten
<1> HIDE DEF v, r
<1>5. Len(wire) \in Nat BY <1>3
<1>6. Grows BY <1>1, <1>4, <1>5 DEF Grows
<1>7. /\ opener'.session = opener.session /\ opener'.at = "open"
      /\ opener' \in [at : {"none", "header", "open", "failed", "dropped"},
                      session : Sessions \cup {None}, left : Seq(Byte)]
  BY <1>1, <1>3, <1>4
<1>8. WriterType' BY <1>1, <1>3, <1>4, <1>7 DEF WriterType
<1>9. OpenInv'
  <2>1. Header' = Header BY <1>1, <1>7 DEF Header
  <2>2. /\ opener.session \in Sessions /\ Len(wire) >= Len(Header)
        /\ \A i \in 1 .. Len(wire) : i <= Len(Header) => wire[i] = Header[i]
    BY <1>1 DEF IInv, OpenInv
  <2>3. Len(Header) \in Nat BY <1>3, <2>2, HeaderReadBack DEF Header
  <2>4. Len(v) >= Len(Header) BY <1>4, <1>5, <2>2, <2>3
  <2>5. \A i \in 1 .. Len(v) : i <= Len(Header) => v[i] = Header[i]
    <3>1. \A i \in 1 .. Len(v) : i <= Len(Header) => i \in 1 .. Len(wire)
      BY <1>4, <1>5, <2>2, <2>3
    <3> QED BY <1>4, <2>2, <3>1
  <2> QED BY <1>1, <1>7, <2>1, <2>2, <2>4, <2>5 DEF OpenInv
<1>10. SharedType' BY <1>1, <1>2, Zenon DEF IInv, TypeOK, SharedType
<1> QED BY <1>1, <1>2, <1>6, <1>7, <1>8, <1>9, <1>10, Writes

-----------------------------------------------------------------------------
(***************************************************************************)
(* Steps of AcceptRecvStream.                                              *)
(***************************************************************************)

(* What a poll leaves alone, and what it may read of the stream.           *)
Polled ==
  /\ UNCHANGED <<wire, ending, kind, opener, enabled, got, told, response>>
  /\ received' \in received .. Len(wire)
  /\ FlagType' /\ EosInv'

(* The header is whole by the length that is announced.                    *)
Excused ==
  \/ ty' # None /\ (NeedsId(ty') => id' # None)
  \/ IdSize(wire) < TypeSize(wire) /\ Len(wire) - IdAt(wire) < TypeSize(wire)

(* The buffer after a chunk was added and something was taken.             *)
LEMMA Recut ==
  ASSUME BufferType, received' \in received .. Len(wire), wire' = wire, Len(wire) \in Nat,
         pos' \in pos .. received', expected' \in Nat \cup {None},
         cuts' = {c \in cuts \cup {received'} : c > pos'}
  PROVE  BufferType'
<1>1. pos \in Nat /\ received \in Nat /\ pos <= received /\ received <= Len(wire)
      /\ cuts \subseteq (pos + 1) .. received
  BY DEF BufferType
<1>2. pos' \in 0 .. received' /\ received' \in 0 .. Len(wire) BY <1>1
<1>3. cuts' \subseteq (pos' + 1) .. received'
  <2> SUFFICES ASSUME NEW c \in cuts' PROVE c \in (pos' + 1) .. received' OBVIOUS
  <2>1. (c \in cuts \/ c = received') /\ c > pos' OBVIOUS
  <2>2. c \in Nat /\ c <= received' BY <1>1, <1>2, <2>1
  <2>3. pos' \in Nat /\ received' \in Nat BY <1>1, <1>2
  <2>4. \A a, b, x \in Nat : x > a /\ x <= b => x \in (a + 1) .. b OBVIOUS
  <2> QED BY <2>1, <2>2, <2>3, <2>4, Zenon
<1>4. received' > pos' => received' \in cuts' OBVIOUS
<1>5. expected' \in Nat \cup {None} /\ wire' = wire OBVIOUS
<1> QED BY ONLY <1>2, <1>3, <1>4, <1>5 DEF BufferType

(* A poll that leaves the header's parts as UniInv says keeps the rest.    *)
LEMMA PollKeeps ==
  ASSUME IInv, kind = "uni", phase = "queued", Polled,
         BufferType', IdType', UniInv', FreshInv', conn_error' \in Errors,
         phase' \in {"queued", "ready", "gone", "error"},
         conn_error' = "H3_INTERNAL_ERROR" =>
           /\ ty' # None /\ NeedsId(ty') /\ IdAt(wire) < Len(wire)
           /\ IdSize(wire) > TypeSize(wire),
         phase' = "gone" /\ ending = "fin" /\ HeaderWhole(wire) => Excused
  PROVE  IInv'
<1>1. TypeOK /\ OpenInv /\ ReaderInv BY DEF IInv
<1>2. /\ wire' = wire /\ ending' = ending /\ kind' = kind /\ opener' = opener
      /\ got' = got /\ told' = told /\ response' = response
      /\ received' \in received .. Len(wire) /\ FlagType' /\ EosInv'
  BY Zenon DEF Polled
<1>3. wire \in Seq(Byte) /\ Len(wire) \in Nat /\ received \in Nat
  BY <1>1 DEF TypeOK, WriterType, BufferType
<1>4. got = <<>> /\ told = "" BY <1>1 DEF ReaderInv
<1>5. TypeOK'
  <2>1. WriterType' BY <1>1, <1>2 DEF TypeOK, WriterType
  <2>2. ReaderType'
    <3>1. phase' \in {"queued", "ready", "mine", "request", "gone", "error"} OBVIOUS
    <3>2. told' \in {"", "end", "broken"} BY <1>2, <1>4, Zenon
    <3>3. got' \in Seq(Byte) BY <1>1, <1>2, Zenon DEF TypeOK, ReaderType
    <3> QED BY <3>1, <3>2, <3>3, Zenon DEF ReaderType
  <2>3. SharedType' BY <1>1, <1>2, Zenon DEF TypeOK, SharedType
  <2> QED BY <1>2, <2>1, <2>2, <2>3, Zenon DEF TypeOK
<1>6. OpenInv' BY <1>1, <1>2 DEF OpenInv, Header
<1>7. BiInv' BY <1>2 DEF BiInv
<1>8. ReaderInv' /\ ReadsAreExact' BY <1>2, <1>4 DEF ReaderInv, ReadsAreExact
<1>9. ErrorInv' BY <1>2 DEF ErrorInv
<1>10. OnlyStaleLengthsFail' BY <1>2, Zenon DEF OnlyStaleLengthsFail, Excused
<1>11. ResolvedIsOpened'
  <2> SUFFICES ASSUME phase' = "ready" PROVE ResolvedIsOpened' BY DEF ResolvedIsOpened
  <2> DEFINE q == IdAt(wire)
             s == opener.session
             h == StreamHeader(kind, s)
  <2>1. id' # None /\ ty' # None BY <1>2, Zenon DEF UniInv
  <2>2. /\ HasVar(wire, 0, received') /\ HasVar(wire, q, received')
        /\ id' = Var(wire, q)
    BY <1>2, <2>1, Zenon DEF UniInv
  <2>3. id' = SessionOf(kind, wire) BY <2>2, Zenon DEF SessionOf
  <2>4. CASE opener.at = "none" BY <1>2, <2>3, <2>4 DEF ResolvedIsOpened
  <2>5. CASE opener.at # "none"
    <3>1. /\ s \in Sessions /\ kind \in {"uni", "bi"}
          /\ \A i \in 1 .. Len(wire) : i <= Len(h) => wire[i] = h[i]
      BY <1>1, <2>5 DEF OpenInv, Header
    <3>2. received' \in Nat /\ received' <= Len(wire) BY <1>2, <1>3
    <3>3. HasVar(wire, 0, Len(wire)) BY <1>3, <2>2, <3>2, HasVarMore
    <3>4. q \in Nat BY <1>3, <2>2, <3>2, VarType DEF IdAt
    <3>5. HasVar(wire, q, Len(wire))
      <4> HIDE DEF q
      <4> QED BY <1>3, <2>2, <3>2, <3>4, HasVarMore
    <3>6. Whole(wire, 0, Len(wire)) BY <3>3, <3>5, Zenon DEF Whole, IdAt
    <3>7. Len(h) \in Nat /\ Len(h) <= Len(wire) BY <1>3, <3>1, <3>6, HeaderReadBack
    <3>8. SessionOf(kind, wire) = s BY <1>3, <3>1, <3>7, OpenedStream
    <3>9. opener.at = "open"
      <4>1. ~(Len(wire) < Len(h)) BY <1>3, <3>7
      <4>2. opener.at \notin {"header", "failed", "dropped"}
        BY <1>1, <4>1, Zenon DEF OpenInv, Header
      <4>3. opener.at \in {"none", "header", "open", "failed", "dropped"}
        BY <1>1 DEF TypeOK, WriterType
      <4> QED BY <2>5, <4>2, <4>3
    <3> QED BY <1>2, <2>3, <3>8, <3>9 DEF ResolvedIsOpened
  <2> QED BY <2>4, <2>5
<1> QED BY <1>2, <1>5, <1>6, <1>7, <1>8, <1>9, <1>10, <1>11, Zenon DEF IInv

(* poll_next_varint has looked; it gives up on a stream that has ended.    *)
Ended == ending # "open" /\ (ending = "fin" => received' = Len(wire))
Looked == LookForVarint(FALSE) \/ (LookForVarint(TRUE) /\ Ended)

(* What it may find.                                                       *)
Found == EnoughNow /\ HasVar(wire, pos, received') /\ TakeVarint
Refused ==
  /\ EnoughNow /\ ~HasVar(wire, pos, received')
  /\ SetError("H3_INTERNAL_ERROR") /\ phase' = "error" /\ pos' = pos + 1
  /\ cuts' = {c \in cuts \cup {received'} : c > pos'}
  /\ ty' = ty /\ id' = id
Waits ==
  /\ ~EnoughNow
  /\ phase' = phase \/ (phase' = "gone" /\ Ended)
  /\ pos' = pos /\ cuts' = {c \in cuts \cup {received'} : c > pos'}
  /\ ty' = ty /\ id' = id /\ conn_error' = conn_error
LEMMA LookCases ==
  ASSUME Looked
  PROVE  expected' = WantedNow /\ (Found \/ Refused \/ Waits)
<1>1. CASE LookForVarint(FALSE) BY <1>1 DEF LookForVarint, Found, Refused, Waits
<1>2. CASE LookForVarint(TRUE) /\ Ended BY <1>2 DEF LookForVarint, Found, Refused, Waits
<1> QED BY <1>1, <1>2 DEF Looked

(* Nothing is known of the header yet.  The length that is wanted is the   *)
(* type's own, so that what is enough for it is there.                     *)
LEMMA LooksForType ==
  ASSUME IInv, Polling, Polled, Looked, ty = None
  PROVE  IInv'
<1> DEFINE n == encoded_size(wire[1])
<1>1. TypeOK /\ UniInv /\ FreshInv /\ kind = "uni" /\ phase = "queued" /\ conn_error = ""
  BY DEF IInv, Polling
<1>2. /\ wire' = wire /\ ending' = ending /\ kind' = kind /\ received' \in received .. Len(wire)
  BY DEF Polled
<1>3. /\ wire \in Seq(Byte) /\ Len(wire) \in Nat /\ received \in Nat
      /\ BufferType /\ IdType /\ expected \in Nat \cup {None}
  <2>1. WriterType /\ BufferType /\ IdType BY <1>1, Zenon DEF TypeOK
  <2>2. wire \in Seq(Byte) /\ received \in 0 .. Len(wire) /\ expected \in Nat \cup {None}
    BY <2>1, Zenon DEF WriterType, BufferType
  <2>3. Len(wire) \in Nat BY <2>2
  <2>4. received \in Nat BY <2>2, <2>3
  <2> QED BY <2>1, <2>2, <2>3, <2>4
<1>4. /\ pos = 0 /\ id = None
      /\ expected # None => received > 0 /\ expected = n
  BY <1>1 DEF UniInv
<1>5. received' \in Nat /\ received <= received' /\ received' <= Len(wire) BY <1>2, <1>3
<1>6. received' > 0 => n \in {1, 2, 4, 8}
  <2>1. received' > 0 => 1 \in 1 .. Len(wire) BY <1>3, <1>5
  <2> QED BY <1>3, <2>1, ByteAt
<1>7. None \notin Nat BY WebTransportAssumption
<1> HIDE DEF n
<1>8. /\ received' > 0 => WantedNow = n /\ WantedNow # None
      /\ ~(received' > 0) => WantedNow = None
  <2>1. pos + 1 = 1 BY <1>4
  <2>2. received' > 0 /\ expected = None => WantedNow = n
    BY <1>4, <2>1 DEF WantedNow, n
  <2>3. expected # None => WantedNow = n BY <1>4, Zenon DEF WantedNow
  <2>4. ~(received' > 0) => expected = None BY <1>3, <1>4, <1>5
  <2>5. ~(received' > 0) => WantedNow = None BY <1>4, <2>4 DEF WantedNow
  <2>6. \A m \in {1, 2, 4, 8} : m # None BY <1>7
  <2> QED BY <1>6, <2>2, <2>3, <2>5, <2>6, Zenon
<1>9. EnoughNow <=> HasVar(wire, 0, received')
  <2>1. EnoughNow <=> received' > 0 /\ received' >= n
    <3>1. EnoughNow <=> WantedNow # None /\ received' - pos >= WantedNow BY Zenon DEF EnoughNow
    <3>2. received' - pos = received'
      <4>1. \A m \in Nat : m - 0 = m OBVIOUS
      <4> QED BY <1>4, <1>5, <4>1, Zenon
    <3> QED BY <1>8, <3>1, <3>2, Zenon
  <2>2. HasVar(wire, 0, received') <=> 0 < received' /\ 0 + encoded_size(wire[0 + 1]) <= received'
    BY Zenon DEF HasVar
  <2>3. 0 + 1 = 1 OBVIOUS
  <2>4. HasVar(wire, 0, received') <=> 0 < received' /\ 0 + n <= received'
    BY <2>2, <2>3, Zenon DEF n
  <2> QED BY <1>5, <1>6, <2>1, <2>4
<1>10. expected' = WantedNow /\ (Found \/ Refused \/ Waits) BY LookCases
<1>11. ~Refused BY <1>4, <1>9, Zenon DEF Refused
<1>12. CASE Found
  <2>1. HasVar(wire, 0, received') /\ TakeVarint BY <1>4, <1>12, Zenon DEF Found
  <2> DEFINE v == Var(wire, 0)
             q == IdAt(wire)
  <2>2. /\ v \in Nat /\ q \in Nat /\ 1 <= q /\ q <= received'
    BY <1>3, <1>5, <2>1, VarType DEF IdAt
  <2>3. /\ pos' = q /\ ty' = v /\ id' = None /\ conn_error' = ""
        /\ cuts' = {c \in cuts \cup {received'} : c > pos'}
        /\ phase' = IF NeedsId(v) THEN "queued" ELSE Kept(v)
    BY <1>1, <1>4, <2>1 DEF TakeVarint, IdAt
  <2> HIDE DEF v, q
  <2>4. Kept(v) = "gone" \/ v = WEBTRANSPORT_UNI BY Zenon DEF Kept
  <2>5. phase' \in {"queued", "gone"} /\ (phase' = "queued" <=> NeedsId(v))
    BY <2>3, <2>4 DEF NeedsId
  <2>6. received' > 0 /\ expected' = n BY <1>5, <1>8, <1>10, <2>2
  <2>7. BufferType'
    <3>1. q \in 0 .. received' BY <1>5, <2>2
    <3>3. pos' \in pos .. received' BY <1>4, <2>3, <3>1, Zenon
    <3>2. expected' \in Nat \cup {None} BY <1>6, <2>6
    <3> QED BY <1>2, <1>3, <2>3, <3>2, <3>3, Recut
  <2>8. IdType' BY <2>2, <2>3 DEF IdType
  <2>9. ty' # None BY <1>7, <2>2, <2>3
  <2>10. UniInv'
    <3>1. expected' = TypeSize(wire) BY <2>6, Zenon DEF TypeSize, n
    <3>2. ty' = Var(wire, 0) /\ pos' = IdAt(wire) BY <2>3, Zenon DEF v, q
    <3>3. NeedsId(ty') <=> phase' = "queued" BY <2>3, <2>5, Zenon
    <3> QED BY <1>2, <2>1, <2>3, <2>5, <2>9, <3>1, <3>2, <3>3 DEF UniInv
  <2>11. FreshInv'
    <3>1. wire # <<>> BY <1>3, <1>5, <2>6
    <3> QED BY <1>2, <3>1 DEF FreshInv
  <2>12. phase' = "gone" => Excused BY <2>3, <2>5, <2>9 DEF Excused
  <2>13. conn_error' \in Errors /\ conn_error' # "H3_INTERNAL_ERROR" BY <2>3 DEF Errors
  <2> QED BY <1>1, <2>5, <2>7, <2>8, <2>10, <2>11, <2>12, <2>13, PollKeeps
<1>13. CASE Waits
  <2>1. /\ ~HasVar(wire, 0, received') /\ pos' = pos /\ ty' = None /\ id' = None
        /\ cuts' = {c \in cuts \cup {received'} : c > pos'} /\ conn_error' = ""
        /\ phase' = "queued" \/ (phase' = "gone" /\ Ended)
    BY <1>1, <1>4, <1>9, <1>13, Zenon DEF Waits
  <2>2. expected' \in {n, None} /\ (expected' # None => received' > 0 /\ expected' = n)
    BY <1>8, <1>10, Zenon
  <2>3. BufferType'
    <3>3. 0 \in 0 .. received' BY <1>5
    <3>1. pos' \in pos .. received' BY <1>4, <2>1, <3>3, Zenon
    <3>2. expected' \in Nat \cup {None} BY <1>6, <2>2
    <3> QED BY <1>2, <1>3, <2>1, <3>1, <3>2, Recut
  <2>4. IdType' BY <2>1 DEF IdType
  <2>5. UniInv' BY <1>2, <1>4, <2>1, <2>2 DEF UniInv, n, Ended
  <2>6. FreshInv'
    <3>1. wire = <<>> => ~(received' > 0) BY <1>3, <1>5
    <3> QED BY <1>2, <1>8, <1>10, <2>1, <3>1 DEF FreshInv, Ended
  <2>7. ~(phase' = "gone" /\ ending = "fin" /\ HeaderWhole(wire))
    BY <2>1 DEF Ended, HeaderWhole
  <2>8. conn_error' \in Errors /\ conn_error' # "H3_INTERNAL_ERROR" BY <2>1 DEF Errors
  <2>9. phase' \in {"queued", "ready", "gone", "error"} BY <2>1
  <2> QED BY <1>1, <2>3, <2>4, <2>5, <2>6, <2>7, <2>8, <2>9, PollKeeps
<1> QED BY <1>10, <1>11, <1>12, <1>13

(* The type is known and asks for an id.  The length that is wanted is the *)
(* type's, whatever the id's is: with fewer bytes the id is waited for,    *)
(* and a longer id that is not there yet is an error.                      *)
LEMMA LooksForId ==
  ASSUME IInv, Polling, Polled, Looked, ty # None
  PROVE  IInv'
<1> DEFINE n == TypeSize(wire)
           q == IdAt(wire)
<1>1. UniInv /\ kind = "uni" /\ phase = "queued" /\ conn_error = "" BY DEF IInv, Polling
<1>2. /\ wire' = wire /\ ending' = ending /\ kind' = kind /\ received' \in received .. Len(wire)
  BY DEF Polled
<1>3. /\ wire \in Seq(Byte) /\ Len(wire) \in Nat /\ received \in Nat /\ received <= Len(wire)
      /\ BufferType /\ ty \in Nat \cup {None}
  <2>1. WriterType /\ BufferType /\ IdType BY Zenon DEF IInv, TypeOK
  <2>2. wire \in Seq(Byte) /\ received \in 0 .. Len(wire) /\ ty \in Nat \cup {None}
    BY <2>1, Zenon DEF WriterType, BufferType, IdType
  <2>3. Len(wire) \in Nat BY <2>2
  <2>4. received \in Nat /\ received <= Len(wire) BY <2>2, <2>3
  <2> QED BY <2>1, <2>2, <2>3, <2>4
<1>4. /\ HasVar(wire, 0, received) /\ ty = Var(wire, 0) /\ expected = n
      /\ NeedsId(ty) /\ pos = q /\ id = None
  BY <1>1, Zenon DEF UniInv
<1>5. received' \in Nat /\ received <= received' /\ received' <= Len(wire) BY <1>2, <1>3
<1>6. q \in Nat /\ 1 <= q /\ q <= received BY <1>3, <1>4, VarType DEF IdAt
<1>7. n \in {1, 2, 4, 8}
  <2>1. 1 \in 1 .. Len(wire) BY <1>3, <1>6
  <2> QED BY <1>3, <2>1, ByteAt DEF TypeSize
<1>8. HasVar(wire, 0, received') BY <1>3, <1>4, <1>5, HasVarMore
<1>9. None \notin Nat BY WebTransportAssumption
<1> HIDE DEF n, q
<1>10. n # None /\ expected # None /\ WantedNow = n /\ (EnoughNow <=> received' - q >= n)
  <2>1. \A m \in {1, 2, 4, 8} : m # None BY <1>9
  <2>2. n # None /\ expected # None BY <1>4, <1>7, <2>1, Zenon
  <2>3. WantedNow = n BY <1>4, <2>2, Zenon DEF WantedNow
  <2> QED BY <1>4, <2>2, <2>3, Zenon DEF EnoughNow
<1>11. expected' = n /\ (Found \/ Refused \/ Waits) BY <1>10, LookCases, Zenon
<1>12. expected' \in Nat \cup {None} BY <1>7, <1>11
<1>13. wire # <<>> BY <1>3, <1>6
<1>14. FreshInv' BY <1>2, <1>13 DEF FreshInv
<1>15. CASE Found
  <2>1. HasVar(wire, q, received') /\ TakeVarint BY <1>4, <1>15, Zenon DEF Found
  <2> DEFINE v == Var(wire, q)
             e == VarEnd(wire, q)
  <2>2. v \in Nat /\ e \in Nat /\ q + 1 <= e /\ e <= received'
    BY <1>3, <1>5, <1>6, <2>1, VarType
  <2>3. /\ pos' = e /\ id' = v /\ ty' = ty /\ phase' = Kept(ty) /\ conn_error' = ""
        /\ cuts' = {c \in cuts \cup {received'} : c > pos'}
    BY <1>1, <1>4, <2>1 DEF TakeVarint
  <2> HIDE DEF v, e
  <2>4. phase' \in {"ready", "gone"} BY <2>3, Zenon DEF Kept
  <2>5. BufferType'
    <3>1. e \in q .. received' BY <1>5, <1>6, <2>2
    <3>2. pos' \in pos .. received' BY <1>4, <2>3, <3>1, Zenon
    <3> QED BY <1>2, <1>3, <1>12, <2>3, <3>2, Recut
  <2>6. IdType' BY <1>3, <2>2, <2>3 DEF IdType
  <2>7. id' # None BY <1>9, <2>2, <2>3
  <2>8. UniInv'
    <3>1. /\ expected' = TypeSize(wire) /\ HasVar(wire, IdAt(wire), received')
          /\ id' = Var(wire, IdAt(wire)) /\ pos' = VarEnd(wire, IdAt(wire))
      BY <1>11, <2>1, <2>3, Zenon DEF n, q, v, e
    <3> QED BY <1>2, <1>4, <1>8, <2>3, <2>4, <2>7, <3>1 DEF UniInv
  <2>9. Excused BY <2>3, <2>7 DEF Excused
  <2>10. conn_error' \in Errors /\ conn_error' # "H3_INTERNAL_ERROR" BY <2>3 DEF Errors
  <2>11. phase' \in {"queued", "ready", "gone", "error"} BY <2>4
  <2> QED BY <1>1, <1>14, <2>5, <2>6, <2>8, <2>9, <2>10, <2>11, PollKeeps
<1>16. CASE Refused
  <2>1. /\ received' - q >= n /\ ~HasVar(wire, q, received') /\ phase' = "error"
        /\ pos' = pos + 1 /\ cuts' = {c \in cuts \cup {received'} : c > pos'}
        /\ ty' = ty /\ id' = None /\ conn_error' = "H3_INTERNAL_ERROR"
    BY <1>1, <1>4, <1>10, <1>16, Zenon DEF Refused, SetError
  <2>2. q + 1 <= received'
    <3>1. \A a, b \in Nat, m \in {1, 2, 4, 8} : b - a >= m => a + 1 <= b OBVIOUS
    <3> QED BY <1>5, <1>6, <1>7, <2>1, <3>1, Zenon
  <2>3. q + 1 \in 1 .. Len(wire) BY <1>3, <1>5, <1>6, <2>2
  <2>4. IdSize(wire) \in {1, 2, 4, 8} BY <1>3, <2>3, ByteAt DEF IdSize, q
  <2>5. ~(q + IdSize(wire) <= received')
    <3>1. q < received' BY <1>5, <1>6, <2>2
    <3> QED BY <2>1, <3>1, Zenon DEF HasVar, IdSize, q
  <2>6. IdSize(wire) > n
    <3> DEFINE m == IdSize(wire)
    <3> HIDE DEF m
    <3>1. m \in {1, 2, 4, 8} /\ ~(q + m <= received') BY <2>4, <2>5 DEF m
    <3>2. \A a, b \in Nat, i, j \in {1, 2, 4, 8} : b - a >= i /\ ~(a + j <= b) => j > i OBVIOUS
    <3>3. m > n BY <1>5, <1>6, <1>7, <2>1, <3>1, <3>2, Zenon
    <3> QED BY <3>3 DEF m
  <2>7. BufferType'
    <3>1. q + 1 \in q .. received' BY <1>5, <1>6, <2>2
    <3>2. pos' \in pos .. received' BY <1>4, <2>1, <3>1, Zenon
    <3> QED BY <1>2, <1>3, <1>12, <2>1, <3>2, Recut
  <2>8. IdType' BY <1>3, <2>1 DEF IdType
  <2>9. UniInv' BY <1>2, <1>4, <1>8, <1>11, <2>1 DEF UniInv, n
  <2>10. IdAt(wire) < Len(wire) BY <1>3, <1>5, <1>6, <2>2 DEF q
  <2>11. ty' # None /\ NeedsId(ty') /\ IdSize(wire) > TypeSize(wire)
    BY <1>4, <2>1, <2>6, Zenon DEF n
  <2>12. /\ conn_error' \in Errors /\ phase' \in {"queued", "ready", "gone", "error"}
         /\ phase' # "gone"
    BY <2>1 DEF Errors
  <2> QED BY <1>1, <1>14, <2>7, <2>8, <2>9, <2>10, <2>11, <2>12, PollKeeps
<1>17. CASE Waits
  <2>1. /\ ~(received' - q >= n) /\ pos' = pos /\ ty' = ty /\ id' = None
        /\ cuts' = {c \in cuts \cup {received'} : c > pos'} /\ conn_error' = ""
        /\ phase' = "queued" \/ (phase' = "gone" /\ Ended)
    BY <1>1, <1>4, <1>10, <1>17, Zenon DEF Waits
  <2>2. BufferType'
    <3>1. q \in q .. received'
      <4>1. \A a, b, c \in Nat : a <= b /\ b <= c => a \in a .. c OBVIOUS
      <4> QED BY <1>3, <1>5, <1>6, <4>1, Zenon
    <3>2. pos' \in pos .. received' BY <1>4, <2>1, <3>1, Zenon
    <3> QED BY <1>2, <1>3, <1>12, <2>1, <3>2, Recut
  <2>3. IdType' BY <1>3, <2>1 DEF IdType
  <2>4. UniInv' BY <1>2, <1>4, <1>8, <1>11, <2>1 DEF UniInv, n, q, Ended
  <2>5. ASSUME phase' = "gone", ending = "fin", HeaderWhole(wire) PROVE Excused
    <3>1. received' = Len(wire) BY <2>1, <2>5 DEF Ended
    <3>2. HasVar(wire, q, Len(wire)) BY <1>4, <2>5, Zenon DEF HeaderWhole, q
    <3>3. q < Len(wire) /\ q + IdSize(wire) <= Len(wire)
      BY <3>2, Zenon DEF HasVar, IdSize, q
    <3>4. q + 1 \in 1 .. Len(wire) BY <1>3, <1>6, <3>3
    <3>5. IdSize(wire) \in {1, 2, 4, 8} BY <1>3, <3>4, ByteAt DEF IdSize, q
    <3>6. Len(wire) - q < n
      <4>1. \A a, b \in Nat, i \in {1, 2, 4, 8} : ~(b - a >= i) => b - a < i OBVIOUS
      <4> QED BY <1>3, <1>6, <1>7, <2>1, <3>1, <4>1, Zenon
    <3> DEFINE m == IdSize(wire)
    <3> HIDE DEF m
    <3>7. m \in {1, 2, 4, 8} /\ q + m <= Len(wire) BY <3>3, <3>5 DEF m
    <3>8. m < n BY <1>3, <1>6, <1>7, <3>6, <3>7
    <3> QED BY <3>6, <3>8, Zenon DEF Excused, m, n, q
  <2>6. conn_error' \in Errors /\ conn_error' # "H3_INTERNAL_ERROR" BY <2>1 DEF Errors
  <2>7. phase' \in {"queued", "ready", "gone", "error"} BY <2>1
  <2> QED BY <1>1, <1>14, <2>2, <2>3, <2>4, <2>5, <2>6, <2>7, PollKeeps
<1> QED BY <1>11, <1>15, <1>16, <1>17

(* PollTypeChunk, PollTypeEnd, PollTypeReset and PollTypeLost.             *)
LEMMA PollsType ==
  ASSUME IInv, PollType
  PROVE  IInv'
<1>1. /\ wire \in Seq(Byte) /\ Len(wire) \in Nat /\ received \in Nat /\ received <= Len(wire)
      /\ received \in received .. Len(wire)
  <2>1. wire \in Seq(Byte) /\ received \in 0 .. Len(wire)
    BY Zenon DEF IInv, TypeOK, WriterType, BufferType
  <2> QED BY <2>1
<1>2. EosInv BY DEF IInv
<1>3. enabled \in BOOLEAN /\ eos \in BOOLEAN BY Zenon DEF IInv, TypeOK, FlagType
<1>4. ASSUME Polling, Polled, Looked PROVE IInv'
  BY <1>4, LooksForType, LooksForId
<1>5. ASSUME OnlyAccept
      PROVE  UNCHANGED <<wire, ending, kind, opener, enabled, got, told, response>>
  BY <1>5 DEF OnlyAccept, stream, negotiation, reading
<1>6. ASSUME NEW n \in 1 .. MaxChunk, PollTypeChunk(n) PROVE IInv'
  <2>1. /\ Polling /\ ~eos /\ received' = received + n /\ received' <= Len(wire)
        /\ LookForVarint(FALSE) /\ eos' = eos /\ OnlyAccept
    BY <1>6, Zenon DEF PollTypeChunk, ReadChunk
  <2>2. UNCHANGED <<wire, ending, kind, opener, enabled, got, told, response>> BY <1>5, <2>1
  <2>3. n \in Nat BY <1>6, WebTransportAssumption
  <2>4. received' \in received .. Len(wire) BY <1>1, <2>1, <2>3
  <2>5. FlagType' BY <1>3, <2>1, <2>2, Zenon DEF FlagType
  <2>6. EosInv' BY <2>1, Zenon DEF EosInv
  <2>7. Polled BY <2>2, <2>4, <2>5, <2>6 DEF Polled
  <2> QED BY <1>4, <2>1, <2>7 DEF Looked
<1>7. CASE PollTypeEnd
  <2>1. /\ Polling /\ AtEnd /\ eos' = TRUE /\ received' = received
        /\ LookForVarint(TRUE) /\ OnlyAccept
    BY <1>7, Zenon DEF PollTypeEnd
  <2>2. UNCHANGED <<wire, ending, kind, opener, enabled, got, told, response>> BY <1>5, <2>1
  <2>3. received = Len(wire) /\ ending = "fin" BY <1>2, <2>1, Zenon DEF AtEnd, EosInv
  <2>4. received' \in received .. Len(wire) BY <1>1, <2>1, Zenon
  <2>5. FlagType' BY <1>3, <2>1, <2>2, Zenon DEF FlagType
  <2>6. EosInv' BY <2>1, <2>2, <2>3 DEF EosInv
  <2>7. Polled BY <2>2, <2>4, <2>5, <2>6 DEF Polled
  <2>8. Ended BY <2>1, <2>3 DEF Ended
  <2> QED BY <1>4, <2>1, <2>7, <2>8 DEF Looked
<1>8. CASE PollTypeReset
  <2>1. /\ Polling /\ ending = "reset" /\ eos' = eos /\ received' = received
        /\ LookForVarint(TRUE) /\ OnlyAccept
    BY <1>8, Zenon DEF PollTypeReset
  <2>2. UNCHANGED <<wire, ending, kind, opener, enabled, got, told, response>> BY <1>5, <2>1
  <2>3. received' \in received .. Len(wire) BY <1>1, <2>1, Zenon
  <2>4. FlagType' BY <1>3, <2>1, <2>2, Zenon DEF FlagType
  <2>5. EosInv' BY <1>2, <2>1, <2>2, Zenon DEF EosInv
  <2>6. Polled BY <2>2, <2>3, <2>4, <2>5 DEF Polled
  <2>7. Ended BY <2>1 DEF Ended
  <2> QED BY <1>4, <2>1, <2>6, <2>7 DEF Looked
<1>9. CASE PollTypeLost
  <2>1. /\ kind = "uni" /\ phase = "queued" /\ conn_error = "" /\ ending = "lost"
        /\ conn_error' = "remote" /\ phase' = "error"
        /\ UNCHANGED <<ty, id, pos, received, cuts, eos, expected>> /\ OnlyAccept
    BY <1>9 DEF PollTypeLost, Polling, SetError, buf
  <2>2. UNCHANGED <<wire, ending, kind, opener, enabled, got, told, response>> BY <1>5, <2>1
  <2>3. received' \in received .. Len(wire) BY <1>1, <2>1, Zenon
  <2>4. FlagType' BY <1>3, <2>1, <2>2, Zenon DEF FlagType
  <2>5. EosInv' BY <1>2, <2>1, <2>2, Zenon DEF EosInv
  <2>6. Polled BY <2>2, <2>3, <2>4, <2>5 DEF Polled
  <2>7. BufferType' BY <2>1, <2>2 DEF IInv, TypeOK, BufferType
  <2>8. IdType' BY <2>1, Zenon DEF IInv, TypeOK, IdType
  <2>9. FreshInv' BY <2>1, <2>2 DEF FreshInv
  <2>10. UniInv'
    <3>1. UniInv BY DEF IInv
    <3> QED BY <2>1, <2>2, <3>1 DEF UniInv, TypeSize, IdAt
  <2>11. /\ conn_error' \in Errors /\ conn_error' # "H3_INTERNAL_ERROR"
         /\ phase' \in {"queued", "ready", "gone", "error"} /\ phase' # "gone"
    BY <2>1 DEF Errors
  <2> QED BY <2>1, <2>6, <2>7, <2>8, <2>9, <2>10, <2>11, PollKeeps
<1> QED BY <1>6, <1>7, <1>8, <1>9 DEF PollType

(* AcceptUni hands over a stream that nothing was read of.                 *)
LEMMA Accepts ==
  ASSUME IInv, AcceptUni
  PROVE  IInv'
<1>1. /\ kind = "uni" /\ phase = "ready" /\ phase' = "mine" /\ conn_error' = conn_error
      /\ UNCHANGED <<wire, ending, kind, opener, enabled, pos, received, cuts, eos, expected,
                     ty, id, got, told, response>>
  BY DEF AcceptUni, stream, bytes_in, buf, negotiation, reading
<1>2. /\ wire' = wire /\ ending' = ending /\ kind' = kind /\ opener' = opener
      /\ enabled' = enabled /\ pos' = pos /\ received' = received /\ cuts' = cuts
      /\ eos' = eos /\ expected' = expected /\ ty' = ty /\ id' = id /\ got' = got
      /\ told' = told /\ response' = response
  BY <1>1
<1>3. got = <<>> /\ told = "" BY <1>1 DEF IInv, ReaderInv
<1>4. TypeOK'
  <2>1. WriterType' BY <1>2 DEF IInv, TypeOK, WriterType
  <2>2. BufferType' BY <1>2 DEF IInv, TypeOK, BufferType
  <2>3. IdType' BY <1>2, Zenon DEF IInv, TypeOK, IdType
  <2>4. ReaderType'
    <3>1. phase' \in {"queued", "ready", "mine", "request", "gone", "error"} BY <1>1
    <3>2. got' \in Seq(Byte) /\ told' \in {"", "end", "broken"}
      BY <1>2, Zenon DEF IInv, TypeOK, ReaderType
    <3> QED BY <3>1, <3>2, Zenon DEF ReaderType
  <2>5. FlagType' BY <1>2, Zenon DEF IInv, TypeOK, FlagType
  <2>6. SharedType'
    <3>1. SharedType /\ conn_error' = conn_error BY <1>1, Zenon DEF IInv, TypeOK
    <3> QED BY <1>2, <3>1, Zenon DEF SharedType
  <2> QED BY <2>1, <2>2, <2>3, <2>4, <2>5, <2>6, Zenon DEF TypeOK
<1>5. OpenInv' BY <1>2 DEF IInv, OpenInv, Header
<1>6. wire # <<>> \/ ending # "open" BY <1>1 DEF IInv, FreshInv
<1>7. FreshInv' /\ EosInv' BY <1>2, <1>6 DEF IInv, FreshInv, EosInv
<1>8. UniInv'
  <2>1. UniInv BY DEF IInv
  <2> QED BY <1>1, <1>2, <2>1 DEF UniInv, TypeSize, IdAt
<1>9. BiInv' BY <1>1, <1>2 DEF BiInv
<1>10. ErrorInv' /\ OnlyStaleLengthsFail'
  <2>1. ErrorInv /\ OnlyStaleLengthsFail BY DEF IInv
  <2> QED BY <1>1, <1>2, <2>1 DEF ErrorInv, OnlyStaleLengthsFail
<1>11. pos = DataStart(kind, wire) /\ pos \in Nat
  BY <1>1 DEF IInv, UniInv, DataStart, TypeOK, BufferType
<1>12. ResolvedIsOpened'
  <2>1. ResolvedIsOpened BY DEF IInv
  <2> QED BY <1>1, <1>2, <2>1 DEF ResolvedIsOpened
<1>13. ReaderInv' BY <1>1, <1>2, <1>11 DEF ReaderInv
<1>14. ReadsAreExact'
  <2>1. SubSeq(wire, pos + 1, pos) = <<>> /\ pos + Len(<<>>) = pos
    BY <1>11 DEF IInv, TypeOK, WriterType
  <2> QED BY <1>1, <1>2, <1>3, <1>11, <2>1 DEF ReadsAreExact
<1> QED BY <1>4, <1>5, <1>7, <1>8, <1>9, <1>10, <1>12, <1>13, <1>14 DEF IInv

-----------------------------------------------------------------------------
(***************************************************************************)
(* Steps of BiStreamResolver.                                              *)
(***************************************************************************)

(* No error of AcceptRecvStream comes from here.                           *)
LEMMA NoStaleLength ==
  ASSUME IInv, kind = "bi"
  PROVE  conn_error \in Errors /\ conn_error # "H3_INTERNAL_ERROR"
<1>1. conn_error \in Errors BY Zenon DEF IInv, TypeOK, SharedType
<1>2. conn_error # "H3_INTERNAL_ERROR" BY DEF IInv, ErrorInv
<1> QED BY <1>1, <1>2

(* A step of the resolver that leaves its position among the frames, or    *)
(* hands over the stream of the session it names, keeps the rest.          *)
LEMMA ResolveKeeps ==
  ASSUME IInv, Resolving, Polled, BufferType', IdType', FreshInv', conn_error' \in Errors,
         conn_error' # "H3_INTERNAL_ERROR",
         phase' \in {"queued", "mine", "request", "gone", "error"},
         phase' = "queued" => /\ FramesFrom(wire)[pos'] = FramesOf(wire)
                              /\ opener.at # "none" => pos' = 0,
         phase' = "mine" => /\ id' = SessionOf(kind, wire) /\ pos' = DataStart(kind, wire)
                            /\ opener.at \in {"none", "open"}
                            /\ opener.at = "open" => id' = opener.session
  PROVE  IInv'
<1>1. TypeOK /\ OpenInv /\ ReaderInv /\ kind = "bi" /\ phase = "queued" BY DEF IInv, Resolving
<1>2. /\ wire' = wire /\ ending' = ending /\ kind' = kind /\ opener' = opener
      /\ got' = got /\ told' = told /\ response' = response
      /\ received' \in received .. Len(wire) /\ FlagType' /\ EosInv'
  BY Zenon DEF Polled
<1>3. got = <<>> /\ told = "" BY <1>1 DEF ReaderInv
<1>4. TypeOK'
  <2>1. WriterType' BY <1>1, <1>2 DEF TypeOK, WriterType
  <2>2. ReaderType'
    <3>1. phase' \in {"queued", "ready", "mine", "request", "gone", "error"} OBVIOUS
    <3>2. told' \in {"", "end", "broken"} BY <1>2, <1>3, Zenon
    <3>3. got' \in Seq(Byte) BY <1>1, <1>2, Zenon DEF TypeOK, ReaderType
    <3> QED BY <3>1, <3>2, <3>3, Zenon DEF ReaderType
  <2>3. SharedType' BY <1>1, <1>2, Zenon DEF TypeOK, SharedType
  <2> QED BY <1>2, <2>1, <2>2, <2>3, Zenon DEF TypeOK
<1>5. OpenInv' BY <1>1, <1>2 DEF OpenInv, Header
<1>6. kind' = "bi" /\ kind' # "uni" BY <1>1, <1>2
<1>7. UniInv' BY <1>6 DEF UniInv
<1>8. BiInv'
  <2>1. phase' # "ready" OBVIOUS
  <2> QED BY <1>2, <2>1, Zenon DEF BiInv
<1>9. ErrorInv' /\ OnlyStaleLengthsFail' BY <1>6, Zenon DEF ErrorInv, OnlyStaleLengthsFail
<1>10. ResolvedIsOpened'
  <2>1. phase' # "ready" OBVIOUS
  <2>2. phase' \in {"ready", "mine"} => phase' = "mine" BY <2>1
  <2> QED BY <1>2, <2>2, Zenon DEF ResolvedIsOpened
<1>11. ASSUME phase' = "mine" PROVE ReaderInv' /\ ReadsAreExact'
  <2>1. pos' \in Nat /\ wire \in Seq(Byte)
    <3>1. wire \in Seq(Byte) /\ pos' \in 0 .. received' BY <1>1, Zenon DEF TypeOK, WriterType, BufferType
    <3> QED BY <3>1
  <2>2. pos' = DataStart(kind, wire) BY <1>11
  <2>3. \A n \in Nat : n >= n /\ n + Len(<<>>) = n /\ SubSeq(wire, n + 1, n) = <<>> BY <2>1
  <2>4. /\ got' = <<>> /\ told' = "" /\ pos' >= pos' /\ pos' + Len(<<>>) = pos'
        /\ SubSeq(wire, pos' + 1, pos') = <<>>
    BY <1>2, <1>3, <2>1, <2>3, Zenon
  <2>5. ReaderInv' BY <1>2, <1>11, <2>1, <2>2, <2>4, Zenon DEF ReaderInv
  <2>6. told' # "end" BY <2>4
  <2>7. ReadsAreExact' BY <1>2, <2>2, <2>4, <2>6, Zenon DEF ReadsAreExact
  <2> QED BY <2>5, <2>7
<1>12. ASSUME phase' # "mine" PROVE ReaderInv' /\ ReadsAreExact'
  BY <1>2, <1>3, <1>12, Zenon DEF ReaderInv, ReadsAreExact
<1> QED BY <1>2, <1>4, <1>5, <1>7, <1>8, <1>9, <1>10, <1>11, <1>12, Zenon DEF IInv

(* What the resolver works on.                                             *)
LEMMA ResolverBuffer ==
  ASSUME IInv, Resolving
  PROVE  /\ wire \in Seq(Byte) /\ Len(wire) \in Nat /\ pos \in Nat /\ received \in Nat
         /\ pos <= received /\ received <= Len(wire)
         /\ received \in pos .. Len(wire) /\ pos \in 0 .. Len(wire)
         /\ received \in received .. Len(wire)
         /\ cuts \subseteq (pos + 1) .. received /\ (received > pos => received \in cuts)
         /\ expected \in Nat \cup {None} /\ ty \in Nat \cup {None} /\ id \in Nat \cup {None}
         /\ kind = "bi" /\ phase = "queued"
         /\ FramesFrom(wire)[pos] = FramesOf(wire) /\ (opener.at # "none" => pos = 0)
<1>1. WriterType /\ BufferType /\ IdType BY Zenon DEF IInv, TypeOK
<1>2. wire \in Seq(Byte) BY <1>1 DEF WriterType
<1>3. /\ pos \in 0 .. received /\ received \in 0 .. Len(wire) /\ cuts \subseteq (pos + 1) .. received
      /\ (received > pos => received \in cuts) /\ expected \in Nat \cup {None}
  BY <1>1, Zenon DEF BufferType
<1>4. ty \in Nat \cup {None} /\ id \in Nat \cup {None} BY <1>1, Zenon DEF IdType
<1>5. kind = "bi" /\ phase = "queued" BY DEF Resolving
<1>6. FramesFrom(wire)[pos] = FramesOf(wire) /\ (opener.at # "none" => pos = 0)
  BY <1>5, Zenon DEF IInv, BiInv
<1>7. Len(wire) \in Nat BY <1>2
<1>8. /\ pos \in Nat /\ received \in Nat /\ pos <= received /\ received <= Len(wire)
      /\ received \in pos .. Len(wire) /\ pos \in 0 .. Len(wire)
      /\ received \in received .. Len(wire)
  BY <1>3, <1>7
<1> QED BY <1>2, <1>3, <1>4, <1>5, <1>6, <1>7, <1>8, Zenon

(* The buffer after something was taken from it.                           *)
LEMMA Consumes ==
  ASSUME BufferType, Len(wire) \in Nat, wire' = wire, received' = received,
         NEW e \in pos .. received, advance(e), expected' \in Nat \cup {None}
  PROVE  BufferType' /\ pos' = e
<1>1. pos' = e /\ cuts' = {c \in cuts : c > e} BY DEF advance
<1>2. pos \in Nat /\ received \in Nat /\ pos <= received /\ received <= Len(wire)
      /\ cuts \subseteq (pos + 1) .. received /\ (received > pos => received \in cuts)
  BY DEF BufferType
<1>3. e \in Nat /\ pos <= e /\ e <= received BY <1>2
<1>4. \A c \in cuts' : c \in (e + 1) .. received
  <2> SUFFICES ASSUME NEW c \in cuts' PROVE c \in (e + 1) .. received OBVIOUS
  <2>1. c \in cuts /\ c > e BY <1>1
  <2>2. c \in Nat /\ c <= received BY <1>2, <2>1
  <2>3. \A a, b, x \in Nat : x > a /\ x <= b => x \in (a + 1) .. b OBVIOUS
  <2> QED BY <1>2, <1>3, <2>1, <2>2, <2>3, Zenon
<1>5. received > e => received \in cuts'
  <2>1. received > e => received > pos BY <1>2, <1>3
  <2> QED BY <1>1, <1>2, <2>1
<1>6. cuts' \subseteq (pos' + 1) .. received' BY <1>1, <1>4, Zenon
<1>7. pos' \in 0 .. received' /\ received' \in 0 .. Len(wire')
  <2>1. e \in 0 .. received /\ received \in 0 .. Len(wire) BY <1>2, <1>3
  <2> QED BY <1>1, <2>1, Zenon
<1>8. received' > pos' => received' \in cuts' BY <1>1, <1>5, Zenon
<1> QED BY <1>1, <1>6, <1>7, <1>8, Zenon DEF BufferType

(* A header of h3's own is the first frame of its stream, and it is there  *)
(* once it is decoded.                                                     *)
LEMMA OwnHeader ==
  ASSUME IInv, Resolving, opener.at # "none", Whole(wire, 0, received)
  PROVE  /\ opener.at = "open" /\ SessionOf(kind, wire) = opener.session
         /\ Var(wire, 0) = WEBTRANSPORT_BI_STREAM
<1> DEFINE s == opener.session
           h == StreamHeader(kind, s)
           q == VarEnd(wire, 0)
<1>1. TypeOK /\ OpenInv /\ kind = "bi" /\ kind # "uni" BY DEF IInv, Resolving
<1>2. /\ wire \in Seq(Byte) /\ Len(wire) \in Nat /\ received \in Nat /\ received <= Len(wire)
  BY ResolverBuffer
<1>3. /\ s \in Sessions /\ kind \in {"uni", "bi"}
      /\ \A i \in 1 .. Len(wire) : i <= Len(h) => wire[i] = h[i]
  BY <1>1 DEF OpenInv, Header
<1>4. HasVar(wire, 0, received) /\ HasVar(wire, q, received) BY Zenon DEF Whole
<1>5. HasVar(wire, 0, Len(wire)) BY <1>2, <1>4, HasVarMore
<1>6. q \in Nat BY <1>2, <1>4, VarType
<1>7. HasVar(wire, q, Len(wire))
  <2> HIDE DEF q
  <2> QED BY <1>2, <1>4, <1>6, HasVarMore
<1>8. Whole(wire, 0, Len(wire)) BY <1>5, <1>7, Zenon DEF Whole
<1>9. Len(h) \in Nat /\ Len(h) <= Len(wire) BY <1>2, <1>3, <1>8, HeaderReadBack
<1>10. Var(wire, 0) = WEBTRANSPORT_BI_STREAM
  BY <1>1, <1>2, <1>3, <1>9, HeaderReadBack
<1>11. SessionOf(kind, wire) = s BY <1>2, <1>3, <1>9, OpenedStream
<1>12. opener.at = "open"
  <2>1. ~(Len(wire) < Len(h)) BY <1>2, <1>9
  <2>2. opener.at \notin {"header", "failed", "dropped"} BY <1>1, <2>1, Zenon DEF OpenInv, Header
  <2>3. opener.at \in {"none", "header", "open", "failed", "dropped"}
    BY <1>1 DEF TypeOK, WriterType
  <2> QED BY <2>2, <2>3
<1> QED BY <1>10, <1>11, <1>12

(* FrameDecoder::decode in the resolver.                                   *)
LEMMA ResolvesFrame ==
  ASSUME IInv, ResolveFrame
  PROVE  IInv'
<1> DEFINE d == Decode(wire, pos, received)
           f == FrameAt(wire, pos)
<1>1. /\ Resolving /\ ~TooShort /\ OnlyAccept /\ received' = received /\ eos' = eos /\ ty' = ty
      /\ expected' = IF d.res = "incomplete" THEN d.min ELSE None
      /\ IF d.res \in {"frame", "unknown"} THEN advance(d.end) ELSE pos' = pos /\ cuts' = cuts
  BY DEF ResolveFrame
<1>2. \/ /\ d.res = "frame" /\ d.type = WEBTRANSPORT_BI_STREAM
         /\ phase' = "mine" /\ id' = Var(wire, d.at) /\ conn_error' = conn_error
      \/ /\ ~(d.res = "frame" /\ d.type = WEBTRANSPORT_BI_STREAM)
         /\ phase' = CASE d.res = "frame" -> "request"
                       [] d.res = "error" -> "error"
                       [] OTHER -> phase
         /\ IF d.res = "error" THEN SetError(d.code) ELSE conn_error' = conn_error
         /\ id' = id
  BY Zenon DEF ResolveFrame
<1>3. /\ wire \in Seq(Byte) /\ Len(wire) \in Nat /\ pos \in Nat /\ received \in Nat
      /\ pos <= received /\ received <= Len(wire)
      /\ received \in pos .. Len(wire) /\ pos \in 0 .. Len(wire)
      /\ received \in received .. Len(wire)
      /\ ty \in Nat \cup {None} /\ id \in Nat \cup {None}
      /\ kind = "bi" /\ phase = "queued"
      /\ FramesFrom(wire)[pos] = FramesOf(wire) /\ (opener.at # "none" => pos = 0)
  BY <1>1, ResolverBuffer
<1>4. BufferType /\ EosInv BY Zenon DEF IInv, TypeOK
<1>5. UNCHANGED <<wire, ending, kind, opener, enabled, got, told, response>>
  BY <1>1 DEF OnlyAccept, stream, negotiation, reading
<1>6. Polled
  <2>1. FlagType' BY <1>1, <1>5, Zenon DEF IInv, TypeOK, FlagType
  <2>2. EosInv' BY <1>1, <1>4, <1>5, Zenon DEF EosInv
  <2>3. received' \in received .. Len(wire) BY <1>1, <1>3, Zenon
  <2> QED BY <1>5, <2>1, <2>2, <2>3 DEF Polled
<1>7. FreshInv'
  <2>1. received - pos # 0 BY <1>1, Zenon DEF TooShort, remaining
  <2>2. wire # <<>> BY <1>3, <2>1
  <2> QED BY <1>5, <2>2 DEF FreshInv
<1>8. conn_error \in Errors /\ conn_error # "H3_INTERNAL_ERROR" BY <1>3, NoStaleLength
<1>9. wire' = wire BY <1>5
<1> HIDE DEF d, f
<1>10. CASE d.res = "incomplete"
  <2>1. /\ pos' = pos /\ cuts' = cuts /\ expected' = d.min /\ phase' = "queued" /\ id' = id
        /\ conn_error' = conn_error
    BY <1>1, <1>2, <1>3, <1>10
  <2>2. d.min \in Nat BY <1>3, <1>10, WaitIsRight DEF d
  <2>3. BufferType' BY <1>1, <1>4, <1>9, <2>1, <2>2 DEF BufferType
  <2>4. IdType' BY <1>1, <1>3, <2>1, Zenon DEF IdType
  <2>5. phase' \in {"queued", "mine", "request", "gone", "error"} /\ phase' # "mine" BY <2>1
  <2>6. /\ FramesFrom(wire)[pos'] = FramesOf(wire) /\ (opener.at # "none" => pos' = 0)
        /\ conn_error' \in Errors /\ conn_error' # "H3_INTERNAL_ERROR"
    BY <1>3, <1>8, <2>1, Zenon
  <2> QED BY <1>1, <1>6, <1>7, <2>3, <2>4, <2>5, <2>6, ResolveKeeps
<1>11. CASE d.res = "unknown"
  <2>1. /\ advance(d.end) /\ expected' = None /\ phase' = "queued" /\ id' = id
        /\ conn_error' = conn_error
    BY <1>1, <1>2, <1>3, <1>11
  <2>2. d.end \in (pos + 1) .. received /\ FramesFrom(wire)[pos] = FramesFrom(wire)[d.end]
    BY <1>3, <1>11, DecodedUnknown DEF d
  <2>3. d.end \in pos .. received BY <1>3, <2>2
  <2>4. expected' \in Nat \cup {None} BY <2>1
  <2>5. BufferType' /\ pos' = d.end BY <1>1, <1>3, <1>4, <1>9, <2>1, <2>3, <2>4, Consumes
  <2>6. opener.at = "none"
    <3> SUFFICES ASSUME opener.at # "none" PROVE FALSE OBVIOUS
    <3>1. pos = 0 BY <1>3
    <3>2. d.res # "incomplete" /\ d.res # "frame" BY <1>11
    <3>3. Whole(wire, pos, received) BY <1>3, <3>2, DecodeCases DEF d
    <3>4. Var(wire, pos) = WEBTRANSPORT_BI_STREAM BY <1>1, <3>1, <3>3, OwnHeader
    <3>5. f.type = WEBTRANSPORT_BI_STREAM BY <3>4 DEF f, FrameAt
    <3>6. d = Decoded(f.type, Unlimited, VarEnd(wire, pos), f.at)
      BY <1>3, <3>3, <3>5, DecodeCases DEF d, f
    <3>7. d.res = "frame" BY <3>6 DEF Decoded
    <3> QED BY <3>2, <3>7
  <2>7. IdType' BY <1>1, <1>3, <2>1, Zenon DEF IdType
  <2>8. phase' \in {"queued", "mine", "request", "gone", "error"} /\ phase' # "mine" BY <2>1
  <2>9. /\ FramesFrom(wire)[pos'] = FramesOf(wire) /\ (opener.at # "none" => pos' = 0)
        /\ conn_error' \in Errors /\ conn_error' # "H3_INTERNAL_ERROR"
    BY <1>3, <1>8, <2>1, <2>2, <2>5, <2>6, Zenon
  <2> QED BY <1>1, <1>6, <1>7, <2>5, <2>7, <2>8, <2>9, ResolveKeeps
<1>12. CASE d.res = "error"
  <2>1. /\ pos' = pos /\ cuts' = cuts /\ expected' = None /\ phase' = "error" /\ id' = id
        /\ SetError(d.code)
    BY <1>1, <1>2, <1>3, <1>12
  <2>2. d.code \in {"H3_FRAME_UNEXPECTED", "H3_SETTINGS_ERROR"}
    BY <1>3, <1>12, DecodedError DEF d
  <2>3. conn_error' \in Errors /\ conn_error' # "H3_INTERNAL_ERROR"
    BY <1>8, <2>1, <2>2 DEF SetError, Errors
  <2>4. BufferType' BY <1>1, <1>4, <1>9, <2>1 DEF BufferType
  <2>5. IdType' BY <1>1, <1>3, <2>1, Zenon DEF IdType
  <2>6. /\ phase' \in {"queued", "mine", "request", "gone", "error"} /\ phase' # "mine"
        /\ phase' # "queued"
    BY <2>1
  <2> QED BY <1>1, <1>6, <1>7, <2>3, <2>4, <2>5, <2>6, ResolveKeeps
<1>13. CASE d.res = "frame"
  <2>1. advance(d.end) /\ expected' = None /\ conn_error' = conn_error BY <1>1, <1>2, <1>13
  <2>2. /\ d.end \in (pos + 1) .. received /\ f.type = d.type /\ FramesFrom(wire)[pos][1] = f
    BY <1>3, <1>13, DecodedFrame DEF d, f
  <2>3. d.end \in pos .. received BY <1>3, <2>2
  <2>4. expected' \in Nat \cup {None} BY <2>1
  <2>5. BufferType' /\ pos' = d.end BY <1>1, <1>3, <1>4, <1>9, <2>1, <2>3, <2>4, Consumes
  <2>6. CASE d.type = WEBTRANSPORT_BI_STREAM
    <3>1. phase' = "mine" /\ id' = Var(wire, d.at) BY <1>2, <1>13, <2>6
    <3>2. d.res # "incomplete" BY <1>13
    <3>3. Whole(wire, pos, received) BY <1>3, <3>2, DecodeCases DEF d
    <3>4. d = Decoded(f.type, Unlimited, VarEnd(wire, pos), f.at)
      BY <1>3, <2>2, <2>6, <3>3, DecodeCases DEF d, f
    <3>5. d.at = VarEnd(wire, pos) /\ d.end = f.at BY <3>4 DEF Decoded
    <3>6. f.len = Var(wire, VarEnd(wire, pos)) BY DEF f, FrameAt
    <3>7. id' = f.len BY <3>1, <3>5, <3>6
    <3>8. FramesOf(wire)[1] = f /\ kind # "uni" BY <1>3, <2>2
    <3>9. id' = SessionOf(kind, wire) /\ pos' = DataStart(kind, wire)
      BY <2>5, <3>5, <3>7, <3>8, Zenon DEF SessionOf, DataStart
    <3>10. opener.at # "none" => opener.at = "open" /\ id' = opener.session
      BY <1>1, <1>3, <3>3, <3>9, OwnHeader
    <3>11. opener.at \in {"none", "open"} /\ (opener.at = "open" => id' = opener.session)
      BY <3>10
    <3>12. IdType'
      <4>1. HasVar(wire, pos, received) /\ HasVar(wire, VarEnd(wire, pos), received)
        BY <3>3, Zenon DEF Whole
      <4>2. Var(wire, VarEnd(wire, pos)) \in Nat BY <1>3, <4>1, HeaderType
      <4>3. id' \in Nat BY <3>6, <3>7, <4>2
      <4> QED BY <1>1, <1>3, <4>3 DEF IdType
    <3>13. phase' \in {"queued", "mine", "request", "gone", "error"} /\ phase' # "queued" BY <3>1
    <3>14. conn_error' \in Errors /\ conn_error' # "H3_INTERNAL_ERROR" BY <1>8, <2>1, Zenon
    <3> QED BY <1>1, <1>6, <1>7, <2>5, <3>9, <3>11, <3>12, <3>13, <3>14, ResolveKeeps
  <2>7. CASE d.type # WEBTRANSPORT_BI_STREAM
    <3>1. phase' = "request" /\ id' = id BY <1>2, <1>13, <2>7
    <3>2. IdType' BY <1>1, <1>3, <3>1, Zenon DEF IdType
    <3>3. /\ phase' \in {"queued", "mine", "request", "gone", "error"} /\ phase' # "mine"
          /\ phase' # "queued"
      BY <3>1
    <3>4. conn_error' \in Errors /\ conn_error' # "H3_INTERNAL_ERROR" BY <1>8, <2>1, Zenon
    <3> QED BY <1>1, <1>6, <1>7, <2>5, <3>2, <3>3, <3>4, ResolveKeeps
  <2> QED BY <2>6, <2>7
<1>14. d.res \in {"incomplete", "unknown", "error", "frame"}
  BY DEF d, Decode, DecodePayload, Incomplete, Unknown, Forbidden, InvalidSettings, Decoded
<1> QED BY <1>10, <1>11, <1>12, <1>13, <1>14

(* What the resolver's decoder refuses: a SETTINGS frame that does not      *)
(* decode is the first known frame of a stream that h3 has not opened.     *)
LEMMA ResolverRefuses ==
  ASSUME IInv, Resolving, Decode(wire, pos, received).res = "error"
  PROVE  \/ Decode(wire, pos, received).code = "H3_FRAME_UNEXPECTED"
         \/ Decode(wire, pos, received).code = "H3_SETTINGS_ERROR" /\ SettingsOnStream
<1> DEFINE d == Decode(wire, pos, received)
           f == FramesFrom(wire)[pos][1]
<1>1. /\ wire \in Seq(Byte) /\ pos \in Nat /\ received \in pos .. Len(wire)
      /\ kind = "bi" /\ FramesFrom(wire)[pos] = FramesOf(wire)
      /\ (opener.at # "none" => pos = 0)
  BY ResolverBuffer
<1>2. /\ Len(FramesOf(wire)) >= 1 /\ f = FramesOf(wire)[1]
      /\ \/ f.type = SETTINGS /\ BadSettings(wire, f.at, f.len) /\ d.code = "H3_SETTINGS_ERROR"
         \/ d.code = "H3_FRAME_UNEXPECTED"
  BY <1>1, DecodedError
<1> HIDE DEF d, f
<1>3. opener.at = "none"
  <2> SUFFICES ASSUME opener.at # "none" PROVE FALSE OBVIOUS
  <2>1. pos = 0 /\ d.res # "incomplete" BY <1>1 DEF d
  <2>2. Whole(wire, pos, received) BY <1>1, <2>1, DecodeCases DEF d
  <2>3. Var(wire, pos) = WEBTRANSPORT_BI_STREAM BY <2>1, <2>2, OwnHeader
  <2>4. FrameAt(wire, pos).type = WEBTRANSPORT_BI_STREAM BY <2>3 DEF FrameAt
  <2>5. d.res = "frame" BY <1>1, <2>2, <2>4, DecodeCases DEF d, Decoded
  <2> QED BY <2>5 DEF d
<1> QED BY <1>1, <1>2, <1>3, Zenon DEF SettingsOnStream, d

(* ResolveChunk, ResolveFrame, ResolveEnd and ResolveBroken.               *)
LEMMA Resolves ==
  ASSUME IInv, Resolve
  PROVE  IInv'
<1>1. ASSUME Resolving
      PROVE  /\ wire \in Seq(Byte) /\ Len(wire) \in Nat /\ pos \in Nat /\ received \in Nat
             /\ pos <= received /\ received <= Len(wire)
             /\ received \in received .. Len(wire)
             /\ expected \in Nat \cup {None} /\ ty \in Nat \cup {None} /\ id \in Nat \cup {None}
             /\ kind = "bi" /\ phase = "queued"
             /\ FramesFrom(wire)[pos] = FramesOf(wire) /\ (opener.at # "none" => pos = 0)
             /\ conn_error \in Errors /\ conn_error # "H3_INTERNAL_ERROR"
  BY <1>1, ResolverBuffer, NoStaleLength
<1>2. BufferType /\ EosInv /\ FreshInv /\ enabled \in BOOLEAN /\ eos \in BOOLEAN
  BY Zenon DEF IInv, TypeOK, FlagType
<1>3. ASSUME OnlyAccept
      PROVE  UNCHANGED <<wire, ending, kind, opener, enabled, got, told, response>>
  BY <1>3 DEF OnlyAccept, stream, negotiation, reading
<1>4. ASSUME NEW n \in 1 .. MaxChunk, ResolveChunk(n) PROVE IInv'
  <2>1. /\ Resolving /\ ~eos /\ received' = received + n /\ received' <= Len(wire)
        /\ cuts' = cuts \cup {received'} /\ pos' = pos /\ eos' = eos /\ expected' = expected
        /\ ty' = ty /\ id' = id /\ phase' = phase /\ conn_error' = conn_error /\ OnlyAccept
    BY <1>4 DEF ResolveChunk, ReadChunk, accepted
  <2>2. UNCHANGED <<wire, ending, kind, opener, enabled, got, told, response>> BY <1>3, <2>1
  <2>3. /\ wire \in Seq(Byte) /\ Len(wire) \in Nat /\ pos \in Nat /\ received \in Nat
        /\ pos <= received /\ received <= Len(wire)
        /\ expected \in Nat \cup {None} /\ ty \in Nat \cup {None} /\ id \in Nat \cup {None}
        /\ phase = "queued"
        /\ FramesFrom(wire)[pos] = FramesOf(wire) /\ (opener.at # "none" => pos = 0)
        /\ conn_error \in Errors /\ conn_error # "H3_INTERNAL_ERROR"
    BY <1>1, <2>1
  <2>4. n \in Nat /\ n >= 1 BY <1>4, WebTransportAssumption
  <2> DEFINE r == received'
  <2>5. r \in Nat /\ r > pos /\ r > received /\ r \in received .. Len(wire) /\ r \in pos .. Len(wire)
    <3>1. r = received + n /\ r <= Len(wire) BY <2>1
    <3> HIDE DEF r
    <3> QED BY <2>3, <2>4, <3>1
  <2>6. FlagType' BY <1>2, <2>1, <2>2, Zenon DEF FlagType
  <2>7. EosInv' BY <2>1, Zenon DEF EosInv
  <2>8. Polled BY <2>2, <2>5, <2>6, <2>7 DEF Polled
  <2>9. BufferType'
    <3>1. cuts \subseteq (pos + 1) .. received BY <1>2, Zenon DEF BufferType
    <3>2. \A c \in cuts : c \in Nat /\ c > pos BY <2>3, <3>1
    <3>3. cuts' = {c \in cuts \cup {r} : c > pos'} BY <2>1, <2>5, <3>2, Zenon
    <3>4. pos \in pos .. r
      <4> HIDE DEF r
      <4> QED BY <2>3, <2>5
    <3>5. pos' \in pos .. r BY <2>1, <3>4, Zenon
    <3>6. expected' \in Nat \cup {None} BY <2>1, <2>3, Zenon
    <3>7. wire' = wire BY <2>2
    <3> QED BY <1>2, <2>3, <2>5, <3>3, <3>5, <3>6, <3>7, Recut
  <2>10. IdType' BY <2>1, <2>3, Zenon DEF IdType
  <2>11. FreshInv'
    <3>1. wire # <<>>
      <4> HIDE DEF r
      <4> QED BY <2>3, <2>5
    <3> QED BY <2>2, <3>1 DEF FreshInv
  <2>12. phase' \in {"queued", "mine", "request", "gone", "error"} /\ phase' # "mine"
    BY <2>1, <2>3
  <2>13. /\ FramesFrom(wire)[pos'] = FramesOf(wire) /\ (opener.at # "none" => pos' = 0)
         /\ conn_error' \in Errors /\ conn_error' # "H3_INTERNAL_ERROR"
    BY <2>1, <2>3, Zenon
  <2> QED BY <2>1, <2>8, <2>9, <2>10, <2>11, <2>12, <2>13, ResolveKeeps
<1>5. ASSUME Resolving, OnlyAccept, phase' = "gone", ending # "open", FlagType', EosInv',
             UNCHANGED <<pos, received, cuts, expected, ty, id>>,
             \/ conn_error' = conn_error \/ SetError("H3_FRAME_ERROR") \/ SetError("remote")
      PROVE  IInv'
  <2>1. UNCHANGED <<wire, ending, kind, opener, enabled, got, told, response>> BY <1>3, <1>5
  <2>2. /\ received \in received .. Len(wire) /\ ty \in Nat \cup {None} /\ id \in Nat \cup {None}
        /\ conn_error \in Errors /\ conn_error # "H3_INTERNAL_ERROR"
    BY <1>1, <1>5
  <2>3. Polled BY <1>5, <2>1, <2>2 DEF Polled
  <2>4. BufferType' BY <1>2, <1>5, <2>1 DEF BufferType
  <2>5. IdType'
    <3>1. ty' = ty /\ id' = id BY <1>5
    <3> QED BY <2>2, <3>1, Zenon DEF IdType
  <2>6. FreshInv' BY <1>5, <2>1 DEF FreshInv
  <2>7. conn_error' \in Errors /\ conn_error' # "H3_INTERNAL_ERROR"
    BY <1>5, <2>2 DEF SetError, Errors
  <2>8. /\ phase' \in {"queued", "mine", "request", "gone", "error"} /\ phase' # "mine"
        /\ phase' # "queued"
    BY <1>5
  <2> QED BY <1>5, <2>3, <2>4, <2>5, <2>6, <2>7, <2>8, ResolveKeeps
<1>6. CASE ResolveEnd
  <2>1. /\ Resolving /\ AtEnd /\ eos' = TRUE /\ phase' = "gone" /\ OnlyAccept
        /\ UNCHANGED <<pos, received, cuts, expected, ty, id>>
        /\ conn_error' = conn_error \/ SetError("H3_FRAME_ERROR")
    BY <1>6 DEF ResolveEnd, buf
  <2>2. received = Len(wire) /\ ending = "fin" BY <1>2, <2>1, Zenon DEF AtEnd, EosInv
  <2>3. ending # "open" BY <2>2
  <2>4. wire' = wire /\ ending' = ending /\ enabled' = enabled BY <1>3, <2>1
  <2>5. FlagType' BY <1>2, <2>1, <2>4, Zenon DEF FlagType
  <2>6. EosInv' BY <2>1, <2>2, <2>4 DEF EosInv
  <2> QED BY <1>5, <2>1, <2>3, <2>5, <2>6
<1>7. CASE ResolveBroken
  <2>1. /\ Resolving /\ Broken /\ eos' = eos /\ phase' = "gone" /\ OnlyAccept
        /\ UNCHANGED <<pos, received, cuts, expected, ty, id>>
        /\ conn_error' = conn_error \/ SetError("remote")
    BY <1>7 DEF ResolveBroken, buf
  <2>2. ending # "open" BY <2>1 DEF Broken
  <2>3. wire' = wire /\ ending' = ending /\ enabled' = enabled /\ received' = received
    BY <1>3, <2>1
  <2>4. FlagType' BY <1>2, <2>1, <2>3, Zenon DEF FlagType
  <2>5. EosInv' BY <1>2, <2>1, <2>3, Zenon DEF EosInv
  <2> QED BY <1>5, <2>1, <2>2, <2>4, <2>5
<1> QED BY <1>4, <1>6, <1>7, ResolvesFrame DEF Resolve

-----------------------------------------------------------------------------
(***************************************************************************)
(* Steps of the application's reader.                                      *)
(***************************************************************************)

(* What the reader works on.                                               *)
LEMMA ReaderBuffer ==
  ASSUME IInv
  PROVE  /\ wire \in Seq(Byte) /\ Len(wire) \in Nat /\ pos \in Nat /\ received \in Nat
         /\ pos <= received /\ received <= Len(wire)
         /\ cuts \subseteq (pos + 1) .. received /\ (received > pos => received \in cuts)
         /\ expected \in Nat \cup {None}
<1>1. WriterType /\ BufferType BY Zenon DEF IInv, TypeOK
<1>2. wire \in Seq(Byte) BY <1>1 DEF WriterType
<1>3. Len(wire) \in Nat BY <1>2
<1>4. /\ pos \in 0 .. received /\ received \in 0 .. Len(wire) /\ cuts \subseteq (pos + 1) .. received
      /\ (received > pos => received \in cuts) /\ expected \in Nat \cup {None}
  BY <1>1, Zenon DEF BufferType
<1>5. pos \in Nat /\ received \in Nat /\ pos <= received /\ received <= Len(wire)
  BY <1>3, <1>4
<1> QED BY <1>2, <1>3, <1>4, <1>5, Zenon

(* What it is told of the end.                                             *)
Tells ==
  /\ told' \in {"", "end", "broken"}
  /\ told' = "end" => ending = "fin" /\ pos' = Len(wire)

(* A reader that is given what lies between the old position and the new   *)
(* one, and told of the end at the end, keeps the rest.                    *)
LEMMA ReadKeeps ==
  ASSUME IInv, Reading, OnlyRead, BufferType', FlagType', EosInv',
         received' \in received .. Len(wire), pos' \in pos .. Len(wire),
         Give(pos, pos'), Tells
  PROVE  IInv'
<1> DEFINE start == DataStart(kind, wire)
<1>1. /\ wire' = wire /\ ending' = ending /\ kind' = kind /\ opener' = opener
      /\ enabled' = enabled /\ expected' = expected /\ ty' = ty /\ id' = id /\ phase' = phase
      /\ response' = response /\ conn_error' = conn_error
  BY DEF OnlyRead, stream, negotiation, accepted
<1>2. phase = "mine" /\ phase' = "mine" BY <1>1 DEF Reading
<1>3. /\ wire \in Seq(Byte) /\ Len(wire) \in Nat /\ pos \in Nat /\ received \in Nat
      /\ pos <= received /\ received <= Len(wire)
  BY ReaderBuffer
<1>4. /\ start + Len(got) = pos /\ got = SubSeq(wire, start + 1, pos) /\ pos >= start
  BY <1>2, Zenon DEF IInv, ReadsAreExact, ReaderInv
<1>5. got \in Seq(Byte) /\ Len(got) \in Nat
  <2>1. got \in Seq(Byte) BY Zenon DEF IInv, TypeOK, ReaderType
  <2> QED BY <2>1
<1>6. received' \in Nat /\ received <= received' /\ received' <= Len(wire) BY <1>3
<1>7. pos' \in Nat /\ pos <= pos' /\ pos' <= Len(wire) BY <1>3
<1>8. UniInv'
  <2> SUFFICES ASSUME kind = "uni" PROVE UniInv' BY <1>1, Zenon DEF UniInv
  <2>1. UniInv BY DEF IInv
  <2>2. id # None /\ ty # None BY <1>2, <2>1, Zenon DEF UniInv
  <2>3. /\ HasVar(wire, 0, received) /\ ty = Var(wire, 0) /\ expected = TypeSize(wire)
        /\ HasVar(wire, IdAt(wire), received) /\ id = Var(wire, IdAt(wire))
    BY <2>1, <2>2, Zenon DEF UniInv
  <2>4. HasVar(wire, 0, received') BY <1>3, <1>6, <2>3, HasVarMore
  <2>5. IdAt(wire) \in Nat BY <1>3, <2>3, VarType DEF IdAt
  <2>6. HasVar(wire, IdAt(wire), received') BY <1>3, <1>6, <2>3, <2>5, HasVarMore
  <2>7. phase' # "queued" /\ phase' # "ready" /\ phase' # "gone" BY <1>2
  <2> QED BY <1>1, <2>2, <2>3, <2>4, <2>6, <2>7, Zenon DEF UniInv
<1>9. start \in Nat BY <1>2, Zenon DEF IInv, ReaderInv
<1> HIDE DEF start
<1>10. /\ start + Len(got') = pos' /\ got' = SubSeq(wire, start + 1, pos') /\ pos' >= start
       /\ got' \in Seq(Byte)
  <2>4. got' = SubSeq(wire, start + 1, pos) \o SubSeq(wire, pos + 1, pos')
    BY <1>4, Zenon DEF Give
  <2>1. got' = SubSeq(wire, start + 1, pos')
    <3>1. start <= pos BY <1>3, <1>4, <1>9
    <3> QED BY <1>3, <1>7, <1>9, <2>4, <3>1, SubSeqJoined
  <2>2. SubSeq(wire, start + 1, pos') \in Seq(Byte) /\ Len(SubSeq(wire, start + 1, pos')) = pos' - start
    <3>1. start <= pos' /\ pos' <= pos' BY <1>3, <1>4, <1>7, <1>9
    <3> QED BY <1>3, <1>7, <1>9, <3>1, SubSeqJoined
  <2>3. \A a, b, c \in Nat : a >= c /\ a <= b => c + (b - c) = b /\ b >= c OBVIOUS
  <2>5. start + (pos' - start) = pos' /\ pos' >= start BY <1>3, <1>4, <1>7, <1>9, <2>3, Zenon
  <2> QED BY <2>1, <2>2, <2>5, Zenon
<1>11. TypeOK'
  <2>1. WriterType' BY <1>1 DEF IInv, TypeOK, WriterType
  <2>2. IdType' BY <1>1, Zenon DEF IInv, TypeOK, IdType
  <2>3. ReaderType'
    <3>1. phase' \in {"queued", "ready", "mine", "request", "gone", "error"} BY <1>2
    <3> QED BY <1>10, <3>1, Zenon DEF ReaderType, Tells
  <2>4. SharedType' BY <1>1, Zenon DEF IInv, TypeOK, SharedType
  <2> QED BY <2>1, <2>2, <2>3, <2>4, Zenon DEF TypeOK
<1>12. OpenInv' BY <1>1 DEF IInv, OpenInv, Header
<1>13. FreshInv'
  <2>1. ~(wire = <<>> /\ ending = "open") BY <1>2 DEF IInv, FreshInv
  <2> QED BY <1>1, <2>1, Zenon DEF FreshInv
<1>14. BiInv' BY <1>2 DEF BiInv
<1>15. ReaderInv' BY <1>1, <1>2, <1>9, <1>10, Zenon DEF ReaderInv, start
<1>16. ErrorInv' BY <1>1, Zenon DEF IInv, ErrorInv, IdAt
<1>17. ResolvedIsOpened' BY <1>1, Zenon DEF IInv, ResolvedIsOpened
<1>18. ReadsAreExact' BY <1>1, <1>10, Zenon DEF ReadsAreExact, Tells, start
<1>19. OnlyStaleLengthsFail'
  <2>1. OnlyStaleLengthsFail BY DEF IInv
  <2> QED BY <1>1, <2>1, Zenon DEF OnlyStaleLengthsFail
<1> QED BY <1>8, <1>11, <1>12, <1>13, <1>14, <1>15, <1>16, <1>17, <1>18, <1>19, Zenon DEF IInv

(* poll_data and poll_read take a part of what is buffered.                *)
LEMMA ReadsBuffered ==
  ASSUME IInv, Reading, OnlyRead, received > pos, received' = received, eos' = eos, told' = told,
         NEW limit \in Nat, limit # 0, advance(ChunkEnd(cuts, limit)),
         Give(pos, ChunkEnd(cuts, limit))
  PROVE  IInv'
<1> DEFINE e == ChunkEnd(cuts, limit)
<1>1. /\ wire \in Seq(Byte) /\ Len(wire) \in Nat /\ pos \in Nat /\ received \in Nat
      /\ pos <= received /\ received <= Len(wire)
      /\ cuts \subseteq (pos + 1) .. received /\ received \in cuts /\ expected \in Nat \cup {None}
  BY ReaderBuffer
<1>2. cuts # {} BY <1>1
<1>3. e \in (pos + 1) .. received BY <1>1, <1>2, TakeChunk
<1> HIDE DEF e
<1>4. e \in pos .. received /\ e \in pos .. Len(wire) BY <1>1, <1>3
<1>5. wire' = wire /\ expected' = expected /\ ending' = ending /\ enabled' = enabled
  BY DEF OnlyRead, stream, negotiation
<1>6. BufferType /\ EosInv /\ FlagType /\ told = "" BY Zenon DEF IInv, TypeOK, Reading
<1>7. expected' \in Nat \cup {None} BY <1>1, <1>5, Zenon
<1>8. BufferType' /\ pos' = e BY <1>1, <1>4, <1>5, <1>6, <1>7, Consumes DEF e
<1>9. FlagType' BY <1>5, <1>6, Zenon DEF FlagType
<1>10. EosInv' BY <1>5, <1>6, Zenon DEF EosInv
<1>11. received' \in received .. Len(wire)
  <2>1. received \in received .. Len(wire) BY <1>1
  <2> QED BY <2>1
<1>12. Give(pos, pos') BY <1>8, Zenon DEF e
<1>13. Tells
  <2>1. told # "end" BY <1>6
  <2> QED BY <1>6, <2>1, Zenon DEF Tells
<1>14. pos' \in pos .. Len(wire) BY <1>4, <1>8, Zenon
<1> QED BY <1>8, <1>9, <1>10, <1>11, <1>12, <1>13, <1>14, ReadKeeps

(* Nothing is buffered: they take from a chunk that has just come.         *)
LEMMA ReadsDirectly ==
  ASSUME IInv, Reading, OnlyRead, ~(received > pos), eos' = eos, told' = told,
         NEW n \in 1 .. MaxChunk, ReadChunk(n), pos' \in (pos + 1) .. received',
         cuts' = {c \in {received'} : c > pos'}, Give(pos, pos')
  PROVE  IInv'
<1>1. /\ wire \in Seq(Byte) /\ Len(wire) \in Nat /\ pos \in Nat /\ received \in Nat
      /\ pos <= received /\ received <= Len(wire)
      /\ cuts \subseteq (pos + 1) .. received /\ expected \in Nat \cup {None}
  BY ReaderBuffer
<1>2. ~eos /\ received' = received + n /\ received' <= Len(wire) BY DEF ReadChunk
<1>3. n \in Nat /\ n >= 1 BY WebTransportAssumption
<1>4. wire' = wire /\ expected' = expected /\ ending' = ending /\ enabled' = enabled
  BY DEF OnlyRead, stream, negotiation
<1>5. BufferType /\ FlagType /\ told = "" BY Zenon DEF IInv, TypeOK, Reading
<1>6. cuts = {} BY <1>1
<1>7. cuts' = {c \in cuts \cup {received'} : c > pos'} BY <1>6, Zenon
<1>15. pos' \in (pos + 1) .. received' OBVIOUS
<1>8. received' \in received .. Len(wire) BY ONLY <1>1, <1>2, <1>3
<1>9. pos' \in pos .. received' /\ pos' \in pos .. Len(wire) BY ONLY <1>1, <1>2, <1>3, <1>15
<1>10. expected' \in Nat \cup {None} BY <1>1, <1>4, Zenon
<1>11. BufferType' BY <1>1, <1>4, <1>5, <1>7, <1>8, <1>9, <1>10, Recut
<1>12. FlagType' BY <1>4, <1>5, Zenon DEF FlagType
<1>13. EosInv' BY <1>2, Zenon DEF EosInv
<1>14. Tells
  <2>1. told # "end" BY <1>5
  <2> QED BY <1>5, <2>1, Zenon DEF Tells
<1> QED BY <1>8, <1>9, <1>11, <1>12, <1>13, <1>14, ReadKeeps

(* ReadEnd and split take nothing.                                         *)
LEMMA ReadsNothing ==
  ASSUME IInv, Reading, OnlyRead, UNCHANGED <<pos, received, cuts, got>>, FlagType', EosInv', Tells
  PROVE  IInv'
<1>1. /\ wire \in Seq(Byte) /\ Len(wire) \in Nat /\ pos \in Nat /\ received \in Nat
      /\ pos <= received /\ received <= Len(wire)
  BY ReaderBuffer
<1>2. wire' = wire /\ expected' = expected BY DEF OnlyRead, stream
<1>3. BufferType' BY <1>2 DEF IInv, TypeOK, BufferType
<1>4. received' \in received .. Len(wire) /\ pos' \in pos .. Len(wire)
  <2>1. received \in received .. Len(wire) /\ pos \in pos .. Len(wire) BY <1>1
  <2>2. received' = received /\ pos' = pos OBVIOUS
  <2> QED BY <2>1, <2>2, Zenon
<1>5. Give(pos, pos')
  <2>1. got \in Seq(Byte) BY Zenon DEF IInv, TypeOK, ReaderType
  <2>2. SubSeq(wire, pos + 1, pos) = <<>> BY <1>1
  <2>3. got \o <<>> = got BY <2>1
  <2>4. got' = got /\ pos' = pos OBVIOUS
  <2> QED BY <2>2, <2>3, <2>4, Zenon DEF Give
<1> QED BY <1>3, <1>4, <1>5, ReadKeeps

(* poll_data, poll_read, ReadEnd and split.                                *)
LEMMA Reads ==
  ASSUME IInv,
         \/ \E n \in 1 .. MaxChunk : poll_data(n)
         \/ \E n, limit \in 1 .. MaxChunk : poll_read(n, limit)
         \/ ReadEnd
         \/ split
  PROVE  IInv'
<1>1. /\ wire \in Seq(Byte) /\ Len(wire) \in Nat /\ pos \in Nat /\ received \in Nat
      /\ pos <= received /\ received <= Len(wire)
  BY ReaderBuffer
<1>2. /\ remaining > 0 <=> received > pos
      /\ remaining = 0 => received = pos
  BY <1>1 DEF remaining
<1>3. ~(received > pos) => received = pos BY <1>1
<1>4. ASSUME NEW n \in 1 .. MaxChunk, ReadChunk(n)
      PROVE  received' \in Nat /\ received' >= received + 1
  <2>1. received' = received + n BY <1>4 DEF ReadChunk
  <2>2. n \in Nat /\ n >= 1 BY <1>4, WebTransportAssumption
  <2> QED BY <1>1, <2>1, <2>2
<1>5. ASSUME NEW n \in 1 .. MaxChunk, poll_data(n) PROVE IInv'
  <2>1. Reading /\ OnlyRead /\ eos' = eos /\ told' = told BY <1>5 DEF poll_data
  <2>2. CASE received > pos
    <3>1. /\ advance(ChunkEnd(cuts, Unlimited)) /\ Give(pos, ChunkEnd(cuts, Unlimited))
          /\ received' = received
      BY <1>2, <1>5, <2>2, Zenon DEF poll_data
    <3>2. Unlimited \in Nat /\ Unlimited # 0 BY SMT DEF Unlimited
    <3> QED BY <2>1, <2>2, <3>1, <3>2, ReadsBuffered
  <2>3. CASE ~(received > pos)
    <3>1. ReadChunk(n) /\ Give(received, received') /\ pos' = received' /\ cuts' = cuts
      BY <1>2, <1>5, <2>3, Zenon DEF poll_data
    <3>2. received' \in Nat /\ received' >= received + 1 /\ received = pos
      BY <1>3, <1>4, <2>3, <3>1, Zenon
    <3>3. Give(pos, pos') BY <3>1, <3>2, Zenon
    <3>4. pos' \in (pos + 1) .. received'
      <4>1. \A a, b \in Nat : b >= a + 1 => b \in (a + 1) .. b OBVIOUS
      <4> QED BY <1>1, <3>1, <3>2, <4>1, Zenon
    <3>5. cuts = {}
      <4>1. cuts \subseteq (pos + 1) .. received BY ReaderBuffer
      <4> QED BY <1>1, <3>2, <4>1
    <3>6. cuts' = {c \in {received'} : c > pos'} BY <3>1, <3>2, <3>5
    <3> QED BY <2>1, <2>3, <3>1, <3>3, <3>4, <3>6, ReadsDirectly
  <2> QED BY <2>2, <2>3
<1>6. ASSUME NEW n \in 1 .. MaxChunk, NEW limit \in 1 .. MaxChunk, poll_read(n, limit) PROVE IInv'
  <2>1. Reading /\ OnlyRead /\ eos' = eos /\ told' = told BY <1>6 DEF poll_read
  <2>2. limit \in Nat /\ limit # 0 BY <1>6, WebTransportAssumption
  <2>3. CASE received > pos
    <3>1. /\ received' = received /\ pos' = ChunkEnd(cuts, limit)
          /\ cuts' = {c \in cuts : c > ChunkEnd(cuts, limit)} /\ Give(pos, ChunkEnd(cuts, limit))
      BY <1>2, <1>6, <2>3, Zenon DEF poll_read
    <3>2. advance(ChunkEnd(cuts, limit)) BY <3>1, Zenon DEF advance
    <3> QED BY <2>1, <2>2, <2>3, <3>1, <3>2, ReadsBuffered
  <2>4. CASE ~(received > pos)
    <3> DEFINE e == ChunkEnd({received'}, limit)
    <3>1. /\ ReadChunk(n) /\ pos' = e /\ cuts' = {c \in {received'} : c > e} /\ Give(pos, e)
      BY <1>2, <1>6, <2>4, Zenon DEF poll_read
    <3>2. received' \in Nat /\ received' >= received + 1 /\ received = pos
      BY <1>3, <1>4, <2>4, <3>1, Zenon
    <3>3. received' \in (pos + 1) .. received'
      <4>1. \A a, b \in Nat : b >= a + 1 => b \in (a + 1) .. b OBVIOUS
      <4> QED BY <1>1, <3>2, <4>1, Zenon
    <3>4. {received'} \subseteq (pos + 1) .. received' /\ {received'} # {} BY <3>3, Zenon
    <3>5. e \in (pos + 1) .. received' BY <1>1, <2>2, <3>2, <3>4, TakeChunk
    <3> HIDE DEF e
    <3>6. Give(pos, pos') /\ pos' \in (pos + 1) .. received' /\ cuts' = {c \in {received'} : c > pos'}
      BY <3>1, <3>5, Zenon
    <3> QED BY <2>1, <2>4, <3>1, <3>6, ReadsDirectly
  <2> QED BY <2>3, <2>4
<1>7. CASE ReadEnd
  <2>1. /\ Reading /\ remaining = 0 /\ OnlyRead /\ UNCHANGED <<pos, received, cuts, got>>
        /\ \/ AtEnd /\ eos' = TRUE /\ told' = "end"
           \/ told' = "broken" /\ eos' = eos
    BY <1>7 DEF ReadEnd, buf
  <2>2. EosInv /\ FlagType BY Zenon DEF IInv, TypeOK
  <2>3. /\ wire' = wire /\ ending' = ending /\ enabled' = enabled /\ received' = received /\ pos' = pos
    BY <2>1 DEF OnlyRead, stream, negotiation
  <2>4. AtEnd => received = Len(wire) /\ ending = "fin" BY <2>2, Zenon DEF AtEnd, EosInv
  <2>5. FlagType' BY <2>1, <2>2, <2>3, Zenon DEF FlagType
  <2>6. EosInv' BY <2>1, <2>2, <2>3, <2>4, Zenon DEF EosInv
  <2>7. Tells
    <3>1. received = pos BY <1>2, <2>1
    <3>2. "broken" # "end" OBVIOUS
    <3> QED BY <2>1, <2>3, <2>4, <3>1, <3>2, Zenon DEF Tells
  <2> QED BY <2>1, <2>5, <2>6, <2>7, ReadsNothing
<1>8. CASE split
  <2>1. /\ Reading /\ OnlyRead /\ UNCHANGED <<pos, received, cuts, got>> /\ eos' = eos /\ told' = told
    BY <1>8 DEF split, SplitBuffer, buf
  <2>2. EosInv /\ FlagType /\ told = "" BY <2>1, Zenon DEF IInv, TypeOK, Reading
  <2>3. wire' = wire /\ ending' = ending /\ enabled' = enabled /\ received' = received
    BY <2>1 DEF OnlyRead, stream, negotiation
  <2>4. FlagType' BY <2>1, <2>2, <2>3, Zenon DEF FlagType
  <2>5. EosInv' BY <2>1, <2>2, <2>3, Zenon DEF EosInv
  <2>6. Tells
    <3>1. told # "end" BY <2>2
    <3> QED BY <2>1, <2>2, <3>1, Zenon DEF Tells
  <2> QED BY <2>1, <2>4, <2>5, <2>6, ReadsNothing
<1> QED BY <1>5, <1>6, <1>7, <1>8

-----------------------------------------------------------------------------
(* A stream that has just begun.                                          *)
LEMMA InitInv == Init => IInv
<1> SUFFICES ASSUME Init PROVE IInv OBVIOUS
<1>1. /\ wire \in Wires /\ ending \in Endings /\ pos = 0 /\ received = 0 /\ cuts = {}
      /\ eos = FALSE /\ expected = None
  BY DEF Init, InitStream
<1>2. /\ conn_error = "" /\ enabled \in BOOLEAN /\ kind \in {"uni", "bi"} /\ response = None
      /\ opener = Unopened /\ ty = None /\ id = None /\ phase = "queued" /\ got = <<>> /\ told = ""
  BY Zenon DEF Init
<1>3. wire \in Seq(Byte) /\ ending \in {"fin", "reset", "lost", "open"}
  BY <1>1, WiresAssumption, EndingsAssumption
<1>4. opener.at = "none" BY <1>2 DEF Unopened
<1>15. <<>> \in Seq(Byte) OBVIOUS
<1>5. WriterType
  <2>1. opener \in [at : {"none", "header", "open", "failed", "dropped"},
                    session : Sessions \cup {None}, left : Seq(Byte)]
    <3>1. "none" \in {"none", "header", "open", "failed", "dropped"} /\ None \in Sessions \cup {None}
      OBVIOUS
    <3>2. [at |-> "none", session |-> None, left |-> <<>>]
            \in [at : {"none", "header", "open", "failed", "dropped"},
                session : Sessions \cup {None}, left : Seq(Byte)]
      BY <1>15, <3>1
    <3> QED BY <1>2, <3>2, Zenon DEF Unopened
  <2> QED BY <1>2, <1>3, <2>1 DEF WriterType
<1>6. BufferType
  <2>1. 0 \in 0 .. 0 /\ 0 \in 0 .. Len(wire) /\ ~(0 > 0) BY <1>3
  <2> QED BY <1>1, <2>1 DEF BufferType
<1>7. TypeOK
  <2>1. IdType BY <1>2 DEF IdType
  <2>2. ReaderType
    <3>1. phase \in {"queued", "ready", "mine", "request", "gone", "error"} BY <1>2
    <3>2. got \in Seq(Byte) BY <1>2, <1>15, Zenon
    <3> QED BY <1>2, <3>1, <3>2, Zenon DEF ReaderType
  <2>3. FlagType BY <1>1, <1>2, Zenon DEF FlagType
  <2>4. SharedType BY <1>2, Zenon DEF SharedType, Errors
  <2> QED BY <1>5, <1>6, <2>1, <2>2, <2>3, <2>4, Zenon DEF TypeOK
<1>8. OpenInv BY <1>4 DEF OpenInv
<1>9. FreshInv /\ EosInv BY <1>1, <1>2, Zenon DEF FreshInv, EosInv
<1>10. UniInv BY <1>1, <1>2 DEF UniInv
<1>11. BiInv BY <1>1, <1>2, <1>4 DEF BiInv, FramesOf
<1>12. phase \notin {"ready", "mine"} /\ phase # "gone" /\ conn_error # "H3_INTERNAL_ERROR"
  BY <1>2
<1>13. ReaderInv /\ ErrorInv BY <1>2, <1>12, Zenon DEF ReaderInv, ErrorInv
<1>14. ResolvedIsOpened /\ ReadsAreExact /\ OnlyStaleLengthsFail
  BY <1>12, Zenon DEF ResolvedIsOpened, ReadsAreExact, OnlyStaleLengthsFail
<1> QED BY <1>7, <1>8, <1>9, <1>10, <1>11, <1>13, <1>14, Zenon DEF IInv

(* A step of another stream.                                               *)
LEMMA StutterInv ==
  ASSUME IInv, UNCHANGED vars
  PROVE  IInv'
<1>1. conn_error \in Errors /\ response \in {None, 0, 200, 400}
  BY Zenon DEF IInv, TypeOK, SharedType
<1>2. UNCHANGED <<wire, ending, kind, enabled, pos, received, cuts, eos, expected, phase,
                  ty, id, got, opener, told>>
  BY DEF vars, stream, bytes_in, buf, negotiation, accepted, reading
<1>3. conn_error' = conn_error /\ response' = response BY DEF vars, negotiation
<1>4. conn_error' \in Errors /\ response' \in {None, 0, 200, 400} BY <1>1, <1>3, Zenon
<1>5. conn_error' = "H3_INTERNAL_ERROR" => conn_error = "H3_INTERNAL_ERROR" BY <1>3, Zenon
<1> QED BY <1>2, <1>4, <1>5, Elsewhere

(* A stream is understood as its bytes say at every moment: whichever      *)
(* session it is opened for or whatever another peer has sent, however the *)
(* bytes are written, cut and read, and wherever a future is dropped.      *)
THEOREM Inductive == Spec => []IInv
<1>1. Init => IInv BY InitInv
<1>2. IInv /\ [Next]_vars => IInv'
  <2> SUFFICES ASSUME IInv, [Next]_vars PROVE IInv' OBVIOUS
  <2>1. \A n \in 1 .. MaxChunk : n \in Nat /\ n # 0 BY WebTransportAssumption
  <2>2. CASE ReceiveSettings \/ accept \/ AcceptFails BY <2>2, Negotiates
  <2>3. CASE \E k \in {"uni", "bi"}, s \in Sessions : Open(k, s) BY <2>3, Opens, Zenon
  <2>4. CASE \E n \in 1 .. MaxChunk : PollSend(n) BY <2>1, <2>4, SendsHeader, Zenon
  <2>5. CASE \/ \E lost \in BOOLEAN : PollSendFails(lost)
             \/ DropOpen
             \/ \E end \in {"fin", "reset"} : CloseStream(end)
    BY <2>5, Closes, Zenon
  <2>6. CASE \E n \in 1 .. MaxChunk : poll_write(n) BY <2>1, <2>6, WritesData, Zenon
  <2>7. CASE PollType BY <2>7, PollsType
  <2>8. CASE AcceptUni BY <2>8, Accepts
  <2>9. CASE Resolve BY <2>9, Resolves
  <2>10. CASE \/ \E n \in 1 .. MaxChunk : poll_data(n)
              \/ \E n, limit \in 1 .. MaxChunk : poll_read(n, limit)
              \/ ReadEnd
              \/ split
    BY <2>10, Reads, Zenon
  <2>11. CASE \/ \E p \in connect.payloads : SendDatagram(p)
              \/ LoseConnection
              \/ \E d \in net : ReadDatagram(d)
              \/ \E d \in net : DatagramLost(d)
    BY <2>11, Datagrams, Zenon
  <2>12. CASE UNCHANGED vars BY <2>12, StutterInv
  <2> QED BY <2>2, <2>3, <2>4, <2>5, <2>6, <2>7, <2>8, <2>9, <2>10, <2>11, <2>12, Zenon DEF Next
<1> QED BY <1>1, <1>2, PTL DEF Spec

(* Every variable keeps its type; BufList holds exactly the received bytes *)
(* that were not consumed, in non-empty chunks, past AcceptRecvStream, the *)
(* resolver, poll_data, AsyncRead and split.                               *)
THEOREM TypeCorrect == Spec => []TypeOK
<1>1. IInv => TypeOK BY DEF IInv
<1> QED BY <1>1, Inductive, PTL

(* A stream the application is given belongs to the session its opener     *)
(* named; one whose opening failed or was dropped is never handed over.    *)
THEOREM ResolvedOpened == Spec => []ResolvedIsOpened
<1>1. IInv => ResolvedIsOpened BY DEF IInv
<1> QED BY <1>1, Inductive, PTL

(* The reader is given what follows the header, all of it, once and in     *)
(* order, and told of the end only when it has everything.                 *)
THEOREM ReadsExact == Spec => []ReadsAreExact
<1>1. IInv => ReadsAreExact BY DEF IInv
<1> QED BY <1>1, Inductive, PTL

(* The length kept of the type is the only cause of H3_INTERNAL_ERROR, and *)
(* of dropping a finished stream whose header is whole.                    *)
THEOREM OnlyStaleLengths == Spec => []OnlyStaleLengthsFail
<1>1. IInv => OnlyStaleLengthsFail BY DEF IInv
<1> QED BY <1>1, Inductive, PTL


-----------------------------------------------------------------------------

(* The chunks of s put together one after the other.                       *)
Joins(s, f) ==
  /\ f \in [0 .. Len(s) -> Seq(Byte)]
  /\ f[0] = <<>>
  /\ \A i \in 1 .. Len(s) : f[i] = f[i - 1] \o s[i]

LEMMA JoinsExist ==
  ASSUME NEW s \in Seq(Seq(Byte))
  PROVE  \E f : Joins(s, f)
<1> DEFINE n == Len(s)
           Part(f, k) ==
             /\ f \in [0 .. n -> Seq(Byte)]
             /\ f[0] = <<>>
             /\ \A i \in 1 .. n : i <= k => f[i] = f[i - 1] \o s[i]
           T == {k \in Nat : \E f : Part(f, k)}
<1>0. n \in Nat /\ <<>> \in Seq(Byte) /\ (\A i \in 1 .. n : s[i] \in Seq(Byte)) OBVIOUS
<1> HIDE DEF n
<1>1. 0 \in T
  <2> DEFINE f == [i \in 0 .. n |-> <<>>]
  <2>1. f \in [0 .. n -> Seq(Byte)] /\ f[0] = <<>> BY <1>0
  <2>2. \A i \in 1 .. n : ~(i <= 0) BY <1>0
  <2> HIDE DEF f
  <2>3. Part(f, 0) BY <2>1, <2>2, Zenon
  <2> QED BY <2>3, Zenon
<1>2. \A k \in T : k + 1 \in T
  <2> TAKE k \in T
  <2>0. k \in Nat /\ \E f : Part(f, k) BY Zenon
  <2> PICK f : Part(f, k) BY <2>0, Zenon
  <2>1. f \in [0 .. n -> Seq(Byte)] /\ f[0] = <<>>
        /\ \A i \in 1 .. n : i <= k => f[i] = f[i - 1] \o s[i]
    OBVIOUS
  <2> DEFINE g == [i \in 0 .. n |-> IF i = k + 1 THEN f[k] \o s[i] ELSE f[i]]
  <2>2. g \in [0 .. n -> Seq(Byte)]
    <3> SUFFICES ASSUME NEW i \in 0 .. n PROVE (IF i = k + 1 THEN f[k] \o s[i] ELSE f[i]) \in Seq(Byte)
      OBVIOUS
    <3>1. CASE i = k + 1
      <4>1. k \in 0 .. n /\ i \in 1 .. n BY <1>0, <2>0, <3>1
      <4>2. f[k] \in Seq(Byte) /\ s[i] \in Seq(Byte) BY <1>0, <2>1, <4>1
      <4>3. f[k] \o s[i] \in Seq(Byte) BY <4>2
      <4> QED BY <3>1, <4>3
    <3>2. CASE i # k + 1 BY <2>1, <3>2
    <3> QED BY <3>1, <3>2
  <2>3. g[0] = <<>>
    <3>1. 0 \in 0 .. n /\ 0 # k + 1 BY <1>0, <2>0
    <3> QED BY <2>1, <3>1
  <2>4. ASSUME NEW i \in 1 .. n, i <= k + 1 PROVE g[i] = g[i - 1] \o s[i]
    <3>1. i \in 0 .. n /\ i - 1 \in 0 .. n /\ i - 1 # k + 1 BY <1>0, <2>0, <2>4
    <3>2. g[i - 1] = f[i - 1] BY <3>1
    <3>3. CASE i = k + 1
      <4>1. i - 1 = k BY <2>0, <3>3
      <4>2. g[i] = f[k] \o s[i] BY <3>1, <3>3
      <4> QED BY <3>2, <4>1, <4>2
    <3>4. CASE i # k + 1
      <4>1. i <= k BY <2>0, <2>4, <3>4
      <4>2. g[i] = f[i] BY <3>1, <3>4
      <4> QED BY <2>1, <3>2, <4>1, <4>2
    <3> QED BY <3>3, <3>4
  <2> HIDE DEF g
  <2>5. Part(g, k + 1) BY <2>2, <2>3, <2>4, Zenon
  <2>6. k + 1 \in Nat BY <2>0
  <2> QED BY <2>5, <2>6, Zenon
<1>3. T = Nat
  <2> HIDE DEF T
  <2>1. T \subseteq Nat BY DEF T
  <2> QED BY <1>1, <1>2, <2>1, SetInduction
<1>4. PICK f : Part(f, n) BY <1>0, <1>3
<1>5. \A i \in 1 .. n : i <= n BY <1>0
<1>6. Joins(s, f) BY <1>4, <1>5 DEF Joins, n
<1> QED BY <1>6

(* FlattenSeq puts all of them together.                                   *)
LEMMA FlattenJoins ==
  ASSUME NEW s \in Seq(Seq(Byte)), NEW f, Joins(s, f)
  PROVE  FlattenSeq(s) = f[Len(s)]
<1> DEFINE n == Len(s)
           Solves(g) == g = [i \in 1 .. n |-> IF i = 1 THEN s[i] ELSE g[i - 1] \o s[i]]
           g == CHOOSE x : Solves(x)
           T == {k \in Nat : k + 1 \in 1 .. n => g[k + 1] = f[k + 1]}
<1>0. n \in Nat /\ \A i \in 1 .. n : s[i] \in Seq(Byte) OBVIOUS
<1>1. /\ f[0] = <<>> /\ \A i \in 1 .. n : f[i] = f[i - 1] \o s[i] BY DEF Joins
<1>2. CASE n = 0
  <2>1. s = <<>> BY <1>2
  <2> QED BY <1>1, <1>2, <2>1 DEF FlattenSeq
<1>3. CASE n # 0
  <2>1. FlattenSeq(s) = g[n] BY <1>3, Zenon DEF FlattenSeq
  <2>2. 1 \in 1 .. n /\ n \in 1 .. n BY <1>0, <1>3
  <2>3. f[1] = s[1]
    <3>1. f[1] = f[0] \o s[1]
      <4>1. 1 - 1 = 0 OBVIOUS
      <4> QED BY <1>1, <2>2, <4>1
    <3>2. <<>> \o s[1] = s[1] BY <1>0, <2>2
    <3> QED BY <1>1, <3>1, <3>2
  <2> HIDE DEF n
  <2>4. Solves([i \in 1 .. n |-> f[i]])
    <3> DEFINE h == [i \in 1 .. n |-> f[i]]
    <3> SUFFICES ASSUME NEW i \in 1 .. n PROVE f[i] = IF i = 1 THEN s[i] ELSE h[i - 1] \o s[i]
      OBVIOUS
    <3>1. CASE i = 1 BY <2>3, <3>1
    <3>2. CASE i # 1
      <4>1. i - 1 \in 1 .. n BY <1>0, <3>2
      <4>2. h[i - 1] = f[i - 1] BY <4>1
      <4> QED BY <1>1, <3>2, <4>2
    <3> QED BY <3>1, <3>2
  <2>5. Solves(g)
    <3> HIDE DEF Solves
    <3> QED BY <2>4
  <2> HIDE DEF g
  <2>6. /\ g[1] = s[1]
        /\ \A i \in 1 .. n : i # 1 => g[i] = g[i - 1] \o s[i]
    BY <2>2, <2>5
  <2> HIDE DEF Solves
  <2>7. 0 \in T
    <3>1. 0 + 1 = 1 OBVIOUS
    <3> QED BY <2>3, <2>6, <3>1
  <2>8. \A k \in T : k + 1 \in T
    <3> TAKE k \in T
    <3>1. k \in Nat /\ (k + 1 \in 1 .. n => g[k + 1] = f[k + 1]) OBVIOUS
    <3> SUFFICES ASSUME k + 1 + 1 \in 1 .. n PROVE g[k + 1 + 1] = f[k + 1 + 1] BY <3>1
    <3>2. k + 1 \in 1 .. n /\ k + 1 + 1 # 1 /\ (k + 1 + 1) - 1 = k + 1 BY <1>0, <3>1
    <3>3. g[k + 1 + 1] = g[k + 1] \o s[k + 1 + 1] BY <2>6, <3>2
    <3>4. f[k + 1 + 1] = f[k + 1] \o s[k + 1 + 1] BY <1>1, <3>2 DEF n
    <3> QED BY <3>1, <3>2, <3>3, <3>4
  <2>9. T = Nat
    <3> HIDE DEF T
    <3>1. T \subseteq Nat BY DEF T
    <3> QED BY <2>7, <2>8, <3>1, SetInduction
  <2>10. n - 1 \in Nat /\ (n - 1) + 1 = n BY <1>0, <1>3
  <2>11. g[n] = f[n] BY <2>2, <2>9, <2>10
  <2> QED BY <2>1, <2>11 DEF n
<1> QED BY <1>2, <1>3

(* A payload has at least one byte for each of its chunks.                 *)
LEMMA PayloadLength ==
  ASSUME NEW s, IsBuf(s), NEW f, Joins(s, f)
  PROVE  \A i \in 0 .. Len(s) : Len(f[i]) \in Nat /\ Len(f[i]) >= i
<1> DEFINE n == Len(s)
           T == {k \in Nat : k \in 0 .. n => Len(f[k]) >= k}
<1>0. s \in Seq(Seq(Byte)) /\ \A i \in 1 .. Len(s) : s[i] # <<>> BY Zenon DEF IsBuf
<1>1. n \in Nat /\ \A i \in 1 .. n : s[i] \in Seq(Byte) /\ s[i] # <<>> BY <1>0
<1>2. \A i \in 1 .. n : Len(s[i]) \in Nat /\ Len(s[i]) >= 1 BY <1>1
<1>3. /\ \A i \in 0 .. n : f[i] \in Seq(Byte) /\ Len(f[i]) \in Nat
      /\ f[0] = <<>> /\ \A i \in 1 .. n : f[i] = f[i - 1] \o s[i]
  BY DEF Joins
<1> HIDE DEF n
<1>4. 0 \in T BY <1>3
<1>5. \A k \in T : k + 1 \in T
  <2> TAKE k \in T
  <2>1. k \in Nat /\ (k \in 0 .. n => Len(f[k]) >= k) OBVIOUS
  <2> SUFFICES ASSUME k + 1 \in 0 .. n PROVE Len(f[k + 1]) >= k + 1 BY <2>1
  <2>2. k \in 0 .. n /\ k + 1 \in 1 .. n /\ (k + 1) - 1 = k BY <1>1, <2>1
  <2>3. f[k + 1] = f[k] \o s[k + 1] BY <1>3, <2>2
  <2>4. f[k] \in Seq(Byte) /\ s[k + 1] \in Seq(Byte) BY <1>1, <1>3, <2>2
  <2>5. Len(f[k + 1]) = Len(f[k]) + Len(s[k + 1]) BY <2>3, <2>4
  <2>6. Len(f[k]) \in Nat /\ Len(s[k + 1]) \in Nat /\ Len(s[k + 1]) >= 1 /\ Len(f[k]) >= k
    BY <1>2, <1>3, <2>1, <2>2
  <2>7. \A a, b, c \in Nat : a >= c /\ b >= 1 => a + b >= c + 1 OBVIOUS
  <2> QED BY <2>1, <2>5, <2>6, <2>7, Zenon
<1>6. T = Nat
  <2> HIDE DEF T
  <2>1. T \subseteq Nat BY DEF T
  <2> QED BY <1>4, <1>5, <2>1, SetInduction
<1>7. \A i \in 0 .. n : i \in Nat BY <1>1
<1> QED BY <1>3, <1>6, <1>7 DEF n

LEMMA PayloadSize ==
  ASSUME NEW s, IsBuf(s)
  PROVE  /\ FlattenSeq(s) \in Seq(Byte) /\ Len(FlattenSeq(s)) \in Nat
         /\ Len(FlattenSeq(s)) >= Len(s)
         /\ Len(s) = 0 => Len(FlattenSeq(s)) = 0
<1>1. s \in Seq(Seq(Byte)) BY Zenon DEF IsBuf
<1>2. PICK f : Joins(s, f) BY <1>1, JoinsExist
<1>3. Len(s) \in Nat /\ Len(s) \in 0 .. Len(s) BY <1>1
<1>4. FlattenSeq(s) = f[Len(s)] BY <1>1, <1>2, FlattenJoins
<1>5. Len(f[Len(s)]) \in Nat /\ Len(f[Len(s)]) >= Len(s) BY <1>2, <1>3, PayloadLength
<1>6. f[Len(s)] \in Seq(Byte) /\ f[0] = <<>> BY <1>2, <1>3 DEF Joins
<1>7. Len(<<>>) = 0 OBVIOUS
<1> QED BY <1>4, <1>5, <1>6, <1>7, Zenon

(* What is left of a payload after j chunks.                               *)
LEMMA PayloadRest ==
  ASSUME NEW p, IsBuf(p), NEW j \in 0 .. Len(p)
  PROVE  LET r == SubSeq(p, j + 1, Len(p))
         IN /\ IsBuf(r) /\ Len(r) = Len(p) - j
            /\ j = 0 => r = p
            /\ j < Len(p) => r # <<>> /\ Head(r) = p[j + 1] /\ Tail(r) = SubSeq(p, j + 2, Len(p))
<1> DEFINE L == Len(p)
           r == SubSeq(p, j + 1, L)
<1>1. p \in Seq(Seq(Byte)) /\ L \in Nat /\ \A i \in 1 .. L : p[i] # <<>> BY DEF IsBuf
<1>2. r \in Seq(Seq(Byte)) /\ Len(r) = L - j /\ \A i \in 1 .. (L - j) : r[i] = p[j + i] BY <1>1
<1>3. \A i \in 1 .. (L - j) : j + i \in 1 .. L BY <1>1
<1>4. IsBuf(r)
  <2>1. \A i \in 1 .. Len(r) : r[i] # <<>> BY <1>1, <1>2, <1>3
  <2> QED BY <1>2, <2>1, Zenon DEF IsBuf
<1>5. ASSUME j = 0 PROVE r = p
  <2>1. SubSeq(p, 0 + 1, L) = p BY <1>1
  <2> QED BY <1>5, <2>1, Zenon
<1>6. ASSUME j < L
      PROVE  r # <<>> /\ Head(r) = p[j + 1] /\ Tail(r) = SubSeq(p, j + 2, L)
  <2> DEFINE t == Tail(r)
             u == SubSeq(p, j + 2, L)
  <2>1. 1 \in 1 .. (L - j) /\ Len(r) >= 1 BY <1>1, <1>2, <1>6
  <2>2. r # <<>> /\ Head(r) = r[1]
    <3> HIDE DEF r, L
    <3> QED BY <1>2, <2>1
  <2>3. r[1] = p[j + 1] BY <1>2, <2>1
  <2>4. t \in Seq(Seq(Byte)) /\ Len(t) = L - j - 1 /\ \A i \in 1 .. (L - j - 1) : t[i] = r[i + 1]
    <3> HIDE DEF r, L
    <3> QED BY <1>1, <1>2, <1>6, <2>2
  <2>5. u \in Seq(Seq(Byte)) /\ Len(u) = L - j - 1 /\ \A i \in 1 .. (L - j - 1) : u[i] = p[j + 1 + i]
    <3>1. j + 1 \in 0 .. L /\ (j + 1) + 1 = j + 2 /\ L - (j + 1) = L - j - 1 BY <1>1, <1>6
    <3>2. \A m \in 0 .. L : LET x == SubSeq(p, m + 1, L)
                            IN x \in Seq(Seq(Byte)) /\ Len(x) = L - m
                               /\ \A i \in 1 .. (L - m) : x[i] = p[m + i]
      BY <1>1
    <3> HIDE DEF L
    <3> QED BY <3>1, <3>2, Zenon
  <2>6. \A i \in 1 .. (L - j - 1) : i + 1 \in 1 .. (L - j) /\ j + (i + 1) = j + 1 + i BY <1>1, <1>6
  <2> HIDE DEF t, u, r
  <2>7. \A i \in 1 .. (L - j - 1) : t[i] = u[i] BY <1>2, <2>4, <2>5, <2>6
  <2>8. t = u BY <2>4, <2>5, <2>7, SeqEqual
  <2> QED BY <2>2, <2>3, <2>8 DEF t, u
<1> QED BY <1>2, <1>4, <1>5, <1>6

(* An EncodedDatagram whose header of enc is consumed up to at.            *)
Left(enc, at, payload) ==
  [stream_id |-> enc, len |-> Len(enc), pos |-> at, payload |-> payload]

Moved(e, at, payload) == [e EXCEPT !.pos = at, !.payload = payload]

LEMMA LeftMoves ==
  \A enc, at, payload, at2, payload2 :
    Moved(Left(enc, at, payload), at2, payload2) = Left(enc, at2, payload2)
<1> TAKE enc, at, payload, at2, payload2
<1> DEFINE m == Len(enc)
<1> HIDE DEF m
<1> DEFINE T == [stream_id : {enc}, len : {m}, pos : {at, at2}, payload : {payload, payload2}]
           x == [stream_id |-> enc, len |-> m, pos |-> at, payload |-> payload]
           y == [x EXCEPT !.pos = at2]
           z == [y EXCEPT !.payload = payload2]
           w == [stream_id |-> enc, len |-> m, pos |-> at2, payload |-> payload2]
<1>1. x \in T /\ w \in T OBVIOUS
<1>2. y \in T /\ y.stream_id = enc /\ y.len = m /\ y.pos = at2 BY <1>1
<1>3. z \in T /\ z.stream_id = enc /\ z.len = m /\ z.pos = at2 /\ z.payload = payload2 BY <1>2
<1>4. z = w BY <1>1, <1>3
<1> QED BY <1>4 DEF Left, Moved, m

(* The first chunk is the header, and the payload is left as it is.        *)
LEMMA HeaderCopied ==
  ASSUME NEW enc \in Seq(Byte), Len(enc) >= 1, NEW p, IsBuf(p)
  PROVE  /\ dremaining(Left(enc, 0, p)) = Len(enc) + Len(FlattenSeq(p))
         /\ CopyChunk([buf |-> Left(enc, 0, p), out |-> <<>>])
              = [buf |-> Left(enc, Len(enc), p), out |-> enc]
<1> DEFINE m == Len(enc)
           e == Left(enc, 0, p)
           F == Len(FlattenSeq(p))
<1>0. m \in Nat /\ m >= 1 /\ SubSeq(enc, 1, m) = enc /\ <<>> \o enc = enc OBVIOUS
<1>1. F \in Nat BY PayloadSize
<1>2. e.stream_id = enc /\ e.len = m /\ e.pos = 0 /\ e.payload = p BY DEF Left
<1> HIDE DEF m, F
<1>3. m - 0 = m /\ m - 0 > 0 /\ ~(m < m) /\ m - m = 0 /\ 0 + m = m /\ 0 + 1 = 1
      /\ m - 0 + F = m + F /\ m + F # 0
  BY <1>0, <1>1
<1>4. dremaining(e) = m + F BY <1>2, <1>3, Zenon DEF dremaining, F
<1>5. dchunk(e) = enc BY <1>0, <1>2, <1>3, Zenon DEF dchunk
<1>6. dadvance(e, m) = Left(enc, m, p)
  <2>1. AdvancePayload(p, m - m) = p BY <1>3, Zenon DEF AdvancePayload
  <2>2. (IF m < e.len - e.pos THEN m ELSE e.len - e.pos) = m BY <1>2, <1>3, Zenon
  <2>3. dadvance(e, m) = [e EXCEPT !.pos = @ + m, !.payload = AdvancePayload(@, m - m)]
    BY <2>2, Zenon DEF dadvance
  <2>4. [e EXCEPT !.pos = @ + m, !.payload = AdvancePayload(@, m - m)]
          = Moved(e, m, p)
    BY <1>2, <1>3, <2>1, Zenon DEF Moved
  <2>5. Moved(e, m, p) = Left(enc, m, p) BY LeftMoves, SMT
  <2> QED BY <2>3, <2>4, <2>5, Zenon
<1> DEFINE st == [buf |-> e, out |-> <<>>]
<1>7. st.buf = e /\ st.out = <<>> OBVIOUS
<1> HIDE DEF e, st
<1>8. CopyChunk(st) = [buf |-> dadvance(e, Len(dchunk(e))), out |-> <<>> \o dchunk(e)]
  BY <1>3, <1>4, <1>7, Zenon DEF CopyChunk
<1>9. Len(dchunk(e)) = m BY <1>5, Zenon DEF m
<1> QED BY <1>0, <1>4, <1>5, <1>6, <1>8, <1>9, Zenon DEF e, st, m, F

(* Each chunk of the payload follows, until nothing is left.               *)
LEMMA ChunkCopied ==
  ASSUME NEW enc \in Seq(Byte), NEW r, IsBuf(r), NEW o
  PROVE  LET st == [buf |-> Left(enc, Len(enc), r), out |-> o]
         IN /\ r = <<>> => CopyChunk(st) = st
            /\ r # <<>> => CopyChunk(st)
                             = [buf |-> Left(enc, Len(enc), Tail(r)), out |-> o \o Head(r)]
<1> DEFINE m == Len(enc)
           e == Left(enc, m, r)
           F == Len(FlattenSeq(r))
           st == [buf |-> e, out |-> o]
<1>0. m \in Nat OBVIOUS
<1>1. F \in Nat /\ F >= Len(r) /\ (Len(r) = 0 => F = 0) BY PayloadSize
<1>2. e.stream_id = enc /\ e.len = m /\ e.pos = m /\ e.payload = r BY DEF Left
<1>3. st.buf = e /\ st.out = o OBVIOUS
<1> HIDE DEF F
<1>4. m - m = 0 /\ ~(m - m > 0) /\ m - m + F = F /\ m + 0 = m BY <1>0, <1>1
<1>5. e.len - e.pos = 0 BY <1>2, <1>4, Zenon
<1> HIDE DEF m, e, st
<1>6. dremaining(e) = F
  <2>1. dremaining(e) = m - m + F BY <1>2, Zenon DEF dremaining, F
  <2> QED BY <1>4, <2>1, Zenon
<1>7. CASE r = <<>>
  <2>1. F = 0
    <3>1. Len(<<>>) = 0 OBVIOUS
    <3> QED BY <1>1, <1>7, <3>1, Zenon
  <2>2. CopyChunk(st) = st BY <1>3, <1>6, <2>1, Zenon DEF CopyChunk
  <2> QED BY <1>7, <2>2, Zenon DEF st, e, m
<1>8. CASE r # <<>>
  <2>1. r \in Seq(Seq(Byte)) /\ \A i \in 1 .. Len(r) : r[i] # <<>> BY Zenon DEF IsBuf
  <2>2. Len(r) \in Nat /\ Len(r) >= 1 /\ 1 \in 1 .. Len(r) BY <1>8, <2>1
  <2>3. Head(r) = r[1] /\ r[1] \in Seq(Byte) BY <1>8, <2>1, <2>2
  <2> DEFINE c == Len(Head(r))
  <2>4. c \in Nat /\ c # 0
    <3>1. r[1] # <<>> BY <2>1, <2>2
    <3> QED BY <2>3, <3>1
  <2>5. F # 0 BY <1>1, <2>2
  <2>6. dchunk(e) = Head(r)
    <3>1. ~(e.len - e.pos > 0) BY <1>5
    <3> QED BY <1>2, <1>8, <3>1, Zenon DEF dchunk
  <2> HIDE DEF c
  <2>7. ~(c < 0) /\ c - 0 = c /\ c >= c BY <2>4
  <2>8. dadvance(e, c) = Left(enc, m, Tail(r))
    <3>1. AdvancePayload(r, c - 0) = Tail(r) BY <2>4, <2>7, Zenon DEF AdvancePayload, c
    <3>2. (IF c < e.len - e.pos THEN c ELSE e.len - e.pos) = 0 BY <1>5, <2>7, Zenon
    <3>3. dadvance(e, c) = [e EXCEPT !.pos = @ + 0, !.payload = AdvancePayload(@, c - 0)]
      BY <3>2, Zenon DEF dadvance
    <3>4. [e EXCEPT !.pos = @ + 0, !.payload = AdvancePayload(@, c - 0)]
            = Moved(e, m, Tail(r))
      BY <1>2, <1>4, <3>1, Zenon DEF Moved
    <3>5. Moved(e, m, Tail(r)) = Left(enc, m, Tail(r)) BY LeftMoves, SMT DEF e
    <3> QED BY <3>3, <3>4, <3>5, Zenon
  <2>9. CopyChunk(st) = [buf |-> dadvance(e, Len(dchunk(e))), out |-> o \o dchunk(e)]
    BY <1>3, <1>6, <2>5, Zenon DEF CopyChunk
  <2>10. CopyChunk(st) = [buf |-> Left(enc, m, Tail(r)), out |-> o \o Head(r)]
    BY <2>6, <2>8, <2>9, Zenon DEF c
  <2> QED BY <1>8, <2>10, Zenon DEF st, e, m
<1> QED BY <1>7, <1>8, Zenon DEF st, e, m

(* copy_to_bytes gives the header and then the whole payload.              *)
LEMMA Copied ==
  ASSUME NEW enc \in Seq(Byte), Len(enc) >= 1, NEW p, IsBuf(p)
  PROVE  copy_to_bytes(Left(enc, 0, p)) = enc \o FlattenSeq(p)
<1> DEFINE m == Len(enc)
           L == Len(p)
           e == Left(enc, 0, p)
           N == dremaining(e)
           First == [buf |-> e, out |-> <<>>]
           Solves(g) == g = [k \in 0 .. N |-> IF k = 0 THEN First ELSE CopyChunk(g[k - 1])]
           g == CHOOSE x : Solves(x)
<1>0. p \in Seq(Seq(Byte)) /\ L \in Nat /\ \A i \in 1 .. L : p[i] \in Seq(Byte)
  <2>1. p \in Seq(Seq(Byte)) BY Zenon DEF IsBuf
  <2> QED BY <2>1
<1>1. PICK f : Joins(p, f) BY <1>0, JoinsExist
<1>2. /\ f[0] = <<>> /\ \A i \in 1 .. L : f[i] = f[i - 1] \o p[i]
      /\ \A i \in 0 .. L : f[i] \in Seq(Byte)
  BY <1>1 DEF Joins
<1> DEFINE S(j) == [buf |-> Left(enc, m, SubSeq(p, j + 1, L)), out |-> enc \o f[j]]
           H(k) == IF k = 0 THEN First ELSE IF k - 1 < L THEN S(k - 1) ELSE S(L)
           T == {k \in Nat : k \in 0 .. N => g[k] = H(k)}
<1>3. N \in Nat /\ N >= L + 1
  <2>1. N = m + Len(FlattenSeq(p)) BY HeaderCopied
  <2>2. Len(FlattenSeq(p)) \in Nat /\ Len(FlattenSeq(p)) >= L BY PayloadSize
  <2>3. m \in Nat /\ m >= 1 OBVIOUS
  <2>4. \A a, b, c \in Nat : a >= 1 /\ b >= c => a + b \in Nat /\ a + b >= c + 1 OBVIOUS
  <2> QED BY <1>0, <2>1, <2>2, <2>3, <2>4, Zenon
<1>4. \A j \in 0 .. L : /\ IsBuf(SubSeq(p, j + 1, L)) /\ Len(SubSeq(p, j + 1, L)) = L - j
                        /\ j = 0 => SubSeq(p, j + 1, L) = p
                        /\ j < L => /\ SubSeq(p, j + 1, L) # <<>>
                                    /\ Head(SubSeq(p, j + 1, L)) = p[j + 1]
                                    /\ Tail(SubSeq(p, j + 1, L)) = SubSeq(p, j + 2, L)
  BY PayloadRest, Zenon
<1> HIDE DEF L, e, N, m
<1>5. CopyChunk(First) = S(0)
  <2>1. 0 \in 0 .. L /\ enc \o <<>> = enc BY <1>0
  <2>2. SubSeq(p, 0 + 1, L) = p BY <1>4, <2>1, Zenon
  <2>3. S(0) = [buf |-> Left(enc, m, p), out |-> enc] BY <1>2, <2>1, <2>2, Zenon
  <2> QED BY <2>3, HeaderCopied, Zenon DEF e, m
<1>6. \A j \in 0 .. L : j < L => CopyChunk(S(j)) = S(j + 1)
  <2> SUFFICES ASSUME NEW j \in 0 .. L, j < L PROVE CopyChunk(S(j)) = S(j + 1) OBVIOUS
  <2> DEFINE r == SubSeq(p, j + 1, L)
  <2>1. IsBuf(r) /\ r # <<>> /\ Head(r) = p[j + 1] /\ Tail(r) = SubSeq(p, j + 2, L)
    BY <1>4, Zenon
  <2>2. j + 1 \in 1 .. L /\ (j + 1) - 1 = j /\ (j + 1) + 1 = j + 2 BY <1>0
  <2>3. f[j] \in Seq(Byte) /\ p[j + 1] \in Seq(Byte) BY <1>0, <1>2, <2>2
  <2>4. (enc \o f[j]) \o p[j + 1] = enc \o (f[j] \o p[j + 1])
    <3>1. \A b, c \in Seq(Byte) : (enc \o b) \o c = enc \o (b \o c) BY SMT
    <3> QED BY <2>3, <3>1, Zenon
  <2>5. f[j + 1] = f[j] \o p[j + 1] BY <1>2, <2>2
  <2> HIDE DEF r
  <2>6. CopyChunk([buf |-> Left(enc, m, r), out |-> enc \o f[j]])
          = [buf |-> Left(enc, m, Tail(r)), out |-> (enc \o f[j]) \o Head(r)]
    BY <2>1, ChunkCopied, Zenon DEF m
  <2> QED BY <2>1, <2>2, <2>4, <2>5, <2>6, Zenon DEF r
<1>7. CopyChunk(S(L)) = S(L)
  <2>1. L \in 0 .. L /\ L - L = 0 BY <1>0
  <2>2. IsBuf(SubSeq(p, L + 1, L)) /\ Len(SubSeq(p, L + 1, L)) = 0 BY <1>4, <2>1, Zenon
  <2>3. SubSeq(p, L + 1, L) = <<>>
    <3>1. SubSeq(p, L + 1, L) \in Seq(Seq(Byte)) BY <2>2, Zenon DEF IsBuf
    <3> QED BY <2>2, <3>1
  <2> DEFINE r == SubSeq(p, L + 1, L)
             o == enc \o f[L]
  <2> HIDE DEF r, o
  <2>4. IsBuf(r) /\ r = <<>> BY <2>2, <2>3, Zenon DEF r
  <2>5. CopyChunk([buf |-> Left(enc, m, r), out |-> o]) = [buf |-> Left(enc, m, r), out |-> o]
    BY <2>4, ChunkCopied, Zenon DEF m
  <2> QED BY <2>5, Zenon DEF r, o
<1> HIDE DEF S, First
<1>8. H(0) = First /\ \A k \in Nat : H(k + 1) = CopyChunk(H(k))
  <2>1. H(0) = First OBVIOUS
  <2> SUFFICES ASSUME NEW k \in Nat PROVE H(k + 1) = CopyChunk(H(k)) BY <2>1
  <2>2. k + 1 # 0 /\ (k + 1) - 1 = k OBVIOUS
  <2>3. H(k + 1) = IF k < L THEN S(k) ELSE S(L) BY <2>2
  <2>4. CASE k = 0
    <3>1. ~(0 < L) => L = 0 BY <1>0
    <3>2. H(k + 1) = S(0) BY <2>3, <2>4, <3>1, Zenon
    <3> QED BY <1>5, <2>4, <3>2
  <2>5. CASE k # 0 /\ k - 1 < L
    <3>1. k - 1 \in 0 .. L /\ (k - 1) + 1 = k /\ (~(k < L) => k = L) BY <1>0, <2>5
    <3>2. H(k) = S(k - 1) BY <2>5
    <3>3. CopyChunk(S(k - 1)) = S(k) BY <1>6, <2>5, <3>1
    <3> QED BY <2>3, <3>1, <3>2, <3>3
  <2>6. CASE k # 0 /\ ~(k - 1 < L)
    <3>1. ~(k < L) BY <1>0, <2>6
    <3> QED BY <1>7, <2>3, <2>6, <3>1
  <2> QED BY <2>4, <2>5, <2>6
<1> HIDE DEF H
<1>9. Solves([k \in 0 .. N |-> H(k)])
  <2> DEFINE h == [k \in 0 .. N |-> H(k)]
  <2> SUFFICES ASSUME NEW k \in 0 .. N PROVE H(k) = IF k = 0 THEN First ELSE CopyChunk(h[k - 1])
    OBVIOUS
  <2>1. CASE k = 0 BY <1>8, <2>1
  <2>2. CASE k # 0
    <3>1. k - 1 \in 0 .. N /\ k - 1 \in Nat /\ (k - 1) + 1 = k BY <1>3, <2>2
    <3>2. h[k - 1] = H(k - 1) BY <3>1
    <3>3. H((k - 1) + 1) = CopyChunk(H(k - 1)) BY <1>8, <3>1
    <3> QED BY <2>2, <3>1, <3>2, <3>3
  <2> QED BY <2>1, <2>2
<1>10. Solves(g)
  <2> HIDE DEF Solves
  <2> QED BY <1>9
<1>11. copy_to_bytes(e) = g[N].out BY Zenon DEF copy_to_bytes, N, First
<1> HIDE DEF g
<1>12. (\A k \in 0 .. N : k = 0 => g[k] = First)
       /\ \A k \in 0 .. N : k # 0 => g[k] = CopyChunk(g[k - 1])
  BY <1>10
<1> HIDE DEF Solves
<1>13. 0 \in T
  <2>1. 0 \in 0 .. N BY <1>3
  <2> QED BY <1>8, <1>12, <2>1
<1>14. \A k \in T : k + 1 \in T
  <2> TAKE k \in T
  <2>1. k \in Nat /\ (k \in 0 .. N => g[k] = H(k)) OBVIOUS
  <2> SUFFICES ASSUME k + 1 \in 0 .. N PROVE g[k + 1] = H(k + 1) BY <2>1
  <2>2. k \in 0 .. N /\ k + 1 # 0 /\ (k + 1) - 1 = k BY <1>3, <2>1
  <2>3. g[k + 1] = CopyChunk(g[k]) BY <1>12, <2>2
  <2> QED BY <1>8, <2>1, <2>2, <2>3
<1>15. T = Nat
  <2> HIDE DEF T
  <2>1. T \subseteq Nat BY DEF T
  <2> QED BY <1>13, <1>14, <2>1, SetInduction
<1>16. g[N] = H(N) BY <1>3, <1>15
<1>17. H(N) = S(L)
  <2>1. N # 0 /\ ~(N - 1 < L) BY <1>0, <1>3
  <2> QED BY <2>1, Zenon DEF H
<1>18. S(L).out = enc \o f[L] BY DEF S
<1>19. f[L] = FlattenSeq(p) BY <1>0, <1>1, FlattenJoins DEF L
<1> QED BY <1>11, <1>16, <1>17, <1>18, <1>19, Zenon DEF e

(* VarInt::decode gives what VarInt::from_u64 accepts.                     *)
LEMMA ValueIsVarInt ==
  ASSUME NEW b \in Seq(Byte), VarThere(b)
  PROVE  VarValue(b) \in U64 /\ IsVarInt(VarValue(b))
<1> DEFINE n == encoded_size(b[1])
           v == VarValue(b)
           at(i) == IF i < 9 - n THEN 0 ELSE IF i = 9 - n THEN b[1] % 64 ELSE b[i - 8 + n]
<1>1. b # <<>> /\ Len(b) >= n /\ Len(b) \in Nat BY DEF VarThere
<1>2. 1 \in 1 .. Len(b) BY <1>1
<1>3. b[1] \in 0 .. 255 /\ n \in {1, 2, 4, 8} BY <1>2, ByteAt
<1>4. b[1] % 64 \in 0 .. 63
  <2>1. \A a \in 0 .. 255 : a % 64 \in 0 .. 63 OBVIOUS
  <2> QED BY <1>3, <2>1, Zenon
<1>5. v = [i \in 1 .. 8 |-> at(i)] BY Zenon DEF VarValue
<1> HIDE DEF n, v
<1>6. ASSUME NEW i \in 1 .. 8 PROVE at(i) \in Byte
  <2>1. CASE i < 9 - n
    <3>1. 0 \in Byte BY DEF Byte
    <3> QED BY <2>1, <3>1
  <2>2. CASE i = 9 - n
    <3>1. ~(i < 9 - n) BY <1>3, <2>2
    <3>2. b[1] % 64 \in Byte BY <1>4 DEF Byte
    <3> QED BY <2>2, <3>1, <3>2
  <2>3. CASE ~(i < 9 - n) /\ i # 9 - n
    <3>1. i - 8 + n \in 1 .. Len(b) BY <1>1, <1>3, <2>3
    <3>2. b[i - 8 + n] \in Byte BY <3>1, ByteAt
    <3> QED BY <2>3, <3>2
  <2> QED BY <2>1, <2>2, <2>3
<1>7. v \in U64
  <2> HIDE DEF at
  <2> QED BY <1>5, <1>6 DEF U64
<1>8. v[1] < 64
  <2>1. v[1] = at(1) BY <1>5
  <2>2. 1 < 9 - n \/ 1 = 9 - n BY <1>3
  <2>3. at(1) = 0 \/ at(1) = b[1] % 64 BY <2>2
  <2> HIDE DEF at
  <2>4. \A a \in 0 .. 63 : a < 64 /\ 0 < 64 OBVIOUS
  <2> QED BY <1>4, <2>1, <2>3, <2>4
<1> QED BY <1>7, <1>8 DEF v, IsVarInt

(* The product by four is a VarInt of what is below 2 ^ 60.                *)
LEMMA ProductFits ==
  ASSUME NEW x \in U64, IsVarInt(x)
  PROVE  IsVarInt(TimesFour(x)) <=> x[1] < 16
<1>1. x[1] \in 0 .. 255 /\ x[2] \in 0 .. 255 BY U64Seq DEF Byte
<1>2. x[1] \in 0 .. 63 BY <1>1 DEF IsVarInt
<1>3. TimesFour(x)[1] = ((x[1] * 4) % 256) + (x[2] \div 64)
  <2>1. 1 \in 1 .. 8 /\ 1 # 8 /\ 1 + 1 = 2 OBVIOUS
  <2> QED BY <2>1, Zenon DEF TimesFour
<1>4. \A a \in 0 .. 63, c \in 0 .. 255 : ((a * 4) % 256) + (c \div 64) < 64 <=> a < 16 OBVIOUS
<1> DEFINE t == ((x[1] * 4) % 256) + (x[2] \div 64)
<1>5. t < 64 <=> x[1] < 16 BY <1>1, <1>2, <1>4, Zenon
<1> HIDE DEF t
<1>6. TimesFour(x)[1] < 64 <=> x[1] < 16
  <2>1. TimesFour(x)[1] = t BY <1>3, Zenon DEF t
  <2> QED BY <1>5, <2>1, Zenon
<1> QED BY <1>6, Zenon DEF IsVarInt

(* What Datagram::encode writes and h3-quinn copies is what Datagram::     *)
(* decode reads: the stream id and the payload, however long the id and    *)
(* wherever the payload is cut.                                            *)
THEOREM DatagramRoundTrip ==
  ASSUME NEW x \in U64, x[8] % 4 = 0, IsVarInt(x), NEW p, IsBuf(p)
  PROVE  LET bytes == copy_to_bytes(encode_datagram(x, p))
         IN Decodable(bytes) /\ DecodesTo(bytes) = [stream_id |-> x, payload |-> FlattenSeq(p)]
<1> DEFINE q == OverFour(x)
           enc == VarEncode(q)
           rest == FlattenSeq(p)
           bytes == copy_to_bytes(encode_datagram(x, p))
<1>1. q \in U64 /\ IsVarInt(q) /\ TimesFour(q) = x BY QuarterRoundTrip
<1>2. enc \in Seq(Byte) /\ Len(enc) = VarSize(q) /\ VarSize(q) \in {1, 2, 4, 8}
  BY <1>1, Encoded, VarSizeFits
<1>3. rest \in Seq(Byte) BY PayloadSize
<1>4. encode_datagram(x, p) = Left(enc, 0, p) BY <1>2, Zenon DEF encode_datagram, Left
<1>5. Len(enc) >= 1 BY <1>2
<1>6. bytes = enc \o rest BY <1>2, <1>4, <1>5, Copied, Zenon
<1>7. VarThere(enc \o rest) /\ VarValue(enc \o rest) = q /\ VarRest(enc \o rest) = rest
  BY <1>1, <1>3, VarIntRoundTrip
<1> HIDE DEF q, enc, rest, bytes
<1>8. VarThere(bytes) /\ VarValue(bytes) = q /\ VarRest(bytes) = rest BY <1>6, <1>7, Zenon
<1>9. Decodable(bytes) /\ DecodesTo(bytes) = [stream_id |-> x, payload |-> rest]
  BY <1>1, <1>8, Zenon DEF Decodable, DecodesTo
<1> QED BY <1>9, Zenon DEF bytes, rest
-----------------------------------------------------------------------------
(* Every datagram under way is another sender's, or is read as what        *)
(* send_datagram was given.                                                *)
NetInv == \A b \in net : b \in PeerDatagrams \/ (Decodable(b) /\ DecodesTo(b) \in dsent)
DInv == connect \in Connects /\ NetInv /\ DatagramsKeepTheirStream

(* Only read_datagram raises H3_DATAGRAM_ERROR; only poll_control, accept   *)
(* and a SETTINGS frame on the stream raise H3_SETTINGS_ERROR.             *)
NoNewError(code) == conn_error' = code => conn_error = code
NoSettingsError == NoNewError("H3_SETTINGS_ERROR") \/ SettingsOnStream
NoNewErrors == NoNewError("H3_DATAGRAM_ERROR") /\ NoSettingsError

LEMMA OtherError ==
  ASSUME NEW code, NEW raised, raised # code, SetError(raised)
  PROVE  NoNewError(code)
<1>1. conn_error' = raised \/ conn_error' = conn_error BY Zenon DEF SetError
<1> QED BY <1>1, Zenon DEF NoNewError

LEMMA SameError == ASSUME conn_error' = conn_error PROVE NoNewErrors
BY Zenon DEF NoNewErrors, NoSettingsError, NoNewError

LEMMA ErrorCodes ==
  ASSUME NEW raised \in {"remote", "H3_INTERNAL_ERROR", "H3_FRAME_ERROR", "H3_FRAME_UNEXPECTED"},
         SetError(raised)
  PROVE  NoNewErrors
<1>1. raised # "H3_DATAGRAM_ERROR" /\ raised # "H3_SETTINGS_ERROR" OBVIOUS
<1> QED BY <1>1, OtherError, Zenon DEF NoNewErrors, NoSettingsError

(* Whatever has nothing to do with datagrams, or loses one.                *)
LEMMA DatagramsStay ==
  ASSUME DInv, connect' = connect, dsent' = dsent, dread' = dread, net' \subseteq net,
         NoNewError("H3_DATAGRAM_ERROR")
  PROVE  DInv'
<1>1. connect' \in Connects BY Zenon DEF DInv
<1>2. NetInv' BY Zenon DEF DInv, NetInv
<1>3. DatagramsKeepTheirStream' BY Zenon DEF DInv, DatagramsKeepTheirStream, NoNewError
<1> QED BY <1>1, <1>2, <1>3, Zenon DEF DInv

(* The steps of the stream.                                                *)
LEMMA OtherSteps ==
  ASSUME IInv,
         \/ \E k \in {"uni", "bi"}, s \in Sessions : Open(k, s)
         \/ \E n \in 1 .. MaxChunk : PollSend(n)
         \/ \E lost \in BOOLEAN : PollSendFails(lost)
         \/ DropOpen
         \/ \E n \in 1 .. MaxChunk : poll_write(n)
         \/ \E end \in {"fin", "reset"} : CloseStream(end)
         \/ PollType
         \/ AcceptUni
         \/ Resolve
         \/ \E n \in 1 .. MaxChunk : poll_data(n)
         \/ \E n, limit \in 1 .. MaxChunk : poll_read(n, limit)
         \/ ReadEnd
         \/ split
         \/ UNCHANGED vars
  PROVE  UNCHANGED <<negotiation, net, dsent, dread>> /\ NoNewErrors
<1>1. CASE \/ \E k \in {"uni", "bi"}, s \in Sessions : Open(k, s)
           \/ \E n \in 1 .. MaxChunk : PollSend(n)
           \/ \E lost \in BOOLEAN : PollSendFails(lost)
           \/ DropOpen
           \/ \E n \in 1 .. MaxChunk : poll_write(n)
           \/ \E end \in {"fin", "reset"} : CloseStream(end)
  <2>1. OnlyOpener /\ (conn_error' = conn_error \/ SetError("remote"))
    BY <1>1 DEF Open, PollSend, PollSendFails, DropOpen, poll_write, CloseStream
  <2>2. UNCHANGED <<negotiation, net, dsent, dread>> BY <2>1 DEF OnlyOpener, dgrams
  <2> QED BY <2>1, <2>2, SameError, ErrorCodes, Zenon
<1>2. CASE PollType
  <2>1. OnlyAccept /\ (SetError("remote") \/ \E stopped \in BOOLEAN : LookForVarint(stopped))
    BY <1>2 DEF PollType, PollTypeChunk, PollTypeEnd, PollTypeReset, PollTypeLost
  <2>2. UNCHANGED <<negotiation, net, dsent, dread>> BY <2>1 DEF OnlyAccept, dgrams
  <2>3. ASSUME NEW stopped \in BOOLEAN, LookForVarint(stopped)
        PROVE  conn_error' = conn_error \/ SetError("H3_INTERNAL_ERROR")
    BY <2>3 DEF LookForVarint, TakeVarint
  <2> QED BY <2>1, <2>2, <2>3, SameError, ErrorCodes, Zenon
<1>3. CASE AcceptUni
  <2>1. UNCHANGED <<negotiation, net, dsent, dread>> /\ conn_error' = conn_error
    BY <1>3 DEF AcceptUni, dgrams
  <2> QED BY <2>1, SameError, Zenon
<1>4. CASE Resolve
  <2>1. OnlyAccept BY <1>4 DEF Resolve, ResolveChunk, ResolveFrame, ResolveEnd, ResolveBroken
  <2>2. UNCHANGED <<negotiation, net, dsent, dread>> BY <2>1 DEF OnlyAccept, dgrams
  <2> DEFINE d == Decode(wire, pos, received)
  <2>3. CASE ResolveFrame
    <3> HIDE DEF d
    <3>1. Resolving /\ (conn_error' = conn_error \/ (d.res = "error" /\ SetError(d.code)))
      BY <2>3 DEF ResolveFrame, d
    <3>2. d.res = "error" =>
            d.code = "H3_FRAME_UNEXPECTED" \/ (d.code = "H3_SETTINGS_ERROR" /\ SettingsOnStream)
      BY <3>1, ResolverRefuses DEF d
    <3>3. \/ conn_error' = conn_error \/ SetError("H3_FRAME_UNEXPECTED")
          \/ SetError("H3_SETTINGS_ERROR") /\ SettingsOnStream
      BY <3>1, <3>2, Zenon
    <3>4. CASE SetError("H3_SETTINGS_ERROR") /\ SettingsOnStream
      <4>1. "H3_SETTINGS_ERROR" # "H3_DATAGRAM_ERROR" OBVIOUS
      <4>2. NoNewErrors
        BY <3>4, <4>1, OtherError, Zenon DEF NoNewErrors, NoSettingsError
      <4> QED BY <2>2, <4>2, Zenon
    <3> QED BY <2>2, <3>3, <3>4, SameError, ErrorCodes, Zenon
  <2>4. CASE ResolveEnd \/ ResolveBroken \/ \E n \in 1 .. MaxChunk : ResolveChunk(n)
    <3>1. conn_error' = conn_error \/ SetError("H3_FRAME_ERROR") \/ SetError("remote")
      BY <2>4 DEF ResolveEnd, ResolveBroken, ResolveChunk
    <3> QED BY <2>2, <3>1, SameError, ErrorCodes, Zenon
  <2> QED BY <1>4, <2>3, <2>4, Zenon DEF Resolve
<1>5. CASE \/ \E n \in 1 .. MaxChunk : poll_data(n)
           \/ \E n, limit \in 1 .. MaxChunk : poll_read(n, limit)
           \/ ReadEnd
           \/ split
  <2>1. OnlyRead BY <1>5, Zenon DEF poll_data, poll_read, ReadEnd, split
  <2>2. UNCHANGED <<negotiation, net, dsent, dread>> /\ conn_error' = conn_error
    BY <2>1 DEF OnlyRead, dgrams
  <2> QED BY <2>2, SameError, Zenon
<1>6. CASE UNCHANGED vars
  <2>1. UNCHANGED <<negotiation, net, dsent, dread>> /\ conn_error' = conn_error
    BY <1>6 DEF vars, dgrams, negotiation
  <2> QED BY <2>1, SameError, Zenon
<1> QED BY <1>1, <1>2, <1>3, <1>4, <1>5, <1>6, Zenon

(* What is put on the wire is read as what was sent.                       *)
LEMMA SendsDatagram ==
  ASSUME DInv, NEW p \in connect.payloads, SendDatagram(p)
  PROVE  DInv'
<1> DEFINE x == u64(connect.id)
           b == copy_to_bytes(encode_datagram(x, p))
           m == [stream_id |-> x, payload |-> FlattenSeq(p)]
<1>1. /\ x[8] % 4 = 0 /\ net' = net \cup {b} /\ dsent' = dsent \cup {m}
      /\ dread' = dread /\ conn_error' = conn_error
  BY DEF SendDatagram, send_datagram
<1>2. connect' = connect BY DEF SendDatagram, OnlyDatagrams, negotiation
<1>3. connect \in Connects /\ NetInv /\ DatagramsKeepTheirStream BY Zenon DEF DInv
<1>4. connect.id \in Nat /\ connect.id < 64 * 256 * 256 * 256 /\ IsBuf(p)
  BY <1>3, ConnectsAssumption, Zenon
<1>5. x \in U64 /\ IsVarInt(x) BY <1>4, SmallU64
<1> HIDE DEF x
<1>6. Decodable(b) /\ DecodesTo(b) = m BY <1>1, <1>4, <1>5, DatagramRoundTrip, Zenon
<1> HIDE DEF b, m
<1>7. NetInv' BY <1>1, <1>3, <1>6, Zenon DEF NetInv
<1>8. DatagramsKeepTheirStream' BY <1>1, <1>3, Zenon DEF DatagramsKeepTheirStream
<1> QED BY <1>2, <1>3, <1>7, <1>8, Zenon DEF DInv

(* What another sender has sent is read as the stream and the payload that *)
(* its bytes name, or refused for what they are.                           *)
LEMMA ReadsPeer ==
  ASSUME NEW b \in PeerDatagrams
  PROVE  /\ Decodable(b) =>
              LET d == DecodesTo(b)
              IN VarThere(b) /\ d = [stream_id |-> d.stream_id, payload |-> VarRest(b)]
                 /\ d.stream_id[8] % 4 = 0 /\ OverFour(d.stream_id) = VarValue(b)
         /\ ~Decodable(b) => ~VarThere(b) \/ VarValue(b)[1] >= 16
<1> DEFINE v == VarValue(b)
           d == DecodesTo(b)
<1>1. b \in Seq(Byte) BY PeerDatagramsAssumption
<1>2. CASE ~VarThere(b) BY <1>2, Zenon DEF Decodable
<1>3. CASE VarThere(b)
  <2>1. v \in U64 /\ IsVarInt(v) BY <1>1, <1>3, ValueIsVarInt
  <2> HIDE DEF v
  <2>2. TimesFour(v)[8] % 4 = 0 /\ OverFour(TimesFour(v)) = v BY <2>1, ProductRoundTrip
  <2>3. IsVarInt(TimesFour(v)) <=> v[1] < 16 BY <2>1, ProductFits
  <2>4. ~(v[1] < 16) => v[1] >= 16
    <3>1. v[1] \in 0 .. 255 BY <2>1, U64Seq DEF Byte
    <3> QED BY <3>1
  <2>5. d = [stream_id |-> TimesFour(v), payload |-> VarRest(b)] BY Zenon DEF DecodesTo, v
  <2> HIDE DEF d
  <2>6. d.stream_id = TimesFour(v) BY <2>5
  <2> QED BY <1>3, <2>2, <2>3, <2>4, <2>5, <2>6, Zenon DEF Decodable, v, d
<1> QED BY <1>2, <1>3

LEMMA ReadsDatagram ==
  ASSUME DInv, NEW b \in net, ReadDatagram(b)
  PROVE  DInv'
<1>1. /\ net' = net \ {b} /\ dsent' = dsent
      /\ \/ Decodable(b) /\ dread' = dread \cup {DecodesTo(b)} /\ conn_error' = conn_error
         \/ ~Decodable(b) /\ SetError("H3_DATAGRAM_ERROR") /\ dread' = dread
  BY Zenon DEF ReadDatagram, read_datagram
<1>2. connect' = connect BY DEF ReadDatagram, OnlyDatagrams, negotiation
<1>3. connect \in Connects /\ NetInv /\ DatagramsKeepTheirStream BY Zenon DEF DInv
<1>4. b \in PeerDatagrams \/ (Decodable(b) /\ DecodesTo(b) \in dsent) BY <1>3, Zenon DEF NetInv
<1>5. NetInv' BY <1>1, <1>3, Zenon DEF NetInv
<1>6. conn_error' = "H3_DATAGRAM_ERROR" =>
        conn_error = "H3_DATAGRAM_ERROR" \/ (b \in PeerDatagrams /\ ~Decodable(b))
  BY <1>1, <1>4, Zenon DEF SetError
<1>7. DatagramsKeepTheirStream'
  BY <1>1, <1>3, <1>4, <1>6, ReadsPeer, Zenon DEF DatagramsKeepTheirStream
<1> QED BY <1>2, <1>3, <1>5, <1>7, Zenon DEF DInv

(* A datagram is delivered for the stream it was sent for, with the        *)
(* payload it was sent with, through any loss and reordering; only a       *)
(* quarter stream id that is cut short or too large is an error.           *)
THEOREM DatagramsKept == Spec => []DatagramsKeepTheirStream
<1>1. Init => DInv
  <2> SUFFICES ASSUME Init PROVE DInv OBVIOUS
  <2>1. /\ connect \in Connects /\ net \in {{}} \cup {{d} : d \in PeerDatagrams}
        /\ dread = {} /\ conn_error = ""
    BY Zenon DEF Init, InitDatagrams
  <2>2. NetInv BY <2>1 DEF NetInv
  <2>3. conn_error # "H3_DATAGRAM_ERROR" BY <2>1
  <2>4. DatagramsKeepTheirStream BY <2>1, <2>3, Zenon DEF DatagramsKeepTheirStream
  <2> QED BY <2>1, <2>2, <2>4, Zenon DEF DInv
<1>2. IInv /\ DInv /\ [Next]_vars => DInv'
  <2> SUFFICES ASSUME IInv, DInv, [Next]_vars PROVE DInv' OBVIOUS
  <2>1. CASE \E p \in connect.payloads : SendDatagram(p) BY <2>1, SendsDatagram, Zenon
  <2>2. CASE \E d \in net : ReadDatagram(d) BY <2>2, ReadsDatagram, Zenon
  <2>3. CASE \E d \in net : DatagramLost(d)
    <3>1. net' \subseteq net /\ dsent' = dsent /\ dread' = dread /\ conn_error' = conn_error
      BY <2>3, Zenon DEF DatagramLost, LoseDatagram
    <3>2. connect' = connect BY <2>3 DEF DatagramLost, OnlyDatagrams, negotiation
    <3> QED BY <3>1, <3>2, SameError, DatagramsStay, Zenon DEF NoNewErrors
  <2>4. CASE LoseConnection
    <3>1. SetError("remote") /\ net' = net /\ dsent' = dsent /\ dread' = dread
      BY <2>4, Zenon DEF LoseConnection, SendDatagramFails
    <3>2. connect' = connect BY <2>4 DEF LoseConnection, OnlyDatagrams, negotiation
    <3> QED BY <3>1, <3>2, ErrorCodes, DatagramsStay, Zenon DEF NoNewErrors
  <2>5. CASE ReceiveSettings \/ accept \/ AcceptFails
    <3>1. UNCHANGED <<connect, net, dsent, dread>>
      BY <2>5 DEF ReceiveSettings, accept, AcceptFails, dgrams
    <3>2. conn_error' = conn_error \/ SetError("H3_SETTINGS_ERROR") \/ SetError("remote")
      BY <2>5 DEF ReceiveSettings, accept, AcceptFails
    <3>3. NoNewError("H3_DATAGRAM_ERROR")
      <4>1. "H3_SETTINGS_ERROR" # "H3_DATAGRAM_ERROR" /\ "remote" # "H3_DATAGRAM_ERROR" OBVIOUS
      <4> QED BY <3>2, <4>1, OtherError, SameError, Zenon DEF NoNewErrors
    <3> QED BY <3>1, <3>3, DatagramsStay, Zenon
  <2>6. CASE UNCHANGED <<negotiation, net, dsent, dread>> /\ NoNewErrors
    <3>1. UNCHANGED <<connect, net, dsent, dread>> BY <2>6 DEF negotiation
    <3> QED BY <2>6, <3>1, DatagramsStay, Zenon DEF NoNewErrors
  <2> QED BY <2>1, <2>2, <2>3, <2>4, <2>5, <2>6, OtherSteps, Zenon DEF Next
<1>3. DInv => DatagramsKeepTheirStream BY DEF DInv
<1> QED BY <1>1, <1>2, <1>3, Inductive, PTL DEF Spec

-----------------------------------------------------------------------------
(***************************************************************************)
(* SETTINGS, from one endpoint's configuration to the other's knowledge.   *)
(***************************************************************************)

(* The same put together from the end.                                     *)
Tails(s, h) ==
  /\ h \in [0 .. Len(s) -> Seq(Byte)]
  /\ h[Len(s)] = <<>>
  /\ \A i \in 1 .. Len(s) : h[i - 1] = s[i] \o h[i]

LEMMA TailsExist ==
  ASSUME NEW s \in Seq(Seq(Byte))
  PROVE  \E h : Tails(s, h)
<1> DEFINE n == Len(s)
           Part(h, k) ==
             /\ h \in [0 .. n -> Seq(Byte)]
             /\ h[n] = <<>>
             /\ \A i \in 1 .. n : n - i < k => h[i - 1] = s[i] \o h[i]
           T == {k \in Nat : \E h : Part(h, k)}
<1>0. n \in Nat /\ <<>> \in Seq(Byte) /\ (\A i \in 1 .. n : s[i] \in Seq(Byte)) OBVIOUS
<1> HIDE DEF n
<1>1. 0 \in T
  <2> DEFINE h == [i \in 0 .. n |-> <<>>]
  <2>1. h \in [0 .. n -> Seq(Byte)] /\ h[n] = <<>> BY <1>0
  <2>2. \A i \in 1 .. n : ~(n - i < 0) BY <1>0
  <2> HIDE DEF h
  <2>3. Part(h, 0) BY <2>1, <2>2, Zenon
  <2> QED BY <2>3, Zenon
<1>2. \A k \in T : k + 1 \in T
  <2> TAKE k \in T
  <2>0. k \in Nat /\ \E h : Part(h, k) BY Zenon
  <2> PICK h : Part(h, k) BY <2>0, Zenon
  <2>1. h \in [0 .. n -> Seq(Byte)] /\ h[n] = <<>>
        /\ \A i \in 1 .. n : n - i < k => h[i - 1] = s[i] \o h[i]
    OBVIOUS
  <2> DEFINE m == n - k
             g == [i \in 0 .. n |-> IF i = m - 1 THEN s[m] \o h[m] ELSE h[i]]
  <2>2. g \in [0 .. n -> Seq(Byte)]
    <3> SUFFICES ASSUME NEW i \in 0 .. n PROVE (IF i = m - 1 THEN s[m] \o h[m] ELSE h[i]) \in Seq(Byte)
      OBVIOUS
    <3>1. CASE i = m - 1
      <4>1. m \in 0 .. n /\ m \in 1 .. n BY <1>0, <2>0, <3>1
      <4> HIDE DEF m
      <4>2. h[m] \in Seq(Byte) /\ s[m] \in Seq(Byte) BY <1>0, <2>1, <4>1
      <4>3. s[m] \o h[m] \in Seq(Byte) BY <4>2
      <4> QED BY <3>1, <4>3
    <3>2. CASE i # m - 1
      <4> HIDE DEF m
      <4> QED BY <2>1, <3>2
    <3> QED BY <3>1, <3>2
  <2>3. g[n] = <<>>
    <3>1. n \in 0 .. n /\ n # m - 1 BY <1>0, <2>0
    <3> HIDE DEF m
    <3> QED BY <2>1, <3>1
  <2>4. ASSUME NEW i \in 1 .. n, n - i < k + 1 PROVE g[i - 1] = s[i] \o g[i]
    <3>1. i \in 0 .. n /\ i - 1 \in 0 .. n /\ i # m - 1 BY <1>0, <2>0, <2>4
    <3>2. g[i] = h[i] BY <3>1
    <3>3. CASE i = m
      <4>1. g[i - 1] = s[m] \o h[m] BY <3>1, <3>3
      <4> HIDE DEF g, m
      <4> QED BY <3>2, <3>3, <4>1
    <3>4. CASE i # m
      <4>1. n - i < k /\ i - 1 # m - 1 BY <1>0, <2>0, <2>4, <3>4
      <4>2. g[i - 1] = h[i - 1] BY <3>1, <4>1
      <4> HIDE DEF g, m
      <4> QED BY <2>1, <3>2, <4>1, <4>2
    <3> QED BY <3>3, <3>4
  <2> HIDE DEF g
  <2>5. Part(g, k + 1) BY <2>2, <2>3, <2>4, Zenon
  <2>6. k + 1 \in Nat BY <2>0
  <2> QED BY <2>5, <2>6, Zenon
<1>3. T = Nat
  <2> HIDE DEF T
  <2>1. T \subseteq Nat BY DEF T
  <2> QED BY <1>1, <1>2, <2>1, SetInduction
<1>4. PICK h : Part(h, n) BY <1>0, <1>3
<1>5. \A i \in 1 .. n : n - i < n BY <1>0
<1>6. Tails(s, h) BY <1>4, <1>5 DEF Tails, n
<1> QED BY <1>6

LEMMA FlattenTails ==
  ASSUME NEW s \in Seq(Seq(Byte)), NEW h, Tails(s, h)
  PROVE  FlattenSeq(s) = h[0]
<1> DEFINE n == Len(s)
<1>0. n \in Nat /\ \A i \in 1 .. n : s[i] \in Seq(Byte) OBVIOUS
<1>1. PICK f : Joins(s, f) BY JoinsExist
<1>2. /\ \A i \in 0 .. n : f[i] \in Seq(Byte)
      /\ f[0] = <<>> /\ \A i \in 1 .. n : f[i] = f[i - 1] \o s[i]
  BY <1>1 DEF Joins
<1>3. /\ \A i \in 0 .. n : h[i] \in Seq(Byte)
      /\ h[n] = <<>> /\ \A i \in 1 .. n : h[i - 1] = s[i] \o h[i]
  BY DEF Tails
<1>4. FlattenSeq(s) = f[n] BY <1>1, FlattenJoins
<1> DEFINE T == {k \in Nat : k \in 0 .. n => f[k] \o h[k] = h[0]}
<1> HIDE DEF n
<1>5. 0 \in T
  <2>1. 0 \in 0 .. n BY <1>0
  <2>2. h[0] \in Seq(Byte) BY <1>3, <2>1
  <2>3. <<>> \o h[0] = h[0] BY <2>2
  <2> QED BY <1>2, <2>3
<1>6. \A k \in T : k + 1 \in T
  <2> TAKE k \in T
  <2>1. k \in Nat /\ (k \in 0 .. n => f[k] \o h[k] = h[0]) OBVIOUS
  <2>2. ASSUME k + 1 \in 0 .. n PROVE f[k + 1] \o h[k + 1] = h[0]
    <3>1. k \in 0 .. n /\ k + 1 \in 1 .. n /\ (k + 1) - 1 = k BY <1>0, <2>1, <2>2
    <3>2. f[k] \in Seq(Byte) /\ s[k + 1] \in Seq(Byte) /\ h[k + 1] \in Seq(Byte)
      BY <1>0, <1>2, <1>3, <3>1
    <3>3. f[k + 1] = f[k] \o s[k + 1] /\ h[k] = s[k + 1] \o h[k + 1] BY <1>2, <1>3, <3>1
    <3>4. \A a, b, c \in Seq(Byte) : (a \o b) \o c = a \o (b \o c) BY SMT
    <3>5. (f[k] \o s[k + 1]) \o h[k + 1] = f[k] \o (s[k + 1] \o h[k + 1]) BY <3>2, <3>4, Zenon
    <3> QED BY <2>1, <3>1, <3>3, <3>5, Zenon
  <2>3. k + 1 \in Nat BY <2>1
  <2> QED BY <2>2, <2>3, Zenon
<1>7. T = Nat
  <2> HIDE DEF T
  <2>1. T \subseteq Nat BY DEF T
  <2> QED BY <1>5, <1>6, <2>1, SetInduction
<1>8. n \in 0 .. n BY <1>0
<1>9. f[n] \o h[n] = h[0] BY <1>0, <1>7, <1>8
<1>10. f[n] \o <<>> = f[n]
  <2>1. f[n] \in Seq(Byte) BY <1>2, <1>8
  <2> QED BY <2>1
<1> QED BY <1>3, <1>4, <1>9, <1>10, Zenon DEF n

(* Entries as try_from_config makes them: the first a of them unknown to   *)
(* the peer.                                                               *)
Entry == [id : U64, value : U64]
WellWritten(E, a) ==
  /\ E \in Seq(Entry) /\ Len(E) <= SETTINGS_LEN /\ a \in 0 .. Len(E)
  /\ \A i \in 1 .. Len(E) :
       /\ IsVarInt(E[i].id) /\ IsVarInt(E[i].value) /\ E[i].id \notin is_forbidden
       /\ E[i].id \in is_supported <=> i > a
  /\ \A i, j \in 1 .. Len(E) : E[i].id = E[j].id => i = j
Written(e) == VarEncode(e.id) \o VarEncode(e.value)

LEMMA EntryWritten ==
  ASSUME NEW e \in Entry, IsVarInt(e.id), IsVarInt(e.value), NEW rest \in Seq(Byte)
  PROVE  LET b == Written(e) \o rest
         IN /\ Written(e) \in Seq(Byte) /\ Len(Written(e)) \in Nat /\ Len(Written(e)) >= 2
            /\ b # <<>> /\ ~(Len(b) < 2) /\ VarThere(b) /\ VarValue(b) = e.id
            /\ VarThere(VarRest(b)) /\ VarValue(VarRest(b)) = e.value
            /\ VarRest(VarRest(b)) = rest
<1> DEFINE x == VarEncode(e.id)
           y == VarEncode(e.value)
           w == x \o y
           b == w \o rest
<1>1. e.id \in U64 /\ e.value \in U64 BY DEF Entry
<1>2. x \in Seq(Byte) /\ Len(x) = VarSize(e.id) /\ VarSize(e.id) \in {1, 2, 4, 8}
  BY <1>1, Encoded, VarSizeFits
<1>3. y \in Seq(Byte) /\ Len(y) = VarSize(e.value) /\ VarSize(e.value) \in {1, 2, 4, 8}
  BY <1>1, Encoded, VarSizeFits
<1>4. Len(x) \in Nat /\ Len(x) >= 1 /\ Len(y) \in Nat /\ Len(y) >= 1 BY <1>2, <1>3
<1>5. VarThere(y \o rest) /\ VarValue(y \o rest) = e.value /\ VarRest(y \o rest) = rest
  BY <1>1, VarIntRoundTrip
<1>6. y \o rest \in Seq(Byte) BY <1>3
<1>7. /\ VarThere(x \o (y \o rest)) /\ VarValue(x \o (y \o rest)) = e.id
      /\ VarRest(x \o (y \o rest)) = y \o rest
  BY <1>1, <1>6, VarIntRoundTrip
<1> HIDE DEF x, y
<1>8. b = x \o (y \o rest)
  <2>1. \A p, q, r \in Seq(Byte) : (p \o q) \o r = p \o (q \o r) BY SMT
  <2> QED BY <1>2, <1>3, <2>1, Zenon
<1>9. w \in Seq(Byte) /\ Len(w) \in Nat /\ Len(w) >= 2
  <2>1. w \in Seq(Byte) /\ Len(w) = Len(x) + Len(y) BY <1>2, <1>3
  <2> HIDE DEF w
  <2> QED BY <1>4, <2>1
<1>10. b # <<>> /\ ~(Len(b) < 2)
  <2> HIDE DEF w
  <2>1. b \in Seq(Byte) /\ Len(b) = Len(w) + Len(rest) /\ Len(rest) \in Nat BY <1>9
  <2> HIDE DEF b
  <2> QED BY <1>9, <2>1
<1>11. w = Written(e) BY Zenon DEF Written, x, y
<1> HIDE DEF w
<1> QED BY <1>5, <1>7, <1>8, <1>9, <1>10, <1>11, Zenon

(* Settings::insert of an id that is not there yet.                        *)
LEMMA Inserted ==
  ASSUME NEW D \in Seq(Entry), Len(D) < SETTINGS_LEN, NEW e \in Entry,
         \A i \in 1 .. Len(D) : D[i].id # e.id
  PROVE  insert(Fine(D), e.id, e.value) = Fine(Append(D, e))
<1>1. Fine(D).entries = D BY Zenon DEF Fine
<1>2. Fine(D).error = "" BY Zenon DEF Fine
<1>3. DOMAIN D = 1 .. Len(D) /\ Len(D) \in Nat OBVIOUS
<1>4. ~(Len(D) >= SETTINGS_LEN) BY <1>3 DEF SETTINGS_LEN
<1>5. [id |-> e.id, value |-> e.value] = e BY DEF Entry
<1> QED BY <1>1, <1>2, <1>3, <1>4, <1>5, Zenon DEF insert

(* One round of the loop reads one entry.                                  *)
LEMMA EntryRead ==
  ASSUME NEW E, NEW a, WellWritten(E, a), NEW k \in Nat, k < Len(E), NEW rest \in Seq(Byte)
  PROVE  DecodeEntry([rest |-> Written(E[k + 1]) \o rest, settings |-> Fine(SubSeq(E, a + 1, k))])
           = [rest |-> rest, settings |-> Fine(SubSeq(E, a + 1, k + 1))]
<1> DEFINE e == E[k + 1]
           D == SubSeq(E, a + 1, k)
           b == Written(e) \o rest
           st == [rest |-> b, settings |-> Fine(D)]
<1>1. /\ E \in Seq(Entry) /\ Len(E) \in Nat /\ Len(E) <= SETTINGS_LEN /\ a \in 0 .. Len(E)
  BY DEF WellWritten
<1>2. k + 1 \in 1 .. Len(E) BY <1>1
<1>3. /\ e \in Entry /\ IsVarInt(e.id) /\ IsVarInt(e.value) /\ e.id \notin is_forbidden
      /\ e.id \in is_supported <=> k + 1 > a
  BY <1>1, <1>2 DEF WellWritten
<1>4. \A i \in 1 .. Len(E) : i # k + 1 => E[i].id # e.id BY <1>2 DEF WellWritten
<1>5. /\ b # <<>> /\ ~(Len(b) < 2) /\ VarThere(b) /\ VarValue(b) = e.id
      /\ VarThere(VarRest(b)) /\ VarValue(VarRest(b)) = e.value /\ VarRest(VarRest(b)) = rest
  BY <1>3, EntryWritten, Zenon
<1>6. Fine(D).error = "" BY Zenon DEF Fine
<1>7. st.rest = b /\ st.settings = Fine(D) BY Zenon
<1> HIDE DEF st, b, D, e
<1>8. DecodeEntry(st) = [rest |-> rest,
                         settings |-> IF e.id \in is_supported THEN insert(Fine(D), e.id, e.value)
                                      ELSE Fine(D)]
  BY <1>3, <1>5, <1>6, <1>7, Zenon DEF DecodeEntry
<1>9. (IF e.id \in is_supported THEN insert(Fine(D), e.id, e.value) ELSE Fine(D))
        = Fine(SubSeq(E, a + 1, k + 1))
  <2>1. CASE k + 1 > a
    <3>1. a \in Nat /\ a <= k BY <1>1, <2>1
    <3>2. D \in Seq(Entry) /\ Len(D) = k - a /\ \A i \in 1 .. (k - a) : D[i] = E[a + i]
      BY <1>1, <3>1 DEF D
    <3>3. Len(D) < SETTINGS_LEN BY <1>1, <3>1, <3>2 DEF SETTINGS_LEN
    <3>4. \A i \in 1 .. Len(D) : D[i].id # e.id
      <4>1. \A i \in 1 .. (k - a) : a + i \in 1 .. Len(E) /\ a + i # k + 1 BY <1>1, <3>1
      <4> QED BY <1>4, <3>2, <4>1, Zenon
    <3>5. insert(Fine(D), e.id, e.value) = Fine(Append(D, e)) BY <1>3, <3>2, <3>3, <3>4, Inserted
    <3>6. Append(D, e) = SubSeq(E, a + 1, k + 1)
      <4> DEFINE u == Append(D, e)
                 v == SubSeq(E, a + 1, k + 1)
      <4>1. /\ u \in Seq(Entry) /\ Len(u) = k - a + 1 /\ u[k - a + 1] = e
            /\ \A i \in 1 .. (k - a) : u[i] = E[a + i]
        <5>1. D \in Seq(Entry) /\ e \in Entry BY <1>3, <3>2
        <5>2. /\ u \in Seq(Entry) /\ Len(u) = Len(D) + 1 /\ u[Len(D) + 1] = e
              /\ \A i \in 1 .. Len(D) : u[i] = D[i]
          BY <5>1
        <5> HIDE DEF u
        <5> QED BY <3>2, <5>2, Zenon
      <4>2. \A m \in a .. Len(E) : LET x == SubSeq(E, a + 1, m)
                                   IN x \in Seq(Entry) /\ Len(x) = m - a
                                      /\ \A i \in 1 .. (m - a) : x[i] = E[a + i]
        BY <1>1, <3>1
      <4>3. k + 1 \in a .. Len(E) /\ (k + 1) - a = k - a + 1 BY <1>1, <3>1
      <4>4. /\ v \in Seq(Entry) /\ Len(v) = k - a + 1
            /\ \A i \in 1 .. (k - a + 1) : v[i] = E[a + i]
        BY <4>2, <4>3, Zenon
      <4> HIDE DEF u, v
      <4>5. a + (k - a + 1) = k + 1 /\ k - a + 1 \in 1 .. (k - a + 1) BY <3>1
      <4>6. \A i \in 1 .. (k - a + 1) : i = k - a + 1 \/ i \in 1 .. (k - a) BY <3>1
      <4>7. \A i \in 1 .. (k - a + 1) : u[i] = v[i]
        BY <4>1, <4>4, <4>5, <4>6, Zenon DEF e
      <4>8. u = v BY <4>1, <4>4, <4>7, SeqEqual
      <4> QED BY <4>8 DEF u, v
    <3> QED BY <1>3, <2>1, <3>5, <3>6, Zenon
  <2>2. CASE ~(k + 1 > a)
    <3>1. a \in Nat /\ k < a /\ k + 1 <= a BY <1>1, <2>2
    <3>2. D = <<>> BY <1>1, <3>1 DEF D
    <3>3. SubSeq(E, a + 1, k + 1) = <<>> BY <1>1, <3>1
    <3> QED BY <1>3, <2>2, <3>2, <3>3, Zenon
  <2> QED BY <2>1, <2>2
<1> QED BY <1>8, <1>9, Zenon DEF st, b, D, e

(* Settings::decode reads what Settings::encode wrote, without what it     *)
(* does not know.                                                          *)
LEMMA EntriesRead ==
  ASSUME NEW E, NEW a, WellWritten(E, a)
  PROVE  decode_settings(encode_settings(Fine(E))) = Fine(SubSeq(E, a + 1, Len(E)))
<1> DEFINE n == Len(E)
           c == [i \in 1 .. n |-> Written(E[i])]
           payload == encode_settings(Fine(E))
           N == Len(payload)
           First == [rest |-> payload, settings |-> Default]
           Solves(g) == g = [k \in Nat |-> IF k = 0 THEN First ELSE DecodeEntry(g[k - 1])]
           g == CHOOSE x : Solves(x)
<1>1. E \in Seq(Entry) /\ n \in Nat /\ a \in 0 .. n BY DEF WellWritten
<1>2. \A i \in 1 .. n : E[i] \in Entry /\ IsVarInt(E[i].id) /\ IsVarInt(E[i].value)
  BY <1>1 DEF WellWritten
<1>3. \A i \in 1 .. n : Written(E[i]) \in Seq(Byte) /\ Written(E[i]) # <<>>
  <2> TAKE i \in 1 .. n
  <2>1. <<>> \in Seq(Byte) OBVIOUS
  <2> DEFINE w == Written(E[i])
  <2>2. w \in Seq(Byte) /\ Len(w) >= 2 BY <1>2, <2>1, EntryWritten, Zenon
  <2> HIDE DEF w
  <2>3. w # <<>> BY <2>2
  <2> QED BY <2>2, <2>3, Zenon DEF w
<1>4. c \in Seq(Seq(Byte)) /\ Len(c) = n /\ \A i \in 1 .. n : c[i] = Written(E[i])
  <2>1. c \in [1 .. n -> Seq(Byte)] BY <1>3
  <2>2. \A i \in 1 .. n : c[i] = Written(E[i]) OBVIOUS
  <2> HIDE DEF c, n
  <2>3. c \in UNION {[1 .. m -> Seq(Byte)] : m \in Nat} BY <1>1, <2>1, Zenon
  <2>4. c \in Seq(Seq(Byte)) /\ DOMAIN c = 1 .. n
    <3>1. c \in Seq(Seq(Byte)) BY <2>3, SeqDef, Zenon
    <3> QED BY <2>1, <3>1, Zenon
  <2>5. Len(c) = n BY <1>1, <2>4
  <2> QED BY <2>2, <2>4, <2>5
<1>5. payload = FlattenSeq(c)
  <2>1. Fine(E).entries = E BY Zenon DEF Fine
  <2>2. DOMAIN E = 1 .. n BY <1>1
  <2> QED BY <2>1, <2>2, Zenon DEF encode_settings, Written
<1>6. IsBuf(c) BY <1>3, <1>4 DEF IsBuf
<1> HIDE DEF c, payload, n
<1>7. N \in Nat /\ N >= n BY <1>4, <1>5, <1>6, PayloadSize
<1>8. PICK h : Tails(c, h) BY <1>4, TailsExist
<1>9. /\ \A i \in 0 .. n : h[i] \in Seq(Byte)
      /\ h[n] = <<>> /\ \A i \in 1 .. n : h[i - 1] = Written(E[i]) \o h[i]
  BY <1>4, <1>8 DEF Tails
<1>10. payload = h[0] BY <1>4, <1>5, <1>8, FlattenTails
<1> HIDE DEF N
<1> DEFINE S(k) == [rest |-> h[k], settings |-> Fine(SubSeq(E, a + 1, k))]
           H(k) == IF k < n THEN S(k) ELSE S(n)
           T == {k \in Nat : g[k] = H(k)}
<1>11. H(0) = First
  <2>1. ~(0 < n) => n = 0 BY <1>1
  <2>2. SubSeq(E, a + 1, 0) = <<>> BY <1>1
  <2>3. H(0) = S(0) BY <2>1, Zenon
  <2>4. S(0) = First BY <1>10, <2>2, Zenon DEF Default
  <2> QED BY <2>3, <2>4, Zenon
<1>12. \A k \in Nat : k < n => DecodeEntry(S(k)) = S(k + 1)
  <2> SUFFICES ASSUME NEW k \in Nat, k < n PROVE DecodeEntry(S(k)) = S(k + 1) BY Zenon
  <2>1. k + 1 \in 1 .. n /\ k + 1 \in 0 .. n /\ (k + 1) - 1 = k BY <1>1
  <2>2. h[k] = Written(E[k + 1]) \o h[k + 1] /\ h[k + 1] \in Seq(Byte) BY <1>9, <2>1, Zenon
  <2>3. k < Len(E) BY DEF n
  <2> DEFINE r == h[k + 1]
             D == SubSeq(E, a + 1, k)
             D2 == SubSeq(E, a + 1, k + 1)
  <2>4. DecodeEntry([rest |-> Written(E[k + 1]) \o r, settings |-> Fine(D)])
          = [rest |-> r, settings |-> Fine(D2)]
    BY <2>2, <2>3, EntryRead, Zenon
  <2> QED BY <2>2, <2>4, Zenon
<1>13. DecodeEntry(S(n)) = S(n)
  <2>1. S(n).rest = <<>> BY <1>9, Zenon
  <2> HIDE DEF S
  <2> QED BY <2>1, Zenon DEF DecodeEntry
<1> HIDE DEF S, First
<1>14. \A k \in Nat : H(k + 1) = DecodeEntry(H(k))
  <2> SUFFICES ASSUME NEW k \in Nat PROVE H(k + 1) = DecodeEntry(H(k)) BY Zenon
  <2>1. CASE k < n
    <3>1. ~(k + 1 < n) => k + 1 = n BY <1>1, <2>1
    <3>2. H(k + 1) = S(k + 1) BY <3>1, Zenon
    <3>3. H(k) = S(k) BY <2>1, Zenon
    <3> QED BY <1>12, <2>1, <3>2, <3>3, Zenon
  <2>2. CASE ~(k < n)
    <3>1. ~(k + 1 < n) BY <1>1, <2>2
    <3> QED BY <1>13, <2>2, <3>1, Zenon
  <2> QED BY <2>1, <2>2
<1> HIDE DEF H
<1>15. Solves([k \in Nat |-> H(k)])
  <2> DEFINE f == [k \in Nat |-> H(k)]
  <2> SUFFICES ASSUME NEW k \in Nat PROVE H(k) = IF k = 0 THEN First ELSE DecodeEntry(f[k - 1])
    OBVIOUS
  <2>1. CASE k = 0 BY <1>11, <2>1
  <2>2. CASE k # 0
    <3>1. k - 1 \in Nat /\ (k - 1) + 1 = k BY <2>2
    <3>2. f[k - 1] = H(k - 1) BY <3>1
    <3>3. H((k - 1) + 1) = DecodeEntry(H(k - 1)) BY <1>14, <3>1
    <3> QED BY <2>2, <3>1, <3>2, <3>3
  <2> QED BY <2>1, <2>2
<1>16. Solves(g)
  <2> HIDE DEF Solves
  <2> QED BY <1>15
<1>17. decode_settings(payload) = g[N].settings BY Zenon DEF decode_settings, N, First
<1> HIDE DEF g
<1>18. g[0] = First /\ \A k \in Nat : g[k + 1] = DecodeEntry(g[k])
  <2>1. \A k \in Nat : k + 1 \in Nat /\ k + 1 # 0 /\ (k + 1) - 1 = k /\ 0 \in Nat OBVIOUS
  <2>2. \A k \in Nat : g[k] = IF k = 0 THEN First ELSE DecodeEntry(g[k - 1]) BY <1>16
  <2> HIDE DEF Solves
  <2>3. 0 \in Nat OBVIOUS
  <2>4. g[0] = First BY <2>2, <2>3, Zenon
  <2>5. ASSUME NEW k \in Nat PROVE g[k + 1] = DecodeEntry(g[k])
    <3>1. g[k + 1] = IF k + 1 = 0 THEN First ELSE DecodeEntry(g[(k + 1) - 1]) BY <2>1, <2>2
    <3> QED BY <2>1, <3>1
  <2> QED BY <2>4, <2>5
<1> HIDE DEF Solves
<1>19. 0 \in T BY <1>11, <1>18
<1>20. \A k \in T : k + 1 \in T
  <2> TAKE k \in T
  <2>1. k \in Nat /\ k + 1 \in Nat /\ g[k] = H(k) OBVIOUS
  <2>2. g[k + 1] = H(k + 1) BY <1>14, <1>18, <2>1, Zenon
  <2> QED BY <2>1, <2>2, Zenon
<1>21. T = Nat
  <2> HIDE DEF T
  <2>1. T \subseteq Nat BY DEF T
  <2> QED BY <1>19, <1>20, <2>1, SetInduction
<1>22. g[N] = H(N) BY <1>7, <1>21, Zenon
<1>23. H(N) = S(n)
  <2>1. ~(N < n) BY <1>1, <1>7
  <2> QED BY <2>1, Zenon DEF H
<1>24. S(n).settings = Fine(SubSeq(E, a + 1, n)) BY Zenon DEF S
<1> QED BY <1>17, <1>22, <1>23, <1>24, Zenon DEF payload, n

-----------------------------------------------------------------------------
(* Small numbers are told apart as u64s.                                   *)
LEMMA SmallDiffer ==
  \A m, n \in Nat : m < 64 * 256 * 256 * 256 /\ n < 64 * 256 * 256 * 256 /\ m # n
                    => u64(m) # u64(n)
<1> TAKE m, n \in Nat
<1> SUFFICES ASSUME m < 64 * 256 * 256 * 256, n < 64 * 256 * 256 * 256, u64(m) = u64(n)
             PROVE  m = n
  BY Zenon
<1> DEFINE Num(x) == ((x[5] * 256 + x[6]) * 256 + x[7]) * 256 + x[8]
<1>1. m = Num(u64(m)) /\ n = Num(u64(n)) BY SmallU64
<1> HIDE DEF Num
<1> QED BY <1>1, Zenon

(* The ids try_from_config writes.                                         *)
LEMMA WrittenIds ==
  LET ids == <<grease, MAX_HEADER_LIST_SIZE, ENABLE_CONNECT_PROTOCOL, ENABLE_WEBTRANSPORT,
               H3_DATAGRAM, WEBTRANSPORT_MAX_SESSIONS>>
  IN /\ \A i \in 1 .. 6 : /\ ids[i] \in U64 /\ IsVarInt(ids[i]) /\ ids[i] \notin is_forbidden
                          /\ ids[i] \in is_supported <=> i # 1
     /\ \A i, j \in 1 .. 6 : i # j => ids[i] # ids[j]
<1> DEFINE num == <<33, 6, 8, 727725890, 51, 727725891>>
           ids == <<grease, MAX_HEADER_LIST_SIZE, ENABLE_CONNECT_PROTOCOL, ENABLE_WEBTRANSPORT,
                    H3_DATAGRAM, WEBTRANSPORT_MAX_SESSIONS>>
           Small(n) == n \in Nat /\ n < 64 * 256 * 256 * 256
<1>1. \A i \in 1 .. 6 : ids[i] = u64(num[i])
  <2>1. /\ grease = u64(33) /\ MAX_HEADER_LIST_SIZE = u64(6) /\ ENABLE_CONNECT_PROTOCOL = u64(8)
        /\ ENABLE_WEBTRANSPORT = u64(727725890) /\ H3_DATAGRAM = u64(51)
        /\ WEBTRANSPORT_MAX_SESSIONS = u64(727725891)
    BY SMT DEF grease, MAX_HEADER_LIST_SIZE, ENABLE_CONNECT_PROTOCOL, ENABLE_WEBTRANSPORT,
               H3_DATAGRAM, WEBTRANSPORT_MAX_SESSIONS
  <2> QED BY <2>1, SMT
<1>2. \A i \in 1 .. 6 : Small(num[i]) BY SMT
<1>3. \A i, j \in 1 .. 6 : i # j => num[i] # num[j] BY SMT
<1>4. \A i \in 1 .. 6 : \A n \in {0, 2, 3, 4, 5} : num[i] # n BY SMT
<1>5. \A n \in {1, 6, 7, 8, 51, 727725890, 727725891} : Small(n) /\ num[1] # n BY SMT
<1>6. \A n \in {0, 2, 3, 4, 5} : Small(n) BY SMT
<1>7. \A i \in 1 .. 6 : i # 1 => ids[i] \in is_supported BY SMT DEF is_supported
<1>8. is_supported = {u64(n) : n \in {1, 6, 7, 8, 51, 727725890, 727725891}}
  BY SMT DEF is_supported, QPACK_MAX_TABLE_CAPACITY, MAX_HEADER_LIST_SIZE,
             QPACK_MAX_BLOCKED_STREAMS, ENABLE_CONNECT_PROTOCOL, H3_DATAGRAM,
             ENABLE_WEBTRANSPORT, WEBTRANSPORT_MAX_SESSIONS
<1> DEFINE supported == {1, 6, 7, 8, 51, 727725890, 727725891}
           forbidden == {0, 2, 3, 4, 5}
<1> HIDE DEF num, ids, supported
<1>9. \A m, n : Small(m) /\ Small(n) /\ m # n => u64(m) # u64(n) BY SmallDiffer
<1>10. \A m : Small(m) => u64(m) \in U64 /\ IsVarInt(u64(m)) BY SmallU64
<1> HIDE DEF Small
<1>11. \A i \in 1 .. 6 : ids[i] \in U64 /\ IsVarInt(ids[i]) BY <1>1, <1>2, <1>10, Zenon
<1>12. \A i, j \in 1 .. 6 : i # j => ids[i] # ids[j] BY <1>1, <1>2, <1>3, <1>9, Zenon
<1>13. \A i \in 1 .. 6 : ids[i] \notin is_forbidden
  <2> TAKE i \in 1 .. 6
  <2>1. \A n \in forbidden : ids[i] # u64(n) BY <1>1, <1>2, <1>4, <1>6, <1>9, Zenon
  <2> HIDE DEF forbidden
  <2>2. is_forbidden = {u64(n) : n \in forbidden} BY Zenon DEF is_forbidden, forbidden
  <2> QED BY <2>1, <2>2, Zenon
<1>14. ids[1] \notin is_supported
  <2>1. 1 \in 1 .. 6 BY SMT
  <2>2. \A n \in supported : Small(n) /\ num[1] # n BY <1>5, SMT DEF supported
  <2>3. \A n \in supported : ids[1] # u64(n) BY <1>1, <1>2, <1>9, <2>1, <2>2, Zenon
  <2>4. is_supported = {u64(n) : n \in supported} BY <1>8, SMT DEF supported
  <2> QED BY <2>3, <2>4, Zenon
<1>15. \A i \in 1 .. 6 : ids[i] \in is_supported <=> i # 1 BY <1>7, <1>14, Zenon
<1> QED BY <1>11, <1>12, <1>13, <1>15, Zenon DEF ids

(* What h3 writes of a configuration.                                      *)
Setting(name, v) == [id |-> name, value |-> v]
Known(c) ==
  <<Setting(MAX_HEADER_LIST_SIZE, c.max_field_section_size),
    Setting(ENABLE_CONNECT_PROTOCOL, Flag(c.enable_extended_connect)),
    Setting(ENABLE_WEBTRANSPORT, Flag(c.enable_webtransport)),
    Setting(H3_DATAGRAM, Flag(c.enable_datagram)),
    Setting(WEBTRANSPORT_MAX_SESSIONS, c.max_webtransport_sessions)>>

LEMMA Flags == \A b \in BOOLEAN : Flag(b) \in U64 /\ IsVarInt(Flag(b)) /\ (Flag(b) # Zero <=> b)
<1>1. 0 < 64 * 256 * 256 * 256 /\ 1 < 64 * 256 * 256 * 256 /\ 0 \in Nat /\ 1 \in Nat /\ 0 # 1
  BY SMT
<1>2. u64(0) \in U64 /\ IsVarInt(u64(0)) /\ u64(1) \in U64 /\ IsVarInt(u64(1))
  BY <1>1, SmallU64
<1>3. u64(1) # u64(0) BY <1>1, SmallDiffer
<1> QED BY <1>2, <1>3, Zenon DEF Flag, Zero

(* The entries it is made of.                                              *)
LEMMA Entries ==
  ASSUME NEW c \in ConfigSettings
  PROVE  /\ Setting(grease, Zero) \in Entry /\ IsVarInt(Zero)
         /\ \A i \in 1 .. 5 : Known(c)[i] \in Entry
         /\ IsVarInt(Known(c)[2].value) /\ IsVarInt(Known(c)[3].value) /\ IsVarInt(Known(c)[4].value)
         /\ Known(c)[1].value = c.max_field_section_size
         /\ Known(c)[5].value = c.max_webtransport_sessions
<1> DEFINE a1 == c.max_field_section_size
           a2 == Flag(c.enable_extended_connect)
           a3 == Flag(c.enable_webtransport)
           a4 == Flag(c.enable_datagram)
           a5 == c.max_webtransport_sessions
           ids == <<grease, MAX_HEADER_LIST_SIZE, ENABLE_CONNECT_PROTOCOL, ENABLE_WEBTRANSPORT,
                    H3_DATAGRAM, WEBTRANSPORT_MAX_SESSIONS>>
<1>1. /\ a1 \in U64 /\ a5 \in U64 /\ c.enable_extended_connect \in BOOLEAN
      /\ c.enable_webtransport \in BOOLEAN /\ c.enable_datagram \in BOOLEAN
  BY DEF ConfigSettings
<1>2. a2 \in U64 /\ a3 \in U64 /\ a4 \in U64 /\ IsVarInt(a2) /\ IsVarInt(a3) /\ IsVarInt(a4)
  BY <1>1, Flags, Zenon
<1>3. Zero \in U64 /\ IsVarInt(Zero)
  <2>1. FALSE \in BOOLEAN /\ Flag(FALSE) = Zero BY DEF Flag
  <2> QED BY <2>1, Flags, Zenon
<1>4. \A i \in 1 .. 6 : ids[i] \in U64 BY WrittenIds, Zenon
<1>5. /\ grease \in U64 /\ MAX_HEADER_LIST_SIZE \in U64 /\ ENABLE_CONNECT_PROTOCOL \in U64
      /\ ENABLE_WEBTRANSPORT \in U64 /\ H3_DATAGRAM \in U64 /\ WEBTRANSPORT_MAX_SESSIONS \in U64
  BY <1>4
<1>6. \A i, v \in U64 : Setting(i, v) \in Entry /\ Setting(i, v).value = v BY DEF Setting, Entry
<1> HIDE DEF a1, a2, a3, a4, a5
<1>7. Known(c) = <<Setting(MAX_HEADER_LIST_SIZE, a1), Setting(ENABLE_CONNECT_PROTOCOL, a2),
                   Setting(ENABLE_WEBTRANSPORT, a3), Setting(H3_DATAGRAM, a4),
                   Setting(WEBTRANSPORT_MAX_SESSIONS, a5)>>
  BY Zenon DEF Known, a1, a2, a3, a4, a5
<1>8. /\ Known(c)[1] = Setting(MAX_HEADER_LIST_SIZE, a1)
      /\ Known(c)[2] = Setting(ENABLE_CONNECT_PROTOCOL, a2)
      /\ Known(c)[3] = Setting(ENABLE_WEBTRANSPORT, a3)
      /\ Known(c)[4] = Setting(H3_DATAGRAM, a4)
      /\ Known(c)[5] = Setting(WEBTRANSPORT_MAX_SESSIONS, a5)
  BY <1>7
<1>9. /\ Known(c)[1] \in Entry /\ Known(c)[1].value = a1
      /\ Known(c)[2] \in Entry /\ Known(c)[2].value = a2
      /\ Known(c)[3] \in Entry /\ Known(c)[3].value = a3
      /\ Known(c)[4] \in Entry /\ Known(c)[4].value = a4
      /\ Known(c)[5] \in Entry /\ Known(c)[5].value = a5
  BY <1>1, <1>2, <1>5, <1>6, <1>8, SMT
<1>10. Setting(grease, Zero) \in Entry BY <1>3, <1>5, <1>6, Zenon
<1>11. \A i \in 1 .. 5 : i = 1 \/ i = 2 \/ i = 3 \/ i = 4 \/ i = 5 BY SMT
<1>12. \A i \in 1 .. 5 : Known(c)[i] \in Entry BY <1>9, <1>11, Zenon
<1>13. a1 = c.max_field_section_size /\ a5 = c.max_webtransport_sessions BY Zenon DEF a1, a5
<1> QED BY <1>2, <1>3, <1>9, <1>10, <1>12, <1>13, Zenon

Avoids(D, name) == \A i \in 1 .. Len(D) : D[i].id # name

LEMMA Appended ==
  ASSUME NEW D \in Seq(Entry), NEW e \in Entry, Avoids(D, e.id), Len(D) < SETTINGS_LEN
  PROVE  /\ insert(Fine(D), e.id, e.value) = Fine(Append(D, e))
         /\ Append(D, e) \in Seq(Entry) /\ Len(Append(D, e)) = Len(D) + 1
         /\ \A name : Avoids(D, name) /\ e.id # name => Avoids(Append(D, e), name)
<1> DEFINE u == Append(D, e)
<1>1. /\ u \in Seq(Entry) /\ Len(u) = Len(D) + 1 /\ u[Len(D) + 1] = e
      /\ \A i \in 1 .. Len(D) : u[i] = D[i]
  OBVIOUS
<1>2. insert(Fine(D), e.id, e.value) = Fine(u) BY Inserted DEF Avoids
<1>3. \A i \in 1 .. (Len(D) + 1) : i \in 1 .. Len(D) \/ i = Len(D) + 1
  <2>1. Len(D) \in Nat OBVIOUS
  <2> QED BY <2>1
<1> HIDE DEF u
<1>4. \A name : Avoids(D, name) /\ e.id # name => Avoids(u, name)
  BY <1>1, <1>3, Zenon DEF Avoids
<1> QED BY <1>1, <1>2, <1>4, Zenon DEF u

(* TryFrom<Config> writes all of them, after what may be there for grease. *)
Five(k1, k2, k3, k4, k5) == <<k1, k2, k3, k4, k5>>
Insertable(D, k1, k2, k3, k4, k5) ==
  /\ D \in Seq(Entry) /\ Len(D) \in 0 .. 1
  /\ k1 \in Entry /\ k2 \in Entry /\ k3 \in Entry /\ k4 \in Entry /\ k5 \in Entry
  /\ Avoids(D, k1.id) /\ Avoids(D, k2.id) /\ Avoids(D, k3.id) /\ Avoids(D, k4.id)
  /\ Avoids(D, k5.id)
  /\ k1.id \notin {k2.id, k3.id, k4.id, k5.id} /\ k2.id \notin {k3.id, k4.id, k5.id}
  /\ k3.id \notin {k4.id, k5.id} /\ k4.id # k5.id
AllInserted(D, k1, k2, k3, k4, k5) ==
  LET s1 == insert(Fine(D), k1.id, k1.value)
      s2 == insert(s1, k2.id, k2.value)
      s3 == insert(s2, k3.id, k3.value)
      s4 == insert(s3, k4.id, k4.value)
  IN insert(s4, k5.id, k5.value)

LEMMA FiveInserted ==
  ASSUME NEW D, NEW k1, NEW k2, NEW k3, NEW k4, NEW k5, Insertable(D, k1, k2, k3, k4, k5)
  PROVE  AllInserted(D, k1, k2, k3, k4, k5) = Fine(D \o Five(k1, k2, k3, k4, k5))
<1> DEFINE D1 == Append(D, k1)
           D2 == Append(D1, k2)
           D3 == Append(D2, k3)
           D4 == Append(D3, k4)
           D5 == Append(D4, k5)
           l == Len(D)
<1> USE DEF Insertable
<1>0. /\ l < SETTINGS_LEN /\ l + 1 < SETTINGS_LEN /\ l + 1 + 1 < SETTINGS_LEN
      /\ l + 1 + 1 + 1 < SETTINGS_LEN /\ l + 1 + 1 + 1 + 1 < SETTINGS_LEN /\ l \in Nat
  <2>1. l \in 0 .. 1 BY Zenon
  <2> HIDE DEF l
  <2> QED BY ONLY <2>1, SMT DEF SETTINGS_LEN
<1>1. /\ insert(Fine(D), k1.id, k1.value) = Fine(D1) /\ D1 \in Seq(Entry) /\ Len(D1) = l + 1
      /\ Avoids(D1, k2.id) /\ Avoids(D1, k3.id) /\ Avoids(D1, k4.id) /\ Avoids(D1, k5.id)
  BY <1>0, Appended, Zenon
<1> HIDE DEF D1, l
<1>2. /\ insert(Fine(D1), k2.id, k2.value) = Fine(D2) /\ D2 \in Seq(Entry) /\ Len(D2) = l + 1 + 1
      /\ Avoids(D2, k3.id) /\ Avoids(D2, k4.id) /\ Avoids(D2, k5.id)
  BY <1>0, <1>1, Appended, Zenon
<1> HIDE DEF D2
<1>3. /\ insert(Fine(D2), k3.id, k3.value) = Fine(D3) /\ D3 \in Seq(Entry)
      /\ Len(D3) = l + 1 + 1 + 1 /\ Avoids(D3, k4.id) /\ Avoids(D3, k5.id)
  BY <1>0, <1>2, Appended, Zenon
<1> HIDE DEF D3
<1>4. /\ insert(Fine(D3), k4.id, k4.value) = Fine(D4) /\ D4 \in Seq(Entry)
      /\ Len(D4) = l + 1 + 1 + 1 + 1 /\ Avoids(D4, k5.id)
  BY <1>0, <1>3, Appended, Zenon
<1> HIDE DEF D4
<1>5. /\ insert(Fine(D4), k5.id, k5.value) = Fine(D5) /\ D5 \in Seq(Entry)
      /\ Len(D5) = l + 1 + 1 + 1 + 1 + 1
  BY <1>0, <1>4, Appended, Zenon
<1> HIDE DEF D5
<1>6. AllInserted(D, k1, k2, k3, k4, k5) = Fine(D5)
  BY <1>1, <1>2, <1>3, <1>4, <1>5, Zenon DEF AllInserted
<1>7. D \in Seq(Entry) /\ k1 \in Entry /\ k2 \in Entry /\ k3 \in Entry /\ k4 \in Entry /\ k5 \in Entry
  BY Zenon
<1> HIDE DEF Insertable
<1>8. \A s \in Seq(Entry), e \in Entry : /\ Append(s, e)[Len(s) + 1] = e
                                         /\ \A i \in 1 .. Len(s) : Append(s, e)[i] = s[i]
  OBVIOUS
<1> DEFINE K == Five(k1, k2, k3, k4, k5)
           E == D \o K
<1>9. K \in Seq(Entry) /\ Len(K) = 5 /\ K[1] = k1 /\ K[2] = k2 /\ K[3] = k3 /\ K[4] = k4 /\ K[5] = k5
  BY <1>7 DEF Five
<1> HIDE DEF K
<1>10. /\ E \in Seq(Entry) /\ Len(E) = l + 5 /\ \A i \in 1 .. l : E[i] = D[i]
       /\ E[l + 1] = k1 /\ E[l + 2] = k2 /\ E[l + 3] = k3 /\ E[l + 4] = k4 /\ E[l + 5] = k5
  <2>1. \A s, t \in Seq(Entry) : /\ s \o t \in Seq(Entry) /\ Len(s \o t) = Len(s) + Len(t)
                                 /\ \A i \in 1 .. Len(s) : (s \o t)[i] = s[i]
                                 /\ \A i \in 1 .. Len(t) : (s \o t)[Len(s) + i] = t[i]
    BY SMT
  <2>2. E \in Seq(Entry) /\ Len(E) = Len(D) + Len(K) /\ \A i \in 1 .. Len(D) : E[i] = D[i]
    BY <1>7, <1>9, <2>1, Zenon
  <2>3. \A i \in 1 .. Len(K) : E[Len(D) + i] = K[i] BY <1>7, <1>9, <2>1, Zenon
  <2>4. 1 \in 1 .. 5 /\ 2 \in 1 .. 5 /\ 3 \in 1 .. 5 /\ 4 \in 1 .. 5 /\ 5 \in 1 .. 5 BY SMT
  <2> HIDE DEF E
  <2> QED BY <1>9, <2>2, <2>3, <2>4 DEF l
<1> HIDE DEF E
<1>11. /\ D1[l + 1] = k1 /\ \A i \in 1 .. l : D1[i] = D[i] BY <1>7, <1>8, Zenon DEF D1, l
<1>12. /\ D2[l + 2] = k2 /\ \A i \in 1 .. (l + 1) : D2[i] = D1[i]
  <2>1. D2[Len(D1) + 1] = k2 /\ \A i \in 1 .. Len(D1) : D2[i] = D1[i] BY <1>1, <1>7, <1>8, Zenon DEF D2
  <2> QED BY <1>0, <1>1, <2>1
<1>13. /\ D3[l + 3] = k3 /\ \A i \in 1 .. (l + 2) : D3[i] = D2[i]
  <2>1. D3[Len(D2) + 1] = k3 /\ \A i \in 1 .. Len(D2) : D3[i] = D2[i] BY <1>2, <1>7, <1>8, Zenon DEF D3
  <2> QED BY <1>0, <1>2, <2>1
<1>14. /\ D4[l + 4] = k4 /\ \A i \in 1 .. (l + 3) : D4[i] = D3[i]
  <2>1. D4[Len(D3) + 1] = k4 /\ \A i \in 1 .. Len(D3) : D4[i] = D3[i] BY <1>3, <1>7, <1>8, Zenon DEF D4
  <2> QED BY <1>0, <1>3, <2>1
<1>15. /\ D5[l + 5] = k5 /\ \A i \in 1 .. (l + 4) : D5[i] = D4[i]
  <2>1. D5[Len(D4) + 1] = k5 /\ \A i \in 1 .. Len(D4) : D5[i] = D4[i] BY <1>4, <1>7, <1>8, Zenon DEF D5
  <2> QED BY <1>0, <1>4, <2>1
<1>16. \A i \in 1 .. (l + 5) : D5[i] = E[i] BY <1>0, <1>10, <1>11, <1>12, <1>13, <1>14, <1>15
<1>17. D5 = E
  <2>1. Len(D5) = l + 5 BY <1>0, <1>5
  <2> QED BY <1>5, <1>10, <1>16, <2>1, SeqEqual
<1> QED BY <1>6, <1>17, Zenon DEF E, K

(* What is known of the entries of a configuration.                        *)
LEMMA KnownEntries ==
  ASSUME NEW c \in ConfigSettings
  PROVE  \E G, k1, k2, k3, k4, k5 \in Entry :
           /\ G = Setting(grease, Zero) /\ Known(c) = Five(k1, k2, k3, k4, k5)
           /\ G.id = grease /\ G.value = Zero /\ IsVarInt(Zero)
           /\ k1.id = MAX_HEADER_LIST_SIZE /\ k1.value = c.max_field_section_size
           /\ k2.id = ENABLE_CONNECT_PROTOCOL /\ k2.value = Flag(c.enable_extended_connect)
           /\ k3.id = ENABLE_WEBTRANSPORT /\ k3.value = Flag(c.enable_webtransport)
           /\ k4.id = H3_DATAGRAM /\ k4.value = Flag(c.enable_datagram)
           /\ k5.id = WEBTRANSPORT_MAX_SESSIONS /\ k5.value = c.max_webtransport_sessions
           /\ IsVarInt(k2.value) /\ IsVarInt(k3.value) /\ IsVarInt(k4.value)
<1> DEFINE G == Setting(grease, Zero)
           k1 == Setting(MAX_HEADER_LIST_SIZE, c.max_field_section_size)
           k2 == Setting(ENABLE_CONNECT_PROTOCOL, Flag(c.enable_extended_connect))
           k3 == Setting(ENABLE_WEBTRANSPORT, Flag(c.enable_webtransport))
           k4 == Setting(H3_DATAGRAM, Flag(c.enable_datagram))
           k5 == Setting(WEBTRANSPORT_MAX_SESSIONS, c.max_webtransport_sessions)
<1>1. Known(c) = Five(k1, k2, k3, k4, k5) BY Zenon DEF Known, Five
<1>2. \A i, v : Setting(i, v).id = i /\ Setting(i, v).value = v BY DEF Setting
<1>3. /\ G.id = grease /\ G.value = Zero
      /\ k1.id = MAX_HEADER_LIST_SIZE /\ k1.value = c.max_field_section_size
      /\ k2.id = ENABLE_CONNECT_PROTOCOL /\ k2.value = Flag(c.enable_extended_connect)
      /\ k3.id = ENABLE_WEBTRANSPORT /\ k3.value = Flag(c.enable_webtransport)
      /\ k4.id = H3_DATAGRAM /\ k4.value = Flag(c.enable_datagram)
      /\ k5.id = WEBTRANSPORT_MAX_SESSIONS /\ k5.value = c.max_webtransport_sessions
  BY <1>2, Zenon
<1> HIDE DEF G, k1, k2, k3, k4, k5
<1>4. /\ Known(c)[1] = k1 /\ Known(c)[2] = k2 /\ Known(c)[3] = k3 /\ Known(c)[4] = k4
      /\ Known(c)[5] = k5
  BY <1>1 DEF Five
<1>5. 1 \in 1 .. 5 /\ 2 \in 1 .. 5 /\ 3 \in 1 .. 5 /\ 4 \in 1 .. 5 /\ 5 \in 1 .. 5 BY SMT
<1>6. /\ k1 \in Entry /\ k2 \in Entry /\ k3 \in Entry /\ k4 \in Entry /\ k5 \in Entry
      /\ IsVarInt(k2.value) /\ IsVarInt(k3.value) /\ IsVarInt(k4.value) /\ IsVarInt(Zero)
  BY <1>4, <1>5, Entries
<1>7. G \in Entry BY Entries DEF G
<1> QED BY <1>1, <1>3, <1>6, <1>7, Zenon DEF G

(* Settings::get finds the entry of an id.                                 *)
LEMMA EntryFound ==
  ASSUME NEW D \in Seq(Entry), \A i, j \in 1 .. Len(D) : D[i].id = D[j].id => i = j,
         NEW k \in 1 .. Len(D), NEW default
  PROVE  get(Fine(D), D[k].id, default) = D[k].value
<1> DEFINE name == D[k].id
           s == Fine(D)
           here == {i \in DOMAIN s.entries : s.entries[i].id = name}
<1>1. DOMAIN D = 1 .. Len(D) /\ k <= k OBVIOUS
<1>2. s.entries = D BY Zenon DEF Fine
<1>3. here = {k}
  <2>1. \A i : i \in here <=> i \in 1 .. Len(D) /\ D[i].id = name BY <1>1, <1>2, Zenon
  <2> HIDE DEF here
  <2> QED BY <2>1, Zenon
<1> HIDE DEF name, s
<1>4. get(s, name, default)
        = IF here = {} THEN default
          ELSE s.entries[CHOOSE i \in here : \A j \in here : i <= j].value
  BY Zenon DEF get
<1> HIDE DEF here
<1>5. here # {} /\ (CHOOSE i \in here : \A j \in here : i <= j) = k BY <1>1, <1>3, Zenon
<1> QED BY <1>2, <1>4, <1>5, Zenon DEF s, name

(* SETTINGS as h3 writes them, with and without grease.                    *)
Greased(g) == IF g THEN <<Setting(grease, Zero)>> ELSE <<>>

LEMMA ConfigWritten ==
  ASSUME NEW c \in ConfigSettings, NEW g \in BOOLEAN
  PROVE  LET E == Greased(g) \o Known(c)
             a == Len(Greased(g))
         IN /\ try_from_config(c, g) = Fine(E)
            /\ (\A i \in 1 .. Len(E) : IsVarInt(E[i].value)) => WellWritten(E, a)
            /\ SubSeq(E, a + 1, Len(E)) = Known(c)
            /\ Known(c) \in Seq(Entry) /\ Len(Known(c)) = 5
            /\ \A i, j \in 1 .. 5 : Known(c)[i].id = Known(c)[j].id => i = j
<1> DEFINE ids == <<grease, MAX_HEADER_LIST_SIZE, ENABLE_CONNECT_PROTOCOL, ENABLE_WEBTRANSPORT,
                    H3_DATAGRAM, WEBTRANSPORT_MAX_SESSIONS>>
<1>1. /\ \A i \in 1 .. 6 : /\ ids[i] \in U64 /\ IsVarInt(ids[i]) /\ ids[i] \notin is_forbidden
                           /\ ids[i] \in is_supported <=> i # 1
      /\ \A i, j \in 1 .. 6 : i # j => ids[i] # ids[j]
  BY WrittenIds, Zenon
<1>2. PICK G, k1, k2, k3, k4, k5 \in Entry :
        /\ G = Setting(grease, Zero) /\ Known(c) = Five(k1, k2, k3, k4, k5)
        /\ G.id = grease /\ G.value = Zero /\ IsVarInt(Zero)
        /\ k1.id = MAX_HEADER_LIST_SIZE /\ k1.value = c.max_field_section_size
        /\ k2.id = ENABLE_CONNECT_PROTOCOL /\ k2.value = Flag(c.enable_extended_connect)
        /\ k3.id = ENABLE_WEBTRANSPORT /\ k3.value = Flag(c.enable_webtransport)
        /\ k4.id = H3_DATAGRAM /\ k4.value = Flag(c.enable_datagram)
        /\ k5.id = WEBTRANSPORT_MAX_SESSIONS /\ k5.value = c.max_webtransport_sessions
        /\ IsVarInt(k2.value) /\ IsVarInt(k3.value) /\ IsVarInt(k4.value)
  BY KnownEntries, Zenon
<1> DEFINE K == Five(k1, k2, k3, k4, k5)
           D == Greased(g)
           E == D \o K
           a == Len(D)
<1>3. /\ ids[1] = G.id /\ ids[2] = k1.id /\ ids[3] = k2.id /\ ids[4] = k3.id /\ ids[5] = k4.id
      /\ ids[6] = k5.id
  BY <1>2
<1>4. K \in Seq(Entry) /\ Len(K) = 5 /\ K[1] = k1 /\ K[2] = k2 /\ K[3] = k3 /\ K[4] = k4 /\ K[5] = k5
  BY DEF Five
<1> HIDE DEF ids, K
<1>5. \A i \in 1 .. 5 : K[i].id = ids[i + 1] BY <1>3, <1>4
<1>6. D = IF g THEN <<G>> ELSE <<>> BY <1>2, Zenon DEF Greased
<1> HIDE DEF D
<1>7. D \in Seq(Entry) /\ a \in 0 .. 1 /\ (\A i \in 1 .. a : D[i].id = ids[1]) /\ (g <=> a = 1)
  <2>1. CASE g
    <3>1. D = <<G>> BY <1>6, <2>1, Zenon
    <3> QED BY <1>3, <2>1, <3>1
  <2>2. CASE ~g
    <3>1. D = <<>> BY <1>6, <2>2, Zenon
    <3> QED BY <2>2, <3>1
  <2> QED BY <2>1, <2>2
<1>8. /\ 1 \in 1 .. 6 /\ 2 \in 1 .. 6 /\ 3 \in 1 .. 6 /\ 4 \in 1 .. 6 /\ 5 \in 1 .. 6 /\ 6 \in 1 .. 6
  BY SMT
<1>9. /\ k1.id # ids[1] /\ k2.id # ids[1] /\ k3.id # ids[1] /\ k4.id # ids[1] /\ k5.id # ids[1]
      /\ k1.id \notin {k2.id, k3.id, k4.id, k5.id} /\ k2.id \notin {k3.id, k4.id, k5.id}
      /\ k3.id \notin {k4.id, k5.id} /\ k4.id # k5.id
  BY <1>1, <1>3, <1>8
<1>10. \A name : ids[1] # name => Avoids(D, name) BY <1>7, Zenon DEF Avoids
<1>11. Insertable(D, k1, k2, k3, k4, k5)
  <2>1. /\ Avoids(D, k1.id) /\ Avoids(D, k2.id) /\ Avoids(D, k3.id) /\ Avoids(D, k4.id)
        /\ Avoids(D, k5.id)
    BY <1>9, <1>10, Zenon
  <2> QED BY <1>7, <1>9, <2>1, Zenon DEF Insertable
<1>12. try_from_config(c, g) = Fine(E)
  <2>1. AllInserted(D, k1, k2, k3, k4, k5) = Fine(E) BY <1>11, FiveInserted, Zenon DEF K
  <2>2. (IF g THEN insert(Default, grease, Zero) ELSE Default) = Fine(D)
    <3>1. CASE g
      <4>1. <<>> \in Seq(Entry) /\ Len(<<>>) < SETTINGS_LEN /\ Append(<<>>, G) = <<G>>
        BY DEF SETTINGS_LEN
      <4>2. Avoids(<<>>, G.id) BY DEF Avoids
      <4>3. insert(Fine(<<>>), G.id, G.value) = Fine(Append(<<>>, G)) BY <4>1, <4>2, Appended, Zenon
      <4> QED BY <1>2, <1>6, <3>1, <4>1, <4>3, Zenon DEF Default
    <3>2. CASE ~g BY <1>6, <3>2, Zenon DEF Default
    <3> QED BY <3>1, <3>2
  <2>3. try_from_config(c, g) = AllInserted(D, k1, k2, k3, k4, k5)
    BY <1>2, <2>2, Zenon DEF try_from_config, AllInserted
  <2> QED BY <2>1, <2>3, Zenon
<1>13. /\ E \in Seq(Entry) /\ Len(E) = a + 5 /\ \A i \in 1 .. a : E[i] = D[i]
       /\ \A i \in 1 .. 5 : E[a + i] = K[i]
  <2>1. \A s, t \in Seq(Entry) : /\ s \o t \in Seq(Entry) /\ Len(s \o t) = Len(s) + Len(t)
                                 /\ \A i \in 1 .. Len(s) : (s \o t)[i] = s[i]
                                 /\ \A i \in 1 .. Len(t) : (s \o t)[Len(s) + i] = t[i]
    BY SMT
  <2>2. E \in Seq(Entry) /\ Len(E) = Len(D) + Len(K) /\ \A i \in 1 .. Len(D) : E[i] = D[i]
    BY <1>4, <1>7, <2>1, Zenon
  <2>3. \A i \in 1 .. Len(K) : E[Len(D) + i] = K[i] BY <1>4, <1>7, <2>1, Zenon
  <2> HIDE DEF E
  <2> QED BY <1>4, <2>2, <2>3
<1> HIDE DEF E, a
<1>14. \A i \in 1 .. (a + 5) : i + 1 - a \in 1 .. 6 /\ E[i].id = ids[i + 1 - a]
  <2> TAKE i \in 1 .. (a + 5)
  <2>0. a = 0 \/ a = 1 BY <1>7
  <2>1. CASE i <= a
    <3>1. i \in 1 .. a /\ i + 1 - a = 1 BY <2>0, <2>1
    <3>2. E[i].id = ids[1] BY <1>7, <1>13, <3>1, Zenon
    <3> QED BY <1>8, <3>1, <3>2
  <2>2. CASE ~(i <= a)
    <3>1. i - a \in 1 .. 5 /\ a + (i - a) = i /\ i + 1 - a = (i - a) + 1 BY <2>0, <2>2
    <3>2. E[i] = K[i - a] BY <1>13, <3>1
    <3>3. E[i].id = ids[(i - a) + 1] BY <1>5, <3>1, <3>2
    <3>4. (i - a) + 1 \in 1 .. 6 BY <3>1
    <3> QED BY <3>1, <3>3, <3>4
  <2> QED BY <2>1, <2>2
<1>15. ASSUME \A i \in 1 .. Len(E) : IsVarInt(E[i].value) PROVE WellWritten(E, a)
  <2>1. Len(E) <= SETTINGS_LEN /\ a \in 0 .. Len(E) BY <1>7, <1>13 DEF SETTINGS_LEN
  <2>2. \A i \in 1 .. (a + 5) : i + 1 - a # 1 <=> i > a BY <1>7
  <2>3. \A i, j \in 1 .. (a + 5) : i + 1 - a = j + 1 - a => i = j BY <1>7
  <2>4. \A i \in 1 .. Len(E) : /\ IsVarInt(E[i].id) /\ E[i].id \notin is_forbidden
                               /\ E[i].id \in is_supported <=> i > a
    <3> TAKE i \in 1 .. Len(E)
    <3>1. i \in 1 .. (a + 5) BY <1>13
    <3> DEFINE p == i + 1 - a
    <3>2. p \in 1 .. 6 /\ E[i].id = ids[p] /\ (p # 1 <=> i > a) BY <1>14, <2>2, <3>1
    <3> HIDE DEF p
    <3> QED BY <1>1, <3>2, Zenon
  <2>5. ASSUME NEW i \in 1 .. Len(E), NEW j \in 1 .. Len(E), E[i].id = E[j].id PROVE i = j
    <3>1. i \in 1 .. (a + 5) /\ j \in 1 .. (a + 5) BY <1>13
    <3> DEFINE p == i + 1 - a
               q == j + 1 - a
    <3>2. p \in 1 .. 6 /\ E[i].id = ids[p] /\ q \in 1 .. 6 /\ E[j].id = ids[q] /\ (p = q => i = j)
      BY <1>14, <2>3, <3>1
    <3> HIDE DEF p, q
    <3> QED BY <1>1, <2>5, <3>2, Zenon
  <2> QED BY <1>13, <1>15, <2>1, <2>4, <2>5, Zenon DEF WellWritten
<1>16. SubSeq(E, a + 1, Len(E)) = K
  <2>1. \A s \in Seq(Entry), n \in Nat : n <= Len(s) =>
          LET x == SubSeq(s, n + 1, Len(s))
          IN x \in Seq(Entry) /\ Len(x) = Len(s) - n /\ \A i \in 1 .. (Len(s) - n) : x[i] = s[n + i]
    BY SMT
  <2> DEFINE x == SubSeq(E, a + 1, Len(E))
  <2>2. a \in Nat /\ a <= Len(E) /\ Len(E) - a = 5 BY <1>7, <1>13
  <2>3. /\ x \in Seq(Entry) /\ Len(x) = Len(E) - a
        /\ \A i \in 1 .. (Len(E) - a) : x[i] = E[a + i]
    BY <1>13, <2>1, <2>2, Zenon
  <2> HIDE DEF x
  <2>4. Len(x) = 5 /\ \A i \in 1 .. 5 : x[i] = K[i] BY <1>13, <2>2, <2>3
  <2>5. x = K BY <1>4, <2>3, <2>4, SeqEqual
  <2> QED BY <2>5 DEF x
<1>17. \A i, j \in 1 .. 5 : K[i].id = K[j].id => i = j
  <2>1. \A i \in 1 .. 5 : i + 1 \in 1 .. 6 BY SMT
  <2>2. \A i, j \in 1 .. 5 : i # j => i + 1 # j + 1 BY SMT
  <2> QED BY <1>1, <1>5, <2>1, <2>2, Zenon
<1>18. Known(c) = K BY <1>2, Zenon DEF K
<1> QED BY <1>4, <1>12, <1>15, <1>16, <1>17, <1>18, Zenon DEF E, D, a

(* What an endpoint announces is what its peer gets to know: whatever the  *)
(* configuration, with grease or without, if its SETTINGS can be written   *)
(* at all, Settings::decode and From<&frame::Settings> give it back.       *)
THEOREM SettingsRoundTrip ==
  ASSUME NEW c \in ConfigSettings, NEW g \in BOOLEAN, ~EncodePanics(try_from_config(c, g))
  PROVE  LET s == decode_settings(encode_settings(try_from_config(c, g)))
         IN s.error = "" /\ from_settings(s) = c
<1> DEFINE E == Greased(g) \o Known(c)
           a == Len(Greased(g))
           K == Known(c)
           s == decode_settings(encode_settings(try_from_config(c, g)))
<1>1. /\ try_from_config(c, g) = Fine(E)
      /\ (\A i \in 1 .. Len(E) : IsVarInt(E[i].value)) => WellWritten(E, a)
      /\ SubSeq(E, a + 1, Len(E)) = K
      /\ K \in Seq(Entry) /\ Len(K) = 5
      /\ \A i, j \in 1 .. 5 : K[i].id = K[j].id => i = j
  BY ConfigWritten, Zenon
<1>2. PICK G, k1, k2, k3, k4, k5 \in Entry :
        /\ G = Setting(grease, Zero) /\ Known(c) = Five(k1, k2, k3, k4, k5)
        /\ G.id = grease /\ G.value = Zero /\ IsVarInt(Zero)
        /\ k1.id = MAX_HEADER_LIST_SIZE /\ k1.value = c.max_field_section_size
        /\ k2.id = ENABLE_CONNECT_PROTOCOL /\ k2.value = Flag(c.enable_extended_connect)
        /\ k3.id = ENABLE_WEBTRANSPORT /\ k3.value = Flag(c.enable_webtransport)
        /\ k4.id = H3_DATAGRAM /\ k4.value = Flag(c.enable_datagram)
        /\ k5.id = WEBTRANSPORT_MAX_SESSIONS /\ k5.value = c.max_webtransport_sessions
        /\ IsVarInt(k2.value) /\ IsVarInt(k3.value) /\ IsVarInt(k4.value)
  BY KnownEntries, Zenon
<1>3. K[1] = k1 /\ K[2] = k2 /\ K[3] = k3 /\ K[4] = k4 /\ K[5] = k5 BY <1>2 DEF Five
<1> HIDE DEF E, a, K
<1>4. \A i \in 1 .. Len(E) : IsVarInt(E[i].value)
  <2>1. Fine(E).entries = E BY Zenon DEF Fine
  <2>2. \A i \in DOMAIN E : IsVarInt(E[i].value) BY <1>1, <2>1, Zenon DEF EncodePanics
  <2>3. DOMAIN E = 1 .. Len(E)
    <3>1. Greased(g) \in Seq(Entry) /\ Known(c) \in Seq(Entry)
      <4>1. Setting(grease, Zero) \in Entry BY <1>2, Zenon
      <4>2. <<>> \in Seq(Entry) /\ \A e \in Entry : <<e>> \in Seq(Entry) BY SMT
      <4> QED BY <1>1, <4>1, <4>2, Zenon DEF Greased, K
    <3>2. \A x, y \in Seq(Entry) : DOMAIN (x \o y) = 1 .. Len(x \o y) BY SMT
    <3> QED BY <3>1, <3>2, Zenon DEF E
  <2> QED BY <2>2, <2>3, Zenon
<1>5. s = Fine(K)
  <2>1. WellWritten(E, a) BY <1>1, <1>4, Zenon
  <2> QED BY <1>1, <2>1, EntriesRead, Zenon
<1> HIDE DEF s
<1>6. s.error = ""
  <2>1. Fine(K).error = "" BY Zenon DEF Fine
  <2> QED BY <1>5, <2>1, Zenon
<1>7. \A k \in 1 .. 5 : \A d : get(Fine(K), K[k].id, d) = K[k].value
  <2>1. \A i, j \in 1 .. Len(K) : K[i].id = K[j].id => i = j BY <1>1
  <2>2. \A k \in 1 .. Len(K) : \A d : get(Fine(K), K[k].id, d) = K[k].value
    BY <1>1, <2>1, EntryFound, Zenon
  <2>3. Len(K) = 5 BY <1>1
  <2> QED BY <2>2, <2>3
<1>8. 1 \in 1 .. 5 /\ 2 \in 1 .. 5 /\ 3 \in 1 .. 5 /\ 4 \in 1 .. 5 /\ 5 \in 1 .. 5 BY SMT
<1>9. /\ get(s, MAX_HEADER_LIST_SIZE, VarMax) = c.max_field_section_size
      /\ get(s, ENABLE_CONNECT_PROTOCOL, Zero) = Flag(c.enable_extended_connect)
      /\ get(s, ENABLE_WEBTRANSPORT, Zero) = Flag(c.enable_webtransport)
      /\ get(s, H3_DATAGRAM, Zero) = Flag(c.enable_datagram)
      /\ get(s, WEBTRANSPORT_MAX_SESSIONS, Zero) = c.max_webtransport_sessions
  BY <1>2, <1>3, <1>5, <1>7, <1>8, Zenon
<1>10. /\ c.enable_extended_connect \in BOOLEAN /\ c.enable_webtransport \in BOOLEAN
       /\ c.enable_datagram \in BOOLEAN
  BY Zenon DEF ConfigSettings
<1>11. /\ c.enable_extended_connect = (get(s, ENABLE_CONNECT_PROTOCOL, Zero) # Zero)
       /\ c.enable_webtransport = (get(s, ENABLE_WEBTRANSPORT, Zero) # Zero)
       /\ c.enable_datagram = (get(s, H3_DATAGRAM, Zero) # Zero)
  BY <1>9, <1>10, Flags, Zenon
<1>12. c = [max_field_section_size |-> c.max_field_section_size,
            enable_webtransport |-> c.enable_webtransport,
            enable_extended_connect |-> c.enable_extended_connect,
            enable_datagram |-> c.enable_datagram,
            max_webtransport_sessions |-> c.max_webtransport_sessions]
  BY DEF ConfigSettings
<1>13. from_settings(s) = c BY <1>9, <1>11, <1>12, Zenon DEF from_settings
<1> QED BY <1>6, <1>13, Zenon DEF s

(* A client that is an h3 client of any configuration.                     *)
KInv == offer \in Offers /\ (IsConfig(offer) => SessionIsNegotiated)

(* The first frame of a stream that has bytes stays what it is: only an    *)
(* opener's bytes come later, and none is at work there.                   *)
LEMMA SettingsStay ==
  ASSUME IInv, [Next]_vars, SettingsOnStream
  PROVE  SettingsOnStream'
<1>1. wire \in Seq(Byte) BY Zenon DEF IInv, TypeOK, WriterType
<1>2. Len(FramesOf(wire)) >= 1 /\ opener.at = "none" BY Zenon DEF SettingsOnStream
<1>3. wire # <<>>
  <2> SUFFICES ASSUME wire = <<>> PROVE FALSE OBVIOUS
  <2>1. 0 \in 0 .. Len(wire) /\ 0 = Len(wire) OBVIOUS
  <2>2. FramesOf(wire) = <<>> BY <1>1, <2>1, FramesCases DEF FramesOf
  <2> QED BY <1>2, <2>2
<1>4. ~\/ \E k \in {"uni", "bi"}, s \in Sessions : Open(k, s)
       \/ \E n \in 1 .. MaxChunk : PollSend(n)
       \/ \E lost \in BOOLEAN : PollSendFails(lost)
       \/ DropOpen
       \/ \E n \in 1 .. MaxChunk : poll_write(n)
       \/ \E end \in {"fin", "reset"} : CloseStream(end)
  BY <1>2, <1>3 DEF Open, PollSend, PollSendFails, DropOpen, poll_write, CloseStream
<1>5. UNCHANGED <<wire, kind, opener>>
  <2>1. CASE PollType \/ AcceptUni \/ Resolve
    BY <2>1 DEF PollType, PollTypeChunk, PollTypeEnd, PollTypeReset, PollTypeLost, AcceptUni,
                Resolve, ResolveChunk, ResolveFrame, ResolveEnd, ResolveBroken, OnlyAccept, stream
  <2>2. CASE \/ \E n \in 1 .. MaxChunk : poll_data(n)
             \/ \E n, limit \in 1 .. MaxChunk : poll_read(n, limit)
             \/ ReadEnd
             \/ split
    <3>1. OnlyRead BY <2>2, Zenon DEF poll_data, poll_read, ReadEnd, split
    <3> QED BY <3>1 DEF OnlyRead, stream
  <2>3. CASE \/ \E p \in connect.payloads : SendDatagram(p)
             \/ LoseConnection
             \/ \E d \in net : ReadDatagram(d)
             \/ \E d \in net : DatagramLost(d)
    <3>1. OnlyDatagrams
      BY <2>3, Zenon DEF SendDatagram, LoseConnection, ReadDatagram, DatagramLost
    <3> QED BY <3>1 DEF OnlyDatagrams, stream
  <2>4. CASE ReceiveSettings \/ accept \/ AcceptFails
    BY <2>4 DEF ReceiveSettings, accept, AcceptFails, stream
  <2>5. CASE UNCHANGED vars BY <2>5 DEF vars, stream
  <2> QED BY <1>4, <2>1, <2>2, <2>3, <2>4, <2>5, Zenon DEF Next
<1> QED BY <1>5, Zenon DEF SettingsOnStream

(* The steps that have nothing to do with SETTINGS and CONNECT.            *)
LEMMA NegotiationStays ==
  ASSUME KInv, UNCHANGED negotiation, NoSettingsError, SettingsOnStream => SettingsOnStream'
  PROVE  KInv'
<1>1. offer' = offer /\ settings' = settings /\ session' = session BY DEF negotiation
<1>2. KInv /\ NoSettingsError /\ (SettingsOnStream => SettingsOnStream') OBVIOUS
<1>3. SessionIsNegotiated => SessionIsNegotiated'
  BY <1>1, <1>2, Zenon DEF SessionIsNegotiated, NoNewError, NoSettingsError
<1> QED BY <1>1, <1>2, <1>3, Zenon DEF KInv

(* poll_control takes the configuration the client has, by the round trip. *)
LEMMA ReceivesSettings ==
  ASSUME KInv, ReceiveSettings
  PROVE  KInv'
<1> DEFINE s == SettingsReceived[offer]
<1>1. /\ settings = None /\ conn_error = "" /\ s # None
      /\ IF s.error = "" THEN settings' = from_settings(s) /\ conn_error' = conn_error
         ELSE SetError("H3_SETTINGS_ERROR") /\ settings' = settings
      /\ offer' = offer /\ session' = session
  BY Zenon DEF ReceiveSettings
<1>2. offer \in Offers BY Zenon DEF KInv
<1>3. ASSUME IsConfig(offer) PROVE SessionIsNegotiated'
  <2> DEFINE c == offer.config
             g == offer.grease
  <2>1. c \in ConfigSettings /\ g \in BOOLEAN BY <1>2, <1>3, OffersAssumption, Zenon
  <2>2. Announced(offer) = try_from_config(c, g) /\ Announces(offer) = encode_settings(Announced(offer))
    BY <1>3, Zenon DEF Announced, Announces
  <2>3. s = IF EncodePanics(Announced(offer)) THEN None ELSE decode_settings(Announces(offer))
    BY <1>2, <1>3, Zenon DEF SettingsReceived
  <2> HIDE DEF s, c, g
  <2>4. ~EncodePanics(try_from_config(c, g)) /\ s = decode_settings(encode_settings(try_from_config(c, g)))
    BY <1>1, <2>2, <2>3, Zenon
  <2>5. s.error = "" /\ from_settings(s) = c BY <2>1, <2>4, SettingsRoundTrip, Zenon
  <2>6. settings' = c /\ conn_error' = "" BY <1>1, <2>5, Zenon
  <2>7. SessionIsNegotiated BY <1>3, Zenon DEF KInv
  <2>8. "" # "H3_SETTINGS_ERROR" OBVIOUS
  <2>9. settings' = offer.config BY <2>6, Zenon DEF c
  <2>10. session = None BY <1>1, <2>7, Zenon DEF SessionIsNegotiated
  <2> QED BY <1>1, <2>6, <2>8, <2>9, <2>10, Zenon DEF SessionIsNegotiated
<1> QED BY <1>1, <1>2, <1>3, Zenon DEF KInv

(* accept knows either that configuration or the default, which has        *)
(* neither WebTransport nor datagrams.                                     *)
LEMMA AcceptsSession ==
  ASSUME KInv, accept
  PROVE  KInv'
<1> DEFINE Both(c) == c.enable_webtransport /\ c.enable_datagram
<1>1. /\ session = None /\ conn_error = ""
      /\ IF ~KnownSettings.enable_webtransport \/ ~KnownSettings.enable_datagram
         THEN session' = session
         ELSE conn_error' = conn_error
      /\ offer' = offer /\ settings' = settings
  BY Zenon DEF accept
<1>2. offer \in Offers BY Zenon DEF KInv
<1>3. ASSUME IsConfig(offer) PROVE SessionIsNegotiated'
  <2>1. settings # None => settings = offer.config BY <1>3, Zenon DEF KInv, SessionIsNegotiated
  <2>2. ~DefaultConfig.enable_webtransport BY Zenon DEF DefaultConfig
  <2>3. Both(KnownSettings) <=> settings # None /\ Both(offer.config)
    BY <2>1, <2>2, Zenon DEF KnownSettings
  <2>4. "" # "H3_SETTINGS_ERROR" OBVIOUS
  <2>5. CASE Both(KnownSettings)
    <3>1. conn_error' = "" BY <1>1, <2>5, Zenon
    <3> QED BY <1>1, <2>1, <2>3, <2>4, <2>5, <3>1, Zenon DEF SessionIsNegotiated
  <2>6. CASE ~Both(KnownSettings)
    <3>1. session' = None BY <1>1, <2>6, Zenon
    <3> QED BY <1>1, <2>1, <2>3, <2>6, <3>1, Zenon DEF SessionIsNegotiated
  <2> QED BY <2>5, <2>6, Zenon
<1> QED BY <1>1, <1>2, <1>3, Zenon DEF KInv

LEMMA KeepsNegotiated == IInv /\ KInv /\ [Next]_vars => KInv'
<1> SUFFICES ASSUME IInv, KInv, [Next]_vars PROVE KInv' OBVIOUS
<1>0. "remote" # "H3_SETTINGS_ERROR" /\ "H3_DATAGRAM_ERROR" # "H3_SETTINGS_ERROR" OBVIOUS
<1>1. SettingsOnStream => SettingsOnStream' BY SettingsStay
<1>2. CASE ReceiveSettings BY <1>2, ReceivesSettings, Zenon
<1>3. CASE accept BY <1>3, AcceptsSession, Zenon
<1>4. CASE AcceptFails
  <2>1. /\ offer' = offer /\ settings' = settings /\ session' = session
        /\ SetError("remote")
    BY <1>4, Zenon DEF AcceptFails
  <2>2. NoNewError("H3_SETTINGS_ERROR") BY <1>0, <2>1, OtherError, Zenon
  <2>3. SessionIsNegotiated => SessionIsNegotiated'
    BY <1>1, <2>1, <2>2, Zenon DEF SessionIsNegotiated, NoNewError
  <2> QED BY <2>1, <2>3, Zenon DEF KInv
<1>5. CASE \/ \E p \in connect.payloads : SendDatagram(p)
           \/ LoseConnection
           \/ \E d \in net : ReadDatagram(d)
           \/ \E d \in net : DatagramLost(d)
  <2>1. UNCHANGED negotiation
    BY <1>5, Zenon DEF SendDatagram, LoseConnection, ReadDatagram, DatagramLost, OnlyDatagrams
  <2>2. conn_error' = conn_error \/ SetError("remote") \/ SetError("H3_DATAGRAM_ERROR")
    BY <1>5, Zenon DEF SendDatagram, LoseConnection, ReadDatagram, DatagramLost, send_datagram,
                       SendDatagramFails, read_datagram, LoseDatagram
  <2>3. NoSettingsError
    BY <1>0, <2>2, OtherError, SameError, Zenon DEF NoNewErrors, NoSettingsError
  <2> QED BY <1>1, <2>1, <2>3, NegotiationStays, Zenon
<1>6. CASE UNCHANGED <<negotiation, net, dsent, dread>> /\ NoNewErrors
  <2>1. UNCHANGED negotiation BY <1>6 DEF negotiation
  <2> QED BY <1>1, <1>6, <2>1, NegotiationStays, Zenon DEF NoNewErrors
<1> QED BY <1>2, <1>3, <1>4, <1>5, <1>6, OtherSteps, Zenon DEF Next

(* With an h3 client of any configuration the server knows the client's    *)
(* configuration as it is, a session exists only when it has announced     *)
(* WebTransport and datagrams, and a settings error with one that has only *)
(* comes of accept before its SETTINGS were handled, or of a SETTINGS      *)
(* frame that does not decode on a stream.                                 *)
THEOREM Negotiated == Spec => [](IsConfig(offer) => SessionIsNegotiated)
<1>1. Init => KInv
  <2> SUFFICES ASSUME Init PROVE KInv OBVIOUS
  <2>1. offer \in Offers /\ settings = None /\ session = None /\ conn_error = "" BY Zenon DEF Init
  <2>2. "" # "H3_SETTINGS_ERROR" OBVIOUS
  <2>3. SessionIsNegotiated BY <2>1, <2>2, Zenon DEF SessionIsNegotiated
  <2> QED BY <2>1, <2>3, Zenon DEF KInv
<1>2. KInv => (IsConfig(offer) => SessionIsNegotiated) BY Zenon DEF KInv
<1> QED BY <1>1, <1>2, KeepsNegotiated, Inductive, PTL DEF Spec
=============================================================================
