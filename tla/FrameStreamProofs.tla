-------------------------- MODULE FrameStreamProofs --------------------------
(***************************************************************************)
(* Proofs about the bytes of a stream: VarInt over the whole range of u64, *)
(* Frame::decode and the reference frames of any sequence of bytes.        *)
(***************************************************************************)
EXTENDS FrameStream, SequenceTheorems, WellFoundedInduction, NaturalsInduction, TLAPS

(* The powers of two encode and decode need.                               *)
LEMMA Powers == 2 ^ 0 = 1 /\ 2 ^ 1 = 2 /\ 2 ^ 2 = 4 /\ 2 ^ 3 = 8
OBVIOUS

(* The length the two top bits stand for.                                  *)
LEMMA EncodedSize ==
  ASSUME NEW b \in Byte
  PROVE  /\ encoded_size(b) \in {1, 2, 4, 8}
         /\ b < 64 => encoded_size(b) = 1
         /\ 64 <= b /\ b < 128 => encoded_size(b) = 2
         /\ 128 <= b /\ b < 192 => encoded_size(b) = 4
         /\ 192 <= b => encoded_size(b) = 8
<1>1. b \in 0 .. 255 BY DEF Byte
<1>2. b < 64 => b \div 64 = 0 BY <1>1
<1>3. 64 <= b /\ b < 128 => b \div 64 = 1 BY <1>1
<1>4. 128 <= b /\ b < 192 => b \div 64 = 2 BY <1>1
<1>5. 192 <= b => b \div 64 = 3 BY <1>1
<1>6. encoded_size(b) = 2 ^ (b \div 64) BY Zenon DEF encoded_size
<1>7. b \div 64 = 0 => encoded_size(b) = 1 BY <1>6, Powers, Zenon
<1>8. b \div 64 = 1 => encoded_size(b) = 2 BY <1>6, Powers, Zenon
<1>9. b \div 64 = 2 => encoded_size(b) = 4 BY <1>6, Powers, Zenon
<1>10. b \div 64 = 3 => encoded_size(b) = 8 BY <1>6, Powers, Zenon
<1> QED BY <1>1, <1>2, <1>3, <1>4, <1>5, <1>7, <1>8, <1>9, <1>10

(* A u64 is a sequence of eight bytes.                                     *)
LEMMA U64Seq ==
  ASSUME NEW x \in U64
  PROVE  /\ x \in Seq(Byte) /\ Len(x) = 8
         /\ x[1] \in Byte /\ x[2] \in Byte /\ x[3] \in Byte /\ x[4] \in Byte
         /\ x[5] \in Byte /\ x[6] \in Byte /\ x[7] \in Byte /\ x[8] \in Byte
<1>1. x \in [1 .. 8 -> Byte] BY DEF U64
<1>2. x \in Seq(Byte)
  <2>1. 8 \in Nat OBVIOUS
  <2>2. x \in UNION {[1 .. n -> Byte] : n \in Nat} BY <1>1, <2>1, Zenon
  <2> QED BY <2>2, SeqDef, Zenon
<1>3. Len(x) = 8 BY <1>1, <1>2
<1> QED BY <1>1, <1>2, <1>3

(* VarInt::size finds a length the value fits in.                          *)
LEMMA VarSizeFits ==
  ASSUME NEW x \in U64, IsVarInt(x)
  PROVE  VarSize(x) \in {1, 2, 4, 8} /\ FitsIn(x, VarSize(x))
<1> DEFINE Good(n) == FitsIn(x, n) /\ \A m \in {1, 2, 4, 8} : m < n => ~FitsIn(x, m)
<1>1. FitsIn(x, 8) BY DEF FitsIn, IsVarInt
<1>2. \E n \in {1, 2, 4, 8} : Good(n)
  <2>1. CASE FitsIn(x, 1) BY <2>1
  <2>2. CASE ~FitsIn(x, 1) /\ FitsIn(x, 2) BY <2>2
  <2>3. CASE ~FitsIn(x, 1) /\ ~FitsIn(x, 2) /\ FitsIn(x, 4) BY <2>3
  <2>4. CASE ~FitsIn(x, 1) /\ ~FitsIn(x, 2) /\ ~FitsIn(x, 4) BY <1>1, <2>4
  <2> QED BY <2>1, <2>2, <2>3, <2>4
<1>3. VarSize(x) \in {1, 2, 4, 8} /\ Good(VarSize(x))
  BY <1>2, Zenon DEF VarSize
<1> QED BY <1>3

(* The bytes VarInt::encode writes.                                        *)
LEMMA Encoded ==
  ASSUME NEW x \in U64, IsVarInt(x)
  PROVE  /\ VarEncode(x) \in Seq(Byte)
         /\ Len(VarEncode(x)) = VarSize(x)
         /\ VarEncode(x)[1] % 64 = x[9 - VarSize(x)]
         /\ encoded_size(VarEncode(x)[1]) = VarSize(x)
         /\ \A i \in 2 .. VarSize(x) : VarEncode(x)[i] = x[8 - VarSize(x) + i]
<1> DEFINE n == VarSize(x)
           k == CHOOSE j \in 0 .. 3 : 2 ^ j = n
           low == SubSeq(x, 9 - n, 8)
           e == [low EXCEPT ![1] = @ + 64 * k]
<1>0. VarEncode(x) = e BY DEF VarEncode
<1>1. n \in {1, 2, 4, 8} /\ FitsIn(x, n) BY VarSizeFits
<1>2. k \in 0 .. 3 /\ 2 ^ k = n
  <2>1. \E j \in 0 .. 3 : 2 ^ j = n
    <3>1. 0 \in 0 .. 3 /\ 1 \in 0 .. 3 /\ 2 \in 0 .. 3 /\ 3 \in 0 .. 3 OBVIOUS
    <3> QED BY <1>1, <3>1, Powers, Zenon
  <2> QED BY <2>1, Zenon
<1>3. (n = 1 /\ k = 0) \/ (n = 2 /\ k = 1) \/ (n = 4 /\ k = 2) \/ (n = 8 /\ k = 3)
  <2>1. (k = 0 => n = 1) /\ (k = 1 => n = 2) /\ (k = 2 => n = 4) /\ (k = 3 => n = 8)
    BY <1>2, Powers, Zenon
  <2>2. k \in {0, 1, 2, 3} BY <1>2
  <2> QED BY <2>1, <2>2
<1> HIDE DEF n, k
<1>4. /\ low \in Seq(Byte) /\ Len(low) = n
      /\ \A i \in 1 .. n : low[i] = x[8 - n + i]
  BY <1>1, U64Seq
<1>5. x[9 - n] \in 0 .. 63 /\ low[1] = x[9 - n]
  <2>1. x[9 - n] < 64 BY <1>1 DEF FitsIn
  <2>2. x[9 - n] \in 0 .. 255 BY <1>1 DEF U64, Byte
  <2>3. 1 \in 1 .. n /\ 8 - n + 1 = 9 - n BY <1>1
  <2> QED BY <1>4, <2>1, <2>2, <2>3
<1> HIDE DEF low
<1>6. low[1] + 64 * k \in Byte BY <1>3, <1>5 DEF Byte
<1>7. /\ e \in Seq(Byte) /\ Len(e) = n /\ e[1] = x[9 - n] + 64 * k
      /\ \A i \in 2 .. n : e[i] = x[8 - n + i]
  BY <1>1, <1>4, <1>5, <1>6
<1>8. (x[9 - n] + 64 * k) % 64 = x[9 - n] BY <1>3, <1>5
<1>9. encoded_size(x[9 - n] + 64 * k) = n BY <1>3, <1>5, <1>6, EncodedSize
<1> HIDE DEF e
<1> QED BY <1>0, <1>7, <1>8, <1>9 DEF n

(* VarInt::decode reads back what VarInt::encode has written, whatever     *)
(* follows, and leaves what follows: for every value below 2 ^ 62.         *)
THEOREM VarIntRoundTrip ==
  ASSUME NEW x \in U64, IsVarInt(x), NEW rest \in Seq(Byte)
  PROVE  /\ VarThere(VarEncode(x) \o rest)
         /\ VarValue(VarEncode(x) \o rest) = x
         /\ VarRest(VarEncode(x) \o rest) = rest
<1> DEFINE e == VarEncode(x)
           n == VarSize(x)
           bytes == e \o rest
<1>1. n \in {1, 2, 4, 8} /\ FitsIn(x, n) BY VarSizeFits
<1>2. /\ e \in Seq(Byte) /\ Len(e) = n
      /\ e[1] % 64 = x[9 - n] /\ encoded_size(e[1]) = n
      /\ \A i \in 2 .. n : e[i] = x[8 - n + i]
  BY Encoded
<1> HIDE DEF e, n
<1>3. /\ bytes \in Seq(Byte) /\ Len(bytes) = n + Len(rest)
      /\ \A i \in 1 .. n : bytes[i] = e[i]
      /\ \A i \in 1 .. Len(rest) : bytes[n + i] = rest[i]
  BY <1>1, <1>2
<1>4. bytes[1] = e[1] /\ bytes # <<>> BY <1>1, <1>3
<1> HIDE DEF bytes
<1>5. Len(rest) \in Nat OBVIOUS
<1>6. VarThere(bytes) BY <1>1, <1>2, <1>3, <1>4, <1>5 DEF VarThere
<1>7. VarValue(bytes) = x
  <2>1. VarValue(bytes) = [i \in 1 .. 8 |-> IF i < 9 - n THEN 0
                                            ELSE IF i = 9 - n THEN bytes[1] % 64
                                            ELSE bytes[i - 8 + n]]
    BY <1>2, <1>4 DEF VarValue
  <2>2. x \in [1 .. 8 -> Byte] BY DEF U64
  <2>3. ASSUME NEW i \in 1 .. 8
        PROVE  x[i] = IF i < 9 - n THEN 0
                      ELSE IF i = 9 - n THEN bytes[1] % 64 ELSE bytes[i - 8 + n]
    <3>1. CASE i < 9 - n
      <4>1. i \in 1 .. (8 - n) BY <1>1, <3>1
      <4> QED BY <1>1, <3>1, <4>1 DEF FitsIn
    <3>2. CASE i = 9 - n BY <1>1, <1>2, <1>4, <3>2
    <3>3. CASE i > 9 - n
      <4>1. i - 8 + n \in 2 .. n /\ i - 8 + n \in 1 .. n BY <1>1, <3>3
      <4>2. bytes[i - 8 + n] = x[8 - n + (i - 8 + n)] BY <1>2, <1>3, <4>1
      <4>3. 8 - n + (i - 8 + n) = i BY <1>1
      <4> QED BY <1>1, <3>3, <4>2, <4>3
    <3> QED BY <1>1, <3>1, <3>2, <3>3
  <2> QED BY <2>1, <2>2, <2>3
<1>8. VarRest(bytes) = rest
  <2>1. VarRest(bytes) = SubSeq(bytes, n + 1, n + Len(rest))
    BY <1>2, <1>3, <1>4 DEF VarRest
  <2>2. SubSeq(bytes, n + 1, n + Len(rest)) \in Seq(Byte)
        /\ Len(SubSeq(bytes, n + 1, n + Len(rest))) = Len(rest)
    BY <1>1, <1>3, <1>5
  <2>3. \A i \in 1 .. Len(rest) : SubSeq(bytes, n + 1, n + Len(rest))[i] = rest[i]
    BY <1>1, <1>3, <1>5
  <2> QED BY <2>1, <2>2, <2>3, SeqEqual
<1> QED BY <1>6, <1>7, <1>8 DEF e, bytes

(***************************************************************************)
(* Quarter stream ids.                                                     *)
(***************************************************************************)

(* A quarter of a byte, and what is left.                                  *)
LEMMA ByteOverFour ==
  ASSUME NEW b \in 0 .. 255
  PROVE  b \div 4 \in 0 .. 63 /\ b % 4 \in 0 .. 3 /\ 4 * (b \div 4) + (b % 4) = b
OBVIOUS

(* What is left of a byte moves to the top of the next one.                *)
LEMMA SixBits ==
  ASSUME NEW q \in 0 .. 63, NEW h \in 0 .. 3
  PROVE  /\ q + 64 * h \in 0 .. 255 /\ (q + 64 * h) \div 64 = h
         /\ ((q + 64 * h) * 4) % 256 = 4 * q
OBVIOUS

(* A product by four loses the two top bits of a byte, and leaves room for *)
(* two others.                                                             *)
LEMMA ByteTimesFour ==
  ASSUME NEW a \in 0 .. 255
  PROVE  /\ (a * 4) % 256 = 4 * (a % 64)
         /\ a % 64 \in 0 .. 63 /\ a \div 64 \in 0 .. 3
         /\ (a % 64) + 64 * (a \div 64) = a
<1> DEFINE q == a \div 64
           r == a % 64
<1>1. q \in 0 .. 3 /\ r \in 0 .. 63 /\ a = 64 * q + r OBVIOUS
<1> HIDE DEF q, r
<1>2. (a * 4) % 256 = 4 * r /\ r + 64 * q = a BY <1>1
<1> QED BY <1>1, <1>2, Zenon DEF q, r

(* The two bits that are left room for.                                   *)
LEMMA TwoBits ==
  ASSUME NEW r \in 0 .. 63, NEW h \in 0 .. 3
  PROVE  4 * r + h \in 0 .. 255 /\ (4 * r + h) \div 4 = r /\ (4 * r + h) % 4 = h
OBVIOUS

(* A request stream's id survives the division by four of Datagram::encode *)
(* and the product of Datagram::decode, and the quarter is a VarInt.       *)
THEOREM QuarterRoundTrip ==
  ASSUME NEW x \in U64, x[8] % 4 = 0
  PROVE  /\ OverFour(x) \in U64 /\ IsVarInt(OverFour(x))
         /\ TimesFour(OverFour(x)) = x
<1> DEFINE y == OverFour(x)
<1>1. x \in [1 .. 8 -> 0 .. 255] BY DEF U64, Byte
<1>2. y = [i \in 1 .. 8 |-> (x[i] \div 4) + (IF i = 1 THEN 0 ELSE 64 * (x[i - 1] % 4))]
  BY DEF OverFour
<1> HIDE DEF y
<1>3. \A i \in 1 .. 8 : x[i] \in 0 .. 255 BY <1>1
<1>4. ASSUME NEW i \in 1 .. 8
      PROVE  /\ y[i] \in 0 .. 255 /\ (y[i] * 4) % 256 = 4 * (x[i] \div 4)
             /\ y[i] \div 64 = IF i = 1 THEN 0 ELSE x[i - 1] % 4
  <2> DEFINE h == IF i = 1 THEN 0 ELSE x[i - 1] % 4
  <2>1. x[i] \div 4 \in 0 .. 63
    <3>1. x[i] \in 0 .. 255 BY <1>3
    <3> QED BY <3>1, ByteOverFour
  <2>2. h \in 0 .. 3
    <3>1. CASE i = 1 BY <3>1
    <3>2. CASE i # 1
      <4>1. x[i - 1] \in 0 .. 255 BY <1>3, <3>2
      <4> QED BY <3>2, <4>1, ByteOverFour
    <3> QED BY <3>1, <3>2
  <2>3. y[i] = (x[i] \div 4) + 64 * h
    <3>1. y[i] = (x[i] \div 4) + (IF i = 1 THEN 0 ELSE 64 * (x[i - 1] % 4)) BY <1>2
    <3> QED BY <3>1
  <2> HIDE DEF h
  <2>4. y[i] \in 0 .. 255 /\ (y[i] * 4) % 256 = 4 * (x[i] \div 4) /\ y[i] \div 64 = h
    BY <2>1, <2>2, <2>3, SixBits
  <2> QED BY <2>4 DEF h
<1>5. y \in U64 BY <1>2, <1>4 DEF U64, Byte
<1>6. IsVarInt(y)
  <2>1. x[1] \in 0 .. 255 BY <1>3
  <2>2. y[1] = (x[1] \div 4) + 0 BY <1>2
  <2> QED BY <2>1, <2>2, ByteOverFour DEF IsVarInt
<1>7. TimesFour(y) = x
  <2>1. TimesFour(y) = [i \in 1 .. 8 |->
                          ((y[i] * 4) % 256) + (IF i = 8 THEN 0 ELSE y[i + 1] \div 64)]
    BY DEF TimesFour
  <2>2. ASSUME NEW i \in 1 .. 8
        PROVE  x[i] = ((y[i] * 4) % 256) + (IF i = 8 THEN 0 ELSE y[i + 1] \div 64)
    <3>1. (y[i] * 4) % 256 = 4 * (x[i] \div 4) BY <1>4
    <3>2. 4 * (x[i] \div 4) + (x[i] % 4) = x[i] /\ x[i] \in 0 .. 255
      <4>1. x[i] \in 0 .. 255 BY <1>3
      <4> QED BY <4>1, ByteOverFour
    <3>3. (IF i = 8 THEN 0 ELSE y[i + 1] \div 64) = x[i] % 4
      <4>1. CASE i = 8 BY <4>1
      <4>2. CASE i # 8
        <5>1. i + 1 \in 1 .. 8 /\ i + 1 # 1 /\ (i + 1) - 1 = i BY <4>2
        <5>2. y[i + 1] \div 64 = x[i] % 4 BY <1>4, <5>1
        <5> QED BY <4>2, <5>2
      <4> QED BY <4>1, <4>2
    <3> QED BY <3>1, <3>2, <3>3
  <2> QED BY <1>1, <2>1, <2>2
<1> QED BY <1>5, <1>6, <1>7 DEF y

(* A quarter that a peer has sent is not mangled by the product: it is the *)
(* quarter of the stream id Datagram::decode returns, a request stream's.  *)
THEOREM ProductRoundTrip ==
  ASSUME NEW x \in U64, IsVarInt(x)
  PROVE  /\ TimesFour(x) \in U64 /\ TimesFour(x)[8] % 4 = 0
         /\ OverFour(TimesFour(x)) = x
<1> DEFINE y == TimesFour(x)
<1>1. x \in [1 .. 8 -> 0 .. 255] BY DEF U64, Byte
<1>2. y = [i \in 1 .. 8 |-> ((x[i] * 4) % 256) + (IF i = 8 THEN 0 ELSE x[i + 1] \div 64)]
  BY DEF TimesFour
<1> HIDE DEF y
<1>3. \A i \in 1 .. 8 : x[i] \in 0 .. 255 BY <1>1
<1>4. ASSUME NEW i \in 1 .. 8
      PROVE  y[i] = 4 * (x[i] % 64) + (IF i = 8 THEN 0 ELSE x[i + 1] \div 64)
  <2>1. x[i] \in 0 .. 255 BY <1>3
  <2>2. (x[i] * 4) % 256 = 4 * (x[i] % 64) BY <2>1, ByteTimesFour
  <2> QED BY <1>2, <2>2
<1>5. ASSUME NEW i \in 1 .. 8
      PROVE  /\ y[i] \in 0 .. 255 /\ y[i] \div 4 = x[i] % 64
             /\ y[i] % 4 = IF i = 8 THEN 0 ELSE x[i + 1] \div 64
  <2> DEFINE h == IF i = 8 THEN 0 ELSE x[i + 1] \div 64
  <2>1. x[i] % 64 \in 0 .. 63
    <3>1. x[i] \in 0 .. 255 BY <1>3
    <3> QED BY <3>1, ByteTimesFour
  <2>2. h \in 0 .. 3
    <3>1. CASE i = 8 BY <3>1
    <3>2. CASE i # 8
      <4>1. x[i + 1] \in 0 .. 255 BY <1>3, <3>2
      <4> QED BY <3>2, <4>1, ByteTimesFour
    <3> QED BY <3>1, <3>2
  <2>3. y[i] = 4 * (x[i] % 64) + h BY <1>4
  <2> HIDE DEF h
  <2>4. y[i] \in 0 .. 255 /\ y[i] \div 4 = x[i] % 64 /\ y[i] % 4 = h
    BY <2>1, <2>2, <2>3, TwoBits
  <2> QED BY <2>4 DEF h
<1>6. \A i \in 1 .. 7 : y[i] % 4 = x[i + 1] \div 64 BY <1>5
<1>7. y \in U64 BY <1>2, <1>5 DEF U64, Byte
<1>8. y[8] % 4 = 0 BY <1>5
<1>9. OverFour(y) = x
  <2>1. OverFour(y) = [i \in 1 .. 8 |-> (y[i] \div 4) + (IF i = 1 THEN 0 ELSE 64 * (y[i - 1] % 4))]
    BY DEF OverFour
  <2>2. ASSUME NEW i \in 1 .. 8
        PROVE  x[i] = (y[i] \div 4) + (IF i = 1 THEN 0 ELSE 64 * (y[i - 1] % 4))
    <3>1. y[i] \div 4 = x[i] % 64 /\ x[i] \in 0 .. 255 BY <1>3, <1>5
    <3>2. CASE i = 1 BY <3>1, <3>2 DEF IsVarInt
    <3>3. CASE i # 1
      <4>1. i - 1 \in 1 .. 7 /\ (i - 1) + 1 = i BY <3>3
      <4>2. y[i - 1] % 4 = x[i] \div 64 BY <1>6, <4>1
      <4>3. (x[i] % 64) + 64 * (x[i] \div 64) = x[i] BY <3>1, ByteTimesFour
      <4> QED BY <3>1, <3>3, <4>2, <4>3
    <3> QED BY <3>2, <3>3
  <2> QED BY <1>1, <2>1, <2>2
<1> QED BY <1>7, <1>8, <1>9 DEF y

(***************************************************************************)
(* Frame::decode.                                                          *)
(***************************************************************************)

(* What a sequence of bytes holds.                                         *)
LEMMA ByteAt ==
  ASSUME NEW w \in Seq(Byte), NEW i \in 1 .. Len(w)
  PROVE  w[i] \in Byte /\ w[i] \in 0 .. 255 /\ encoded_size(w[i]) \in {1, 2, 4, 8}
<1>1. w[i] \in Byte OBVIOUS
<1>2. w[i] \in 0 .. 255 BY <1>1, Zenon DEF Byte
<1> QED BY <1>1, <1>2, EncodedSize

(* The two top bits and the length they announce.                          *)
LEMMA TopBits ==
  ASSUME NEW x \in Byte
  PROVE  /\ x \in 0 .. 255 /\ x \div 64 \in 0 .. 3 /\ x % 64 \in Nat
         /\ x \div 64 # 0 => 2 \in 1 .. encoded_size(x)
         /\ x \div 64 \notin {0, 1} => 3 \in 1 .. encoded_size(x) /\ 4 \in 1 .. encoded_size(x)
         /\ x \div 64 \notin {0, 1, 2} =>
              /\ 5 \in 1 .. encoded_size(x) /\ 6 \in 1 .. encoded_size(x)
              /\ 7 \in 1 .. encoded_size(x) /\ 8 \in 1 .. encoded_size(x)
<1>1. x \in 0 .. 255 BY DEF Byte
<1>2. x \div 64 \in 0 .. 3 /\ x % 64 \in Nat BY <1>1
<1>3. x \div 64 # 0 => 64 <= x BY <1>1
<1>4. x \div 64 \notin {0, 1} => 128 <= x BY <1>1
<1>5. x \div 64 \notin {0, 1, 2} => 192 <= x BY <1>1
<1> QED BY <1>1, <1>2, <1>3, <1>4, <1>5, EncodedSize

(* One more byte of a number.                                              *)
LEMMA Shifted == \A a \in Nat, c \in 0 .. 255 : a * 256 + c \in Nat
OBVIOUS

(* VarInt::decode on bytes that are there: a number, and at least one byte *)
(* and not more than there are.                                            *)
LEMMA VarType ==
  ASSUME NEW w \in Seq(Byte), NEW p \in Nat, NEW limit \in Nat, limit <= Len(w),
         HasVar(w, p, limit)
  PROVE  /\ Var(w, p) \in Nat
         /\ VarEnd(w, p) \in Nat /\ p + 1 <= VarEnd(w, p) /\ VarEnd(w, p) <= limit
<1>1. p < limit /\ p + encoded_size(w[p + 1]) <= limit BY DEF HasVar
<1>2. p + 1 \in 1 .. Len(w) BY <1>1
<1>3. w[p + 1] \in Byte /\ w[p + 1] \in 0 .. 255 /\ encoded_size(w[p + 1]) \in {1, 2, 4, 8}
  BY <1>2, ByteAt
<1>4. VarEnd(w, p) \in Nat /\ p + 1 <= VarEnd(w, p) /\ VarEnd(w, p) <= limit
  BY <1>1, <1>3 DEF VarEnd
<1> DEFINE b(i) == w[p + i]
<1>5. \A i \in 1 .. encoded_size(b(1)) : b(i) \in 0 .. 255
  <2>1. \A i \in 1 .. encoded_size(b(1)) : p + i \in 1 .. Len(w) BY <1>1, <1>3
  <2> QED BY <2>1, ByteAt, Zenon
<1>6. Var(w, p) \in Nat
  <2> DEFINE u16 == (b(1) % 64) * 256 + b(2)
             u32 == (u16 * 256 + b(3)) * 256 + b(4)
             word == (((u32 * 256 + b(5)) * 256 + b(6)) * 256 + b(7)) * 256 + b(8)
  <2>1. Var(w, p) = CASE b(1) \div 64 = 0 -> b(1) % 64
                      [] b(1) \div 64 = 1 -> u16
                      [] b(1) \div 64 = 2 -> u32
                      [] OTHER -> word
    BY Zenon DEF Var
  <2>2. b(1) \in Byte BY <1>3
  <2>3. b(1) \div 64 \in 0 .. 3 /\ b(1) % 64 \in Nat BY <2>2, TopBits, Zenon
  <2>4. b(1) \div 64 # 0 => b(2) \in 0 .. 255 BY <1>5, <2>2, TopBits, Zenon
  <2>5. b(1) \div 64 \notin {0, 1} => b(3) \in 0 .. 255 /\ b(4) \in 0 .. 255
    BY <1>5, <2>2, TopBits, Zenon
  <2>6. b(1) \div 64 \notin {0, 1, 2} => /\ b(5) \in 0 .. 255 /\ b(6) \in 0 .. 255
                                         /\ b(7) \in 0 .. 255 /\ b(8) \in 0 .. 255
    BY <1>5, <2>2, TopBits, Zenon
  <2>7. CASE b(1) \div 64 = 0 BY <2>1, <2>3, <2>7
  <2>8. CASE b(1) \div 64 = 1
    <3>1. Var(w, p) = u16 BY <2>1, <2>8
    <3>2. b(2) \in 0 .. 255 BY <2>4, <2>8
    <3>3. u16 \in Nat BY <2>3, <3>2, Shifted, ZenonT(40)
    <3> QED BY <3>1, <3>3, ZenonT(40)
  <2>9. CASE b(1) \div 64 = 2
    <3>1. Var(w, p) = u32 BY <2>1, <2>9
    <3>2. b(2) \in 0 .. 255 /\ b(3) \in 0 .. 255 /\ b(4) \in 0 .. 255 BY <2>4, <2>5, <2>9
    <3>3. u16 \in Nat BY <2>3, <3>2, Shifted, ZenonT(40)
    <3>4. u16 * 256 + b(3) \in Nat BY <3>2, <3>3, Shifted, ZenonT(40)
    <3>5. u32 \in Nat BY <3>2, <3>4, Shifted, ZenonT(40)
    <3> QED BY <3>1, <3>5, ZenonT(40)
  <2>10. CASE b(1) \div 64 = 3
    <3>1. Var(w, p) = word BY <2>1, <2>10
    <3> b(1) \div 64 # 0 /\ b(1) \div 64 \notin {0, 1} /\ b(1) \div 64 \notin {0, 1, 2} BY <2>10
    <3>2. /\ b(2) \in 0 .. 255 /\ b(3) \in 0 .. 255 /\ b(4) \in 0 .. 255
          /\ b(5) \in 0 .. 255 /\ b(6) \in 0 .. 255 /\ b(7) \in 0 .. 255 /\ b(8) \in 0 .. 255
      BY <2>4, <2>5, <2>6, Zenon
    <3>3. u16 \in Nat BY <2>3, <3>2, Shifted, ZenonT(40)
    <3>4. u16 * 256 + b(3) \in Nat BY <3>2, <3>3, Shifted, ZenonT(40)
    <3>5. u32 \in Nat BY <3>2, <3>4, Shifted, ZenonT(40)
    <3> DEFINE v5 == u32 * 256 + b(5)
               v6 == v5 * 256 + b(6)
               v7 == v6 * 256 + b(7)
    <3>6. v5 \in Nat BY <3>2, <3>5, Shifted, Zenon
    <3>7. v6 \in Nat
      <4> HIDE DEF v5
      <4> QED BY <3>2, <3>6, Shifted, Zenon
    <3>8. v7 \in Nat
      <4> HIDE DEF v6
      <4> QED BY <3>2, <3>7, Shifted, Zenon
    <3>9. Var(w, p) = v7 * 256 + b(8) BY <3>1, Zenon
    <3> HIDE DEF v7
    <3>10. b(8) \in 0 .. 255 BY <3>2, Zenon
    <3>11. v7 * 256 + b(8) \in Nat BY <3>8, <3>10, Shifted, Zenon
    <3> QED BY <3>9, <3>11, Zenon
  <2> QED BY <2>3, <2>7, <2>8, <2>9, <2>10
<1> QED BY <1>4, <1>6

(* More bytes do not take an integer away.                                 *)
LEMMA HasVarMore ==
  ASSUME NEW w \in Seq(Byte), NEW p \in Nat, NEW l \in Nat, NEW m \in Nat,
         l <= m, m <= Len(w), HasVar(w, p, l)
  PROVE  HasVar(w, p, m)
<1>1. p < l /\ p + encoded_size(w[p + 1]) <= l BY DEF HasVar
<1>2. p + 1 \in 1 .. Len(w) BY <1>1
<1>3. w[p + 1] \in Byte /\ w[p + 1] \in 0 .. 255 /\ encoded_size(w[p + 1]) \in {1, 2, 4, 8}
  BY <1>2, ByteAt
<1> QED BY <1>1, <1>3 DEF HasVar

(* A header that is there: where the parts of the frame are.               *)
LEMMA HeaderType ==
  ASSUME NEW w \in Seq(Byte), NEW p \in Nat, NEW limit \in Nat, limit <= Len(w),
         HasVar(w, p, limit), HasVar(w, VarEnd(w, p), limit)
  PROVE  /\ Var(w, p) \in Nat /\ Var(w, VarEnd(w, p)) \in Nat
         /\ VarEnd(w, p) \in Nat /\ p + 1 <= VarEnd(w, p)
         /\ VarEnd(w, VarEnd(w, p)) \in Nat
         /\ p + 2 <= VarEnd(w, VarEnd(w, p)) /\ VarEnd(w, VarEnd(w, p)) <= limit
<1>1. Var(w, p) \in Nat /\ VarEnd(w, p) \in Nat /\ p + 1 <= VarEnd(w, p) BY VarType
<1> DEFINE q == VarEnd(w, p)
<1>2. Var(w, q) \in Nat /\ VarEnd(w, q) \in Nat /\ q + 1 <= VarEnd(w, q) /\ VarEnd(w, q) <= limit
  BY <1>1, VarType
<1> QED BY <1>1, <1>2

(* UnexpectedEnd's guess.                                                  *)
LEMMA MissingType ==
  ASSUME NEW w \in Seq(Byte), NEW p \in Nat, NEW limit \in Nat, limit <= Len(w)
  PROVE  Missing(w, p, limit) \in 0 .. 3
<1>1. CASE p >= limit BY <1>1 DEF Missing
<1>2. CASE p < limit
  <2>1. w[p + 1] \in Byte BY <1>2, p + 1 \in 1 .. Len(w), ByteAt
  <2>2. w[p + 1] \div 64 \in 0 .. 3 BY <2>1, TopBits, Zenon
  <2>3. Missing(w, p, limit) = w[p + 1] \div 64 BY <1>2 DEF Missing
  <2> QED BY <2>2, <2>3, Zenon
<1> QED BY <1>1, <1>2

(* No limit below n makes a frame out of the bytes from p.                 *)
Hopeless(w, p, n) ==
  \A limit \in p .. Len(w) : limit - p < n => Decode(w, p, limit).res = "incomplete"

(* FrameDecoder::decode may wait for the number of bytes Frame::decode has *)
(* given it, guess or not: with fewer there is no frame.                   *)
THEOREM WaitIsRight ==
  ASSUME NEW w \in Seq(Byte), NEW p \in Nat, NEW limit \in p .. Len(w),
         Decode(w, p, limit).res = "incomplete"
  PROVE  /\ Decode(w, p, limit).min \in Nat
         /\ Hopeless(w, p, Decode(w, p, limit).min)
<1> DEFINE q == VarEnd(w, p)
           d == Decode(w, p, limit)
           No(l) == Decode(w, p, l).res = "incomplete"
<1>0. limit \in Nat /\ limit <= Len(w) OBVIOUS
<1>1. SUFFICES d.min \in Nat /\ \A l \in p .. Len(w) : l - p < d.min => No(l)
  BY DEF Hopeless
<1>2. \A l \in p .. Len(w) : ~HasVar(w, p, l) \/ ~HasVar(w, q, l) => No(l)
  BY DEF Decode, Incomplete
<1>3. CASE ~HasVar(w, p, limit)
  <2>1. d.min = limit - p + 1 BY <1>3 DEF Decode, Incomplete
  <2>2. \A l \in p .. limit : ~HasVar(w, p, l) BY <1>3, <1>0, HasVarMore
  <2> QED BY <1>2, <2>1, <2>2
<1>4. CASE HasVar(w, p, limit) /\ ~HasVar(w, q, limit)
  <2>1. q \in Nat /\ p + 1 <= q BY <1>0, <1>4, VarType
  <2>2. \A l \in p .. limit : ~HasVar(w, q, l) BY <1>4, <1>0, <2>1, HasVarMore
  <2>3. \A l \in p .. limit : No(l)
    BY <1>2, <2>2
  <2>4. CASE Var(w, p) = WEBTRANSPORT_BI_STREAM
    <3>1. d.min = Missing(w, q, limit) BY <1>4, <2>4 DEF Decode, Incomplete
    <3>2. d.min \in 0 .. 3 BY <3>1, <1>0, <2>1, MissingType
    <3>3. q >= limit => d.min = 0 BY <3>1 DEF Missing
    <3>4. \A l \in p .. Len(w) : l - p < d.min => l \in p .. limit
      BY <3>2, <3>3, <2>1
    <3> QED BY <2>3, <3>2, <3>4
  <2>5. CASE Var(w, p) # WEBTRANSPORT_BI_STREAM
    <3>1. d.min = limit - p + 1 BY <1>4, <2>5 DEF Decode, Incomplete
    <3> QED BY <2>3, <3>1
  <2> QED BY <2>4, <2>5
<1>5. CASE HasVar(w, p, limit) /\ HasVar(w, q, limit)
  <2> DEFINE type == Var(w, p)
             len == Var(w, q)
             at == VarEnd(w, q)
  <2>1. /\ type \in Nat /\ len \in Nat /\ at \in Nat /\ p + 2 <= at /\ at <= limit
    BY <1>0, <1>5, HeaderType
  <2>2. type # WEBTRANSPORT_BI_STREAM /\ type # DATA
    BY <1>5 DEF Decode, Decoded
  <2>3. \A l \in p .. Len(w) : HasVar(w, p, l) /\ HasVar(w, q, l) =>
          Decode(w, p, l) = IF l - at < len THEN Incomplete(2 + len)
                            ELSE DecodePayload(w, type, at, len)
    BY <2>2 DEF Decode
  <2>4. CASE limit - at < len
    <3>1. d.min = 2 + len BY <1>5, <2>3, <2>4 DEF Incomplete
    <3>2. \A l \in p .. Len(w) : l - p < 2 + len => l - at < len BY <2>1
    <3>3. \A l \in p .. Len(w) : l - p < 2 + len => No(l)
      BY <1>2, <2>3, <3>2 DEF Incomplete
    <3> QED BY <2>1, <3>1, <3>3
  <2>5. CASE ~(limit - at < len)
    <3>1. d = DecodePayload(w, type, at, len) BY <1>5, <2>3, <2>5
    <3>2. \A l \in p .. Len(w) : No(l) BY <1>2, <2>3, <3>1 DEF Incomplete
    <3>3. d.min = Missing(w, at, at + len)
      BY <3>1 DEF DecodePayload, Incomplete, Forbidden, InvalidSettings, Decoded, Unknown
    <3>4. at + len \in Nat /\ at + len <= Len(w) BY <1>0, <2>1, <2>5
    <3>5. Missing(w, at, at + len) \in 0 .. 3
      <4> HIDE DEF at, len
      <4> QED BY <2>1, <3>4, MissingType
    <3>6. d.min \in Nat BY <3>3, <3>5
    <3> QED BY <3>2, <3>6
  <2> QED BY <2>4, <2>5
<1> QED BY <1>3, <1>4, <1>5

(***************************************************************************)
(* The reference.  FramesFrom is a recursive function of the position; the *)
(* equation it is defined by has a solution because every frame ends after *)
(* it begins.                                                              *)
(***************************************************************************)

(* The order of the numbers, as a relation.                                *)
LessThan == {x \in Nat \X Nat : x[1] < x[2]}

(* Induction, for a set in the place of a predicate.                       *)
LEMMA SetInduction ==
  ASSUME NEW T, T \subseteq Nat, 0 \in T, \A n \in T : n + 1 \in T
  PROVE  T = Nat
<1>1. IsWellFoundedOn(LessThan, Nat)
  BY NatLessThanWellFounded, Zenon DEF OpToRel, LessThan
<1> SUFFICES ASSUME Nat \ T # {} PROVE FALSE OBVIOUS
<1>2. PICK x \in Nat \ T : \A y \in Nat \ T : ~(<<y, x>> \in LessThan)
  BY <1>1, Nat \ T \subseteq Nat, WFMin
<1>3. x # 0 /\ x - 1 \in Nat BY <1>2
<1>4. <<x - 1, x>> \in LessThan BY <1>3 DEF LessThan
<1>5. x - 1 \in T BY <1>2, <1>3, <1>4
<1>6. (x - 1) + 1 = x BY <1>3
<1> QED BY <1>2, <1>5, <1>6

(* The frame whose header is at p.                                         *)
LEMMA FrameType ==
  ASSUME NEW w \in Seq(Byte), NEW p \in Nat, HasHeader(w, p)
  PROVE  /\ FrameAt(w, p) \in [type : Nat, at : Nat, len : Nat]
         /\ p + 2 <= FrameAt(w, p).at /\ FrameAt(w, p).at <= Len(w)
         /\ EndOf(FrameAt(w, p)) \in Nat /\ p + 2 <= EndOf(FrameAt(w, p))
<1>1. Len(w) \in Nat /\ HasVar(w, p, Len(w)) /\ HasVar(w, VarEnd(w, p), Len(w)) BY DEF HasHeader
<1> DEFINE q == VarEnd(w, p)
<1>2. /\ Var(w, p) \in Nat /\ Var(w, q) \in Nat /\ VarEnd(w, q) \in Nat
      /\ p + 2 <= VarEnd(w, q) /\ VarEnd(w, q) <= Len(w)
  BY <1>1, HeaderType
<1> QED BY <1>2 DEF FrameAt, EndOf

(* The step of the recursion looks at positions after p alone.             *)
LEMMA StepLooksAhead ==
  ASSUME NEW w \in Seq(Byte), NEW p \in 0 .. Len(w), NEW F, NEW G,
         \A e \in (p + 1) .. Len(w) : F[e] = G[e]
  PROVE  NextFrames(w, F, p) = NextFrames(w, G, p)
<1> DEFINE f == FrameAt(w, p)
<1>1. CASE HasHeader(w, p) /\ EndOf(f) <= Len(w)
  <2>1. EndOf(f) \in (p + 1) .. Len(w) BY <1>1, FrameType
  <2>2. F[EndOf(f)] = G[EndOf(f)] BY <2>1
  <2> QED BY <1>1, <2>2, Zenon DEF NextFrames
<1>2. CASE HasHeader(w, p) /\ ~(EndOf(f) <= Len(w))
  <2>1. EndOf(f) > Len(w) BY <1>2, FrameType
  <2> QED BY <1>2, <2>1, Zenon DEF NextFrames
<1>3. CASE ~HasHeader(w, p) BY <1>3, Zenon DEF NextFrames
<1> QED BY <1>1, <1>2, <1>3

(* The equation FramesFrom is defined by.                                  *)
THEOREM FramesEquation ==
  ASSUME NEW w \in Seq(Byte)
  PROVE  FramesFrom(w) = [p \in 0 .. Len(w) |-> NextFrames(w, FramesFrom(w), p)]
<1> DEFINE n == Len(w)
           Solves(g, k) == \A p \in 0 .. n : n - p <= k => g[p] = NextFrames(w, g, p)
           T == {k \in Nat : \E g : Solves(g, k)}
<1>0. n \in Nat OBVIOUS
<1>1. 0 \in T
  <2> DEFINE g == [p \in 0 .. n |-> <<>>]
  <2>1. \A p \in 0 .. n : n - p <= 0 => p = n BY <1>0
  <2>2. NextFrames(w, g, n) = <<>> BY Zenon DEF NextFrames
  <2>3. Solves(g, 0) BY <1>0, <2>1, <2>2
  <2> QED BY <2>3
<1>2. \A k \in T : k + 1 \in T
  <2> TAKE k \in T
  <2>0. k \in Nat /\ \E g : Solves(g, k) BY Zenon
  <2> PICK g : Solves(g, k) BY <2>0, Zenon
  <2> DEFINE h == [p \in 0 .. n |-> IF n - p <= k THEN g[p] ELSE NextFrames(w, g, p)]
  <2>1. ASSUME NEW p \in 0 .. n, n - p <= k + 1 PROVE h[p] = NextFrames(w, h, p)
    <3>1. \A e \in (p + 1) .. n : n - e <= k /\ e \in 0 .. n BY <1>0, <2>0, <2>1
    <3>2. \A e \in (p + 1) .. n : h[e] = g[e] BY <3>1
    <3> HIDE DEF h
    <3>3. NextFrames(w, h, p) = NextFrames(w, g, p) BY <3>2, StepLooksAhead
    <3>4. h[p] = NextFrames(w, g, p) BY Zenon DEF h
    <3> QED BY <3>3, <3>4
  <2>2. Solves(h, k + 1) BY <2>1
  <2>3. k + 1 \in Nat BY <2>0
  <2> QED BY <2>2, <2>3, Zenon
<1>3. T = Nat
  <2> HIDE DEF T
  <2>1. T \subseteq Nat BY DEF T
  <2> QED BY <1>1, <1>2, <2>1, SetInduction
<1>4. PICK g : Solves(g, n) BY <1>0, <1>3
<1> DEFINE f == [p \in 0 .. n |-> g[p]]
<1>5. \A p \in 0 .. n : NextFrames(w, f, p) = NextFrames(w, g, p)
  <2> TAKE p \in 0 .. n
  <2>1. \A e \in (p + 1) .. n : f[e] = g[e] BY <1>0
  <2> HIDE DEF f
  <2> QED BY <2>1, StepLooksAhead
<1>6. \A p \in 0 .. n : f[p] = NextFrames(w, f, p) BY <1>0, <1>4, <1>5
<1>7. f = [p \in 0 .. n |-> NextFrames(w, f, p)] BY <1>6
<1>8. \E F : F = [p \in 0 .. n |-> NextFrames(w, F, p)] BY <1>7, Zenon
<1> QED BY <1>8, Zenon DEF FramesFrom

(* What a frame of the reference is, and that none begins before the       *)
(* position it was looked for from.                                        *)
FrameRecord == [type : Int, at : Nat, len : Nat]
Ahead(s, p) == s \in Seq(FrameRecord) /\ \A i \in 1 .. Len(s) : s[i].at >= p

(* A frame joined in front of later ones.                                  *)
LEMMA AheadJoined ==
  ASSUME NEW p \in Nat, NEW e \in Nat, p <= e, NEW s, Ahead(s, e),
         NEW f \in FrameRecord, f.at >= p
  PROVE  Ahead(s, p) /\ Ahead(<<f>> \o s, p)
<1>0. \A g \in FrameRecord : g.at \in Nat BY DEF FrameRecord
<1>1. s \in Seq(FrameRecord) /\ \A i \in 1 .. Len(s) : s[i].at \in Nat /\ s[i].at >= e
  BY <1>0 DEF Ahead
<1>2. Ahead(s, p) BY <1>1 DEF Ahead
<1>3. <<f>> \o s \in Seq(FrameRecord) /\ Len(<<f>> \o s) = 1 + Len(s) BY <1>1
<1>4. \A i \in 1 .. (1 + Len(s)) : (<<f>> \o s)[i] = IF i = 1 THEN f ELSE s[i - 1] BY <1>1
<1>5. \A i \in 1 .. (1 + Len(s)) : i # 1 => i - 1 \in 1 .. Len(s) BY <1>1
<1>6. \A i \in 1 .. (1 + Len(s)) : (<<f>> \o s)[i].at >= p BY <1>1, <1>4, <1>5
<1> QED BY <1>2, <1>3, <1>6 DEF Ahead

(* The reference is a sequence of frames, none of which begins before the  *)
(* position it is asked for.                                               *)
LEMMA FramesAhead ==
  ASSUME NEW w \in Seq(Byte)
  PROVE  \A p \in 0 .. Len(w) : Ahead(FramesFrom(w)[p], p)
<1> DEFINE n == Len(w)
           F == FramesFrom(w)
           T == {k \in Nat : \A p \in 0 .. n : n - p <= k => Ahead(F[p], p)}
<1>0. n \in Nat OBVIOUS
<1>1. ASSUME NEW p \in 0 .. n, \A e \in (p + 1) .. n : Ahead(F[e], e) PROVE Ahead(F[p], p)
  <2> DEFINE f == FrameAt(w, p)
  <2> HIDE DEF F
  <2>1. F[p] = NextFrames(w, F, p) BY FramesEquation DEF F
  <2>2. CASE p = n
    <3>1. F[p] = <<>> BY <2>1, <2>2, Zenon DEF NextFrames
    <3> QED BY <3>1 DEF Ahead
  <2>3. CASE p # n /\ ~HasHeader(w, p)
    <3>1. F[p] = <<[type |-> Truncated, at |-> p, len |-> 0]>> BY <2>1, <2>3, Zenon DEF NextFrames
    <3> QED BY <3>1 DEF Ahead, FrameRecord, Truncated
  <2>4. CASE p # n /\ HasHeader(w, p)
    <3>1. /\ f \in [type : Nat, at : Nat, len : Nat] /\ p + 2 <= f.at
          /\ EndOf(f) \in Nat /\ p + 2 <= EndOf(f)
      BY <2>4, FrameType
    <3> HIDE DEF f
    <3>2. f \in FrameRecord /\ CutShort(f) \in FrameRecord /\ CutShort(f).at = f.at
      BY <3>1 DEF FrameRecord, CutShort, Truncated
    <3>3. Ahead(<<f>>, p) /\ Ahead(<<CutShort(f)>>, p) /\ Ahead(<<f, CutShort(f)>>, p)
      BY <3>1, <3>2 DEF Ahead
    <3>4. CASE EndOf(f) > n
      <4>1. F[p] \in {<<f>>, <<CutShort(f)>>, <<f, CutShort(f)>>}
        BY <2>1, <2>4, <3>4, Zenon DEF NextFrames, f
      <4> QED BY <3>3, <4>1
    <3>5. CASE ~(EndOf(f) > n)
      <4>1. F[p] \in {<<f>>, <<CutShort(f)>>, <<f>> \o F[EndOf(f)], F[EndOf(f)]}
        BY <2>1, <2>4, <3>5, Zenon DEF NextFrames, f
      <4>2. EndOf(f) \in (p + 1) .. n BY <1>0, <3>1, <3>5
      <4>3. Ahead(F[EndOf(f)], EndOf(f)) BY <1>1, <4>2
      <4>4. Ahead(F[EndOf(f)], p) /\ Ahead(<<f>> \o F[EndOf(f)], p)
        BY <3>1, <3>2, <4>3, AheadJoined
      <4> QED BY <3>3, <4>1, <4>4
    <3> QED BY <3>4, <3>5
  <2> QED BY <2>2, <2>3, <2>4
<1> HIDE DEF F
<1>2. 0 \in T
  <2>1. \A p \in 0 .. n : n - p <= 0 => p = n /\ (p + 1) .. n = {} BY <1>0
  <2> QED BY <1>1, <2>1
<1>3. \A k \in T : k + 1 \in T
  <2> TAKE k \in T
  <2>1. k \in Nat /\ \A p \in 0 .. n : n - p <= k => Ahead(F[p], p) OBVIOUS
  <2>2. \A p \in 0 .. n : n - p <= k + 1 => \A e \in (p + 1) .. n : e \in 0 .. n /\ n - e <= k
    BY <1>0, <2>1
  <2>3. \A p \in 0 .. n : n - p <= k + 1 => Ahead(F[p], p) BY <1>1, <2>1, <2>2
  <2> QED BY <2>1, <2>3
<1>4. T = Nat
  <2> HIDE DEF T
  <2>1. T \subseteq Nat BY DEF T
  <2> QED BY <1>2, <1>3, <2>1, SetInduction
<1>5. \A p \in 0 .. n : n - p <= n BY <1>0
<1> QED BY <1>0, <1>4, <1>5 DEF F

(***************************************************************************)
(* Frame::decode against the reference, on the bytes from p up to limit.   *)
(***************************************************************************)
Whole(w, p, limit) == HasVar(w, p, limit) /\ HasVar(w, VarEnd(w, p), limit)

(* Frame::decode by the frame whose header is at p.                        *)
LEMMA DecodeCases ==
  ASSUME NEW w \in Seq(Byte), NEW p \in Nat, NEW limit \in p .. Len(w)
  PROVE  LET d == Decode(w, p, limit)
             f == FrameAt(w, p)
         IN /\ ~Whole(w, p, limit) => d.res = "incomplete"
            /\ Whole(w, p, limit) =>
                 /\ HasHeader(w, p) /\ f.at <= limit
                 /\ f.type = WEBTRANSPORT_BI_STREAM =>
                      d = Decoded(f.type, Unlimited, VarEnd(w, p), f.at)
                 /\ f.type = DATA => d = Decoded(f.type, f.len, f.at, f.at)
                 /\ f.type \notin {DATA, WEBTRANSPORT_BI_STREAM} =>
                      d = IF EndOf(f) > limit THEN Incomplete(2 + f.len)
                          ELSE DecodePayload(w, f.type, f.at, f.len)
<1> DEFINE f == FrameAt(w, p)
           q == VarEnd(w, p)
<1>1. limit \in Nat /\ limit <= Len(w) /\ Len(w) \in Nat OBVIOUS
<1>2. CASE ~Whole(w, p, limit) BY <1>2 DEF Whole, Decode, Incomplete
<1>3. CASE Whole(w, p, limit)
  <2>1. HasVar(w, p, limit) /\ HasVar(w, q, limit) BY <1>3 DEF Whole
  <2>2. /\ q \in Nat /\ VarEnd(w, q) \in Nat /\ VarEnd(w, q) <= limit
        /\ Var(w, p) \in Nat /\ Var(w, q) \in Nat
    BY <1>1, <2>1, HeaderType
  <2>3. HasVar(w, p, Len(w)) BY <1>1, <2>1, HasVarMore
  <2>4. HasVar(w, q, Len(w)) BY <1>1, <2>1, <2>2, HasVarMore
  <2>5. f.type = Var(w, p) /\ f.at = VarEnd(w, q) /\ f.len = Var(w, q) BY DEF FrameAt
  <2> HIDE DEF f, q
  <2>6. limit - f.at < f.len <=> EndOf(f) > limit BY <1>1, <2>2, <2>5 DEF EndOf
  <2>7. WEBTRANSPORT_BI_STREAM # DATA BY DEF WEBTRANSPORT_BI_STREAM, DATA
  <2> DEFINE d == Decode(w, p, limit)
  <2>8. f.type = WEBTRANSPORT_BI_STREAM => d = Decoded(f.type, Unlimited, q, f.at)
    BY <2>1, <2>5, Zenon DEF Decode, q
  <2>9. f.type = DATA => d = Decoded(f.type, f.len, f.at, f.at)
    BY <2>1, <2>5, <2>7, Zenon DEF Decode, q
  <2>10. f.type \notin {DATA, WEBTRANSPORT_BI_STREAM} =>
           d = IF limit - f.at < f.len THEN Incomplete(2 + f.len)
               ELSE DecodePayload(w, f.type, f.at, f.len)
    BY <2>1, <2>5, Zenon DEF Decode, q
  <2>11. HasHeader(w, p) BY <2>3, <2>4 DEF HasHeader, q
  <2>12. f.type \notin {DATA, WEBTRANSPORT_BI_STREAM} =>
           d = IF EndOf(f) > limit THEN Incomplete(2 + f.len)
               ELSE DecodePayload(w, f.type, f.at, f.len)
    BY <2>6, <2>10
  <2> QED BY <1>3, <2>2, <2>5, <2>8, <2>9, <2>11, <2>12 DEF f, q
<1> QED BY <1>2, <1>3

(* The reference by the frame whose header is at p.                        *)
LEMMA FramesCases ==
  ASSUME NEW w \in Seq(Byte), NEW p \in 0 .. Len(w)
  PROVE  LET F == FramesFrom(w)
             f == FrameAt(w, p)
         IN /\ p = Len(w) => F[p] = <<>>
            /\ p # Len(w) /\ ~HasHeader(w, p) =>
                 F[p] = <<[type |-> Truncated, at |-> p, len |-> 0]>>
            /\ HasHeader(w, p) =>
                 /\ f.type = WEBTRANSPORT_BI_STREAM => F[p] = <<f>>
                 /\ f.type = DATA =>
                      F[p] = IF EndOf(f) > Len(w) THEN <<f, CutShort(f)>> ELSE <<f>> \o F[EndOf(f)]
                 /\ f.type \notin {DATA, WEBTRANSPORT_BI_STREAM} =>
                      F[p] = IF EndOf(f) > Len(w) \/ LacksInteger(w, f) THEN <<CutShort(f)>>
                             ELSE IF f.type \in KnownTypes THEN <<f>> \o F[EndOf(f)]
                             ELSE F[EndOf(f)]
<1> DEFINE F == FramesFrom(w)
           f == FrameAt(w, p)
<1>1. F[p] = NextFrames(w, F, p) BY FramesEquation
<1>2. p = Len(w) => ~HasHeader(w, p) BY DEF HasHeader, HasVar
<1>3. f.type = DATA => /\ f.type # WEBTRANSPORT_BI_STREAM /\ f.type \in KnownTypes
                       /\ ~LacksInteger(w, f)
  BY DEF WEBTRANSPORT_BI_STREAM, DATA, KnownTypes, LacksInteger, IdFrames, PUSH_PROMISE
<1> HIDE DEF F, f
<1>4. p = Len(w) => F[p] = <<>> BY <1>1, Zenon DEF NextFrames
<1>5. p # Len(w) /\ ~HasHeader(w, p) => F[p] = <<[type |-> Truncated, at |-> p, len |-> 0]>>
  BY <1>1, Zenon DEF NextFrames
<1>6. ASSUME HasHeader(w, p)
      PROVE  F[p] = IF f.type = WEBTRANSPORT_BI_STREAM THEN <<f>>
                    ELSE IF EndOf(f) > Len(w)
                    THEN IF f.type = DATA THEN <<f, CutShort(f)>> ELSE <<CutShort(f)>>
                    ELSE IF LacksInteger(w, f) THEN <<CutShort(f)>>
                    ELSE IF f.type \in KnownTypes THEN <<f>> \o F[EndOf(f)]
                    ELSE F[EndOf(f)]
  <2>1. p # Len(w) BY <1>2, <1>6
  <2> QED BY <1>1, <1>6, <2>1, Zenon DEF NextFrames, f
<1>7. HasHeader(w, p) /\ f.type = WEBTRANSPORT_BI_STREAM => F[p] = <<f>> BY <1>6, Zenon
<1>8. HasHeader(w, p) /\ f.type = DATA =>
        F[p] = IF EndOf(f) > Len(w) THEN <<f, CutShort(f)>> ELSE <<f>> \o F[EndOf(f)]
  BY <1>3, <1>6, Zenon
<1>9. HasHeader(w, p) /\ f.type \notin {DATA, WEBTRANSPORT_BI_STREAM} =>
        F[p] = IF EndOf(f) > Len(w) \/ LacksInteger(w, f) THEN <<CutShort(f)>>
               ELSE IF f.type \in KnownTypes THEN <<f>> \o F[EndOf(f)]
               ELSE F[EndOf(f)]
  BY <1>6, Zenon
<1> QED BY <1>4, <1>5, <1>7, <1>8, <1>9, Zenon DEF F, f

(* An unknown frame is skipped: the reference has nothing there.           *)
LEMMA DecodedUnknown ==
  ASSUME NEW w \in Seq(Byte), NEW p \in Nat, NEW limit \in p .. Len(w),
         Decode(w, p, limit).res = "unknown"
  PROVE  /\ Decode(w, p, limit).end \in (p + 1) .. limit
         /\ FramesFrom(w)[p] = FramesFrom(w)[Decode(w, p, limit).end]
<1> DEFINE d == Decode(w, p, limit)
           f == FrameAt(w, p)
<1>1. Whole(w, p, limit) BY DecodeCases
<1>2. HasHeader(w, p) /\ f.at <= limit BY <1>1, DecodeCases
<1>3. p \in 0 .. Len(w) /\ limit \in Nat /\ limit <= Len(w) /\ Len(w) \in Nat OBVIOUS
<1>4. f \in [type : Nat, at : Nat, len : Nat] /\ EndOf(f) \in Nat /\ p + 2 <= EndOf(f)
  BY <1>2, FrameType
<1>5. f.type \notin {DATA, WEBTRANSPORT_BI_STREAM} BY <1>1, DecodeCases DEF Decoded
<1>6. d = IF EndOf(f) > limit THEN Incomplete(2 + f.len) ELSE DecodePayload(w, f.type, f.at, f.len)
  BY <1>1, <1>5, DecodeCases, Zenon
<1>7. ~(EndOf(f) > limit) /\ d = DecodePayload(w, f.type, f.at, f.len) BY <1>6 DEF Incomplete
<1> HIDE DEF f
<1>8. /\ d = Unknown(EndOf(f))
      /\ f.type \notin IdFrames \cup {PUSH_PROMISE} \cup H2Frames \cup {HEADERS, SETTINGS}
  BY <1>7 DEF DecodePayload, Incomplete, Forbidden, InvalidSettings, Decoded, Unknown, EndOf
<1>9. f.type \notin KnownTypes /\ ~LacksInteger(w, f) BY <1>5, <1>8 DEF KnownTypes, LacksInteger
<1>10. ~(EndOf(f) > Len(w)) BY <1>3, <1>4, <1>7
<1>11. FramesFrom(w)[p] = FramesFrom(w)[EndOf(f)]
  BY <1>2, <1>3, <1>5, <1>9, <1>10, FramesCases DEF f
<1>12. d.end = EndOf(f) BY <1>8 DEF Unknown
<1> QED BY <1>3, <1>4, <1>7, <1>11, <1>12

(* What is refused is a known frame that is no part of a message: one of   *)
(* HTTP/2, or a SETTINGS frame that does not decode.                       *)
LEMMA DecodedError ==
  ASSUME NEW w \in Seq(Byte), NEW p \in Nat, NEW limit \in p .. Len(w),
         Decode(w, p, limit).res = "error"
  PROVE  LET f == FramesFrom(w)[p][1]
         IN /\ Len(FramesFrom(w)[p]) >= 1
            /\ f.type \notin {DATA, HEADERS, Truncated}
            /\ \/ /\ f.type = SETTINGS /\ BadSettings(w, f.at, f.len)
                  /\ Decode(w, p, limit).code = "H3_SETTINGS_ERROR"
               \/ f.type # SETTINGS /\ Decode(w, p, limit).code = "H3_FRAME_UNEXPECTED"
<1> DEFINE d == Decode(w, p, limit)
           f == FrameAt(w, p)
           F == FramesFrom(w)
<1>1. Whole(w, p, limit) BY DecodeCases
<1>2. HasHeader(w, p) /\ f.at <= limit BY <1>1, DecodeCases
<1>3. p \in 0 .. Len(w) /\ limit \in Nat /\ limit <= Len(w) /\ Len(w) \in Nat OBVIOUS
<1>4. f \in [type : Nat, at : Nat, len : Nat] /\ EndOf(f) \in Nat /\ p + 2 <= EndOf(f)
  BY <1>2, FrameType
<1>5. f.type \notin {DATA, WEBTRANSPORT_BI_STREAM} BY <1>1, DecodeCases DEF Decoded
<1>6. d = IF EndOf(f) > limit THEN Incomplete(2 + f.len) ELSE DecodePayload(w, f.type, f.at, f.len)
  BY <1>1, <1>5, DecodeCases, Zenon
<1>7. ~(EndOf(f) > limit) /\ d = DecodePayload(w, f.type, f.at, f.len) BY <1>6 DEF Incomplete
<1> HIDE DEF f
<1>8. \/ d = Forbidden /\ f.type \in H2Frames
      \/ d = InvalidSettings /\ f.type = SETTINGS /\ BadSettings(w, f.at, f.len)
  BY <1>7 DEF DecodePayload, Incomplete, Forbidden, InvalidSettings, Decoded, Unknown
<1>9. f.type \in KnownTypes /\ ~LacksInteger(w, f) /\ f.type \notin {DATA, HEADERS, Truncated}
  <2>1. f.type \in H2Frames \/ f.type = SETTINGS BY <1>8, Zenon
  <2> DEFINE t == f.type
  <2>2. t \in H2Frames \/ t = SETTINGS BY <2>1
  <2> HIDE DEF t
  <2>3. t \in KnownTypes BY <2>2 DEF KnownTypes
  <2>4. t \notin IdFrames \cup {PUSH_PROMISE} /\ t \notin {DATA, HEADERS, Truncated}
    BY <2>2 DEF H2Frames, SETTINGS, IdFrames, PUSH_PROMISE, DATA, HEADERS, Truncated
  <2>5. f.type \notin IdFrames \cup {PUSH_PROMISE} BY <2>4, Zenon DEF t
  <2>6. ~LacksInteger(w, f) BY <2>5, Zenon DEF LacksInteger
  <2> QED BY <2>3, <2>4, <2>6, Zenon DEF t
<1>10. ~(EndOf(f) > Len(w)) BY <1>3, <1>4, <1>7
<1>11. F[p] = <<f>> \o F[EndOf(f)]
  BY <1>2, <1>3, <1>5, <1>9, <1>10, FramesCases DEF f
<1>12. F[EndOf(f)] \in Seq(FrameRecord)
  BY <1>3, <1>4, <1>7, EndOf(f) \in 0 .. Len(w), FramesAhead DEF Ahead
<1>13. f \in FrameRecord BY <1>4 DEF FrameRecord
<1>14. Len(F[p]) >= 1 /\ F[p][1] = f BY <1>11, <1>12, <1>13
<1>15. \/ d.code = "H3_FRAME_UNEXPECTED" /\ f.type # SETTINGS
       \/ d.code = "H3_SETTINGS_ERROR" /\ f.type = SETTINGS /\ BadSettings(w, f.at, f.len)
  BY <1>8 DEF Forbidden, InvalidSettings, H2Frames, SETTINGS
<1> QED BY <1>9, <1>14, <1>15

(* A frame that is decoded is the next one of the reference; after HEADERS *)
(* and at the beginning of the payload of DATA the reader stands where the *)
(* reference goes on.                                                      *)
LEMMA DecodedFrame ==
  ASSUME NEW w \in Seq(Byte), NEW p \in Nat, NEW limit \in p .. Len(w),
         Decode(w, p, limit).res = "frame"
  PROVE  LET d == Decode(w, p, limit)
             F == FramesFrom(w)
             f == FrameAt(w, p)
         IN /\ d.type \in Nat /\ d.len \in Nat /\ d.end \in (p + 1) .. limit
            /\ Len(F[p]) >= 1 /\ F[p][1] = f /\ f \in FrameRecord /\ f.type = d.type
            /\ f.type = SETTINGS => ~BadSettings(w, f.at, f.len)
            /\ d.type = HEADERS =>
                 /\ d.at = f.at /\ d.len = f.len /\ d.end = EndOf(f)
                 /\ F[p] = <<f>> \o F[EndOf(f)]
            /\ d.type = DATA =>
                 /\ d.at = f.at /\ d.len = f.len /\ d.end = f.at
                 /\ F[p] = IF EndOf(f) > Len(w) THEN <<f, CutShort(f)>> ELSE <<f>> \o F[EndOf(f)]
<1> DEFINE d == Decode(w, p, limit)
           f == FrameAt(w, p)
           F == FramesFrom(w)
<1>1. Whole(w, p, limit) BY DecodeCases
<1>2. HasHeader(w, p) /\ f.at <= limit BY <1>1, DecodeCases
<1>3. p \in 0 .. Len(w) /\ limit \in Nat /\ limit <= Len(w) /\ Len(w) \in Nat OBVIOUS
<1>4. /\ f \in [type : Nat, at : Nat, len : Nat] /\ p + 2 <= f.at
      /\ EndOf(f) \in Nat /\ p + 2 <= EndOf(f)
  BY <1>2, FrameType
<1>5. f \in FrameRecord /\ CutShort(f) \in FrameRecord BY <1>4 DEF FrameRecord, CutShort, Truncated
<1>6. ~(EndOf(f) > Len(w)) => F[EndOf(f)] \in Seq(FrameRecord)
  BY <1>3, <1>4, ~(EndOf(f) > Len(w)) => EndOf(f) \in 0 .. Len(w), FramesAhead DEF Ahead
<1>7. CASE f.type = WEBTRANSPORT_BI_STREAM
  <2>1. d = Decoded(f.type, Unlimited, VarEnd(w, p), f.at) BY <1>1, <1>7, DecodeCases
  <2>2. F[p] = <<f>> BY <1>2, <1>3, <1>7, FramesCases
  <2> HIDE DEF f, F
  <2>3. d.type = f.type /\ d.len = Unlimited /\ d.end = f.at BY <2>1 DEF Decoded
  <2>4. d.type # HEADERS /\ d.type # DATA /\ d.type # SETTINGS
    BY <1>7, <2>3 DEF WEBTRANSPORT_BI_STREAM, HEADERS, DATA, SETTINGS
  <2>5. Unlimited \in Nat BY DEF Unlimited
  <2>6. Len(F[p]) >= 1 /\ F[p][1] = f BY <2>2
  <2>7. d.end \in (p + 1) .. limit BY <1>2, <1>3, <1>4, <2>3
  <2> HIDE DEF d
  <2>8. d.type \in Nat /\ d.len \in Nat BY <1>4, <2>3, <2>5
  <2> QED BY <1>5, <2>3, <2>4, <2>6, <2>7, <2>8 DEF d, f, F
<1>8. CASE f.type = DATA
  <2>1. d = Decoded(f.type, f.len, f.at, f.at) BY <1>1, <1>8, DecodeCases
  <2>2. F[p] = IF EndOf(f) > Len(w) THEN <<f, CutShort(f)>> ELSE <<f>> \o F[EndOf(f)]
    BY <1>2, <1>3, <1>8, FramesCases
  <2> HIDE DEF f, F
  <2>3. d.type = f.type /\ d.len = f.len /\ d.at = f.at /\ d.end = f.at BY <2>1 DEF Decoded
  <2>4. d.type # HEADERS /\ d.type # SETTINGS BY <1>8, <2>3 DEF HEADERS, DATA, SETTINGS
  <2>5. Len(F[p]) >= 1 /\ F[p][1] = f BY <1>5, <1>6, <2>2
  <2>6. d.end \in (p + 1) .. limit BY <1>2, <1>3, <1>4, <2>3
  <2> HIDE DEF d
  <2>7. d.type \in Nat /\ d.len \in Nat BY <1>4, <2>3
  <2> QED BY <1>5, <2>2, <2>3, <2>4, <2>5, <2>6, <2>7 DEF d, f, F
<1>9. CASE f.type \notin {DATA, WEBTRANSPORT_BI_STREAM}
  <2>1. d = IF EndOf(f) > limit THEN Incomplete(2 + f.len) ELSE DecodePayload(w, f.type, f.at, f.len)
    BY <1>1, <1>9, DecodeCases, Zenon
  <2>2. ~(EndOf(f) > limit) /\ d = DecodePayload(w, f.type, f.at, f.len) BY <2>1 DEF Incomplete
  <2> HIDE DEF f
  <2>11. ~(f.type = SETTINGS /\ BadSettings(w, f.at, f.len))
    BY <2>2 DEF DecodePayload, Forbidden, InvalidSettings
  <2>3. /\ f.type \in KnownTypes /\ ~LacksInteger(w, f)
        /\ d = Decoded(f.type, f.len, f.at,
                       IF f.type \in IdFrames THEN VarEnd(w, f.at) ELSE EndOf(f))
    <3>1. CASE f.type \in IdFrames \cup {PUSH_PROMISE}
      <4>1. f.type \notin H2Frames /\ f.type # SETTINGS
        BY <3>1 DEF IdFrames, PUSH_PROMISE, H2Frames, SETTINGS
      <4>2. HasVar(w, f.at, EndOf(f))
        BY <2>2, <3>1, <4>1 DEF DecodePayload, Incomplete, EndOf
      <4>3. d = Decoded(f.type, f.len, f.at,
                        IF f.type = PUSH_PROMISE THEN EndOf(f) ELSE VarEnd(w, f.at))
        BY <2>2, <3>1, <4>1, <4>2, Zenon DEF DecodePayload, EndOf
      <4>4. f.type = PUSH_PROMISE <=> f.type \notin IdFrames BY <3>1 DEF IdFrames, PUSH_PROMISE
      <4> QED BY <3>1, <4>2, <4>3, <4>4 DEF KnownTypes, LacksInteger
    <3>2. CASE f.type \notin IdFrames \cup {PUSH_PROMISE}
      <4>1. f.type \in {HEADERS, SETTINGS}
        BY <2>2, <3>2 DEF DecodePayload, Forbidden, InvalidSettings, Unknown
      <4>2. f.type \notin H2Frames BY <4>1 DEF HEADERS, SETTINGS, H2Frames
      <4>3. d = Decoded(f.type, f.len, f.at, EndOf(f))
        BY <2>2, <2>11, <3>2, <4>1, <4>2, Zenon DEF DecodePayload, EndOf
      <4> QED BY <3>2, <4>1, <4>3 DEF KnownTypes, LacksInteger
    <3> QED BY <3>1, <3>2
  <2>4. ~(EndOf(f) > Len(w)) BY <1>3, <1>4, <2>2
  <2>5. F[p] = <<f>> \o F[EndOf(f)]
    BY <1>2, <1>3, <1>9, <2>3, <2>4, FramesCases DEF f
  <2> HIDE DEF F
  <2>6. Len(F[p]) >= 1 /\ F[p][1] = f BY <1>5, <1>6, <2>4, <2>5
  <2>7. d.type = f.type /\ d.len = f.len /\ d.at = f.at BY <2>3 DEF Decoded
  <2>8. d.end \in (p + 1) .. limit /\ (f.type \notin IdFrames => d.end = EndOf(f))
    <3>1. CASE f.type \in IdFrames
      <4>1. HasVar(w, f.at, EndOf(f)) BY <2>3, <3>1 DEF LacksInteger
      <4>2. d.end = VarEnd(w, f.at) BY <2>3, <3>1 DEF Decoded
      <4>3. f.at \in Nat /\ EndOf(f) <= Len(w) BY <1>3, <1>4, <2>4
      <4>4. VarEnd(w, f.at) \in Nat /\ f.at + 1 <= VarEnd(w, f.at) /\ VarEnd(w, f.at) <= EndOf(f)
        BY <1>4, <4>1, <4>3, VarType
      <4> QED BY <1>3, <1>4, <2>2, <3>1, <4>2, <4>3, <4>4
    <3>2. CASE f.type \notin IdFrames
      <4>1. d.end = EndOf(f) BY <2>3, <3>2 DEF Decoded
      <4> QED BY <1>3, <1>4, <2>2, <4>1
    <3> QED BY <3>1, <3>2
  <2>9. f.type = HEADERS => f.type \notin IdFrames BY DEF HEADERS, IdFrames
  <2> HIDE DEF d
  <2>10. d.type \in Nat /\ d.len \in Nat BY <1>4, <2>7
  <2> QED BY <1>5, <1>9, <2>5, <2>6, <2>7, <2>8, <2>9, <2>10, <2>11 DEF d, f, F
<1> QED BY <1>7, <1>8, <1>9

(* At the end of the stream, what is not decoded is truncated.             *)
LEMMA DecodedNothing ==
  ASSUME NEW w \in Seq(Byte), NEW p \in Nat, p < Len(w),
         Decode(w, p, Len(w)).res = "incomplete"
  PROVE  /\ Len(FramesFrom(w)[p]) = 1
         /\ FramesFrom(w)[p][1].type = Truncated
<1> DEFINE n == Len(w)
           d == Decode(w, p, n)
           f == FrameAt(w, p)
           F == FramesFrom(w)
<1>1. n \in Nat /\ n \in p .. Len(w) /\ p \in 0 .. Len(w) OBVIOUS
<1>2. CASE ~HasHeader(w, p)
  <2>0. p # Len(w) OBVIOUS
  <2>1. F[p] = <<[type |-> Truncated, at |-> p, len |-> 0]>>
    BY <1>1, <1>2, <2>0, FramesCases, Zenon
  <2> QED BY <2>1
<1>3. CASE HasHeader(w, p)
  <2>1. Whole(w, p, n) BY <1>3 DEF Whole, HasHeader
  <2>2. f.type \notin {DATA, WEBTRANSPORT_BI_STREAM} BY <1>1, <2>1, DecodeCases DEF Decoded
  <2>3. d = IF EndOf(f) > n THEN Incomplete(2 + f.len) ELSE DecodePayload(w, f.type, f.at, f.len)
    BY <1>1, <2>1, <2>2, DecodeCases, Zenon
  <2> HIDE DEF f
  <2>4. EndOf(f) > n \/ LacksInteger(w, f)
    BY <2>3 DEF DecodePayload, Forbidden, InvalidSettings, Unknown, Decoded, LacksInteger, EndOf
  <2>5. F[p] = <<CutShort(f)>> BY <1>1, <1>3, <2>2, <2>4, FramesCases DEF f
  <2>6. f \in [type : Nat, at : Nat, len : Nat] BY <1>3, FrameType, Zenon DEF f
  <2>7. CutShort(f).type = Truncated BY <2>6 DEF CutShort
  <2> HIDE DEF F
  <2>8. Len(F[p]) = 1 /\ F[p][1] = CutShort(f) BY <2>5
  <2> QED BY <2>7, <2>8 DEF F
<1> QED BY <1>2, <1>3


(***************************************************************************)
(* BufList::take_chunk.                                                    *)
(***************************************************************************)

(* A set of numbers has a least element.                                   *)
LEMMA Least ==
  ASSUME NEW S, S \subseteq Nat, S # {}
  PROVE  \E c \in S : \A d \in S : c <= d
<1>1. IsWellFoundedOn(LessThan, Nat)
  BY NatLessThanWellFounded, Zenon DEF OpToRel, LessThan
<1>2. PICK x \in S : \A y \in S : ~(<<y, x>> \in LessThan) BY <1>1, WFMin
<1>3. \A y \in S : ~(y < x) BY <1>2 DEF LessThan
<1> QED BY <1>3

(* take_chunk returns at least one byte, none that was not received, and   *)
(* none beyond the limit.                                                  *)
LEMMA TakeChunk ==
  ASSUME pos \in Nat, NEW top \in Nat, NEW bounds, bounds \subseteq (pos + 1) .. top, bounds # {},
         NEW limit \in Nat, limit # 0
  PROVE  LET end == ChunkEnd(bounds, limit)
         IN end \in (pos + 1) .. top /\ end - pos <= limit /\ (end - pos < limit => end \in bounds)
<1> DEFINE first == CHOOSE c \in bounds : \A d \in bounds : c <= d
<1>1. first \in bounds
  <2>1. bounds \subseteq Nat OBVIOUS
  <2>2. \E c \in bounds : \A d \in bounds : c <= d BY <2>1, Least
  <2> QED BY <2>2, Zenon
<1>2. ChunkEnd(bounds, limit) = IF first - pos < limit THEN first ELSE pos + limit
  BY Zenon DEF ChunkEnd
<1> HIDE DEF first
<1>3. first \in (pos + 1) .. top BY <1>1
<1> QED BY <1>1, <1>2, <1>3
=============================================================================
