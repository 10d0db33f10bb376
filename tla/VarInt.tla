------------------------------- MODULE VarInt -------------------------------
(***************************************************************************)
(* QUIC's variable-length integers over the whole range of u64.            *)
(*                                                                         *)
(* A u64 is the sequence of its eight bytes, the highest first, which is   *)
(* how VarInt::decode and VarInt::encode see it (from_be_bytes, put_u64):  *)
(* no bound on the values is needed.                                       *)
(***************************************************************************)
EXTENDS Integers, Sequences

Byte == 0 .. 255
U64 == [1 .. 8 -> Byte]

(* The u64 of a small number.                                              *)
u64(n) == <<0, 0, 0, 0, n \div 2 ^ 24, (n \div 2 ^ 16) % 256, (n \div 256) % 256, n % 256>>

(* x < 2 ^ 62, what VarInt::from_u64 accepts.                              *)
IsVarInt(x) == x[1] < 64

(* x fits in n bytes of which two bits are taken.                          *)
FitsIn(x, n) == x[9 - n] < 64 /\ \A i \in 1 .. (8 - n) : x[i] = 0

(* VarInt::size.                                                           *)
VarSize(x) == CHOOSE n \in {1, 2, 4, 8} :
                FitsIn(x, n) /\ \A m \in {1, 2, 4, 8} : m < n => ~FitsIn(x, m)

(* Deliberate bug: a value of 64 is written in one byte.                   *)
VarEncode_OffByOne(x) ==
  LET n == IF x = u64(64) THEN 1 ELSE VarSize(x)
  IN [SubSeq(x, 9 - n, 8) EXCEPT ![1] = (@ + 64 * (CHOOSE k \in 0 .. 3 : 2 ^ k = n)) % 256]

(* VarInt::encode: the lowest bytes, with the length in the top bits.      *)
VarEncode(x) ==
  LET n == VarSize(x)
  IN [SubSeq(x, 9 - n, 8) EXCEPT ![1] = @ + 64 * (CHOOSE k \in 0 .. 3 : 2 ^ k = n)]

(* VarInt::encoded_size.                                                   *)
encoded_size(first) == 2 ^ (first \div 64)

(* VarInt::decode: whether the bytes begin with an integer, which one, and *)
(* what follows it.                                                        *)
VarThere(bytes) == bytes # <<>> /\ Len(bytes) >= encoded_size(bytes[1])
VarValue(bytes) ==
  LET n == encoded_size(bytes[1])
  IN [i \in 1 .. 8 |-> IF i < 9 - n THEN 0
                       ELSE IF i = 9 - n THEN bytes[1] % 64
                       ELSE bytes[i - 8 + n]]
VarRest(bytes) == SubSeq(bytes, encoded_size(bytes[1]) + 1, Len(bytes))

(* u64 arithmetic by four; the product is only taken of a VarInt, which    *)
(* leaves it below 2 ^ 64.                                                 *)
TimesFour(x) ==
  [i \in 1 .. 8 |-> ((x[i] * 4) % 256) + (IF i = 8 THEN 0 ELSE x[i + 1] \div 64)]
OverFour(x) ==
  [i \in 1 .. 8 |-> (x[i] \div 4) + (IF i = 1 THEN 0 ELSE 64 * (x[i - 1] % 4))]
=============================================================================
