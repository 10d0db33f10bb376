------------------------------ MODULE Huffman ------------------------------
(***************************************************************************)
(* The Huffman code of QPACK strings: HuffmanEncoder with its table of     *)
(* codes, and HuffmanDecoder with its tree of lookup tables.               *)
(*                                                                         *)
(* A buffer is the sequence of its bits, eight to a byte; a BitWindow is   *)
(* how many bits come before it and how many it has.                       *)
(***************************************************************************)
EXTENDS Integers, Sequences, SequencesExt

Bits(v, n) == [i \in 1 .. n |-> (v \div 2 ^ (n - i)) % 2]
Number(bits) ==
  LET Upto[i \in Nat] == IF i = 0 THEN 0 ELSE 2 * Upto[i - 1] + bits[i] IN Upto[Len(bits)]
BitsOf(bytes) ==
  [i \in 1 .. 8 * Len(bytes) |->
     (bytes[(i + 7) \div 8] \div 2 ^ (7 - ((i - 1) % 8))) % 2]
BytesOf(bits) ==
  [i \in 1 .. Len(bits) \div 8 |-> Number(SubSeq(bits, 8 * i - 7, 8 * i))]

(* BitWindow::forwards: the window of step bits after this one.            *)
forwards(window, step) == [at |-> window.at + window.count, count |-> step]

-----------------------------------------------------------------------------
(***************************************************************************)
(* Encoding.  HPACK_STRING gives the code of each byte: the number of its  *)
(* bits, and the bits as a number.                                         *)
(***************************************************************************)
CodesTo127 ==
  <<<<13, 8184>>, <<23, 8388568>>, <<28, 268435426>>, <<28, 268435427>>, <<28, 268435428>>,
    <<28, 268435429>>, <<28, 268435430>>, <<28, 268435431>>, <<28, 268435432>>, <<24, 16777194>>,
    <<30, 1073741820>>, <<28, 268435433>>, <<28, 268435434>>, <<30, 1073741821>>,
    <<28, 268435435>>, <<28, 268435436>>, <<28, 268435437>>, <<28, 268435438>>,
    <<28, 268435439>>, <<28, 268435440>>, <<28, 268435441>>, <<28, 268435442>>,
    <<30, 1073741822>>, <<28, 268435443>>, <<28, 268435444>>, <<28, 268435445>>,
    <<28, 268435446>>, <<28, 268435447>>, <<28, 268435448>>, <<28, 268435449>>,
    <<28, 268435450>>, <<28, 268435451>>, <<6, 20>>, <<10, 1016>>, <<10, 1017>>, <<12, 4090>>,
    <<13, 8185>>, <<6, 21>>, <<8, 248>>, <<11, 2042>>, <<10, 1018>>, <<10, 1019>>, <<8, 249>>,
    <<11, 2043>>, <<8, 250>>, <<6, 22>>, <<6, 23>>, <<6, 24>>, <<5, 0>>, <<5, 1>>, <<5, 2>>,
    <<6, 25>>, <<6, 26>>, <<6, 27>>, <<6, 28>>, <<6, 29>>, <<6, 30>>, <<6, 31>>, <<7, 92>>,
    <<8, 251>>, <<15, 32764>>, <<6, 32>>, <<12, 4091>>, <<10, 1020>>, <<13, 8186>>, <<6, 33>>,
    <<7, 93>>, <<7, 94>>, <<7, 95>>, <<7, 96>>, <<7, 97>>, <<7, 98>>, <<7, 99>>, <<7, 100>>,
    <<7, 101>>, <<7, 102>>, <<7, 103>>, <<7, 104>>, <<7, 105>>, <<7, 106>>, <<7, 107>>,
    <<7, 108>>, <<7, 109>>, <<7, 110>>, <<7, 111>>, <<7, 112>>, <<7, 113>>, <<7, 114>>,
    <<8, 252>>, <<7, 115>>, <<8, 253>>, <<13, 8187>>, <<19, 524272>>, <<13, 8188>>,
    <<14, 16380>>, <<6, 34>>, <<15, 32765>>, <<5, 3>>, <<6, 35>>, <<5, 4>>, <<6, 36>>, <<5, 5>>,
    <<6, 37>>, <<6, 38>>, <<6, 39>>, <<5, 6>>, <<7, 116>>, <<7, 117>>, <<6, 40>>, <<6, 41>>,
    <<6, 42>>, <<5, 7>>, <<6, 43>>, <<7, 118>>, <<6, 44>>, <<5, 8>>, <<5, 9>>, <<6, 45>>,
    <<7, 119>>, <<7, 120>>, <<7, 121>>, <<7, 122>>, <<7, 123>>, <<15, 32766>>, <<11, 2044>>,
    <<14, 16381>>, <<13, 8189>>, <<28, 268435452>>>>
CodesFrom128 ==
  <<<<20, 1048550>>, <<22, 4194258>>, <<20, 1048551>>, <<20, 1048552>>, <<22, 4194259>>,
    <<22, 4194260>>, <<22, 4194261>>, <<23, 8388569>>, <<22, 4194262>>, <<23, 8388570>>,
    <<23, 8388571>>, <<23, 8388572>>, <<23, 8388573>>, <<23, 8388574>>, <<24, 16777195>>,
    <<23, 8388575>>, <<24, 16777196>>, <<24, 16777197>>, <<22, 4194263>>, <<23, 8388576>>,
    <<24, 16777198>>, <<23, 8388577>>, <<23, 8388578>>, <<23, 8388579>>, <<23, 8388580>>,
    <<21, 2097116>>, <<22, 4194264>>, <<23, 8388581>>, <<22, 4194265>>, <<23, 8388582>>,
    <<23, 8388583>>, <<24, 16777199>>, <<22, 4194266>>, <<21, 2097117>>, <<20, 1048553>>,
    <<22, 4194267>>, <<22, 4194268>>, <<23, 8388584>>, <<23, 8388585>>, <<21, 2097118>>,
    <<23, 8388586>>, <<22, 4194269>>, <<22, 4194270>>, <<24, 16777200>>, <<21, 2097119>>,
    <<22, 4194271>>, <<23, 8388587>>, <<23, 8388588>>, <<21, 2097120>>, <<21, 2097121>>,
    <<22, 4194272>>, <<21, 2097122>>, <<23, 8388589>>, <<22, 4194273>>, <<23, 8388590>>,
    <<23, 8388591>>, <<20, 1048554>>, <<22, 4194274>>, <<22, 4194275>>, <<22, 4194276>>,
    <<23, 8388592>>, <<22, 4194277>>, <<22, 4194278>>, <<23, 8388593>>, <<26, 67108832>>,
    <<26, 67108833>>, <<20, 1048555>>, <<19, 524273>>, <<22, 4194279>>, <<23, 8388594>>,
    <<22, 4194280>>, <<25, 33554412>>, <<26, 67108834>>, <<26, 67108835>>, <<26, 67108836>>,
    <<27, 134217694>>, <<27, 134217695>>, <<26, 67108837>>, <<24, 16777201>>, <<25, 33554413>>,
    <<19, 524274>>, <<21, 2097123>>, <<26, 67108838>>, <<27, 134217696>>, <<27, 134217697>>,
    <<26, 67108839>>, <<27, 134217698>>, <<24, 16777202>>, <<21, 2097124>>, <<21, 2097125>>,
    <<26, 67108840>>, <<26, 67108841>>, <<28, 268435453>>, <<27, 134217699>>, <<27, 134217700>>,
    <<27, 134217701>>, <<20, 1048556>>, <<24, 16777203>>, <<20, 1048557>>, <<21, 2097126>>,
    <<22, 4194281>>, <<21, 2097127>>, <<21, 2097128>>, <<23, 8388595>>, <<22, 4194282>>,
    <<22, 4194283>>, <<25, 33554414>>, <<25, 33554415>>, <<24, 16777204>>, <<24, 16777205>>,
    <<26, 67108842>>, <<23, 8388596>>, <<26, 67108843>>, <<27, 134217702>>, <<26, 67108844>>,
    <<26, 67108845>>, <<27, 134217703>>, <<27, 134217704>>, <<27, 134217705>>, <<27, 134217706>>,
    <<27, 134217707>>, <<28, 268435454>>, <<27, 134217708>>, <<27, 134217709>>,
    <<27, 134217710>>, <<27, 134217711>>, <<27, 134217712>>, <<26, 67108846>>>>
HPACK_STRING == CodesTo127 \o CodesFrom128
Code(byte) == HPACK_STRING[byte + 1]

(* HuffmanEncoder::ensure_free_space: room for bit_count bits after window; *)
(* the filler ends a decoder if it is not overwritten.                     *)
ensure_free_space(buffer, window, bit_count) ==
  LET end == forwards(forwards(window, bit_count), 0).at
      len == Len(buffer) \div 8
      forward == end \div 8 - len + (IF end % 8 > 0 THEN 1 ELSE 0)
  IN IF len > end \div 8 THEN buffer
     ELSE buffer \o [i \in 1 .. 8 * forward |-> 1]

(* write_bits, for all parts of a code: bits are only ever cleared.        *)
write_bits(out, window, v) ==
  LET bits == Bits(v, window.count)
  IN [i \in DOMAIN out |->
        IF i > window.at /\ i <= window.at + window.count
        THEN out[i] * bits[i - window.at] ELSE out[i]]

put(encoder, byte) ==
  LET code == Code(byte)
      window == forwards(encoder.buffer_pos, code[1])
      room == ensure_free_space(encoder.buffer, encoder.buffer_pos, code[1])
  IN [buffer |-> write_bits(room, window, code[2]), buffer_pos |-> window]

NewEncoder == [buffer |-> <<>>, buffer_pos |-> [at |-> 0, count |-> 0]]
hpack_encode(bytes) == FoldLeft(put, NewEncoder, bytes).buffer

-----------------------------------------------------------------------------
(***************************************************************************)
(* Decoding.  A decoder looks up the next few bits: the first entries of   *)
(* its table are symbols, the others the decoders that go on from there.   *)
(***************************************************************************)
D(lookup, syms, partials) ==
  [lookup |-> lookup, syms |-> syms, partials |-> partials]

Decoders ==
  [HPACK_STRING |-> D(5, <<48, 49, 50, 97, 99, 101, 105, 111, 115, 116>>, <<"END0_01010",
      "END0_01011", "END0_01100", "END0_01101", "END0_01110", "END0_01111", "END0_10000",
      "END0_10001", "END0_10010", "END0_10011", "END0_10100", "END0_10101", "END0_10110",
      "END0_10111", "END0_11000", "END0_11001", "END0_11010", "END0_11011", "END0_11100",
      "END0_11101", "END0_11110", "END0_11111">>),
   END0_01010 |-> D(1, <<32, 37>>, <<>>), END0_01011 |-> D(1, <<45, 46>>, <<>>),
   END0_01100 |-> D(1, <<47, 51>>, <<>>), END0_01101 |-> D(1, <<52, 53>>, <<>>),
   END0_01110 |-> D(1, <<54, 55>>, <<>>), END0_01111 |-> D(1, <<56, 57>>, <<>>),
   END0_10000 |-> D(1, <<61, 65>>, <<>>), END0_10001 |-> D(1, <<95, 98>>, <<>>),
   END0_10010 |-> D(1, <<100, 102>>, <<>>), END0_10011 |-> D(1, <<103, 104>>, <<>>),
   END0_10100 |-> D(1, <<108, 109>>, <<>>), END0_10101 |-> D(1, <<110, 112>>, <<>>),
   END0_10110 |-> D(1, <<114, 117>>, <<>>), END0_10111 |-> D(2, <<58, 66, 67, 68>>, <<>>),
   END0_11000 |-> D(2, <<69, 70, 71, 72>>, <<>>),
   END0_11001 |-> D(2, <<73, 74, 75, 76>>, <<>>),
   END0_11010 |-> D(2, <<77, 78, 79, 80>>, <<>>),
   END0_11011 |-> D(2, <<81, 82, 83, 84>>, <<>>),
   END0_11100 |-> D(2, <<85, 86, 87, 89>>, <<>>),
   END0_11101 |-> D(2, <<106, 107, 113, 118>>, <<>>),
   END0_11110 |-> D(2, <<119, 120, 121, 122>>, <<>>),
   END0_11111 |-> D(2, <<>>, <<"END5_00", "END5_01", "END5_10", "END5_11">>),
   END5_00 |-> D(1, <<38, 42>>, <<>>), END5_01 |-> D(1, <<44, 59>>, <<>>),
   END5_10 |-> D(1, <<88, 90>>, <<>>), END5_11 |-> D(1, <<>>, <<"END7_0", "END7_1">>),
   END7_0 |-> D(2, <<33, 34, 40, 41>>, <<>>), END7_1 |-> D(1, <<>>, <<"END8_0", "END8_1">>),
   END8_0 |-> D(1, <<63>>, <<"END9A_1">>), END9A_1 |-> D(1, <<39, 43>>, <<>>),
   END8_1 |-> D(2, <<124>>, <<"END9B_01", "END9B_10", "END9B_11">>),
   END9B_01 |-> D(1, <<35, 62>>, <<>>), END9B_10 |-> D(2, <<0, 36, 64, 91>>, <<>>),
   END9B_11 |-> D(2, <<93, 126>>, <<"END13_10", "END13_11">>),
   END13_10 |-> D(1, <<94, 125>>, <<>>), END13_11 |-> D(1, <<>>, <<"END14_0", "END14_1">>),
   END14_0 |-> D(1, <<60, 96>>, <<>>), END14_1 |-> D(1, <<123>>, <<"END15_1">>),
   END15_1 |-> D(4, <<92, 195, 208>>, <<"END19_0011", "END19_0100", "END19_0101", "END19_0110",
      "END19_0111", "END19_1000", "END19_1001", "END19_1010", "END19_1011", "END19_1100",
      "END19_1101", "END19_1110", "END19_1111">>),
   END19_0011 |-> D(1, <<128, 130>>, <<>>), END19_0100 |-> D(1, <<131, 162>>, <<>>),
   END19_0101 |-> D(1, <<184, 194>>, <<>>), END19_0110 |-> D(1, <<224, 226>>, <<>>),
   END19_0111 |-> D(2, <<153, 161, 167, 172>>, <<>>),
   END19_1000 |-> D(2, <<176, 177, 179, 209>>, <<>>),
   END19_1001 |-> D(2, <<216, 217, 227, 229>>, <<>>),
   END19_1010 |-> D(2, <<230>>, <<"END19_1010_01", "END19_1010_10", "END19_1010_11">>),
   END19_1010_01 |-> D(1, <<129, 132>>, <<>>), END19_1010_10 |-> D(1, <<133, 134>>, <<>>),
   END19_1010_11 |-> D(1, <<136, 146>>, <<>>),
   END19_1011 |-> D(3, <<154, 156, 160, 163, 164, 169, 170, 173>>, <<>>),
   END19_1100 |-> D(3, <<178, 181, 185, 186, 187, 189, 190, 196>>, <<>>),
   END19_1101 |-> D(3, <<198, 228, 232, 233>>, <<"END23A_100", "END23A_101", "END23A_110",
      "END23A_111">>),
   END23A_100 |-> D(1, <<1, 135>>, <<>>), END23A_101 |-> D(1, <<137, 138>>, <<>>),
   END23A_110 |-> D(1, <<139, 140>>, <<>>), END23A_111 |-> D(1, <<141, 143>>, <<>>),
   END19_1110 |-> D(4, <<147, 149, 150, 151, 152, 155, 157, 158, 165, 166, 168, 174, 175, 180,
      182, 183>>, <<>>),
   END19_1111 |-> D(4, <<188, 191, 197, 231, 239>>, <<"END23B_0101", "END23B_0110",
      "END23B_0111", "END23B_1000", "END23B_1001", "END23B_1010", "END23B_1011", "END23B_1100",
      "END23B_1101", "END23B_1110", "END23B_1111">>),
   END23B_0101 |-> D(1, <<9, 142>>, <<>>), END23B_0110 |-> D(1, <<144, 145>>, <<>>),
   END23B_0111 |-> D(1, <<148, 159>>, <<>>), END23B_1000 |-> D(1, <<171, 206>>, <<>>),
   END23B_1001 |-> D(1, <<215, 225>>, <<>>), END23B_1010 |-> D(1, <<236, 237>>, <<>>),
   END23B_1011 |-> D(2, <<199, 207, 234, 235>>, <<>>),
   END23B_1100 |-> D(3, <<192, 193, 200, 201, 202, 205, 210, 213>>, <<>>),
   END23B_1101 |-> D(3, <<218, 219, 238, 240, 242, 243, 255>>, <<"END27A_111">>),
   END27A_111 |-> D(1, <<203, 204>>, <<>>),
   END23B_1110 |-> D(4, <<211, 212, 214, 221, 222, 223, 241, 244, 245, 246, 247, 248, 250, 251,
      252, 253>>, <<>>),
   END23B_1111 |-> D(4, <<254>>, <<"END27B_0001", "END27B_0010", "END27B_0011", "END27B_0100",
      "END27B_0101", "END27B_0110", "END27B_0111", "END27B_1000", "END27B_1001", "END27B_1010",
      "END27B_1011", "END27B_1100", "END27B_1101", "END27B_1110", "END27B_1111">>),
   END27B_0001 |-> D(1, <<2, 3>>, <<>>), END27B_0010 |-> D(1, <<4, 5>>, <<>>),
   END27B_0011 |-> D(1, <<6, 7>>, <<>>), END27B_0100 |-> D(1, <<8, 11>>, <<>>),
   END27B_0101 |-> D(1, <<12, 14>>, <<>>), END27B_0110 |-> D(1, <<15, 16>>, <<>>),
   END27B_0111 |-> D(1, <<17, 18>>, <<>>), END27B_1000 |-> D(1, <<19, 20>>, <<>>),
   END27B_1001 |-> D(1, <<21, 23>>, <<>>), END27B_1010 |-> D(1, <<24, 25>>, <<>>),
   END27B_1011 |-> D(1, <<26, 27>>, <<>>), END27B_1100 |-> D(1, <<28, 29>>, <<>>),
   END27B_1101 |-> D(1, <<30, 31>>, <<>>), END27B_1110 |-> D(1, <<127, 220>>, <<>>),
   END27B_1111 |-> D(1, <<249>>, <<"END31_1">>), END31_1 |-> D(2, <<10, 13, 22>>, <<"EOF">>),
   EOF |-> D(8, <<>>, <<>>)]

(* read_bits: the bits of a window, if they are there.                     *)
HasBits(input, window) == window.at + window.count <= Len(input)
read_bits(input, window) ==
  Number(SubSeq(input, window.at + 1, window.at + window.count))

(* HuffmanDecoder::check_eof: too few bits are left for the lookup.  That  *)
(* is the end of the string if they are all ones, also when a symbol has   *)
(* begun before them.                                                      *)
check_eof(input, window) ==
  LET byte == window.at \div 8 + 1
      len == Len(input) \div 8
  IN IF byte > len \/ (byte = len /\ \A i \in window.at + 1 .. Len(input) : input[i] = 1)
     THEN [res |-> "none"] ELSE [res |-> "error"]

(* Deliberate bug: the next table looks up the same bits again.           *)
at_value_Restarts(this, window, value, next) ==
  LET symbols == Len(this.syms)
  IN IF value < symbols
     THEN [res |-> "sym", sym |-> this.syms[value + 1], end |-> window.at + window.count]
     ELSE IF value - symbols < Len(this.partials)
     THEN next[this.partials[value - symbols + 1], window.at]
     ELSE [res |-> "error"]

(* The lookup of decode_next: a value of the bits in the window is a       *)
(* symbol, or leads to the next table, or is no code.                      *)
at_value(this, window, value, next) ==
  LET symbols == Len(this.syms)
  IN IF value < symbols
     THEN [res |-> "sym", sym |-> this.syms[value + 1], end |-> window.at + window.count]
     ELSE IF value - symbols < Len(this.partials)
     THEN next[this.partials[value - symbols + 1], window.at + window.count]
     ELSE [res |-> "error"]

(* HuffmanDecoder::decode_next, by the decoder and the bits before it:     *)
(* fetch_value, then the lookup.                                           *)
decode_next(input) ==
  LET Decode(this, window, next) ==
        IF HasBits(input, window)
        THEN at_value(this, window, read_bits(input, window), next)
        ELSE check_eof(input, window)
      Next[d \in DOMAIN Decoders, at \in Nat] ==
        Decode(Decoders[d], [at |-> at, count |-> Decoders[d].lookup], Next)
  IN Next

(* DecodeIter, collected: every symbol up to the end or to an error.       *)
hpack_decode(input) ==
  LET Next == decode_next(input)
      Collect(item, from) ==
        IF item.res = "sym" THEN [from[item.end] EXCEPT !.text = <<item.sym>> \o @]
        ELSE [res |-> item.res, text |-> <<>>]
      From[at \in Nat] == Collect(Next["HPACK_STRING", at], From)
  IN From[0]

=============================================================================
