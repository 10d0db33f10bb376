---------------------------- MODULE FieldSection ----------------------------
(***************************************************************************)
(* Field sections as h3 writes and reads them, without a dynamic table:    *)
(* integers and strings with a prefix, the field line representations, and *)
(* one round of the loops of encode_stateless and decode_stateless.        *)
(*                                                                         *)
(* Names and values are strings, Spelling gives the bytes of those that    *)
(* travel as literals.  A block is a sequence of bytes, read from the      *)
(* position after the first p; a result has res = "ok" or says why not.    *)
(***************************************************************************)
EXTENDS Huffman, StaticTable

CONSTANTS
  Spelling,   \* the bytes of the words that are not in the static table
  MaxPower    \* bound: MAX_POWER, 9 * 7 in the code, smaller for TLC's integers

ASSUME SpellingAssumption ==
  LET text == Spelling
  IN \A s, t \in DOMAIN text : text[s] \in Seq(0 .. 255) /\ (text[s] = text[t]) = (s = t)
ASSUME MaxPowerAssumption == MaxPower \in Nat /\ MaxPower % 7 = 0

Dictionary == Spelling     \* a definition, which TLC evaluates once
Bytes(word) == Dictionary[word]
Length(word) == IF word \in DOMAIN Dictionary THEN Len(Dictionary[word]) ELSE Len(word)
Garbled == "?"             \* bytes that spell nothing we know
Word(bytes) ==
  LET words == {s \in DOMAIN Dictionary : Dictionary[s] = bytes}
  IN IF words = {} THEN Garbled ELSE CHOOSE s \in words : TRUE

Failed(why) == [res |-> why]

-----------------------------------------------------------------------------
(***************************************************************************)
(* prefix_int: an integer in the last size bits of a byte and, when these  *)
(* are all ones, in groups of seven bits after it.                         *)
(***************************************************************************)
decode_int(size, w, p) ==
  LET mask == 2 ^ size - 1
      Ok(value, end) == [res |-> "ok", flags |-> w[p + 1] \div 2 ^ size,
                         value |-> value, end |-> end]
      More[q \in Nat, value \in Nat] ==
        LET power == 7 * (q - p - 1)
            sum == value + (w[q + 1] % 128) * 2 ^ power
        IN IF q >= Len(w) THEN Failed("end")
           ELSE IF w[q + 1] < 128 THEN Ok(sum, q + 1)
           ELSE IF power + 7 >= MaxPower THEN Failed("overflow")
           ELSE More[q + 1, sum]
  IN IF p >= Len(w) THEN Failed("end")
     ELSE IF w[p + 1] % 2 ^ size < mask THEN Ok(w[p + 1] % 2 ^ size, p + 1)
     ELSE More[p + 1, mask]

encode_int(size, flags, value) ==
  LET mask == 2 ^ size - 1
      high == (flags * 2 ^ size) % 256
      Rest[r \in Nat] == IF r >= 128 THEN <<(r % 128) + 128>> \o Rest[r \div 128] ELSE <<r>>
  IN IF value < mask THEN <<high + value>> ELSE <<high + mask>> \o Rest[value - mask]

-----------------------------------------------------------------------------
(***************************************************************************)
(* prefix_string: a length and the bytes, Huffman coded if the flag before *)
(* the length is set; the encoder always sets it.                          *)
(***************************************************************************)
(* The text of a payload that ends at end.                                 *)
Text(coded, payload, end) ==
  LET Ok(bytes) == [res |-> "ok", bytes |-> bytes, end |-> end]
      Decoded(d) == IF d.res = "error" THEN Failed("huffman") ELSE Ok(d.text)
  IN IF coded THEN Decoded(hpack_decode(BitsOf(payload))) ELSE Ok(payload)

(* Deliberate bug: a string takes what there is of it.                     *)
decode_payload_Lenient(w, len) ==
  LET end == len.end + len.value
  IN IF len.res # "ok" THEN len
     ELSE Text(len.flags % 2 = 1, SubSeq(w, len.end + 1, Min({Len(w), end})), end)

decode_payload(w, len) ==
  LET end == len.end + len.value
  IN IF len.res # "ok" THEN len
     ELSE IF Len(w) < end THEN Failed("end")
     ELSE Text(len.flags % 2 = 1, SubSeq(w, len.end + 1, end), end)

decode_string(size, w, p) == decode_payload(w, decode_int(size - 1, w, p))

encode_string(size, flags, bytes) ==
  LET encoded == BytesOf(hpack_encode(bytes))
  IN encode_int(size - 1, 2 * flags + 1, Len(encoded)) \o encoded

-----------------------------------------------------------------------------
(***************************************************************************)
(* The field section prefix: no entry of the dynamic table is required.    *)
(* On the way in, HeaderPrefix::get with a table of size zero gives no     *)
(* required entries whatever the two integers are.                         *)
(***************************************************************************)
Prefix == encode_int(8, 0, 0) \o encode_int(7, 0, 0)

decode_prefix(w) ==
  LET count == decode_int(8, w, 0)
  IN IF count.res # "ok" THEN count ELSE decode_int(7, w, count.end)

(* HeaderBlockField::decode: the representation a first byte announces.    *)
Representation(first) ==
  CASE first \div 128 = 1 -> "Indexed"
    [] first \div 16 = 1 -> "IndexedWithPostBase"
    [] first \div 64 = 1 -> "LiteralWithNameRef"
    [] first \div 16 = 0 -> "LiteralWithPostBaseNameRef"
    [] first \div 32 = 1 -> "Literal"

mem_size(name, value) == name + value + 32

(* The round of encode_stateless for a field, and what it adds to size.    *)
encode_field(field) ==
  LET index == find(field)
      name == find_name(field[1])
  IN IF index # NotFound THEN encode_int(6, 3, index)
     ELSE IF name # NotFound
     THEN encode_int(4, 5, name) \o encode_string(8, 0, Bytes(field[2]))
     ELSE encode_string(4, 2, Bytes(field[1])) \o encode_string(8, 0, Bytes(field[2]))

size_of(field) == mem_size(Length(field[1]), Length(field[2]))

(* The round of decode_stateless for the field at p.                       *)
decode_indexed(w, p) ==
  LET Field(i) ==
        IF i.res # "ok" THEN i
        ELSE IF i.flags # 3 THEN Failed("missing refs")
        ELSE IF ~InTable(i.value) THEN Failed("static index")
        ELSE [res |-> "ok", field |-> get(i.value), size |-> size_of(get(i.value)), end |-> i.end]
  IN Field(decode_int(6, w, p))

decode_name_ref(w, p) ==
  LET Field(i, value) ==
        IF i.res # "ok" THEN i
        ELSE IF value.res # "ok" THEN value
        ELSE IF i.flags % 2 = 0 THEN Failed("missing refs")
        ELSE IF ~InTable(i.value) THEN Failed("static index")
        ELSE [res |-> "ok", field |-> <<get(i.value)[1], Word(value.bytes)>>,
              size |-> mem_size(Length(get(i.value)[1]), Len(value.bytes)), end |-> value.end]
      Value(i) == Field(i, decode_string(8, w, i.end))
  IN Value(decode_int(4, w, p))

decode_literal(w, p) ==
  LET Field(name, value) ==
        IF name.res # "ok" THEN name
        ELSE IF value.res # "ok" THEN value
        ELSE [res |-> "ok", field |-> <<Word(name.bytes), Word(value.bytes)>>,
              size |-> mem_size(Len(name.bytes), Len(value.bytes)), end |-> value.end]
      Value(name) == Field(name, decode_string(8, w, name.end))
  IN Value(decode_string(4, w, p))

decode_field(w, p) ==
  CASE Representation(w[p + 1]) = "Indexed" -> decode_indexed(w, p)
    [] Representation(w[p + 1]) = "LiteralWithNameRef" -> decode_name_ref(w, p)
    [] Representation(w[p + 1]) = "Literal" -> decode_literal(w, p)
    [] OTHER -> Failed("missing refs")
=============================================================================
