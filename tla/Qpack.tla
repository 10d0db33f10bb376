-------------------------------- MODULE Qpack --------------------------------
(***************************************************************************)
(* QPACK with a dynamic table: Encoder, Decoder, DynamicTable and the      *)
(* VirtualAddressSpace of its indices.                                     *)
(*                                                                         *)
(* The encoder's instructions, the decoder's and the field sections travel *)
(* on streams of their own, each in order, with no order between them.     *)
(* Entries are known by absolute indices (the first inserted is 1).  The   *)
(* encoder's maps from fields and names to indices are rebuilt for every   *)
(* section and follow every insertion and eviction; they are the newest    *)
(* entries of the table.  An entry of the static table is sent as itself.  *)
(***************************************************************************)
EXTENDS Integers, Sequences, FiniteSets, FiniteSetsExt, Bags

CONSTANTS
  Streams,
  Fields,          \* records of a name and a value
  mem_size,        \* the size of each
  StaticFields,    \* the fields, and
  StaticNames,     \*   the names in the static table
  Lists,           \* the lists of fields to encode
  Sizes,           \* the sizes the table may be given; the largest at first
  blocked_max,
  MaxSections,     \* bound: sections on a stream (header, trailers)
  Careful          \* callers change the size only when nothing is in flight, encode only
                   \* when the decoder has the size, and cancel a stream only when the
                   \* decoder has caught up with the encoder: the code asks for none of it

ESTIMATED_OVERHEAD_BYTES == 32

ASSUME FieldsAssumption ==
  /\ \A f \in Fields : f = [name |-> f.name, value |-> f.value]
  /\ mem_size \in [Fields -> Nat]
  /\ \A f \in Fields : mem_size[f] >= ESTIMATED_OVERHEAD_BYTES
  /\ Lists \subseteq Seq(Fields)
ASSUME BoundsAssumption ==
  /\ IsFiniteSet(Sizes) /\ Sizes # {} /\ Sizes \subseteq Nat
  /\ Sizes \cap 1 .. (ESTIMATED_OVERHEAD_BYTES - 1) = {}   \* max_entries would be 0
  /\ blocked_max \in Nat /\ MaxSections \in Nat
  /\ IsFiniteSet(Streams)
  /\ Careful \in BOOLEAN

VARIABLES
  enc,                      \* the encoder's table: fields, dropped, curr_size, max_size
  track_map,                \* bag of the entries sections refer to
  track_blocks,             \* for each stream the references of its unacknowledged sections
  largest_known_received,
  blocked_streams,          \* bag of what sections require beyond that
  dec,                      \* the decoder's table
  encoder_stream,           \* instructions on their way to the decoder
  decoder_stream,           \* and to the encoder
  sections,                 \* for each stream the sections the decoder has yet to decode
  opened,                   \* how many sections were sent on each stream
  cancelled,                \* streams the decoder has cancelled
  failed                    \* an error that ends the connection, or a panic

encoder == <<enc, track_map, track_blocks, largest_known_received, blocked_streams>>
vars == <<encoder, dec, encoder_stream, decoder_stream, sections, opened, cancelled,
          failed>>

-----------------------------------------------------------------------------
(***************************************************************************)
(* The table.                                                              *)
(***************************************************************************)
NewTable == [fields |-> <<>>, dropped |-> 0, curr_size |-> 0, max_size |-> Max(Sizes)]

total_inserted(t) == t.dropped + Len(t.fields)
SizeOf(fs) ==
  LET sum[n \in 0 .. Len(fs)] == IF n = 0 THEN 0 ELSE sum[n - 1] + mem_size[fs[n]]
  IN sum[Len(fs)]

(* relative, relative_base and post_base refuse what is not in the table.  *)
Live(t, absolute) == t.dropped < absolute /\ absolute <= total_inserted(t)
Entry(t, absolute) == t.fields[absolute - t.dropped]

(* Mutant: evict leaves curr_size as it is.                                *)
evict_KeepsSize(t, n) ==
  [t EXCEPT !.fields = SubSeq(@, n + 1, Len(@)), !.dropped = @ + n]

evict(t, n) ==
  IF n = 0 THEN t
  ELSE [t EXCEPT !.fields = SubSeq(@, n + 1, Len(@)), !.dropped = @ + n,
                 !.curr_size = @ - SizeOf(SubSeq(t.fields, 1, n))]

(* can_free: how many of the oldest entries have to go, unless one of them *)
(* is tracked.                                                             *)
ToEvict(t, required) ==
  IF t.max_size - t.curr_size >= required THEN 0
  ELSE Min({n \in 0 .. Len(t.fields) :
              t.curr_size - SizeOf(SubSeq(t.fields, 1, n)) <= t.max_size - required})
(* Mutant: what is tracked is evicted too.                                 *)
can_free_Tracked(t, tracked, required) == required <= t.max_size

can_free(t, tracked, required) ==
  /\ required <= t.max_size
  /\ \A i \in 1 .. ToEvict(t, required) : ~BagIn(t.dropped + i, tracked)

(* ... which subtracts the one from the other: an overflow, and a panic    *)
(* where overflows are checked.                                            *)
Overflows(t, required) ==
  t.max_size # 0 /\ required <= t.max_size /\ t.curr_size > t.max_size

CanInsert(t, tracked, f) == t.max_size # 0 /\ can_free(t, tracked, mem_size[f])
MakeRoom(t, f) == evict(t, ToEvict(t, mem_size[f]))
insert(t, f) ==
  [MakeRoom(t, f) EXCEPT !.fields = Append(@, f), !.curr_size = @ + mem_size[f]]

(* set_max_size frees what it can and sets the size in any case.           *)
set_max_size(t, tracked, size) ==
  LET required == t.max_size - size
  IN [(IF size < t.max_size /\ can_free(t, tracked, required)
       THEN evict(t, ToEvict(t, required)) ELSE t) EXCEPT !.max_size = size]

(* What field_map and name_map say of a field or a name; 0 if nothing.     *)
Newest(t, fs) ==
  Max({0} \cup {t.dropped + i : i \in {j \in 1 .. Len(t.fields) : t.fields[j] \in fs}})
Named(name) == {f \in Fields : f.name = name}

-----------------------------------------------------------------------------
(***************************************************************************)
(* The prefix of a section: the required insert count, modulo twice the    *)
(* number of entries the table can hold, and the base relative to it.      *)
(***************************************************************************)
max_entries(size) == size \div ESTIMATED_OVERHEAD_BYTES

(* Mutant: the base of post-base indices is off by one.                    *)
HeaderPrefix_OffByOne(required, base, max_size) ==
  IF required = 0 \/ max_size = 0 THEN [count |-> 0, negative |-> FALSE, delta |-> 0]
  ELSE [count |-> (required % (2 * max_entries(max_size))) + 1,
        negative |-> required > base,
        delta |-> IF required > base THEN required - base ELSE base - required]

HeaderPrefix(required, base, max_size) ==
  IF required = 0 \/ max_size = 0 THEN [count |-> 0, negative |-> FALSE, delta |-> 0]
  ELSE [count |-> (required % (2 * max_entries(max_size))) + 1,
        negative |-> required > base,
        delta |-> IF required > base THEN required - base - 1 ELSE base - required]

(* HeaderPrefix::get: the required insert count, negative when computing   *)
(* it overflows ...                                                        *)
Required(p, total, max_size) ==
  IF p.count = 0 \/ max_size = 0 THEN 0
  ELSE LET count == p.count - 1
           entries == max_entries(max_size)
           wrapped == total % (2 * entries)
       IN total + count - wrapped
          + (IF wrapped >= count + entries THEN 2 * entries
             ELSE IF wrapped + entries < count THEN -2 * entries
             ELSE 0)

(* ... and the base, negative when the prefix is invalid.                  *)
Base(p, required) ==
  IF required = 0 THEN 0
  ELSE IF p.negative THEN required - p.delta - 1
  ELSE required + p.delta

-----------------------------------------------------------------------------
(***************************************************************************)
(* Encoding a section: s is a DynamicTableEncoder with what it has written *)
(* so far.                                                                 *)
(***************************************************************************)
blocked_count ==
  Cardinality(UNION {{<<r, k>> : k \in 1 .. blocked_streams[r]} : r \in DOMAIN blocked_streams})

One(x) == SetToBag({x})

track_ref(s, absolute) ==
  [s EXCEPT !.refs = @ (+) One(absolute), !.track = @ (+) One(absolute)]

Write(s, line) == [s EXCEPT !.lines = Append(@, line)]
WriteRef(s, absolute, line) ==
  [Write(track_ref(s, absolute), line) EXCEPT !.required = Max({@, absolute})]

(* The forms of a field line.                                              *)
Indexed(i) == [op |-> "indexed", index |-> i]
IndexedWithPostBase(i) == [op |-> "post-base", index |-> i]
LiteralWithNameRef(i, v) == [op |-> "name", index |-> i, value |-> v]
LiteralWithPostBaseNameRef(i, v) == [op |-> "post-base name", index |-> i, value |-> v]
Literal(f) == [op |-> "literal", field |-> f]

(* ... and of an instruction to the decoder.                               *)
InsertWithoutNameRef(f) == [op |-> "literal", field |-> f]
InsertWithNameRef(i, v) == [op |-> "name", index |-> i, value |-> v]
Duplicate(i) == [op |-> "duplicate", index |-> i]
DynamicTableSizeUpdate(n) == [op |-> "size", size |-> n]

(* ... and to the encoder; an increment is one byte wide.                  *)
HeaderAck(id) == [op |-> "ack", id |-> id]
StreamCancel(id) == [op |-> "cancel", id |-> id]
InsertCountIncrement(n) == [op |-> "increment", n |-> n]
MaxIncrement == 255

(* The field is not inserted: its name may be known.                       *)
NotInserted(s, f) ==
  LET n == Newest(s.t, Named(f.name))
  IN IF f.name \in StaticNames \/ n = 0 THEN Write(s, Literal(f))
     ELSE IF n <= s.base THEN WriteRef(s, n, LiteralWithNameRef(s.base - n, f.value))
     ELSE WriteRef(s, n, LiteralWithPostBaseNameRef(n - s.base - 1, f.value))

(* The field is inserted: by itself, as a copy of an entry, or with the    *)
(* name of one, which are then referred to as well.                        *)
Inserted(s, f) ==
  LET left == MakeRoom(s.t, f)
      new == total_inserted(left) + 1
      same == Newest(left, {f})
      named == Newest(left, Named(f.name))
      done == [WriteRef(s, new, IndexedWithPostBase(new - s.base - 1))
                 EXCEPT !.t = insert(s.t, f)]
      Instruct(d, i) == [d EXCEPT !.ins = Append(@, i)]
  IN IF same # 0 THEN Instruct(track_ref(done, same), Duplicate(new - same - 1))
     ELSE IF f.name \in StaticNames \/ named = 0 THEN Instruct(done, InsertWithoutNameRef(f))
     ELSE Instruct(track_ref(done, named), InsertWithNameRef(new - named - 1, f.value))

(* An entry beyond the base is looked up, and tracked, in vain.            *)
encode_field(s, f) ==
  LET same == Newest(s.t, {f})
      found == IF same = 0 THEN s ELSE track_ref(s, same)
  IN IF f \in StaticFields THEN Write(s, Literal(f))
     ELSE IF same # 0 /\ same <= s.base THEN WriteRef(s, same, Indexed(s.base - same))
     ELSE IF blocked_count >= blocked_max THEN NotInserted(found, f)
     ELSE IF Overflows(s.t, mem_size[f]) THEN [s EXCEPT !.panic = TRUE]
     ELSE IF CanInsert(s.t, found.track, f) THEN Inserted(found, f)
     ELSE NotInserted(found, f)

(* The base is largest_ref, which counts the entries in the table.         *)
DynamicTableEncoder ==
  [t |-> enc, track |-> track_map, base |-> Len(enc.fields), refs |-> EmptyBag,
   lines |-> <<>>, ins |-> <<>>, required |-> 0, panic |-> FALSE]

(* commit: the references are tracked until the section is acknowledged,   *)
(* and the stream is blocked until the decoder has what it requires.       *)
commit(id, s) ==
  /\ track_map' = s.track
  /\ track_blocks' = [track_blocks EXCEPT ![id] = Append(@, s.refs)]
  /\ blocked_streams' = IF s.required <= largest_known_received THEN blocked_streams
                        ELSE blocked_streams (+) One(s.required)

encode_fields(s, fs) ==
  LET After[n \in 0 .. Len(fs)] == IF n = 0 THEN s ELSE encode_field(After[n - 1], fs[n])
  IN After[Len(fs)]

(* Encoder::encode; a section on a cancelled stream is lost.               *)
encode(id, fs) ==
  LET s == encode_fields(DynamicTableEncoder, fs) IN
  /\ failed = "no"
  /\ opened[id] < MaxSections
  /\ ~Careful \/ (id \notin cancelled /\ dec.max_size = enc.max_size)
  /\ opened' = [opened EXCEPT ![id] = @ + 1]
  /\ enc' = s.t
  /\ commit(id, s)
  /\ encoder_stream' = encoder_stream \o s.ins
  /\ sections' = IF id \in cancelled THEN sections
                 ELSE [sections EXCEPT ![id] = Append(@,
                   [prefix |-> HeaderPrefix(s.required, s.base, s.t.max_size),
                    lines |-> s.lines, original |-> fs, refs |-> BagToSet(s.refs)])]
  /\ failed' = IF s.panic THEN "panic" ELSE "no"
  /\ UNCHANGED <<largest_known_received, dec, decoder_stream, cancelled>>

(* set_dynamic_table_size.                                                 *)
InFlight == encoder_stream # <<>> \/ \E id \in Streams : track_blocks[id] # <<>>
set_dynamic_table_size(size) ==
  /\ failed = "no"
  /\ size # enc.max_size
  /\ ~Careful \/ ~InFlight
  /\ failed' = IF size < enc.max_size /\ Overflows(enc, enc.max_size - size) THEN "panic" ELSE "no"
  /\ enc' = set_max_size(enc, track_map, size)
  /\ encoder_stream' = Append(encoder_stream, DynamicTableSizeUpdate(size))
  /\ UNCHANGED <<track_map, track_blocks, largest_known_received, blocked_streams, dec,
                 decoder_stream, sections, opened, cancelled>>

-----------------------------------------------------------------------------
(***************************************************************************)
(* Encoder::on_decoder_recv, one instruction at a time.                    *)
(***************************************************************************)
untrack_block(id) ==
  /\ track_blocks' = [track_blocks EXCEPT ![id] = Tail(@)]
  /\ track_map' = track_map (-) Head(track_blocks[id])

(* A section acknowledged.                                                 *)
OnHeaderAck(id) ==
  /\ IF track_blocks[id] # <<>> /\ Head(track_blocks[id]) \sqsubseteq track_map
     THEN untrack_block(id) /\ UNCHANGED failed
     ELSE failed' = "encoder" /\ UNCHANGED <<track_blocks, track_map>>
  /\ UNCHANGED <<largest_known_received, blocked_streams>>

(* A stream cancelled: header and trailers are forgotten.                  *)
OnStreamCancel(id) ==
  LET blocks == track_blocks[id] IN
  /\ track_blocks' = [track_blocks EXCEPT ![id] = SubSeq(@, 3, Len(@))]
  /\ track_map' = CASE Len(blocks) = 0 -> track_map
                   [] Len(blocks) = 1 -> track_map (-) blocks[1]
                   [] OTHER -> (track_map (-) blocks[1]) (-) blocks[2]
  /\ UNCHANGED <<largest_known_received, blocked_streams, failed>>

(* Mutant: the range of what is no longer blocked is one too long.         *)
OnInsertCountIncrement_OneMore(n) ==
  /\ largest_known_received' = largest_known_received + n
  /\ blocked_streams' = [r \in {q \in DOMAIN blocked_streams : q > largest_known_received' + 1}
                           |-> blocked_streams[r]]
  /\ UNCHANGED <<track_blocks, track_map, failed>>

(* update_largest_received.                                                *)
OnInsertCountIncrement(n) ==
  /\ largest_known_received' = largest_known_received + n
  /\ blocked_streams' = [r \in {q \in DOMAIN blocked_streams : q > largest_known_received'}
                           |-> blocked_streams[r]]
  /\ UNCHANGED <<track_blocks, track_map, failed>>

on_decoder_recv ==
  /\ failed = "no"
  /\ decoder_stream # <<>>
  /\ decoder_stream' = Tail(decoder_stream)
  /\ LET i == Head(decoder_stream) IN
     \/ i.op = "ack" /\ OnHeaderAck(i.id)
     \/ i.op = "cancel" /\ OnStreamCancel(i.id)
     \/ i.op = "increment" /\ OnInsertCountIncrement(i.n)
  /\ UNCHANGED <<enc, dec, encoder_stream, sections, opened, cancelled>>

-----------------------------------------------------------------------------
(***************************************************************************)
(* The decoder.  Its table tracks nothing.                                 *)
(***************************************************************************)
NoField == [name |-> "none", value |-> "none"]
ASSUME NoFieldAssumption == NoField \notin Fields
Broken == [NewTable EXCEPT !.max_size = -1]

(* parse_instruction: the field to insert.                                 *)
InstructedField(t, i) ==
  CASE i.op = "literal" -> i.field
    [] i.op = "duplicate" /\ Live(t, total_inserted(t) - i.index)
         -> Entry(t, total_inserted(t) - i.index)
    [] i.op = "name" /\ Live(t, total_inserted(t) - i.index)
         -> [Entry(t, total_inserted(t) - i.index) EXCEPT !.value = i.value]
    [] OTHER -> NoField

(* Mutant: the decoder keeps the entries that no longer fit.               *)
Apply_KeepsEntries(t, i) ==
  IF t = Broken THEN Broken
  ELSE IF i.op = "size" THEN [t EXCEPT !.max_size = i.size]
  ELSE LET f == InstructedField(t, i) IN
       IF f = NoField \/ (t.max_size # 0 /\ ~CanInsert(t, EmptyBag, f)) THEN Broken
       ELSE IF t.max_size = 0 THEN t ELSE insert(t, f)

(* The table after an instruction; put does nothing to a table of size 0.  *)
Apply(t, i) ==
  IF t = Broken THEN Broken
  ELSE IF i.op = "size" THEN set_max_size(t, EmptyBag, i.size)
  ELSE LET f == InstructedField(t, i) IN
       IF f = NoField THEN Broken
       ELSE IF t.max_size = 0 THEN t
       ELSE IF CanInsert(t, EmptyBag, f) THEN insert(t, f)
       ELSE Broken

Applied(t, is) ==
  LET After[n \in 0 .. Len(is)] == IF n = 0 THEN t ELSE Apply(After[n - 1], is[n])
  IN After[Len(is)]

(* on_encoder_recv reads as many instructions as have arrived, and reports *)
(* the number of insertions.                                               *)
on_encoder_recv(n) ==
  LET t == Applied(dec, SubSeq(encoder_stream, 1, n))
      inserted == total_inserted(t) - total_inserted(dec) IN
  /\ failed = "no"
  /\ n <= Len(encoder_stream)
  /\ encoder_stream' = SubSeq(encoder_stream, n + 1, Len(encoder_stream))
  /\ IF t = Broken \/ inserted > MaxIncrement
     THEN failed' = "decoder" /\ UNCHANGED <<dec, decoder_stream>>
     ELSE /\ dec' = t
          /\ decoder_stream' = IF inserted = 0 THEN decoder_stream
                               ELSE Append(decoder_stream, InsertCountIncrement(inserted))
          /\ UNCHANGED failed
  /\ UNCHANGED <<encoder, sections, opened, cancelled>>

(* parse_header_field.                                                     *)
DecodedField(base, l) ==
  LET absolute == CASE l.op \in {"indexed", "name"} -> base - l.index
                    [] l.op \in {"post-base", "post-base name"} -> base + l.index + 1
                    [] OTHER -> 0
  IN CASE l.op = "literal" -> l.field
       [] l.op # "literal" /\ ~Live(dec, absolute) -> NoField
       [] l.op \in {"indexed", "post-base"} /\ Live(dec, absolute) -> Entry(dec, absolute)
       [] l.op \in {"name", "post-base name"} /\ Live(dec, absolute)
            -> [Entry(dec, absolute) EXCEPT !.value = l.value]

(* decode_header on the next section of a stream; while references are     *)
(* missing the section waits.  One that used the table is acknowledged.    *)
Needs(section) == Required(section.prefix, total_inserted(dec), dec.max_size)
Missing(section) == Needs(section) > total_inserted(dec)

Decoded(section) ==
  LET base == Base(section.prefix, Needs(section))
  IN [i \in DOMAIN section.lines |-> DecodedField(base, section.lines[i])]

decode_header(id) ==
  /\ failed = "no"
  /\ sections[id] # <<>>
  /\ LET section == Head(sections[id]) IN
     /\ ~Missing(section)
     /\ IF Needs(section) < 0 \/ \E i \in DOMAIN section.lines : Decoded(section)[i] = NoField
        THEN failed' = "decoder" /\ UNCHANGED decoder_stream
        ELSE /\ decoder_stream' = IF Needs(section) = 0 THEN decoder_stream
                                  ELSE Append(decoder_stream, HeaderAck(id))
             /\ UNCHANGED failed
  /\ sections' = [sections EXCEPT ![id] = Tail(@)]
  /\ UNCHANGED <<encoder, dec, encoder_stream, opened, cancelled>>

(* stream_canceled: the sections of the stream will not be read.           *)
stream_canceled(id) ==
  /\ failed = "no"
  /\ id \notin cancelled
  /\ ~Careful \/ encoder_stream = <<>>
  /\ cancelled' = cancelled \cup {id}
  /\ sections' = [sections EXCEPT ![id] = <<>>]
  /\ decoder_stream' = Append(decoder_stream, StreamCancel(id))
  /\ UNCHANGED <<encoder, dec, encoder_stream, opened, failed>>

-----------------------------------------------------------------------------
Init ==
  /\ enc = NewTable /\ dec = NewTable
  /\ track_map = EmptyBag
  /\ track_blocks = [id \in Streams |-> <<>>]
  /\ largest_known_received = 0
  /\ blocked_streams = EmptyBag
  /\ encoder_stream = <<>> /\ decoder_stream = <<>>
  /\ sections = [id \in Streams |-> <<>>]
  /\ opened = [id \in Streams |-> 0]
  /\ cancelled = {}
  /\ failed = "no"

Next ==
  \/ \E id \in Streams, fs \in Lists : encode(id, fs)
  \/ \E size \in Sizes : set_dynamic_table_size(size)
  \/ \E n \in 1 .. Len(encoder_stream) : on_encoder_recv(n)
  \/ on_decoder_recv
  \/ \E id \in Streams : decode_header(id) \/ stream_canceled(id)

Spec == Init /\ [][Next]_vars

-----------------------------------------------------------------------------
(***************************************************************************)
(* Properties.                                                             *)
(***************************************************************************)
IsTable(t) ==
  /\ t.fields \in Seq(Fields)
  /\ t.dropped \in Nat
  /\ t.max_size \in Sizes
  /\ t.curr_size = SizeOf(t.fields)
  /\ t.curr_size <= t.max_size

TypeOK ==
  /\ IsTable(enc) /\ IsTable(dec)
  /\ IsABag(track_map) /\ IsABag(blocked_streams)
  /\ \A id \in Streams : \A i \in 1 .. Len(track_blocks[id]) : IsABag(track_blocks[id][i])
  /\ largest_known_received \in 0 .. total_inserted(dec)
  /\ opened \in [Streams -> 0 .. MaxSections]
  /\ \A id \in Streams : Len(sections[id]) <= opened[id]
  /\ cancelled \subseteq Streams
  /\ failed \in {"no", "encoder", "decoder", "panic"}

(* Whenever the decoder can decode a section, it gets what the encoder was *)
(* given, in whatever order sections, instructions and acknowledgements    *)
(* arrive, and neither side refuses what the other sends.                  *)
DecodesToOriginal ==
  /\ failed = "no"
  /\ \A id \in Streams :
       sections[id] # <<>> /\ ~Missing(Head(sections[id]))
         => Decoded(Head(sections[id])) = Head(sections[id]).original

(* The decoder's table, after the instructions on their way to it, is the  *)
(* encoder's: evictions on the two sides agree although only the encoder   *)
(* knows what is referred to.                                              *)
TablesAgree == Applied(dec, encoder_stream) = enc

(* How often an entry is counted, and where.                               *)
Count(r, bag) == IF BagIn(r, bag) THEN bag[r] ELSE 0
Occurrences(r) ==
  UNION {UNION {{<<id, i, k>> : k \in 1 .. Count(r, track_blocks[id][i])} :
                  i \in 1 .. Len(track_blocks[id])} : id \in Streams}

(* References are counted once for every section that is outstanding, and  *)
(* no entry goes that a section still to be decoded refers to.             *)
TracksOutstanding ==
  /\ \A r \in 1 .. total_inserted(enc) : Count(r, track_map) = Cardinality(Occurrences(r))
  /\ \A id \in Streams : \A i \in 1 .. Len(sections[id]) :
       \A r \in sections[id][i].refs : Live(enc, r) /\ BagIn(r, track_map)

(* Streams that wait for insertions are among those the encoder counts as  *)
(* blocked, and a section waits only for what is on its way: when the      *)
(* decoder has seen all instructions, decode_header reports no missing     *)
(* references.                                                             *)
Waiting == {id \in Streams : sections[id] # <<>> /\ Missing(Head(sections[id]))}
BlockedAreCounted ==
  /\ Cardinality(Waiting) <= blocked_count
  /\ encoder_stream = <<>> => Waiting = {}
=============================================================================
