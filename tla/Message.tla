------------------------------ MODULE Message ------------------------------
(***************************************************************************)
(* A header section from the caller of one endpoint to the caller of the   *)
(* other: the request, response or trailers become a Header, its fields in *)
(* HeaderIter's order become a block, the block becomes fields again under *)
(* the receiver's limit, the fields a Header, and that the parts of a      *)
(* message.  A request over the limit is answered by a response that takes *)
(* the same way back.                                                      *)
(*                                                                         *)
(* The sender is h3, or a peer that writes any list of fields, any block,  *)
(* or only the beginning of one.  None is an absent value.                 *)
(***************************************************************************)
EXTENDS FieldSection

CONSTANTS
  None,
  Messages,     \* what callers send: kind, method, uri, protocol, status, fields
  PeerLists,    \* field lists a peer may send
  PeerBlocks,   \* other blocks a peer may send
  Cuts,         \* bound: how many bytes a frame may lack
  Limits,       \* max_field_section_size, as the two ends may configure it
  Valid         \* external: the words that the types of the http crate accept

Kinds == {"request", "response", "trailers"}
PseudoNames == <<":method", ":scheme", ":authority", ":path", ":status", ":protocol">>

ASSUME MessageAssumption ==
  /\ \A m \in Messages : m.kind \in Kinds
  /\ Limits \subseteq Nat /\ Cuts \subseteq Nat \ {0}

VARIABLES
  step,       \* "call", "wire", "frame", "decoded", "done"
  origin,     \* who wrote the block: "h3", "cut" (h3's, ended early), "peer", "strange"
  msg,        \* the message on its way
  section,    \* the fields it was made of
  block,
  size,       \* encode_stateless's result
  limit,      \* the receiver's max_field_section_size
  settings,   \* the peer's limit as the sender knows it, None before its SETTINGS
  decoded,    \* what decode_stateless made of the block
  outcome,    \* what the caller who receives the message gets, or the sender
  rejected    \* the size of the request this message answers with 431, None if none

vars == <<step, origin, msg, section, block, size, limit, settings, decoded, outcome, rejected>>

-----------------------------------------------------------------------------
(***************************************************************************)
(* HeaderMap (http crate): the names in the order they were first added,   *)
(* each with its values.  Its IntoIter names only the first of them.       *)
(***************************************************************************)
append(map, name, value) ==
  LET i == SelectInSeq(map, LAMBDA e : e[1] = name)
  IN IF i = 0 THEN Append(map, <<name, <<value>>>>) ELSE [map EXCEPT ![i][2] = Append(@, value)]
HeaderMap(fields) == FoldLeft(LAMBDA map, f : append(map, f[1], f[2]), <<>>, fields)
first(map, name) ==
  LET i == SelectInSeq(map, LAMBDA e : e[1] = name) IN IF i = 0 THEN None ELSE map[i][2][1]
into_iter(map) ==
  FlattenSeq([i \in DOMAIN map |-> [j \in DOMAIN map[i][2] |->
                <<IF j = 1 THEN map[i][1] ELSE None, map[i][2][j]>>]])

(***************************************************************************)
(* The pseudo-headers of a message.                                        *)
(***************************************************************************)
Pseudo == [n \in ToSet(PseudoNames) |-> None]

(* Pseudo::request.  An empty PathAndQuery reads "/".                      *)
Pseudo_request(method, uri, ext) ==
  LET path == IF uri.path = None THEN "/" ELSE uri.path
      protocol == IF method = "CONNECT" THEN ext ELSE None
      plain == method = "CONNECT" /\ protocol = None
      scheme == IF uri.scheme = None THEN "https" ELSE uri.scheme
  IN [Pseudo EXCEPT ![":method"] = method,
                    ![":scheme"] = IF plain THEN None ELSE scheme,
                    ![":authority"] = uri.authority,
                    ![":path"] = IF plain THEN None ELSE path,
                    ![":protocol"] = protocol]

(* Header::request, response and trailer.                                  *)
Header(m) ==
  LET fields == HeaderMap(m.fields)
      host == first(fields, "host")
      authority == m.uri.authority
      Ok(pseudo) == [res |-> "ok", pseudo |-> pseudo, fields |-> fields]
  IN CASE m.kind = "response" -> Ok([Pseudo EXCEPT ![":status"] = m.status])
       [] m.kind = "trailers" -> Ok(Pseudo)
       [] OTHER ->
            IF authority = None /\ host = None THEN Failed("MissingAuthority")
            ELSE IF authority # None /\ host \notin {None, authority}
            THEN Failed("ContradictedAuthority")
            ELSE Ok(Pseudo_request(m.method, m.uri, m.protocol))

(* Deliberate bug: the values after the first of a name are passed over.   *)
HeaderIter_Firsts(header) ==
  LET Present(n) == header.pseudo[n] # None
      Named(item) == item[1] # None
  IN [i \in DOMAIN SelectSeq(PseudoNames, Present) |->
        <<SelectSeq(PseudoNames, Present)[i], header.pseudo[SelectSeq(PseudoNames, Present)[i]]>>]
     \o SelectSeq(into_iter(header.fields), Named)

(* HeaderIter: the pseudo-headers, then every value under its name.        *)
HeaderIter(header) ==
  LET names == SelectSeq(PseudoNames, LAMBDA n : header.pseudo[n] # None)
      Next(acc, item) ==
        LET name == IF item[1] # None THEN item[1] ELSE acc.last_header_name
        IN [last_header_name |-> name, out |-> Append(acc.out, <<name, item[2]>>)]
  IN [i \in DOMAIN names |-> <<names[i], header.pseudo[names[i]]>>]
     \o FoldLeft(Next, [last_header_name |-> None, out |-> <<>>], into_iter(header.fields)).out

-----------------------------------------------------------------------------
(***************************************************************************)
(* The block: encode_stateless and decode_stateless.                       *)
(***************************************************************************)
encode_stateless(fields) ==
  [block |-> Prefix \o FlattenSeq([i \in DOMAIN fields |-> encode_field(fields[i])]),
   size |-> FoldLeft(LAMBDA n, f : n + size_of(f), 0, fields)]

AddField(field, rest) ==
  IF rest.res # "ok" THEN rest ELSE [rest EXCEPT !.fields = <<field>> \o @]

(* Deliberate bug: the limit is compared before the field is counted.      *)
count_field_Late(field, before, max_size, from) ==
  IF field.res # "ok" THEN field
  ELSE IF before > max_size THEN [res |-> "too long", mem_size |-> before]
  ELSE AddField(field.field, from[field.end, before + field.size])

(* A field is counted, and the rest follows if the limit is kept.          *)
count_field(field, before, max_size, from) ==
  IF field.res # "ok" THEN field
  ELSE IF before + field.size > max_size
  THEN [res |-> "too long", mem_size |-> before + field.size]
  ELSE AddField(field.field, from[field.end, before + field.size])

decode_stateless(w, max_size) ==
  LET From[p \in Nat, before \in Nat] ==
        IF p >= Len(w) THEN [res |-> "ok", fields |-> <<>>, mem_size |-> before]
        ELSE count_field(decode_field(w, p), before, max_size, From)
      After(prefix) == IF prefix.res # "ok" THEN prefix ELSE From[prefix.end, 0]
  IN After(decode_prefix(w))

-----------------------------------------------------------------------------
(***************************************************************************)
(* From fields to a message.                                               *)
(***************************************************************************)
(* Protocol::from_str.                                                     *)
Protocols == {"webtransport", "connect-udp", "connect-ip", "websocket"}

(* Field::parse, by what becomes of a field.                               *)
parse(name, value) ==
  CASE name = "" -> "invalid"
    [] name \in Valid["name"] -> IF value \in Valid["value"] THEN "header" ELSE "invalid"
    [] name = ":protocol" -> IF value \in Protocols THEN "pseudo" ELSE "invalid"
    [] name \in ToSet(PseudoNames) -> IF value \in Valid[name] THEN "pseudo" ELSE "invalid"
    [] OTHER -> "invalid"

(* Deliberate bug: the order of the fields is not looked at.               *)
try_from_AnyOrder(fields) ==
  LET Add(header, f) ==
        LET kind == parse(f[1], f[2])
        IN CASE header.res # "ok" -> header
             [] kind = "invalid" -> Failed("Invalid")
             [] kind = "pseudo" -> [header EXCEPT !.pseudo[f[1]] = f[2]]
             [] kind = "header" -> [header EXCEPT !.regular_field_seen = TRUE,
                                                  !.fields = append(@, f[1], f[2])]
  IN FoldLeft(Add, [res |-> "ok", pseudo |-> Pseudo, fields |-> <<>>,
                    regular_field_seen |-> FALSE], fields)

(* Header::try_from.  A repeated pseudo-header takes the last one's place. *)
try_from(fields) ==
  LET Add(header, f) ==
        LET kind == parse(f[1], f[2])
        IN CASE header.res # "ok" -> header
             [] kind = "invalid" -> Failed("Invalid")
             [] kind = "pseudo" /\ header.regular_field_seen -> Failed("PseudoAfterRegularField")
             [] kind = "pseudo" -> [header EXCEPT !.pseudo[f[1]] = f[2]]
             [] kind = "header" -> [header EXCEPT !.regular_field_seen = TRUE,
                                                  !.fields = append(@, f[1], f[2])]
  IN FoldLeft(Add, [res |-> "ok", pseudo |-> Pseudo, fields |-> <<>>,
                    regular_field_seen |-> FALSE], fields)

(* uri::Builder::build (http crate), from optional parts.                  *)
Buildable(uri) ==
  /\ uri.authority \in Valid[":authority"]
  /\ IF uri.scheme # None THEN uri.path # None ELSE uri.path = None

into_request_parts(header) ==
  LET host == first(header.fields, "host")
      authority == header.pseudo[":authority"]
      uri == [scheme |-> header.pseudo[":scheme"],
              authority |-> IF host # None THEN host ELSE authority,
              path |-> header.pseudo[":path"]]
  IN IF host = None /\ authority = None THEN Failed("MissingAuthority")
     ELSE IF host # None /\ authority \notin {None, host} THEN Failed("ContradictedAuthority")
     ELSE IF header.pseudo[":method"] = None THEN Failed("MissingMethod")
     ELSE IF ~Buildable(uri) THEN Failed("InvalidRequest")
     ELSE [res |-> "ok", method |-> header.pseudo[":method"], uri |-> uri,
           protocol |-> header.pseudo[":protocol"], fields |-> header.fields]

into_response_parts(header) ==
  IF header.pseudo[":status"] = None THEN Failed("MissingStatus")
  ELSE [res |-> "ok", status |-> header.pseudo[":status"], fields |-> header.fields]

into_fields(header) == [res |-> "ok", fields |-> header.fields]

Parts(kind, fields) ==
  LET header == try_from(fields)
  IN IF header.res # "ok" THEN header
     ELSE CASE kind = "request" -> into_request_parts(header)
            [] kind = "response" -> into_response_parts(header)
            [] kind = "trailers" -> into_fields(header)

-----------------------------------------------------------------------------
Error(scope, code) == [res |-> scope, code |-> code]
NoParts == [res |-> "pending"]

Init ==
  /\ step = "call"
  /\ origin = "h3"
  /\ msg = None
  /\ section = <<>> /\ block = <<>> /\ size = 0
  /\ limit \in Limits
  /\ settings \in {None, limit}
  /\ decoded = NoParts
  /\ outcome = NoParts
  /\ rejected = None

(***************************************************************************)
(* send_request, send_response and send_trailers up to stream::write: the  *)
(* Header is built and encoded, and held back if its size is over the      *)
(* limit that is known, which is no limit before the peer's SETTINGS.      *)
(***************************************************************************)
Send(m, known) ==
  LET Write(fields, encoded) ==
        /\ section' = fields
        /\ block' = encoded.block
        /\ size' = encoded.size
        /\ IF known # None /\ encoded.size > known
           THEN outcome' = Error("unsent", "HeaderTooBig") /\ step' = "done"
           ELSE outcome' = NoParts /\ step' = "wire"
      Encode(fields) == Write(fields, encode_stateless(fields))
      Build(header) ==
        IF header.res = "ok" THEN Encode(HeaderIter(header))
        ELSE /\ outcome' = Error("connection", "H3_INTERNAL_ERROR")
             /\ step' = "done"
             /\ UNCHANGED <<section, block, size>>
  IN /\ msg' = m
     /\ settings' = known
     /\ origin' = "h3"
     /\ decoded' = NoParts
     /\ Build(Header(m))

send_request ==
  \E m \in Messages :
    /\ step = "call" /\ m.kind = "request"
    /\ Send(m, settings)
    /\ UNCHANGED <<limit, rejected>>

send_response ==
  \E m \in Messages :
    /\ step = "call" /\ m.kind = "response"
    /\ Send(m, settings)
    /\ UNCHANGED <<limit, rejected>>

send_trailers ==
  \E m \in Messages :
    /\ step = "call" /\ m.kind = "trailers"
    /\ Send(m, settings)
    /\ UNCHANGED <<limit, rejected>>

(* The frame arrives, all of it ...                                        *)
Deliver ==
  /\ step = "wire"
  /\ step' = "frame"
  /\ UNCHANGED <<origin, msg, section, block, size, limit, settings, decoded, outcome, rejected>>

(* ... or its sender made it too short, by a wrong length.                 *)
DeliverCut ==
  \E n \in Cuts :
    /\ step = "wire" /\ n <= Len(block)
    /\ step' = "frame"
    /\ origin' = "cut"
    /\ block' = SubSeq(block, 1, Len(block) - n)
    /\ UNCHANGED <<msg, section, size, limit, settings, decoded, outcome, rejected>>

(* A peer that is not h3, and looks at no limit, sends a list of its own,  *)
(* or a block.                                                             *)
PeerSends ==
  /\ step = "call" /\ settings = None
  /\ step' = "frame"
  /\ \E kind \in Kinds : msg' = [kind |-> kind]
  /\ \/ \E l \in PeerLists :
          /\ origin' = "peer"
          /\ section' = l
          /\ block' = encode_stateless(l).block
     \/ \E b \in PeerBlocks :
          /\ origin' = "strange"
          /\ section' = b.string
          /\ block' = b.block
  /\ UNCHANGED <<size, limit, settings, decoded, outcome, rejected>>

(***************************************************************************)
(* The receiver.  A block that does not decode costs the connection, one   *)
(* over the limit or a malformed message only the stream.                  *)
(***************************************************************************)
Undecodable(d) == d.res \notin {"ok", "too long"}
Result(kind, fields) ==
  LET parts == Parts(kind, fields)
  IN IF parts.res = "ok" THEN parts ELSE Error("stream", "H3_MESSAGE_ERROR")

accept_with_frame ==
  LET Take(d) ==
        /\ decoded' = d
        /\ IF Undecodable(d)
           THEN outcome' = Error("connection", "QPACK_DECOMPRESSION_FAILED") /\ step' = "done"
           ELSE step' = "decoded" /\ UNCHANGED outcome
  IN /\ step = "frame" /\ msg.kind = "request"
     /\ Take(decode_stateless(block, limit))
     /\ UNCHANGED <<origin, msg, section, block, size, limit, settings, rejected>>

resolve ==
  /\ step = "decoded" /\ decoded.res = "ok"
  /\ outcome' = Result("request", decoded.fields)
  /\ step' = "done"
  /\ UNCHANGED <<origin, msg, section, block, size, limit, settings, decoded, rejected>>

TooLarge == [kind |-> "response", status |-> "431", fields |-> <<>>]

(* The server answers by itself, under the client's limit, if it knows it. *)
resolve_too_large ==
  \E l \in Limits : \E known \in {None, l} :
    /\ step = "decoded" /\ decoded.res = "too long"
    /\ Send(TooLarge, known)
    /\ limit' = l
    /\ rejected' = decoded.mem_size

(* recv_response, and poll_recv_trailers once it has the last frame.       *)
Receive ==
  LET Take(d) ==
        /\ decoded' = d
        /\ outcome' = CASE Undecodable(d) -> Error("connection", "QPACK_DECOMPRESSION_FAILED")
                        [] d.res = "too long" -> Error("stream", "HeaderTooBig")
                        [] d.res = "ok" -> Result(msg.kind, d.fields)
  IN /\ step = "frame" /\ msg.kind # "request"
     /\ Take(decode_stateless(block, limit))
     /\ step' = "done"
     /\ UNCHANGED <<origin, msg, section, block, size, limit, settings, rejected>>

Next ==
  \/ send_request \/ send_response \/ send_trailers
  \/ Deliver \/ DeliverCut \/ PeerSends
  \/ accept_with_frame \/ resolve \/ resolve_too_large \/ Receive

Spec == Init /\ [][Next]_vars

-----------------------------------------------------------------------------
(***************************************************************************)
(* Properties.                                                             *)
(***************************************************************************)
(* Blocks are bytes and results are about the step that is reached.        *)
TypeOK ==
  /\ step \in {"call", "wire", "frame", "decoded", "done"}
  /\ origin \in {"h3", "cut", "peer", "strange"}
  /\ block \in Seq(0 .. 255)
  /\ size \in Nat /\ limit \in Limits /\ settings \in {None, limit}
  /\ (step = "done") = (outcome # NoParts)
  /\ decoded.res = "too long" => decoded.mem_size > limit

(* Where a request is addressed to, seen by its sender: a path alone is    *)
(* at the host on https, a CONNECT without protocol has no path.           *)
Target(m) ==
  LET host == first(HeaderMap(m.fields), "host")
      authority == IF m.uri.authority # None THEN m.uri.authority ELSE host
  IN IF m.method = "CONNECT" /\ m.protocol = None
     THEN [scheme |-> None, authority |-> authority, path |-> None]
     ELSE IF m.uri.scheme # None
     THEN [m.uri EXCEPT !.path = IF @ = None THEN "/" ELSE @]
     ELSE [scheme |-> "https", authority |-> authority,
           path |-> IF m.uri.path = None THEN "/" ELSE m.uri.path]
Sent(m) ==
  CASE m.kind = "request" ->
         [res |-> "ok", method |-> m.method, uri |-> Target(m),
          protocol |-> IF m.method = "CONNECT" THEN m.protocol ELSE None,
          fields |-> HeaderMap(m.fields)]
    [] m.kind = "response" -> [res |-> "ok", status |-> m.status, fields |-> HeaderMap(m.fields)]
    [] m.kind = "trailers" -> [res |-> "ok", fields |-> HeaderMap(m.fields)]

(* What h3 sends, h3 decodes to the fields that were sent and gives to the *)
(* caller as the message that was sent: every byte through the Huffman     *)
(* code, every entry of the static table, every value of a repeated name   *)
(* in its order.  Only a Host field that is no authority, where the URI    *)
(* has none, is let through by send_request and refused by the server.     *)
ArrivesUnchanged ==
  (origin = "h3" /\ step = "done" /\ decoded.res = "ok") =>
    /\ decoded.fields = section
    /\ \/ outcome = Sent(msg)
       \/ /\ msg.kind = "request" /\ Target(msg).authority \notin Valid[":authority"]
          /\ outcome = Error("stream", "H3_MESSAGE_ERROR")

(* Both ends count the same size, so that a sender who has the peer's      *)
(* SETTINGS holds back exactly what the peer would refuse; and who is      *)
(* refused without having them is answered 431, if the answer itself is    *)
(* within the limit the server knows or the client has.                    *)
LimitsAreRespected ==
  (origin = "h3" /\ step = "done") =>
    /\ decoded.res = "ok" => decoded.mem_size = size /\ size <= limit
    /\ decoded.res = "too long" => settings = None /\ size > limit
    /\ outcome.res = "unsent" => size > limit
    /\ rejected # None =>
         \/ outcome = [res |-> "ok", status |-> "431", fields |-> <<>>]
         \/ limit < size_of(<<":status", "431">>)

(* A block that ends too early is never read as a field its sender did not *)
(* write: it decodes to some of the first fields, or costs the connection. *)
CutNeverInvents ==
  (origin = "cut" /\ decoded.res = "ok") =>
    IsPrefix(decoded.fields, section) /\ decoded.fields # section

(* A Huffman string reads as the only text its bits can begin with: the    *)
(* codes of the text are the first bits and no code fits in the others; it *)
(* is refused only if what is left is not the padding of an encoder.  (The *)
(* converse fails: the decoder lets a code that is cut by the end pass.)   *)
StringsAreCanonical ==
  LET BitsFor(byte) == Bits(Code(byte)[2], Code(byte)[1])
      Reads(d, rest) ==
        /\ \A byte \in 0 .. 255 : Code(byte)[1] <= Len(rest) => ~IsPrefix(BitsFor(byte), rest)
        /\ d.res = "error" => (Len(rest) > 7 \/ 0 \in ToSet(rest))
        /\ (decoded.res \in {"ok", "too long"}) = (d.res # "error")
      After(d, codes, bits) ==
        IsPrefix(codes, bits) /\ Reads(d, SubSeq(bits, Len(codes) + 1, Len(bits)))
      Canonical(d, bits) ==
        After(d, FlattenSeq([i \in DOMAIN d.text |-> BitsFor(d.text[i])]), bits)
  IN (origin = "strange" /\ section # <<>> /\ decoded # NoParts) =>
       Canonical(hpack_decode(BitsOf(section)), BitsOf(section))

(* A caller gets a message only if its fields are in order: all known and  *)
(* valid, the pseudo-headers first; a request has a method, a path exactly *)
(* if it has a scheme, and an authority: that of the first Host field if   *)
(* there is one, and of :authority if there is one, so the two are equal;  *)
(* a response has a status.                                                *)
(* Not asked for, since the code does not: that a pseudo-header or Host    *)
(* occurs once (of several :authority the last counts, of several Host the *)
(* first; the others may differ from it), that a pseudo-header belongs to  *)
(* this kind of message or is absent from trailers, and that only CONNECT  *)
(* goes without scheme and path.                                           *)
WellFormedOnly ==
  (step = "done" /\ outcome.res = "ok") =>
    LET names == [i \in DOMAIN decoded.fields |-> decoded.fields[i][1]]
        Has(name) == Contains(names, name)
        All(name) == SelectSeq(decoded.fields, LAMBDA f : f[1] = name)
        regular == {i \in DOMAIN names : names[i] \notin ToSet(PseudoNames)}
    IN /\ \A i \in DOMAIN names : parse(names[i], decoded.fields[i][2]) # "invalid"
       /\ \A i \in regular : \A j \in DOMAIN names \ regular : j < i
       /\ msg.kind = "request" =>
            /\ Has(":method")
            /\ Has(":scheme") = Has(":path")
            /\ Has("host") \/ Has(":authority")
            /\ Has("host") => outcome.uri.authority = Head(All("host"))[2]
            /\ Has(":authority") => outcome.uri.authority = Last(All(":authority"))[2]
       /\ msg.kind = "response" => Has(":status")
=============================================================================
