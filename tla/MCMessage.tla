----------------------------- MODULE MCMessage -----------------------------
EXTENDS Message, FiniteSets

(***************************************************************************)
(* Words.  "#n" is the text of the one byte n, "#m#n" that of two; the     *)
(* others are spelled in ASCII.                                            *)
(***************************************************************************)
One(n) == "#" \o ToString(n)
Two(m, n) == One(m) \o One(n)
(* Bytes whose codes have 5, 6, 7, 8, 10, 15, 23 and 28 bits.              *)
Sample == {97, 32, 58, 38, 33, 60, 139, 249}

Texts == {<<"", <<>>>>, <<"a", <<97>>>>, <<"b", <<98>>>>, <<"x", <<120>>>>, <<"X", <<88>>>>,
  <<"y", <<121>>>>, <<":x", <<58, 120>>>>, <<"/p", <<47, 112>>>>, <<"host", <<104, 111, 115, 116>>>>,
  <<"431", <<52, 51, 49>>>>, <<"20", <<50, 48>>>>,
  <<":protocol", <<58, 112, 114, 111, 116, 111, 99, 111, 108>>>>,
  <<"webtransport", <<119, 101, 98, 116, 114, 97, 110, 115, 112, 111, 114, 116>>>>}
Letters == {97, 98, 120, 88, 121}
Spelled == Texts
  \cup {<<One(n), <<n>>>> : n \in 0 .. 255 \ Letters}
  \cup {<<Two(m, n), <<m, n>>>> : m, n \in Sample}
MCSpelling == [s \in {e[1] : e \in Spelled} |-> (CHOOSE e \in Spelled : e[1] = s)[2]] @@ ("" :> <<>>)

(***************************************************************************)
(* What the http crate accepts, of these words.  Garbled is text of two    *)
(* bytes or more; what codes of that many bits fit into the strings below  *)
(* are all visible characters.                                             *)
(***************************************************************************)
StaticNames == {PREDEFINED_HEADERS[i][1] : i \in DOMAIN PREDEFINED_HEADERS}
StaticValues(name) ==
  {PREDEFINED_HEADERS[i][2] : i \in {j \in DOMAIN PREDEFINED_HEADERS : PREDEFINED_HEADERS[j][1] = name}}
Visible == (32 .. 255 \ {127}) \cup {9}
ValidValues == {"", "a", "b", "x", "y", "X", "/p", "host", "431", "20", "webtransport", Garbled}
  \cup {One(n) : n \in Visible} \cup {Two(m, n) : m, n \in Sample}
  \cup UNION {StaticValues(n) : n \in StaticNames}
MCValid ==
  [class \in {"name", "value"} \cup ToSet(PseudoNames) |->
     CASE class = "name" -> (StaticNames \ ToSet(PseudoNames)) \cup {"x", "y", "host"}
       [] class = "value" -> ValidValues
       [] class = ":method" -> StaticValues(":method") \cup {"a", "X"}
       [] class = ":scheme" -> {"http", "https", "a"}
       [] class = ":authority" -> {"a", "b"}
       [] class = ":path" -> {"/", "/p"}
       [] class = ":status" -> StaticValues(":status") \cup {"431"}
       [] class = ":protocol" -> Protocols]

(***************************************************************************)
(* Messages.  A Uri of the http crate is absolute, an authority or a path. *)
(***************************************************************************)
Uri(s, a, p) == [scheme |-> s, authority |-> a, path |-> p]
Uris == {Uri(s, "a", p) : s \in {"http", "https"}, p \in {"/", "/p"}}
  \cup {Uri(None, "a", None), Uri(None, None, "/p")}
Request(method, uri, protocol, fields) ==
  [kind |-> "request", method |-> method, uri |-> uri, protocol |-> protocol, fields |-> fields]
Response(status, fields) == [kind |-> "response", status |-> status, fields |-> fields]
Trailers(fields) == [kind |-> "trailers", fields |-> fields]

Hosts == {<<>>, <<<<"host", "a">>>>, <<<<"host", "b">>>>, <<<<"host", "">>>>}
Lines == {<<"x", "a">>, <<"x", "b">>, <<"age", "0">>, <<"age", "a">>}
RegularEntries == {f \in ToSet(PREDEFINED_HEADERS) : f[1] \notin ToSet(PseudoNames)}
MCMessages ==
  {Request(m, u, p, h) : m \in {"GET", "CONNECT", "X"}, u \in Uris, p \in {None, "webtransport"}, h \in Hosts}
  \cup {Request(m, Uri("https", "a", "/"), None, <<>>) : m \in StaticValues(":method")}
  \cup {Response(s, <<>>) : s \in StaticValues(":status") \cup {"431"}}
  \cup {Response("200", fs) : fs \in TupleOf(Lines, 3)}
  \cup {Trailers(<<f>>) : f \in RegularEntries}
  \cup {Trailers(<<<<name, "a">>>>) : name \in StaticNames \ ToSet(PseudoNames)}
  \cup {Trailers(<<<<"x", v>>>>) : v \in {One(n) : n \in Visible \ Letters} \cup {Two(m, n) : m, n \in Sample}}

(***************************************************************************)
(* What other peers send: lists in and out of order, and blocks with       *)
(* references to a dynamic table, indices out of the static one, integers  *)
(* without end, plain strings, and strings of one and two Huffman bytes.   *)
(***************************************************************************)
Base == <<<<":method", "GET">>, <<":scheme", "https">>, <<":authority", "a">>, <<":path", "/">>>>
Extras == ToSet(Base) \cup {<<":authority", "b">>, <<":authority", "">>, <<":status", "200">>,
  <<":status", "20">>, <<":x", "a">>, <<"X", "a">>, <<"", "a">>, <<"x", "a">>, <<"x", "#0">>,
  <<"host", "a">>, <<"host", "b">>, <<":protocol", "webtransport">>, <<":protocol", "a">>}
MCPeerLists == UNION {TupleOf(Extras, n) : n \in 0 .. 2}
  \cup {InsertAt(Base, i, f) : i \in 1 .. 5, f \in Extras}
  \cup {InsertAt(InsertAt(Base, i, f), j, <<"host", "a">>) : i \in 1 .. 5, j \in 1 .. 6, f \in Extras}
  \cup {RemoveAt(Base, i) : i \in 1 .. 4}

Block(b) == [string |-> <<>>, block |-> b]
InValue(payload) ==
  [string |-> payload, block |-> Prefix \o <<80>> \o encode_int(7, 1, Len(payload)) \o payload]
MCPeerBlocks ==
  {Block(Prefix \o b) : b \in {<<128>>, <<16>>, <<64, 0>>, <<0, 0>>, <<255, 35>>, <<255, 36>>,
     <<255, 255, 255, 255, 255>>, <<80, 1, 97>>, <<95, 84, 1, 97>>, <<95, 85, 1, 97>>, <<33, 120, 1, 97>>}}
  \cup {Block(b) : b \in {<<>>, <<0>>, <<255, 1, 127, 0>>}}
  \cup {InValue(<<b>>) : b \in 0 .. 255}
  \cup {InValue(<<b, c>>) : b \in {0, 2, 7, 81, 83, 254, 255}, c \in {16 * i + j : i \in 0 .. 15, j \in {10, 15}}}
=============================================================================
