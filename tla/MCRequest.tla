------------------------------ MODULE MCRequest ------------------------------
EXTENDS Request

(* Frames as bytes.  The payload of DATA looks like frame headers; the     *)
(* long HEADERS has a length of two bytes; 33 is an unknown type.  A       *)
(* Hollow GOAWAY and a PUSH_PROMISE with half an integer lack theirs.      *)
(* SETTINGS are empty, have half an entry, or one that was HTTP/2's.       *)
Ok == <<1, 1, 1>>
Long == <<1, 64, 1, 1>>
BadSections == {<<1, 0>>, <<1, 1, 2>>, <<1, 1, 3>>, <<1, 1, 4>>, <<1, 1, 5>>}
Data == <<0, 2, 1, 0>>
Empty == <<0, 0>>
Strange == <<33, 1, 0>>
GoAway == <<7, 1, 0>>
Hollow == <<7, 0>>
SettingsFrames == {<<4, 0>>, <<4, 1, 0>>, <<4, 2, 2, 0>>}
Priority == <<2, 0>>
WebTransport == <<64, 65, 0>>

Tails == {Data, Empty, Strange, Ok, GoAway}
Messages ==
  {<<>>}
  \cup {f : f \in BadSections \cup Tails \cup {Long, Priority, WebTransport}}
  \cup {Strange \o Ok \o f : f \in Tails}
  \cup {Ok \o f \o g : f \in Tails \cup {Long}, g \in Tails \cup {Priority}}
  \cup {Ok \o b : b \in BadSections}
  \cup {Hollow, Ok \o Hollow \o Ok, Ok \o <<5, 1, 64>> \o Data}
  \cup {m \o f : m \in {<<>>, Ok, Ok \o Data, Ok \o Ok}, f \in SettingsFrames}
  \cup {Ok \o Data \o f \o g : f \in {Data, Long, Strange}, g \in {Data, Ok}}

(* Every message, whole and cut short.                                     *)
MCWires == UNION {{SubSeq(m, 1, k) : k \in 0 .. Len(m)} : m \in Messages}
=============================================================================
