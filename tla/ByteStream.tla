----------------------------- MODULE ByteStream -----------------------------
(***************************************************************************)
(* What the sending half of a message promises the receiving one: the      *)
(* reader gets, in order and without gaps, the bytes the writer has handed *)
(* over, and is told that it has seen the end only when it has seen all.   *)
(***************************************************************************)
EXTENDS Sequences, SequencesExt

CONSTANT None

VARIABLES out,    \* bytes the writer has handed over
          got,    \* bytes the reader has got
          told    \* None, or how the stream ended for the reader: "fin", "broken"

vars == <<out, got, told>>

Init == out = <<>> /\ got = <<>> /\ told = None

(* Nothing is added to what the reader was told is complete.               *)
Put == /\ told # "fin"
       /\ IsStrictPrefix(out, out')
       /\ UNCHANGED <<got, told>>

Deliver == /\ told = None
           /\ IsStrictPrefix(got, got')
           /\ IsPrefix(got', out)
           /\ UNCHANGED <<out, told>>

End == /\ told = None
       /\ \/ told' = "fin" /\ got = out
          \/ told' = "broken"
       /\ UNCHANGED <<out, got>>

Next == Put \/ Deliver \/ End

Spec == Init /\ [][Next]_vars
=============================================================================
