------------------------- MODULE ConnectionErrorCell -------------------------
(***************************************************************************)
(* What h3 promises about connection errors, independent of tasks, wakers  *)
(* and the moments at which they are noticed: all parties that share a     *)
(* connection (its driver tasks, request streams and SendRequest handles)  *)
(* agree on one connection error, and what the QUIC connection is closed   *)
(* with is decided once, either by that error or by dropping the           *)
(* connection.                                                             *)
(***************************************************************************)
CONSTANTS Parties,           \* everybody who can report a connection error
          Errors,            \* the possible causes
          Report(_),         \* the error value a party hands to its user
          CloseWith(_),      \* the code a cause closes the connection with, or None
          DropCode,          \* the code the drop of the connection closes it with
          None

VARIABLES err,      \* the agreed cause, None at first
          told,     \* told[p]: what party p has reported to its user
          wire      \* what QUIC was closed with

vars == <<err, told, wire>>

Init == /\ err = None
        /\ told = [p \in Parties |-> None]
        /\ wire = None

(* The first cause wins.                                                   *)
Decide(e) == /\ err = None
             /\ err' = e
             /\ UNCHANGED <<told, wire>>

(* A party learns of the cause; it may have to close the connection first. *)
Learn(p) == /\ err # None
            /\ told' = [told EXCEPT ![p] = Report(err)]
            /\ \/ UNCHANGED wire
               \/ wire = None /\ wire' = CloseWith(err)
            /\ UNCHANGED err

(* The connection is closed on behalf of the cause, before anyone reports. *)
Close == /\ err # None
         /\ wire = None
         /\ wire' = CloseWith(err)
         /\ UNCHANGED <<err, told>>

(* The owner drops the connection; a connection already closed stays as it is. *)
Drop == /\ wire = None
        /\ wire' = DropCode
        /\ UNCHANGED <<err, told>>

Next == \/ \E e \in Errors : Decide(e)
        \/ \E p \in Parties : Learn(p)
        \/ Close
        \/ Drop

Spec == Init /\ [][Next]_vars
=============================================================================
