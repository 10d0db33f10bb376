------------------------------ MODULE MCDriver ------------------------------
EXTENDS Driver

MCCodes == {"H3_NO_ERROR", "H3_INTERNAL_ERROR"}
MCQuicErrors == {"Timeout", "InternalError", "Undefined"}

(* server accept() and client poll_close(): three checks in a poll         *)
MCChecks == [t \in Tasks |-> 3]

(* a task that only awaits WebTransportSession::accept_uni (AcceptUni::poll *)
(* calls poll_accept_recv and nothing else) takes the connection over from *)
(* the task that accepted the CONNECT request                              *)
CONSTANTS t1, t2
OneThenBoth == {{t1}, {t1, t2}}
One == {{t1}}
AcceptUniChecks == [t \in Tasks |-> IF t = t2 THEN 1 ELSE 3]
=============================================================================
