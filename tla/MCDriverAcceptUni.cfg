SPECIFICATION Spec
CONSTANTS
  t1 = t1
  t2 = t2
  Tasks = {t1, t2}
  Starts <- One
  Checks <- AcceptUniChecks
  Streams = {r1}
  Senders = {s1, s2}
  FirstSender = s1
  Codes <- MCCodes
  QuicErrors <- MCQuicErrors
  Roles = {"server"}
  MaxArrivals = 1
  None = None
INVARIANT
  NoLostWakeup
CHECK_DEADLOCK FALSE
