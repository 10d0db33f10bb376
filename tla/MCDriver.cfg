SPECIFICATION FairSpec
CONSTANTS
  t1 = t1
  t2 = t2
  Tasks = {t1, t2}
  Starts <- OneThenBoth
  Checks <- MCChecks
  Streams = {r1}
  Senders = {s1, s2}
  FirstSender = s1
  Codes <- MCCodes
  QuicErrors <- MCQuicErrors
  Roles = {"client", "server"}
  MaxArrivals = 1
  None = None
INVARIANTS
  TypeOK
  Agreement
  ClosedOnceForFirstError
  NoErrorOnlyAfterLastSender
  NoLostWakeup
PROPERTIES
  EveryTaskReturns
  ImplementsCell
CHECK_DEADLOCK FALSE
