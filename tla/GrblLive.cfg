\* A machine without the RX field that never answers "error".
SPECIFICATION LiveSpec
CONSTANTS
  Answers = {"ok"}
  Reports = {"stat"}
  OksMax = 3
  MaxSent = 5
  MaxChat = 1
  MaxSessions = 1
INVARIANT OneAtATime
PROPERTIES AccessReturns StopsAndWaits
CHECK_DEADLOCK FALSE
