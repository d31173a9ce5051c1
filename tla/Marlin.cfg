\* Lines, both status queries, errors and chat.
SPECIFICATION LiveSpec
CONSTANTS
  Answers = {"ok", "error"}
  OksMax = 3
  MaxSent = 5
  MaxChat = 1
  MaxPhantom = 3
INVARIANT OneAtATime
PROPERTY CommandsSettle
CHECK_DEADLOCK FALSE
