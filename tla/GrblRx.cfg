\* Status lines with and without room, errors, and a port opened again.
SPECIFICATION Spec
CONSTANTS
  Answers = {"ok", "error"}
  Reports = {"stat", "roomy", "tight"}
  OksMax = 2
  MaxSent = 6
  MaxChat = 0
  MaxSessions = 2
INVARIANTS TypeOK OksCoverOwed QueueBounded
CHECK_DEADLOCK FALSE
