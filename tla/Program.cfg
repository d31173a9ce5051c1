\* A connected sender, a program and the run panel.
SPECIFICATION LiveSpec
CONSTANTS
  NIL = NIL
  Text <- MCText
  ToNumber <- MCToNumber
  Posted <- ProgramTraffic
  Openings <- Beginnings
  MaxHeld = 3
INVARIANTS TypeOK ErrorBlamesLastLine
PROPERTIES ProgramOrder EndAfterLastLine PausedWritesNoLine RunEnds SinglesEnd
CHECK_DEADLOCK FALSE
