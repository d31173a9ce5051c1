\* The run panel, single commands and connections, from a window without a
\* controller and from one with an idle controller.
SPECIFICATION CSpec
\* What follows a connection is explored while a Run may still set it apart.
CONSTRAINT Promising
CONSTANTS
  NIL = NIL
  Text <- MCText
  ToNumber <- MCToNumber
  Posted = {}
  Openings <- NoMessages
  MaxHeld = 0
  Program <- MCProgram
  Buttons = {"Home", "Run", "Pause", "Stop", "Connect"}
  Answers = {"none", "ok", "err"}
  MaxReports = 1
  MaxClicks = 4
  MaxEarly = 2
  MaxSingles = 1
  MaxConnects = 2
INVARIANTS RunningIsShown ShownIsRunning
PROPERTIES RunsWhatWasSent ControlledSurvives
CHECK_DEADLOCK FALSE
