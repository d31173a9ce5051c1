\* A directory of three files, two of them plug-ins, which are attached, detached
\* and attached again around a program.
SPECIFICATION FSpec
CONSTANTS
  NIL = NIL
  Text <- MCText
  ToNumber <- MCToNumber
  Posted = {}
  Openings <- NoMessages
  MaxHeld = 0
  Plugins = {"plug_0", "plug_1"}
  Exec <- MCExec
  Program <- MCProgram
  Connection <- MCConnection
  MaxFiles = 3
  Answers = {"none", "ok"}
  MaxClicks = 3
  MaxLate = 1
INVARIANTS FiltersDistinct ProgramPlace ListIsChain ListIsServed
PROPERTIES LinesFiltered StartupEnds
CHECK_DEADLOCK FALSE
