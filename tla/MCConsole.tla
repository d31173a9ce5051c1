------------------------------ MODULE MCConsole ------------------------------
(* Instances of Console for TLC.                                            *)
EXTENDS Console

MCText == {Empty, StopLine, GrblMode, "G21G90", "G90G21", "Grbl",
           "Marlin", "/dev/ttyUSB0", "115200", "G1", "G2", "$H", "1"}

MCToNumber == [t \in MCText |->
                 CASE t = "115200" -> 115200 [] t = "1" -> 1 [] OTHER -> NIL]

\* Two lines, so that a lost, doubled or misplaced one shows.
MCProgram == << "G1", "G2" >>

NoMessages == {<< >>}

\* Once messages are mixed and no Run can follow that sets them apart again,
\* the properties promise nothing: what comes then need not be looked at.
Promising == alone = "mixed" => clicks < MaxClicks
=============================================================================
