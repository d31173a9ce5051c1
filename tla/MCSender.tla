------------------------------ MODULE MCSender ------------------------------
(* Instances of Sender for TLC: what the clients post, what is in the       *)
(* mailbox when the task starts, and the payloads.                          *)
EXTENDS Sender

MCText == {Empty, StopLine, GrblMode, "G21G90", "G90G21",
           "Grbl", "Marlin", "/dev/ttyUSB0", "115200", "G1", "5"}

MCToNumber == [t \in MCText |->
                 CASE t = "115200" -> 115200 [] t = "5" -> 5 [] OTHER -> NIL]

\* The connect button: PORT, controller, port, baud rate.
ConnectGrbl   == << "PORT", "Grbl", "/dev/ttyUSB0", "115200" >>
ConnectMarlin == << "PORT", "Marlin", "/dev/ttyUSB0", "115200" >>

\* Connecting; then a filter put in and a single command that ends the task,
\* or connecting again with a field left empty, a fill that is stopped, a start
\* line that is no number and a filter that is not there.
Beginnings ==
    { ConnectGrbl,
      ConnectGrbl \o << "ADDFILTER", "Grbl", "5", "SINGLE", StopLine >>,
      ConnectMarlin \o << "PORT", Empty, "/dev/ttyUSB0", "115200", "FILL", "STOP",
                          "SENDFROM", "Grbl", "DELFILTER", "Grbl" >> }

\* A program and the buttons of the run panel.
ProgramTraffic == {"NEW", "G1", "RESUME", "PAUSE", "SINGLE"}

\* Removed is what the code's loop over the list does, on every short list.
ASSUME RemovedIsSelected ==
    \A s \in BoundedSeq({"G1", "5", Empty}, 4) :
       Removed(s, "G1") = SelectSeq(s, LAMBDA m : m # "G1")
=============================================================================
