---------------------------- MODULE MCFilterChain ----------------------------
(* Two filters that do not commute: one fails on a line, and makes another  *)
(* the line that ends the sender.                                           *)
EXTENDS FilterChain

MCText == {Empty, StopLine, GrblMode, "G21G90", "G90G21", Pars,
           "Grbl", "/dev/ttyUSB0", "115200", "1", "plug_0", "plug_1", "Z1", "M3", "G2"}

MCToNumber == [t \in MCText |->
                 CASE t = "115200" -> 115200 [] t = "1" -> 1 [] OTHER -> NIL]

MCConnection == << "Grbl", "/dev/ttyUSB0", "115200" >>

MCProgram == << "Z1", "G2" >>

MCExec == [p \in Plugins |-> [t \in MCText |->
             CASE p = "plug_0" /\ t = "Z1" -> "M3"
               [] p = "plug_1" /\ t = "M3" -> StopLine
               [] p = "plug_1" /\ t = "G2" -> NIL
               [] OTHER -> t]]

NoMessages == {<< >>}
=============================================================================
