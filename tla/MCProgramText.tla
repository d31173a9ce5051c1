--------------------------- MODULE MCProgramText ---------------------------
(* Instances of ProgramText for TLC.                                        *)
EXTENDS ProgramText
CONSTANTS a, b, c, t0, t1
MCTexts   == {<<a, b>>, <<a, Blank, b>>}
MCGives   == [l \in Lines |-> IF l = b THEN {"X"} ELSE {"X", "Y"}]
ThreeLines == {<<a, b, c>>}
=============================================================================
