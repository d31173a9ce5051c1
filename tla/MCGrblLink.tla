----------------------------- MODULE MCGrblLink -----------------------------
(* GrblLink with small bounds; the constants are in the configurations.     *)
EXTENDS GrblLink
=============================================================================
