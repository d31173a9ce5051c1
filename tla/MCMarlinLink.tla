---------------------------- MODULE MCMarlinLink -----------------------------
(* MarlinLink with small bounds; the constants are in the configuration.    *)
EXTENDS MarlinLink
=============================================================================
