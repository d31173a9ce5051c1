------------------------------ MODULE MCExecTask ------------------------------
\* Two children that may both be given the same name.
EXTENDS ExecTask
=============================================================================
