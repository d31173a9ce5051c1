---------------------------- MODULE MCExecMemory ----------------------------
EXTENDS ExecMemory
=============================================================================
