------------------------------ MODULE MCExecSync ------------------------------
EXTENDS ExecSync
=============================================================================
