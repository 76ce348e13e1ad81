------------------------------ MODULE MCProcess ------------------------------
(* Exit codes for the runs of Process: the sign of failure that the kernel *)
(* and the programs use, and a status that does not fit a byte.            *)
EXTENDS Process

MCExitCodes == {-1, 300}
=============================================================================
