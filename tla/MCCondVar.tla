------------------------------- MODULE MCCondVar -------------------------------
(***************************************************************************)
(* CondVar with a semaphore for each thread to wait on, whichever it is.   *)
(***************************************************************************)
EXTENDS CondVar

MCwaiter == CHOOSE f \in Bijection(Threads, Semas) : TRUE
=============================================================================
