---------------------------- MODULE MCSleepTime ----------------------------
(***************************************************************************)
(* The kernel with the history of sleeps, on the instances of MCKernel.    *)
(***************************************************************************)
EXTENDS MCKernel, SleepTime

=============================================================================
