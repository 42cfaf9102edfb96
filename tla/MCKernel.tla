------------------------------ MODULE MCKernel ------------------------------
(***************************************************************************)
(* The kernel on small instances: the idle process and one or two user     *)
(* processes with up to three threads between them.                        *)
(***************************************************************************)
EXTENDS Kernel, TLC

CONSTANTS hello, other,      \* user processes
          tHello, tOther,    \* their main threads
          w1                 \* a TCB that createThread may use

OneApp == <<hello>>
TwoApps == <<hello, other>>

OneAppMain == (IdleProc :> Idle) @@ (hello :> tHello)
TwoAppsMain == OneAppMain @@ (other :> tOther)

NoBits == {INVALID_HANDLE}
=============================================================================
