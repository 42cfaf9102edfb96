----------------------------- MODULE MCAppMutex -----------------------------
(***************************************************************************)
(* The mutex with three threads of one process.                            *)
(***************************************************************************)
EXTENDS AppMutex, TLC

CONSTANTS hello, tHello, w1, w2

OneApp == <<hello>>
OneAppMain == (IdleProc :> Idle) @@ (hello :> tHello)
NoBits == {INVALID_HANDLE}

Workers == Permutations({w1, w2})

=============================================================================
