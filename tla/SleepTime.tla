----------------------------- MODULE SleepTime -----------------------------
(***************************************************************************)
(* How long a sleep lasts.  app_sleep promises that its duration is "not   *)
(* necessarily accurate ... It is however guaranteed to be >= ms"          *)
(* (appsdk/app_process.h:8-10).  The kernel of module Kernel is left as it *)
(* is; the history variable remaining counts, for each thread, the quanta  *)
(* of its last sleep that have not yet passed.                             *)
(***************************************************************************)
EXTENDS Kernel

VARIABLE remaining

sleepVars == <<vars, remaining>>

SleepInit == Init /\ remaining = [t \in Thread |-> 0]

\* The caller asks for ms quanta, an unsigned number whatever its size.
SleepFor(ms, bits) ==
    /\ Sleep(ms, bits)
    /\ remaining' = [remaining EXCEPT ![currTcb] = ms]

\* The clock interrupt is what makes time pass for everyone.
QuantumPasses ==
    /\ TimerIRQ
    /\ remaining' =
         [t \in Thread |-> IF remaining[t] > 0 THEN remaining[t] - 1 ELSE 0]

\* Everything else that may end a sleep, rightly or by mistake.
OtherStep ==
    /\ OtherSyscall \/ KeyboardIRQ \/ KernelStep
    /\ UNCHANGED remaining

SleepNext ==
    \/ \E ms \in SleepMs, bits \in SleepBits : SleepFor(ms, bits)
    \/ QuantumPasses
    \/ OtherStep

SleepSpec == SleepInit /\ [][SleepNext]_sleepVars

\* A sleeping thread is made ready only when the interval it asked for has
\* passed, whatever messages, timers, mutexes and other sleepers do meanwhile.
SleepLastsLongEnough ==
    [][\A t \in Thread :
         tcb[t].wait = "SLEEP" /\ tcb'[t].state = "READY"
           => remaining[t] = 0]_sleepVars

=============================================================================
