------------------------------ MODULE AppMutex ------------------------------
(***************************************************************************)
(* The mutex of the application SDK (appsdk/app_process.c): a word in user *)
(* memory taken with an atomic compare-and-exchange, and two system calls  *)
(* for the contended case.  The threads of one process run lock and unlock *)
(* an instruction at a time, over the kernel of module Kernel, which may   *)
(* take the CPU away between any two instructions.                         *)
(*                                                                         *)
(* Between calls a thread may sleep, wait for messages and post them.  The *)
(* main thread makes the mutex and starts the other threads.               *)
(***************************************************************************)
EXTENDS Kernel

CONSTANTS
    Users,      \* the threads of the process, its main thread among them
    MaxDepth,   \* how often one thread locks the mutex recursively
    UsesMsgs    \* whether the program uses messages

ASSUME AppMutexAssumption ==
    /\ Users \subseteq Thread \ {Idle}
    /\ Len(Apps) = 1
    /\ Main[Apps[1]] \in Users
    /\ MaxDepth \in Nat \ {0}
    /\ UsesMsgs \in BOOLEAN

VARIABLES
    owner,      \* mtx->owner, INVALID_HANDLE if unlocked
    counter,    \* mtx->counter
    mtxHandle,  \* mtx->h
    pc,         \* where each thread is
    depth       \* locks minus unlocks that each thread has done

mtxVars == <<owner, counter, mtxHandle, depth>>
allVars == <<vars, owner, counter, mtxHandle, pc, depth>>

MainThread == Main[Apps[1]]

\* app_getCurrentThread: cached in a TLS slot when the thread starts.
Self(t) == tcb[t].handle

At(t, label) ==
    kpc = "user" /\ currTcb = t /\ t \in Users /\ pc[t] = label

Goto(t, label) == pc' = [pc EXCEPT ![t] = label]

MutexInit ==
    /\ Init
    /\ owner = INVALID_HANDLE
    /\ counter = 0
    /\ mtxHandle = INVALID_HANDLE
    /\ pc = [t \in Users |-> "start"]
    /\ depth = [t \in Users |-> 0]

-----------------------------------------------------------------------------
\* app_threadEntry. The main thread has the mutex made before anything else.
Start(t) ==
    /\ At(t, "start")
    /\ SetTlsPtr
    /\ Goto(t, IF t = MainThread THEN "make" ELSE "out")
    /\ UNCHANGED mtxVars

MakeMutex(t) ==
    /\ At(t, "make")
    /\ CreateMutex
    /\ \E i \in Slot :
          FirstFree(handles, i) /\ mtxHandle' = HandleOf(handles', i)
    /\ Goto(t, "out")
    /\ UNCHANGED <<owner, counter, depth>>

StartThread(t) ==
    /\ At(t, "out")
    /\ t = MainThread
    /\ \E s \in Users : CreateThread(s)
    /\ UNCHANGED <<pc, mtxVars>>

\* What else a thread may do between two calls of the mutex functions.
OtherCall(t) ==
    /\ At(t, "out")
    /\ \/ \E ms \in SleepMs, bits \in SleepBits : Sleep(ms, bits)
       \/ UsesMsgs /\ GetMsg
       \/ UsesMsgs /\ WaitForMsg
       \/ UsesMsgs /\ \E s \in Users : PostMsg(Self(s))
    /\ UNCHANGED <<pc, mtxVars>>

-----------------------------------------------------------------------------
\* app_lockMutex: the first compare-and-exchange. A thread that owns the mutex
\* already goes on like one that found it unlocked.
Lock(t) ==
    /\ At(t, "out")
    /\ depth[t] < MaxDepth
    /\ IF owner = INVALID_HANDLE
       THEN owner' = Self(t) /\ Goto(t, "increment")
       ELSE /\ Goto(t, IF owner = Self(t) THEN "increment" ELSE "wait")
            /\ UNCHANGED owner
    /\ UNCHANGED <<vars, counter, mtxHandle, depth>>

Increment(t) ==
    /\ At(t, "increment")
    /\ counter' = counter + 1
    /\ depth' = [depth EXCEPT ![t] = @ + 1]
    /\ Goto(t, "out")
    /\ UNCHANGED <<vars, owner, mtxHandle>>

Wait(t) ==
    /\ At(t, "wait")
    /\ WaitForMutex(mtxHandle)
    /\ Goto(t, "retry")
    /\ UNCHANGED mtxVars

\* Mutant: a thread that is woken up takes the mutex.
RetryTakes(t) ==
    /\ At(t, "retry")
    /\ owner' = Self(t)
    /\ Goto(t, "increment")
    /\ UNCHANGED <<vars, counter, mtxHandle, depth>>

\* Woken up: only an unlocked mutex will do now.
Retry(t) ==
    /\ At(t, "retry")
    /\ IF owner = INVALID_HANDLE
       THEN owner' = Self(t) /\ Goto(t, "increment")
       ELSE UNCHANGED owner /\ Goto(t, "wait")
    /\ UNCHANGED <<vars, counter, mtxHandle, depth>>

\* app_unlockMutex: only the owner gets past the first test.
Unlock(t) ==
    /\ At(t, "out")
    /\ owner = Self(t)
    /\ counter' = counter - 1
    /\ depth' = [depth EXCEPT ![t] = @ - 1]
    /\ Goto(t, IF counter' # 0 THEN "out" ELSE "release")
    /\ UNCHANGED <<vars, owner, mtxHandle>>

Release(t) ==
    /\ At(t, "release")
    /\ owner' = INVALID_HANDLE
    /\ Goto(t, "notify")
    /\ UNCHANGED <<vars, counter, mtxHandle, depth>>

\* The system call mutexUnlocked, which may find nobody to wake.
Notify(t) ==
    /\ At(t, "notify")
    /\ IF Matches(tcb, mtxHandle) = {}
       THEN UNCHANGED vars
       ELSE MutexUnlocked(mtxHandle)
    /\ Goto(t, "out")
    /\ UNCHANGED mtxVars

-----------------------------------------------------------------------------
UserStep ==
    \E t \in Users :
        \/ Start(t) \/ MakeMutex(t) \/ StartThread(t) \/ OtherCall(t)
        \/ Lock(t) \/ Increment(t) \/ Wait(t) \/ Retry(t)
        \/ Unlock(t) \/ Release(t) \/ Notify(t)

\* The idle thread runs app_threadEntry too.
IdleStarts == currTcb = Idle /\ SetTlsPtr /\ UNCHANGED <<pc, mtxVars>>

KernelRuns == (Interrupt \/ KernelStep) /\ UNCHANGED <<pc, mtxVars>>

MutexNext == UserStep \/ IdleStarts \/ KernelRuns

MutexSpec == MutexInit /\ [][MutexNext]_allVars

-----------------------------------------------------------------------------
(***************************************************************************)
(* Properties                                                              *)
(***************************************************************************)

\* Between a lock that returned and the unlock that undoes it.
InCriticalSection(t) == depth[t] > 0

\* Whatever the kernel preempts, only one thread is in the critical section.
MutualExclusion ==
    \A s, t \in Users : InCriticalSection(s) /\ InCriticalSection(t) => s = t

\* The two words of the mutex tell the truth about its holder: "for each lock,
\* there must be an unlock", and the unlock that undoes the first lock, and no
\* other, makes the mutex free.
MutexWordsExact ==
    \A t \in Users :
        InCriticalSection(t) => owner = Self(t) /\ counter = depth[t]

\* Both at once: a lock that returned has the mutex, and has it alone.
MutexSound == MutualExclusion /\ MutexWordsExact

Waiting(t) == tcb[t].state = "BLOCKED" /\ tcb[t].wait = "WAIT"

\* "Wakes up to ONE thread that is waiting on the specified mutex"
\* (process.h:223): a thread that reports the mutex unlocked wakes one of those
\* that wait for it, if there is any.
NotifyReachesWaiter ==
    [][\A t \in Users :
         pc[t] = "notify" /\ pc'[t] = "out" /\ (\E s \in Users : Waiting(s))
           => \E s \in Users : Waiting(s) /\ tcb'[s].state = "READY"]_allVars

\* "The thread is blocked waiting for a mutex to be unlocked" (process.h:72):
\* while a thread waits for the mutex, the mutex is locked, or a thread is on
\* its way to report it unlocked or to take it.
WaitsForLockedMutex ==
    \A t \in Users : Waiting(t) =>
        \/ owner # INVALID_HANDLE
        \/ \E s \in Users : pc[s] = "notify" /\ tcb[s].state = "READY"
        \/ \E s \in Users : pc[s] = "retry" /\ tcb[s].state = "READY"

=============================================================================
