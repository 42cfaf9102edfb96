---------------------------- MODULE AppMutexProofs ----------------------------
(***************************************************************************)
(* Proofs about the SDK's mutex: for any number of threads of the process, *)
(* and with all that the kernel does meanwhile.                            *)
(***************************************************************************)
EXTENDS AppMutex, KernelProofs

-----------------------------------------------------------------------------
(***************************************************************************)
(* The invariants                                                          *)
(***************************************************************************)

\* Where a thread may be
Label == {"start", "make", "out", "increment", "wait", "retry", "release",
          "notify"}

\* The thread that mtx->owner names; a thread that has not started owns nothing.
Holds(t) == pc[t] # "start" /\ owner = Self(t)

\* Types, and that the threads of the process, once started, never end.
ThreadsRun ==
    /\ owner \in HANDLE
    /\ counter \in Nat
    /\ mtxHandle \in HANDLE
    /\ pc \in [Users -> Label]
    /\ depth \in [Users -> Nat]
    /\ kpc # "teardown"
    /\ \A t \in Users : pc[t] # "start" => tcb[t].state # "FREE"

\* A thread between its compare-and-exchange and the one that gives the mutex
\* up owns the mutex, and so does a thread whose lock has returned.
HolderOwns ==
    \A t \in Users :
        pc[t] \in {"increment", "release"} \/ depth[t] > 0 => Holds(t)

\* Where the owner is, and what the counter says there.
OwnerAt ==
    \A t \in Users : Holds(t) =>
        /\ counter = depth[t]
        /\ pc[t] \in {"out", "increment", "release"}
        /\ pc[t] = "out" => depth[t] > 0
        /\ pc[t] = "release" => depth[t] = 0

\* The mutex is owned by a thread or free.
OwnerExists ==
    /\ owner # INVALID_HANDLE => \E t \in Users : Holds(t)
    /\ owner = INVALID_HANDLE => counter = 0

\* The inductive invariant of the words of the mutex
MutexInv == ThreadsRun /\ HolderOwns /\ OwnerAt /\ OwnerExists

\* Blocked threads sleep or wait for the mutex, of the TCBs T and mutex h.
WaitsOK(T, h) ==
    \A s \in Thread : T[s].state = "BLOCKED" =>
        \/ T[s].wait = "SLEEP" /\ T[s].mtx[1] \notin Slot
        \/ T[s].wait = "WAIT" /\ T[s].mtx = h /\ s \in Users /\ h[1] \in Slot

\* The inductive invariant of the threads that wait, in a program for which a
\* blocked thread with the HANDLE of the mutex in its union waits for the mutex.
WaitInv ==
    /\ WaitsOK(tcb, mtxHandle)
    /\ pc[MainThread] \in {"start", "make"} => mtxHandle = INVALID_HANDLE
    /\ \A t \in Users : pc[t] = "make" => t = MainThread

-----------------------------------------------------------------------------
(***************************************************************************)
(* What the kernel does to the threads of the program                      *)
(***************************************************************************)

\* A step of the kernel that ends no thread and blocks none.
Kept(T, U) ==
    \A s \in Thread :
        /\ T[s].state # "FREE" => U[s].state # "FREE" /\ U[s].handle = T[s].handle
        /\ U[s].state = "BLOCKED" =>
              T[s].state = "BLOCKED" /\ U[s].wait = T[s].wait /\ U[s].mtx = T[s].mtx

\* A step of the kernel that ends no thread.
Survive(T, U) ==
    \A s \in Thread :
        T[s].state # "FREE" => U[s].state # "FREE" /\ U[s].handle = T[s].handle

\* A step that blocks no thread leaves the waiting ones what they were.
LEMMA KeptSurvive ==
    ASSUME NEW T, NEW U, Kept(T, U)
    PROVE  Survive(T, U) /\ (\A h : WaitsOK(T, h) => WaitsOK(U, h))
BY DEF Kept, Survive, WaitsOK

\* A thread that is woken up waits no longer; no other one begins to wait.
LEMMA WokenKeeps ==
    ASSUME NEW T \in [Thread -> TCB], NEW t \in Thread
    PROVE  Kept(T, Woken(T, t))
<1> DEFINE W == Woken(T, t)
<1>1. /\ W[t].state = "READY" /\ W[t].handle = T[t].handle
      /\ \A s \in Thread \ {t} : W[s] = T[s]
  BY WokenEffect
<1> HIDE DEF W
<1>2. Kept(T, W)
  BY <1>1 DEF Kept
<1> QED BY <1>2 DEF W

\* Nor does prc_postThreadMsg make a thread wait.
LEMMA PostedKeeps ==
    ASSUME NEW T \in [Thread -> TCB], NEW t \in Thread
    PROVE  Kept(T, Posted(T, t))
<1>1. CASE T[t].msgs < MaxMsgs
  <2> DEFINE U == [T EXCEPT ![t].msgs = @ + 1]
  <2>0. T[t].msgs + 1 \in 0 .. MaxMsgs
    BY <1>1, KernelAssumption DEF TCB
  <2>1. /\ U \in [Thread -> TCB]
        /\ U[t].state = T[t].state /\ U[t].wait = T[t].wait
        /\ U[t].mtx = T[t].mtx /\ U[t].handle = T[t].handle
        /\ \A s \in Thread \ {t} : U[s] = T[s]
    BY <2>0 DEF TCB
  <2>2. Posted(T, t) = IF WakesOnMsg(T, t) THEN Woken(U, t) ELSE U
    BY <1>1 DEF Posted
  <2> HIDE DEF U
  <2>3. Kept(T, U)
    BY <2>1 DEF Kept
  <2>4. Kept(U, Woken(U, t))
    BY <2>1, WokenKeeps
  <2>5. Kept(T, Woken(U, t))
    BY <2>3, <2>4 DEF Kept
  <2> QED BY <2>2, <2>3, <2>5
<1>2. CASE ~(T[t].msgs < MaxMsgs)
  BY <1>2 DEF Posted, Kept
<1> QED BY <1>1, <1>2

\* Interrupts and the kernel's loops, outside a tear-down.
LEMMA KernelKeeps ==
    ASSUME IInv, kpc # "teardown", Interrupt \/ KernelStep
    PROVE  Kept(tcb, tcb') /\ kpc' # "teardown"
<1>0. tcb \in [Thread -> TCB] /\ Kept(tcb, tcb)
  BY DEF IInv, ThreadInv, Kept
<1>1. ASSUME UNCHANGED tcb PROVE Kept(tcb, tcb')
  BY <1>0, <1>1
<1>2. ASSUME NEW i \in EventCell, WakeupThread(i) \/ ThreadTimer(i)
      PROVE  Kept(tcb, tcb') /\ kpc' # "teardown"
  <2>1. timedEvents[i].tcb \in Thread
    <3>1. timedEvents[i] \in TimedEvent
      BY <1>2 DEF WakeupThread, ThreadTimer, Due, Pending, IInv, ThreadInv, EventTable
    <3> QED BY <3>1 DEF TimedEvent
  <2>2. CASE WakeupThread(i)
    BY <1>0, <2>1, <2>2, WokenKeeps DEF WakeupThread
  <2>3. CASE ThreadTimer(i)
    BY <1>0, <2>1, <2>3, PostedKeeps DEF ThreadTimer
  <2> QED BY <1>2, <2>2, <2>3
<1>3. ASSUME PostKey PROVE Kept(tcb, tcb') /\ kpc' # "teardown"
  <2>1. CASE Apps[cursor] \in pcbs \cap WantsKeys
    <3>1. Main[Apps[cursor]] \in Thread
      BY <2>1, KernelAssumption DEF IInv, OwnerInv, ProcsOK
    <3> QED BY <1>0, <1>3, <2>1, <3>1, PostedKeeps DEF PostKey
  <2>2. CASE ~(Apps[cursor] \in pcbs \cap WantsKeys)
    BY <1>1, <1>3, <2>2 DEF PostKey
  <2> QED BY <2>1, <2>2
<1>4. ASSUME TimerIRQ \/ KeyboardIRQ \/ Schedule \/ KeysPosted
      PROVE  Kept(tcb, tcb') /\ kpc' # "teardown"
  BY <1>1, <1>4 DEF TimerIRQ, KeyboardIRQ, Schedule, KeysPosted, Resume
<1>5. ~DestroyHandle /\ ~ProcessDestroyed
  BY DEF DestroyHandle, ProcessDestroyed
<1> QED BY <1>2, <1>3, <1>4, <1>5 DEF Interrupt, KernelStep

\* The system calls that leave the caller running.
LEMMA CallKeeps ==
    ASSUME IInv,
           \/ SetTlsPtr \/ CreateMutex \/ GetMsg
           \/ \E s \in Thread : CreateThread(s)
           \/ \E h \in HANDLE : PostMsg(h) \/ MutexUnlocked(h)
    PROVE  Kept(tcb, tcb') /\ kpc' = "user"
<1>0. tcb \in [Thread -> TCB] /\ currTcb \in Thread /\ Kept(tcb, tcb)
  BY DEF IInv, ThreadInv, Kept
<1>1. ASSUME SetTlsPtr PROVE Kept(tcb, tcb') /\ kpc' = "user"
  BY <1>0, <1>1 DEF SetTlsPtr, Resume, Kept, TCB
<1>2. ASSUME CreateMutex PROVE Kept(tcb, tcb') /\ kpc' = "user"
  BY <1>0, <1>2 DEF CreateMutex, Resume
<1>3. ASSUME GetMsg PROVE Kept(tcb, tcb') /\ kpc' = "user"
  BY <1>0, <1>3 DEF GetMsg, Resume, Kept, TCB
<1>4. ASSUME NEW s \in Thread, CreateThread(s) PROVE Kept(tcb, tcb') /\ kpc' = "user"
  <2>1. PICK i \in Slot : tcb' = [tcb EXCEPT ![s] = NewTcb(CurrPcb, HandleOf(handles', i))]
    BY <1>4 DEF CreateThread
  <2>2. tcb'[s].state = "READY" /\ \A u \in Thread \ {s} : tcb'[u] = tcb[u]
    BY <1>0, <2>1 DEF NewTcb
  <2>3. tcb[s].state = "FREE" /\ kpc' = "user"
    BY <1>4 DEF CreateThread, Resume
  <2> QED BY <2>2, <2>3 DEF Kept
<1>5. ASSUME NEW h \in HANDLE, PostMsg(h) PROVE Kept(tcb, tcb') /\ kpc' = "user"
  <2>1. handles[h[1]].data \in Thread
    BY <1>5 DEF IInv, OwnerInv, HandlesOK, PostMsg, HasData, InUse
  <2> QED BY <1>0, <1>5, <2>1, PostedKeeps DEF PostMsg, Resume
<1>6. ASSUME NEW h \in HANDLE, MutexUnlocked(h) PROVE Kept(tcb, tcb') /\ kpc' = "user"
  <2>1. PICK i \in Matches(tcb, h) : tcb' = Woken(tcb, tcbList[i])
    BY <1>6 DEF MutexUnlocked
  <2>2. tcbList[i] \in Thread
    BY LenProperties DEF Matches, IInv, OwnerInv, ListOK
  <2> QED BY <1>0, <1>6, <2>1, <2>2, WokenKeeps DEF MutexUnlocked, Resume
<1> QED BY <1>1, <1>2, <1>3, <1>4, <1>5, <1>6

\* The system calls that block the caller.
LEMMA BlockingSurvives ==
    ASSUME IInv,
           \/ WaitForMsg
           \/ \E ms \in SleepMs, bits \in SleepBits : Sleep(ms, bits)
           \/ \E h \in HANDLE : WaitForMutex(h)
    PROVE  Survive(tcb, tcb') /\ kpc' = "user"
<1>0. tcb \in [Thread -> TCB] /\ currTcb \in Thread
  BY DEF IInv, ThreadInv
<1>1. CASE WaitForMsg
  BY <1>0, <1>1 DEF WaitForMsg, Resume, Survive, TCB
<1>2. ASSUME NEW ms \in SleepMs, NEW bits \in SleepBits, Sleep(ms, bits)
      PROVE  Survive(tcb, tcb') /\ kpc' = "user"
  BY <1>0, <1>2 DEF Sleep, Resume, Survive, TCB
<1>3. ASSUME NEW h \in HANDLE, WaitForMutex(h)
      PROVE  Survive(tcb, tcb') /\ kpc' = "user"
  <2>1. tcb' = [tcb EXCEPT ![currTcb] =
                  [@ EXCEPT !.state = "BLOCKED", !.wait = "WAIT", !.mtx = h]]
    BY <1>3 DEF WaitForMutex
  <2>2. tcb'[currTcb].state = "BLOCKED" /\ tcb'[currTcb].handle = tcb[currTcb].handle
    BY <1>0, <2>1 DEF TCB
  <2> QED BY <1>0, <1>3, <2>1, <2>2 DEF WaitForMutex, Resume, Survive
<1> QED BY <1>1, <1>2, <1>3

\* Two threads that exist have different HANDLEs, and no one has the invalid one.
LEMMA HandlesDiffer ==
    ASSUME IInv, NEW s \in Thread, tcb[s].state # "FREE"
    PROVE  /\ Self(s) # INVALID_HANDLE
           /\ \A t \in Thread : tcb[t].state # "FREE" /\ Self(t) = Self(s) => t = s
BY HandlesAssumption DEF IInv, OwnerInv, HandlesOK, Self, INVALID_HANDLE, Slot

\* The thread that runs exists.
LEMMA CurrentExists ==
    ASSUME IInv
    PROVE  currTcb \in Thread /\ tcb[currTcb].state # "FREE"
<1>1. currTcb \in Thread /\ (currTcb = Idle \/ tcb[currTcb].state = "READY")
  BY DEF IInv, ThreadInv, CurrentCanRun
<1>2. tcb[Idle].state # "FREE"
  BY KernelAssumption DEF IInv, OwnerInv, ProcsOK
<1> QED BY <1>1, <1>2

-----------------------------------------------------------------------------
(***************************************************************************)
(* The steps of the program                                                *)
(***************************************************************************)

\* A step that leaves the words of the mutex alone, by the kernel or by a thread
\* that is at none of the labels where it owns the mutex.
LEMMA MutexUndisturbed ==
    ASSUME IInv, MutexInv, Survive(tcb, tcb'), kpc' # "teardown",
           UNCHANGED <<owner, counter, depth>>, mtxHandle' \in HANDLE,
           \/ pc' = pc
           \/ \E t \in Users, l \in {"make", "out", "wait", "retry"} :
                 /\ pc' = [pc EXCEPT ![t] = l]
                 /\ ~Holds(t)
                 /\ tcb[t].state # "FREE"
    PROVE  MutexInv'
<1> USE DEF MutexInv
<1>0. Users \subseteq Thread
  BY AppMutexAssumption
<1>1. CASE pc' = pc
  <2>1. \A t \in Users : pc[t] # "start" => Self(t)' = Self(t)
    BY <1>0 DEF ThreadsRun, Survive, Self
  <2>2. \A t \in Users : Holds(t)' <=> Holds(t)
    BY <1>1, <2>1 DEF Holds
  <2>3. ThreadsRun'
    BY <1>0, <1>1 DEF ThreadsRun, Survive
  <2>4. HolderOwns' /\ OwnerAt' /\ OwnerExists'
    BY <1>1, <2>2 DEF HolderOwns, OwnerAt, OwnerExists
  <2> QED BY <2>3, <2>4
<1>2. ASSUME NEW t \in Users, NEW l \in {"make", "out", "wait", "retry"},
             pc' = [pc EXCEPT ![t] = l],
             ~Holds(t),
             tcb[t].state # "FREE"
      PROVE  MutexInv'
  <2>1. pc' \in [Users -> Label] /\ pc'[t] = l /\ \A s \in Users \ {t} : pc'[s] = pc[s]
    BY <1>2 DEF ThreadsRun, Label
  <2>2. \A s \in Users : s = t \/ pc[s] # "start" => Self(s)' = Self(s)
    BY <1>0, <1>2 DEF ThreadsRun, Survive, Self
  <2>3. ~Holds(t)
    BY <1>2
  <2>4. owner # Self(t)
    <3>1. CASE owner = INVALID_HANDLE
      BY <1>0, <1>2, <3>1, HandlesDiffer
    <3>2. CASE owner # INVALID_HANDLE
      <4>1. PICK s \in Users : Holds(s)
        BY <3>2 DEF OwnerExists
      <4>2. s # t /\ tcb[s].state # "FREE" /\ owner = Self(s)
        BY <2>3, <4>1 DEF Holds, ThreadsRun
      <4> QED BY <1>0, <1>2, <4>2, HandlesDiffer
    <3> QED BY <3>1, <3>2
  <2>5. ~Holds(t)' /\ depth[t] = 0
    <3>1. ~(depth[t] > 0) /\ depth[t] \in Nat
      BY <2>3 DEF HolderOwns, ThreadsRun
    <3> QED BY <2>2, <2>4, <3>1 DEF Holds
  <2>6. \A s \in Users : Holds(s)' <=> Holds(s)
    BY <2>1, <2>2, <2>3, <2>5 DEF Holds
  <2>7. ThreadsRun'
    BY <1>0, <1>2, <2>1 DEF ThreadsRun, Survive
  <2>8. HolderOwns'
    BY <1>2, <2>1, <2>5, <2>6 DEF HolderOwns
  <2>9. OwnerAt'
    BY <2>1, <2>5, <2>6 DEF OwnerAt
  <2>10. OwnerExists'
    BY <2>6 DEF OwnerExists
  <2> QED BY <2>7, <2>8, <2>9, <2>10
<1> QED BY <1>1, <1>2

\* Only one thread can be the owner.
LEMMA OneHolder ==
    ASSUME IInv, MutexInv, NEW s \in Users, NEW t \in Users, Holds(s), Holds(t)
    PROVE  s = t
<1>1. s \in Thread /\ t \in Thread /\ tcb[s].state # "FREE" /\ tcb[t].state # "FREE"
  BY AppMutexAssumption DEF MutexInv, ThreadsRun, Holds
<1> QED BY <1>1, HandlesDiffer DEF Holds

\* Lock and Retry: the compare-and-exchange finds the mutex free.
LEMMA MutexTaken ==
    ASSUME IInv, MutexInv, NEW t \in Users,
           pc[t] \in {"out", "retry"}, owner = INVALID_HANDLE,
           owner' = Self(t), pc' = [pc EXCEPT ![t] = "increment"],
           UNCHANGED <<vars, counter, mtxHandle, depth>>
    PROVE  MutexInv'
<1> USE DEF MutexInv
<1>0. Users \subseteq Thread /\ tcb' = tcb /\ kpc' = kpc
  BY AppMutexAssumption DEF vars
<1>1. /\ pc' \in [Users -> Label] /\ pc'[t] = "increment"
      /\ \A s \in Users \ {t} : pc'[s] = pc[s]
  BY DEF ThreadsRun, Label
<1>2. tcb[t].state # "FREE" /\ Self(t) # INVALID_HANDLE /\ Self(t) \in HANDLE
  <2>1. tcb[t].state # "FREE" /\ tcb[t] \in TCB
    BY <1>0 DEF ThreadsRun, IInv, ThreadInv
  <2> QED BY <1>0, <2>1, HandlesDiffer DEF Self, TCB
<1>3. \A s \in Users : ~Holds(s)
  BY <1>0, HandlesDiffer DEF Holds, ThreadsRun
<1>4. \A s \in Users : depth[s] = 0 /\ pc[s] \notin {"increment", "release"}
  BY <1>3 DEF HolderOwns, ThreadsRun
<1>5. ThreadsRun'
  BY <1>0, <1>1, <1>2 DEF ThreadsRun
<1>6. Holds(t)'
  BY <1>0, <1>1 DEF Holds, Self
<1>7. HolderOwns'
  BY <1>1, <1>4, <1>6 DEF HolderOwns
<1>8. ASSUME NEW s \in Users \ {t} PROVE ~Holds(s)'
  BY <1>0, <1>1, <1>2, HandlesDiffer DEF Holds, Self, ThreadsRun
<1>9. OwnerAt'
  BY <1>1, <1>4, <1>6, <1>8 DEF OwnerAt, OwnerExists
<1>10. OwnerExists'
  BY <1>0, <1>2, <1>6 DEF OwnerExists, Self
<1> QED BY <1>5, <1>7, <1>9, <1>10

\* A step of the owner between its labels.
LEMMA OwnerMoves ==
    ASSUME IInv, MutexInv, NEW t \in Users, Holds(t),
           NEW l \in {"out", "increment", "release"},
           pc' = [pc EXCEPT ![t] = l],
           counter' \in Nat, depth' = [depth EXCEPT ![t] = counter'],
           l = "out" => counter' > 0,
           l = "release" => counter' = 0,
           UNCHANGED <<vars, owner, mtxHandle>>
    PROVE  MutexInv'
<1> USE DEF MutexInv
<1>0. Users \subseteq Thread /\ tcb' = tcb /\ kpc' = kpc
  BY AppMutexAssumption DEF vars
<1>1. /\ pc' \in [Users -> Label] /\ pc'[t] = l
      /\ \A s \in Users \ {t} : pc'[s] = pc[s]
  BY DEF ThreadsRun, Label
<1>2. /\ depth' \in [Users -> Nat] /\ depth'[t] = counter'
      /\ \A s \in Users \ {t} : depth'[s] = depth[s]
  BY DEF ThreadsRun
<1>3. \A s \in Users \ {t} : ~Holds(s)
  BY OneHolder
<1>4. Holds(t)' /\ \A s \in Users \ {t} : ~Holds(s)'
  BY <1>0, <1>1, <1>3 DEF Holds, Self
<1>5. ThreadsRun'
  BY <1>0, <1>1, <1>2 DEF ThreadsRun, Holds
<1>6. HolderOwns'
  BY <1>1, <1>2, <1>3, <1>4 DEF HolderOwns
<1>7. OwnerAt'
  BY <1>1, <1>2, <1>4 DEF OwnerAt
<1>8. owner' # INVALID_HANDLE
  BY <1>0, HandlesDiffer DEF Holds, ThreadsRun
<1>9. OwnerExists'
  BY <1>4, <1>8 DEF OwnerExists
<1> QED BY <1>5, <1>6, <1>7, <1>9

\* Release: the mutex is free, and its counter is back at 0.
LEMMA MutexReleased ==
    ASSUME IInv, MutexInv, NEW t \in Users, Release(t)
    PROVE  MutexInv'
<1> USE DEF MutexInv
<1>0. /\ Users \subseteq Thread /\ tcb' = tcb /\ kpc' = kpc
      /\ owner' = INVALID_HANDLE /\ pc' = [pc EXCEPT ![t] = "notify"]
      /\ pc[t] = "release"
      /\ UNCHANGED <<counter, mtxHandle, depth>>
  BY AppMutexAssumption DEF Release, At, Goto, vars
<1>1. /\ pc' \in [Users -> Label] /\ pc'[t] = "notify"
      /\ \A s \in Users \ {t} : pc'[s] = pc[s]
  BY <1>0 DEF ThreadsRun, Label
<1>2. Holds(t) /\ counter = 0 /\ depth[t] = 0
  BY <1>0 DEF HolderOwns, OwnerAt
<1>3. \A s \in Users \ {t} : ~Holds(s)
  BY <1>2, OneHolder
<1>4. \A s \in Users : ~(depth'[s] > 0) /\ pc'[s] \notin {"increment", "release"}
  BY <1>0, <1>1, <1>2, <1>3 DEF HolderOwns
<1>5. \A s \in Users : ~Holds(s)'
  BY <1>0, <1>1, <1>2, HandlesDiffer DEF Holds, ThreadsRun, Self
<1>6. ThreadsRun'
  BY <1>0, <1>1, <1>2, InvalidHandleType DEF ThreadsRun, Holds
<1>7. HolderOwns' /\ OwnerAt' /\ OwnerExists'
  BY <1>0, <1>2, <1>4, <1>5 DEF HolderOwns, OwnerAt, OwnerExists
<1> QED BY <1>6, <1>7

\* What the kernel does for the program are steps of the kernel.
LEMMA MutexStepIsKernelStep ==
    ASSUME IInv, MutexInv, [MutexNext]_allVars
    PROVE  [Next]_vars
<1>0. Users \subseteq Thread /\ mtxHandle \in HANDLE /\ \A t \in Users : Self(t) \in HANDLE
  BY AppMutexAssumption DEF MutexInv, ThreadsRun, IInv, ThreadInv, TCB, Self
<1>1. CASE UNCHANGED allVars
  BY <1>1 DEF allVars
<1>2. ASSUME NEW t \in Users, Start(t) \/ MakeMutex(t) \/ StartThread(t)
      PROVE  Next
  BY <1>0, <1>2 DEF Start, MakeMutex, StartThread, Next, Syscall, OtherSyscall
<1>3. ASSUME NEW t \in Users, OtherCall(t)
      PROVE  Next
  BY <1>0, <1>3 DEF OtherCall, Next, Syscall, OtherSyscall
<1>4. ASSUME NEW t \in Users, Wait(t)
      PROVE  Next
  BY <1>0, <1>4 DEF Wait, Next, Syscall, OtherSyscall
<1>5. ASSUME NEW t \in Users, Notify(t)
      PROVE  [Next]_vars
  BY <1>0, <1>5 DEF Notify, Next, Syscall, OtherSyscall
<1>6. ASSUME NEW t \in Users,
             Lock(t) \/ Increment(t) \/ Retry(t) \/ Unlock(t) \/ Release(t)
      PROVE  UNCHANGED vars
  BY <1>6 DEF Lock, Increment, Retry, Unlock, Release
<1>7. ASSUME IdleStarts PROVE Next
  BY <1>7 DEF IdleStarts, Next, Syscall, OtherSyscall
<1>8. ASSUME KernelRuns PROVE Next
  BY <1>8 DEF KernelRuns, Next
<1> QED BY <1>1, <1>2, <1>3, <1>4, <1>5, <1>6, <1>7, <1>8 DEF MutexNext, UserStep

\* No thread of the program has started.
LEMMA MutexInit_MutexInv == MutexInit => IInv /\ MutexInv
<1> SUFFICES ASSUME MutexInit PROVE IInv /\ MutexInv
  OBVIOUS
<1>1. IInv
  BY InitIInv DEF MutexInit
<1>2. kpc = "user" /\ owner = INVALID_HANDLE /\ counter = 0
      /\ mtxHandle = INVALID_HANDLE /\ pc = [t \in Users |-> "start"]
      /\ depth = [t \in Users |-> 0]
  BY DEF MutexInit, Init
<1>3. MutexInv
  BY <1>2, InvalidHandleType DEF MutexInv, ThreadsRun, HolderOwns, OwnerAt, OwnerExists, Holds, Label
<1> QED BY <1>1, <1>3

\* Every step of a thread of the program, and of the kernel, keeps the invariant
\* of the words.
LEMMA MutexNext_MutexInv ==
    ASSUME IInv, MutexInv, [MutexNext]_allVars
    PROVE  MutexInv'
<1>0. Users \subseteq Thread /\ mtxHandle \in HANDLE /\ \A t \in Users : Self(t) \in HANDLE
  BY AppMutexAssumption DEF MutexInv, ThreadsRun, IInv, ThreadInv, TCB, Self
<1>1. ASSUME UNCHANGED vars PROVE Survive(tcb, tcb') /\ kpc' # "teardown"
  BY <1>1 DEF vars, Survive, MutexInv, ThreadsRun
<1>2. CASE UNCHANGED allVars
  BY <1>0, <1>1, <1>2, MutexUndisturbed DEF allVars
<1>3. ASSUME NEW t \in Users, Start(t) PROVE MutexInv'
  <2>1. tcb[t].state # "FREE" /\ ~Holds(t)
    BY <1>3, CurrentExists DEF Start, At, Holds
  <2>2. Survive(tcb, tcb') /\ kpc' # "teardown"
    BY <1>3, CallKeeps, KeptSurvive DEF Start
  <2> QED BY <1>0, <1>3, <2>1, <2>2, MutexUndisturbed DEF Start, Goto, mtxVars
<1>4. ASSUME NEW t \in Users, MakeMutex(t) PROVE MutexInv'
  <2>1. tcb[t].state # "FREE" /\ ~Holds(t)
    BY <1>4, CurrentExists DEF MakeMutex, At, MutexInv, OwnerAt
  <2>2. Survive(tcb, tcb') /\ kpc' # "teardown"
    BY <1>4, CallKeeps, KeptSurvive DEF MakeMutex
  <2>3. mtxHandle' \in HANDLE
    <3>1. IInv'
      BY <1>4, CreateMutexStep DEF MakeMutex
    <3>2. handles' \in HandleTable
      BY <3>1 DEF IInv, OwnerInv, HandlesOK
    <3>3. PICK i \in Slot : mtxHandle' = HandleOf(handles', i)
      BY <1>4 DEF MakeMutex
    <3> QED BY <3>2, <3>3, HandleOfType
  <2> QED BY <1>4, <2>1, <2>2, <2>3, MutexUndisturbed DEF MakeMutex, Goto
<1>5. ASSUME NEW t \in Users, StartThread(t) PROVE MutexInv'
  <2>1. Survive(tcb, tcb') /\ kpc' # "teardown"
    BY <1>0, <1>5, CallKeeps, KeptSurvive DEF StartThread
  <2> QED BY <1>0, <1>5, <2>1, MutexUndisturbed DEF StartThread, mtxVars
<1>6. ASSUME NEW t \in Users, OtherCall(t) PROVE MutexInv'
  <2>1. Survive(tcb, tcb') /\ kpc' # "teardown"
    BY <1>0, <1>6, CallKeeps, KeptSurvive, BlockingSurvives DEF OtherCall
  <2> QED BY <1>0, <1>6, <2>1, MutexUndisturbed DEF OtherCall, mtxVars
<1>7. ASSUME NEW t \in Users, Lock(t) PROVE MutexInv'
  <2>0. pc[t] = "out" /\ tcb[t].state # "FREE"
    BY <1>7, CurrentExists DEF Lock, At
  <2>1. CASE owner = INVALID_HANDLE
    BY <1>7, <2>0, <2>1, MutexTaken DEF Lock, Goto
  <2>2. CASE owner # INVALID_HANDLE /\ owner = Self(t)
    <3>1. Holds(t)
      BY <2>0, <2>2 DEF Holds
    <3>2. counter \in Nat /\ depth = [depth EXCEPT ![t] = counter]
      BY <3>1 DEF MutexInv, ThreadsRun, OwnerAt
    <3> QED BY <1>7, <2>2, <3>1, <3>2, OwnerMoves DEF Lock, Goto
  <2>3. CASE owner # INVALID_HANDLE /\ owner # Self(t)
    BY <1>0, <1>1, <1>7, <2>0, <2>3, MutexUndisturbed DEF Lock, Goto, Holds
  <2> QED BY <2>1, <2>2, <2>3
<1>8. ASSUME NEW t \in Users, Increment(t) PROVE MutexInv'
  <2>1. Holds(t)
    BY <1>8 DEF Increment, At, MutexInv, HolderOwns
  <2>2. counter \in Nat /\ counter = depth[t]
    BY <2>1 DEF MutexInv, ThreadsRun, OwnerAt
  <2>3. counter' = counter + 1 /\ depth' = [depth EXCEPT ![t] = depth[t] + 1]
    BY <1>8 DEF Increment
  <2>4. counter' \in Nat /\ counter' > 0 /\ depth' = [depth EXCEPT ![t] = counter']
    BY <2>2, <2>3
  <2> QED BY <1>8, <2>1, <2>4, OwnerMoves DEF Increment, Goto
<1>9. ASSUME NEW t \in Users, Wait(t) PROVE MutexInv'
  <2>1. tcb[t].state # "FREE" /\ ~Holds(t)
    BY <1>9, CurrentExists DEF Wait, At, MutexInv, OwnerAt
  <2>2. Survive(tcb, tcb') /\ kpc' # "teardown"
    BY <1>0, <1>9, BlockingSurvives DEF Wait
  <2> QED BY <1>0, <1>9, <2>1, <2>2, MutexUndisturbed DEF Wait, Goto, mtxVars
<1>10. ASSUME NEW t \in Users, Retry(t) PROVE MutexInv'
  <2>1. tcb[t].state # "FREE" /\ ~Holds(t) /\ pc[t] = "retry"
    BY <1>10, CurrentExists DEF Retry, At, MutexInv, OwnerAt
  <2>2. CASE owner = INVALID_HANDLE
    BY <1>10, <2>1, <2>2, MutexTaken DEF Retry, Goto
  <2>3. CASE owner # INVALID_HANDLE
    BY <1>0, <1>1, <1>10, <2>1, <2>3, MutexUndisturbed DEF Retry, Goto
  <2> QED BY <2>2, <2>3
<1>11. ASSUME NEW t \in Users, Unlock(t) PROVE MutexInv'
  <2>1. Holds(t) /\ pc[t] = "out"
    BY <1>11 DEF Unlock, At, Holds
  <2>2. counter \in Nat /\ counter = depth[t] /\ depth[t] > 0
    BY <2>1 DEF MutexInv, ThreadsRun, OwnerAt
  <2>3. counter' = counter - 1 /\ depth' = [depth EXCEPT ![t] = depth[t] - 1]
    BY <1>11 DEF Unlock
  <2>4. counter' \in Nat /\ depth' = [depth EXCEPT ![t] = counter']
    BY <2>2, <2>3
  <2>5. UNCHANGED <<vars, owner, mtxHandle>>
    BY <1>11 DEF Unlock
  <2>6. CASE counter' # 0
    <3>1. pc' = [pc EXCEPT ![t] = "out"]
      BY <1>11, <2>6 DEF Unlock, Goto
    <3>2. counter' > 0
      BY <2>4, <2>6
    <3> QED BY <2>1, <2>4, <2>5, <3>1, <3>2, OwnerMoves
  <2>7. CASE counter' = 0
    <3>1. pc' = [pc EXCEPT ![t] = "release"]
      BY <1>11, <2>7 DEF Unlock, Goto
    <3> QED BY <2>1, <2>4, <2>5, <2>7, <3>1, OwnerMoves
  <2> QED BY <2>4, <2>6, <2>7
<1>12. ASSUME NEW t \in Users, Notify(t) PROVE MutexInv'
  <2>1. tcb[t].state # "FREE" /\ ~Holds(t)
    BY <1>12, CurrentExists DEF Notify, At, MutexInv, OwnerAt
  <2>2. Survive(tcb, tcb') /\ kpc' # "teardown"
    BY <1>0, <1>1, <1>12, CallKeeps, KeptSurvive DEF Notify
  <2> QED BY <1>0, <1>12, <2>1, <2>2, MutexUndisturbed DEF Notify, Goto, mtxVars
<1>13. ASSUME IdleStarts PROVE MutexInv'
  <2>1. Survive(tcb, tcb') /\ kpc' # "teardown"
    BY <1>13, CallKeeps, KeptSurvive DEF IdleStarts
  <2> QED BY <1>0, <1>13, <2>1, MutexUndisturbed DEF IdleStarts, mtxVars
<1>14. ASSUME KernelRuns PROVE MutexInv'
  <2>1. Survive(tcb, tcb') /\ kpc' # "teardown"
    BY <1>14, KernelKeeps, KeptSurvive DEF KernelRuns, MutexInv, ThreadsRun
  <2> QED BY <1>0, <1>14, <2>1, MutexUndisturbed DEF KernelRuns, mtxVars
<1> QED BY <1>2, <1>3, <1>4, <1>5, <1>6, <1>7, <1>8, <1>9, <1>10, <1>11, <1>12,
           <1>13, <1>14, MutexReleased DEF MutexNext, UserStep

\* The invariants of the kernel and of the mutex hold in every reachable state.
THEOREM MutexInvariant == MutexSpec => [](IInv /\ MutexInv)
<1>1. IInv /\ MutexInv /\ [MutexNext]_allVars => IInv' /\ MutexInv'
  BY MutexStepIsKernelStep, NextIInv, MutexNext_MutexInv
<1> QED BY <1>1, MutexInit_MutexInv, PTL DEF MutexSpec

\* At most one thread of any number has the mutex, and the words say which one
\* and how often, in any order in which the kernel runs the threads.
THEOREM MutexIsSound == MutexSpec => []MutexSound
<1>1. ASSUME IInv, MutexInv PROVE MutexSound
  <2>1. \A t \in Users : depth[t] > 0 => Holds(t) /\ counter = depth[t]
    BY <1>1 DEF MutexInv, HolderOwns, OwnerAt
  <2>2. MutexWordsExact
    BY <2>1 DEF MutexWordsExact, InCriticalSection, Holds
  <2>3. MutualExclusion
    BY <1>1, <2>1, OneHolder DEF MutualExclusion, InCriticalSection
  <2> QED BY <2>2, <2>3 DEF MutexSound
<1> QED BY <1>1, MutexInvariant, PTL

-----------------------------------------------------------------------------
(***************************************************************************)
(* The wake-up. prc_wakeOneWaitingThread compares a word of a union, so    *)
(* that it finds a waiting thread only where that word means nothing else: *)
(* in a program without messages, whose sleeps end at times that look like *)
(* no HANDLE.                                                              *)
(***************************************************************************)

\* Every step keeps the invariant of the threads that wait.
LEMMA MutexNext_WaitInv ==
    ASSUME UsesMsgs = FALSE, \A b \in SleepBits : b[1] \notin Slot,
           IInv, MutexInv, WaitInv, [MutexNext]_allVars
    PROVE  WaitInv'
<1>0. Users \subseteq Thread /\ mtxHandle \in HANDLE /\ MainThread \in Users
  BY AppMutexAssumption DEF MutexInv, ThreadsRun, MainThread
<1> DEFINE Rest == /\ pc[MainThread] \in {"start", "make"} => mtxHandle = INVALID_HANDLE
                   /\ \A t \in Users : pc[t] = "make" => t = MainThread
<1>1. ASSUME Kept(tcb, tcb'), mtxHandle' = mtxHandle, Rest' PROVE WaitInv'
  <2>1. WaitsOK(tcb', mtxHandle)
    BY <1>1, KeptSurvive DEF WaitInv
  <2> QED BY <1>1, <2>1 DEF WaitInv
<1>2. Kept(tcb, tcb)
  BY DEF Kept
<1>3. ASSUME UNCHANGED <<mtxHandle, pc>> PROVE Rest'
  BY <1>3 DEF WaitInv, MainThread
<1>4. ASSUME NEW t \in Users, NEW l, pc' = [pc EXCEPT ![t] = l],
             l \notin {"start", "make"}, UNCHANGED mtxHandle
      PROVE  Rest'
  <2>1. pc' = [pc EXCEPT ![t] = l] /\ pc \in [Users -> Label]
    BY <1>4 DEF MutexInv, ThreadsRun
  <2> QED BY <1>0, <1>4, <2>1 DEF WaitInv, MainThread
<1>5. CASE UNCHANGED allVars
  BY <1>1, <1>2, <1>3, <1>5 DEF allVars, vars
<1>6. ASSUME NEW t \in Users, Start(t) PROVE WaitInv'
  <2>1. Kept(tcb, tcb')
    BY <1>6, CallKeeps DEF Start
  <2>2. Rest'
    <3>1. /\ pc[t] = "start" /\ UNCHANGED mtxHandle /\ pc \in [Users -> Label]
          /\ pc' = [pc EXCEPT ![t] = IF t = MainThread THEN "make" ELSE "out"]
      BY <1>6 DEF Start, At, Goto, mtxVars, MutexInv, ThreadsRun
    <3> QED BY <1>0, <3>1 DEF WaitInv, MainThread
  <2> QED BY <1>1, <1>6, <2>1, <2>2 DEF Start, mtxVars
<1>7. ASSUME NEW t \in Users, MakeMutex(t) PROVE WaitInv'
  <2>1. Kept(tcb, tcb')
    BY <1>7, CallKeeps DEF MakeMutex
  <2>2. t = MainThread /\ mtxHandle = INVALID_HANDLE
    BY <1>7 DEF MakeMutex, At, WaitInv
  <2>3. WaitsOK(tcb', mtxHandle')
    <3>1. WaitsOK(tcb', INVALID_HANDLE)
      BY <2>1, <2>2, KeptSurvive DEF WaitInv
    <3>2. INVALID_HANDLE[1] \notin Slot
      BY HandlesAssumption DEF INVALID_HANDLE, Slot
    <3> QED BY <3>1, <3>2 DEF WaitsOK
  <2>4. pc \in [Users -> Label] /\ pc' = [pc EXCEPT ![t] = "out"]
    BY <1>7 DEF MakeMutex, Goto, MutexInv, ThreadsRun
  <2>5. Rest'
    BY <1>0, <2>2, <2>4 DEF WaitInv, MainThread
  <2> QED BY <2>3, <2>5 DEF WaitInv
<1>8. ASSUME NEW t \in Users, StartThread(t) PROVE WaitInv'
  <2>1. Kept(tcb, tcb')
    BY <1>0, <1>8, CallKeeps DEF StartThread
  <2> QED BY <1>1, <1>3, <1>8, <2>1 DEF StartThread, mtxVars
<1>9. ASSUME NEW t \in Users, OtherCall(t) PROVE WaitInv'
  <2>1. PICK ms \in SleepMs, bits \in SleepBits : Sleep(ms, bits)
    BY <1>9 DEF OtherCall
  <2>2. /\ tcb'[currTcb].state = "BLOCKED" /\ tcb'[currTcb].wait = "SLEEP"
        /\ tcb'[currTcb].mtx = bits
        /\ \A s \in Thread \ {currTcb} : tcb'[s] = tcb[s]
    BY <2>1 DEF Sleep, IInv, ThreadInv, TCB
  <2>3. WaitsOK(tcb', mtxHandle)
    BY <2>2 DEF WaitInv, WaitsOK
  <2>4. Rest'
    BY <1>3, <1>9 DEF OtherCall, mtxVars
  <2> QED BY <1>9, <2>3, <2>4 DEF WaitInv, OtherCall, mtxVars
<1>10. ASSUME NEW t \in Users, Wait(t) PROVE WaitInv'
  <2>1. /\ tcb'[t].state = "BLOCKED" /\ tcb'[t].wait = "WAIT"
        /\ tcb'[t].mtx = mtxHandle
        /\ \A s \in Thread \ {t} : tcb'[s] = tcb[s]
        /\ mtxHandle[1] \in Slot
    BY <1>0, <1>10 DEF Wait, At, WaitForMutex, HasData, InUse, IInv, ThreadInv, TCB
  <2>2. WaitsOK(tcb', mtxHandle)
    BY <2>1 DEF WaitInv, WaitsOK
  <2>3. Rest'
    <3>1. pc' = [pc EXCEPT ![t] = "retry"] /\ UNCHANGED mtxHandle
      BY <1>10 DEF Wait, Goto, mtxVars
    <3>2. "retry" \notin {"start", "make"}
      OBVIOUS
    <3> QED BY <1>4, <3>1, <3>2
  <2> QED BY <1>10, <2>2, <2>3 DEF WaitInv, Wait, mtxVars
<1>11. ASSUME NEW t \in Users, Lock(t) \/ Retry(t) \/ Unlock(t) \/ Increment(t) \/ Release(t)
       PROVE  WaitInv'
  <2>1. tcb' = tcb /\ mtxHandle' = mtxHandle
    BY <1>11 DEF Lock, Retry, Unlock, Increment, Release, vars
  <2>2. \E l \in {"out", "increment", "wait", "release", "notify"} :
            pc' = [pc EXCEPT ![t] = l]
    BY <1>11 DEF Lock, Retry, Unlock, Increment, Release, Goto
  <2>3. Rest'
    BY <1>4, <2>1, <2>2
  <2> QED BY <1>1, <1>2, <2>1, <2>3
<1>12. ASSUME NEW t \in Users, Notify(t) PROVE WaitInv'
  <2>1. Kept(tcb, tcb')
    BY <1>0, <1>2, <1>12, CallKeeps DEF Notify, vars
  <2>2. Rest'
    <3>1. pc' = [pc EXCEPT ![t] = "out"] /\ UNCHANGED mtxHandle
      BY <1>12 DEF Notify, Goto, mtxVars
    <3>2. "out" \notin {"start", "make"}
      OBVIOUS
    <3> QED BY <1>4, <3>1, <3>2
  <2> QED BY <1>1, <1>12, <2>1, <2>2 DEF Notify, mtxVars
<1>13. ASSUME IdleStarts \/ KernelRuns PROVE WaitInv'
  <2>1. Kept(tcb, tcb')
    BY <1>13, CallKeeps, KernelKeeps DEF IdleStarts, KernelRuns, MutexInv, ThreadsRun
  <2>2. UNCHANGED <<mtxHandle, pc>>
    BY <1>13 DEF IdleStarts, KernelRuns, mtxVars
  <2> QED BY <1>1, <1>3, <2>1, <2>2
<1> QED BY <1>5, <1>6, <1>7, <1>8, <1>9, <1>10, <1>11, <1>12, <1>13
        DEF MutexNext, UserStep

\* prc_wakeOneWaitingThread, where what it compares means a HANDLE.
LEMMA NotifyWakes ==
    ASSUME IInv, MutexInv, WaitInv, [MutexNext]_allVars,
           NEW t \in Users, pc[t] = "notify", pc'[t] = "out",
           NEW s \in Users, Waiting(s)
    PROVE  \E u \in Users : Waiting(u) /\ tcb'[u].state = "READY"
<1>0. Users \subseteq Thread /\ tcb \in [Thread -> TCB] /\ pc \in [Users -> Label]
  BY AppMutexAssumption DEF IInv, ThreadInv, MutexInv, ThreadsRun
<1>1. Notify(t)
  <2>1. pc' # pc
    OBVIOUS
  <2>2. \A u \in Users : ~Start(u) /\ ~MakeMutex(u) /\ ~Lock(u) /\ ~Increment(u)
           /\ ~Wait(u) /\ ~Retry(u) /\ ~Unlock(u) /\ ~Release(u)
    BY <1>0 DEF Start, MakeMutex, Lock, Increment, Wait, Retry, Unlock, Release, At, Goto
  <2>3. \A u \in Users : ~StartThread(u) /\ ~OtherCall(u)
    BY <2>1 DEF StartThread, OtherCall
  <2>4. ~IdleStarts /\ ~KernelRuns /\ ~UNCHANGED allVars
    BY <2>1 DEF IdleStarts, KernelRuns, allVars
  <2>5. PICK u \in Users : Notify(u)
    BY <2>2, <2>3, <2>4 DEF MutexNext, UserStep
  <2>6. u = t
    BY <1>0, <2>5 DEF Notify, Goto
  <2> QED BY <2>5, <2>6
<1>2. tcb[s].state = "BLOCKED" /\ tcb[s].mtx = mtxHandle /\ mtxHandle[1] \in Slot
  BY <1>0 DEF Waiting, WaitInv, WaitsOK
<1>3. PICK j \in 1 .. Len(tcbList) : tcbList[j] = s
  BY <1>0, <1>2 DEF IInv, OwnerInv, ListOK, InQueue
<1>4. Matches(tcb, mtxHandle) # {}
  BY <1>2, <1>3 DEF Matches
<1>5. PICK i \in Matches(tcb, mtxHandle) : tcb' = Woken(tcb, tcbList[i])
  BY <1>1, <1>4 DEF Notify, MutexUnlocked
<1>6. /\ tcbList[i] \in Thread
      /\ tcb[tcbList[i]].state = "BLOCKED" /\ tcb[tcbList[i]].mtx = mtxHandle
  BY LenProperties DEF Matches, IInv, OwnerInv, ListOK
<1>7. tcbList[i] \in Users /\ Waiting(tcbList[i])
  BY <1>2, <1>6 DEF WaitInv, WaitsOK, Waiting
<1>8. tcb'[tcbList[i]].state = "READY"
  BY <1>0, <1>5, <1>6, WokenEffect
<1> QED BY <1>7, <1>8

\* When app_unlockMutex has told the kernel, a thread that waits is ready, if
\* there was one. The two hypotheses are what the kernel takes for granted: that
\* the word it compares of a blocked thread is a HANDLE. Run mutex_stale_match
\* shows what comes of it without them.
THEOREM NotifyFindsWaiter ==
    ASSUME UsesMsgs = FALSE, \A b \in SleepBits : b[1] \notin Slot
    PROVE  MutexSpec => NotifyReachesWaiter
<1>1. MutexInit => WaitInv
  <2> SUFFICES ASSUME MutexInit PROVE WaitInv
    OBVIOUS
  <2>1. \A s \in Thread : tcb[s].state # "BLOCKED"
    BY DEF MutexInit, Init, NewTcb, FreeTcb
  <2> QED BY <2>1 DEF MutexInit, WaitInv, WaitsOK
<1>2. IInv /\ MutexInv /\ WaitInv /\ [MutexNext]_allVars => WaitInv'
  BY MutexNext_WaitInv
<1>3. IInv /\ MutexInv /\ WaitInv /\ [MutexNext]_allVars =>
        [\A t \in Users :
           pc[t] = "notify" /\ pc'[t] = "out" /\ (\E s \in Users : Waiting(s))
             => \E s \in Users : Waiting(s) /\ tcb'[s].state = "READY"]_allVars
  BY NotifyWakes
<1> QED BY <1>1, <1>2, <1>3, MutexInvariant, PTL DEF MutexSpec, NotifyReachesWaiter

===============================================================================
