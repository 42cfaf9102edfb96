--------------------------- MODULE SleepTimeProofs ----------------------------
(***************************************************************************)
(* Proofs about time and fairness: timers, wake-ups, how long a sleep lasts, *)
(* and the order in which the threads that are ready run.                  *)
(***************************************************************************)
EXTENDS SleepTime, KernelProofs

-----------------------------------------------------------------------------
(***************************************************************************)
(* Hypotheses and invariants                                               *)
(***************************************************************************)

\* Memory for one wake-up of each thread and all the timers of each process.
EnoughEvents ==
    MaxEvents >= Cardinality(Thread \ {Idle}) + Cardinality(UserProc) * MaxTimers

\* A sleepEnd that prc_wakeOneWaitingThread cannot take for a mutex.
BitsAreNoHandle == \A b \in SleepBits : b[1] \notin Slot

\* Cell i of evts holds a wake-up, prc_putThreadToSleep's event.
IsWakeup(evts, i) == i \in Pending(evts) /\ evts[i].func = "wakeupThread"

\* A thread that sleeps is blocked, and its sleepEnd looks like no HANDLE.
SleepersOK(T) ==
    \A s \in Thread : T[s].wait = "SLEEP" =>
        T[s].state = "BLOCKED" /\ T[s].mtx[1] \notin Slot

\* Wake-ups are for sleepers, and there is no second one for the same thread.
WakeupsOK(evts, T) ==
    \A i \in EventCell : IsWakeup(evts, i) =>
        /\ T[evts[i].tcb].wait = "SLEEP"
        /\ \A j \in EventCell :
              IsWakeup(evts, j) /\ evts[j].tcb = evts[i].tcb => j = i

\* The inductive invariant of the wake-ups
SleepInv == SleepersOK(tcb) /\ WakeupsOK(timedEvents, tcb)

\* The idle thread neither sleeps nor sets timers.
IdleHasNone(evts) == \A i \in Pending(evts) : evts[i].tcb # Idle

\* A sleeper's wake-up is pending.
HaveWakeups(evts, T) ==
    \A s \in Thread : T[s].wait = "SLEEP" =>
        \E i \in EventCell : IsWakeup(evts, i) /\ evts[i].tcb = s

\* The inductive invariant of the wake-ups that are owed
WakeupInv == HaveWakeups(timedEvents, tcb)

\* No wake-up is due while its sleeper has quanta left.
RemainingOK ==
    /\ remaining \in [Thread -> Nat]
    /\ \A i \in EventCell : IsWakeup(timedEvents, i) =>
          LET e == timedEvents[i]
          IN remaining[e.tcb] = 0 \/ remaining[e.tcb] <= e.due

-----------------------------------------------------------------------------
(***************************************************************************)
(* The kinds of step                                                       *)
(***************************************************************************)

\* Existing threads stay in their processes.
PcbsKept(T, U) ==
    \A s \in Thread :
        T[s].state # "FREE" => U[s].state # "FREE" /\ U[s].pcb = T[s].pcb

\* The same threads sleep.
SleepersKept(T, U) ==
    \A s \in Thread :
        /\ U[s].wait = "SLEEP" <=> T[s].wait = "SLEEP"
        /\ T[s].wait = "SLEEP" => U[s].state = T[s].state /\ U[s].mtx = T[s].mtx

\* A step that neither ends a thread nor begins or ends a sleep.
Quiet(T, U) == PcbsKept(T, U) /\ (SleepersOK(T) => SleepersKept(T, U))

\* A message to a thread ends no sleep.
LEMMA PostedQuiet ==
    ASSUME NEW T \in [Thread -> TCB], NEW t \in Thread
    PROVE  Quiet(T, Posted(T, t))
<1>1. CASE T[t].msgs < MaxMsgs
  <2> DEFINE U == [T EXCEPT ![t].msgs = @ + 1]
             e == [T[t] EXCEPT !.msgs = @ + 1]
  <2>0. T[t].msgs + 1 \in 0 .. MaxMsgs
    BY <1>1, KernelAssumption DEF TCB
  <2>1. /\ U \in [Thread -> TCB]
        /\ U[t].state = T[t].state /\ U[t].wait = T[t].wait
        /\ U[t].mtx = T[t].mtx /\ U[t].pcb = T[t].pcb
        /\ \A s \in Thread \ {t} : U[s] = T[s]
    BY <2>0 DEF TCB
  <2>2. Posted(T, t) = IF WakesOnMsg(T, t) THEN Woken(U, t) ELSE U
    BY <1>1 DEF Posted
  <2> HIDE DEF U
  <2>3. CASE ~WakesOnMsg(T, t)
    <3>1. Quiet(T, U)
      BY <2>1 DEF Quiet, PcbsKept, SleepersKept
    <3> QED BY <2>2, <2>3, <3>1
  <2>4. CASE WakesOnMsg(T, t)
    <3> DEFINE W == Woken(U, t)
    <3>1. /\ W[t].state = "READY" /\ W[t].wait = "NONE" /\ W[t].pcb = U[t].pcb
          /\ \A s \in Thread \ {t} : W[s] = U[s]
      BY <2>1, WokenEffect
    <3>2. T[t].wait = "MSG"
      BY <2>4 DEF WakesOnMsg
    <3> HIDE DEF W
    <3>3. PcbsKept(T, W) /\ SleepersKept(T, W)
      BY <2>1, <3>1, <3>2 DEF PcbsKept, SleepersKept
    <3> QED BY <2>2, <2>4, <3>3 DEF Quiet, W
  <2> QED BY <2>3, <2>4
<1>2. CASE ~(T[t].msgs < MaxMsgs)
  BY <1>2 DEF Posted, Quiet, PcbsKept, SleepersKept
<1> QED BY <1>1, <1>2

\* The caller waits for something else than time.
LEMMA WaitQuiet ==
    ASSUME NEW T \in [Thread -> TCB], NEW t \in Thread, NEW e,
           T[t].state = "READY", e.state # "FREE", e.pcb = T[t].pcb, e.wait # "SLEEP"
    PROVE  Quiet(T, [T EXCEPT ![t] = e])
BY DEF Quiet, PcbsKept, SleepersKept, SleepersOK

\* Nor does a step that leaves the threads alone.
LEMMA SameQuiet ==
    ASSUME NEW T
    PROVE  Quiet(T, T)
BY DEF Quiet, PcbsKept, SleepersKept

\* Every step of the kernel is of one of six kinds.
LEMMA QuietCalls ==
    ASSUME IInv,
           \/ SetTlsPtr \/ CreateMutex \/ GetMsg \/ WaitForMsg
           \/ \E s \in Thread : CreateThread(s)
           \/ \E opens \in BOOLEAN : OpenFile(opens)
           \/ \E h \in HANDLE :
                 PostMsg(h) \/ MutexUnlocked(h) \/ WaitForMutex(h) \/ CloseObject(h)
    PROVE  /\ Quiet(tcb, tcb')
           /\ UNCHANGED <<timedEvents, numActiveTimers>>
<1>0. /\ tcb \in [Thread -> TCB] /\ currTcb \in Thread /\ tcb[currTcb] \in TCB
      /\ Quiet(tcb, tcb)
  BY SameQuiet DEF IInv, ThreadInv
<1>1. ASSUME SetTlsPtr PROVE Quiet(tcb, tcb') /\ UNCHANGED <<timedEvents, numActiveTimers>>
  BY <1>0, <1>1 DEF SetTlsPtr, Quiet, PcbsKept, SleepersKept, TCB
<1>2. ASSUME NEW opens \in BOOLEAN, NEW h \in HANDLE,
             CreateMutex \/ OpenFile(opens) \/ CloseObject(h)
      PROVE  Quiet(tcb, tcb') /\ UNCHANGED <<timedEvents, numActiveTimers>>
  BY <1>0, <1>2 DEF CreateMutex, OpenFile, CloseObject
<1>3. ASSUME GetMsg PROVE Quiet(tcb, tcb') /\ UNCHANGED <<timedEvents, numActiveTimers>>
  BY <1>0, <1>3 DEF GetMsg, Quiet, PcbsKept, SleepersKept, TCB
<1>4. ASSUME NEW s \in Thread, CreateThread(s)
      PROVE  Quiet(tcb, tcb') /\ UNCHANGED <<timedEvents, numActiveTimers>>
  <2>1. PICK i \in Slot : tcb' = [tcb EXCEPT ![s] = NewTcb(CurrPcb, HandleOf(handles', i))]
    BY <1>4 DEF CreateThread
  <2>2. /\ tcb'[s].wait = "NONE" /\ tcb[s].state = "FREE"
        /\ \A u \in Thread \ {s} : tcb'[u] = tcb[u]
    BY <1>0, <1>4, <2>1 DEF NewTcb, CreateThread
  <2>3. Quiet(tcb, tcb')
    BY <2>2 DEF Quiet, PcbsKept, SleepersKept, SleepersOK
  <2> QED BY <1>4, <2>3 DEF CreateThread
<1>5. ASSUME NEW h \in HANDLE, PostMsg(h)
      PROVE  Quiet(tcb, tcb') /\ UNCHANGED <<timedEvents, numActiveTimers>>
  <2>1. handles[h[1]].data \in Thread
    BY <1>5 DEF IInv, OwnerInv, HandlesOK, PostMsg, HasData, InUse
  <2> QED BY <1>0, <1>5, <2>1, PostedQuiet DEF PostMsg
<1>6. ASSUME NEW h \in HANDLE, MutexUnlocked(h)
      PROVE  Quiet(tcb, tcb') /\ UNCHANGED <<timedEvents, numActiveTimers>>
  <2>1. PICK i \in Matches(tcb, h) : tcb' = Woken(tcb, tcbList[i])
    BY <1>6 DEF MutexUnlocked
  <2> DEFINE t == tcbList[i]
  <2>2. t \in Thread /\ tcb[t].state = "BLOCKED" /\ tcb[t].mtx[1] \in Slot
    BY <1>6, LenProperties
       DEF Matches, IInv, OwnerInv, ListOK, MutexUnlocked, HasData, InUse
  <2> HIDE DEF t
  <2>3. /\ tcb'[t].state = "READY" /\ tcb'[t].wait = "NONE" /\ tcb'[t].pcb = tcb[t].pcb
        /\ \A s \in Thread \ {t} : tcb'[s] = tcb[s]
    BY <1>0, <2>1, <2>2, WokenEffect DEF t
  <2>4. Quiet(tcb, tcb')
    BY <2>2, <2>3 DEF Quiet, PcbsKept, SleepersKept, SleepersOK
  <2> QED BY <1>6, <2>4 DEF MutexUnlocked
<1>7. ASSUME NEW h \in HANDLE, WaitForMutex(h)
      PROVE  Quiet(tcb, tcb') /\ UNCHANGED <<timedEvents, numActiveTimers>>
  <2> DEFINE e == [tcb[currTcb] EXCEPT !.state = "BLOCKED", !.wait = "WAIT", !.mtx = h]
  <2>1. tcb' = [tcb EXCEPT ![currTcb] = e] /\ AppRuns
    BY <1>7 DEF WaitForMutex
  <2>2. e.state # "FREE" /\ e.pcb = tcb[currTcb].pcb /\ e.wait # "SLEEP"
    BY <1>0 DEF TCB
  <2>3. tcb[currTcb].state = "READY"
    BY <2>1, CallerIsLive
  <2> HIDE DEF e
  <2>4. Quiet(tcb, tcb')
    BY <1>0, <2>1, <2>2, <2>3, WaitQuiet
  <2> QED BY <1>7, <2>4 DEF WaitForMutex
<1>8. ASSUME WaitForMsg
      PROVE  Quiet(tcb, tcb') /\ UNCHANGED <<timedEvents, numActiveTimers>>
  <2> DEFINE e == [tcb[currTcb] EXCEPT !.state = "BLOCKED", !.wait = "MSG"]
  <2>1. tcb' = [tcb EXCEPT ![currTcb] = e] /\ AppRuns
    BY <1>8 DEF WaitForMsg
  <2>2. e.state # "FREE" /\ e.pcb = tcb[currTcb].pcb /\ e.wait # "SLEEP"
    BY <1>0 DEF TCB
  <2>3. tcb[currTcb].state = "READY"
    BY <2>1, CallerIsLive
  <2> HIDE DEF e
  <2>4. Quiet(tcb, tcb')
    BY <1>0, <2>1, <2>2, <2>3, WaitQuiet
  <2> QED BY <1>8, <2>4 DEF WaitForMsg
<1>9. HANDLE # {}
  BY InvalidHandleType
<1> QED BY <1>1, <1>2, <1>3, <1>4, <1>5, <1>6, <1>7, <1>8, <1>9

\* The steps of the kernel that end no thread.
LEMMA QuietKernel ==
    ASSUME IInv,
           \/ KeyboardIRQ \/ Schedule \/ PostKey \/ KeysPosted \/ ProcessDestroyed
           \/ DestroyHandle /\ (\A t \in Thread : ~DestroyTCB(t))
           \/ UNCHANGED vars
    PROVE  /\ Quiet(tcb, tcb')
           /\ UNCHANGED <<timedEvents, numActiveTimers>>
<1>0. tcb \in [Thread -> TCB] /\ Quiet(tcb, tcb)
  BY SameQuiet DEF IInv, ThreadInv
<1>1. CASE KeyboardIRQ \/ Schedule \/ KeysPosted \/ ProcessDestroyed \/ UNCHANGED vars
  BY <1>0, <1>1 DEF KeyboardIRQ, Schedule, KeysPosted, ProcessDestroyed, vars
<1>2. CASE PostKey
  <2>1. CASE Apps[cursor] \in pcbs \cap WantsKeys
    <3>1. Main[Apps[cursor]] \in Thread
      BY <2>1, KernelAssumption DEF IInv, OwnerInv, ProcsOK
    <3> QED BY <1>0, <1>2, <2>1, <3>1, PostedQuiet DEF PostKey
  <2>2. CASE ~(Apps[cursor] \in pcbs \cap WantsKeys)
    BY <1>0, <1>2, <2>2 DEF PostKey
  <2> QED BY <2>1, <2>2
<1>3. CASE DestroyHandle /\ \A t \in Thread : ~DestroyTCB(t)
  <2>1. cursor \in Slot
    BY <1>3, HandlesAssumption DEF IInv, ModeInv, DestroyHandle, Slot
  <2>2. handles[cursor].type = "THREAD" => handles[cursor].data \in Thread
    BY <2>1 DEF IInv, OwnerInv, HandlesOK
  <2> QED BY <1>0, <1>3, <2>2 DEF DestroyHandle
<1> QED BY <1>1, <1>2, <1>3

\* The threads that are destroyed.
LEMMA DestroyedThread ==
    ASSUME IInv,
           \/ \E h \in HANDLE : CloseThread(h) \/ CloseProcess(h)
           \/ DestroyHandle /\ (\E t \in Thread : DestroyTCB(t))
    PROVE  (\E t \in Thread : DestroyTCB(t)) /\ UNCHANGED numActiveTimers
<1>1. CASE DestroyHandle /\ \E t \in Thread : DestroyTCB(t)
  BY <1>1 DEF DestroyHandle
<1>2. ASSUME NEW h \in HANDLE, CloseThread(h) \/ CloseProcess(h)
      PROVE  (\E t \in Thread : DestroyTCB(t)) /\ UNCHANGED numActiveTimers
  <2>1. handles[h[1]].data \in Thread
    BY <1>2 DEF IInv, OwnerInv, HandlesOK, CloseThread, CloseProcess, Destroyable, InUse
  <2> QED BY <1>2, <2>1 DEF CloseThread, CloseProcess
<1> QED BY <1>1, <1>2

\* Every step but a sleep and a quantum of the clock is of one of these kinds.
LEMMA OtherStepKinds ==
    ASSUME IInv, OtherSyscall \/ KeyboardIRQ \/ KernelStep \/ UNCHANGED vars
    PROVE  \/ Quiet(tcb, tcb') /\ UNCHANGED <<timedEvents, numActiveTimers>>
           \/ \E ms \in TimerMs, repeat \in BOOLEAN : SetTimer(ms, repeat)
           \/ \E i \in EventCell : WakeupThread(i) \/ ThreadTimer(i)
           \/ (\E t \in Thread : DestroyTCB(t)) /\ UNCHANGED numActiveTimers
<1>1. CASE OtherSyscall /\ ~\E ms \in TimerMs, repeat \in BOOLEAN : SetTimer(ms, repeat)
  <2>1. CASE \E h \in HANDLE : CloseThread(h) \/ CloseProcess(h)
    BY <2>1, DestroyedThread
  <2>2. CASE ~\E h \in HANDLE : CloseThread(h) \/ CloseProcess(h)
    BY <1>1, <2>2, QuietCalls DEF OtherSyscall
  <2> QED BY <2>1, <2>2
<1>2. CASE DestroyHandle
  BY <1>2, QuietKernel, DestroyedThread
<1>3. CASE KeyboardIRQ \/ Schedule \/ PostKey \/ KeysPosted \/ ProcessDestroyed \/ UNCHANGED vars
  BY <1>3, QuietKernel
<1> QED BY <1>1, <1>2, <1>3 DEF KernelStep

\* Every step of the kernel is of one of these kinds.
LEMMA StepKinds ==
    ASSUME IInv, [Next]_vars
    PROVE  \/ /\ Quiet(tcb, tcb')
              /\ timedEvents' \in {timedEvents, Aged(timedEvents)}
              /\ UNCHANGED numActiveTimers
           \/ \E ms \in SleepMs, bits \in SleepBits : Sleep(ms, bits)
           \/ \E ms \in TimerMs, repeat \in BOOLEAN : SetTimer(ms, repeat)
           \/ \E i \in EventCell : WakeupThread(i) \/ ThreadTimer(i)
           \/ (\E t \in Thread : DestroyTCB(t)) /\ UNCHANGED numActiveTimers
<1>1. CASE TimerIRQ
  BY <1>1, SameQuiet DEF TimerIRQ
<1>2. CASE OtherSyscall \/ KeyboardIRQ \/ KernelStep \/ UNCHANGED vars
  BY <1>2, OtherStepKinds
<1> QED BY <1>1, <1>2 DEF Next, Syscall, Interrupt

-----------------------------------------------------------------------------
(***************************************************************************)
(* What each of them does to the timed events                              *)
(***************************************************************************)

\* krn_addTimedEvent, precisely.
LEMMA AddedEvent ==
    ASSUME NEW evts \in EventTable, NEW e \in TimedEvent, HasRoom(evts)
    PROVE  \E k \in EventCell : evts[k] = NoEvent /\ AddEvent(evts, e) = [evts EXCEPT ![k] = e]
<1> DEFINE k == CHOOSE i \in EventCell : evts[i] = NoEvent
<1>1. k \in EventCell /\ evts[k] = NoEvent
  BY DEF HasRoom, Pending
<1>2. AddEvent(evts, e) = [evts EXCEPT ![k] = e]
  BY DEF AddEvent
<1> QED BY <1>1, <1>2

\* The same wake-ups are pending.
SameWakeups(E, F) ==
    \A i \in EventCell :
        /\ IsWakeup(F, i) <=> IsWakeup(E, i)
        /\ IsWakeup(E, i) => F[i].tcb = E[i].tcb

\* Where the sleepers and the wake-ups stay, so does what is said of them.
LEMMA WakeupsStay ==
    ASSUME NEW E \in EventTable, NEW F, NEW T, NEW U, SameWakeups(E, F),
           SleepersOK(T), SleepersKept(T, U), WakeupsOK(E, T)
    PROVE  /\ SleepersOK(U) /\ WakeupsOK(F, U)
           /\ HaveWakeups(E, T) => HaveWakeups(F, U)
<1>0. \A i \in EventCell : IsWakeup(E, i) => E[i].tcb \in Thread
  BY DEF EventTable, IsWakeup, Pending, TimedEvent
<1>1. SleepersOK(U)
  BY DEF SleepersOK, SleepersKept
<1>2. WakeupsOK(F, U)
  BY <1>0 DEF WakeupsOK, SameWakeups, SleepersKept
<1>3. HaveWakeups(E, T) => HaveWakeups(F, U)
  BY DEF HaveWakeups, SameWakeups, SleepersKept
<1> QED BY <1>1, <1>2, <1>3

\* A quantum passes: the events are the same, and due a quantum earlier.
LEMMA AgedEvents ==
    ASSUME NEW E \in EventTable
    PROVE  /\ Pending(Aged(E)) = Pending(E)
           /\ \A i \in Pending(E) :
                 /\ Aged(E)[i].func = E[i].func
                 /\ Aged(E)[i].tcb = E[i].tcb
                 /\ Aged(E)[i].due = E[i].due - 1
<1>1. Pending(Aged(E)) = Pending(E)
  BY AgedProperties
<1>2. ASSUME NEW i \in Pending(E)
      PROVE  /\ Aged(E)[i].func = E[i].func
             /\ Aged(E)[i].tcb = E[i].tcb
             /\ Aged(E)[i].due = E[i].due - 1
  <2>1. E[i] \in TimedEvent /\ E[i] # NoEvent /\ i \in EventCell
    BY DEF EventTable, Pending
  <2>2. Aged(E)[i] = [E[i] EXCEPT !.due = @ - 1]
    BY <2>1 DEF Aged
  <2> QED BY <2>1, <2>2 DEF TimedEvent
<1> QED BY <1>1, <1>2

\* The wake-ups stay when a quantum passes.
LEMMA AgedWakeups ==
    ASSUME NEW E \in EventTable
    PROVE  SameWakeups(E, Aged(E))
BY AgedEvents DEF SameWakeups, IsWakeup

\* An event that is no wake-up takes an unused cell or one that held no wake-up.
LEMMA OtherEvent ==
    ASSUME NEW E \in EventTable, NEW k \in EventCell, ~IsWakeup(E, k),
           NEW e \in TimedEvent \cup {NoEvent},
           e # NoEvent => e.func # "wakeupThread"
    PROVE  SameWakeups(E, [E EXCEPT ![k] = e])
<1> DEFINE F == [E EXCEPT ![k] = e]
<1>1. F[k] = e /\ \A i \in EventCell \ {k} : F[i] = E[i]
  BY DEF EventTable
<1> HIDE DEF F
<1>2. SameWakeups(E, F)
  BY <1>1 DEF SameWakeups, IsWakeup, Pending
<1> QED BY <1>2 DEF F

\* prc_addThreadTimer: an event for the caller, in an unused cell.
LEMMA SetTimerKind ==
    ASSUME IInv, NEW ms \in TimerMs, NEW repeat \in BOOLEAN, SetTimer(ms, repeat)
    PROVE  \E k \in EventCell, e \in TimedEvent :
              /\ timedEvents[k] = NoEvent
              /\ timedEvents' = [timedEvents EXCEPT ![k] = e]
              /\ e.func = "threadTimer" /\ e.tcb = currTcb
<1>1. ms % HalfRange \in Nat
  <2>1. ms \in Nat /\ HalfRange \in Nat \ {0}
    BY KernelAssumption
  <2>2. ms % HalfRange \in 0 .. HalfRange - 1
    BY <2>1, RemainderType
  <2> QED BY <2>1, <2>2
<1> DEFINE e == TimerEvent(currTcb, ms % HalfRange, repeat)
<1>2. e \in TimedEvent /\ e.tcb = currTcb
  BY <1>1, TimerEventType DEF IInv, ThreadInv
<1>3. e.func = "threadTimer"
  BY DEF TimerEvent
<1>4. /\ timedEvents \in EventTable /\ HasRoom(timedEvents)
      /\ timedEvents' = AddEvent(timedEvents, e)
  BY DEF SetTimer, IInv, ThreadInv
<1> HIDE DEF e
<1> QED BY <1>2, <1>3, <1>4, AddedEvent

\* The timer that is popped leaves its cell, and a repeating one takes a cell
\* that is then unused.
LEMMA ThreadTimerKind ==
    ASSUME IInv, NEW i \in EventCell, ThreadTimer(i)
    PROVE  LET e == timedEvents[i]
               popped == [timedEvents EXCEPT ![i] = NoEvent]
           IN  /\ e \in TimedEvent /\ e.func = "threadTimer" /\ e.tcb \in Thread
               /\ i \in Pending(timedEvents)
               /\ popped \in EventTable /\ popped[i] = NoEvent
               /\ \A j \in EventCell \ {i} : popped[j] = timedEvents[j]
               /\ Quiet(tcb, tcb')
               /\ \/ /\ timedEvents' = popped
                     /\ numActiveTimers' = [numActiveTimers EXCEPT ![tcb[e.tcb].pcb] = @ - 1]
                  \/ /\ \E k \in EventCell, f \in TimedEvent :
                           /\ popped[k] = NoEvent
                           /\ timedEvents' = [popped EXCEPT ![k] = f]
                           /\ f.func = "threadTimer" /\ f.tcb = e.tcb
                     /\ UNCHANGED numActiveTimers
<1> DEFINE e == timedEvents[i]
           popped == [timedEvents EXCEPT ![i] = NoEvent]
<1>1. /\ e \in TimedEvent /\ e.tcb \in Thread /\ popped \in EventTable
      /\ i \in Pending(timedEvents) /\ timedEvents \in EventTable /\ tcb \in [Thread -> TCB]
  BY PoppedEvent DEF ThreadTimer, Due, IInv, ThreadInv
<1>2. /\ e.func = "threadTimer" /\ e.ms \in Nat
      /\ tcb' = Posted(tcb, e.tcb)
      /\ timedEvents' = IF e.repeat THEN AddEvent(popped, TimerEvent(e.tcb, e.ms, TRUE))
                        ELSE popped
      /\ numActiveTimers' = IF e.repeat THEN numActiveTimers
                            ELSE [numActiveTimers EXCEPT ![tcb[e.tcb].pcb] = @ - 1]
  BY <1>1 DEF ThreadTimer, TimedEvent
<1>3. popped[i] = NoEvent /\ \A j \in EventCell \ {i} : popped[j] = timedEvents[j]
  BY <1>1 DEF EventTable
<1> HIDE DEF e, popped
<1>4. Quiet(tcb, tcb')
  BY <1>1, <1>2, PostedQuiet
<1>5. HasRoom(popped)
  BY <1>3 DEF HasRoom, Pending
<1>6. CASE e.repeat
  <2> DEFINE f == TimerEvent(e.tcb, e.ms, TRUE)
  <2>1. f \in TimedEvent /\ f.tcb = e.tcb
    BY <1>1, <1>2, TimerEventType
  <2>2. f.func = "threadTimer"
    BY DEF TimerEvent
  <2>3. timedEvents' = AddEvent(popped, f) /\ UNCHANGED numActiveTimers
    BY <1>2, <1>6
  <2> HIDE DEF f
  <2>4. PICK k \in EventCell : popped[k] = NoEvent /\ timedEvents' = [popped EXCEPT ![k] = f]
    BY <1>1, <1>5, <2>1, <2>3, AddedEvent
  <2> QED BY <1>1, <1>2, <1>3, <1>4, <2>1, <2>2, <2>3, <2>4 DEF e, popped
<1>7. CASE ~e.repeat
  BY <1>1, <1>2, <1>3, <1>4, <1>7 DEF e, popped
<1> QED BY <1>6, <1>7

-----------------------------------------------------------------------------
(***************************************************************************)
(* The wake-ups and who sleeps                                             *)
(***************************************************************************)

\* A wake-up for the caller, if there was room for it.
LEMMA SleepKind ==
    ASSUME IInv, NEW ms \in SleepMs, NEW bits \in SleepBits, Sleep(ms, bits)
    PROVE  /\ currTcb \in Thread \ {Idle} /\ tcb[currTcb].state = "READY"
           /\ tcb'[currTcb].state = "BLOCKED" /\ tcb'[currTcb].wait = "SLEEP"
           /\ tcb'[currTcb].mtx = bits /\ tcb'[currTcb].pcb = tcb[currTcb].pcb
           /\ \A s \in Thread \ {currTcb} : tcb'[s] = tcb[s]
           /\ UNCHANGED numActiveTimers
           /\ \/ ~HasRoom(timedEvents) /\ UNCHANGED timedEvents
              \/ \E k \in EventCell, e \in TimedEvent :
                    /\ timedEvents[k] = NoEvent
                    /\ timedEvents' = [timedEvents EXCEPT ![k] = e]
                    /\ e.func = "wakeupThread" /\ e.tcb = currTcb /\ e.due = S32(ms)
<1>1. /\ tcb \in [Thread -> TCB] /\ timedEvents \in EventTable
      /\ currTcb \in Thread \ {Idle} /\ tcb[currTcb].state = "READY"
  BY CallerIsLive DEF IInv, ThreadInv, Sleep
<1>2. /\ tcb'[currTcb].state = "BLOCKED" /\ tcb'[currTcb].wait = "SLEEP"
      /\ tcb'[currTcb].mtx = bits /\ tcb'[currTcb].pcb = tcb[currTcb].pcb
      /\ \A s \in Thread \ {currTcb} : tcb'[s] = tcb[s]
      /\ UNCHANGED numActiveTimers
  BY <1>1 DEF Sleep, TCB
<1> DEFINE e == WakeupEvent(currTcb, ms)
<1>3. e \in TimedEvent /\ e.tcb = currTcb
  BY <1>1, WakeupEventType
<1>4. e.func = "wakeupThread" /\ e.due = S32(ms)
  BY DEF WakeupEvent
<1>5. timedEvents' = AddEvent(timedEvents, e)
  BY DEF Sleep
<1> HIDE DEF e
<1>6. CASE HasRoom(timedEvents)
  <2>1. PICK k \in EventCell :
           timedEvents[k] = NoEvent /\ timedEvents' = [timedEvents EXCEPT ![k] = e]
    BY <1>1, <1>3, <1>5, <1>6, AddedEvent
  <2> QED BY <1>1, <1>2, <1>3, <1>4, <2>1
<1>7. CASE ~HasRoom(timedEvents)
  BY <1>1, <1>2, <1>5, <1>7 DEF AddEvent
<1> QED BY <1>6, <1>7

\* timedEvent_wakeupThread: one sleeper is ready, and its wake-up is gone.
LEMMA WakeupThreadKind ==
    ASSUME IInv, NEW i \in EventCell, WakeupThread(i)
    PROVE  LET t == timedEvents[i].tcb
           IN  /\ t \in Thread /\ IsWakeup(timedEvents, i) /\ timedEvents[i].due <= 0
               /\ tcb'[t].state = "READY" /\ tcb'[t].wait = "NONE" /\ tcb'[t].pcb = tcb[t].pcb
               /\ \A s \in Thread \ {t} : tcb'[s] = tcb[s]
               /\ timedEvents'[i] = NoEvent
               /\ \A j \in EventCell \ {i} : timedEvents'[j] = timedEvents[j]
               /\ UNCHANGED numActiveTimers
<1> DEFINE t == timedEvents[i].tcb
<1>1. /\ t \in Thread /\ i \in Pending(timedEvents) /\ timedEvents[i].due <= 0
      /\ tcb \in [Thread -> TCB] /\ timedEvents \in EventTable
  BY PoppedEvent DEF WakeupThread, Due, IInv, ThreadInv
<1>2. tcb' = Woken(tcb, t)
  BY DEF WakeupThread
<1>3. /\ timedEvents'[i] = NoEvent /\ \A j \in EventCell \ {i} : timedEvents'[j] = timedEvents[j]
      /\ UNCHANGED numActiveTimers
      /\ timedEvents[i].func = "wakeupThread"
  BY <1>1 DEF WakeupThread, EventTable
<1> HIDE DEF t
<1>4. /\ tcb'[t].state = "READY" /\ tcb'[t].wait = "NONE" /\ tcb'[t].pcb = tcb[t].pcb
      /\ \A s \in Thread \ {t} : tcb'[s] = tcb[s]
  BY <1>1, <1>2, WokenEffect
<1> QED BY <1>1, <1>3, <1>4 DEF t, IsWakeup

\* prc_destroyTCB: the thread is gone, and its events with it.
LEMMA DestroyKind ==
    ASSUME IInv, NEW t \in Thread, DestroyTCB(t)
    PROVE  /\ tcb'[t].state = "FREE" /\ tcb'[t].wait = "NONE"
           /\ \A s \in Thread \ {t} : tcb'[s] = tcb[s]
           /\ \A i \in EventCell :
                 timedEvents'[i] = IF timedEvents[i] # NoEvent /\ timedEvents[i].tcb = t
                                   THEN NoEvent ELSE timedEvents[i]
BY FreeTcbType DEF IInv, ThreadInv, DestroyTCB, EventsWithout

\* The timer that goes off is no wake-up, and neither is the one put back.
LEMMA ThreadTimerSame ==
    ASSUME IInv, NEW i \in EventCell, ThreadTimer(i)
    PROVE  SameWakeups(timedEvents, timedEvents') /\ Quiet(tcb, tcb')
<1>0. timedEvents \in EventTable
  BY DEF IInv, ThreadInv
<1> DEFINE popped == [timedEvents EXCEPT ![i] = NoEvent]
<1>1. /\ ~IsWakeup(timedEvents, i) /\ Quiet(tcb, tcb') /\ popped \in EventTable
      /\ \/ timedEvents' = popped
         \/ \E k \in EventCell, f \in TimedEvent :
               /\ popped[k] = NoEvent
               /\ timedEvents' = [popped EXCEPT ![k] = f]
               /\ f.func = "threadTimer"
  BY ThreadTimerKind DEF IsWakeup
<1>2. SameWakeups(timedEvents, popped)
  BY <1>0, <1>1, OtherEvent
<1> HIDE DEF popped
<1>3. SameWakeups(popped, timedEvents')
  <2>1. CASE timedEvents' = popped
    BY <2>1 DEF SameWakeups
  <2>2. ASSUME NEW k \in EventCell, NEW f \in TimedEvent, popped[k] = NoEvent,
               timedEvents' = [popped EXCEPT ![k] = f], f.func = "threadTimer"
        PROVE  SameWakeups(popped, timedEvents')
    BY <1>1, <2>2, OtherEvent DEF IsWakeup, Pending
  <2> QED BY <1>1, <2>1, <2>2
<1>4. SameWakeups(timedEvents, timedEvents')
  BY <1>2, <1>3 DEF SameWakeups
<1> QED BY <1>1, <1>4

\* The inductive step for the wake-ups.
LEMMA SleepInvNext ==
    ASSUME BitsAreNoHandle, IInv, SleepInv, [Next]_vars
    PROVE  SleepInv'
<1>0. /\ timedEvents \in EventTable /\ tcb \in [Thread -> TCB]
      /\ SleepersOK(tcb) /\ WakeupsOK(timedEvents, tcb)
      /\ \A i \in EventCell : IsWakeup(timedEvents, i) => timedEvents[i].tcb \in Thread
  BY DEF SleepInv, IInv, ThreadInv, EventTable, IsWakeup, Pending, TimedEvent
<1>1. ASSUME SameWakeups(timedEvents, timedEvents'), Quiet(tcb, tcb')
      PROVE  SleepInv'
  BY <1>0, <1>1, WakeupsStay DEF SleepInv, Quiet
<1>2. CASE Quiet(tcb, tcb') /\ timedEvents' \in {timedEvents, Aged(timedEvents)}
  <2>1. SameWakeups(timedEvents, timedEvents)
    BY DEF SameWakeups
  <2> QED BY <1>0, <1>1, <1>2, <2>1, AgedWakeups
<1>3. ASSUME NEW ms \in SleepMs, NEW bits \in SleepBits, Sleep(ms, bits)
      PROVE  SleepInv'
  <2>1. /\ currTcb \in Thread /\ tcb[currTcb].state = "READY"
        /\ tcb'[currTcb].state = "BLOCKED" /\ tcb'[currTcb].wait = "SLEEP"
        /\ tcb'[currTcb].mtx = bits
        /\ \A s \in Thread \ {currTcb} : tcb'[s] = tcb[s]
    BY <1>3, SleepKind
  <2>2. SleepersOK(tcb')
    BY <1>0, <2>1 DEF SleepersOK, BitsAreNoHandle
  <2>3. \A i \in EventCell : IsWakeup(timedEvents, i) => timedEvents[i].tcb # currTcb
    BY <1>0, <2>1 DEF SleepersOK, WakeupsOK
  <2>4. CASE UNCHANGED timedEvents
    BY <1>0, <2>1, <2>2, <2>3, <2>4 DEF SleepInv, WakeupsOK
  <2>5. ASSUME NEW k \in EventCell, NEW e \in TimedEvent,
               timedEvents' = [timedEvents EXCEPT ![k] = e],
               e.func = "wakeupThread", e.tcb = currTcb
        PROVE  SleepInv'
    <3>1. timedEvents'[k] = e /\ \A j \in EventCell \ {k} : timedEvents'[j] = timedEvents[j]
      BY <1>0, <2>5 DEF EventTable
    <3>2. \A j \in EventCell \ {k} : IsWakeup(timedEvents', j) <=> IsWakeup(timedEvents, j)
      BY <3>1 DEF IsWakeup, Pending
    <3>3. \A j \in EventCell \ {k} : IsWakeup(timedEvents', j) =>
             /\ timedEvents'[j].tcb \in Thread \ {currTcb}
             /\ tcb'[timedEvents'[j].tcb].wait = "SLEEP"
      BY <1>0, <2>1, <2>3, <3>1, <3>2 DEF WakeupsOK
    <3>4. \A i, j \in EventCell \ {k} :
             IsWakeup(timedEvents', i) /\ IsWakeup(timedEvents', j)
             /\ timedEvents'[j].tcb = timedEvents'[i].tcb => j = i
      BY <1>0, <3>1, <3>2 DEF WakeupsOK
    <3>5. timedEvents'[k].tcb = currTcb /\ tcb'[currTcb].wait = "SLEEP"
      BY <2>1, <2>5, <3>1
    <3>6. WakeupsOK(timedEvents', tcb')
      BY <3>3, <3>4, <3>5 DEF WakeupsOK
    <3> QED BY <2>2, <3>6 DEF SleepInv
  <2> QED BY <1>3, <2>4, <2>5, SleepKind
<1>4. ASSUME NEW ms \in TimerMs, NEW repeat \in BOOLEAN, SetTimer(ms, repeat)
      PROVE  SleepInv'
  <2>1. PICK k \in EventCell, e \in TimedEvent :
           /\ timedEvents[k] = NoEvent
           /\ timedEvents' = [timedEvents EXCEPT ![k] = e]
           /\ e.func = "threadTimer"
    BY <1>4, SetTimerKind
  <2>2. SameWakeups(timedEvents, timedEvents')
    BY <1>0, <2>1, OtherEvent DEF IsWakeup, Pending
  <2>3. Quiet(tcb, tcb')
    BY <1>4, SameQuiet DEF SetTimer
  <2> QED BY <1>1, <2>2, <2>3
<1>5. ASSUME NEW i \in EventCell, WakeupThread(i) PROVE SleepInv'
  <2> DEFINE t == timedEvents[i].tcb
  <2>1. /\ t \in Thread /\ IsWakeup(timedEvents, i)
        /\ tcb'[t].wait = "NONE"
        /\ \A s \in Thread \ {t} : tcb'[s] = tcb[s]
        /\ timedEvents'[i] = NoEvent
        /\ \A j \in EventCell \ {i} : timedEvents'[j] = timedEvents[j]
    BY <1>5, WakeupThreadKind
  <2> HIDE DEF t
  <2>2. SleepersOK(tcb')
    BY <1>0, <2>1 DEF SleepersOK
  <2>3. \A j \in EventCell : IsWakeup(timedEvents', j) =>
           j # i /\ IsWakeup(timedEvents, j) /\ timedEvents'[j] = timedEvents[j]
    BY <2>1 DEF IsWakeup, Pending
  <2>4. \A j \in EventCell : IsWakeup(timedEvents', j) => timedEvents[j].tcb # t
    BY <1>0, <2>1, <2>3 DEF WakeupsOK, t
  <2>5. WakeupsOK(timedEvents', tcb')
    BY <1>0, <2>1, <2>3, <2>4 DEF WakeupsOK
  <2> QED BY <2>2, <2>5 DEF SleepInv
<1>6. ASSUME NEW i \in EventCell, ThreadTimer(i) PROVE SleepInv'
  <2>1. SameWakeups(timedEvents, timedEvents') /\ Quiet(tcb, tcb')
    BY <1>0, <1>6, ThreadTimerSame
  <2> QED BY <1>1, <2>1
<1>7. ASSUME NEW t \in Thread, DestroyTCB(t) PROVE SleepInv'
  <2>1. /\ tcb'[t].wait = "NONE"
        /\ \A s \in Thread \ {t} : tcb'[s] = tcb[s]
        /\ \A i \in EventCell :
              timedEvents'[i] = IF timedEvents[i] # NoEvent /\ timedEvents[i].tcb = t
                                THEN NoEvent ELSE timedEvents[i]
    BY <1>7, DestroyKind
  <2>2. SleepersOK(tcb')
    BY <1>0, <2>1 DEF SleepersOK
  <2>3. \A j \in EventCell : IsWakeup(timedEvents', j) =>
           /\ IsWakeup(timedEvents, j) /\ timedEvents'[j] = timedEvents[j]
           /\ timedEvents[j].tcb # t
    BY <2>1 DEF IsWakeup, Pending
  <2>4. WakeupsOK(timedEvents', tcb')
    BY <1>0, <2>1, <2>3 DEF WakeupsOK
  <2> QED BY <2>2, <2>4 DEF SleepInv
<1> QED BY <1>2, <1>3, <1>4, <1>5, <1>6, <1>7, StepKinds

-----------------------------------------------------------------------------
(***************************************************************************)
(* Timers: numActiveTimers                                                 *)
(***************************************************************************)

\* The pending timers of process p, of any events and any TCBs.
TimersOf(E, T, p) ==
    {i \in Pending(E) : E[i].func = "threadTimer" /\ T[E[i].tcb].pcb = p}

\* There are as many timers as cells, at most.
LEMMA TimersFinite ==
    ASSUME NEW E, NEW T, NEW p
    PROVE  IsFiniteSet(TimersOf(E, T, p)) /\ Cardinality(TimersOf(E, T, p)) \in Nat
<1>1. IsFiniteSet(EventCell)
  BY FS_Interval, KernelAssumption DEF EventCell
<1>2. TimersOf(E, T, p) \in SUBSET EventCell
  BY DEF TimersOf, Pending
<1>3. IsFiniteSet(TimersOf(E, T, p))
  BY <1>1, <1>2, FS_Subset
<1> QED BY <1>3, FS_CardinalityType

\* TimersCounted, of any events, TCBs and counts.
CountsOK(E, T, counts) ==
    /\ counts \in [Proc -> Int]
    /\ \A p \in Proc :
          /\ Cardinality(TimersOf(E, T, p)) <= counts[p]
          /\ counts[p] <= MaxTimers

\* The counts stay right where timers go away.
LEMMA CountsSubset ==
    ASSUME NEW E, NEW T, NEW F, NEW U, NEW counts, CountsOK(E, T, counts),
           \A p \in Proc : TimersOf(F, U, p) \subseteq TimersOf(E, T, p)
    PROVE  CountsOK(F, U, counts)
<1> SUFFICES ASSUME NEW p \in Proc
             PROVE  Cardinality(TimersOf(F, U, p)) <= counts[p]
  BY DEF CountsOK
<1>1. Cardinality(TimersOf(F, U, p)) <= Cardinality(TimersOf(E, T, p))
  BY TimersFinite, FS_Subset
<1>2. Cardinality(TimersOf(E, T, p)) <= counts[p] /\ counts[p] \in Int
  BY DEF CountsOK
<1> QED BY <1>1, <1>2, TimersFinite

\* The inductive invariant of the counts of timers
TimerIInv == IdleHasNone(timedEvents) /\ CountsOK(timedEvents, tcb, numActiveTimers)

\* Every step keeps the counts: prc_addThreadTimer and the timer that goes off for the
\* last time change both, the end of a thread takes timers away and not the count.
LEMMA TimerInvNext ==
    ASSUME IInv, TimerIInv, [Next]_vars
    PROVE  TimerIInv'
<1>0. /\ timedEvents \in EventTable /\ tcb \in [Thread -> TCB]
      /\ numActiveTimers \in [Proc -> Int]
      /\ IdleHasNone(timedEvents) /\ CountsOK(timedEvents, tcb, numActiveTimers)
      /\ \A i \in Pending(timedEvents) :
            timedEvents[i].tcb \in Thread /\ tcb[timedEvents[i].tcb].state # "FREE"
  BY DEF TimerIInv, IInv, ThreadInv, OwnerInv, EventsLive, EventTable, Pending, TimedEvent
<1>1. CASE /\ Quiet(tcb, tcb')
           /\ timedEvents' \in {timedEvents, Aged(timedEvents)}
           /\ UNCHANGED numActiveTimers
  <2>1. /\ Pending(timedEvents') = Pending(timedEvents)
        /\ \A i \in Pending(timedEvents) :
              timedEvents'[i].func = timedEvents[i].func /\ timedEvents'[i].tcb = timedEvents[i].tcb
    BY <1>0, <1>1, AgedEvents
  <2>2. IdleHasNone(timedEvents')
    BY <1>0, <2>1 DEF IdleHasNone
  <2>3. \A p \in Proc : TimersOf(timedEvents', tcb', p) \subseteq TimersOf(timedEvents, tcb, p)
    BY <1>0, <1>1, <2>1 DEF TimersOf, Quiet, PcbsKept
  <2>4. CountsOK(timedEvents', tcb', numActiveTimers)
    BY <1>0, <2>3, CountsSubset
  <2> QED BY <1>1, <2>2, <2>4 DEF TimerIInv
<1>2. ASSUME NEW ms \in SleepMs, NEW bits \in SleepBits, Sleep(ms, bits)
      PROVE  TimerIInv'
  <2>1. /\ currTcb \in Thread \ {Idle} /\ tcb'[currTcb].pcb = tcb[currTcb].pcb
        /\ \A s \in Thread \ {currTcb} : tcb'[s] = tcb[s]
        /\ UNCHANGED numActiveTimers
    BY <1>2, SleepKind
  <2>2. \A i \in Pending(timedEvents') :
           \/ timedEvents'[i].func = "wakeupThread" /\ timedEvents'[i].tcb = currTcb
           \/ i \in Pending(timedEvents) /\ timedEvents'[i] = timedEvents[i]
    <3>1. CASE UNCHANGED timedEvents
      BY <3>1
    <3>2. ASSUME NEW k \in EventCell, NEW e \in TimedEvent,
                 timedEvents' = [timedEvents EXCEPT ![k] = e],
                 e.func = "wakeupThread", e.tcb = currTcb
          PROVE  \A i \in Pending(timedEvents') :
                    \/ timedEvents'[i].func = "wakeupThread" /\ timedEvents'[i].tcb = currTcb
                    \/ i \in Pending(timedEvents) /\ timedEvents'[i] = timedEvents[i]
      <4>1. timedEvents'[k] = e /\ \A j \in EventCell \ {k} : timedEvents'[j] = timedEvents[j]
        BY <1>0, <3>2 DEF EventTable
      <4> QED BY <3>2, <4>1 DEF Pending
    <3> QED BY <1>2, <3>1, <3>2, SleepKind
  <2>3. IdleHasNone(timedEvents')
    BY <1>0, <2>1, <2>2 DEF IdleHasNone
  <2>4. \A p \in Proc : TimersOf(timedEvents', tcb', p) \subseteq TimersOf(timedEvents, tcb, p)
    BY <1>0, <2>1, <2>2 DEF TimersOf
  <2>5. CountsOK(timedEvents', tcb', numActiveTimers)
    BY <1>0, <2>4, CountsSubset
  <2> QED BY <2>1, <2>3, <2>5 DEF TimerIInv
<1>3. ASSUME NEW ms \in TimerMs, NEW repeat \in BOOLEAN, SetTimer(ms, repeat)
      PROVE  TimerIInv'
  <2> DEFINE c == CurrPcb
  <2>1. /\ currTcb \in Thread \ {Idle} /\ c \in Proc /\ UNCHANGED tcb
        /\ tcb[currTcb].pcb = c
        /\ numActiveTimers[c] < MaxTimers
        /\ numActiveTimers' = [numActiveTimers EXCEPT ![c] = @ + 1]
    BY <1>3, CallerIsLive DEF SetTimer, TimerAllowed, IInv, OwnerInv, ProcsOK, CurrPcb
  <2> HIDE DEF c
  <2>2. PICK k \in EventCell, e \in TimedEvent :
           /\ timedEvents[k] = NoEvent
           /\ timedEvents' = [timedEvents EXCEPT ![k] = e]
           /\ e.func = "threadTimer" /\ e.tcb = currTcb
    BY <1>3, SetTimerKind
  <2>3. /\ timedEvents'[k] = e /\ k \notin Pending(timedEvents)
        /\ \A j \in EventCell \ {k} : timedEvents'[j] = timedEvents[j]
    BY <1>0, <2>2 DEF EventTable, Pending
  <2>4. Pending(timedEvents') = Pending(timedEvents) \cup {k}
    BY <2>2, <2>3, NoEventAssumption DEF Pending
  <2>5. IdleHasNone(timedEvents')
    BY <1>0, <2>1, <2>2, <2>3, <2>4 DEF IdleHasNone, Pending
  <2>6. /\ TimersOf(timedEvents', tcb', c) = TimersOf(timedEvents, tcb, c) \cup {k}
        /\ k \notin TimersOf(timedEvents, tcb, c)
    BY <2>1, <2>2, <2>3, <2>4 DEF TimersOf, Pending
  <2>7. \A p \in Proc \ {c} : TimersOf(timedEvents', tcb', p) = TimersOf(timedEvents, tcb, p)
    BY <2>1, <2>2, <2>3, <2>4 DEF TimersOf, Pending
  <2>8. Cardinality(TimersOf(timedEvents', tcb', c)) = Cardinality(TimersOf(timedEvents, tcb, c)) + 1
    BY <2>6, TimersFinite, FS_AddElement
  <2>9. ASSUME NEW p \in Proc
        PROVE  /\ Cardinality(TimersOf(timedEvents', tcb', p)) <= numActiveTimers'[p]
               /\ numActiveTimers'[p] <= MaxTimers
    <3>1. /\ Cardinality(TimersOf(timedEvents, tcb, p)) <= numActiveTimers[p]
          /\ numActiveTimers[p] <= MaxTimers
          /\ numActiveTimers[p] \in Int
          /\ Cardinality(TimersOf(timedEvents, tcb, p)) \in Nat
          /\ MaxTimers \in Nat
      BY <1>0, TimersFinite, KernelAssumption DEF CountsOK
    <3>2. CASE p = c
      <4>1. numActiveTimers'[c] = numActiveTimers[c] + 1
        BY <1>0, <2>1
      <4> QED BY <2>1, <2>8, <3>1, <3>2, <4>1
    <3>3. CASE p # c
      <4>1. numActiveTimers'[p] = numActiveTimers[p]
        BY <1>0, <2>1, <3>3
      <4>2. TimersOf(timedEvents', tcb', p) = TimersOf(timedEvents, tcb, p)
        BY <2>7, <3>3
      <4> QED BY <3>1, <4>1, <4>2
    <3> QED BY <3>2, <3>3
  <2>10. numActiveTimers' \in [Proc -> Int]
    BY <1>0, <2>1
  <2> QED BY <2>5, <2>9, <2>10 DEF TimerIInv, CountsOK
<1>4. ASSUME NEW i \in EventCell, WakeupThread(i) PROVE TimerIInv'
  <2> DEFINE t == timedEvents[i].tcb
  <2>1. /\ t \in Thread /\ tcb'[t].pcb = tcb[t].pcb
        /\ \A s \in Thread \ {t} : tcb'[s] = tcb[s]
        /\ timedEvents'[i] = NoEvent
        /\ \A j \in EventCell \ {i} : timedEvents'[j] = timedEvents[j]
        /\ UNCHANGED numActiveTimers
    BY <1>4, WakeupThreadKind
  <2> HIDE DEF t
  <2>2. \A j \in Pending(timedEvents') :
           j \in Pending(timedEvents) /\ timedEvents'[j] = timedEvents[j]
    BY <2>1 DEF Pending
  <2>3. IdleHasNone(timedEvents')
    BY <1>0, <2>2 DEF IdleHasNone
  <2>4. \A p \in Proc : TimersOf(timedEvents', tcb', p) \subseteq TimersOf(timedEvents, tcb, p)
    BY <1>0, <2>1, <2>2 DEF TimersOf
  <2>5. CountsOK(timedEvents', tcb', numActiveTimers)
    BY <1>0, <2>4, CountsSubset
  <2> QED BY <2>1, <2>3, <2>5 DEF TimerIInv
<1>5. ASSUME NEW i \in EventCell, ThreadTimer(i) PROVE TimerIInv'
  <2> DEFINE e == timedEvents[i]
             popped == [timedEvents EXCEPT ![i] = NoEvent]
             o == tcb[e.tcb].pcb
  <2>1. /\ e \in TimedEvent /\ e.func = "threadTimer" /\ e.tcb \in Thread
        /\ i \in Pending(timedEvents)
        /\ popped \in EventTable /\ popped[i] = NoEvent
        /\ \A j \in EventCell \ {i} : popped[j] = timedEvents[j]
        /\ Quiet(tcb, tcb')
        /\ \/ /\ timedEvents' = popped
              /\ numActiveTimers' = [numActiveTimers EXCEPT ![o] = @ - 1]
           \/ /\ \E k \in EventCell, f \in TimedEvent :
                    /\ popped[k] = NoEvent
                    /\ timedEvents' = [popped EXCEPT ![k] = f]
                    /\ f.func = "threadTimer" /\ f.tcb = e.tcb
              /\ UNCHANGED numActiveTimers
    BY <1>5, ThreadTimerKind
  <2>2. /\ o \in Proc /\ i \in TimersOf(timedEvents, tcb, o)
        /\ e.tcb # Idle /\ tcb'[e.tcb].pcb = o
    BY <1>0, <2>1 DEF TimersOf, IdleHasNone, TCB, Quiet, PcbsKept
  <2> HIDE DEF o, popped
  <2>3. \A j \in Pending(popped) :
           j # i /\ j \in Pending(timedEvents) /\ popped[j] = timedEvents[j]
    BY <2>1 DEF Pending
  <2>4. \A p \in Proc : TimersOf(popped, tcb', p) \subseteq TimersOf(timedEvents, tcb, p) \ {i}
    BY <1>0, <2>1, <2>3 DEF TimersOf, Quiet, PcbsKept
  <2>5. IdleHasNone(popped)
    BY <1>0, <2>3 DEF IdleHasNone
  <2>6. Cardinality(TimersOf(popped, tcb', o)) <= Cardinality(TimersOf(timedEvents, tcb, o)) - 1
    <3>1. /\ IsFiniteSet(TimersOf(timedEvents, tcb, o) \ {i})
          /\ Cardinality(TimersOf(timedEvents, tcb, o) \ {i})
               = Cardinality(TimersOf(timedEvents, tcb, o)) - 1
      BY <2>2, TimersFinite, FS_RemoveElement
    <3>2. TimersOf(popped, tcb', o) \in SUBSET (TimersOf(timedEvents, tcb, o) \ {i})
      BY <2>2, <2>4
    <3> QED BY <3>1, <3>2, FS_Subset
  <2>7. /\ CountsOK(timedEvents, tcb, numActiveTimers)
        /\ \A p \in Proc : /\ Cardinality(TimersOf(popped, tcb', p)) \in Nat
                           /\ Cardinality(TimersOf(timedEvents, tcb, p)) \in Nat
                           /\ numActiveTimers[p] \in Int
        /\ MaxTimers \in Nat
    BY <1>0, TimersFinite, KernelAssumption
  <2>8. CASE /\ timedEvents' = popped
             /\ numActiveTimers' = [numActiveTimers EXCEPT ![o] = @ - 1]
    <3>1. /\ numActiveTimers' \in [Proc -> Int]
          /\ numActiveTimers'[o] = numActiveTimers[o] - 1
          /\ \A p \in Proc \ {o} : numActiveTimers'[p] = numActiveTimers[p]
      BY <1>0, <2>2, <2>8
    <3>2. CountsOK(popped, tcb', numActiveTimers)
      BY <2>4, <2>7, CountsSubset
    <3>3. /\ Cardinality(TimersOf(popped, tcb', o)) <= numActiveTimers'[o]
          /\ numActiveTimers'[o] <= MaxTimers
      <4>1. /\ Cardinality(TimersOf(timedEvents, tcb, o)) <= numActiveTimers[o]
            /\ numActiveTimers[o] <= MaxTimers
        BY <2>2, <2>7 DEF CountsOK
      <4> QED BY <2>2, <2>6, <2>7, <3>1, <4>1
    <3>4. CountsOK(popped, tcb', numActiveTimers')
      BY <3>1, <3>2, <3>3 DEF CountsOK
    <3> QED BY <2>5, <2>8, <3>4 DEF TimerIInv
  <2>9. ASSUME NEW k \in EventCell, NEW f \in TimedEvent,
               popped[k] = NoEvent, timedEvents' = [popped EXCEPT ![k] = f],
               f.func = "threadTimer", f.tcb = e.tcb, UNCHANGED numActiveTimers
        PROVE  TimerIInv'
    <3>1. timedEvents'[k] = f /\ \A j \in EventCell \ {k} : timedEvents'[j] = popped[j]
      BY <2>1, <2>9 DEF EventTable
    <3>2. Pending(timedEvents') = Pending(popped) \cup {k}
      BY <2>9, <3>1, NoEventAssumption DEF Pending
    <3>3. IdleHasNone(timedEvents')
      BY <2>2, <2>5, <2>9, <3>1, <3>2 DEF IdleHasNone, Pending
    <3>4. TimersOf(timedEvents', tcb', o) \subseteq TimersOf(popped, tcb', o) \cup {k}
      BY <3>1, <3>2 DEF TimersOf, Pending
    <3>5. \A p \in Proc \ {o} : TimersOf(timedEvents', tcb', p) \subseteq TimersOf(popped, tcb', p)
      BY <2>2, <2>9, <3>1, <3>2 DEF TimersOf, Pending
    <3>6. Cardinality(TimersOf(timedEvents', tcb', o)) <= Cardinality(TimersOf(timedEvents, tcb, o))
      <4>1. /\ IsFiniteSet(TimersOf(popped, tcb', o) \cup {k})
            /\ Cardinality(TimersOf(popped, tcb', o) \cup {k})
                 <= Cardinality(TimersOf(popped, tcb', o)) + 1
        <5> DEFINE S == TimersOf(popped, tcb', o)
        <5>1. IsFiniteSet(S) /\ Cardinality(S) \in Nat
          BY TimersFinite
        <5> HIDE DEF S
        <5>2. /\ IsFiniteSet(S \cup {k})
              /\ \/ Cardinality(S \cup {k}) = Cardinality(S)
                 \/ Cardinality(S \cup {k}) = Cardinality(S) + 1
          BY <5>1, FS_AddElement
        <5> QED BY <5>1, <5>2 DEF S
      <4>2. Cardinality(TimersOf(timedEvents', tcb', o))
              <= Cardinality(TimersOf(popped, tcb', o) \cup {k})
        BY <3>4, <4>1, FS_Subset
      <4>3. /\ Cardinality(TimersOf(timedEvents', tcb', o)) \in Nat
            /\ Cardinality(TimersOf(popped, tcb', o) \cup {k}) \in Nat
        BY <4>1, TimersFinite, FS_CardinalityType
      <4> QED BY <2>2, <2>6, <2>7, <4>1, <4>2, <4>3
    <3>7. ASSUME NEW p \in Proc \ {o}
          PROVE  Cardinality(TimersOf(timedEvents', tcb', p)) <= Cardinality(TimersOf(timedEvents, tcb, p))
      <4>1. TimersOf(timedEvents', tcb', p) \in SUBSET TimersOf(timedEvents, tcb, p)
        BY <2>4, <3>5
      <4> QED BY <4>1, TimersFinite, FS_Subset
    <3>8. ASSUME NEW p \in Proc
          PROVE  Cardinality(TimersOf(timedEvents', tcb', p)) <= numActiveTimers[p]
      <4>1. Cardinality(TimersOf(timedEvents', tcb', p)) <= Cardinality(TimersOf(timedEvents, tcb, p))
        BY <3>6, <3>7
      <4>2. Cardinality(TimersOf(timedEvents, tcb, p)) <= numActiveTimers[p]
        BY <2>7 DEF CountsOK
      <4>3. Cardinality(TimersOf(timedEvents', tcb', p)) \in Nat
        BY TimersFinite
      <4> QED BY <2>7, <4>1, <4>2, <4>3
    <3>9. CountsOK(timedEvents', tcb', numActiveTimers)
      BY <2>7, <3>8 DEF CountsOK
    <3> QED BY <2>9, <3>3, <3>9 DEF TimerIInv
  <2> QED BY <2>1, <2>8, <2>9
<1>6. ASSUME NEW t \in Thread, DestroyTCB(t), UNCHANGED numActiveTimers PROVE TimerIInv'
  <2>1. /\ \A s \in Thread \ {t} : tcb'[s] = tcb[s]
        /\ \A i \in EventCell :
              timedEvents'[i] = IF timedEvents[i] # NoEvent /\ timedEvents[i].tcb = t
                                THEN NoEvent ELSE timedEvents[i]
    BY <1>6, DestroyKind
  <2>2. \A j \in Pending(timedEvents') :
           /\ j \in Pending(timedEvents) /\ timedEvents'[j] = timedEvents[j]
           /\ timedEvents[j].tcb # t
    BY <2>1 DEF Pending
  <2>3. IdleHasNone(timedEvents')
    BY <1>0, <2>2 DEF IdleHasNone
  <2>4. \A p \in Proc : TimersOf(timedEvents', tcb', p) \subseteq TimersOf(timedEvents, tcb, p)
    BY <1>0, <2>1, <2>2 DEF TimersOf
  <2>5. CountsOK(timedEvents', tcb', numActiveTimers)
    BY <1>0, <2>4, CountsSubset
  <2> QED BY <1>6, <2>3, <2>5 DEF TimerIInv
<1> QED BY <1>1, <1>2, <1>3, <1>4, <1>5, <1>6, StepKinds

\* At boot there are no events, and no thread waits.
LEMMA NoEventsAtBoot ==
    ASSUME Init
    PROVE  /\ Pending(timedEvents) = {}
           /\ \A s \in Thread : tcb[s].wait = "NONE"
           /\ numActiveTimers = [p \in Proc |-> 0]
<1>1. Pending(timedEvents) = {} /\ numActiveTimers = [p \in Proc |-> 0]
  BY DEF Init, Pending
<1>2. \A p, h : /\ NewTcb(p, h).wait = "NONE"
                /\ [NewTcb(p, h) EXCEPT !.state = "KERNEL"].wait = "NONE"
  BY DEF NewTcb
<1>3. FreeTcb.wait = "NONE"
  BY FreeTcbType
<1>4. ASSUME NEW s \in Thread PROVE tcb[s].wait = "NONE"
  BY <1>2, <1>3 DEF Init
<1> QED BY <1>1, <1>4

\* So the counts are right.
LEMMA TimersAtBoot ==
    ASSUME Init
    PROVE  TimerIInv
<1>1. \A p \in Proc : TimersOf(timedEvents, tcb, p) = {}
  BY NoEventsAtBoot DEF TimersOf
<1>2. MaxTimers \in Nat
  BY KernelAssumption
<1> QED BY <1>1, <1>2, NoEventsAtBoot, FS_EmptySet DEF TimerIInv, IdleHasNone, CountsOK

\* The count of a process's active timers is never below the number there is and
\* never above TIMER_MAX_TIMERS, for any number of processes, threads and events.
THEOREM TimersAreCounted == Spec => []TimersCounted
<1>1. Init => TimerIInv
  BY TimersAtBoot
<1>2. IInv /\ TimerIInv /\ [Next]_vars => TimerIInv'
  BY TimerInvNext
<1>3. TimerIInv => TimersCounted
  BY DEF TimerIInv, CountsOK, TimersOf, TimersCounted, Timers
<1> QED BY <1>1, <1>2, <1>3, InductiveInvariant, PTL DEF Spec

-----------------------------------------------------------------------------
(***************************************************************************)
(* Room for a wake-up                                                      *)
(***************************************************************************)

\* There are finitely many processes, for each has a thread.
LEMMA ProcsFinite == IsFiniteSet(UserProc)
<1>1. Apps \in [1 .. Len(Apps) -> UserProc] /\ Len(Apps) \in Nat
  BY KernelAssumption, LenProperties DEF UserProc
<1>2. Apps \in Surjection(1 .. Len(Apps), UserProc)
  BY <1>1 DEF Surjection, UserProc
<1> QED BY <1>1, <1>2, FS_Interval, FS_Surjection

\* A process's timers can be numbered.
LEMMA TimersNumbered ==
    ASSUME TimerIInv, NEW p \in Proc
    PROVE  \E h : h \in Injection(TimersOf(timedEvents, tcb, p), 1 .. MaxTimers)
<1> DEFINE S == TimersOf(timedEvents, tcb, p)
           n == Cardinality(S)
<1>1. IsFiniteSet(S) /\ n \in Nat
  BY TimersFinite
<1>2. n <= MaxTimers /\ MaxTimers \in Nat
  <2>1. n <= numActiveTimers[p] /\ numActiveTimers[p] <= MaxTimers /\ numActiveTimers[p] \in Int
    BY DEF TimerIInv, CountsOK
  <2> QED BY <1>1, <2>1, KernelAssumption
<1>3. IsFiniteSet(1 .. n) /\ Cardinality(1 .. n) = n
  BY <1>1, FS_Interval
<1>4. ExistsBijection(S, 1 .. n)
  BY <1>1, <1>3, FS_SameCardinalityBij
<1>5. PICK h : h \in Bijection(S, 1 .. n)
  BY <1>4 DEF ExistsBijection
<1> HIDE DEF S, n
<1>6. h \in Injection(S, 1 .. MaxTimers)
  BY <1>1, <1>2, <1>5 DEF Bijection, Injection
<1> QED BY <1>6 DEF S

\* Where the events can be numbered by sleepers and timers, a thread that does
\* not sleep finds a free cell.
LEMMA RoomForWakeup ==
    ASSUME EnoughEvents, IInv, TimerIInv, SleepInv,
           currTcb \in Thread \ {Idle}, tcb[currTcb].state = "READY"
    PROVE  HasRoom(timedEvents)
<1> SUFFICES ASSUME Pending(timedEvents) = EventCell PROVE FALSE
  BY DEF HasRoom
<1> DEFINE others == (Thread \ {Idle}) \ {currTcb}
           B == (others \X {0}) \cup (UserProc \X (1 .. MaxTimers))
           G == [p \in Proc |->
                   CHOOSE h : h \in Injection(TimersOf(timedEvents, tcb, p), 1 .. MaxTimers)]
           proc(i) == tcb[timedEvents[i].tcb].pcb
           f == [i \in EventCell |->
                   IF timedEvents[i].func = "wakeupThread"
                   THEN <<timedEvents[i].tcb, 0>>
                   ELSE <<proc(i), G[proc(i)][i]>>]
<1>1. \A p \in Proc : G[p] \in Injection(TimersOf(timedEvents, tcb, p), 1 .. MaxTimers)
  BY TimersNumbered
<1> HIDE DEF G
<1>2. /\ timedEvents \in EventTable /\ tcb \in [Thread -> TCB]
      /\ MaxTimers \in Nat /\ MaxEvents \in Nat
  BY KernelAssumption DEF IInv, ThreadInv
<1>3. ASSUME NEW i \in EventCell
      PROVE  /\ timedEvents[i].tcb \in Thread \ {Idle}
             /\ timedEvents[i].func \in EventFunc
             /\ tcb[timedEvents[i].tcb].state # "FREE"
             /\ i \in Pending(timedEvents)
  <2>1. i \in Pending(timedEvents) /\ timedEvents[i] \in TimedEvent
    BY <1>2 DEF EventTable, Pending
  <2> QED BY <2>1 DEF TimerIInv, IdleHasNone, IInv, ThreadInv, EventsLive, TimedEvent
<1>4. ASSUME NEW i \in EventCell, timedEvents[i].func = "wakeupThread"
      PROVE  timedEvents[i].tcb \in others
  <2>1. tcb[timedEvents[i].tcb].wait = "SLEEP"
    BY <1>3, <1>4 DEF SleepInv, WakeupsOK, IsWakeup
  <2>2. tcb[timedEvents[i].tcb].state = "BLOCKED"
    BY <1>3, <2>1 DEF SleepInv, SleepersOK
  <2> QED BY <1>3, <2>2
<1>5. ASSUME NEW i \in EventCell, timedEvents[i].func # "wakeupThread"
      PROVE  /\ proc(i) \in UserProc
             /\ i \in TimersOf(timedEvents, tcb, proc(i))
             /\ G[proc(i)][i] \in 1 .. MaxTimers
  <2>1. proc(i) \in Proc /\ proc(i) # IdleProc
    BY <1>2, <1>3 DEF IInv, OwnerInv, ProcsOK, TCB
  <2>2. i \in TimersOf(timedEvents, tcb, proc(i))
    BY <1>3, <1>5 DEF TimersOf, EventFunc
  <2>3. G[proc(i)] \in [TimersOf(timedEvents, tcb, proc(i)) -> 1 .. MaxTimers]
    BY <1>1, <2>1 DEF Injection
  <2>4. proc(i) \in UserProc
    BY <2>1, KernelAssumption
  <2> QED BY <2>2, <2>3, <2>4
<1>6. f \in [EventCell -> B]
  <2> SUFFICES ASSUME NEW i \in EventCell PROVE f[i] \in B
    OBVIOUS
  <2>1. CASE timedEvents[i].func = "wakeupThread"
    BY <1>4, <2>1
  <2>2. CASE timedEvents[i].func # "wakeupThread"
    BY <1>5, <2>2
  <2> QED BY <2>1, <2>2
<1>7. ASSUME NEW i \in EventCell, NEW j \in EventCell, f[i] = f[j]
      PROVE  i = j
  <2>1. CASE timedEvents[i].func = "wakeupThread" /\ timedEvents[j].func = "wakeupThread"
    <3>1. timedEvents[i].tcb = timedEvents[j].tcb
      BY <1>7, <2>1
    <3> QED BY <1>3, <2>1, <3>1 DEF SleepInv, WakeupsOK, IsWakeup
  <2>2. CASE timedEvents[i].func # "wakeupThread" /\ timedEvents[j].func # "wakeupThread"
    <3>1. proc(i) = proc(j) /\ G[proc(i)][i] = G[proc(i)][j]
      BY <1>7, <2>2
    <3>2. /\ i \in TimersOf(timedEvents, tcb, proc(i))
          /\ j \in TimersOf(timedEvents, tcb, proc(i))
          /\ proc(i) \in Proc
      BY <1>5, <2>2, <3>1, KernelAssumption
    <3>3. \A a, b \in TimersOf(timedEvents, tcb, proc(i)) :
             G[proc(i)][a] = G[proc(i)][b] => a = b
      BY <1>1, <3>2 DEF Injection, IsInjective
    <3> QED BY <3>1, <3>2, <3>3
  <2>3. CASE timedEvents[i].func = "wakeupThread" /\ timedEvents[j].func # "wakeupThread"
    <3>1. G[proc(j)][j] = 0
      BY <1>7, <2>3
    <3> QED BY <1>2, <1>5, <2>3, <3>1
  <2>4. CASE timedEvents[i].func # "wakeupThread" /\ timedEvents[j].func = "wakeupThread"
    <3>1. G[proc(i)][i] = 0
      BY <1>7, <2>4
    <3> QED BY <1>2, <1>5, <2>4, <3>1
  <2> QED BY <2>1, <2>2, <2>3, <2>4
<1>8. f \in Injection(EventCell, B)
  BY <1>6, <1>7 DEF Injection, IsInjective
<1> HIDE DEF f, B
<1>9. IsFiniteSet(B) /\ Cardinality(B) < MaxEvents
  <2> DEFINE T == Thread \ {Idle}
             P == UserProc \X (1 .. MaxTimers)
             m == Cardinality(UserProc) * MaxTimers
  <2>1. IsFiniteSet(T) /\ currTcb \in T /\ Cardinality(T) \in Nat
    BY KernelAssumption, FS_RemoveElement, FS_CardinalityType
  <2>2. IsFiniteSet(others) /\ Cardinality(others) = Cardinality(T) - 1
    BY <2>1, FS_RemoveElement
  <2> HIDE DEF others
  <2>3. /\ IsFiniteSet(others \X {0})
        /\ Cardinality(others \X {0}) = Cardinality(others) * 1
    <3>1. IsFiniteSet({0}) /\ Cardinality({0}) = 1
      BY FS_Singleton
    <3> QED BY <2>2, <3>1, FS_Product
  <2>4. IsFiniteSet(1 .. MaxTimers) /\ Cardinality(1 .. MaxTimers) = MaxTimers
    BY <1>2, FS_Interval
  <2>5. IsFiniteSet(P) /\ Cardinality(P) = m /\ m \in Nat
    <3>1. IsFiniteSet(P) /\ Cardinality(P) = m
      BY <2>4, ProcsFinite, FS_Product
    <3> QED BY <3>1, FS_CardinalityType
  <2> HIDE DEF T, P, m
  <2>6. Cardinality(others \X {0}) = Cardinality(T) - 1
    BY <2>1, <2>2, <2>3
  <2>7. B = (others \X {0}) \cup P
    BY DEF B, P
  <2>8. /\ IsFiniteSet(B)
        /\ Cardinality(B) <= Cardinality(T) - 1 + m
    <3>1. /\ IsFiniteSet(B)
          /\ Cardinality(B) = Cardinality(others \X {0}) + Cardinality(P)
                              - Cardinality((others \X {0}) \cap P)
      BY <2>3, <2>5, <2>7, FS_Union
    <3>2. Cardinality((others \X {0}) \cap P) \in Nat
      BY <2>3, FS_Intersection, FS_CardinalityType
    <3>3. Cardinality(B) \in Nat
      BY <3>1, FS_CardinalityType
    <3> QED BY <2>1, <2>5, <2>6, <3>1, <3>2, <3>3
  <2>9. MaxEvents >= Cardinality(T) + m
    BY DEF EnoughEvents, T, m
  <2>10. Cardinality(B) \in Nat
    BY <2>8, FS_CardinalityType
  <2> QED BY <1>2, <2>1, <2>5, <2>8, <2>9, <2>10
<1>10. Cardinality(EventCell) <= Cardinality(B)
  BY <1>8, <1>9, FS_Injection
<1>11. Cardinality(EventCell) = MaxEvents
  BY <1>2, FS_Interval, KernelAssumption DEF EventCell
<1>12. Cardinality(B) \in Nat
  BY <1>9, FS_CardinalityType
<1> QED BY <1>2, <1>9, <1>10, <1>11, <1>12

\* The inductive step for the wake-ups that are owed: only the caller falls
\* asleep, and it finds room for its wake-up; a wake-up goes with its sleep.
LEMMA WakeupInvNext ==
    ASSUME EnoughEvents, IInv, TimerIInv, SleepInv, WakeupInv, [Next]_vars
    PROVE  WakeupInv'
<1>0. /\ timedEvents \in EventTable /\ tcb \in [Thread -> TCB]
      /\ SleepersOK(tcb) /\ WakeupsOK(timedEvents, tcb)
      /\ HaveWakeups(timedEvents, tcb)
  BY DEF SleepInv, WakeupInv, IInv, ThreadInv
<1>1. ASSUME SameWakeups(timedEvents, timedEvents'), Quiet(tcb, tcb')
      PROVE  WakeupInv'
  BY <1>0, <1>1, WakeupsStay DEF WakeupInv, Quiet
<1>2. CASE Quiet(tcb, tcb') /\ timedEvents' \in {timedEvents, Aged(timedEvents)}
  <2>1. SameWakeups(timedEvents, timedEvents)
    BY DEF SameWakeups
  <2> QED BY <1>0, <1>1, <1>2, <2>1, AgedWakeups
<1>3. ASSUME NEW ms \in SleepMs, NEW bits \in SleepBits, Sleep(ms, bits)
      PROVE  WakeupInv'
  <2>1. /\ currTcb \in Thread \ {Idle} /\ tcb[currTcb].state = "READY"
        /\ \A s \in Thread \ {currTcb} : tcb'[s] = tcb[s]
    BY <1>3, SleepKind
  <2>2. HasRoom(timedEvents)
    BY <2>1, RoomForWakeup
  <2>3. PICK k \in EventCell, e \in TimedEvent :
           /\ timedEvents[k] = NoEvent
           /\ timedEvents' = [timedEvents EXCEPT ![k] = e]
           /\ e.func = "wakeupThread" /\ e.tcb = currTcb
    BY <1>3, <2>2, SleepKind
  <2>4. timedEvents'[k] = e /\ \A j \in EventCell \ {k} : timedEvents'[j] = timedEvents[j]
    BY <1>0, <2>3 DEF EventTable
  <2>5. \A j \in EventCell : IsWakeup(timedEvents, j) =>
           IsWakeup(timedEvents', j) /\ timedEvents'[j] = timedEvents[j]
    BY <2>3, <2>4 DEF IsWakeup, Pending
  <2>6. IsWakeup(timedEvents', k) /\ timedEvents'[k].tcb = currTcb
    BY <2>3, <2>4, NoEventAssumption DEF IsWakeup, Pending
  <2>7. ASSUME NEW s \in Thread, tcb'[s].wait = "SLEEP"
        PROVE  \E i \in EventCell : IsWakeup(timedEvents', i) /\ timedEvents'[i].tcb = s
    <3>1. CASE s = currTcb
      BY <2>6, <3>1
    <3>2. CASE s # currTcb
      <4>1. PICK i \in EventCell : IsWakeup(timedEvents, i) /\ timedEvents[i].tcb = s
        BY <1>0, <2>1, <2>7, <3>2 DEF HaveWakeups
      <4> QED BY <2>5, <4>1
    <3> QED BY <3>1, <3>2
  <2> QED BY <2>7 DEF WakeupInv, HaveWakeups
<1>4. ASSUME NEW ms \in TimerMs, NEW repeat \in BOOLEAN, SetTimer(ms, repeat)
      PROVE  WakeupInv'
  <2>1. PICK k \in EventCell, e \in TimedEvent :
           /\ timedEvents[k] = NoEvent
           /\ timedEvents' = [timedEvents EXCEPT ![k] = e]
           /\ e.func = "threadTimer"
    BY <1>4, SetTimerKind
  <2>2. SameWakeups(timedEvents, timedEvents')
    BY <1>0, <2>1, OtherEvent DEF IsWakeup, Pending
  <2>3. Quiet(tcb, tcb')
    BY <1>4, SameQuiet DEF SetTimer
  <2> QED BY <1>1, <2>2, <2>3
<1>5. ASSUME NEW i \in EventCell, WakeupThread(i) PROVE WakeupInv'
  <2> DEFINE t == timedEvents[i].tcb
  <2>1. /\ t \in Thread
        /\ tcb'[t].wait = "NONE"
        /\ \A s \in Thread \ {t} : tcb'[s] = tcb[s]
        /\ \A j \in EventCell \ {i} : timedEvents'[j] = timedEvents[j]
    BY <1>5, WakeupThreadKind
  <2>2. \A j \in EventCell : IsWakeup(timedEvents, j) /\ timedEvents[j].tcb # t =>
           IsWakeup(timedEvents', j) /\ timedEvents'[j] = timedEvents[j]
    BY <2>1 DEF IsWakeup, Pending
  <2> HIDE DEF t
  <2> QED BY <1>0, <2>1, <2>2 DEF WakeupInv, HaveWakeups
<1>6. ASSUME NEW i \in EventCell, ThreadTimer(i) PROVE WakeupInv'
  <2>1. SameWakeups(timedEvents, timedEvents') /\ Quiet(tcb, tcb')
    BY <1>0, <1>6, ThreadTimerSame
  <2> QED BY <1>1, <2>1
<1>7. ASSUME NEW t \in Thread, DestroyTCB(t) PROVE WakeupInv'
  <2>1. /\ tcb'[t].wait = "NONE"
        /\ \A s \in Thread \ {t} : tcb'[s] = tcb[s]
        /\ \A i \in EventCell :
              timedEvents'[i] = IF timedEvents[i] # NoEvent /\ timedEvents[i].tcb = t
                                THEN NoEvent ELSE timedEvents[i]
    BY <1>7, DestroyKind
  <2>2. \A j \in EventCell : IsWakeup(timedEvents, j) /\ timedEvents[j].tcb # t =>
           IsWakeup(timedEvents', j) /\ timedEvents'[j] = timedEvents[j]
    BY <2>1 DEF IsWakeup, Pending
  <2> QED BY <1>0, <2>1, <2>2 DEF WakeupInv, HaveWakeups
<1> QED BY <1>2, <1>3, <1>4, <1>5, <1>6, <1>7, StepKinds

-----------------------------------------------------------------------------
(***************************************************************************)
(* The theorems about wake-ups                                             *)
(***************************************************************************)

\* Wake-ups are for sleepers, at most one for each, for any number of threads.
THEOREM WakeupsAreForSleepers ==
    ASSUME BitsAreNoHandle PROVE Spec => []SleepInv
<1>1. Init => SleepInv
  BY NoEventsAtBoot DEF SleepInv, SleepersOK, WakeupsOK, IsWakeup
<1>2. IInv /\ SleepInv /\ [Next]_vars => SleepInv'
  BY SleepInvNext
<1> QED BY <1>1, <1>2, InductiveInvariant, PTL DEF Spec

\* With memory enough for its events, every thread that sleeps has one wake-up
\* pending, and no other thread has one: it wakes up, once.
THEOREM SleepersHaveOneWakeup ==
    ASSUME EnoughEvents, BitsAreNoHandle
    PROVE  Spec => []OneWakeupPerSleeper
<1>1. Init => SleepInv /\ WakeupInv /\ TimerIInv
  <2> SUFFICES ASSUME Init PROVE SleepInv /\ WakeupInv /\ TimerIInv
    OBVIOUS
  <2>1. TimerIInv
    BY TimersAtBoot
  <2> QED BY <2>1, NoEventsAtBoot
          DEF SleepInv, SleepersOK, WakeupsOK, IsWakeup, WakeupInv, HaveWakeups
<1>2. /\ IInv /\ SleepInv /\ WakeupInv /\ TimerIInv /\ [Next]_vars
      => SleepInv' /\ WakeupInv' /\ TimerIInv'
  BY SleepInvNext, WakeupInvNext, TimerInvNext
<1>3. SleepInv /\ WakeupInv => OneWakeupPerSleeper
  <2> SUFFICES ASSUME SleepInv, WakeupInv, NEW t \in Thread
               PROVE  Cardinality(Wakeups(t)) = (IF tcb[t].wait = "SLEEP" THEN 1 ELSE 0)
    BY DEF OneWakeupPerSleeper
  <2>1. CASE tcb[t].wait = "SLEEP"
    <3>1. PICK i \in EventCell : IsWakeup(timedEvents, i) /\ timedEvents[i].tcb = t
      BY <2>1 DEF WakeupInv, HaveWakeups
    <3>2. Wakeups(t) = {i}
      BY <3>1 DEF Wakeups, IsWakeup, SleepInv, WakeupsOK, Pending
    <3> QED BY <2>1, <3>2, FS_Singleton
  <2>2. CASE tcb[t].wait # "SLEEP"
    <3>1. Wakeups(t) = {}
      BY <2>2 DEF Wakeups, IsWakeup, SleepInv, WakeupsOK, Pending
    <3> QED BY <2>2, <3>1, FS_EmptySet
  <2> QED BY <2>1, <2>2
<1> QED BY <1>1, <1>2, <1>3, InductiveInvariant, PTL DEF Spec

-----------------------------------------------------------------------------
(***************************************************************************)
(* The time that is left to sleep                                          *)
(***************************************************************************)

\* No interval reads as a negative number of quanta.
IntervalsAreSigned == \A ms \in SleepMs : ms < HalfRange

\* The inductive invariant of the time that is left to sleep
SleepTimeInv == IInv /\ SleepInv /\ RemainingOK

\* What is observed are steps of the kernel.
LEMMA SleepStepIsKernelStep ==
    ASSUME [SleepNext]_sleepVars
    PROVE  [Next]_vars
BY DEF SleepNext, SleepFor, QuantumPasses, OtherStep, sleepVars, Next, Syscall, Interrupt

\* The wake-ups of F are wake-ups of E.
WakeupsFrom(E, F) ==
    \A j \in EventCell : IsWakeup(F, j) => F[j] = E[j]

\* An event that is no wake-up changes no wake-up.
LEMMA OtherEventKeeps ==
    ASSUME NEW E \in EventTable, NEW k \in EventCell, NEW e \in TimedEvent \cup {NoEvent},
           e # NoEvent => e.func # "wakeupThread"
    PROVE  WakeupsFrom(E, [E EXCEPT ![k] = e])
<1> DEFINE F == [E EXCEPT ![k] = e]
<1>1. F[k] = e /\ \A i \in EventCell \ {k} : F[i] = E[i]
  BY DEF EventTable
<1> HIDE DEF F
<1>2. WakeupsFrom(E, F)
  BY <1>1 DEF WakeupsFrom, IsWakeup, Pending
<1> QED BY <1>2 DEF F

\* Only a sleep adds a wake-up.
LEMMA OthersKeepWakeups ==
    ASSUME IInv, OtherStep
    PROVE  WakeupsFrom(timedEvents, timedEvents')
<1>0. timedEvents \in EventTable
  BY DEF IInv, ThreadInv
<1>1. CASE UNCHANGED timedEvents
  BY <1>1 DEF WakeupsFrom
<1>2. ASSUME NEW ms \in TimerMs, NEW repeat \in BOOLEAN, SetTimer(ms, repeat)
      PROVE  WakeupsFrom(timedEvents, timedEvents')
  <2>1. PICK k \in EventCell, e \in TimedEvent :
           timedEvents' = [timedEvents EXCEPT ![k] = e] /\ e.func = "threadTimer"
    BY <1>2, SetTimerKind
  <2> QED BY <1>0, <2>1, OtherEventKeeps
<1>3. ASSUME NEW i \in EventCell, WakeupThread(i)
      PROVE  WakeupsFrom(timedEvents, timedEvents')
  BY <1>3, WakeupThreadKind DEF WakeupsFrom, IsWakeup, Pending
<1>4. ASSUME NEW i \in EventCell, ThreadTimer(i)
      PROVE  WakeupsFrom(timedEvents, timedEvents')
  <2> DEFINE popped == [timedEvents EXCEPT ![i] = NoEvent]
  <2>1. /\ popped \in EventTable
        /\ \/ timedEvents' = popped
           \/ \E k \in EventCell, f \in TimedEvent :
                 timedEvents' = [popped EXCEPT ![k] = f] /\ f.func = "threadTimer"
    BY <1>4, ThreadTimerKind
  <2>2. WakeupsFrom(timedEvents, popped)
    BY <1>0, OtherEventKeeps
  <2> HIDE DEF popped
  <2>3. CASE timedEvents' = popped
    BY <2>2, <2>3
  <2>4. ASSUME NEW k \in EventCell, NEW f \in TimedEvent,
               timedEvents' = [popped EXCEPT ![k] = f], f.func = "threadTimer"
        PROVE  WakeupsFrom(timedEvents, timedEvents')
    <3>1. WakeupsFrom(popped, timedEvents')
      BY <2>1, <2>4, OtherEventKeeps
    <3> QED BY <2>2, <3>1 DEF WakeupsFrom, IsWakeup, Pending
  <2> QED BY <2>1, <2>3, <2>4
<1>5. ASSUME NEW t \in Thread, DestroyTCB(t)
      PROVE  WakeupsFrom(timedEvents, timedEvents')
  BY <1>5, DestroyKind DEF WakeupsFrom, IsWakeup, Pending
<1> QED BY <1>1, <1>2, <1>3, <1>4, <1>5, OtherStepKinds DEF OtherStep

\* A wake-up is due no earlier than its sleeper's interval ends: it is added for
\* the whole interval, and both go down with each quantum.
LEMMA RemainingNext ==
    ASSUME IntervalsAreSigned, IInv, SleepInv, RemainingOK, [SleepNext]_sleepVars
    PROVE  RemainingOK'
<1>0. /\ timedEvents \in EventTable
      /\ remaining \in [Thread -> Nat]
      /\ \A i \in EventCell : IsWakeup(timedEvents, i) =>
            /\ timedEvents[i].tcb \in Thread /\ timedEvents[i].due \in Int
            /\ \/ remaining[timedEvents[i].tcb] = 0
               \/ remaining[timedEvents[i].tcb] <= timedEvents[i].due
  BY DEF IInv, ThreadInv, EventTable, IsWakeup, Pending, TimedEvent, RemainingOK
<1>1. ASSUME NEW ms \in SleepMs, NEW bits \in SleepBits, SleepFor(ms, bits)
      PROVE  RemainingOK'
  <2>1. /\ Sleep(ms, bits) /\ currTcb \in Thread /\ tcb[currTcb].state = "READY"
        /\ ms \in Nat /\ S32(ms) = ms
        /\ remaining' = [remaining EXCEPT ![currTcb] = ms]
    BY <1>1, SleepKind, KernelAssumption DEF SleepFor, IntervalsAreSigned, S32
  <2>2. /\ remaining' \in [Thread -> Nat]
        /\ remaining'[currTcb] = ms
        /\ \A s \in Thread \ {currTcb} : remaining'[s] = remaining[s]
    BY <1>0, <2>1
  <2>3. \A i \in EventCell : IsWakeup(timedEvents, i) => timedEvents[i].tcb # currTcb
    BY <2>1 DEF SleepInv, SleepersOK, WakeupsOK
  <2>4. CASE UNCHANGED timedEvents
    BY <1>0, <2>2, <2>3, <2>4 DEF RemainingOK
  <2>5. ASSUME NEW k \in EventCell, NEW e \in TimedEvent,
               timedEvents' = [timedEvents EXCEPT ![k] = e],
               e.func = "wakeupThread", e.tcb = currTcb, e.due = S32(ms)
        PROVE  RemainingOK'
    <3>1. timedEvents'[k] = e /\ \A j \in EventCell \ {k} : timedEvents'[j] = timedEvents[j]
      BY <1>0, <2>5 DEF EventTable
    <3>2. ASSUME NEW i \in EventCell, IsWakeup(timedEvents', i)
          PROVE  \/ remaining'[timedEvents'[i].tcb] = 0
                 \/ remaining'[timedEvents'[i].tcb] <= timedEvents'[i].due
      <4>1. CASE i = k
        BY <2>1, <2>2, <2>5, <3>1, <4>1
      <4>2. CASE i # k
        <5>1. IsWakeup(timedEvents, i) /\ timedEvents'[i] = timedEvents[i]
          BY <3>1, <3>2, <4>2 DEF IsWakeup, Pending
        <5> QED BY <1>0, <2>2, <2>3, <5>1
      <4> QED BY <4>1, <4>2
    <3> QED BY <2>2, <3>2 DEF RemainingOK
  <2> QED BY <2>1, <2>4, <2>5, SleepKind
<1>2. CASE QuantumPasses
  <2>1. /\ timedEvents' = Aged(timedEvents)
        /\ \A t \in Thread : remaining'[t] = IF remaining[t] > 0 THEN remaining[t] - 1 ELSE 0
        /\ remaining' \in [Thread -> Nat]
    BY <1>0, <1>2 DEF QuantumPasses, TimerIRQ
  <2>2. ASSUME NEW i \in EventCell, IsWakeup(timedEvents', i)
        PROVE  \/ remaining'[timedEvents'[i].tcb] = 0
               \/ remaining'[timedEvents'[i].tcb] <= timedEvents'[i].due
    <3>1. /\ IsWakeup(timedEvents, i)
          /\ timedEvents'[i].tcb = timedEvents[i].tcb
          /\ timedEvents'[i].due = timedEvents[i].due - 1
      BY <1>0, <2>1, <2>2, AgedEvents DEF IsWakeup
    <3> QED BY <1>0, <2>1, <3>1
  <2> QED BY <2>1, <2>2 DEF RemainingOK
<1>3. CASE OtherStep
  <2>1. remaining' = remaining /\ WakeupsFrom(timedEvents, timedEvents')
    BY <1>3, OthersKeepWakeups DEF OtherStep
  <2> QED BY <1>0, <2>1 DEF RemainingOK, WakeupsFrom, IsWakeup, Pending
<1>4. CASE UNCHANGED sleepVars
  BY <1>0, <1>4 DEF sleepVars, vars, RemainingOK, IsWakeup, Pending
<1> QED BY <1>1, <1>2, <1>3, <1>4 DEF SleepNext

\* Only timedEvent_wakeupThread makes a sleeper ready, and only when its wake-up
\* is due.
LEMMA WokenWhenDue ==
    ASSUME IInv, SleepInv, RemainingOK, [Next]_vars, NEW t \in Thread,
           tcb[t].wait = "SLEEP", tcb'[t].state = "READY"
    PROVE  remaining[t] = 0
<1>1. tcb[t].state = "BLOCKED" /\ SleepersOK(tcb)
  BY DEF SleepInv, SleepersOK
<1>2. ~Quiet(tcb, tcb')
  BY <1>1 DEF Quiet, SleepersKept
<1>3. ASSUME NEW ms \in SleepMs, NEW bits \in SleepBits, Sleep(ms, bits) PROVE FALSE
  BY <1>1, <1>3, SleepKind
<1>4. ASSUME NEW ms \in TimerMs, NEW repeat \in BOOLEAN, SetTimer(ms, repeat) PROVE FALSE
  BY <1>2, <1>4, SameQuiet DEF SetTimer
<1>5. ASSUME NEW u \in Thread, DestroyTCB(u) PROVE FALSE
  BY <1>1, <1>5, DestroyKind
<1>6. ASSUME NEW i \in EventCell, ThreadTimer(i) PROVE FALSE
  BY <1>2, <1>6, ThreadTimerSame
<1>7. PICK i \in EventCell : WakeupThread(i)
  BY <1>2, <1>3, <1>4, <1>5, <1>6, StepKinds
<1>8. /\ IsWakeup(timedEvents, i) /\ timedEvents[i].due <= 0 /\ timedEvents[i].tcb = t
  BY <1>1, <1>7, WakeupThreadKind
<1>9. timedEvents[i].due \in Int
  BY <1>8 DEF IsWakeup, Pending, IInv, ThreadInv, EventTable, TimedEvent
<1> QED BY <1>8, <1>9 DEF RemainingOK

\* No thread wakes up before the interval it gave to prc_putThreadToSleep has
\* passed, for any number of threads and intervals below 2^31 ms.
THEOREM SleepsLastLongEnough ==
    ASSUME BitsAreNoHandle, IntervalsAreSigned
    PROVE  SleepSpec => SleepLastsLongEnough
<1>1. SleepInit => SleepTimeInv
  <2> SUFFICES ASSUME SleepInit PROVE SleepTimeInv
    OBVIOUS
  <2>1. Init /\ remaining = [t \in Thread |-> 0]
    BY DEF SleepInit
  <2>2. IInv
    BY <2>1, InitIInv
  <2>3. SleepInv /\ RemainingOK
    BY <2>1, NoEventsAtBoot DEF SleepInv, SleepersOK, WakeupsOK, IsWakeup, RemainingOK
  <2> QED BY <2>2, <2>3 DEF SleepTimeInv
<1>2. SleepTimeInv /\ [SleepNext]_sleepVars => SleepTimeInv'
  <2> SUFFICES ASSUME SleepTimeInv, [SleepNext]_sleepVars PROVE SleepTimeInv'
    OBVIOUS
  <2>1. IInv /\ SleepInv /\ RemainingOK /\ [Next]_vars
    BY SleepStepIsKernelStep DEF SleepTimeInv
  <2>2. IInv'
    BY <2>1, NextIInv
  <2>3. SleepInv'
    BY <2>1, SleepInvNext
  <2>4. RemainingOK'
    BY <2>1, RemainingNext
  <2> QED BY <2>2, <2>3, <2>4 DEF SleepTimeInv
<1>3. SleepTimeInv /\ [SleepNext]_sleepVars
      => [\A t \in Thread : tcb[t].wait = "SLEEP" /\ tcb'[t].state = "READY"
                             => remaining[t] = 0]_sleepVars
  BY SleepStepIsKernelStep, WokenWhenDue DEF SleepTimeInv
<1> QED BY <1>1, <1>2, <1>3, PTL DEF SleepSpec, SleepLastsLongEnough

-----------------------------------------------------------------------------
(***************************************************************************)
(* The order of the ready queue                                            *)
(***************************************************************************)

\* From queue q to queue r only c and threads that were not in q fall behind.
OrderKept(q, r, c) ==
    \A s, t : Before(r, t, s) => Before(q, t, s) \/ s = c \/ ~InQueue(q, s)

\* queue32_remove: the others keep their order.
LEMMA RemovalKeepsOrder ==
    ASSUME NEW q \in Seq(Thread), NEW u, NoRepeats(q)
    PROVE  \A s, t : Before(Dequeued(q, u), t, s) => Before(q, t, s)
<1> DEFINE d == Dequeued(q, u)
<1>0. Len(q) \in Nat /\ \A i \in 1 .. Len(q) : q[i] \in Thread
  BY LenProperties
<1>1. CASE ~ \E i \in 1 .. Len(q) : q[i] = u
  BY <1>1 DEF Dequeued
<1>2. CASE \E i \in 1 .. Len(q) : q[i] = u
  <2> DEFINE k == CHOOSE i \in 1 .. Len(q) :
                    q[i] = u /\ \A j \in 1 .. i - 1 : q[j] # u
  <2>1. PICK m \in 1 .. Len(q) : q[m] = u
    BY <1>2
  <2>2. \A j \in 1 .. m - 1 : q[j] # u
    BY <1>0, <2>1 DEF NoRepeats
  <2>3. k \in 1 .. Len(q)
    BY <2>1, <2>2
  <2>4. d = [i \in 1 .. Len(q) - 1 |-> IF i < k THEN q[i] ELSE q[i + 1]]
    BY <1>2 DEF Dequeued
  <2> HIDE DEF k, d
  <2>5. \A i \in 1 .. Len(q) - 1 : (IF i < k THEN q[i] ELSE q[i + 1]) \in Thread
    BY <1>0, <2>3
  <2>6. Len(q) - 1 \in Nat
    BY <1>0, <2>1
  <2>7. Len(d) = Len(q) - 1
    BY <2>4, <2>5, <2>6, FunctionIsSeq
  <2>8. ASSUME NEW s, NEW t, Before(d, t, s) PROVE Before(q, t, s)
    <3>1. PICK i \in 1 .. Len(q) - 1, j \in 1 .. Len(q) - 1 : i < j /\ d[i] = t /\ d[j] = s
      BY <2>7, <2>8 DEF Before
    <3> DEFINE a == IF i < k THEN i ELSE i + 1
               b == IF j < k THEN j ELSE j + 1
    <3>2. a \in 1 .. Len(q) /\ b \in 1 .. Len(q) /\ a < b
      BY <1>0, <2>3, <3>1
    <3>3. q[a] = t /\ q[b] = s
      BY <2>4, <3>1
    <3> HIDE DEF a, b
    <3> QED BY <3>2, <3>3 DEF Before
  <2> QED BY <2>8 DEF d
<1> QED BY <1>1, <1>2

\* queue32_push: who is pushed is behind all others.
LEMMA PushKeepsOrder ==
    ASSUME NEW q \in Seq(Thread), NEW u \in Thread
    PROVE  \A s, t : Before(Pushed(q, u), t, s) => Before(q, t, s) \/ s = u
<1>0. Len(q) \in Nat
  OBVIOUS
<1>1. CASE Len(q) < MaxReady
  <2> DEFINE a == Append(q, u)
  <2>1. Pushed(q, u) = a
    BY <1>1 DEF Pushed
  <2>2. /\ Len(a) = Len(q) + 1
        /\ \A i \in 1 .. Len(q) : a[i] = q[i]
        /\ a[Len(q) + 1] = u
    BY <1>0
  <2> HIDE DEF a
  <2>3. ASSUME NEW s, NEW t, Before(a, t, s), s # u PROVE Before(q, t, s)
    <3>1. PICK i \in 1 .. Len(a), j \in 1 .. Len(a) : i < j /\ a[i] = t /\ a[j] = s
      BY <2>3 DEF Before
    <3>2. j \in 1 .. Len(q) /\ i \in 1 .. Len(q)
      BY <1>0, <2>2, <2>3, <3>1
    <3> QED BY <2>2, <3>1, <3>2 DEF Before
  <2> QED BY <2>1, <2>3
<1>2. CASE ~(Len(q) < MaxReady)
  BY <1>2 DEF Pushed
<1> QED BY <1>1, <1>2

\* krn_taskScheduler puts the head of the queue at its end.
LEMMA RotationKeepsOrder ==
    ASSUME NEW q \in Seq(Thread), q # << >>
    PROVE  \A s, t : Before(Append(Tail(q), Head(q)), t, s) => Before(q, t, s) \/ s = Head(q)
<1> DEFINE r == Append(Tail(q), Head(q))
<1>0. Len(q) \in Nat \ {0}
  BY EmptySeq
<1>1. /\ Len(r) = Len(q)
      /\ \A i \in 1 .. Len(q) - 1 : r[i] = q[i + 1]
      /\ r[Len(q)] = Head(q)
  BY <1>0
<1> HIDE DEF r
<1>2. ASSUME NEW s, NEW t, Before(r, t, s), s # Head(q) PROVE Before(q, t, s)
  <2>1. PICK i \in 1 .. Len(q), j \in 1 .. Len(q) : i < j /\ r[i] = t /\ r[j] = s
    BY <1>1, <1>2 DEF Before
  <2>2. j # Len(q)
    BY <1>1, <1>2, <2>1
  <2>3. i + 1 \in 1 .. Len(q) /\ j + 1 \in 1 .. Len(q) /\ i + 1 < j + 1
    BY <1>0, <2>1, <2>2
  <2>4. q[i + 1] = t /\ q[j + 1] = s
    BY <1>0, <1>1, <2>1, <2>2
  <2> QED BY <2>3, <2>4 DEF Before
<1> QED BY <1>2 DEF r

\* krn_pickNextTcb on a queue from which at most a thread was taken.
LEMMA PickKeepsOrder ==
    ASSUME IInv, NEW u, PickNext(Dequeued(tcbReady, u)) \/ PickNext(tcbReady)
    PROVE  OrderKept(tcbReady, tcbReady', currTcb')
<1>0. tcbReady \in Seq(Thread) /\ NoRepeats(tcbReady)
  BY DEF IInv, ThreadInv, QueueOK
<1>1. ASSUME NEW q \in Seq(Thread), PickNext(q),
             \A s, t : Before(q, t, s) => Before(tcbReady, t, s)
      PROVE  OrderKept(tcbReady, tcbReady', currTcb')
  <2>1. CASE q = << >>
    BY <1>1, <2>1 DEF PickNext, OrderKept
  <2>2. CASE q # << >>
    <3>1. tcbReady' = Append(Tail(q), Head(q)) /\ currTcb' = Head(q)
      BY <1>1, <2>2 DEF PickNext
    <3> QED BY <1>1, <2>2, <3>1, RotationKeepsOrder DEF OrderKept
  <2> QED BY <2>1, <2>2
<1>2. CASE PickNext(Dequeued(tcbReady, u))
  BY <1>0, <1>1, <1>2, RemovalKeepsOrder, DequeuedProperties
<1> QED BY <1>0, <1>1, <1>2

\* tcb_enqueue of a thread that was not ready.
LEMMA EnqueueKeepsOrder ==
    ASSUME IInv, NEW u \in Thread, tcb[u].state # "READY", NEW c
    PROVE  /\ OrderKept(tcbReady, Enqueued(tcbReady, u), c)
           /\ OrderKept(tcbReady, Pushed(tcbReady, u), c)
<1>0. tcbReady \in Seq(Thread) /\ NoRepeats(tcbReady)
  BY DEF IInv, ThreadInv, QueueOK
<1>1. ~InQueue(tcbReady, u)
  BY QueueMembers DEF IInv, ThreadInv
<1>2. Dequeued(tcbReady, u) \in Seq(Thread)
  BY <1>0, DequeuedProperties
<1>3. /\ \A s, t : Before(Enqueued(tcbReady, u), t, s) =>
                      Before(Dequeued(tcbReady, u), t, s) \/ s = u
      /\ \A s, t : Before(Pushed(tcbReady, u), t, s) => Before(tcbReady, t, s) \/ s = u
  BY <1>0, <1>2, PushKeepsOrder DEF Enqueued
<1> QED BY <1>0, <1>1, <1>3, RemovalKeepsOrder DEF OrderKept

\* prc_postThreadMsg makes a thread ready, or leaves the queue alone.
LEMMA PostKeepsOrder ==
    ASSUME IInv, NEW u \in Thread, NEW c
    PROVE  OrderKept(tcbReady, PostedReady(tcb, tcbReady, u), c)
<1>1. CASE WakesOnMsg(tcb, u)
  BY <1>1, EnqueueKeepsOrder DEF PostedReady, WakesOnMsg
<1>2. CASE ~WakesOnMsg(tcb, u)
  BY <1>2 DEF PostedReady, OrderKept
<1> QED BY <1>1, <1>2

\* prc_destroyTCB of the current thread, or of another one
LEMMA DestructionKeepsOrder ==
    ASSUME IInv, NEW u, DestroyTCB(u)
    PROVE  OrderKept(tcbReady, tcbReady', currTcb')
<1>0. tcbReady \in Seq(Thread) /\ NoRepeats(tcbReady)
  BY DEF IInv, ThreadInv, QueueOK
<1>1. CASE currTcb = u
  BY <1>1, PickKeepsOrder DEF DestroyTCB
<1>2. CASE currTcb # u
  BY <1>0, <1>2, RemovalKeepsOrder DEF DestroyTCB, OrderKept
<1> QED BY <1>1, <1>2

\* The system calls of the ready queue, and those that leave it alone.
LEMMA CallsKeepOrder ==
    ASSUME IInv, Syscall
    PROVE  OrderKept(tcbReady, tcbReady', currTcb')
<1>1. ASSUME UNCHANGED tcbReady PROVE OrderKept(tcbReady, tcbReady', currTcb')
  BY <1>1 DEF OrderKept
<1>2. ASSUME NEW ms, NEW bits, Sleep(ms, bits) PROVE OrderKept(tcbReady, tcbReady', currTcb')
  BY <1>2, PickKeepsOrder DEF Sleep
<1>3. ASSUME NEW h, WaitForMutex(h) PROVE OrderKept(tcbReady, tcbReady', currTcb')
  BY <1>3, PickKeepsOrder DEF WaitForMutex
<1>4. CASE WaitForMsg
  BY <1>4, PickKeepsOrder DEF WaitForMsg
<1>5. ASSUME NEW t \in Thread, CreateThread(t) PROVE OrderKept(tcbReady, tcbReady', currTcb')
  BY <1>5, EnqueueKeepsOrder DEF CreateThread
<1>6. ASSUME NEW h \in HANDLE, PostMsg(h) PROVE OrderKept(tcbReady, tcbReady', currTcb')
  <2>1. handles[h[1]].data \in Thread
    BY <1>6 DEF IInv, OwnerInv, HandlesOK, PostMsg, HasData, InUse
  <2> QED BY <1>6, <2>1, PostKeepsOrder DEF PostMsg
<1>7. ASSUME NEW h \in HANDLE, MutexUnlocked(h) PROVE OrderKept(tcbReady, tcbReady', currTcb')
  <2>1. PICK i \in Matches(tcb, h) : tcbReady' = Enqueued(tcbReady, tcbList[i])
    BY <1>7 DEF MutexUnlocked
  <2>2. tcbList[i] \in Thread /\ tcb[tcbList[i]].state = "BLOCKED"
    BY LenProperties DEF Matches, IInv, OwnerInv, ListOK
  <2> QED BY <2>1, <2>2, EnqueueKeepsOrder
<1>8. ASSUME NEW h \in HANDLE, CloseThread(h) \/ CloseProcess(h)
      PROVE  OrderKept(tcbReady, tcbReady', currTcb')
  BY <1>8, DestructionKeepsOrder DEF CloseThread, CloseProcess
<1>9. ASSUME SetTlsPtr \/ CreateMutex \/ GetMsg \/ (\E opens \in BOOLEAN : OpenFile(opens))
             \/ (\E h \in HANDLE : CloseObject(h))
             \/ (\E ms \in TimerMs, repeat \in BOOLEAN : SetTimer(ms, repeat))
      PROVE  UNCHANGED tcbReady
  BY <1>9 DEF SetTlsPtr, CreateMutex, GetMsg, OpenFile, CloseObject, SetTimer
<1> QED BY <1>1, <1>2, <1>3, <1>4, <1>5, <1>6, <1>7, <1>8, <1>9 DEF Syscall, OtherSyscall

\* The interrupts, and the loops of the kernel
LEMMA KernelKeepsOrder ==
    ASSUME IInv, SleepInv, Interrupt \/ KernelStep
    PROVE  OrderKept(tcbReady, tcbReady', currTcb')
<1>1. ASSUME UNCHANGED tcbReady PROVE OrderKept(tcbReady, tcbReady', currTcb')
  BY <1>1 DEF OrderKept
<1>2. ASSUME NEW i \in EventCell, WakeupThread(i)
      PROVE  OrderKept(tcbReady, tcbReady', currTcb')
  <2>1. timedEvents[i].tcb \in Thread /\ IsWakeup(timedEvents, i)
    BY <1>2, WakeupThreadKind
  <2>2. tcb[timedEvents[i].tcb].state = "BLOCKED"
    BY <2>1 DEF SleepInv, SleepersOK, WakeupsOK
  <2> QED BY <1>2, <2>1, <2>2, EnqueueKeepsOrder DEF WakeupThread
<1>3. ASSUME NEW i \in EventCell, ThreadTimer(i)
      PROVE  OrderKept(tcbReady, tcbReady', currTcb')
  <2>1. timedEvents[i].tcb \in Thread
    BY <1>3, ThreadTimerKind
  <2> QED BY <1>3, <2>1, PostKeepsOrder DEF ThreadTimer
<1>4. CASE Schedule
  BY <1>4, PickKeepsOrder DEF Schedule
<1>5. CASE PostKey
  <2>1. CASE Apps[cursor] \in pcbs \cap WantsKeys
    <3>1. Main[Apps[cursor]] \in Thread
      BY <2>1, KernelAssumption DEF IInv, OwnerInv, ProcsOK
    <3> QED BY <1>5, <2>1, <3>1, PostKeepsOrder DEF PostKey
  <2>2. CASE ~(Apps[cursor] \in pcbs \cap WantsKeys)
    BY <1>1, <1>5, <2>2 DEF PostKey
  <2> QED BY <2>1, <2>2
<1>6. CASE DestroyHandle
  <2>1. CASE UNCHANGED tcbReady
    BY <1>1, <2>1
  <2>2. CASE \E t : DestroyTCB(t)
    BY <2>2, DestructionKeepsOrder
  <2> QED BY <1>6, <2>1, <2>2 DEF DestroyHandle
<1>7. CASE TimerIRQ \/ KeyboardIRQ \/ KeysPosted \/ ProcessDestroyed
  BY <1>1, <1>7 DEF TimerIRQ, KeyboardIRQ, KeysPosted, ProcessDestroyed
<1> QED BY <1>2, <1>3, <1>4, <1>5, <1>6, <1>7 DEF Interrupt, KernelStep

\* Of two threads that are both ready before and after a step, the one behind gets
\* ahead of the other only because that one was picked to run: nobody who waits
\* for the CPU is overtaken, for any number of threads.
THEOREM NobodyIsOvertaken ==
    ASSUME BitsAreNoHandle PROVE Spec => NoOvertaking
<1>1. ASSUME IInv, SleepInv, Next, NEW s \in Thread, NEW t \in Thread,
             Before(tcbReady, s, t), Before(tcbReady', t, s)
      PROVE  currTcb' = s
  <2>1. OrderKept(tcbReady, tcbReady', currTcb')
    BY <1>1, CallsKeepOrder, KernelKeepsOrder DEF Next
  <2>2. InQueue(tcbReady, s)
    BY <1>1 DEF Before, InQueue
  <2>3. CASE Before(tcbReady, t, s)
    <3>1. Len(tcbReady) \in Nat /\ NoRepeats(tcbReady)
      BY LenProperties, <1>1 DEF IInv, ThreadInv, QueueOK
    <3> QED BY <1>1, <2>3, <3>1 DEF Before, NoRepeats
  <2> QED BY <1>1, <2>1, <2>2, <2>3 DEF OrderKept
<1>2. IInv /\ SleepInv /\ [Next]_vars
      => [\A s, t \in Thread :
            Before(tcbReady, s, t) /\ Before(tcbReady', t, s) => currTcb' = s]_vars
  BY <1>1
<1>3. Spec => []SleepInv
  BY WakeupsAreForSleepers
<1> QED BY <1>2, <1>3, InductiveInvariant, PTL DEF Spec, NoOvertaking

===============================================================================
