------------------------------- MODULE Kernel -------------------------------
(***************************************************************************)
(* The kernel of the APCPU OS: scheduler, threads, processes, handles,     *)
(* timed events, message queues and the kernel half of the mutex           *)
(* (os/kernel/kernel.c, os/process/process.c, os/syscalls/syscalls.c,      *)
(* os/hw/hwclk.c, os/hw/hwkyb.c).                                          *)
(*                                                                         *)
(* There is one CPU and the kernel runs with interrupts going to a         *)
(* double-fault handler, so only user code is ever interrupted.  An entry  *)
(* into the kernel is one action when its handler is a straight line, and  *)
(* a sequence of steps (kpc # "user") when the handler is a loop: the      *)
(* timed-event loop, the keyboard loop over the processes and the loop     *)
(* over the handles of a dying process.                                    *)
(*                                                                         *)
(* User code is the environment: it makes any system call with any         *)
(* argument from the sets below.  Time is counted in scheduler quanta: one *)
(* TimerIRQ is one quantum, and an event's execTime is stored relative to  *)
(* krn.intrCurrSecs.                                                       *)
(***************************************************************************)
EXTENDS Handles, Integers, Sequences, FiniteSets

CONSTANTS
    Idle,         \* krn.idleTcb
    IdleProc,     \* the privileged idle process; its page table is krnOnlyPT
    Apps,         \* the user processes krn_init launches, in launch order
    Main,         \* Main[p]: pcb->mainthread of process p
    WantsKeys,    \* the processes with APPFLAG_WANTSKEYS
    SleepMs,      \* arguments of sleep, an unsigned 32 bit interval
    TimerMs,      \* arguments of setTimer
    HalfRange,    \* 2^31, in the unit of the two sets above
    SleepBits,    \* what the low word of a sleepEnd may look like as a HANDLE
    MaxTimers,    \* TIMER_MAX_TIMERS
    MaxEvents,    \* timed events that fit before the queue fails to grow
    MaxMsgs,      \* messages that fit before a queue fails to grow
    MaxReady,     \* threads that fit before the ready queue fails to grow
    NoEvent       \* an unused cell of the timed events array

UserProc == {Apps[i] : i \in DOMAIN Apps}

ASSUME KernelAssumption ==
    /\ IsFiniteSet(Thread)
    /\ Idle \in Thread
    /\ IdleProc \in Proc
    /\ Apps \in Seq(Proc \ {IdleProc})
    /\ \A i, j \in DOMAIN Apps : Apps[i] = Apps[j] => i = j
    /\ Proc = UserProc \cup {IdleProc}
    /\ Main \in [Proc -> Thread]
    /\ Main[IdleProc] = Idle
    /\ \A p, q \in Proc : Main[p] = Main[q] => p = q
    /\ WantsKeys \subseteq UserProc
    /\ HalfRange \in Nat \ {0}
    /\ SleepMs \subseteq 0 .. 2 * HalfRange - 1
    /\ TimerMs \subseteq 0 .. 2 * HalfRange - 1
    /\ SleepBits \subseteq HANDLE
    /\ MaxTimers \in Nat \ {0}
    /\ MaxEvents \in Nat \ {0}
    /\ MaxMsgs \in Nat \ {0}
    /\ MaxReady \in Nat
    /\ Len(Apps) < NumSlots
    /\ Len(Apps) <= MaxReady

VARIABLES
    currTcb,          \* krn.currTcb
    tcb,              \* the TCBs; "FREE" is memory not allocated to one
    tcbReady,         \* krn.tcbReady
    tcbList,          \* the circular list of TCBs, from rootTCB on
    timedEvents,      \* krn.timedEvents, as an array of cells
    handles,          \* the handle table
    pcbs,             \* the PCBs on rootPCB's list: their page tables exist
    numActiveTimers,  \* pcb->numActiveTimers
    crpt,             \* the process whose page table the CPU uses
    appTlsSlots,      \* whose TLS array user code sees; NoThread is NULL
    kpc,              \* "user", or the kernel loop being run
    cursor,           \* loop variable of that loop
    victim            \* the process being torn down, if any

vars == <<currTcb, tcb, tcbReady, tcbList, timedEvents, handles, pcbs,
          numActiveTimers, crpt, appTlsSlots, kpc, cursor, victim>>

-----------------------------------------------------------------------------
(***************************************************************************)
(* Data                                                                    *)
(***************************************************************************)

TcbState == {"FREE", "READY", "BLOCKED", "KERNEL"}
WaitType == {"NONE", "SLEEP", "WAIT", "MSG"}

\* wait.d is a union: mtx is what its low word holds as a HANDLE, whatever
\* wait.type says.
TCB == [state  : TcbState,
        wait   : WaitType,
        mtx    : HANDLE,
        pcb    : Proc,
        handle : HANDLE,
        msgs   : 0 .. MaxMsgs,
        tls    : Thread \cup {NoThread}]

\* A TCB as calloc returns it, filled in by prc_createTCB.
NewTcb(p, h) ==
    [state |-> "READY", wait |-> "NONE", mtx |-> INVALID_HANDLE, pcb |-> p,
     handle |-> h, msgs |-> 0, tls |-> NoThread]

FreeTcb == [NewTcb(IdleProc, INVALID_HANDLE) EXCEPT !.state = "FREE"]

EventFunc == {"wakeupThread", "threadTimer"}
EventCell == 1 .. MaxEvents

TimedEvent == [func   : EventFunc,
               tcb    : Thread,
               due    : Int,      \* execTime - krn.intrCurrSecs
               ms     : Nat,
               repeat : BOOLEAN]

ASSUME NoEventAssumption == NoEvent \notin TimedEvent

\* (s32)ms
S32(ms) == IF ms < HalfRange THEN ms ELSE ms - 2 * HalfRange

\* q without its first t: queue32_remove drops all of them, and NoDuplicates
\* says that there is at most one.
Dequeued(q, t) ==
    IF \E i \in 1 .. Len(q) : q[i] = t
    THEN LET k == CHOOSE i \in 1 .. Len(q) :
                    q[i] = t /\ \A j \in 1 .. i - 1 : q[j] # t
         IN [i \in 1 .. Len(q) - 1 |-> IF i < k THEN q[i] ELSE q[i + 1]]
    ELSE q

\* queue32_push, and what tcb_enqueue makes of its failure: nothing.
Pushed(q, t) == IF Len(q) < MaxReady THEN Append(q, t) ELSE q

\* tcb_enqueue(tcb, &krn.tcbReady)
Enqueued(q, t) == Pushed(Dequeued(q, t), t)

-----------------------------------------------------------------------------
(***************************************************************************)
(* Timed events.  The priority queue is an array of cells from which any   *)
(* event with the smallest due time may be taken: the order among equal    *)
(* times is the queue's and nothing here depends on it.                    *)
(***************************************************************************)

Pending(evts) == {i \in EventCell : evts[i] # NoEvent}
HasRoom(evts) == Pending(evts) # EventCell

\* krn_addTimedEvent: a queue that cannot grow is left as it is.
AddEvent(evts, e) ==
    IF HasRoom(evts)
    THEN [evts EXCEPT ![CHOOSE i \in EventCell : evts[i] = NoEvent] = e]
    ELSE evts

WakeupEvent(t, ms) ==
    [func |-> "wakeupThread", tcb |-> t, due |-> S32(ms), ms |-> 0,
     repeat |-> FALSE]

\* Mutant: the timer is put back for the current time.
TimerEventDueNow(t, ms, repeat) ==
    [func |-> "threadTimer", tcb |-> t, due |-> 0, ms |-> ms,
     repeat |-> repeat]

\* ms has been masked with TIMER_MAX_INTERVAL_MASK.
TimerEvent(t, ms, repeat) ==
    [func |-> "threadTimer", tcb |-> t, due |-> ms, ms |-> ms,
     repeat |-> repeat]

\* Mutant: only the thread's wake-ups are removed.
EventsWithoutWakeups(evts, t) ==
    [i \in EventCell |->
        IF evts[i] # NoEvent /\ evts[i].tcb = t /\ evts[i].func = "wakeupThread"
        THEN NoEvent ELSE evts[i]]

\* Mutant: the events of every thread are removed.
EventsWithoutThreads(evts, t) == [i \in EventCell |-> NoEvent]

\* pqueue_KrnTimedEvent_remove with timedEvent_removeThreads
EventsWithout(evts, t) ==
    [i \in EventCell |->
        IF evts[i] # NoEvent /\ evts[i].tcb = t THEN NoEvent ELSE evts[i]]

\* One quantum passes.
Aged(evts) ==
    [i \in EventCell |->
        IF evts[i] = NoEvent THEN NoEvent
        ELSE [evts[i] EXCEPT !.due = @ - 1]]

\* Mutant: an event is due a quantum too early.
DueEarly(evts) ==
    {i \in Pending(evts) :
        /\ evts[i].due <= 1
        /\ \A j \in Pending(evts) : evts[i].due <= evts[j].due}

\* The cells that pqueue_KrnTimedEvent_peek may show to krn_checkTimedEvents
\* and that are due.
Due(evts) ==
    {i \in Pending(evts) :
        /\ evts[i].due <= 0
        /\ \A j \in Pending(evts) : evts[i].due <= evts[j].due}

-----------------------------------------------------------------------------
(***************************************************************************)
(* Threads and messages, as functions of the TCBs and the ready queue      *)
(***************************************************************************)

\* timedEvent_wakeupThread, on the TCBs; the ready queue is Enqueued.
Woken(T, t) == [T EXCEPT ![t] = [@ EXCEPT !.state = "READY", !.wait = "NONE"]]

\* Mutant: a thread that waits for a mutex is woken instead.
WakesMutexWaiter(T, t) ==
    T[t].msgs < MaxMsgs /\ T[t].state = "BLOCKED" /\ T[t].wait = "WAIT"

\* Mutant: whatever the thread waits for, it is woken.
WakesAnyWaiter(T, t) == T[t].msgs < MaxMsgs /\ T[t].state = "BLOCKED"

\* prc_postThreadMsg wakes the thread if it waits for a message.
WakesOnMsg(T, t) ==
    T[t].msgs < MaxMsgs /\ T[t].state = "BLOCKED" /\ T[t].wait = "MSG"

Posted(T, t) ==
    IF T[t].msgs < MaxMsgs
    THEN LET U == [T EXCEPT ![t].msgs = @ + 1]
         IN IF WakesOnMsg(T, t) THEN Woken(U, t) ELSE U
    ELSE T

PostedReady(T, q, t) == IF WakesOnMsg(T, t) THEN Enqueued(q, t) ELSE q

\* Mutant: the search stops before the last thread of the list.
MatchesButLast(T, h) ==
    {i \in 1 .. Len(tcbList) - 1 :
        T[tcbList[i]].state = "BLOCKED" /\ T[tcbList[i]].mtx = h}

\* The threads prc_wakeOneWaitingThread would stop at: it compares wait.d.mtx
\* and does not look at wait.type.
Matches(T, h) ==
    {i \in 1 .. Len(tcbList) :
        T[tcbList[i]].state = "BLOCKED" /\ T[tcbList[i]].mtx = h}

-----------------------------------------------------------------------------
(***************************************************************************)
(* Entering and leaving the kernel                                         *)
(***************************************************************************)

\* Mutant: the global TLS pointer is not switched.
PickNextKeepsTls(q) ==
    /\ currTcb' = IF q = << >> THEN Idle ELSE Head(q)
    /\ tcbReady' = IF q = << >> THEN q ELSE Append(Tail(q), Head(q))
    /\ UNCHANGED appTlsSlots

\* Mutant: the thread picked is not put back.
PickNextPops(q) ==
    /\ currTcb' = IF q = << >> THEN Idle ELSE Head(q)
    /\ tcbReady' = IF q = << >> THEN q ELSE Tail(q)
    /\ appTlsSlots' = tcb'[currTcb'].tls

\* Mutant: the queue is not rotated.
PickNextPeeks(q) ==
    /\ currTcb' = IF q = << >> THEN Idle ELSE Head(q)
    /\ tcbReady' = q
    /\ appTlsSlots' = tcb'[currTcb'].tls

\* Mutant: the queue is served from its end.
PickNextFromEnd(q) ==
    /\ currTcb' = IF q = << >> THEN Idle ELSE q[Len(q)]
    /\ tcbReady' = IF q = << >> THEN q
                   ELSE <<q[Len(q)]>> \o SubSeq(q, 1, Len(q) - 1)
    /\ appTlsSlots' = tcb'[currTcb'].tls

\* krn_pickNextTcb on the ready queue q, after the TCBs have been updated.
PickNext(q) ==
    /\ currTcb' = IF q = << >> THEN Idle ELSE Head(q)
    /\ tcbReady' = IF q = << >> THEN q ELSE Append(Tail(q), Head(q))
    /\ appTlsSlots' = tcb'[currTcb'].tls

\* Mutant: the page table is not switched.
ResumeOnSamePageTable ==
    /\ kpc' = "user"
    /\ cursor' = 1
    /\ UNCHANGED crpt

\* The end of krn_irqHandler.
Resume ==
    /\ kpc' = "user"
    /\ cursor' = 1
    /\ crpt' = tcb'[currTcb'].pcb

\* A thread that may make any system call: setTlsPtr is the first one that
\* app_threadEntry makes, and the idle thread makes no other.
AppRuns ==
    kpc = "user" /\ currTcb # Idle /\ tcb[currTcb].tls # NoThread

CurrPcb == tcb[currTcb].pcb

\* Mutant: nobody is picked when the current thread is destroyed.
DestroyTCBKeepsCurrent(t) ==
    /\ timedEvents' = EventsWithout(timedEvents, t)
    /\ tcb' = [tcb EXCEPT ![t] = FreeTcb]
    /\ tcbList' = Dequeued(tcbList, t)
    /\ tcbReady' = Dequeued(tcbReady, t)
    /\ UNCHANGED <<currTcb, appTlsSlots>>

\* Mutant: the thread stays on the list.
DestroyTCBStaysListed(t) ==
    /\ timedEvents' = EventsWithout(timedEvents, t)
    /\ tcb' = [tcb EXCEPT ![t] = FreeTcb]
    /\ UNCHANGED tcbList
    /\ IF currTcb = t
       THEN PickNext(Dequeued(tcbReady, t))
       ELSE /\ tcbReady' = Dequeued(tcbReady, t)
            /\ UNCHANGED <<currTcb, appTlsSlots>>

\* prc_destroyTCBImpl
DestroyTCB(t) ==
    /\ timedEvents' = EventsWithout(timedEvents, t)
    /\ tcb' = [tcb EXCEPT ![t] = FreeTcb]
    /\ tcbList' = Dequeued(tcbList, t)
    /\ IF currTcb = t
       THEN PickNext(Dequeued(tcbReady, t))
       ELSE /\ tcbReady' = Dequeued(tcbReady, t)
            /\ UNCHANGED <<currTcb, appTlsSlots>>

-----------------------------------------------------------------------------
(***************************************************************************)
(* Boot: krn_init                                                          *)
(***************************************************************************)

Booted == <<IdleProc>> \o Apps

Init ==
    /\ currTcb = Idle
    /\ tcb = [t \in Thread |->
                IF \E i \in DOMAIN Booted : Main[Booted[i]] = t
                THEN LET i == CHOOSE i \in DOMAIN Booted : Main[Booted[i]] = t
                         new == NewTcb(Booted[i], <<i, 1>>)
                     IN IF t = Idle
                        THEN [new EXCEPT !.state = "KERNEL"]
                        ELSE new
                ELSE FreeTcb]
    /\ tcbReady = [i \in 1 .. Len(Apps) |-> Main[Apps[i]]]
    /\ tcbList = [i \in 1 .. Len(Booted) |-> Main[Booted[i]]]
    /\ timedEvents = [i \in EventCell |-> NoEvent]
    /\ handles = [i \in Slot |->
                    IF i <= Len(Booted)
                    THEN [counter |-> 1, owner |-> Booted[i],
                          type |-> "THREAD", data |-> Main[Booted[i]]]
                    ELSE FreeEntry(0)]
    /\ pcbs = Proc
    /\ numActiveTimers = [p \in Proc |-> 0]
    /\ crpt = IdleProc
    /\ appTlsSlots = NoThread
    /\ kpc = "user"
    /\ cursor = 1
    /\ victim = NoProc

-----------------------------------------------------------------------------
(***************************************************************************)
(* System calls.  A call that fails its checks changes nothing and is not  *)
(* an action.                                                              *)
(***************************************************************************)

\* A thread tells the kernel where its TLS array is: on its own stack.
SetTlsPtr ==
    /\ kpc = "user"
    /\ tcb' = [tcb EXCEPT ![currTcb] = [@ EXCEPT !.tls = currTcb]]
    /\ appTlsSlots' = currTcb
    /\ UNCHANGED <<currTcb, tcbReady, tcbList, timedEvents, handles, pcbs,
                   numActiveTimers, victim>>
    /\ Resume

Sleep(ms, bits) ==
    /\ AppRuns
    /\ tcb' = [tcb EXCEPT ![currTcb] =
                 [@ EXCEPT !.state = "BLOCKED", !.wait = "SLEEP", !.mtx = bits]]
    /\ timedEvents' = AddEvent(timedEvents, WakeupEvent(currTcb, ms))
    /\ PickNext(Dequeued(tcbReady, currTcb))
    /\ UNCHANGED <<tcbList, handles, pcbs, numActiveTimers, victim>>
    /\ Resume

CreateThread(t) ==
    /\ AppRuns
    /\ tcb[t].state = "FREE"
    /\ \E i \in Slot :
          /\ FirstFree(handles, i)
          /\ handles' = CreateHandle(handles, i, CurrPcb, "THREAD", t)
          /\ tcb' = [tcb EXCEPT ![t] = NewTcb(CurrPcb, HandleOf(handles', i))]
    /\ tcbList' = Append(tcbList, t)
    /\ tcbReady' = Pushed(tcbReady, t)
    /\ UNCHANGED <<currTcb, timedEvents, pcbs, numActiveTimers, appTlsSlots,
                   victim>>
    /\ Resume

\* closeHandle on a mutex or on a file, whose destructors touch nothing else.
CloseObject(h) ==
    /\ AppRuns
    /\ Destroyable(handles, h, CurrPcb)
    /\ handles[h[1]].type # "THREAD"
    /\ handles' = ResetSlot(handles, h[1])
    /\ UNCHANGED <<currTcb, tcb, tcbReady, tcbList, timedEvents, pcbs,
                   numActiveTimers, appTlsSlots, victim>>
    /\ Resume

\* closeHandle on a thread that is not the main thread of its process.
CloseThread(h) ==
    /\ AppRuns
    /\ Destroyable(handles, h, CurrPcb)
    /\ handles[h[1]].type = "THREAD"
    /\ handles[h[1]].data # Main[CurrPcb]
    /\ handles' = ResetSlot(handles, h[1])
    /\ DestroyTCB(handles[h[1]].data)
    /\ UNCHANGED <<pcbs, numActiveTimers, victim>>
    /\ Resume

\* Mutant: the page table of the process stays in use.
CloseProcessInPlace(h) ==
    /\ AppRuns
    /\ Destroyable(handles, h, CurrPcb)
    /\ handles[h[1]].type = "THREAD"
    /\ handles[h[1]].data = Main[CurrPcb]
    /\ handles' = ResetSlot(handles, h[1])
    /\ pcbs' = pcbs \ {CurrPcb}
    /\ DestroyTCB(Main[CurrPcb])
    /\ kpc' = "teardown"
    /\ victim' = CurrPcb
    /\ UNCHANGED <<crpt, numActiveTimers, cursor>>

\* closeHandle on the main thread: prc_destroyPCBImpl up to its call of
\* handles_destroyPrcHandles.
CloseProcess(h) ==
    /\ AppRuns
    /\ Destroyable(handles, h, CurrPcb)
    /\ handles[h[1]].type = "THREAD"
    /\ handles[h[1]].data = Main[CurrPcb]
    /\ handles' = ResetSlot(handles, h[1])
    /\ crpt' = IdleProc
    /\ pcbs' = pcbs \ {CurrPcb}
    /\ DestroyTCB(Main[CurrPcb])
    /\ kpc' = "teardown"
    /\ victim' = CurrPcb
    /\ UNCHANGED <<numActiveTimers, cursor>>

CreateMutex ==
    /\ AppRuns
    /\ \E i \in Slot :
          /\ FirstFree(handles, i)
          /\ handles' = CreateHandle(handles, i, CurrPcb, "MUTEX", NoThread)
    /\ UNCHANGED <<currTcb, tcb, tcbReady, tcbList, timedEvents, pcbs,
                   numActiveTimers, appTlsSlots, victim>>
    /\ Resume

\* The handle is made before f_open is tried; if that fails, it is destroyed.
OpenFile(opens) ==
    /\ AppRuns
    /\ \E i \in Slot :
          /\ FirstFree(handles, i)
          /\ LET created == CreateHandle(handles, i, CurrPcb, "FILE", NoThread)
             IN handles' = IF opens THEN created ELSE ResetSlot(created, i)
    /\ UNCHANGED <<currTcb, tcb, tcbReady, tcbList, timedEvents, pcbs,
                   numActiveTimers, appTlsSlots, victim>>
    /\ Resume

WaitForMutex(h) ==
    /\ AppRuns
    /\ HasData(handles, h, CurrPcb, "MUTEX")
    /\ tcb' = [tcb EXCEPT ![currTcb] =
                 [@ EXCEPT !.state = "BLOCKED", !.wait = "WAIT", !.mtx = h]]
    /\ PickNext(Dequeued(tcbReady, currTcb))
    /\ UNCHANGED <<tcbList, timedEvents, handles, pcbs, numActiveTimers, victim>>
    /\ Resume

\* prc_wakeOneWaitingThread: the first match in the order of creation.
MutexUnlocked(h) ==
    /\ AppRuns
    /\ HasData(handles, h, CurrPcb, "MUTEX")
    /\ \E i \in Matches(tcb, h) :
          /\ \A j \in Matches(tcb, h) : i <= j
          /\ tcb' = Woken(tcb, tcbList[i])
          /\ tcbReady' = Enqueued(tcbReady, tcbList[i])
    /\ UNCHANGED <<currTcb, tcbList, timedEvents, handles, pcbs,
                   numActiveTimers, appTlsSlots, victim>>
    /\ Resume

\* Mutant: a message is taken without looking whether there is one.
GetMsgUnchecked ==
    /\ AppRuns
    /\ tcb' = [tcb EXCEPT ![currTcb].msgs = @ - 1]
    /\ UNCHANGED <<currTcb, tcbReady, tcbList, timedEvents, handles, pcbs,
                   numActiveTimers, appTlsSlots, victim>>
    /\ Resume

\* getMsg with a message in the queue.
GetMsg ==
    /\ AppRuns
    /\ tcb[currTcb].msgs > 0
    /\ tcb' = [tcb EXCEPT ![currTcb].msgs = @ - 1]
    /\ UNCHANGED <<currTcb, tcbReady, tcbList, timedEvents, handles, pcbs,
                   numActiveTimers, appTlsSlots, victim>>
    /\ Resume

\* getMsg with an empty queue and waitForMsg set; wait.d is left as it was.
WaitForMsg ==
    /\ AppRuns
    /\ tcb[currTcb].msgs = 0
    /\ tcb' = [tcb EXCEPT ![currTcb] =
                 [@ EXCEPT !.state = "BLOCKED", !.wait = "MSG"]]
    /\ PickNext(Dequeued(tcbReady, currTcb))
    /\ UNCHANGED <<tcbList, timedEvents, handles, pcbs, numActiveTimers, victim>>
    /\ Resume

PostMsg(h) ==
    /\ AppRuns
    /\ HasData(handles, h, CurrPcb, "THREAD")
    /\ LET t == handles[h[1]].data
       IN /\ tcb' = Posted(tcb, t)
          /\ tcbReady' = PostedReady(tcb, tcbReady, t)
    /\ UNCHANGED <<currTcb, tcbList, timedEvents, handles, pcbs,
                   numActiveTimers, appTlsSlots, victim>>
    /\ Resume

\* Mutant: one timer too many.
TimerAllowedOnceMore(p) == numActiveTimers[p] <= MaxTimers

\* prc_addThreadTimer refuses a process that has TIMER_MAX_TIMERS timers.
TimerAllowed(p) == numActiveTimers[p] < MaxTimers

SetTimer(ms, repeat) ==
    /\ AppRuns
    /\ TimerAllowed(CurrPcb)
    /\ HasRoom(timedEvents)
    /\ timedEvents' =
          AddEvent(timedEvents, TimerEvent(currTcb, ms % HalfRange, repeat))
    /\ numActiveTimers' = [numActiveTimers EXCEPT ![CurrPcb] = @ + 1]
    /\ UNCHANGED <<currTcb, tcb, tcbReady, tcbList, handles, pcbs,
                   appTlsSlots, victim>>
    /\ Resume

\* Every system call that changes kernel state, but sleep.
OtherSyscall ==
    \/ SetTlsPtr
    \/ \E t \in Thread : CreateThread(t)
    \/ \E h \in HANDLE :
          \/ CloseObject(h)
          \/ CloseThread(h)
          \/ CloseProcess(h)
          \/ WaitForMutex(h)
          \/ MutexUnlocked(h)
          \/ PostMsg(h)
    \/ CreateMutex
    \/ \E opens \in BOOLEAN : OpenFile(opens)
    \/ GetMsg
    \/ WaitForMsg
    \/ \E ms \in TimerMs, repeat \in BOOLEAN : SetTimer(ms, repeat)

Syscall ==
    \/ \E ms \in SleepMs, bits \in SleepBits : Sleep(ms, bits)
    \/ OtherSyscall

-----------------------------------------------------------------------------
(***************************************************************************)
(* Interrupts                                                              *)
(***************************************************************************)

\* The clock's timer 0 interrupts user code: krn_taskScheduler starts the
\* timed-event loop with a new krn.intrCurrSecs.
TimerIRQ ==
    /\ kpc = "user"
    /\ timedEvents' = Aged(timedEvents)
    /\ kpc' = "events"
    /\ UNCHANGED <<currTcb, tcb, tcbReady, tcbList, handles, pcbs,
                   numActiveTimers, crpt, appTlsSlots, cursor, victim>>

\* krn_checkTimedEvents pops a due event and calls timedEvent_wakeupThread.
WakeupThread(i) ==
    /\ kpc = "events"
    /\ i \in Due(timedEvents)
    /\ timedEvents[i].func = "wakeupThread"
    /\ LET t == timedEvents[i].tcb
       IN /\ tcb' = Woken(tcb, t)
          /\ tcbReady' = Enqueued(tcbReady, t)
    /\ timedEvents' = [timedEvents EXCEPT ![i] = NoEvent]
    /\ UNCHANGED <<currTcb, tcbList, handles, pcbs, numActiveTimers, crpt,
                   appTlsSlots, kpc, cursor, victim>>

\* krn_checkTimedEvents pops a due event and calls timedEvent_threadTimer,
\* which puts a repeating timer back and posts MSG_TIMER.
ThreadTimer(i) ==
    /\ kpc = "events"
    /\ i \in Due(timedEvents)
    /\ timedEvents[i].func = "threadTimer"
    /\ LET e == timedEvents[i]
           popped == [timedEvents EXCEPT ![i] = NoEvent]
       IN /\ timedEvents' =
                IF e.repeat THEN AddEvent(popped, TimerEvent(e.tcb, e.ms, TRUE))
                ELSE popped
          /\ numActiveTimers' =
                IF e.repeat THEN numActiveTimers
                ELSE [numActiveTimers EXCEPT ![tcb[e.tcb].pcb] = @ - 1]
          /\ tcb' = Posted(tcb, e.tcb)
          /\ tcbReady' = PostedReady(tcb, tcbReady, e.tcb)
    /\ UNCHANGED <<currTcb, tcbList, handles, pcbs, crpt, appTlsSlots, kpc,
                   cursor, victim>>

\* No event is due any more: krn_pickNextTcb and back to user code.
Schedule ==
    /\ kpc = "events"
    /\ Due(timedEvents) = {}
    /\ UNCHANGED <<tcb, tcbList, timedEvents, handles, pcbs, numActiveTimers,
                   victim>>
    /\ PickNext(tcbReady)
    /\ Resume

\* A key event: hwkyb_handler starts its loop over the processes.
KeyboardIRQ ==
    /\ kpc = "user"
    /\ WantsKeys # {}
    /\ kpc' = "keys"
    /\ cursor' = 1
    /\ UNCHANGED <<currTcb, tcb, tcbReady, tcbList, timedEvents, handles, pcbs,
                   numActiveTimers, crpt, appTlsSlots, victim>>

\* The loop's next process. The list holds the processes in launch order.
PostKey ==
    /\ kpc = "keys"
    /\ cursor <= Len(Apps)
    /\ IF Apps[cursor] \in pcbs \cap WantsKeys
       THEN /\ tcb' = Posted(tcb, Main[Apps[cursor]])
            /\ tcbReady' = PostedReady(tcb, tcbReady, Main[Apps[cursor]])
       ELSE UNCHANGED <<tcb, tcbReady>>
    /\ cursor' = cursor + 1
    /\ UNCHANGED <<currTcb, tcbList, timedEvents, handles, pcbs,
                   numActiveTimers, crpt, appTlsSlots, kpc, victim>>

KeysPosted ==
    /\ kpc = "keys"
    /\ cursor > Len(Apps)
    /\ UNCHANGED <<currTcb, tcb, tcbReady, tcbList, timedEvents, handles, pcbs,
                   numActiveTimers, appTlsSlots, victim>>
    /\ Resume

\* handles_destroyPrcHandles, one slot at a time.
DestroyHandle ==
    /\ kpc = "teardown"
    /\ cursor <= NumSlots
    /\ IF handles[cursor].owner = victim
       THEN /\ handles' = ResetSlot(handles, cursor)
            /\ IF handles[cursor].type = "THREAD"
               THEN DestroyTCB(handles[cursor].data)
               ELSE UNCHANGED <<currTcb, tcb, tcbReady, tcbList, timedEvents,
                                appTlsSlots>>
       ELSE UNCHANGED <<currTcb, tcb, tcbReady, tcbList, timedEvents, handles,
                        appTlsSlots>>
    /\ cursor' = cursor + 1
    /\ UNCHANGED <<pcbs, numActiveTimers, crpt, kpc, victim>>

\* Mutant: the last slot is not looked at.
ProcessDestroyedEarly ==
    /\ kpc = "teardown"
    /\ cursor > NumSlots - 1
    /\ victim' = NoProc
    /\ UNCHANGED <<currTcb, tcb, tcbReady, tcbList, timedEvents, handles, pcbs,
                   numActiveTimers, appTlsSlots>>
    /\ Resume

ProcessDestroyed ==
    /\ kpc = "teardown"
    /\ cursor > NumSlots
    /\ victim' = NoProc
    /\ UNCHANGED <<currTcb, tcb, tcbReady, tcbList, timedEvents, handles, pcbs,
                   numActiveTimers, appTlsSlots>>
    /\ Resume

Interrupt == TimerIRQ \/ KeyboardIRQ

KernelStep ==
    \/ \E i \in EventCell : WakeupThread(i) \/ ThreadTimer(i)
    \/ Schedule
    \/ PostKey
    \/ KeysPosted
    \/ DestroyHandle
    \/ ProcessDestroyed

Next == Syscall \/ Interrupt \/ KernelStep

\* The CPU executes the kernel until it returns.  The clock's timer is started
\* with autoReset, so it always expires again, and its interrupt stays pending
\* while the kernel handles another one.
Fairness == SF_vars(TimerIRQ) /\ WF_vars(KernelStep)

Spec == Init /\ [][Next]_vars

FairSpec == Spec /\ Fairness
-----------------------------------------------------------------------------
(***************************************************************************)
(* Properties                                                              *)
(***************************************************************************)

\* Every variable keeps to its type.
TypeOK ==
    /\ currTcb \in Thread
    /\ tcb \in [Thread -> TCB]
    /\ tcbReady \in Seq(Thread)
    /\ tcbList \in Seq(Thread)
    /\ timedEvents \in [EventCell -> TimedEvent \cup {NoEvent}]
    /\ handles \in HandleTable
    /\ pcbs \subseteq Proc
    /\ numActiveTimers \in [Proc -> Int]
    /\ crpt \in Proc
    /\ appTlsSlots \in Thread \cup {NoThread}
    /\ kpc \in {"user", "events", "keys", "teardown"}
    /\ cursor \in Nat \ {0}
    /\ victim \in Proc \cup {NoProc}

NoRepeats(q) == \A i, j \in 1 .. Len(q) : q[i] = q[j] => i = j
InQueue(q, t) == \E i \in 1 .. Len(q) : q[i] = t

\* The ready queue holds READY threads only, each once; and as long as its
\* memory lasts it holds all of them, so that tcb_enqueue and krn_pickNextTcb
\* never run a blocked or destroyed thread and never lose a ready one.
ReadyQueueExact ==
    /\ NoRepeats(tcbReady)
    /\ \A i \in 1 .. Len(tcbReady) : tcb[tcbReady[i]].state = "READY"
    /\ MaxReady >= Cardinality(Thread) =>
          \A t \in Thread : tcb[t].state = "READY" => InQueue(tcbReady, t)

\* Whatever the handler did to the thread that entered the kernel, the thread
\* krn.currTcb points to can run: it is the idle thread or a READY one.
CurrentCanRun == currTcb = Idle \/ tcb[currTcb].state = "READY"

\* The kernel returns to a thread whose process has not been destroyed, on the
\* page table of that process.
ResumesLiveProcess ==
    kpc = "user" => CurrPcb \in pcbs /\ crpt = CurrPcb

\* prc_destroyPCBImpl leaves a page table before it destroys it, and no later
\* step of the tear-down goes back to it.
PageTableExists == crpt \in pcbs

\* User code finds the TLS array of the running thread in the global pointer.
TlsOfCurrent == appTlsSlots = tcb[currTcb].tls

\* A thread is never left waiting for a message that has already arrived.
NoMissedMessage ==
    \A t \in Thread : tcb[t].wait = "MSG" => tcb[t].msgs = 0

\* A timed event refers to a thread that still exists, so no callback of
\* krn_checkTimedEvents uses freed memory.
EventsOfLiveThreads ==
    \A i \in Pending(timedEvents) : tcb[timedEvents[i].tcb].state # "FREE"

Wakeups(t) ==
    {i \in Pending(timedEvents) :
        timedEvents[i].func = "wakeupThread" /\ timedEvents[i].tcb = t}

Timers(p) ==
    {i \in Pending(timedEvents) :
        timedEvents[i].func = "threadTimer" /\ tcb[timedEvents[i].tcb].pcb = p}

\* A wake-up event is pending exactly for the sleeping threads, and only one
\* for each: nothing else ends a sleep and no wake-up hits a thread that went
\* on to wait for something else.
OneWakeupPerSleeper ==
    \A t \in Thread :
        Cardinality(Wakeups(t)) = (IF tcb[t].wait = "SLEEP" THEN 1 ELSE 0)

\* The timers a process has pending are all counted, and the count respects
\* TIMER_MAX_TIMERS.
TimersCounted ==
    \A p \in Proc :
        /\ Cardinality(Timers(p)) <= numActiveTimers[p]
        /\ numActiveTimers[p] <= MaxTimers

\* Thread handles and threads correspond one to one: a handle of type THREAD
\* leads to a thread of its owner that carries this handle, and every thread
\* can be reached through the handle it carries.
ThreadHandles ==
    /\ \A i \in Slot : handles[i].type = "THREAD" =>
          LET t == handles[i].data
          IN /\ t \in Thread
             /\ tcb[t].state # "FREE"
             /\ tcb[t].handle = HandleOf(handles, i)
             /\ tcb[t].pcb = handles[i].owner
    /\ \A t \in Thread : tcb[t].state # "FREE" =>
          LET i == tcb[t].handle[1]
          IN i \in Slot /\ handles[i].type = "THREAD" /\ handles[i].data = t

\* The list of TCBs starts at the idle thread and holds the existing threads,
\* each once.
ThreadListExact ==
    /\ tcbList # << >> /\ Head(tcbList) = Idle
    /\ NoRepeats(tcbList)
    /\ \A t \in Thread : InQueue(tcbList, t) <=> tcb[t].state # "FREE"

\* Once its tear-down is over, a process has left nothing behind: no thread,
\* no handle, no timed event.
DeadProcessLeavesNothing ==
    \A p \in Proc \ (pcbs \cup {victim}) :
        /\ \A t \in Thread : tcb[t].state # "FREE" => tcb[t].pcb # p
        /\ \A i \in Slot : handles[i].owner # p
        /\ \A i \in Pending(timedEvents) : tcb[timedEvents[i].tcb].pcb # p

\* Round robin: among threads that stay in the ready queue, only the one that
\* is picked to run, or that is put in again by a wake-up, loses its place.
Before(q, s, t) ==
    \E i, j \in 1 .. Len(q) : i < j /\ q[i] = s /\ q[j] = t

NoOvertaking ==
    [][\A s, t \in Thread :
         Before(tcbReady, s, t) /\ Before(tcbReady', t, s) => currTcb' = s]_vars

\* The scheduler starves nobody: a READY thread gets the CPU, unless its
\* process destroys it first.
ReadyRuns ==
    \A t \in Thread :
        tcb[t].state = "READY" ~> (currTcb = t \/ tcb[t].state # "READY")

\* Every sleep ends.
SleepEnds ==
    \A t \in Thread : tcb[t].wait = "SLEEP" ~> tcb[t].wait # "SLEEP"

\* Every entry into the kernel ends with a return to user code.
KernelReturns == kpc # "user" ~> kpc = "user"

-----------------------------------------------------------------------------
(***************************************************************************)
(* What the comments of the code promise, and the code does not keep       *)
(***************************************************************************)

\* "Each process can only have TIMER_MAX_TIMERS timers active at one time"
\* (app_process.h:239): a process that is refused a timer has that many.
RefusedOnlyAtLimit ==
    \A p \in pcbs :
        numActiveTimers[p] >= MaxTimers => Cardinality(Timers(p)) = MaxTimers

=============================================================================
