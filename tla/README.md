# A verification project for the APCPU OS kernel

This directory holds TLA+ models of the operating system under `src/apcpuos` and of the
libraries it is built on, TLC configurations that check them on small instances, and
proofs, checked by TLAPS, of what holds for every instance.

The OS runs on a single simulated 32-bit CPU (APCPU). It has a kernel with preemptive
round-robin scheduling, threads and processes with page tables of their own, handles,
timed events, thread messages, mutexes, a FAT file system, and an SDK for applications.

## The system

| Component | Source | State | Operations |
|---|---|---|---|
| Scheduler, interrupt entry | `os/kernel/kernel.c` | `krn.currTcb`, `krn.tcbReady`, page table register, global TLS pointer | `krn_init`, `krn_irqHandler`, `krn_taskScheduler`, `krn_pickNextTcb` |
| Timed events | `kernel.c`, `process.c` | `krn.timedEvents`, `krn.intrCurrSecs` | `krn_addTimedEvent`, `krn_checkTimedEvents`, `timedEvent_wakeupThread`, `timedEvent_threadTimer` |
| Threads and processes | `os/process/process.c` | TCBs (state, wait, queue), list of TCBs, list of PCBs, `numActiveTimers` | create, destroy, sleep, wait, wake up |
| Handle table | `os/kernel/handles.c` | array of slots with counter, owner, type, data | create, destroy, destroy all of a process, look up |
| System calls | `os/syscalls/syscalls.c` | none of their own | 18 calls, dispatched from `hwcpu_handler` |
| Messages, keyboard | `process.c`, `os/hw/hwkyb.c` | a message queue for each thread | `prc_postThreadMsg`, `getMsg`, `postMsg`, `hwkyb_handler` |
| SDK mutex | `appsdk/app_process.c` | owner, counter and handle in user memory | `app_lockMutex`, `app_unlockMutex` |
| TLS indexes | `appsdk/app_process.c`, `bitset.h` | a bitset for the process, slots on the threads' stacks | thread entry, `app_tlsAlloc`, `app_tlsFree`, `app_tlsSet` |
| Files of a process | `syscalls.c`, `app_process.c` | the position of an open file, the kernel's buffer | `fopen`, `fclose`, `fread`, `fwrite` |
| Memory | `os/kernel/mmu.c`, `hwcpu.c` | free physical pages, page tables, `brk` | transactions, page ranges, `setBrk`, stack growth |
| Start and launch | `kernel.c`, `mmu.c`, `process.c` | the kernel's page table, IO addresses, list of PCBs, pid counter | `mmu_init`, `mmu_allocIO`, `krn_launchKernelApp`, `prc_createPCB` |
| Containers | `libraries/utils` | circular queues, sorted array, dynamic array | push, pop, remove, reserve |
| Clock driver | `os/hw/hwclk.c` | an array of callbacks for each timer | `hwclk_handler`, `hwclk_addCallback` |
| Heap allocator | `libraries/stdc/.../amalloc.c` | list of blocks, cursor, break | malloc, free, realloc |
| Disk controller | `os/hw/hwdkc.c` | a state byte and a file system for each drive | interrupt handler, mount, format, sync, the functions FatFs calls |
| Coroutines | `libraries/coroutines` | chain of contexts | `co_create`, `co_yield` |
| Text screen | `os/boot/boot.c`, `libraries/hardware/hwscreen.c` | cells of the screen, a pointer to the next one | print, scroll, clear, logo |

How they interact. User code enters the kernel through an interrupt: a system call, the
clock, the keyboard. The kernel itself is not interrupted (`krn_irqHandler` points the
interrupt context at a double-fault screen while it runs), so what one handler does is
atomic for user code; what is concurrent is user code, which can lose the CPU between any
two instructions. Inside the kernel components call one another directly and share the
structures above: the destructor of a handle destroys a thread, destroying a thread edits
the ready queue, the thread list and the timed events and may pick another current thread,
a timed event posts a message, a message wakes a thread. The hard parts are therefore

- raw pointers to a TCB kept in five places (current thread, ready queue, list, events,
  handles) that must all let go of it at the same time, even when the thread that makes
  the call is the one destroyed, or when its whole process is;
- threads with three reasons to be blocked and four sources of wake-ups;
- loops in the kernel whose body changes what they iterate over (timed events, the
  handles of a process being destroyed);
- the SDK mutex, half of which runs in user mode and can be preempted;
- results that are ignored when memory runs out;
- data structures whose mistakes show only after a long sequence of calls (a buffer that
  wraps and grows, a heap that splits and merges, a chain of contexts);
- a drive from which disks come and go while the driver waits for it;
- TLS indexes that are given out by preemptible code without a lock;
- a cursor that is a bare pointer, at the last cell of the screen.

`PROJECT.json` lists these hazards line by line with the properties aimed at each.

What makes each component right: the ready queue is exact and fair; the kernel returns to
a live, runnable thread on its own page table; no event, handle or list entry outlives its
thread; a destroyed process leaves nothing; sleeps are never cut short and always end; a
message is never missed; the mutex excludes, and its wake-ups arrive. A queue is a queue
and a heap keeps every block, whatever the calls; a callback is called once for each tick;
coroutines come back to where they left; a file call answers what it did; the driver
knows which disks are there; a launch that fails leaves nothing; the screen shows what was
printed.

## Modules

| Module | Models | Extends |
|---|---|---|
| `Handles` | the handle table, as operators on a table | |
| `Kernel` | scheduler, threads, processes, events, messages, system calls, interrupts | `Handles` |
| `SleepTime` | the kernel with a history of how long each sleep has lasted | `Kernel` |
| `AppMutex` | the SDK mutex, an instruction at a time, over the kernel | `Kernel` |
| `Mmu` | physical pages, user page tables, `setBrk`, stack growth, page by page | |
| `Fifo` | what a queue promises: a sequence of elements | |
| `Queue` | the circular buffer, shown to implement `Fifo` | |
| `DynArray` | the dynamic array, as operators on an array | |
| `PQueue` | the sorted array of the timed events | `DynArray` |
| `HwClk` | the callbacks of the clock driver | `DynArray` |
| `Coroutine` | the chain of coroutines and their contexts | |
| `Allocator` | what malloc, free and realloc promise | |
| `Amalloc` | the heap allocator, shown to implement `Allocator` | |
| `FileIO` | the file calls of the SDK and the kernel, chunk by chunk | |
| `Disk` | the driver of the disk controller, FatFs and the hardware around it | |
| `Tls` | the TLS indexes of a process, an instruction at a time | |
| `Boot` | the kernel space and the launch of the first processes | |
| `Console` | what a text screen shows | |
| `Screen` | the screen memory and its cursor, shown to implement `Console` | |
| `MCKernel`, `MCSleepTime`, `MCAppMutex`, `MCMmu` | instances for TLC | the above |
| `MCComponents` | the components from `Queue` to `Screen` in one run | the above |
| `KernelProofs` | the inductive invariant of `Kernel` and the theorems | `Kernel`, `TLAPS` |
| `SleepTimeProofs` | timers, wake-ups, the length of sleeps, the order of the ready queue | `SleepTime`, `KernelProofs` |
| `AppMutexProofs` | the mutex and its wake-ups | `AppMutex`, `KernelProofs` |
| `MmuProofs` | the inductive invariants of `Mmu` and the theorems | `Mmu`, `TLAPS` |
| `BootProofs` | the kernel space, launches that fail, and the screen, which implements `Console` | `Boot`, `Screen`, `TLAPS` |
| `DiskProofs` | what the driver knows of its drives | `Disk`, `TLAPS` |
| `ProcessProofs` | the TLS indexes, the file calls and the heap, which implements `Allocator` | `Tls`, `FileIO`, `Amalloc`, `TLAPS` |
| `LibraryProofs` | the dynamic array, the callbacks of the clock, the priority queue, the ring buffer, which implements `Fifo`, the coroutines | `HwClk`, `PQueue`, `Queue`, `Coroutine`, `TLAPS` |

### Kernel

The variables carry the names of the code's: `currTcb`, `tcb` (the TCBs, with fields
`state`, `wait`, `mtx`, `pcb`, `handle`, `msgs`, `tls`), `tcbReady`, `tcbList` (the circular
list from `rootTCB` on), `timedEvents`, `handles`, `pcbs`, `numActiveTimers`, `crpt`,
`appTlsSlots`. Three more say where the kernel is: `kpc` is `"user"` between interrupts and
otherwise names the loop being run, `cursor` is the loop's variable, `victim` the process
being torn down.

A system call whose handler is a straight line is one action, up to the end of
`krn_irqHandler` (`Resume`, which sets the page table register). The loops are actions of
their own, one per iteration, so that the invariants speak about the states in between:
`TimerIRQ`, then `WakeupThread` or `ThreadTimer` for each due event, then `Schedule`;
`KeyboardIRQ`, `PostKey` for each process, `KeysPosted`; `CloseProcess`, `DestroyHandle` for
each slot, `ProcessDestroyed`. A call that fails its checks changes no state and is not an
action.

Abstractions:

- Time is counted in quanta of the scheduler: `TimerIRQ` is one quantum and takes one from
  the time left to every event. Intervals are small numbers; `HalfRange` stands for 2^31,
  where `(s32)ms` turns negative and where the interval mask of a timer cuts.
- The priority queue is an array of cells. Any event with the least time may be popped: the
  queue of the code is a sorted array and hands out equal times in the order in which they
  were pushed (`PQueue` models it so), which nothing in the kernel relies on.
- A message queue is the number of its messages.
- `msgs`, `timedEvents` and `tcbReady` have capacities `MaxMsgs`, `MaxEvents`, `MaxReady`:
  where the code finds no memory to grow. The model does there what the code does: a
  message or an event is dropped, a failed push goes unnoticed.
- `wait.d` is a union: `mtx` is what its low word holds, and `SleepBits` what that word may
  look like when a `sleepEnd` was stored.
- The data pointer of a handle is kept for threads only; of a mutex or a file the kernel
  asks only whether it is NULL.
- Processes are those `krn_init` launches (how, and what if that fails, is in `Boot`); the
  OS has no call that starts another. The
  runs with two user processes use the kernel's support for several, which the shipped
  `krnApps` table (idle and one application) does not exercise.
- A keyboard interrupt handles one key event; several in the device's queue appear as
  several interrupts in a row.
- `krn_logStackUse`, an event every 10 s that only logs, logging in general, stack contents
  and the call for thread information are left out; the file transfers are in `FileIO`.
  An abort that does not grow the stack is only logged by the code: nothing to model.
- User code is the environment. Its threads make any call with any argument once they have
  told the kernel where their TLS array is, which `app_threadEntry` does first.

### SleepTime

Adds `remaining`, the quanta left of each thread's last sleep as its caller counts them,
and states the promise of `app_sleep` that its duration is at least the interval asked for.

### AppMutex

`owner`, `counter` and `mtxHandle` are the words of the `Mutex` structure and `pc` says where
each thread is in `app_lockMutex` or `app_unlockMutex`. The compare-and-exchange is atomic;
between any two steps the kernel may switch threads. `depth` counts locks minus unlocks
and exists for the properties only. Between calls a thread may sleep, and, when `UsesMsgs`
is true, exchange messages.

### Mmu

`totalPages`, `ppinfo` and `ptTransaction` are the fields of the global `mmu`; `ptState`, `pte`
and `brk` describe the page table of each user process and `stackMapped` is
`stackMappedBegin` of its main thread. A physical page is owned by a table, by nobody
(`NoPT`), or tagged by the open transaction (`Tag`).

`CreateUsrPT`, `ExpandHeap`, `ContractHeap` and `GrowStack` open a transaction and start a
loop over a range of pages, recorded in `op`. The loop runs a page at a time: `KeepPage`,
`MapPage`, `OutOfPages` and `RangeSet` are `mmu_setUsrRange`, `ReleasePage` and `RangeFreed`
are `mmu_freePageRange`. `FinishCreate`, `FinishSetBrk` and `FinishGrowStack` commit or roll
back and return to the caller. `DestroyPT` and `MoveBrk`, a `setBrk` that stays in its page,
are one step each. Nothing runs between two pages in the code; the steps are there so that
the invariants speak about the middle of a transaction too.

Abstractions:

- The part of a page table that maps the kernel is the same in every table and never
  changes: it is in `Boot`, and physical pages start above it here.
- `pte[p]` is a function on the virtual pages that have a physical page. Access bits are
  left out, and with them `mmu_checkUserPtr`, which changes nothing.
- The build is the release one: `krnverify` evaluates its argument and ignores a failure,
  `krnassert` does nothing. In `mmu_freePageRange` and in `mmu_createUsrPT` that matters.
- Tables are created at boot, before user code runs, in any order. How much memory the
  machine has is one of `Ram`, chosen once.
- `op.fn = "abort"` is the kernel taking a page fault of its own, when it clears a stack
  page it did not get. The code has no answer to that and the model stops.
- `failed` is a history variable: some heap expansion has run out of pages.

Two boundary cases look odd and are as in the code. `prc_setBrk` compares the page of the
new break with that of the old one, so a break at the very start of a page may be accepted
without that page being mapped, and moved within the page later; and contracting
keeps the page the new break is in. `HeapBacked` is therefore about the pages below
the page of the break. It would catch a contraction, or an expansion that ran out of pages, that
leaves one of those without memory; it does not catch a break accepted on the boundary.

### Queue and Fifo

`queue` is `Queue32`: the slots `data`, `capacity`, `head` and `tail`, one slot always free.
There is one action for each function of `queue32.c` and `queue.c`, which are the same algorithm
for elements of different sizes; `QueuePush` reserves more room when the queue is full, and
fails when `Allocates` says that there is no memory. `qAnswer` is what the call answered.
`Fifo` has the same calls on a sequence. `QueueIsFifo` is the refinement: `items` is
`Content(queue)`, read from `head` to `tail`. `Kernel` relies on it with its `tcbReady`.

The two files differ in three calls, which are taken from `queue.c`: `QueueDrop`, `QueueRemove` of
more than one value, and a `QueueGetAt` that checks its index. The first is a disagreement in the
repository: `queue32.h:49-51` says that `queue32_pop(NULL)` drops the element, and the unit tests
call it so (`queue32_tests.c:213`, `240`, `245`), but `queue32.c:90` writes through the pointer
without looking, where `queue.c` checks it. The only call in the OS passes a pointer
(`kernel.c:40`). `QueueIsFifo` says nothing of `queue32_pop(NULL)`.

A `reserve(0)` on an empty queue makes a buffer of one slot, which can hold nothing and is full
and empty at once. The next push then asks for `(1 - 1) * 2` elements, which `reserve` takes to be there
already, writes its element and moves `tail` around to where it was: it answers true and the
element is lost. Nobody in the OS reserves nothing, and the run does not either; the proof of the
refinement has it as its only hypothesis.

### DynArray, PQueue and HwClk

`DynArray` holds the operators for `array_pushGeneric` and its companions. `PQueue` uses it as
`priorityqueue.c` does: despite its name it is an array in descending order with a binary
search, and the earliest event is the last element. `PosOf` is that search, a round of its loop at a
time. `EventCmp` is the order of the
kernel's timed events. `pending` and the numbers of events are histories, so that
`AgendaInOrder` can say that no event is lost, and that equal times leave in the order in
which they came in.

`HwClk` is the interrupt handler of the clock as the loop it is: `HwClkTick` reads which timers
have expired, `HwClkCall` calls one callback, which may answer false and may add another one,
and `HwClkNextTimer` goes on. `due` and `called` are histories of one tick.

### Coroutine

`coNext` and `coPrevious` are the circular chain, `coCtx` the context pointer of each coroutine and
`coCurr` is `gCo.curr`. The context that a switch saves is named after the coroutine that was
running, so `CoContextsExact` can say that everyone resumes its own. Coroutines that end
(`Finish`) or are destroyed leave the chain and the previous one goes on. The model shows what
the code does where the header differs: `co_yield` to the main coroutine switches, and
`co_hasAlive` is true before the first `co_create`.

### Amalloc and Allocator

`heap.size` is a function from the addresses of the nodes to the size in use, 0 for a free
one: the list is in order of address, so `next` and `prev` are `NodeAfter` and `NodeBefore`. The
memory is modelled byte by byte: each block belongs to a client that writes its number into
it, so a block moved the wrong way, or overlapping another, shows in the data. The address
arithmetic is the code's (`AlignUp`, `NodeSize`, capacities as differences of addresses), and so
are the cursor of the next-fit search, the growth of the break by what is missing, its release
when the last node is free, and the three cases of `realloc`. Each of malloc, free and realloc
is one action: it is not thread-safe in the code either, and a process is expected to call it
from one thread at a time. `SetBrkOutcomes` is `prc_setBrk` with pages that may run out: a
refused expansion leaves the break, and keeps the entries it wrote before the page it found no
memory for. `mapped` is therefore the pages with an entry, and `HeapIsMapped` does not say whose
the memory behind an entry is: the rollback gives the pages of a refused expansion back, and a
later expansion takes their entries for pages it has. `Mmu` has the owners, and `mmu_stale` shows
what comes of it.
`HeapIsAllocator` is the refinement of `Allocator`, which sees the blocks of the clients and none of
the nodes. `AmallocAssumption` says of the constants what the `#define`s of `amalloc.c` do: header, smallest
free node and page are multiples of the alignment, the smallest free node is no larger than
it, and the heap is not at address 0, which stands for no node. `ama_realloc(ptr, 0)` answers NULL without
freeing the block, and is not called. The statistics of the debug build are left out, and
`ama_assert` does nothing: the assertion at `amalloc.c:399` would stop a debug build when a
request fits the grown node to the byte, which the release build, rightly, accepts.

### FileIO

`file` is the file on the disk, `fil` the open file of FatFs (flags, position, error), `req` the
call in progress with the locals of the kernel's loop, `reply` what the last call answered.
`Begin` has the multiplication of size and count, in words (`Wrap`), and the early return on
an invalid handle; `WriteChunk` and `ReadChunk` are one turn of the loop. How many bytes FatFs
transfers and whether it reports an error is its choice; the flags decide whether it may.

### Disk

`disk` is the state byte of each drive as the driver remembers it, with its own initialised
bit, `fs` the disk that FatFs has mounted for the drive. `dkc` says where the driver is: what it
waits for, for which drive and for which job. `DkcHandler` asks for the state of all drives;
`DkcScan` and `DkcInfo` handle one drive, `DkcMount`, `DkcFormat`, `DkcDone` and `DkcFree` are
`hwdkc_mount` with the format of a blank disk, `DkcSync` one turn of the polling loop and
`FileCall` a system call that reaches the disk. The hardware may put a disk in, take one out,
end an operation or fail it at any time, also while the driver waits.

What is taken for granted of the outside: the query of a disk's size fails only when the drive
is empty, an empty drive is ready, and FatFs accesses the disk once in a call.

Two histories say what the properties do not ask for. A change of one drive that a `hwdkc_sync`
for another swallows is in `missed`, and `ChangesNoticed` and `DiskNoticed` leave it out.
`exchanged` says that a disk was out between two queries, so that the drive looks as before;
`RightFileSystem` leaves that out, and does not catch FatFs going on with the tables of a disk
that was exchanged so.

### Tls

`appTlsStatus` is the bitset in one byte, `slots` the slots of each thread, `tls` where each
thread is in `app_tlsAlloc` or `app_tlsFree`; testing a bit, loading the byte and storing it
are steps of their own, as they are instructions. The code has no lock there, so two threads
can be given the same index. `raced` is a history: it records that a thread's store came
between another one's test and store. `TlsIndexesKept` claims the indexes for runs in
which that has not happened, and so says that this is the only way to lose one; the race
itself it does not catch.

### Boot

`gROMInfo` gives the sizes of the sections of the image, `krnPT` the kernel's page table,
`bootAt` where `krn_init` and the functions it calls are. `KrnLayout` is `mmu_calcKrnPTLayout`,
`KernelSpace` the sequence of `mmu_setKrnRange` calls, which replace the bits of a page that
two sections share (its comment says they are added). The launch of an app is a step for each
thing it takes, each of which it may not get, and a step for each label of the `goto` ladder.
`allocated` is a history of what exists for each app. Apps run in kernel mode (the idle
process) or in user mode. The shipped table has two apps; the run adds one more in each mode,
to see what a failure leaves for the next launch. In a release build a failed `krnverify` is
ignored: where the kernel then uses a NULL pointer the model ends (`"crash"`).

### Screen and Console

`screenBuf` is the memory of the screen with one cell of somebody else's behind it, and
`screenCursor` the cursor, an index where the code has a pointer. `screenLib` chooses between the boot
screen and the screen library, which print with the same code (`PrintString`, a character at a
time, with tab, newline, carriage return and backspace) and differ in what else they offer and
in one argument: `hwscr_scroll` clears up to column `HWSCR_XRES`, although coordinates are inclusive
(`hwscreen.h`), and so clears the byte behind the screen. `Console` has rows, and the place
where the next character goes. `ScreenIsConsole` is the refinement, together with the claim, for
the boot screen alone, that the cell behind the screen is never written: it does not catch the byte that
the library's `hwscr_scroll` clears there. The library's
`clearArea` and the functions that print at a place check nothing, and are called with places on
the screen. A cell is its character: colours and the formatting of `printf` are left out.

## Runs

| Run | Checks | Instance |
|---|---|---|
| `kernel` | types, `CurrentCanRun`, `TlsOfCurrent`, `NoMissedMessage`, `EventsOfLiveThreads`, `TimersCounted`, `OneWakeupPerSleeper`, `SleepLastsLongEnough` | idle and one process with two threads, 4 handles, sleeps of 0 and 2 quanta, timers of 1, 1 timer, 3 events, 1 message |
| `two_processes` | `ReadyQueueExact`, `ThreadListExact`, `ResumesLiveProcess`, `PageTableExists`, `ThreadHandles`, `DeadProcessLeavesNothing`, `NoOvertaking` | idle and two processes with three threads, 4 handles, no sleeps or timers |
| `kernel_liveness` | `ReadyRuns`, `SleepEnds`, `KernelReturns` | one process, two threads, sleeps of 1 and 2 quanta, repeating timers |
| `mmu` | `OwnedIsMapped`, `NothingLeaked`, `OwnedUntilFailure`, `HeapBacked`, `GuardNeverMapped` | two page tables, six pages of memory or two |
| `app_mutex` | `MutexSound` (`MutualExclusion` and `MutexWordsExact`), `NotifyReachesWaiter` | three threads, recursion depth 2, sleeps |
| `components` | `QueueIsFifo`, `AgendaInOrder`, `CalledOncePerTick`, `CoroutinesExact`, `HeapIsAllocator`, `HeapSound`, `ScreenIsConsole`, `FileIoExact`, `ChangesNoticed`, `RightFileSystem`, `DriverReturns`, `DiskNoticed`, `TlsIndexesKept`, `KernelSpaceExact`, `LaunchedOrNothing` | see below |

Every run of the kernel lets threads, mutexes and files be created and closed in any order, including a
thread that closes itself and a main thread that closes its process with the others still
blocked.

Why the bounds are enough. Two threads of a process are the least with which one can act
on the other while it is running, ready, asleep, waiting or gone; a third (in
`two_processes`) gives the ready queue an order and `NoOvertaking` something to say. Four
handles leave a slot for a mutex or a file, and a slot to be reused; a counter of two values
wraps after two uses. Sleeps of 0 and 2 quanta and timers of 1 put events before, at and
after one another. Three event cells are all that two sleepers and one timer need, so no
event is lost in the passing runs; one message is enough to fill a queue. `MaxReady` is the
number of threads, the case in which the ready queue always has room. The proofs remove
these bounds for all the properties they cover.

In `mmu` one process has a heap of three pages, a guard page and two pages of stack, the
other three pages of stack and no heap, which is the other layout the code knows. A
heap of three pages is the least that can be expanded or contracted by several pages from a
break that is neither at its start nor at its end; pages of two bytes make a break in a page
differ from one at its start. With two pages of memory not even one table can always be made;
with six, both can be made, but not both be filled: expansions and stack growth fail half
way, with the other process holding pages or gone. `mmu` is checked without deadlock
because it may really stop: once every process is gone, or the kernel is aborted.

In `components` the initial state chooses one of the components and only that one runs. They
share no state in the model, so a run of all of them side by side would check nothing
more. Its bounds, component by component:

- queue: capacities from 0 to 5 with a first buffer of 2, so that it grows several times,
  wraps around before and after it does, and fails to grow; two values, any of them removed.
- timed events: five events at two times, in an array that starts with one element.
- clock: two timers and four registrations, enough for a callback that is removed with
  others on both sides of it, and for one that is added while its timer is handled.
- coroutines: main and three others, the least with which one that is neither the first
  nor the last of the chain can end.
- heap: 8 bytes that may grow by two pages of 8, nodes of 2 bytes, requests of 1, 4, 7 and 11
  bytes, three blocks: splits that leave a node and splits too small for one, all cases of
  `realloc`, growth with a free and with a used last node, and pages that run out at the first or at the
  second of two. With
  and without a break function, as in a process and in the kernel.
- files: chunks of 2 bytes, items of 1 and 3, up to 4 bytes on the disk: whole chunks, a part
  of a chunk, a disk that is full, and a product of size and count that wraps.
- disk: two drives, two disks one of which is blank, and two more insertions than at the start.
- TLS: two threads and three indexes, one of which is the handle's.
- boot: pages of 4 bytes, 24 ROM images with sections that end in a page, at its end, or are
  empty, and four launches.
- screen: three rows of two cells, one letter, a logo of one cell: every row is first, last or
  neither, and a tab is longer than what is left of the screen.

It is checked without deadlock: the boot ends, and the clock and the disk stop at the
bounds of their callbacks and insertions.

Six runs show that a promise of the code's comments is not kept; each is listed as a
finding with the line it disagrees with:

- `timer_limit`: timers of a closed thread are never uncounted (`process.c:102-124`, `:348`);
- `zero_timer`: a repeating timer of 0 ms keeps the kernel in its loop (`process.c:289`);
- `mutex_lost_wakeup`: a wake-up is lost between the failed compare-and-exchange and the
  wait (`app_process.c:298-314`);
- `mutex_stale_match`: a thread that waits for a message takes the wake-up of one that waits
  for the mutex (`process.c:337`). In `app_mutex` nobody uses messages and the property holds;
- `mmu_stale_entry`: a heap expansion that fails leaves the entries it had set, and their
  physical pages are handed out again (`mmu.c:413-416`). `OwnedUntilFailure` says that this is
  the only way to a page that is mapped twice;
- `file_short_read`: a read that ends within a chunk, as at the end of most files, counts its
  last bytes without copying them to the program (`syscalls.c:440-448`). `FileIoExact` claims
  the whole chunks only.

Three more disagreements between comments and code have no run of their own. After a fault two
or more pages below the mapped stack `stackMappedBegin` is not where the mapped part of the
stack begins (`process.h:120`), since only the page of the fault is mapped (`hwcpu.c:40`);
only a report on stack use reads it. And `hwdkc_sync` forgets changes in the drives it does not
wait for, which the comment in it says itself (`hwdkc.c:125`); `missed` records them. And
`hwscr_scroll` takes the last column for an exclusive one, as `Screen` shows (`hwscreen.c:94`).

## Fairness

`FairSpec` has weak fairness of the kernel's steps, since the CPU executes the kernel until
it returns, and strong fairness of `TimerIRQ`. `krn_init` starts the quantum timer with auto
reset and interrupts enabled (`kernel.c:105`), so it keeps expiring, and an interrupt that
comes while the kernel handles another stays pending until user code runs again. Nothing
is assumed of user code. The safety runs of the kernel assume no fairness at all.

`DiskFairness` has weak fairness of the driver's steps, which are kernel code, strong fairness
of `DkcHandler`, since the CPU takes a pending interrupt whenever it is back in user mode, and
weak fairness of the end of an operation of the hardware, successful or not. That the poll
of `hwdkc_sync` ends cannot be had when an operation fails: the drive then keeps reporting
an error, and the loop waits for `ready`. `DriverReturns` and `DiskNoticed` say so.

## Proofs

Every invariant that a run checks is proved, and so are the three action properties and the three
refinements `QueueIsFifo`, `HeapIsAllocator` and `ScreenIsConsole`; liveness is left to TLC. The theorems hold for every finite set of
threads, any set of processes, any number of handle slots, tables, pages, drives, indexes,
apps, callbacks and events, and for any capacities, sizes and alignments, of the screen as of the heap; the assumptions are the facts about the constants
which the modules state as `...Assumption` and which TLC evaluates in each run. Where a
theorem needs more, it says so as a hypothesis of its own:

| Hypothesis | Needed by | Why the code justifies it, or what happens without it |
|---|---|---|
| `BitsAreNoHandle`: the word of a stored `sleepEnd` that `prc_wakeOneWaitingThread` reads is no HANDLE | `WakeupsAreForSleepers` and what rests on it, `NobodyIsOvertaken`, `NotifyFindsWaiter` | the union `wait.d` is compared without its type (`process.c:337`). Where the word does equal a HANDLE, a wake-up of a mutex ends a sleep early |
| `EnoughEvents`: an event for each thread and all timers of each process | `SleepersHaveOneWakeup` | `prc_putThreadToSleep` ignores that an event was not added (`process.c:318`). The limit on timers is what makes the bound finite |
| `IntervalsAreSigned`: intervals below 2^31 ms | `SleepsLastLongEnough` | `(s32)ms` at `process.c:312` |
| `0 \notin ReserveCapacities`: nobody reserves room for no element | `QueueImplementsFifo` | a ring of one slot loses what is pushed (see Queue). No call of `queue32_reserve` or `queue_reserve` outside the unit tests |
| `UsesMsgs = FALSE`: no thread waits for a message | `NotifyFindsWaiter` | `mutex_stale_match` is the counterexample |

`KernelAssumption`, and the hypotheses together with it, are satisfied by the instances of the runs.

### The kernel

`KernelProofs` proves `Spec => []IInv`, and from it eleven of the invariants. None of them is
inductive alone. `IInv` has three parts:

- `ThreadInv`, about threads: the ready queue holds READY threads, each once (`QueueOK`); the
  current thread can run; the global TLS pointer is its own; events refer to existing
  threads; a thread that waits for a message is blocked and has none. The last strengthens
  `NoMissedMessage`: without "blocked" a wait type left behind by an earlier wait could not
  be ruled out when a message arrives.
- `OwnerInv`, about ownership: thread list, handles and threads correspond (`ListOK`,
  `HandlesOK`), and everything belongs to a process that exists or to the one being torn
  down (`ProcsOK`). That every existing process has its main thread, and that the idle
  thread alone belongs to the idle process, is what makes closing any thread but the idle
  one safe.
- `ModeInv`, about the kernel's loops: only a tear-down has a victim; during it the kernel's
  own page table is in use, and behind the cursor no handle of the victim is left. With
  `ThreadHandles` this says that no thread of it is left when the loop ends.

One lemma for each action (`SleepStep`, `CloseProcessStep`, ...) shows that the action keeps
`IInv`; they rest on lemmas about the operators (`DequeuedProperties`, `QueuePushed`,
`WokenProperties`, `PostedProperties`, `OwnersDestroyed`, ...), stated once for any queue,
TCBs or table. `TearDownIsComplete` and `ReturnsToLiveProcess` then follow from the invariant.

### Time and order

`SleepTimeProofs` puts three more invariants on top of `IInv`, each for a question of its own.

- `TimerIInv`: `CountsOK` and that the idle thread has no events. The set of a process's pending
  timers changes by at most one element in a step; what makes the count hold is that a
  repeated timer is added in the cell it left, and that destroying a thread takes its events
  away without touching the count, which may then be too high, never too low.
- `SleepInv`: a thread that sleeps is blocked, and a wake-up belongs to one that sleeps, once
  for each. That wakes only sleepers, but does not yet say that each has a wake-up:
  `WakeupInv` does, and is kept only if no event is lost. `RoomForWakeup` counts the cells
  in use, wake-ups by threads and timers by processes, to find one free for the next sleep.
- `RemainingOK`: no wake-up is due while its sleeper has quanta left. The interval that the
  caller counts and the time of the event are decremented in the same interrupt.

`NobodyIsOvertaken` looks at the ready queue across a step: a removal keeps the order of the
others, a push puts a new thread last. It needs `SleepInv`, since a wake-up pushes a thread,
and only that it is not in the queue already makes this harmless.

### The mutex

`MutexInv` says what `owner` and `counter` are at each place a thread may be: between the
compare-and-exchange and the increment the owner has not counted yet, and between the
decrement and the release it has nothing left to count. `MutualExclusion` alone is
not inductive, nor is `MutexWordsExact`. Handles tell threads apart because `HandlesOK` of the
kernel says so, so the proof goes over the kernel's invariant, and every kernel step is shown to
end no thread of the program (`Survive`). `WaitInv` says why a thread is blocked, and gives
`NotifyFindsWaiter`: `prc_wakeOneWaitingThread` then finds a thread that waits for the mutex.

### Memory

`MmuProofs` proves `Spec => []PagesInv`, and from it `OwnedIsMapped`, `NothingLeaked` and
`OwnedUntilFailure`. None of the three is inductive: that a page is its table's own is kept by
a rollback only because a transaction that rolls back either belongs to `setBrk`, which has
recorded the failure, or to a create, whose table is thrown away, or has tagged nothing.
`TransactionShape` says when a transaction is open and which table it works on, `CallerShape`
what each caller may rely on, `OwnersLive` that owners are tables in use. There is one
lemma for each action (`MapPageStep`, `ReleasePageStep`, ...).

`GuardInv` adds to `GuardNeverMapped` that the range still to be mapped lies in the heap or the
stack; `BackedInv` adds to `HeapBacked` what each call has mapped or freed so far, by the
place of its loop, and that a create which did not get its first page cannot end well
(`CreateFails`). Both rest on a handful of facts about pages and addresses (`DivFacts`, `MulOrder`,
`PageOfAddress`, `PageOrder`), proved for any page size: the SMT backend finds them once they are stated
about plain numbers, and does not find them in the middle of a step.

### Start and launch

`SpaceMade` keeps the kernel's table as the value it was made with, and `KernelSpaceIsExact`
then is about that value: `mmu_setKrnRange` is followed through the eight sections, and
`BootAssumption` (sections of the image in order, each of the later ones at the start of a page)
gives that two sections share a page only where both have the same bits. Without the assumption the
theorem is false, as the later of two sections would take the page.

`LaunchExact` is the invariant of the `goto` ladder: `Parts` is what a launch has by the place it
is at, on the way up and on the way down, and everything allocated is that or belongs to a
launched process. That a failing launch also takes its thread out of the ready queue needs that
it is the only one of its number there, which is why the lists are ascending.

### Drives, files and TLS

`DiskInv` is about what the driver has been told rather than what it has written down: while its
handler goes through the drives, `Known` is what the snapshot says of those it has yet to come
to. `KnownPresent` then is inductive where `ChangesNoticed` is not, and `OneOperation` says that
the operation the driver waits for is the only one. `KnownRight` is the same for the file
system, `KnownMoved` for the disk on which the awaited operation was carried out.

`FileInv` says of a call in progress and of the last one that the position is where the call began
plus what it has done, and that these bytes agree with the caller's; of a read only the whole
chunks, which is as much as is true. Chunks have any size: the lemmas on `Whole` are arithmetic
about plain numbers again, and those on `Over` and `SubSeq` about writing over part of a file.

`TlsInv` lets a thread be between the test of a bit and the store of its byte: what it has loaded
is still the byte, unless `raced` has recorded a store in between.

### The libraries

`HwClkInv` numbers the callbacks: numbers are in the arrays once (`Numbered`), what is due lies
where the handler still comes to, and what was called does not. Removing the callback that was
just called moves the others down by one; the lemmas on `DynArray` say by how much, for an array of any
size, and that an addition, which may move the array, changes none of them.

`PQueueInv` and `QueueInv` need to know what a loop computes, which the models write as a recursive
function on the number of its rounds. The library's induction theorems take an operator as a
parameter; instead `CountedUp` is proved from the least number of which a set does not
have the next, and `Looped`, from it, that a loop of `n` rounds is a function. `PosOfIs` then follows the bounds
of the binary search, and that they come closer in each round, so that they meet within as many
rounds as there are elements; `ThinnedIs` and `CompactedIs` follow the removals, which write to the
places they have read already. `AgendaKeepsOrder` needs that the number of a new event is larger than
all others: that is why the search must go behind equal times.

A ring is dealt with as slots that are `Onward` from the head. `%` only ever takes away one turn
(`RingSteps`), and once this is said no proof about the ring mentions it again. Every call
is shown to be the one of `Fifo` on `Content(queue)`: `PushedIs` and `PoppedIs` when it has room or elements,
`CopiedIs` for the copy into a larger buffer, in one piece or two, `RemovedIs` for the removal, which goes
round the ring with two places while the abstract one goes through a sequence.

`CoInv` reads the chain of coroutines as places from 0, main, to the number of those alive, and
main again behind the last. `Linked` says that the pointers join each place to the next, and `ChainCut`
that the two assignments of `finish` keep this, also when the neighbours are both main. `Flags`
connects the chain with the state of each coroutine, which is what the code tests, and so gives that
`co_create` never links one that is linked already. `Contexts` needs `NoneYet`: the first
`co_create` makes main the current coroutine.

### The heap

`HeapInv` says that the nodes are laid out with room for a header and an aligned byte count
each (`Laid`), that no two free ones are neighbours (`Apart`), that the pages up to the break have
an entry in the page table (`SystemHas`), and that every byte of a block is its owner's (`Owned`). `Apart`
does not hold in the middle of a call: `Apart(z, X, Y)` names the nodes that are excepted until
`coalesceNext` has been there, first for the node that is freed, then for the one before it.

The proof goes up by the functions of the code. `NodeRemovedIs`, `ResizedIs` and `NodeAddedIs` are the
list operations, `CoalescedIs`, `ResizedAsUsedIs` and `FreeImplIs` the functions that keep the list
tidy, `ExtendedIs` the growth of the heap. From there on only blocks matter: `Becomes(h, r, X, Y)` says that `r`
has the blocks of `h`, with their bytes, but for those of `X`, and those of `Y`, and `MallocIs`,
`FreeIs` and `ReallocIs` give each call's outcome in these words, for each of the cases of
`realloc`: in place, into the next node, down into the previous one, and by `malloc`, copy and `free`. What they
need to know of bytes is that writing a header hits no block (`HeadersOnly`), and that a `memmove` into a node's
room hits none but its own (`MovedIs`, `BlocksApart`). `GrowsTo`, `RefusedKeeps` and `ShrinksTo` are the
three answers of `prc_setBrk`.

`HeapStaysSound` is part of the invariant. `HeapImplementsAllocator` is about the owners' view: `Replaces` says
which blocks a step exchanged, and each such exchange is an `Allocate`, a `Release` or a `Resize` of `Allocator`, or
changes no block. Nothing about the search matters for it, only that what it finds has room.

### The screen

`ScreenInv` says that the memory is a screen and the cell behind it, and that the cursor is on the screen. The
console's rows are the `Image` of the memory, and its row and column the quotient and the remainder of the
cursor. `CellOfPlace` and `PlaceOfCell`, which rest on `Division`, say that cells and places correspond one to one;
`SameImage` reduces a claim about rows to one about the cells, and division is not mentioned again. Two kinds of
change are left. `ScrolledIs` is the move of the lines with the clearing behind it, by any number of lines.
`PaintedIs` is the writing of one character to an area, and with `Covers`, that the cells are those of the places, it gives
`BootClear`, `HwscrClear`, `HwscrClearArea`, `HwscrPrintAtXY` and the logo, each in a few lines.

What a printed character does is in `Shows(s, r, v)`: the screen `s` has become `r`, which shows `v`. `PrintedOneIs`
says that `printChar` is `Put` of the console. The code scrolls when the cursor is at the last cell, the
console when its last place is reached, before the next character; `CheckedIs` shows that this is the same moment. A
tab is four of these, a backspace goes back first (`BackShown`, which needs that the cell before the first is the first),
and a new line on the last row scrolls, as the row behind it starts beyond the last cell (`LineShown`).

### Model-checked only

- Liveness (`ReadyRuns`, `SleepEnds`, `KernelReturns`, `DriverReturns`, `DiskNoticed`): the prover has no rule
  for fairness and `ENABLED` that could be used here.

## Plan

Left, in this order:

1. `HandlesSpec`: an abstract table in which a handle names an object and never another one,
   and in which way the kernel's table implements it.
2. Starvation of the threads that wait for a mutex, with fairness for the threads.

## Running the checks

    tlc -workers 2 -config MCSleepTime.cfg MCSleepTime
    tlc -workers 2 -config MCMmu.cfg MCMmu
    tlc -workers 2 -config MCComponents.cfg MCComponents
    tlapm KernelProofs.tla

and `tlapm` in the same way on the other modules whose name ends in `Proofs`.

The largest runs, `kernel`, `two_processes` and `mmu`, each reach about two million distinct states
and take one to two minutes; `components` reaches half a million.

The definitions named `Mutant: ...` in their comments are wrong on purpose: each changes one
definition in the way of a plausible slip, and `PROJECT.json` says which property notices.
No specification uses them.

## Not modelled

- The FAT file system, printf and the string functions: third-party, or conversions without
  state. `Disk` and `FileIO` take FatFs as external.
- The network: output. Of the screen, colours, formatting and `hwscr_map`.
- The assembly that saves and restores contexts and reaches registers: the models take it
  that the context returned is the one that is resumed.
- `mmu_checkUserPtr`, the dumps of page tables, the reports on threads and stack use: they
  change no state.
- The ring buffer and the heap of words under `utils/todo`: they are in no build.
- Tests and samples.
