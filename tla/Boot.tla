-------------------------------- MODULE Boot --------------------------------
(***************************************************************************)
(* The start of the kernel: where its parts are in memory and who may use  *)
(* them (os/kernel/mmu.c), and the launch of the processes it starts with  *)
(* (krn_init in kernel.c, prc_createPCB in process.c), in which any        *)
(* allocation may fail.                                                    *)
(*                                                                         *)
(* The user part of a page table is in Mmu; here a page table is had or    *)
(* not.  A release build: krnverify ignores a failure, and the kernel then *)
(* uses a NULL pointer, which is where the model ends.                     *)
(***************************************************************************)
EXTENDS Integers, Sequences, FiniteSets

CONSTANTS
    KrnPageSize,    \* MMU_PAGE_SIZE
    Roms,           \* the ROM images: sizes and addresses of the sections, gROMInfo
    KrnStackSize,   \* KERNEL_STACK_SIZE, in bytes
    KrnHeapPages,   \* KERNEL_HEAP_NUMPAGES
    KrnIoPages,     \* KERNEL_IO_PAGES
    ScreenSizes,    \* the sizes of the screen, which is mapped into the IO section
    Privileged      \* of each app that is launched, whether it runs in kernel mode

\* What mmu_calcKrnPTLayout asserts of the linker's work, and what a linker does:
\* text from address 0, sections that do not overlap.
ASSUME BootAssumption ==
    /\ KrnPageSize \in Nat \ {0} /\ KrnStackSize \in Nat \ {0}
    /\ KrnHeapPages \in Nat \ {0} /\ KrnIoPages \in Nat \ {0}
    /\ ScreenSizes \subseteq Nat
    /\ Privileged \in Seq(BOOLEAN) /\ Privileged # << >> /\ Privileged[1]
    /\ Roms \subseteq [textSize : Nat, rodataAddr : Nat, rodataSize : Nat, dataAddr : Nat,
                      dataSize : Nat, dataSharedAddr : Nat, dataSharedSize : Nat]
    /\ \A r \in Roms :
        /\ \A a \in {r.rodataAddr, r.dataAddr, r.dataSharedAddr} : a % KrnPageSize = 0
        /\ r.textSize <= r.rodataAddr /\ r.rodataAddr + r.rodataSize <= r.dataAddr
        /\ r.dataAddr + r.dataSize <= r.dataSharedAddr

VARIABLES
    gROMInfo,
    bootAt,         \* where krn_init and what it calls are
    krnPT,          \* mmu.krnOnlyPT: of each page its [page, bits]
    krnPages,       \* the physical pages krnOnlyPT owns in mmu.ppinfo
    currIOEnd,      \* mmu.currIOEnd
    ioRanges,       \* history: what mmu_allocIO has given
    crpt,           \* the page table in use: NoTable, KrnTable or the app whose it is
    mmuKeys,        \* the keys of the kernel
    app,            \* the app that is launched
    allocated,      \* history: what there is of each app, as <<kind, app>>
    pcbList,        \* rootPCB's list
    ready,          \* krn.tcbReady, by their apps
    pidCounter      \* krn.pidCounter

krnVars == <<gROMInfo, krnPT, krnPages, currIOEnd, ioRanges>>
procVars == <<pcbList, ready, pidCounter>>
bootVars == <<krnVars, procVars, bootAt, crpt, mmuKeys, app, allocated>>

App == DOMAIN Privileged

NoTable == -1     \* no paging yet
KrnTable == 0     \* krnOnlyPT

-----------------------------------------------------------------------------
(***************************************************************************)
(* The kernel's part of every page table                                   *)
(***************************************************************************)

KrnPageOf(addr) == addr \div KrnPageSize
KrnAlign(addr) == KrnPageOf(addr + KrnPageSize - 1) * KrnPageSize

\* A section: from its first address to the one past the last.
Section(begin, size) == [begin |-> begin, end |-> begin + size]

\* Mutant: the stack begins where the original of the shared data ends.
KrnLayoutPacked(r) ==
    LET ori == Section(r.dataSharedAddr, r.dataSharedSize)
        stack == Section(ori.end, KrnStackSize)
        shared == Section(stack.end, r.dataSharedSize)
        heap == [begin |-> shared.end, end |-> KrnAlign(shared.end + KrnHeapPages * KrnPageSize)]
    IN  [text |-> Section(0, r.textSize), rodata |-> Section(r.rodataAddr, r.rodataSize),
         data |-> Section(r.dataAddr, r.dataSize), oriShared |-> ori, stack |-> stack,
         shared |-> shared, heap |-> heap,
         io |-> Section(heap.end, KrnIoPages * KrnPageSize)]

\* mmu_calcKrnPTLayout: the stack, the shared data and the heap share pages.
KrnLayout(r) ==
    LET ori == Section(r.dataSharedAddr, r.dataSharedSize)
        stack == Section(KrnAlign(ori.end), KrnStackSize)
        shared == Section(stack.end, r.dataSharedSize)
        heap == [begin |-> shared.end, end |-> KrnAlign(shared.end + KrnHeapPages * KrnPageSize)]
    IN  [text |-> Section(0, r.textSize), rodata |-> Section(r.rodataAddr, r.rodataSize),
         data |-> Section(r.dataAddr, r.dataSize), oriShared |-> ori, stack |-> stack,
         shared |-> shared, heap |-> heap,
         io |-> Section(KrnAlign(heap.end), KrnIoPages * KrnPageSize)]

\* mmu_krnPTECount
KrnPageCount(r) == KrnPageOf(KrnLayout(r).io.end)

\* The access bits and the keys of each section; user code has the key USR, the
\* kernel the key KRN, and ORIGINAL when it makes a copy of the shared data.
Bits ==
    [text |-> {"X", "USR", "KRN"}, rodata |-> {"R", "USR", "KRN"},
     data |-> {"R", "W", "KRN"}, oriShared |-> {"R", "ORIGINAL"},
     stack |-> {"R", "W", "KRN"}, shared |-> {"R", "W", "KRN"},
     heap |-> {"R", "W", "KRN"}, io |-> {"R", "W", "KRN"}]

\* The pages of a section: none if it is empty.
PagesOf(s) == IF s.end = s.begin THEN {} ELSE KrnPageOf(s.begin) .. KrnPageOf(s.end - 1)

\* mmu_setKrnRange, from a first physical page on: bits are replaced, not added.
KrnRangeSet(pt, s, first, bits) ==
    [p \in DOMAIN pt |->
        IF p \in PagesOf(s) THEN [page |-> first + (p - KrnPageOf(s.begin)), bits |-> bits]
        ELSE pt[p]]

Mapped(pt, layout, name) ==
    KrnRangeSet(pt, layout[name], KrnPageOf(layout[name].begin), Bits[name])

\* mmu_setupKernelSpace, for a table with n pages that calloc has cleared: one
\* section after the other
KernelSpace(r, n) ==
    LET layout == KrnLayout(r)
        clear == [p \in 0 .. n - 1 |-> [page |-> 0, bits |-> {}]]
        code == Mapped(Mapped(clear, layout, "text"), layout, "rodata")
        data == Mapped(Mapped(code, layout, "data"), layout, "oriShared")
        work == Mapped(Mapped(data, layout, "stack"), layout, "shared")
    IN  Mapped(Mapped(work, layout, "heap"), layout, "io")

-----------------------------------------------------------------------------
(***************************************************************************)
(* mmu_preInit, mmu_init and the screen                                    *)
(***************************************************************************)

BootInit ==
    /\ gROMInfo \in Roms
    /\ bootAt = "preInit"
    /\ krnPT = << >> /\ krnPages = {} /\ currIOEnd = 0 /\ ioRanges = {}
    /\ crpt = NoTable /\ mmuKeys = {}
    /\ app = 1
    /\ allocated = {}
    /\ pcbList = << >> /\ ready = << >> /\ pidCounter = 0

\* The copy of the shared data and the stack's pattern are contents.
MmuPreInit ==
    /\ bootAt = "preInit"
    /\ currIOEnd' = KrnLayout(gROMInfo).io.begin
    /\ bootAt' = "mmuInit"
    /\ UNCHANGED <<gROMInfo, krnPT, krnPages, ioRanges, procVars, crpt, mmuKeys, app, allocated>>

\* With no memory for ppinfo or the table the kernel uses a NULL pointer.
MmuInit ==
    /\ bootAt = "mmuInit"
    /\ \/ /\ krnPT' = KernelSpace(gROMInfo, KrnPageCount(gROMInfo))
          /\ krnPages' = 0 .. KrnPageCount(gROMInfo) - 1
          /\ mmuKeys' = {"KRN"}
          /\ crpt' = KrnTable
          /\ bootAt' = "screen"
       \/ bootAt' = "crash" /\ UNCHANGED <<krnPT, krnPages, mmuKeys, crpt>>
    /\ UNCHANGED <<gROMInfo, currIOEnd, ioRanges, procVars, app, allocated>>

\* mmu_allocIO, called by boot_ui_init: without room for the screen the kernel
\* draws through a NULL pointer, for krnassert does nothing in a release build.
AllocIO(size) ==
    /\ bootAt = "screen"
    /\ IF currIOEnd + size <= KrnLayout(gROMInfo).io.end
       THEN /\ currIOEnd' = currIOEnd + size
            /\ ioRanges' = ioRanges \cup {Section(currIOEnd, size)}
            /\ bootAt' = "launch"
       ELSE bootAt' = "crash" /\ UNCHANGED <<currIOEnd, ioRanges>>
    /\ UNCHANGED <<gROMInfo, krnPT, krnPages, procVars, crpt, mmuKeys, app, allocated>>

-----------------------------------------------------------------------------
(***************************************************************************)
(* krn_launchKernelApp and prc_createPCB                                   *)
(***************************************************************************)

\* What calloc, handles_create or mmu_createUsrPT gives, or does not.
Obtains(kind, next, otherwise) ==
    \/ allocated' = allocated \cup {<<kind, app>>} /\ bootAt' = next
    \/ bootAt' = otherwise /\ UNCHANGED allocated

Frees(kinds, next) ==
    /\ allocated' = allocated \ (kinds \X {app})
    /\ bootAt' = next

\* What a step of a launch leaves alone
LaunchStep(at) ==
    /\ bootAt = at
    /\ UNCHANGED <<krnVars, app>>

Launch ==
    /\ LaunchStep("launch") /\ app \in App
    /\ Obtains("pcb", IF Privileged[app] THEN "stack" ELSE "pt", "failed")
    /\ UNCHANGED <<procVars, crpt, mmuKeys>>

LaunchStack ==
    /\ LaunchStep("stack")
    /\ Obtains("stack", "tcb", "noPcb")
    /\ UNCHANGED <<procVars, crpt, mmuKeys>>

LaunchPT ==
    /\ LaunchStep("pt")
    /\ Obtains("pt", "tcb", "noPcb")
    /\ UNCHANGED <<procVars, crpt, mmuKeys>>

\* prc_createTCB: the TCB ...
LaunchTcb ==
    /\ LaunchStep("tcb")
    /\ Obtains("tcb", "handle", "noTcb")
    /\ UNCHANGED <<procVars, crpt, mmuKeys>>

\* ... and its handle, with which the thread is ready.
LaunchHandle ==
    /\ LaunchStep("handle")
    /\ Obtains("handle", "made", "noHandle")
    /\ ready' = IF bootAt' = "made" THEN Append(ready, app) ELSE ready
    /\ UNCHANGED <<pcbList, pidCounter, crpt, mmuKeys>>

LaunchNoHandle ==
    /\ LaunchStep("noHandle")
    /\ Frees({"tcb"}, "noTcb")
    /\ UNCHANGED <<procVars, crpt, mmuKeys>>

\* Mutant: the stack of a process in kernel mode is not given back.
LaunchNoTcbKeepsStack ==
    /\ LaunchStep("noTcb")
    /\ Frees({"pt"}, "noPcb")
    /\ UNCHANGED <<procVars, crpt, mmuKeys>>

\* The failed prc_createTCB: the stack or the page table are given back.
LaunchNoTcb ==
    /\ LaunchStep("noTcb")
    /\ Frees(IF Privileged[app] THEN {"stack"} ELSE {"pt"}, "noPcb")
    /\ UNCHANGED <<procVars, crpt, mmuKeys>>

LaunchNoPcb ==
    /\ LaunchStep("noPcb")
    /\ Frees({"pcb"}, "failed")
    /\ UNCHANGED <<procVars, crpt, mmuKeys>>

\* queue32_remove: the first that is a
Without(q, a) ==
    IF \E i \in 1 .. Len(q) : q[i] = a
    THEN LET k == CHOOSE i \in 1 .. Len(q) : q[i] = a /\ \A j \in 1 .. i - 1 : q[j] # a
         IN  [i \in 1 .. Len(q) - 1 |-> IF i < k THEN q[i] ELSE q[i + 1]]
    ELSE q

\* A thread in kernel mode leaves the ready queue; the process gets its pid and its
\* place in the list, and the kernel moves to its page table to fill its stack.
LaunchMade ==
    /\ LaunchStep("made")
    /\ ready' = IF Privileged[app] THEN Without(ready, app) ELSE ready
    /\ pidCounter' = pidCounter + 1
    /\ pcbList' = Append(pcbList, app)
    /\ crpt' = IF Privileged[app] THEN KrnTable ELSE app
    /\ mmuKeys' = mmuKeys \cup {"USR"}
    /\ bootAt' = "swapped"
    /\ UNCHANGED allocated

\* mmu_endTempPTSwap: back to the table that was in use, the kernel's.
LaunchEnds ==
    /\ bootAt = "swapped"
    /\ mmuKeys' = mmuKeys \ {"USR"}
    /\ crpt' = KrnTable
    /\ app' = app + 1
    /\ bootAt' = "launch"
    /\ UNCHANGED <<krnVars, procVars, allocated>>

\* krn_launchKernelApp answers NULL: without the idle process the kernel crashes.
LaunchFailed ==
    /\ bootAt = "failed"
    /\ IF app = 1 THEN bootAt' = "crash" /\ UNCHANGED app
       ELSE bootAt' = "launch" /\ app' = app + 1
    /\ UNCHANGED <<krnVars, procVars, crpt, mmuKeys, allocated>>

\* krn_init returns the context of the idle process.
Booted ==
    /\ bootAt = "launch" /\ app \notin App
    /\ bootAt' = "up"
    /\ UNCHANGED <<krnVars, procVars, crpt, mmuKeys, app, allocated>>

BootNext ==
    \/ MmuPreInit \/ MmuInit
    \/ \E size \in ScreenSizes : AllocIO(size)
    \/ Launch \/ LaunchStack \/ LaunchPT \/ LaunchTcb \/ LaunchHandle
    \/ LaunchNoHandle \/ LaunchNoTcb \/ LaunchNoPcb
    \/ LaunchMade \/ LaunchEnds \/ LaunchFailed \/ Booted

BootSpec == BootInit /\ [][BootNext]_bootVars

-----------------------------------------------------------------------------
(***************************************************************************)
(* Properties                                                              *)
(***************************************************************************)

\* A page table in use maps each page of the kernel that has a byte of a section
\* to itself, with the bits of that section, whatever sections share it; user
\* code gets at the text and the read-only data alone, nobody but the copier at
\* the original of the shared data; and those pages are never given to a process.
KernelSpaceExact ==
    crpt # NoTable =>
        LET layout == KrnLayout(gROMInfo)
        IN  \A p \in DOMAIN krnPT :
                LET here == {n \in DOMAIN layout : p \in PagesOf(layout[n])}
                IN  /\ \A n \in here : krnPT[p] = [page |-> p, bits |-> Bits[n]]
                    /\ here = {} => krnPT[p].bits = {}
                    /\ p \in krnPages

Ascending(q) == \A i, j \in 1 .. Len(q) : i < j => q[i] < q[j]

\* What there is of an app that was launched
PartsOf(a) == {"pcb", "tcb", "handle", IF Privileged[a] THEN "stack" ELSE "pt"} \X {a}

Launched == {pcbList[i] : i \in 1 .. Len(pcbList)}

\* A launch is all or nothing, however it fails: what has been allocated belongs
\* to a process of the list, the threads in user mode, and only they, are ready,
\* both in the order of the launches, a pid was used for each process, and the
\* kernel is back on its own page table, with its own keys.
LaunchedOrNothing ==
    bootAt \in {"launch", "up"} =>
        /\ allocated = UNION {PartsOf(a) : a \in Launched}
        /\ {ready[i] : i \in 1 .. Len(ready)} = {a \in Launched : ~Privileged[a]}
        /\ Ascending(pcbList) /\ Ascending(ready)
        /\ pidCounter = Len(pcbList)
        /\ crpt = KrnTable /\ mmuKeys = {"KRN"}

=============================================================================
