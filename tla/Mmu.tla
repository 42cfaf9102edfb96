-------------------------------- MODULE Mmu --------------------------------
(***************************************************************************)
(* Physical pages and user page tables (os/kernel/mmu.c), with the three   *)
(* callers that change them: prc_createPCB at boot, prc_setBrk             *)
(* (os/process/process.c) and hwcpu_tryGrowStack (os/hw/hwcpu.c).          *)
(*                                                                         *)
(* Pages are taken one at a time inside a transaction: a page is tagged    *)
(* when it is allocated, and the end of the transaction gives the tagged   *)
(* pages to the page table or frees them.  Nothing interrupts the kernel,  *)
(* but each page is a step of its own here, so that the invariants speak   *)
(* about the middle of a transaction too.                                  *)
(*                                                                         *)
(* The kernel's own part of every page table is fixed and left out.  The   *)
(* build is the release one, in which krnverify ignores a failure and      *)
(* krnassert does nothing.                                                 *)
(***************************************************************************)
EXTENDS Integers, FiniteSets

CONSTANTS
    PT,             \* the page tables of the user processes
    NoPT,           \* NULL
    Tag,            \* the dummy owner of createTransactionTag
    PageSize,       \* MMU_PAGE_SIZE
    KrnPages,       \* mmu_krnPTECount: the pages of the kernel space
    MaxPages,       \* the most pages of memory a machine has
    Ram,            \* the numbers of pages a machine may have
    StackSize,      \* stack bytes each process asks for
    HeapPages,      \* heap pages each process asks for
    DataSharedSize  \* gROMInfo.dataSharedSize

ASSUME MmuAssumption ==
    /\ NoPT \notin PT /\ Tag \notin PT /\ NoPT # Tag
    /\ PageSize \in Nat \ {0}
    /\ KrnPages \in Nat \ {0}
    /\ MaxPages \in Nat
    /\ Ram \subseteq 0 .. MaxPages
    /\ StackSize \in [PT -> Nat \ {0}]
    /\ HeapPages \in [PT -> Nat]
    /\ DataSharedSize \in Nat

VARIABLES
    totalPages,     \* mmu.totalPages, found out at boot
    ppinfo,         \* who owns each physical page, and for which virtual page
    ptTransaction,  \* mmu.ptTransaction
    ptState,        \* "new" before the table is made, then "live", then "dead"
    pte,            \* of each table, the virtual pages that have a physical one
    brk,            \* PageTable::brk
    stackMapped,    \* TCB::stackMappedBegin of the main thread
    op,             \* what the kernel is doing
    failed          \* history: a heap could not be expanded

vars ==
    <<totalPages, ppinfo, ptTransaction, ptState, pte, brk, stackMapped, op, failed>>

\* The physical pages above those of the kernel.
Frames == KrnPages .. MaxPages - 1

FreePage == [owner |-> NoPT, vpage |-> 0]

-----------------------------------------------------------------------------
(***************************************************************************)
(* Addresses and the layout of the user space                              *)
(***************************************************************************)

AddrToPage(a) == a \div PageSize
PageToAddr(v) == v * PageSize
PageAlign(a) == PageToAddr(AddrToPage(a + PageSize - 1))

HeapBegin == PageToAddr(KrnPages)

HeapEnd(p) == PageAlign(HeapBegin + PageToAddr(HeapPages[p]))

\* One guard page between heap and stack, but only if there is a heap.
StackBegin(p) ==
    IF HeapEnd(p) = HeapBegin THEN HeapEnd(p) ELSE HeapEnd(p) + PageSize

\* The shared data ends with the last page, and the stack ends where it begins.
SharedDataEnd(p) == PageAlign(StackBegin(p) + StackSize[p] + DataSharedSize)
StackEnd(p) == SharedDataEnd(p) - DataSharedSize

StackTopPage(p) == AddrToPage(StackEnd(p) - 1)

-----------------------------------------------------------------------------
(***************************************************************************)
(* The kernel's loops.  op.fn is the loop being run, from op.at to op.last, *)
(* op.call whom it is run for and op.arg that caller's argument.           *)
(***************************************************************************)

InUser == [fn |-> "user", call |-> "none", arg |-> 0, at |-> 0, last |-> 0]

\* A loop over the pages of [begin, end).
Loop(fn, call, arg, begin, end) ==
    [fn |-> fn, call |-> call, arg |-> arg,
     at |-> AddrToPage(begin), last |-> AddrToPage(end - 1)]

\* The second range that mmu_createUsrPT maps: the top of the stack and the shared data.
MapStack(p) ==
    Loop("set", "stack", 0, PageToAddr(StackTopPage(p)), SharedDataEnd(p))

Init ==
    /\ totalPages \in Ram
    /\ ppinfo = [f \in Frames |-> FreePage]
    /\ ptTransaction = NoPT
    /\ ptState = [p \in PT |-> "new"]
    /\ pte = [p \in PT |-> << >>]
    /\ brk = [p \in PT |-> HeapBegin]
    /\ stackMapped = [p \in PT |-> 0]
    /\ op = InUser
    /\ failed = FALSE

\* mmu_ppBeginTransaction
BeginTransaction(p) == ptTransaction = NoPT /\ ptTransaction' = p

\* Mutant: a tagged page passes for a free one.
FreeFramesTagged ==
    {f \in Frames : f < totalPages /\ ppinfo[f].owner \notin PT}

FreeFrames == {f \in Frames : f < totalPages /\ ppinfo[f].owner = NoPT}

\* mmu_ppAlloc: the free page with the lowest number, tagged.
PpAlloc(f, v) ==
    /\ f \in FreeFrames
    /\ \A g \in FreeFrames : f <= g
    /\ ppinfo' = [ppinfo EXCEPT ![f] = [owner |-> Tag, vpage |-> v]]

\* Mutant: a rolled back transaction leaves its pages tagged.
FinishedKeepsTags(commit) ==
    [f \in Frames |->
        IF ppinfo[f].owner = Tag /\ commit
        THEN [ppinfo[f] EXCEPT !.owner = ptTransaction] ELSE ppinfo[f]]

\* mmu_ppFinishTransaction
Finished(commit) ==
    [f \in Frames |->
        IF ppinfo[f].owner # Tag THEN ppinfo[f]
        ELSE IF commit THEN [ppinfo[f] EXCEPT !.owner = ptTransaction]
        ELSE FreePage]

\* mmu_freePages
PagesFreed(p) ==
    [f \in Frames |-> IF ppinfo[f].owner = p THEN FreePage ELSE ppinfo[f]]

-----------------------------------------------------------------------------
(***************************************************************************)
(* mmu_setUsrRange with allocPages, page by page                           *)
(***************************************************************************)

Setting == op.fn = "set" /\ op.at <= op.last
HasPage == op.at \in DOMAIN pte[ptTransaction]
NextPage == op' = [op EXCEPT !.at = @ + 1]

\* The entry has a physical page already.
KeepPage ==
    /\ Setting /\ HasPage
    /\ NextPage
    /\ UNCHANGED <<totalPages, ppinfo, ptTransaction, ptState, pte, brk, stackMapped,
                   failed>>

MapPage ==
    /\ Setting /\ ~HasPage
    /\ \E f \in Frames :
        /\ PpAlloc(f, op.at)
        /\ pte' = [pte EXCEPT ![ptTransaction] =
                    [v \in DOMAIN @ \cup {op.at} |->
                        IF v = op.at THEN f ELSE pte[ptTransaction][v]]]
    /\ NextPage
    /\ UNCHANGED <<totalPages, ptTransaction, ptState, brk, stackMapped, failed>>

\* Every page is taken. The entries already set stay. mmu_createUsrPT ignores
\* the result for the heap and goes on with the stack.
OutOfPages ==
    /\ Setting /\ ~HasPage /\ FreeFrames = {}
    /\ op' = IF op.call = "heap" THEN MapStack(ptTransaction)
             ELSE [op EXCEPT !.fn = "rollback"]
    /\ failed' = (failed \/ op.call = "setBrk")
    /\ UNCHANGED <<totalPages, ppinfo, ptTransaction, ptState, pte, brk, stackMapped>>

RangeSet ==
    /\ op.fn = "set" /\ op.at > op.last
    /\ op' = IF op.call = "heap" THEN MapStack(ptTransaction)
             ELSE [op EXCEPT !.fn = "commit"]
    /\ UNCHANGED <<totalPages, ppinfo, ptTransaction, ptState, pte, brk, stackMapped,
                   failed>>

-----------------------------------------------------------------------------
(***************************************************************************)
(* mmu_freePageRange, page by page                                         *)
(***************************************************************************)

\* Mutant: the entry is cleared, the page is not given back.
ReleasePageKeepsOwner ==
    /\ op.fn = "free" /\ op.at <= op.last
    /\ pte' = [pte EXCEPT ![ptTransaction] =
                [v \in DOMAIN @ \ {op.at} |-> pte[ptTransaction][v]]]
    /\ NextPage
    /\ UNCHANGED <<totalPages, ppinfo, ptTransaction, ptState, brk, stackMapped, failed>>

\* Whoever owns the page: the assertion that compares assigns instead.
ReleasePage ==
    /\ op.fn = "free" /\ op.at <= op.last
    /\ IF HasPage
       THEN /\ ppinfo' = [ppinfo EXCEPT ![pte[ptTransaction][op.at]] = FreePage]
            /\ pte' = [pte EXCEPT ![ptTransaction] =
                        [v \in DOMAIN @ \ {op.at} |-> pte[ptTransaction][v]]]
       ELSE UNCHANGED <<ppinfo, pte>>
    /\ NextPage
    /\ UNCHANGED <<totalPages, ptTransaction, ptState, brk, stackMapped, failed>>

RangeFreed ==
    /\ op.fn = "free" /\ op.at > op.last
    /\ op' = [op EXCEPT !.fn = "commit"]
    /\ UNCHANGED <<totalPages, ppinfo, ptTransaction, ptState, pte, brk, stackMapped,
                   failed>>

-----------------------------------------------------------------------------
(***************************************************************************)
(* mmu_createUsrPT: krn_init makes every process before user code runs     *)
(***************************************************************************)

CreateUsrPT(p) ==
    /\ op = InUser /\ ptState[p] = "new"
    /\ BeginTransaction(p)
    /\ IF HeapEnd(p) # HeapBegin
       THEN /\ op' = Loop("set", "heap", 0, HeapBegin, HeapBegin + 1)
            /\ brk' = [brk EXCEPT ![p] = HeapBegin + PageSize]
       ELSE op' = MapStack(p) /\ UNCHANGED brk
    /\ stackMapped' = [stackMapped EXCEPT ![p] = PageToAddr(StackTopPage(p))]
    /\ UNCHANGED <<totalPages, ppinfo, ptState, pte, failed>>

FinishCreate ==
    /\ op.call = "stack" /\ op.fn \in {"commit", "rollback"}
    /\ LET made == op.fn = "commit"  p == ptTransaction
       IN  /\ ppinfo' = Finished(made)
           /\ ptState' = [ptState EXCEPT ![p] = IF made THEN "live" ELSE "dead"]
           /\ pte' = IF made THEN pte ELSE [pte EXCEPT ![p] = << >>]
    /\ ptTransaction' = NoPT
    /\ op' = InUser
    /\ UNCHANGED <<totalPages, brk, stackMapped, failed>>

-----------------------------------------------------------------------------
(***************************************************************************)
(* What a running process does                                             *)
(***************************************************************************)

Booted == \A p \in PT : ptState[p] # "new"

Running(p) == op = InUser /\ Booted /\ ptState[p] = "live"

BrkAllowed(p, newbrk) == newbrk >= HeapBegin /\ newbrk <= HeapEnd(p)

SamePage(a, b) == AddrToPage(a) = AddrToPage(b)

\* prc_setBrk within the page of brk
MoveBrk(p, newbrk) ==
    /\ Running(p) /\ BrkAllowed(p, newbrk)
    /\ SamePage(newbrk, brk[p])
    /\ brk' = [brk EXCEPT ![p] = newbrk]
    /\ UNCHANGED <<totalPages, ppinfo, ptTransaction, ptState, pte, stackMapped, op,
                   failed>>

ExpandHeap(p, newbrk) ==
    /\ Running(p) /\ BrkAllowed(p, newbrk)
    /\ ~SamePage(newbrk, brk[p]) /\ newbrk > brk[p]
    /\ BeginTransaction(p)
    /\ op' = Loop("set", "setBrk", newbrk, brk[p], newbrk)
    /\ UNCHANGED <<totalPages, ppinfo, ptState, pte, brk, stackMapped, failed>>

\* From the page after that of the new break to the one before the old break.
ContractHeap(p, newbrk) ==
    /\ Running(p) /\ BrkAllowed(p, newbrk)
    /\ ~SamePage(newbrk, brk[p]) /\ newbrk < brk[p]
    /\ BeginTransaction(p)
    /\ op' = Loop("free", "setBrk", newbrk, PageAlign(newbrk), PageAlign(brk[p]))
    /\ UNCHANGED <<totalPages, ppinfo, ptState, pte, brk, stackMapped, failed>>

\* Mutant: the break moves whether or not there were pages.
FinishSetBrkAlways ==
    /\ op.call = "setBrk" /\ op.fn \in {"commit", "rollback"}
    /\ ppinfo' = Finished(op.fn = "commit")
    /\ ptTransaction' = NoPT
    /\ brk' = [brk EXCEPT ![ptTransaction] = op.arg]
    /\ op' = InUser
    /\ UNCHANGED <<totalPages, ptState, pte, stackMapped, failed>>

FinishSetBrk ==
    /\ op.call = "setBrk" /\ op.fn \in {"commit", "rollback"}
    /\ ppinfo' = Finished(op.fn = "commit")
    /\ ptTransaction' = NoPT
    /\ brk' = IF op.fn = "commit" THEN [brk EXCEPT ![ptTransaction] = op.arg] ELSE brk
    /\ op' = InUser
    /\ UNCHANGED <<totalPages, ptState, pte, stackMapped, failed>>

\* Mutant: the guard page counts as stack.
GrowStackIntoGuard(p, failedAddr) ==
    /\ Running(p)
    /\ failedAddr >= StackBegin(p) - PageSize /\ failedAddr < StackEnd(p)
    /\ AddrToPage(failedAddr) \notin DOMAIN pte[p]
    /\ BeginTransaction(p)
    /\ op' = Loop("set", "growStack", failedAddr, failedAddr, failedAddr + 1)
    /\ UNCHANGED <<totalPages, ppinfo, ptState, pte, brk, stackMapped, failed>>

\* hwcpu_tryGrowStack: the main thread writes to a stack page that is not mapped.
GrowStack(p, failedAddr) ==
    /\ Running(p)
    /\ failedAddr >= StackBegin(p) /\ failedAddr < StackEnd(p)
    /\ AddrToPage(failedAddr) \notin DOMAIN pte[p]
    /\ BeginTransaction(p)
    /\ op' = Loop("set", "growStack", failedAddr, failedAddr, failedAddr + 1)
    /\ UNCHANGED <<totalPages, ppinfo, ptState, pte, brk, stackMapped, failed>>

\* The page is cleared whether or not there is one: if not, the kernel itself
\* is aborted, which the code has no answer to.
FinishGrowStack ==
    /\ op.call = "growStack" /\ op.fn \in {"commit", "rollback"}
    /\ ppinfo' = Finished(op.fn = "commit")
    /\ ptTransaction' = NoPT
    /\ stackMapped' = [stackMapped EXCEPT ![ptTransaction] =
                        PageToAddr(AddrToPage(op.arg))]
    /\ op' = IF op.fn = "commit" THEN InUser ELSE [op EXCEPT !.fn = "abort"]
    /\ UNCHANGED <<totalPages, ptState, pte, brk, failed>>

\* mmu_destroyPT, when the main thread is closed
DestroyPT(p) ==
    /\ Running(p)
    /\ ppinfo' = PagesFreed(p)
    /\ ptState' = [ptState EXCEPT ![p] = "dead"]
    /\ pte' = [pte EXCEPT ![p] = << >>]
    /\ UNCHANGED <<totalPages, ptTransaction, brk, stackMapped, op, failed>>

-----------------------------------------------------------------------------
UserSpace(p) == 0 .. SharedDataEnd(p)

Next ==
    \/ KeepPage \/ MapPage \/ OutOfPages \/ RangeSet
    \/ ReleasePage \/ RangeFreed
    \/ FinishCreate \/ FinishSetBrk \/ FinishGrowStack
    \/ \E p \in PT :
        \/ CreateUsrPT(p)
        \/ DestroyPT(p)
        \/ \E a \in UserSpace(p) :
            \/ MoveBrk(p, a)
            \/ ExpandHeap(p, a)
            \/ ContractHeap(p, a)
            \/ GrowStack(p, a)

Spec == Init /\ [][Next]_vars

-----------------------------------------------------------------------------
(***************************************************************************)
(* Properties                                                              *)
(***************************************************************************)

\* Types of the variables of mmu.c and of the page tables; no break is below its heap.
MmuTypeOK ==
    /\ totalPages \in Ram
    /\ ppinfo \in [Frames -> [owner : PT \cup {NoPT, Tag}, vpage : Int]]
    /\ ptTransaction \in PT \cup {NoPT}
    /\ ptState \in [PT -> {"new", "live", "dead"}]
    /\ DOMAIN pte = PT
    /\ \A p \in PT : \A v \in DOMAIN pte[p] : v \in Int /\ pte[p][v] \in Frames
    /\ brk \in [PT -> Int] /\ \A p \in PT : brk[p] >= HeapBegin
    /\ stackMapped \in [PT -> Int]
    /\ op \in [fn : {"user", "set", "free", "commit", "rollback", "abort"},
               call : {"none", "heap", "stack", "setBrk", "growStack"},
               arg : Int, at : Int, last : Int]
    /\ failed \in BOOLEAN

\* Whom a physical page belongs to; a tagged page belongs to the transaction.
OwnerOf(f) == IF ppinfo[f].owner = Tag THEN ptTransaction ELSE ppinfo[f].owner

\* What ppinfo says of a page is true (mmu.c:15-21): its owner maps it, and at
\* the virtual page noted. No path leaves a page owned but unreachable.
OwnedIsMapped ==
    \A f \in Frames : OwnerOf(f) # NoPT =>
        /\ ppinfo[f].vpage \in DOMAIN pte[OwnerOf(f)]
        /\ pte[OwnerOf(f)][ppinfo[f].vpage] = f

\* Transactions end: in user code none is open and no page is tagged, and what
\* is owned is owned by a table in use. A failed create or a destroy leaks no page.
NothingLeaked ==
    op.fn = "user" =>
        /\ ptTransaction = NoPT
        /\ \A f \in Frames :
            \/ ppinfo[f].owner = NoPT
            \/ ppinfo[f].owner \in PT /\ ptState[ppinfo[f].owner] = "live"

\* Every page a table maps is its own, and mapped at one place only.
PagesOwned ==
    \A p \in PT : \A v \in DOMAIN pte[p] :
        OwnerOf(pte[p][v]) = p /\ ppinfo[pte[p][v]].vpage = v

\* What PPInfo can say of a page (mmu.c:15-21), one table and one virtual page,
\* is all there is to say: no physical page is mapped twice.
MappedOnce ==
    \A p, q \in PT : \A v \in DOMAIN pte[p], w \in DOMAIN pte[q] :
        pte[p][v] = pte[q][w] => p = q /\ v = w

\* As long as no heap expansion has run out of pages, every page a table maps is
\* its own and mapped once: in the middle of every transaction, after a failed
\* create or stack growth, and after a destroy.
OwnedUntilFailure == ~failed => PagesOwned

\* The bytes that a process may use: during setBrk, those below both breaks.
UsableHeapEnd(p) ==
    IF p = ptTransaction /\ op.call = "setBrk" /\ op.arg < brk[p]
    THEN op.arg ELSE brk[p]

\* A break that setBrk accepted is backed by pages: all those below the page of
\* the break are mapped, however it was moved and whatever failed before.
HeapBacked ==
    \A p \in PT : ptState[p] = "live" =>
        KrnPages .. AddrToPage(UsableHeapEnd(p)) - 1 \subseteq DOMAIN pte[p]

\* No table ever maps its guard page, a page of the kernel space or one beyond
\* its last entry: no range that setBrk, the stack or the boot maps runs over.
GuardNeverMapped ==
    \A p \in PT : \A v \in DOMAIN pte[p] :
        \/ v >= KrnPages /\ PageToAddr(v) < HeapEnd(p)
        \/ PageToAddr(v) >= StackBegin(p) /\ PageToAddr(v) < SharedDataEnd(p)

-----------------------------------------------------------------------------
(***************************************************************************)
(* The inductive invariant behind OwnedIsMapped, NothingLeaked and         *)
(* OwnedUntilFailure                                                       *)
(***************************************************************************)

Tagged == {f \in Frames : ppinfo[f].owner = Tag}

\* A transaction is open exactly while the kernel works on a table, which is in
\* use, or, during a create, not yet; only then are pages tagged.
TransactionShape ==
    /\ ptTransaction = NoPT <=> op.fn \in {"user", "abort"}
    /\ op.fn = "user" => op = InUser
    /\ ptTransaction = NoPT => Tagged = {}
    /\ ptTransaction # NoPT =>
        \/ op.call \in {"heap", "stack"} /\ ptState[ptTransaction] = "new"
        \/ op.call \in {"setBrk", "growStack"} /\ ptState[ptTransaction] = "live"

\* What each caller may rely on when its transaction is rolled back: setBrk has
\* recorded the failure, and a stack grows by one page, so none is tagged.
CallerShape ==
    /\ op.call = "setBrk" => op.arg >= HeapBegin
    /\ op.call = "setBrk" /\ op.fn = "rollback" => failed
    /\ op.call = "growStack" /\ op.fn = "set" => op.at >= op.last
    /\ op.call = "growStack" /\ (Setting \/ op.fn = "rollback") => Tagged = {}

OwnersLive ==
    \A f \in Frames : ppinfo[f].owner \in PT => ptState[ppinfo[f].owner] = "live"

PagesInv ==
    /\ MmuTypeOK
    /\ TransactionShape
    /\ CallerShape
    /\ OwnersLive
    /\ OwnedIsMapped
    /\ OwnedUntilFailure

=============================================================================
