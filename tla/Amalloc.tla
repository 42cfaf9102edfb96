------------------------------ MODULE Amalloc ------------------------------
(***************************************************************************)
(* The heap allocator of the kernel and of every process                   *)
(* (libraries/stdc/stdc/detail/amalloc.c), with the prc_setBrk it calls in *)
(* a process (os/process/process.c).                                       *)
(*                                                                         *)
(* The circular list of nodes is in the order of addresses: it is the      *)
(* function `size' from the addresses of the nodes to AMANode::size, 0 for *)
(* a free one.  mem is the memory: a step that writes a node writes its    *)
(* header there, and memmove copies bytes, so that their order matters.    *)
(* The client writes its number to every byte it was given; what is in     *)
(* nobody's block is forgotten at the end of a call.                       *)
(*                                                                         *)
(* The calls of one thread: nothing else runs in the middle of one.  The   *)
(* build is the release one: no assertions and no guard values.            *)
(***************************************************************************)
EXTENDS Integers, FiniteSets, FiniteSetsExt

CONSTANTS
    Alignment,      \* ALIGNMENT
    NodeSize,       \* NODE_SIZE
    FreeNodeMin,    \* FREENODE_MIN_SIZE
    HeapPageSize,   \* PAGE_SIZE
    HeapStart,      \* ama.heapStart
    InitialBrk,     \* ama.minbrk: where the first page ends
    HeapLimit,      \* PageTable::heapEnd: the most a process may get
    Sizes,          \* the sizes that are asked for
    Clients         \* bound: the numbers of the blocks that may be live at once

ASSUME AmallocAssumption ==
    /\ Alignment \in Nat \ {0} /\ NodeSize \in Nat \ {0} /\ FreeNodeMin \in Nat \ {0}
    /\ HeapPageSize \in Nat \ {0}
    /\ \A n \in {NodeSize, FreeNodeMin, HeapPageSize, HeapStart} : n % Alignment = 0
    /\ FreeNodeMin <= Alignment     \* they are the same
    /\ HeapStart \in Nat \ {0} /\ InitialBrk \in Nat /\ HeapLimit \in Nat
    /\ InitialBrk >= HeapStart + NodeSize + FreeNodeMin
    /\ InitialBrk % HeapPageSize = 0 /\ HeapLimit >= InitialBrk
    /\ Sizes \subseteq Nat /\ Clients \subseteq Nat \ {0}

VARIABLES
    heap,           \* [size, brk, cursor, mem]: AMAState and the memory
    os,             \* [brk, mapped]: the process's break, the heap pages with an entry
    hasBrkFunc,     \* whether there is a brkFunc: not in the kernel
    owner           \* of each block's node, the number of its client

amallocVars == <<heap, os, hasBrkFunc, owner>>

AlignUp(n, unit) == ((n + unit - 1) \div unit) * unit

-----------------------------------------------------------------------------
(***************************************************************************)
(* The list of nodes                                                       *)
(***************************************************************************)

NodesOf(h) == DOMAIN h.size
LastNode(h) == Max(NodesOf(h))

\* node->next and node->prev: the list is circular.
NodeAfter(h, a) == IF a = LastNode(h) THEN HeapStart ELSE Min({b \in NodesOf(h) : b > a})
NodeBefore(h, a) == IF a = HeapStart THEN LastNode(h) ELSE Max({b \in NodesOf(h) : b < a})

\* ama_getCapacity
Capacity(h, a) ==
    (IF a = LastNode(h) THEN h.brk ELSE NodeAfter(h, a)) - (a + NodeSize)

\* The user memory of a node
PtrOf(a) == a + NodeSize
DataOf(h, a) == [i \in 0 .. h.size[a] - 1 |-> h.mem[PtrOf(a) + i]]

NodeAdded(h, a) ==
    [h EXCEPT !.size = [b \in NodesOf(h) \cup {a} |-> IF b = a THEN 0 ELSE h.size[b]],
              !.mem = [x \in DOMAIN h.mem |-> IF x \in a .. a + NodeSize - 1 THEN 0 ELSE @[x]]]

NodeRemoved(h, a) == [h EXCEPT !.size = [b \in NodesOf(h) \ {a} |-> h.size[b]]]

\* ama_tryCoalesce: what it leaves
Coalesces(h, a) == a < NodeAfter(h, a) /\ h.size[NodeAfter(h, a)] = 0
Coalesced(h, a) == IF Coalesces(h, a) THEN NodeRemoved(h, NodeAfter(h, a)) ELSE h

\* ama_findFree: the free nodes that fit, and the first of them from the cursor on.
Fitting(h, capacity) ==
    {a \in NodesOf(h) : h.size[a] = 0 /\ Capacity(h, a) >= capacity}
FirstFit(h, capacity) ==
    LET fit == Fitting(h, capacity)
        ahead == {a \in fit : a >= h.cursor}
    IN  IF ahead # {} THEN Min(ahead) ELSE Min(fit)

\* Mutant: the rest is not merged with a free node behind it.
ResizedNotCoalesced(h, a, newSize, newCapacity) ==
    LET used == [h EXCEPT !.size[a] = newSize]
        rest == PtrOf(a) + newCapacity
    IN  IF Capacity(h, a) - newCapacity < NodeSize + FreeNodeMin THEN used
        ELSE NodeAdded(used, rest)

\* ama_resizeAsUsed: the rest becomes a free node if it is large enough for one.
ResizedAsUsed(h, a, newSize, newCapacity) ==
    LET used == [h EXCEPT !.size[a] = newSize]
        rest == PtrOf(a) + newCapacity
    IN  IF Capacity(h, a) - newCapacity < NodeSize + FreeNodeMin THEN used
        ELSE Coalesced(NodeAdded(used, rest), rest)

Moved(h, dst, src, n) ==
    [h EXCEPT !.mem = [x \in DOMAIN h.mem |->
        IF x \in dst .. dst + n - 1 THEN h.mem[x - dst + src] ELSE h.mem[x]]]

-----------------------------------------------------------------------------
(***************************************************************************)
(* prc_setBrk: its outcomes, each [ok, os].  mapped is the pages that have *)
(* an entry in the page table.  An expansion that finds no memory for the  *)
(* page p keeps the entries it wrote before p, though the rollback gives   *)
(* their memory back: whose it is after that is for Mmu to say.            *)
(***************************************************************************)

HeapPageOf(a) == a \div HeapPageSize

SetBrkOutcomes(s, newbrk) ==
    IF newbrk < HeapStart \/ newbrk > HeapLimit THEN {[ok |-> FALSE, os |-> s]}
    ELSE IF HeapPageOf(newbrk) = HeapPageOf(s.brk)
    THEN {[ok |-> TRUE, os |-> [s EXCEPT !.brk = newbrk]]}
    ELSE IF newbrk > s.brk
    THEN LET pages == HeapPageOf(s.brk) .. HeapPageOf(newbrk - 1)
         IN  {[ok |-> TRUE, os |-> [brk |-> newbrk, mapped |-> s.mapped \cup pages]]} \cup
             {[ok |-> FALSE, os |-> [s EXCEPT !.mapped = @ \cup HeapPageOf(s.brk) .. p - 1]] :
                p \in pages \ s.mapped}
    ELSE {[ok |-> TRUE,
           os |-> [brk |-> newbrk,
                   mapped |-> s.mapped \ (HeapPageOf(AlignUp(newbrk, HeapPageSize))
                                            .. HeapPageOf(AlignUp(s.brk, HeapPageSize) - 1))]]}

-----------------------------------------------------------------------------
(***************************************************************************)
(* malloc, free and realloc: outcomes [heap, os, node], node = 0 for NULL. *)
(***************************************************************************)

Outcome(h, s, a) == [heap |-> h, os |-> s, node |-> a]

\* The break to ask for: enough for the request, and to the end of a page.
WantedBrk(h, n) ==
    LET last == LastNode(h)
        request == IF h.size[last] = 0 THEN n - Capacity(h, last) ELSE NodeSize + n
    IN  AlignUp(h.brk + AlignUp(request, Alignment), HeapPageSize)

\* The heap with its new break: a free last node picks up the room, else there
\* is a new one.
Extended(h, wanted) ==
    IF h.size[LastNode(h)] = 0 THEN [h EXCEPT !.brk = wanted]
    ELSE [NodeAdded(h, h.brk) EXCEPT !.brk = wanted]

\* The node a, resized, with the cursor behind it.
Taken(h, a, n) ==
    LET used == ResizedAsUsed(h, a, n, AlignUp(n, Alignment))
    IN  [used EXCEPT !.cursor = NodeAfter(used, a)]

MallocOutcomes(h, s, n) ==
    IF n = 0 THEN {Outcome(h, s, 0)}
    ELSE IF Fitting(h, AlignUp(n, Alignment)) # {}
    THEN LET a == FirstFit(h, AlignUp(n, Alignment)) IN {Outcome(Taken(h, a, n), s, a)}
    ELSE IF ~hasBrkFunc THEN {Outcome(h, s, 0)}
    ELSE {IF r.ok
          THEN LET e == Extended(h, WantedBrk(h, n))
               IN  Outcome(Taken(e, LastNode(e), n), r.os, LastNode(e))
          ELSE Outcome(h, r.os, 0) : r \in SetBrkOutcomes(s, WantedBrk(h, n))}

\* ama_freeImpl without the release of pages: free, then merge with the node
\* after it and with the one before it.
FreeImpl(h, a) ==
    LET freed == Coalesced([h EXCEPT !.size[a] = 0], a)
        prev == NodeBefore(freed, a)
    IN  IF freed.size[prev] = 0 /\ Coalesces(freed, prev)
        THEN [NodeRemoved(freed, a) EXCEPT !.cursor = prev]
        ELSE [freed EXCEPT !.cursor = a]

\* ... and with it: a free last node keeps the least capacity, but the heap
\* never gets smaller than it was at first. The answer of brkFunc is ignored.
ReleasedBrk(h) == Max({LastNode(h) + NodeSize + FreeNodeMin, InitialBrk})

FreeOutcomes(h, s, a) ==
    LET f == FreeImpl(h, a)
    IN  IF hasBrkFunc /\ f.size[LastNode(f)] = 0
        THEN {Outcome([f EXCEPT !.brk = ReleasedBrk(f)], r.os, 0) :
                r \in SetBrkOutcomes(s, ReleasedBrk(f))}
        ELSE {Outcome(f, s, 0)}

\* Case 2 of realloc: with the free node behind it there is enough.
NextHelps(h, a, capacity) ==
    /\ Coalesces(h, a)
    /\ Capacity(h, a) + NodeSize + Capacity(h, NodeAfter(h, a)) >= capacity

\* Case 3: with the free node before it, and the one behind it if there is one.
PreviousHelps(h, a, capacity) ==
    LET prev == NodeBefore(h, a)
        next == IF Coalesces(h, a) THEN NodeSize + Capacity(h, NodeAfter(h, a)) ELSE 0
    IN  /\ a > prev /\ h.size[prev] = 0
        /\ capacity <= Capacity(h, prev) + NodeSize + Capacity(h, a) + next

\* Mutant: the rest becomes a node of its own before the data is moved.
MovedAfterResize(h, a, n) ==
    LET prev == NodeBefore(h, a)
        t == Taken(FreeImpl(h, a), prev, n)
    IN  Moved(t, PtrOf(prev), PtrOf(a), h.size[a])

\* Case 3: the node is given up and merged, the data moves down, and only then
\* does the rest become a node of its own.
MovedDown(h, a, n) ==
    LET prev == NodeBefore(h, a)
    IN  Taken(Moved(FreeImpl(h, a), PtrOf(prev), PtrOf(a), h.size[a]), prev, n)

\* Case 4: another block, then the old one is given up and its data copied.
ReallocByMalloc(h, s, a, n) ==
    {IF o.node = 0 THEN o
     ELSE LET m == Moved(FreeImpl(o.heap, a), PtrOf(o.node), PtrOf(a), h.size[a])
          IN  Outcome([m EXCEPT !.cursor = NodeAfter(m, o.node)], o.os, o.node)
        : o \in MallocOutcomes(h, s, n)}

\* ama_reallocImpl of a block
ReallocOutcomes(h, s, a, n) ==
    LET capacity == AlignUp(n, Alignment)
    IN  IF n = 0 THEN {Outcome(h, s, 0)}
        ELSE IF capacity <= Capacity(h, a) THEN {Outcome(Taken(h, a, n), s, a)}
        ELSE IF NextHelps(h, a, capacity)
        THEN {Outcome(Taken(NodeRemoved(h, NodeAfter(h, a)), a, n), s, a)}
        ELSE IF PreviousHelps(h, a, capacity)
        THEN {Outcome(MovedDown(h, a, n), s, NodeBefore(h, a))}
        ELSE ReallocByMalloc(h, s, a, n)

-----------------------------------------------------------------------------
(***************************************************************************)
(* The calls                                                               *)
(***************************************************************************)

Used(h) == {a \in NodesOf(h) : h.size[a] > 0}

\* The memory after a call: the client writes to what it did not have before
\* (the bytes of its block from `from' on), and nobody's bytes are forgotten.
MemoryAfter(h, o, a, from) ==
    [h EXCEPT !.mem = [x \in DOMAIN h.mem |->
        IF a # 0 /\ x \in PtrOf(a) + from .. PtrOf(a) + h.size[a] - 1 THEN o[a]
        ELSE IF \E b \in Used(h) : x \in PtrOf(b) .. PtrOf(b) + h.size[b] - 1
        THEN h.mem[x] ELSE 0]]

\* ama_init: one free node over the whole heap.
AmallocInit ==
    /\ heap = [size |-> [a \in {HeapStart} |-> 0], brk |-> InitialBrk, cursor |-> HeapStart,
               mem |-> [x \in HeapStart .. HeapLimit - 1 |-> 0]]
    /\ os = [brk |-> InitialBrk,
             mapped |-> HeapPageOf(HeapStart) .. HeapPageOf(InitialBrk - 1)]
    /\ hasBrkFunc \in BOOLEAN
    /\ owner = << >>

FreeClients == Clients \ {owner[a] : a \in DOMAIN owner}

\* ama_malloc, and realloc of NULL
HeapMalloc(n) ==
    \E r \in MallocOutcomes(heap, os, n) :
        LET known == [a \in Used(r.heap) |-> IF a = r.node THEN Min(FreeClients) ELSE owner[a]]
        IN  /\ FreeClients # {}
            /\ heap' = MemoryAfter(r.heap, known, r.node, 0)
            /\ os' = r.os
            /\ owner' = known
            /\ UNCHANGED hasBrkFunc

HeapFree(a) ==
    \E r \in FreeOutcomes(heap, os, a) :
        /\ heap' = MemoryAfter(r.heap, owner, 0, 0)
        /\ os' = r.os
        /\ owner' = [b \in Used(r.heap) |-> owner[b]]
        /\ UNCHANGED hasBrkFunc

\* ama_realloc: it answered NULL when r.node is 0, and the block stays.
HeapRealloc(a, n) ==
    \E r \in ReallocOutcomes(heap, os, a, n) :
        LET known == [b \in Used(r.heap) |-> IF b = r.node THEN owner[a] ELSE owner[b]]
        IN  /\ heap' = MemoryAfter(r.heap, known, r.node, heap.size[a])
            /\ os' = r.os
            /\ owner' = known
            /\ UNCHANGED hasBrkFunc

AmallocNext ==
    \/ \E n \in Sizes : HeapMalloc(n)
    \/ \E a \in Used(heap) : HeapFree(a) \/ \E n \in Sizes : HeapRealloc(a, n)

AmallocSpec == AmallocInit /\ [][AmallocNext]_amallocVars

-----------------------------------------------------------------------------
(***************************************************************************)
(* Properties                                                              *)
(***************************************************************************)

HeapBlocks == {[ptr |-> PtrOf(a), size |-> heap.size[a], id |-> owner[a],
                data |-> DataOf(heap, a)] : a \in Used(heap)}

\* The heap implements the allocator: whichever way a block was found, split,
\* merged, moved or resized, blocks never overlap and keep their data.
Promise == INSTANCE Allocator WITH
    Low <- HeapStart, High <- HeapLimit, Unit <- Alignment, blocks <- HeapBlocks

HeapIsAllocator == Promise!AllocatorSpec

\* Two neighbouring nodes are never both free, and every node has room for what
\* it holds, the last one up to the break: a request fails or grows the heap only
\* if no run of free memory is long enough for it.
HeapCoalesced ==
    \A a \in NodesOf(heap) :
        /\ Capacity(heap, a) >= Max({heap.size[a], FreeNodeMin})
        /\ heap.size[a] = 0 => ~Coalesces(heap, a)

\* The allocator and the system agree on the break, and every byte of the heap up
\* to it is in a page with an entry in the page table, after any number of
\* expansions, failed expansions and releases. It does not say that the memory
\* behind the entry is still the process's: prc_setBrk may have given it away.
HeapIsMapped ==
    /\ heap.brk = os.brk
    /\ HeapPageOf(HeapStart) .. HeapPageOf(heap.brk - 1) \subseteq os.mapped

\* Both at once: whatever node a request is given, no page of it is without an entry.
HeapSound == HeapCoalesced /\ HeapIsMapped

=============================================================================
