------------------------------ MODULE Allocator ------------------------------
(***************************************************************************)
(* What malloc, free and realloc promise: the blocks handed out are        *)
(* aligned, lie inside the memory a heap may have and never overlap, and a *)
(* block that is moved or resized keeps what its owner wrote.              *)
(*                                                                         *)
(* A block is [ptr, size, id, data]: the owner writes its number id to     *)
(* every byte, and data is what the memory holds.                          *)
(***************************************************************************)
EXTENDS Naturals

CONSTANTS
    Low, High,      \* the memory a heap may have
    Unit            \* the alignment of blocks

VARIABLE blocks

Bytes(b) == b.ptr .. b.ptr + b.size - 1

AllocatorInit == blocks = {}

\* A block that may be handed out beside the others.
Fits(b, others) ==
    /\ b.ptr % Unit = 0 /\ b.size > 0
    /\ Bytes(b) \subseteq Low .. High - 1
    /\ b.data = [i \in 0 .. b.size - 1 |-> b.id]
    /\ \A c \in others : Bytes(b) \cap Bytes(c) = {} /\ b.id # c.id

Allocate == \E b \in blocks' \ blocks : Fits(b, blocks) /\ blocks' = blocks \cup {b}

Release == \E b \in blocks : blocks' = blocks \ {b}

\* The block b becomes c, which still is the block of the same owner.
Resize ==
    \E b \in blocks : \E c \in blocks' :
        /\ c.id = b.id /\ Fits(c, blocks \ {b})
        /\ blocks' = (blocks \ {b}) \cup {c}

AllocatorSpec == AllocatorInit /\ [][Allocate \/ Release \/ Resize]_blocks

=============================================================================
