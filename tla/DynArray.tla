------------------------------ MODULE DynArray ------------------------------
(***************************************************************************)
(* The arrays of libraries/utils (dynamicarray.c): [data, size, capacity]. *)
(* The slots of data are numbered from 0 to capacity - 1; those from size  *)
(* on hold whatever was there before.                                      *)
(***************************************************************************)
EXTENDS Integers, Sequences

CONSTANTS
    Junk,               \* what malloc finds in a slot
    DefaultRoom,        \* the capacity of the first buffer: 16
    MaxRoom             \* bound: no larger buffer is asked for

ASSUME DynArrayAssumption == DefaultRoom \in Nat \ {0} /\ MaxRoom \in Nat

ArrayCreated(n) == [data |-> [i \in 0 .. n - 1 |-> Junk], size |-> 0, capacity |-> n]

\* reserve: realloc keeps what is there.
ArrayReserved(a, n) ==
    IF n <= a.capacity THEN a
    ELSE [a EXCEPT !.data = [i \in 0 .. n - 1 |-> IF i < a.capacity THEN a.data[i] ELSE Junk],
                   !.capacity = n]

ArrayIsFull(a) == a.size = a.capacity

\* The capacity an insertion asks for when the array is full.
ArrayNextCapacity(a) == IF a.capacity = 0 THEN DefaultRoom ELSE a.capacity * 2

ArrayCanGrow(a) == ArrayNextCapacity(a) <= MaxRoom

\* The array an insertion writes to.
ArrayWithRoom(a) == IF ArrayIsFull(a) THEN ArrayReserved(a, ArrayNextCapacity(a)) ELSE a

ArrayPushed(a, e) ==
    LET b == ArrayWithRoom(a) IN [b EXCEPT !.data[b.size] = e, !.size = @ + 1]

ArrayPopped(a) == [a EXCEPT !.size = @ - 1]

\* memcpy of n slots from src to dst, which may overlap: "memcpy and memmove are
\* the same for the APCPU" (hwcrt0_stdc.h:120).
ArrayMoved(data, dst, src, n) ==
    [i \in DOMAIN data |-> IF i \in dst .. dst + n - 1 THEN data[i - dst + src] ELSE data[i]]

ArrayRemovedAt(a, i) ==
    IF i >= a.size THEN a
    ELSE [a EXCEPT !.data = ArrayMoved(a.data, i, i + 1, a.size - i - 1), !.size = @ - 1]

ArrayContent(a) == [i \in 1 .. a.size |-> a.data[i - 1]]

=============================================================================
