------------------------------ MODULE Handles ------------------------------
(***************************************************************************)
(* The kernel's handle table (os/kernel/handles.c): a fixed array of       *)
(* slots.  A HANDLE is an index into it and the slot's counter, which      *)
(* handles_create increments every time it reuses the slot.                *)
(*                                                                         *)
(* Every operator takes the table as a value, so that a kernel action can  *)
(* use the table its earlier calls left behind.  The data pointer is kept  *)
(* for threads only: for mutexes and files the kernel only ever asks       *)
(* whether it is NULL, and it never is.                                    *)
(***************************************************************************)
EXTENDS Naturals

CONSTANTS
    Proc,        \* the processes (PCBs)
    Thread,      \* the thread control blocks (TCBs)
    NoProc,      \* the NULL owner
    NoThread,    \* the NULL thread pointer
    NumSlots,    \* OS_MAXHANDLES - 1: slot 0 stands for "no handle"
    CounterMod   \* number of values of the u16 counter

ASSUME HandlesAssumption ==
    /\ NoProc \notin Proc
    /\ NoThread \notin Thread
    /\ NumSlots \in Nat \ {0}
    /\ CounterMod \in Nat \ {0, 1}

Slot == 1 .. NumSlots
Counter == 0 .. CounterMod - 1
HANDLE == (0 .. NumSlots) \X Counter

INVALID_HANDLE == <<0, 0>>

HandleType == {"NONE", "MUTEX", "THREAD", "FILE"}

HandleEntry ==
    [counter : Counter,
     owner   : Proc \cup {NoProc},
     type    : HandleType,
     data    : Thread \cup {NoThread}]

HandleTable == [Slot -> HandleEntry]

FreeEntry(c) ==
    [counter |-> c, owner |-> NoProc, type |-> "NONE", data |-> NoThread]

\* The HANDLE value of slot i.
HandleOf(table, i) == <<i, table[i].counter>>

FreeSlots(table) == {i \in Slot : table[i].type = "NONE"}

\* handles_create takes the first unused slot.
FirstFree(table, i) ==
    i \in FreeSlots(table) /\ \A j \in FreeSlots(table) : i <= j

\* Mutant: the data pointer is left to the caller.
CreateHandleKeepsData(table, i, p, type, d) ==
    [table EXCEPT ![i] =
        [counter |-> (@.counter + 1) % CounterMod,
         owner   |-> p,
         type    |-> type,
         data    |-> @.data]]

\* The table after handles_create took slot i.
CreateHandle(table, i, p, type, d) ==
    [table EXCEPT ![i] =
        [counter |-> (@.counter + 1) % CounterMod,
         owner   |-> p,
         type    |-> type,
         data    |-> d]]

\* The slot keeps its counter, so that its next user gets another HANDLE.
ResetSlot(table, i) == [table EXCEPT ![i] = FreeEntry(@.counter)]

\* getHandle looks at the index alone: the counter in h is not compared.
InUse(table, h) == h[1] \in Slot /\ table[h[1]].type # "NONE"

\* handles_getData, as every system call uses it: with an owner and a type.
HasData(table, h, p, type) ==
    InUse(table, h) /\ table[h[1]].owner = p /\ table[h[1]].type = type

\* The check at the top of handles_destroy, for a caller's process p.
Destroyable(table, h, p) == InUse(table, h) /\ table[h[1]].owner = p

=============================================================================
