------------------------------- MODULE Queue -------------------------------
(***************************************************************************)
(* The queues of libraries/utils: queue32.c, for words, and queue.c, for   *)
(* elements of any size, which are one algorithm.  A circular buffer that  *)
(* always has an empty slot, and is copied into a larger one when full.    *)
(*                                                                         *)
(* Any allocation may fail.  What only one of the two files has (a pop     *)
(* without a destination, a removal by predicate, a checked index) is      *)
(* taken from queue.c.  queue32.h promises the first of them too, but      *)
(* queue32_pop writes through the pointer without looking: its callers     *)
(* must pass one, and nothing here speaks of a call that passes none.      *)
(***************************************************************************)
EXTENDS Integers, Sequences

CONSTANTS
    Val,                \* the values that are pushed
    NoVal,              \* what malloc finds in a slot
    InitialCapacities,  \* the capacities asked of create
    ReserveCapacities,  \* the capacities asked of reserve
    DefaultCapacity,    \* the capacity of a queue created without one: 16
    MaxCapacity         \* bound: no larger buffer is asked for

ASSUME QueueAssumption ==
    /\ Val \subseteq Nat /\ NoVal \in Nat \ Val
    /\ InitialCapacities \subseteq Nat
    /\ ReserveCapacities \subseteq Nat
    /\ DefaultCapacity \in Nat \ {0}
    /\ MaxCapacity \in Nat

VARIABLES
    queue,      \* Queue: [data, capacity, head, tail], the slots of data from 0
    qUsable,    \* between create and destroy
    qAnswer     \* the last call and what it answered

queueVars == <<queue, qUsable, qAnswer>>

\* memset in create
NoBuffer == [data |-> << >>, capacity |-> 0, head |-> 0, tail |-> 0]

Answered(call, ok, val) == qAnswer' = [call |-> call, ok |-> ok, val |-> val]

-----------------------------------------------------------------------------
(***************************************************************************)
(* The arithmetic of the circular buffer                                   *)
(***************************************************************************)

QueueSize(q) ==
    IF q.capacity = 0 THEN 0 ELSE (q.tail + q.capacity - q.head) % q.capacity

QueueIsEmpty(q) == q.tail = q.head

QueueIsFull(q) == q.capacity = 0 \/ QueueSize(q) = q.capacity - 1

Slot(q, i) == (q.head + i) % q.capacity

\* The elements, the oldest first.
Content(q) == [i \in 1 .. QueueSize(q) |-> q.data[Slot(q, i - 1)]]

\* The two memcpys of reserve, into n slots: from the head to the end of the
\* buffer, then from its start.
Copied(q, n) ==
    LET toEnd == q.capacity - q.head
    IN  [i \in 0 .. n - 1 |->
            IF i >= QueueSize(q) THEN NoVal
            ELSE IF i < toEnd THEN q.data[q.head + i]
            ELSE q.data[i - toEnd]]

\* Mutant: a full buffer that wraps around is copied as if it did not.
ReservedInPlace(q, asked) ==
    IF asked + 1 <= q.capacity THEN q
    ELSE [data |-> [i \in 0 .. asked |->
                        IF i < q.capacity THEN q.data[i] ELSE NoVal],
          capacity |-> asked + 1, head |-> 0, tail |-> QueueSize(q)]

\* A buffer for asked elements has one slot more than that.
Reserved(q, asked) ==
    IF asked + 1 <= q.capacity THEN q
    ELSE [data |-> Copied(q, asked + 1), capacity |-> asked + 1,
          head |-> 0, tail |-> QueueSize(q)]

\* Whether reserve has to ask malloc, and may.
Allocates(q, asked) == asked + 1 > q.capacity
WithinBound(q, asked) == Allocates(q, asked) => asked + 1 <= MaxCapacity

\* The capacity a push asks for when the queue is full.
NextCapacity(q) == IF q.capacity = 0 THEN DefaultCapacity ELSE (q.capacity - 1) * 2

Pushed(q, v) ==
    [q EXCEPT !.data[q.tail] = v, !.tail = (q.tail + 1) % q.capacity]

Popped(q) == [q EXCEPT !.head = (q.head + 1) % q.capacity]

\* The loop of remove after i elements: what is kept moves down in place.
Compacted(q, S) ==
    LET step[i \in 0 .. QueueSize(q)] ==
            IF i = 0 THEN [data |-> q.data, dst |-> q.head, count |-> 0]
            ELSE LET s == step[i - 1]
                     v == s.data[Slot(q, i - 1)]
                 IN  IF v \in S THEN [s EXCEPT !.count = @ + 1]
                     ELSE [s EXCEPT !.data[s.dst] = v,
                                    !.dst = (s.dst + 1) % q.capacity]
    IN  step[QueueSize(q)]

-----------------------------------------------------------------------------
(***************************************************************************)
(* The calls                                                               *)
(***************************************************************************)

QueueInit ==
    /\ queue = NoBuffer
    /\ qUsable = TRUE
    /\ qAnswer = [call |-> "create", ok |-> TRUE, val |-> 0]

\* create: a creation that had no memory leaves an empty queue too.
QueueCreate(n) ==
    /\ WithinBound(NoBuffer, n)
    /\ \/ queue' = (IF n = 0 THEN NoBuffer ELSE Reserved(NoBuffer, n))
          /\ Answered("create", TRUE, 0)
       \/ n > 0 /\ queue' = NoBuffer /\ Answered("create", FALSE, 0)
    /\ qUsable' = TRUE

\* destroy leaves capacity, head and tail as they were.
QueueDestroy ==
    /\ queue' = [queue EXCEPT !.data = << >>]
    /\ qUsable' = FALSE
    /\ Answered("destroy", TRUE, 0)

QueueReserve(n) ==
    /\ WithinBound(queue, n)
    /\ \/ queue' = Reserved(queue, n) /\ Answered("reserve", TRUE, 0)
       \/ Allocates(queue, n) /\ Answered("reserve", FALSE, 0) /\ UNCHANGED queue
    /\ UNCHANGED qUsable

QueuePush(v) ==
    LET asked == NextCapacity(queue)
    IN  /\ IF ~QueueIsFull(queue)
           THEN queue' = Pushed(queue, v) /\ Answered("push", TRUE, v)
           ELSE /\ WithinBound(queue, asked)
                /\ \/ /\ queue' = Pushed(Reserved(queue, asked), v)
                      /\ Answered("push", TRUE, v)
                   \/ /\ Allocates(queue, asked)
                      /\ Answered("push", FALSE, v)
                      /\ UNCHANGED queue
        /\ UNCHANGED qUsable

QueuePop ==
    /\ IF QueueIsEmpty(queue) THEN Answered("pop", FALSE, 0) /\ UNCHANGED queue
       ELSE /\ Answered("pop", TRUE, queue.data[queue.head])
            /\ queue' = Popped(queue)
    /\ UNCHANGED qUsable

\* A pop that drops the element: queue.c, which checks for a destination.
QueueDrop ==
    /\ Answered("drop", ~QueueIsEmpty(queue), 0)
    /\ queue' = IF QueueIsEmpty(queue) THEN queue ELSE Popped(queue)
    /\ UNCHANGED qUsable

QueuePeek ==
    /\ IF QueueIsEmpty(queue) THEN Answered("peek", FALSE, 0)
       ELSE Answered("peek", TRUE, queue.data[queue.head])
    /\ UNCHANGED <<queue, qUsable>>

QueueClear ==
    /\ queue' = [queue EXCEPT !.head = 0, !.tail = 0]
    /\ Answered("clear", TRUE, 0)
    /\ UNCHANGED qUsable

\* remove: of queue32.c when S is one value, of queue.c when it is a predicate's.
QueueRemove(S) ==
    /\ queue' = [queue EXCEPT !.data = Compacted(queue, S).data,
                              !.tail = Compacted(queue, S).dst]
    /\ Answered("remove", TRUE, Compacted(queue, S).count)
    /\ UNCHANGED qUsable

\* getAt of queue.c, with an index past the end too.
QueueGetAt(i) ==
    /\ IF i >= QueueSize(queue) THEN Answered("getAt", FALSE, 0)
       ELSE Answered("getAt", TRUE, queue.data[Slot(queue, i)])
    /\ UNCHANGED <<queue, qUsable>>

QueueNext ==
    \/ ~qUsable /\ \E n \in InitialCapacities : QueueCreate(n)
    \/ /\ qUsable
       /\ \/ QueueDestroy \/ QueuePop \/ QueueDrop \/ QueuePeek \/ QueueClear
          \/ \E n \in ReserveCapacities : QueueReserve(n)
          \/ \E v \in Val : QueuePush(v)
          \/ \E S \in SUBSET Val : QueueRemove(S)
          \/ \E i \in 0 .. QueueSize(queue) : QueueGetAt(i)

QueueSpec == QueueInit /\ [][QueueNext]_queueVars

-----------------------------------------------------------------------------
(***************************************************************************)
(* Properties                                                              *)
(***************************************************************************)

\* The queue is a FIFO: whatever the calls, and however often the buffer wraps
\* around, grows or cannot grow, every call answers what it would answer of the
\* sequence of the elements, and changes it the same way.
Abstract == INSTANCE Fifo WITH
    items <- IF qUsable THEN Content(queue) ELSE << >>,
    answer <- qAnswer

QueueIsFifo == Abstract!FifoSpec

=============================================================================
