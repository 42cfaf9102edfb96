------------------------------- MODULE PQueue -------------------------------
(***************************************************************************)
(* The priority queue of libraries/utils (priorityqueue.c), used as the    *)
(* kernel uses it for its timed events: an array in which a binary search  *)
(* finds where a new event belongs, the earliest event last.               *)
(*                                                                         *)
(* An event is [time, nr]: nr counts the events that were ever added, so   *)
(* that the properties can tell equal times apart; the code ignores it.    *)
(***************************************************************************)
EXTENDS DynArray

CONSTANTS
    Times,          \* the times events are added for
    InitialRoom,    \* the capacity of a new queue
    MaxEvents       \* bound on the events that are ever added

ASSUME PQueueAssumption ==
    Times \subseteq Nat /\ InitialRoom \in Nat /\ MaxEvents \in Nat

VARIABLES
    agenda,         \* PQueue::a
    added,          \* history: the number of events added
    pending         \* history: the events that were added and not taken out

pqueueVars == <<agenda, added, pending>>

EventCmp(a, b) == IF a.time < b.time THEN 1 ELSE IF a.time > b.time THEN -1 ELSE 0

\* Mutant: an event is put before those of its time.
PosAfterEquals(a, e) ==
    LET step[i \in 0 .. a.size] ==
            IF i = 0 THEN [low |-> 0, high |-> a.size - 1]
            ELSE LET s == step[i - 1]
                     mid == (s.low + s.high) \div 2
                 IN  IF s.low > s.high THEN s
                     ELSE IF EventCmp(a.data[mid], e) > 0 THEN [s EXCEPT !.high = mid - 1]
                     ELSE [s EXCEPT !.low = mid + 1]
    IN  step[a.size].low

\* The binary search of push, as [low, high] after i rounds of its loop; it needs
\* no more of them than there are elements.
PosOf(a, e) ==
    LET step[i \in 0 .. a.size] ==
            IF i = 0 THEN [low |-> 0, high |-> a.size - 1]
            ELSE LET s == step[i - 1]
                     mid == (s.low + s.high) \div 2
                 IN  IF s.low > s.high THEN s
                     ELSE IF EventCmp(a.data[mid], e) >= 0 THEN [s EXCEPT !.high = mid - 1]
                     ELSE [s EXCEPT !.low = mid + 1]
    IN  step[a.size].low

Inserted(a, e) ==
    LET pos == PosOf(a, e)
        b == ArrayWithRoom(a)
    IN  [b EXCEPT !.data = [ArrayMoved(b.data, pos + 1, pos, b.size - pos) EXCEPT ![pos] = e],
                  !.size = @ + 1]

\* The loop of remove after i elements.
Thinned(a, S) ==
    LET step[i \in 0 .. a.size] ==
            IF i = 0 THEN [data |-> a.data, dst |-> 0, count |-> 0]
            ELSE LET s == step[i - 1]
                     e == s.data[i - 1]
                 IN  IF e.nr \in S THEN [s EXCEPT !.count = @ + 1]
                     ELSE [s EXCEPT !.data[s.dst] = e, !.dst = @ + 1]
        end == step[a.size]
    IN  [a EXCEPT !.data = end.data, !.size = @ - end.count]

PQueueInit ==
    /\ agenda = ArrayCreated(InitialRoom)
    /\ added = 0
    /\ pending = {}

\* push: with no memory to grow it changes nothing.
PQueuePush(t) ==
    LET e == [time |-> t, nr |-> added]
    IN  /\ added < MaxEvents
        /\ ArrayIsFull(agenda) => ArrayCanGrow(agenda)
        /\ agenda' = Inserted(agenda, e)
        /\ added' = added + 1
        /\ pending' = pending \cup {e}

PQueuePushFails == ArrayIsFull(agenda) /\ UNCHANGED pqueueVars

\* The event at the end of the array: the front of the queue.
PQueueFront == agenda.data[agenda.size - 1]

PQueuePop ==
    /\ agenda.size > 0
    /\ agenda' = ArrayPopped(agenda)
    /\ pending' = pending \ {PQueueFront}
    /\ UNCHANGED added

\* remove, with a predicate that holds of the events S
PQueueRemove(S) ==
    /\ agenda' = Thinned(agenda, S)
    /\ pending' = {e \in pending : e.nr \notin S}
    /\ UNCHANGED added

PQueueNext ==
    \/ \E t \in Times : PQueuePush(t)
    \/ PQueuePushFails
    \/ PQueuePop
    \/ \E S \in SUBSET (0 .. added - 1) : PQueueRemove(S)

PQueueSpec == PQueueInit /\ [][PQueueNext]_pqueueVars

-----------------------------------------------------------------------------
(***************************************************************************)
(* Properties                                                              *)
(***************************************************************************)

Earlier(a, b) == a.time < b.time \/ (a.time = b.time /\ a.nr < b.nr)

\* The array holds every pending event once, the earliest last, and of two
\* events of one time the one that was added first is taken out first: two
\* timed events of one moment run in the order in which they were asked for.
AgendaInOrder ==
    /\ {agenda.data[i] : i \in 0 .. agenda.size - 1} = pending
    /\ \A i, j \in 0 .. agenda.size - 1 :
            i < j => Earlier(agenda.data[j], agenda.data[i])

=============================================================================
