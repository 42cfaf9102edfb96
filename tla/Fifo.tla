-------------------------------- MODULE Fifo --------------------------------
(***************************************************************************)
(* What a queue of libraries/utils promises: the elements in the order in  *)
(* which they were pushed, whatever the calls and whatever memory there    *)
(* is.  answer is the call that was made last, with what it answered.      *)
(***************************************************************************)
EXTENDS Naturals, Sequences

CONSTANT Val    \* the values that are pushed

VARIABLES
    items,      \* the elements, the oldest first
    answer      \* [call, ok, val]

fifoVars == <<items, answer>>

Answer(call, ok, val) == [call |-> call, ok |-> ok, val |-> val]

FifoInit == items = << >> /\ answer = Answer("create", TRUE, 0)

\* The first of the elements, if there is one.
FrontOf(call) ==
    IF items = << >> THEN Answer(call, FALSE, 0) ELSE Answer(call, TRUE, Head(items))

Rest == IF items = << >> THEN << >> ELSE Tail(items)

\* The elements of s that are not in S, in their order.
Without(s, S) ==
    LET kept[i \in 0 .. Len(s)] ==
            IF i = 0 THEN << >>
            ELSE IF s[i] \in S THEN kept[i - 1] ELSE Append(kept[i - 1], s[i])
    IN  kept[Len(s)]

\* Also the end of the queue, and a creation that has no memory.
Create(ok) == items' = << >> /\ answer' = Answer("create", ok, 0)

Destroy == items' = << >> /\ answer' = Answer("destroy", TRUE, 0)

Reserve(ok) == answer' = Answer("reserve", ok, 0) /\ UNCHANGED items

Push(v) == items' = Append(items, v) /\ answer' = Answer("push", TRUE, v)

PushFails(v) == answer' = Answer("push", FALSE, v) /\ UNCHANGED items

Pop == items' = Rest /\ answer' = FrontOf("pop")

Drop == items' = Rest /\ answer' = [FrontOf("drop") EXCEPT !.val = 0]

Peek == answer' = FrontOf("peek") /\ UNCHANGED items

Clear == items' = << >> /\ answer' = Answer("clear", TRUE, 0)

Remove(S) ==
    /\ items' = Without(items, S)
    /\ answer' = Answer("remove", TRUE, Len(items) - Len(items'))

GetAt(i) ==
    /\ answer' = IF i < Len(items) THEN Answer("getAt", TRUE, items[i + 1])
                 ELSE Answer("getAt", FALSE, 0)
    /\ UNCHANGED items

FifoNext ==
    \/ \E ok \in BOOLEAN : Create(ok) \/ Reserve(ok)
    \/ \E v \in Val : Push(v) \/ PushFails(v)
    \/ \E S \in SUBSET Val : Remove(S)
    \/ \E i \in 0 .. Len(items) : GetAt(i)
    \/ Destroy \/ Pop \/ Drop \/ Peek \/ Clear

FifoSpec == FifoInit /\ [][FifoNext]_fifoVars

=============================================================================
