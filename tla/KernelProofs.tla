---------------------------- MODULE KernelProofs ----------------------------
(***************************************************************************)
(* Proofs about the kernel, for any number of threads, processes, handles  *)
(* and any capacities.                                                     *)
(***************************************************************************)
EXTENDS Kernel, SequenceTheorems, FiniteSetTheorems, TLAPS

-----------------------------------------------------------------------------
(***************************************************************************)
(* The ready queue                                                         *)
(***************************************************************************)

\* A function on 1 .. n is a sequence of length n.
LEMMA FunctionIsSeq ==
    ASSUME NEW S, NEW n \in Nat, NEW q \in [1 .. n -> S]
    PROVE  q \in Seq(S) /\ Len(q) = n
<1>1. q \in Seq(S)
  BY SeqDef
<1>2. DOMAIN q = 1 .. n
  OBVIOUS
<1>3. DOMAIN q = 1 .. Len(q) /\ Len(q) \in Nat
  BY <1>1, LenProperties
<1>4. Len(q) = n
  BY <1>2, <1>3
<1> QED BY <1>1, <1>4

\* queue32_remove: a queue without repetitions loses exactly t.
LEMMA DequeuedProperties ==
    ASSUME NEW S, NEW q \in Seq(S), NEW t, NoRepeats(q)
    PROVE  /\ Dequeued(q, t) \in Seq(S)
           /\ Len(Dequeued(q, t)) <= Len(q)
           /\ NoRepeats(Dequeued(q, t))
           /\ \A s : InQueue(Dequeued(q, t), s) <=> InQueue(q, s) /\ s # t
           /\ q # << >> /\ q[1] # t =>
                 Dequeued(q, t) # << >> /\ Dequeued(q, t)[1] = q[1]
<1> DEFINE d == Dequeued(q, t)
<1>0. Len(q) \in Nat /\ q \in [1 .. Len(q) -> S]
  BY LenProperties
<1>1. CASE ~ \E i \in 1 .. Len(q) : q[i] = t
  <2>1. d = q
    BY <1>1 DEF Dequeued
  <2> QED BY <1>0, <1>1, <2>1 DEF InQueue
<1>2. CASE \E i \in 1 .. Len(q) : q[i] = t
  <2> DEFINE k == CHOOSE i \in 1 .. Len(q) :
                    q[i] = t /\ \A j \in 1 .. i - 1 : q[j] # t
  <2>1. PICK m \in 1 .. Len(q) : q[m] = t
    BY <1>2
  <2>2. \A j \in 1 .. m - 1 : q[j] # t
    BY <1>0, <2>1 DEF NoRepeats
  <2>3. k \in 1 .. Len(q) /\ q[k] = t
    BY <2>1, <2>2
  <2>4. d = [i \in 1 .. Len(q) - 1 |-> IF i < k THEN q[i] ELSE q[i + 1]]
    BY <1>2 DEF Dequeued
  <2> HIDE DEF k, d
  <2>5. Len(q) - 1 \in Nat
    BY <1>0, <2>3
  <2>6. \A i \in 1 .. Len(q) - 1 : (IF i < k THEN q[i] ELSE q[i + 1]) \in S
    BY <1>0, <2>3
  <2>7. d \in [1 .. Len(q) - 1 -> S]
    BY <2>4, <2>6
  <2>8. d \in Seq(S) /\ Len(d) = Len(q) - 1
    BY <2>5, <2>7, FunctionIsSeq
  <2>9. NoRepeats(d)
    BY <1>0, <2>3, <2>4, <2>8 DEF NoRepeats
  <2>10. ASSUME NEW s, InQueue(d, s) PROVE InQueue(q, s) /\ s # t
    BY <1>0, <2>3, <2>4, <2>8, <2>10 DEF NoRepeats, InQueue
  <2>11. ASSUME NEW s, InQueue(q, s), s # t PROVE InQueue(d, s)
    <3>1. PICK j \in 1 .. Len(q) : q[j] = s
      BY <2>11 DEF InQueue
    <3>2. CASE j < k
      <4>1. j \in 1 .. Len(d) /\ d[j] = s
        BY <1>0, <2>3, <2>4, <2>8, <3>1, <3>2
      <4> QED BY <4>1 DEF InQueue
    <3>3. CASE j > k
      <4>1. j - 1 \in 1 .. Len(d) /\ d[j - 1] = s
        BY <1>0, <2>3, <2>4, <2>8, <3>1, <3>3
      <4> QED BY <4>1 DEF InQueue
    <3>4. j # k
      BY <2>3, <2>11, <3>1
    <3> QED BY <1>0, <2>3, <3>2, <3>3, <3>4
  <2>12. ASSUME q # << >>, q[1] # t PROVE d # << >> /\ d[1] = q[1]
    <3>1. Len(q) # 0
      BY <2>12, EmptySeq
    <3>2. k # 1
      BY <2>3, <2>12
    <3>3. 1 \in 1 .. Len(d) /\ d[1] = q[1]
      BY <1>0, <2>3, <2>4, <2>8, <3>1, <3>2
    <3>4. d # << >>
      BY <2>8, <3>3, EmptySeq
    <3> QED BY <3>3, <3>4
  <2> QED BY <1>0, <2>8, <2>9, <2>10, <2>11, <2>12 DEF d
<1> QED BY <1>1, <1>2

\* queue32_push: with memory for it, t is in the queue.
LEMMA PushedProperties ==
    ASSUME NEW S, NEW q \in Seq(S), NEW t \in S, NoRepeats(q), ~InQueue(q, t),
           MaxReady \in Nat
    PROVE  /\ Pushed(q, t) \in Seq(S)
           /\ NoRepeats(Pushed(q, t))
           /\ \A s : InQueue(q, s) => InQueue(Pushed(q, t), s)
           /\ \A s : InQueue(Pushed(q, t), s) => InQueue(q, s) \/ s = t
           /\ Len(q) < MaxReady => InQueue(Pushed(q, t), t)
<1>0. Len(q) \in Nat /\ q \in [1 .. Len(q) -> S]
  BY LenProperties
<1>1. CASE Len(q) < MaxReady
  <2> DEFINE a == Append(q, t)
  <2>1. Pushed(q, t) = a
    BY <1>1 DEF Pushed
  <2>2. /\ a \in Seq(S)
        /\ Len(a) = Len(q) + 1
        /\ \A i \in 1 .. Len(q) : a[i] = q[i]
        /\ a[Len(q) + 1] = t
    BY <1>0
  <2> HIDE DEF a
  <2>3. NoRepeats(a)
    BY <1>0, <2>2 DEF NoRepeats, InQueue
  <2>4. \A s : InQueue(q, s) => InQueue(a, s)
    BY <1>0, <2>2 DEF InQueue
  <2>5. \A s : InQueue(a, s) => InQueue(q, s) \/ s = t
    BY <1>0, <2>2 DEF InQueue
  <2>6. InQueue(a, t)
    BY <1>0, <2>2 DEF InQueue
  <2> QED BY <2>1, <2>2, <2>3, <2>4, <2>5, <2>6
<1>2. CASE ~(Len(q) < MaxReady)
  BY <1>2 DEF Pushed
<1> QED BY <1>1, <1>2

\* A queue without repetitions that lacks a thread holds fewer than all of them.
LEMMA QueueCapacity ==
    ASSUME NEW q \in Seq(Thread), NEW t \in Thread, NoRepeats(q), ~InQueue(q, t)
    PROVE  Len(q) < Cardinality(Thread)
<1>0. Len(q) \in Nat /\ q \in [1 .. Len(q) -> Thread] /\ IsFiniteSet(Thread)
  BY LenProperties, KernelAssumption
<1>1. IsFiniteSet(Thread \ {t}) /\ Cardinality(Thread \ {t}) = Cardinality(Thread) - 1
  BY <1>0, FS_RemoveElement
<1>2. q \in [1 .. Len(q) -> Thread \ {t}]
  BY <1>0 DEF InQueue
<1>3. q \in Injection(1 .. Len(q), Thread \ {t})
  BY <1>0, <1>2 DEF Injection, IsInjective, NoRepeats
<1>4. Cardinality(1 .. Len(q)) <= Cardinality(Thread \ {t})
  BY <1>1, <1>3, FS_Injection
<1>5. Cardinality(1 .. Len(q)) = Len(q)
  BY <1>0, FS_Interval
<1>6. Cardinality(Thread) \in Nat
  BY <1>0, FS_CardinalityType
<1> QED BY <1>0, <1>1, <1>4, <1>5, <1>6

\* ReadyQueueExact, of any queue and any TCBs.
QueueOK(q, T) ==
    /\ q \in Seq(Thread)
    /\ NoRepeats(q)
    /\ \A i \in 1 .. Len(q) : T[q[i]].state = "READY"
    /\ MaxReady >= Cardinality(Thread) =>
          \A t \in Thread : T[t].state = "READY" => InQueue(q, t)

LEMMA QueueMembers ==
    ASSUME NEW q, NEW T, QueueOK(q, T), NEW t, InQueue(q, t)
    PROVE  t \in Thread /\ T[t].state = "READY"
<1>1. PICK i \in 1 .. Len(q) : q[i] = t
  BY DEF InQueue
<1> QED BY <1>1, LenProperties DEF QueueOK

\* A change that makes nobody ready or unready leaves the queue right.
LEMMA QueueSame ==
    ASSUME NEW q, NEW T, NEW U, QueueOK(q, T),
           \A s \in Thread : U[s].state = "READY" <=> T[s].state = "READY"
    PROVE  QueueOK(q, U)
<1>1. \A i \in 1 .. Len(q) : q[i] \in Thread
  BY LenProperties DEF QueueOK
<1> QED BY <1>1 DEF QueueOK

\* The thread that is no longer ready is taken out.
LEMMA QueueLeft ==
    ASSUME NEW q, NEW T, NEW U, NEW t \in Thread, QueueOK(q, T),
           \A s \in Thread \ {t} : U[s].state = "READY" <=> T[s].state = "READY",
           U[t].state # "READY"
    PROVE  QueueOK(Dequeued(q, t), U)
<1> DEFINE d == Dequeued(q, t)
<1>1. /\ d \in Seq(Thread)
      /\ NoRepeats(d)
      /\ \A s : InQueue(d, s) <=> InQueue(q, s) /\ s # t
  BY DequeuedProperties DEF QueueOK
<1> HIDE DEF d
<1>2. ASSUME NEW i \in 1 .. Len(d) PROVE U[d[i]].state = "READY"
  <2>1. InQueue(d, d[i])
    BY DEF InQueue
  <2>2. InQueue(q, d[i]) /\ d[i] # t
    BY <1>1, <2>1
  <2>3. d[i] \in Thread /\ T[d[i]].state = "READY"
    BY <2>2, QueueMembers
  <2> QED BY <2>2, <2>3
<1>3. ASSUME MaxReady >= Cardinality(Thread),
             NEW s \in Thread, U[s].state = "READY"
      PROVE  InQueue(d, s)
  BY <1>1, <1>3 DEF QueueOK
<1>4. QueueOK(d, U)
  BY <1>1, <1>2, <1>3 DEF QueueOK
<1> QED BY <1>4 DEF d

\* A thread that was not in the queue is pushed once it is ready.
LEMMA QueuePushed ==
    ASSUME NEW q, NEW T, NEW U, NEW t \in Thread, QueueOK(q, T), ~InQueue(q, t),
           \A s \in Thread \ {t} : U[s].state = "READY" <=> T[s].state = "READY",
           U[t].state = "READY"
    PROVE  QueueOK(Pushed(q, t), U)
<1> DEFINE p == Pushed(q, t)
<1>0. q \in Seq(Thread) /\ NoRepeats(q) /\ MaxReady \in Nat
  BY KernelAssumption DEF QueueOK
<1>1. /\ p \in Seq(Thread)
      /\ NoRepeats(p)
      /\ \A s : InQueue(q, s) => InQueue(p, s)
      /\ \A s : InQueue(p, s) => InQueue(q, s) \/ s = t
      /\ Len(q) < MaxReady => InQueue(p, t)
  BY <1>0, PushedProperties
<1> HIDE DEF p
<1>2. ASSUME NEW i \in 1 .. Len(p) PROVE U[p[i]].state = "READY"
  <2>1. InQueue(p, p[i])
    BY DEF InQueue
  <2>2. InQueue(q, p[i]) \/ p[i] = t
    BY <1>1, <2>1
  <2>3. InQueue(q, p[i]) => p[i] \in Thread /\ T[p[i]].state = "READY"
    BY QueueMembers
  <2> QED BY <2>2, <2>3
<1>3. ASSUME MaxReady >= Cardinality(Thread),
             NEW s \in Thread, U[s].state = "READY"
      PROVE  InQueue(p, s)
  <2>1. CASE s = t
    <3>1. Len(q) < Cardinality(Thread)
      BY <1>0, QueueCapacity
    <3>2. Cardinality(Thread) \in Nat /\ Len(q) \in Nat
      BY <1>0, FS_CardinalityType, KernelAssumption, LenProperties
    <3>3. Len(q) < MaxReady
      BY <1>0, <1>3, <3>1, <3>2
    <3> QED BY <1>1, <2>1, <3>3
  <2>2. CASE s # t
    BY <1>1, <1>3, <2>2 DEF QueueOK
  <2> QED BY <2>1, <2>2
<1>4. QueueOK(p, U)
  BY <1>1, <1>2, <1>3 DEF QueueOK
<1> QED BY <1>4 DEF p

\* tcb_enqueue: whatever the thread did before, it is ready and in the queue.
LEMMA QueueEntered ==
    ASSUME NEW q, NEW T, NEW U, NEW t \in Thread, QueueOK(q, T),
           \A s \in Thread \ {t} : U[s].state = "READY" <=> T[s].state = "READY",
           U[t].state = "READY"
    PROVE  QueueOK(Enqueued(q, t), U)
<1> DEFINE out == [s \in Thread |->
                      [state |-> IF s = t THEN "BLOCKED" ELSE T[s].state]]
           d == Dequeued(q, t)
<1>1. /\ \A s \in Thread \ {t} : out[s].state = T[s].state
      /\ out[t].state # "READY"
  OBVIOUS
<1> HIDE DEF out
<1>2. QueueOK(d, out)
  BY <1>1, QueueLeft
<1>3. ~InQueue(d, t)
  BY DequeuedProperties DEF QueueOK
<1> HIDE DEF d
<1>4. QueueOK(Pushed(d, t), U)
  BY <1>1, <1>2, <1>3, QueuePushed
<1> QED BY <1>4 DEF Enqueued, d

\* A rotation neither adds, nor drops, nor repeats anything.
LEMMA RotatedProperties ==
    ASSUME NEW S, NEW q \in Seq(S), NEW r \in Seq(S), Len(q) # 0,
           Len(r) = Len(q),
           \A i \in 1 .. Len(q) : r[i] = IF i < Len(q) THEN q[i + 1] ELSE q[1]
    PROVE  /\ NoRepeats(q) => NoRepeats(r)
           /\ \A s : InQueue(q, s) <=> InQueue(r, s)
<1>0. Len(q) \in Nat \ {0}
  BY LenProperties
<1>1. NoRepeats(q) => NoRepeats(r)
  BY <1>0 DEF NoRepeats
<1>2. ASSUME NEW s, InQueue(q, s) PROVE InQueue(r, s)
  <2>1. PICK i \in 1 .. Len(q) : q[i] = s
    BY <1>2 DEF InQueue
  <2>2. CASE i = 1
    <3>1. Len(q) \in 1 .. Len(r) /\ r[Len(q)] = s
      BY <1>0, <2>1, <2>2
    <3> QED BY <3>1 DEF InQueue
  <2>3. CASE i # 1
    <3>1. i - 1 \in 1 .. Len(r) /\ r[i - 1] = s
      BY <1>0, <2>1, <2>3
    <3> QED BY <3>1 DEF InQueue
  <2> QED BY <2>2, <2>3
<1>3. ASSUME NEW s, InQueue(r, s) PROVE InQueue(q, s)
  <2>1. PICK i \in 1 .. Len(r) : r[i] = s
    BY <1>3 DEF InQueue
  <2>2. CASE i = Len(q)
    <3>1. 1 \in 1 .. Len(q) /\ q[1] = s
      BY <1>0, <2>1, <2>2
    <3> QED BY <3>1 DEF InQueue
  <2>3. CASE i # Len(q)
    <3>1. i + 1 \in 1 .. Len(q) /\ q[i + 1] = s
      BY <1>0, <2>1, <2>3
    <3> QED BY <3>1 DEF InQueue
  <2> QED BY <2>2, <2>3
<1> QED BY <1>1, <1>2, <1>3

\* The next thread is taken from the front and put back at the end.
LEMMA QueuePicked ==
    ASSUME NEW q, NEW T, QueueOK(q, T), NEW c, NEW r,
           c = IF q = << >> THEN Idle ELSE Head(q),
           r = IF q = << >> THEN q ELSE Append(Tail(q), Head(q))
    PROVE  /\ QueueOK(r, T)
           /\ c \in Thread
           /\ c = Idle \/ T[c].state = "READY"
<1>1. CASE q = << >>
  BY <1>1, KernelAssumption
<1>2. CASE q # << >>
  <2>0. q \in Seq(Thread) /\ Len(q) \in Nat \ {0} /\ q \in [1 .. Len(q) -> Thread]
    BY <1>2, LenProperties, EmptySeq DEF QueueOK
  <2>1. Head(q) = q[1] /\ q[1] \in Thread
    BY <1>2, <2>0
  <2>2. /\ Tail(q) \in Seq(Thread)
        /\ Len(Tail(q)) = Len(q) - 1
        /\ \A i \in 1 .. Len(q) - 1 : Tail(q)[i] = q[i + 1]
    BY <1>2, <2>0
  <2>3. /\ r \in Seq(Thread)
        /\ Len(r) = Len(q)
        /\ \A i \in 1 .. Len(q) : r[i] = IF i < Len(q) THEN q[i + 1] ELSE q[1]
    BY <1>2, <2>0, <2>1, <2>2
  <2>4. /\ NoRepeats(r)
        /\ \A s : InQueue(q, s) <=> InQueue(r, s)
    BY <2>0, <2>3, RotatedProperties DEF QueueOK
  <2>5. \A i \in 1 .. Len(r) : InQueue(r, r[i])
    BY DEF InQueue
  <2>6. \A i \in 1 .. Len(r) : T[r[i]].state = "READY"
    BY <2>4, <2>5, QueueMembers
  <2>7. c \in Thread /\ T[c].state = "READY"
    BY <1>2, <2>0, <2>1 DEF QueueOK
  <2> QED BY <2>3, <2>4, <2>6, <2>7 DEF QueueOK
<1> QED BY <1>1, <1>2

\* prc_postThreadMsg
LEMMA QueuePosted ==
    ASSUME NEW q, NEW T \in [Thread -> TCB], NEW t \in Thread, QueueOK(q, T)
    PROVE  QueueOK(PostedReady(T, q, t), Posted(T, t))
<1>1. CASE WakesOnMsg(T, t)
  <2>1. /\ Posted(T, t)[t].state = "READY"
        /\ \A s \in Thread \ {t} : Posted(T, t)[s] = T[s]
    BY <1>1 DEF Posted, WakesOnMsg, Woken, TCB
  <2>2. QueueOK(Enqueued(q, t), Posted(T, t))
    BY <2>1, QueueEntered
  <2> QED BY <1>1, <2>2 DEF PostedReady
<1>2. CASE ~WakesOnMsg(T, t)
  <2>1. \A s \in Thread : Posted(T, t)[s].state = T[s].state
    BY <1>2 DEF Posted, TCB
  <2>2. QueueOK(q, Posted(T, t))
    BY <2>1, QueueSame
  <2> QED BY <1>2, <2>2 DEF PostedReady
<1> QED BY <1>1, <1>2

-----------------------------------------------------------------------------
(***************************************************************************)
(* Types of what the operators return                                      *)
(***************************************************************************)

LEMMA RemainderType ==
    ASSUME NEW a \in Nat, NEW b \in Nat \ {0}
    PROVE  a % b \in 0 .. b - 1
OBVIOUS

LEMMA InvalidHandleType == INVALID_HANDLE \in HANDLE
BY HandlesAssumption DEF INVALID_HANDLE, HANDLE, Counter

LEMMA HandleOfType ==
    ASSUME NEW table \in HandleTable, NEW i \in Slot
    PROVE  HandleOf(table, i) \in HANDLE
BY HandlesAssumption DEF HandleOf, HandleTable, HandleEntry, HANDLE, Slot

LEMMA CreateHandleType ==
    ASSUME NEW table \in HandleTable, NEW i \in Slot, NEW p \in Proc,
           NEW type \in HandleType, NEW d \in Thread \cup {NoThread}
    PROVE  CreateHandle(table, i, p, type, d) \in HandleTable
<1>1. table[i].counter \in Nat
  BY HandlesAssumption DEF HandleTable, HandleEntry, Counter
<1>2. table[i].counter + 1 \in Nat /\ CounterMod \in Nat \ {0}
  BY <1>1, HandlesAssumption
<1>3. (table[i].counter + 1) % CounterMod \in 0 .. CounterMod - 1
  BY <1>2, RemainderType
<1> QED BY <1>3 DEF CreateHandle, HandleTable, HandleEntry, Counter

LEMMA ResetSlotType ==
    ASSUME NEW table \in HandleTable, NEW i \in Slot
    PROVE  ResetSlot(table, i) \in HandleTable
<1>1. FreeEntry(table[i].counter) \in HandleEntry
  BY DEF FreeEntry, HandleTable, HandleEntry, HandleType
<1> QED BY <1>1 DEF ResetSlot, HandleTable

LEMMA NewTcbType ==
    ASSUME NEW p \in Proc, NEW h \in HANDLE
    PROVE  NewTcb(p, h) \in TCB
BY InvalidHandleType, KernelAssumption DEF NewTcb, TCB, TcbState, WaitType

LEMMA FreeTcbType == FreeTcb \in TCB /\ FreeTcb.state = "FREE" /\ FreeTcb.wait = "NONE"
BY InvalidHandleType, KernelAssumption DEF FreeTcb, NewTcb, TCB, TcbState, WaitType

EventTable == [EventCell -> TimedEvent \cup {NoEvent}]

LEMMA WakeupEventType ==
    ASSUME NEW t \in Thread, NEW ms \in SleepMs
    PROVE  WakeupEvent(t, ms) \in TimedEvent /\ WakeupEvent(t, ms).tcb = t
<1>1. ms \in Int /\ HalfRange \in Int
  BY KernelAssumption
<1>2. S32(ms) \in Int
  BY <1>1 DEF S32
<1> QED BY <1>2 DEF WakeupEvent, TimedEvent, EventFunc

LEMMA TimerEventType ==
    ASSUME NEW t \in Thread, NEW ms \in Nat, NEW repeat \in BOOLEAN
    PROVE  TimerEvent(t, ms, repeat) \in TimedEvent /\ TimerEvent(t, ms, repeat).tcb = t
BY DEF TimerEvent, TimedEvent, EventFunc

\* No thread of a pending event is free.
EventsLive(evts, T) == \A i \in Pending(evts) : T[evts[i].tcb].state # "FREE"

LEMMA AddEventProperties ==
    ASSUME NEW evts \in EventTable, NEW e \in TimedEvent
    PROVE  /\ AddEvent(evts, e) \in EventTable
           /\ \A i \in Pending(AddEvent(evts, e)) :
                 \/ AddEvent(evts, e)[i] = e
                 \/ /\ i \in Pending(evts)
                    /\ AddEvent(evts, e)[i] = evts[i]
<1>1. CASE HasRoom(evts)
  <2> DEFINE k == CHOOSE i \in EventCell : evts[i] = NoEvent
  <2>1. k \in EventCell
    BY <1>1 DEF HasRoom, Pending
  <2>2. AddEvent(evts, e) = [evts EXCEPT ![k] = e]
    BY <1>1 DEF AddEvent
  <2> HIDE DEF k
  <2> QED BY <2>1, <2>2 DEF EventTable, Pending
<1>2. CASE ~HasRoom(evts)
  BY <1>2 DEF AddEvent
<1> QED BY <1>1, <1>2

LEMMA EventsWithoutProperties ==
    ASSUME NEW evts \in EventTable, NEW t \in Thread
    PROVE  /\ EventsWithout(evts, t) \in EventTable
           /\ \A i \in Pending(EventsWithout(evts, t)) :
                 /\ i \in Pending(evts)
                 /\ EventsWithout(evts, t)[i] = evts[i]
                 /\ evts[i].tcb # t
BY DEF EventsWithout, EventTable, Pending

LEMMA AgedProperties ==
    ASSUME NEW evts \in EventTable
    PROVE  /\ Aged(evts) \in EventTable
           /\ Pending(Aged(evts)) = Pending(evts)
           /\ \A i \in Pending(evts) : Aged(evts)[i].tcb = evts[i].tcb
<1>1. \A e \in TimedEvent :
         LET f == [e EXCEPT !.due = @ - 1] IN f \in TimedEvent /\ f.tcb = e.tcb
  BY DEF TimedEvent
<1>2. \A i \in EventCell : evts[i] # NoEvent => evts[i] \in TimedEvent
  BY DEF EventTable
<1>3. Aged(evts) \in EventTable
  BY <1>1, <1>2 DEF Aged, EventTable
<1> QED BY <1>1, <1>2, <1>3, NoEventAssumption DEF Aged, Pending

-----------------------------------------------------------------------------
(***************************************************************************)
(* The inductive invariant                                                 *)
(***************************************************************************)

\* A thread that waits for a message is blocked, and its queue is empty.
WaitersEmpty(T) ==
    \A t \in Thread : T[t].wait = "MSG" => T[t].state = "BLOCKED" /\ T[t].msgs = 0

\* The part about threads: what the scheduler and the wake-ups rely on.
ThreadInv ==
    /\ tcb \in [Thread -> TCB]
    /\ QueueOK(tcbReady, tcb)
    /\ currTcb \in Thread
    /\ CurrentCanRun
    /\ appTlsSlots \in Thread \cup {NoThread}
    /\ TlsOfCurrent
    /\ timedEvents \in EventTable
    /\ EventsLive(timedEvents, tcb)
    /\ WaitersEmpty(tcb)

\* ThreadListExact, of any list and any TCBs.
ListOK(list, T) ==
    /\ list \in Seq(Thread)
    /\ list # << >> /\ list[1] = Idle
    /\ NoRepeats(list)
    /\ \A t \in Thread : InQueue(list, t) <=> T[t].state # "FREE"

\* ThreadHandles, of any handle table and any TCBs.
HandlesOK(H, T) ==
    /\ H \in HandleTable
    /\ \A i \in Slot : H[i].type = "THREAD" =>
          /\ H[i].data \in Thread
          /\ T[H[i].data].state # "FREE"
          /\ T[H[i].data].handle = HandleOf(H, i)
          /\ T[H[i].data].pcb = H[i].owner
    /\ \A t \in Thread : T[t].state # "FREE" =>
          /\ T[t].handle[1] \in Slot
          /\ H[T[t].handle[1]].type = "THREAD"
          /\ H[T[t].handle[1]].data = t

\* Threads and handles belong to the processes P that exist and to v, the one
\* being torn down; the idle thread is the only one of the idle process, and a
\* process that exists has its main thread.
ProcsOK(P, v, H, T) ==
    /\ P \subseteq Proc
    /\ IdleProc \in P
    /\ v \in (Proc \ P) \cup {NoProc}
    /\ \A t \in Thread : T[t].state # "FREE" =>
          /\ T[t].pcb \in P \cup {v}
          /\ T[t].pcb = IdleProc <=> t = Idle
    /\ \A i \in Slot : H[i].owner \in P \cup {v, NoProc}
    /\ \A p \in P : T[Main[p]].state # "FREE" /\ T[Main[p]].pcb = p

\* The kernel loops: only a tear-down has a victim, and behind its cursor no
\* handle of the victim is left.
ModeInv ==
    /\ kpc \in {"user", "events", "keys", "teardown"}
    /\ cursor \in Nat \ {0}
    /\ kpc = "user" => cursor = 1
    /\ kpc # "teardown" => victim = NoProc /\ crpt = CurrPcb
    /\ kpc = "teardown" =>
          /\ victim \in Proc
          /\ crpt = IdleProc
          /\ \A i \in Slot : i < cursor => handles[i].owner # victim

OwnerInv ==
    /\ ListOK(tcbList, tcb)
    /\ HandlesOK(handles, tcb)
    /\ ProcsOK(pcbs, victim, handles, tcb)
    /\ numActiveTimers \in [Proc -> Int]

IInv == ThreadInv /\ OwnerInv /\ ModeInv

\* timedEvent_wakeupThread and prc_wakeOneWaitingThread
LEMMA WokenEffect ==
    ASSUME NEW T \in [Thread -> TCB], NEW t \in Thread
    PROVE  /\ Woken(T, t) \in [Thread -> TCB]
           /\ Woken(T, t)[t].state = "READY"
           /\ Woken(T, t)[t].wait = "NONE"
           /\ Woken(T, t)[t].tls = T[t].tls
           /\ Woken(T, t)[t].pcb = T[t].pcb
           /\ Woken(T, t)[t].handle = T[t].handle
           /\ \A s \in Thread \ {t} : Woken(T, t)[s] = T[s]
<1> DEFINE e == [T[t] EXCEPT !.state = "READY", !.wait = "NONE"]
<1>1. /\ e \in TCB
      /\ e.state = "READY" /\ e.wait = "NONE" /\ e.tls = T[t].tls
      /\ e.pcb = T[t].pcb /\ e.handle = T[t].handle
  BY DEF TCB, TcbState, WaitType
<1>2. Woken(T, t) = [T EXCEPT ![t] = e]
  BY DEF Woken
<1> HIDE DEF e
<1> QED BY <1>1, <1>2

LEMMA WokenProperties ==
    ASSUME NEW T \in [Thread -> TCB], NEW t \in Thread, WaitersEmpty(T)
    PROVE  /\ Woken(T, t) \in [Thread -> TCB]
           /\ WaitersEmpty(Woken(T, t))
           /\ Woken(T, t)[t].state = "READY"
           /\ \A s \in Thread \ {t} : Woken(T, t)[s] = T[s]
           /\ \A s \in Thread : Woken(T, t)[s].tls = T[s].tls
<1> DEFINE W == Woken(T, t)
<1>1. /\ W \in [Thread -> TCB]
      /\ W[t].state = "READY" /\ W[t].wait = "NONE" /\ W[t].tls = T[t].tls
      /\ \A s \in Thread \ {t} : W[s] = T[s]
  BY WokenEffect
<1> HIDE DEF W
<1>2. WaitersEmpty(W)
  BY <1>1 DEF WaitersEmpty
<1>3. \A s \in Thread : W[s].tls = T[s].tls
  BY <1>1
<1> QED BY <1>1, <1>2, <1>3 DEF W

\* prc_postThreadMsg
LEMMA PostedProperties ==
    ASSUME NEW T \in [Thread -> TCB], NEW t \in Thread, WaitersEmpty(T)
    PROVE  /\ Posted(T, t) \in [Thread -> TCB]
           /\ WaitersEmpty(Posted(T, t))
           /\ \A s \in Thread :
                 /\ Posted(T, t)[s].tls = T[s].tls
                 /\ Posted(T, t)[s].pcb = T[s].pcb
                 /\ Posted(T, t)[s].handle = T[s].handle
                 /\ T[s].state = "READY" => Posted(T, t)[s].state = "READY"
                 /\ T[s].state = "FREE" <=> Posted(T, t)[s].state = "FREE"
<1>0. MaxMsgs \in Nat \ {0}
  BY KernelAssumption
<1>1. CASE T[t].msgs < MaxMsgs
  <2> DEFINE U == [T EXCEPT ![t].msgs = @ + 1]
             e == [T[t] EXCEPT !.msgs = @ + 1]
  <2>0. T[t] \in TCB /\ T[t].msgs + 1 \in 0 .. MaxMsgs
    BY <1>0, <1>1 DEF TCB
  <2>1. /\ e \in TCB
        /\ e.state = T[t].state /\ e.wait = T[t].wait /\ e.tls = T[t].tls
        /\ e.pcb = T[t].pcb /\ e.handle = T[t].handle
    BY <2>0 DEF TCB
  <2> HIDE DEF e
  <2>2. U = [T EXCEPT ![t] = e]
    BY DEF e
  <2>3. /\ U \in [Thread -> TCB]
        /\ U[t].state = T[t].state /\ U[t].wait = T[t].wait /\ U[t].tls = T[t].tls
        /\ U[t].pcb = T[t].pcb /\ U[t].handle = T[t].handle
        /\ \A s \in Thread \ {t} : U[s] = T[s]
    BY <2>1, <2>2
  <2>4. CASE WakesOnMsg(T, t)
    <3>1. Posted(T, t) = Woken(U, t)
      BY <1>1, <2>4 DEF Posted
    <3> HIDE DEF U
    <3>2. /\ Woken(U, t) \in [Thread -> TCB]
          /\ Woken(U, t)[t].state = "READY"
          /\ Woken(U, t)[t].wait = "NONE"
          /\ Woken(U, t)[t].tls = U[t].tls
          /\ Woken(U, t)[t].pcb = U[t].pcb
          /\ Woken(U, t)[t].handle = U[t].handle
          /\ \A s \in Thread \ {t} : Woken(U, t)[s] = U[s]
      BY <2>3, WokenEffect
    <3> QED BY <2>3, <2>4, <3>1, <3>2 DEF WaitersEmpty, WakesOnMsg
  <2>5. CASE ~WakesOnMsg(T, t)
    <3>1. Posted(T, t) = U
      BY <1>1, <2>5 DEF Posted
    <3>2. T[t].wait # "MSG"
      BY <1>1, <2>5, <1>0 DEF WakesOnMsg, WaitersEmpty
    <3> HIDE DEF U
    <3> QED BY <2>3, <3>1, <3>2 DEF WaitersEmpty
  <2> QED BY <2>4, <2>5
<1>2. CASE ~(T[t].msgs < MaxMsgs)
  BY <1>2 DEF Posted
<1> QED BY <1>1, <1>2

\* krn_pickNextTcb
LEMMA Picked ==
    ASSUME NEW STATE q, QueueOK(q, tcb'), tcb' \in [Thread -> TCB], PickNext(q)
    PROVE  /\ QueueOK(tcbReady', tcb')
           /\ currTcb' \in Thread
           /\ CurrentCanRun'
           /\ TlsOfCurrent'
           /\ appTlsSlots' \in Thread \cup {NoThread}
<1>1. /\ QueueOK(tcbReady', tcb')
      /\ currTcb' \in Thread
      /\ currTcb' = Idle \/ tcb'[currTcb'].state = "READY"
  BY QueuePicked DEF PickNext
<1>2. appTlsSlots' = tcb'[currTcb'].tls
  BY DEF PickNext
<1> QED BY <1>1, <1>2 DEF CurrentCanRun, TlsOfCurrent, TCB

-----------------------------------------------------------------------------
(***************************************************************************)
(* Threads, handles and processes                                          *)
(***************************************************************************)

\* The same TCBs are in use, for the same processes.
SameThreads(T, U) ==
    \A t \in Thread :
        /\ U[t].handle = T[t].handle
        /\ U[t].pcb = T[t].pcb
        /\ U[t].state = "FREE" <=> T[t].state = "FREE"

LEMMA OwnersSame ==
    ASSUME NEW list, NEW H, NEW P, NEW v, NEW T, NEW U, SameThreads(T, U),
           ListOK(list, T), HandlesOK(H, T), ProcsOK(P, v, H, T)
    PROVE  ListOK(list, U) /\ HandlesOK(H, U) /\ ProcsOK(P, v, H, U)
<1>1. ListOK(list, U)
  BY DEF SameThreads, ListOK
<1>2. HandlesOK(H, U)
  BY DEF SameThreads, HandlesOK
<1>3. ProcsOK(P, v, H, U)
  <2>1. \A p \in P : Main[p] \in Thread
    BY KernelAssumption DEF ProcsOK
  <2> QED BY <2>1 DEF SameThreads, ProcsOK
<1> QED BY <1>1, <1>2, <1>3

\* A slot that is not a thread's before and after does not matter.
LEMMA OwnersOtherSlot ==
    ASSUME NEW H, NEW G \in HandleTable, NEW i \in Slot, NEW P, NEW v, NEW T,
           HandlesOK(H, T), ProcsOK(P, v, H, T),
           \A j \in Slot \ {i} : G[j] = H[j],
           H[i].type # "THREAD", G[i].type # "THREAD",
           G[i].owner \in P \cup {NoProc}
    PROVE  HandlesOK(G, T) /\ ProcsOK(P, v, G, T)
<1>1. HandlesOK(G, T)
  BY DEF HandlesOK, HandleOf
<1>2. ProcsOK(P, v, G, T)
  BY DEF ProcsOK
<1> QED BY <1>1, <1>2

\* prc_createTCB
LEMMA OwnersCreated ==
    ASSUME tcb \in [Thread -> TCB],
           ListOK(tcbList, tcb), HandlesOK(handles, tcb), ProcsOK(pcbs, victim, handles, tcb),
           NEW i \in Slot, handles[i].type = "NONE",
           NEW p \in pcbs \ {IdleProc}, NEW t \in Thread, tcb[t].state = "FREE",
           handles' = CreateHandle(handles, i, p, "THREAD", t),
           tcb' = [tcb EXCEPT ![t] = NewTcb(p, HandleOf(handles', i))],
           tcbList' = Append(tcbList, t)
    PROVE  /\ tcb' \in [Thread -> TCB]
           /\ ListOK(tcbList', tcb')
           /\ HandlesOK(handles', tcb')
           /\ ProcsOK(pcbs, victim, handles', tcb')
<1>0. /\ p \in Proc /\ t # Idle
      /\ \A r \in pcbs : Main[r] # t
  BY KernelAssumption DEF ProcsOK
<1>1. handles' \in HandleTable
  BY <1>0, CreateHandleType DEF HandlesOK, HandleType
<1>2. /\ handles'[i].type = "THREAD" /\ handles'[i].data = t /\ handles'[i].owner = p
      /\ \A j \in Slot \ {i} : handles'[j] = handles[j]
  BY DEF CreateHandle, HandlesOK, HandleTable
<1>3. HandleOf(handles', i) \in HANDLE /\ HandleOf(handles', i)[1] = i
  BY <1>1, HandleOfType DEF HandleOf
<1>4. NewTcb(p, HandleOf(handles', i)) \in TCB
  BY <1>0, <1>3, NewTcbType
<1>5. /\ tcb' \in [Thread -> TCB]
      /\ tcb'[t].state = "READY" /\ tcb'[t].pcb = p /\ tcb'[t].handle = HandleOf(handles', i)
      /\ \A s \in Thread \ {t} : tcb'[s] = tcb[s]
  BY <1>4 DEF NewTcb
<1>6. ListOK(tcbList', tcb')
  <2> DEFINE a == Append(tcbList, t)
  <2>1. tcbList \in Seq(Thread) /\ Len(tcbList) \in Nat /\ Len(tcbList) # 0
    BY LenProperties, EmptySeq DEF ListOK
  <2>2. /\ a \in Seq(Thread)
        /\ Len(a) = Len(tcbList) + 1
        /\ \A k \in 1 .. Len(tcbList) : a[k] = tcbList[k]
        /\ a[Len(tcbList) + 1] = t
    BY <2>1
  <2>3. ~InQueue(tcbList, t)
    BY DEF ListOK
  <2> HIDE DEF a
  <2>4. NoRepeats(a)
    <3>1. NoRepeats(tcbList) /\ \A k \in 1 .. Len(tcbList) : tcbList[k] # t
      BY <2>3 DEF ListOK, InQueue
    <3>2. \A k \in 1 .. Len(tcbList) : a[k] = tcbList[k] /\ a[k] # t
      BY <2>2, <3>1
    <3> QED BY <2>1, <2>2, <3>1, <3>2 DEF NoRepeats
  <2>5. a # << >> /\ a[1] = Idle
    BY <2>1, <2>2, EmptySeq DEF ListOK
  <2>6. \A s : InQueue(a, s) <=> InQueue(tcbList, s) \/ s = t
    BY <2>1, <2>2 DEF InQueue
  <2> QED BY <1>5, <2>2, <2>4, <2>5, <2>6 DEF ListOK, a
<1>7. HandlesOK(handles', tcb')
  <2>1. \A j \in Slot \ {i} : handles'[j].type = "THREAD" => handles'[j].data \in Thread \ {t}
    BY <1>2 DEF HandlesOK
  <2>2. \A s \in Thread \ {t} : tcb[s].state # "FREE" => tcb[s].handle[1] \in Slot \ {i}
    BY DEF HandlesOK
  <2>3. \A j \in Slot : handles'[j].type = "THREAD" =>
          /\ handles'[j].data \in Thread
          /\ tcb'[handles'[j].data].state # "FREE"
          /\ tcb'[handles'[j].data].handle = HandleOf(handles', j)
          /\ tcb'[handles'[j].data].pcb = handles'[j].owner
    BY <1>2, <1>5, <2>1 DEF HandlesOK, HandleOf
  <2>4. \A s \in Thread : tcb'[s].state # "FREE" =>
          /\ tcb'[s].handle[1] \in Slot
          /\ handles'[tcb'[s].handle[1]].type = "THREAD"
          /\ handles'[tcb'[s].handle[1]].data = s
    BY <1>2, <1>3, <1>5, <2>2 DEF HandlesOK
  <2> QED BY <1>1, <2>3, <2>4 DEF HandlesOK
<1>8. ProcsOK(pcbs, victim, handles', tcb')
  <2>1. \A r \in pcbs : Main[r] \in Thread
    BY KernelAssumption DEF ProcsOK
  <2> QED BY <1>0, <1>2, <1>5, <2>1 DEF ProcsOK
<1> QED BY <1>5, <1>6, <1>7, <1>8

\* prc_destroyTCBImpl, on a thread whose handle is destroyed with it, for a
\* process that goes on or that stops existing with its main thread.
LEMMA OwnersDestroyed ==
    ASSUME tcb \in [Thread -> TCB],
           ListOK(tcbList, tcb), HandlesOK(handles, tcb), ProcsOK(pcbs, victim, handles, tcb),
           NEW i \in Slot, handles[i].type = "THREAD", handles[i].owner # IdleProc,
           NEW t, t = handles[i].data,
           handles' = ResetSlot(handles, i),
           tcb' = [tcb EXCEPT ![t] = FreeTcb],
           tcbList' = Dequeued(tcbList, t),
           \/ UNCHANGED <<pcbs, victim>>
           \/ victim = NoProc /\ handles[i].owner \in pcbs /\ victim' = handles[i].owner /\ pcbs' = pcbs \ {victim'},
           \A r \in pcbs' : t # Main[r]
    PROVE  /\ t \in Thread \ {Idle}
           /\ tcb' \in [Thread -> TCB]
           /\ ListOK(tcbList', tcb')
           /\ HandlesOK(handles', tcb')
           /\ ProcsOK(pcbs', victim', handles', tcb')
<1>0. /\ t \in Thread \ {Idle}
      /\ tcb[t].handle = HandleOf(handles, i) /\ tcb[t].pcb = handles[i].owner
      /\ tcb[t].state # "FREE"
  BY DEF HandlesOK, ProcsOK
<1>1. handles' \in HandleTable
  BY ResetSlotType DEF HandlesOK
<1>2. /\ handles'[i].type = "NONE" /\ handles'[i].owner = NoProc
      /\ \A j \in Slot \ {i} : handles'[j] = handles[j]
  BY DEF ResetSlot, FreeEntry, HandlesOK, HandleTable
<1>3. /\ tcb' \in [Thread -> TCB]
      /\ tcb'[t].state = "FREE"
      /\ \A s \in Thread \ {t} : tcb'[s] = tcb[s]
  BY <1>0, FreeTcbType
<1>4. ListOK(tcbList', tcb')
  BY <1>0, <1>3, DequeuedProperties DEF ListOK
<1>5. HandlesOK(handles', tcb')
  <2>1. \A j \in Slot \ {i} : handles[j].type = "THREAD" => handles[j].data # t
    BY <1>0 DEF HandlesOK, HandleOf
  <2>2. \A s \in Thread \ {t} : tcb[s].state # "FREE" => tcb[s].handle[1] # i
    BY DEF HandlesOK
  <2> QED BY <1>1, <1>2, <1>3, <2>1, <2>2 DEF HandlesOK, HandleOf
<1>6. ProcsOK(pcbs', victim', handles', tcb')
  <2>1. \A r \in pcbs : Main[r] \in Thread
    BY KernelAssumption DEF ProcsOK
  <2>2. pcbs' \subseteq pcbs /\ IdleProc \in pcbs' /\ victim' \in (Proc \ pcbs') \cup {NoProc}
    BY DEF ProcsOK
  <2>3. pcbs \cup {victim, NoProc} = pcbs' \cup {victim', NoProc}
    OBVIOUS
  <2> QED BY <1>0, <1>2, <1>3, <2>1, <2>2, <2>3, HandlesAssumption DEF ProcsOK, TCB
<1> QED BY <1>0, <1>3, <1>4, <1>5, <1>6

-----------------------------------------------------------------------------
(***************************************************************************)
(* Steps                                                                   *)
(***************************************************************************)

\* A thread leaves the ready queue and the next one is picked.
LEMMA ThreadsPicked ==
    ASSUME ThreadInv, NEW t \in Thread,
           tcb' \in [Thread -> TCB],
           \A s \in Thread \ {t} : tcb'[s] = tcb[s],
           tcb'[t].state # "READY",
           WaitersEmpty(tcb'),
           timedEvents' \in EventTable,
           EventsLive(timedEvents', tcb'),
           PickNext(Dequeued(tcbReady, t))
    PROVE  ThreadInv'
<1>1. QueueOK(Dequeued(tcbReady, t), tcb')
  BY QueueLeft DEF ThreadInv
<1>2. /\ QueueOK(tcbReady', tcb')
      /\ currTcb' \in Thread
      /\ CurrentCanRun'
      /\ TlsOfCurrent'
      /\ appTlsSlots' \in Thread \cup {NoThread}
  BY <1>1, Picked
<1> QED BY <1>2 DEF ThreadInv

\* The current thread goes on.
LEMMA ThreadsStay ==
    ASSUME ThreadInv,
           tcb' \in [Thread -> TCB],
           QueueOK(tcbReady', tcb'),
           currTcb' = currTcb,
           tcb[currTcb].state = "READY" => tcb'[currTcb].state = "READY",
           appTlsSlots' = tcb'[currTcb].tls,
           WaitersEmpty(tcb'),
           timedEvents' \in EventTable,
           EventsLive(timedEvents', tcb')
    PROVE  ThreadInv'
<1>1. CurrentCanRun'
  BY DEF ThreadInv, CurrentCanRun
<1>2. TlsOfCurrent' /\ appTlsSlots' \in Thread \cup {NoThread}
  BY DEF ThreadInv, TlsOfCurrent, TCB
<1> QED BY <1>1, <1>2 DEF ThreadInv

LEMMA ThreadsUnchanged ==
    ASSUME ThreadInv,
           UNCHANGED <<currTcb, tcb, tcbReady, timedEvents, appTlsSlots>>
    PROVE  ThreadInv'
BY DEF ThreadInv, CurrentCanRun, TlsOfCurrent

\* timedEvents is left alone, and no thread is freed.
LEMMA EventsStayLive ==
    ASSUME NEW evts \in EventTable, NEW T, NEW U, EventsLive(evts, T), NoEvent \notin TimedEvent,
           \A s \in Thread : T[s].state # "FREE" => U[s].state # "FREE"
    PROVE  EventsLive(evts, U)
<1>1. \A i \in Pending(evts) : evts[i].tcb \in Thread
  BY DEF Pending, EventTable, TimedEvent
<1> QED BY <1>1 DEF EventsLive

\* The owners' half of IInv, for a step that creates and destroys nothing.
LEMMA OwnersStay ==
    ASSUME OwnerInv, SameThreads(tcb, tcb'),
           UNCHANGED <<tcbList, handles, pcbs, victim>>,
           numActiveTimers' \in [Proc -> Int]
    PROVE  OwnerInv'
BY OwnersSame DEF OwnerInv

\* A return to user code that is not the end of a tear-down.
LEMMA ModeResumed ==
    ASSUME victim' = NoProc, Resume
    PROVE  ModeInv'
BY DEF ModeInv, Resume, CurrPcb

\* A thread that makes a system call is READY, in a process that exists.
LEMMA CallerIsLive ==
    ASSUME IInv, AppRuns
    PROVE  /\ currTcb \in Thread \ {Idle}
           /\ tcb[currTcb] \in TCB
           /\ tcb[currTcb].state = "READY"
           /\ CurrPcb \in pcbs \ {IdleProc}
           /\ victim = NoProc
           /\ kpc = "user" /\ cursor = 1
BY HandlesAssumption DEF IInv, ThreadInv, OwnerInv, ProcsOK, ModeInv, AppRuns, CurrPcb, CurrentCanRun, TCB

-----------------------------------------------------------------------------
\* System calls.

LEMMA SetTlsPtrStep ==
    ASSUME IInv, SetTlsPtr
    PROVE  IInv'
<1>1. /\ tcb' \in [Thread -> TCB]
      /\ \A s \in Thread \ {currTcb} : tcb'[s] = tcb[s]
      /\ tcb'[currTcb].tls = currTcb
      /\ tcb'[currTcb].state = tcb[currTcb].state
      /\ tcb'[currTcb].wait = tcb[currTcb].wait
      /\ tcb'[currTcb].msgs = tcb[currTcb].msgs
      /\ tcb'[currTcb].pcb = tcb[currTcb].pcb
      /\ tcb'[currTcb].handle = tcb[currTcb].handle
      /\ currTcb \in Thread
  BY DEF IInv, ThreadInv, SetTlsPtr, TCB
<1>2. ThreadInv'
  <2>0. /\ UNCHANGED <<tcbReady, timedEvents>>
        /\ QueueOK(tcbReady, tcb)
        /\ timedEvents \in EventTable /\ EventsLive(timedEvents, tcb)
        /\ \A s \in Thread : tcb'[s].state = tcb[s].state
    BY <1>1 DEF IInv, ThreadInv, SetTlsPtr
  <2>1. QueueOK(tcbReady', tcb')
    BY <2>0, QueueSame
  <2>2. WaitersEmpty(tcb')
    BY <1>1 DEF IInv, ThreadInv, WaitersEmpty
  <2>3. EventsLive(timedEvents', tcb')
    BY <2>0, EventsStayLive, NoEventAssumption
  <2> QED BY <1>1, <2>1, <2>2, <2>3, ThreadsStay DEF IInv, ThreadInv, SetTlsPtr
<1>3. OwnerInv'
  BY <1>1, OwnersStay DEF IInv, OwnerInv, SetTlsPtr, SameThreads
<1>4. ModeInv'
  BY ModeResumed DEF IInv, ModeInv, SetTlsPtr
<1> QED BY <1>2, <1>3, <1>4 DEF IInv

\* Sleep, WaitForMutex and WaitForMsg: the caller blocks.
LEMMA CallerBlocks ==
    ASSUME IInv, AppRuns,
           NEW e \in TCB, tcb' = [tcb EXCEPT ![currTcb] = e],
           e.state = "BLOCKED",
           e.wait = "MSG" => e.msgs = 0,
           e.pcb = CurrPcb, e.handle = tcb[currTcb].handle,
           timedEvents' \in EventTable,
           \A i \in Pending(timedEvents') :
              \/ timedEvents'[i].tcb = currTcb
              \/ i \in Pending(timedEvents) /\ timedEvents'[i] = timedEvents[i],
           PickNext(Dequeued(tcbReady, currTcb)),
           UNCHANGED <<tcbList, handles, pcbs, numActiveTimers, victim>>,
           Resume
    PROVE  IInv'
<1>0. currTcb \in Thread /\ tcb[currTcb].state = "READY" /\ victim = NoProc
  BY CallerIsLive
<1>1. /\ tcb' \in [Thread -> TCB]
      /\ \A s \in Thread \ {currTcb} : tcb'[s] = tcb[s]
      /\ tcb'[currTcb] = e
  BY <1>0 DEF IInv, ThreadInv
<1>2. WaitersEmpty(tcb')
  BY <1>1 DEF IInv, ThreadInv, WaitersEmpty
<1>3. EventsLive(timedEvents', tcb')
  <2>1. \A i \in Pending(timedEvents) :
           timedEvents[i].tcb \in Thread /\ tcb[timedEvents[i].tcb].state # "FREE"
    BY NoEventAssumption DEF IInv, ThreadInv, EventsLive, EventTable, Pending, TimedEvent
  <2> QED BY <1>1, <2>1 DEF EventsLive
<1>4. ThreadInv'
  BY <1>0, <1>1, <1>2, <1>3, ThreadsPicked DEF IInv
<1>5. OwnerInv'
  <2>1. SameThreads(tcb, tcb')
    BY <1>0, <1>1 DEF SameThreads, CurrPcb
  <2> QED BY <2>1, OwnersStay DEF IInv, OwnerInv
<1>6. ModeInv'
  BY <1>0, ModeResumed
<1> QED BY <1>4, <1>5, <1>6 DEF IInv

LEMMA SleepStep ==
    ASSUME IInv, NEW ms \in SleepMs, NEW bits \in SleepBits, Sleep(ms, bits)
    PROVE  IInv'
<1> DEFINE e == [tcb[currTcb] EXCEPT !.state = "BLOCKED", !.wait = "SLEEP", !.mtx = bits]
<1>0. AppRuns /\ currTcb \in Thread /\ tcb[currTcb] \in TCB
  BY CallerIsLive DEF Sleep
<1>1. /\ e \in TCB /\ e.state = "BLOCKED" /\ e.wait = "SLEEP"
      /\ e.pcb = CurrPcb /\ e.handle = tcb[currTcb].handle
  BY <1>0, KernelAssumption DEF TCB, TcbState, WaitType, CurrPcb
<1>2. tcb' = [tcb EXCEPT ![currTcb] = e]
  BY DEF Sleep
<1> HIDE DEF e
<1>3. /\ WakeupEvent(currTcb, ms) \in TimedEvent
      /\ WakeupEvent(currTcb, ms).tcb = currTcb
  BY <1>0, WakeupEventType
<1>4. /\ timedEvents' \in EventTable
      /\ \A i \in Pending(timedEvents') :
            \/ timedEvents'[i].tcb = currTcb
            \/ i \in Pending(timedEvents) /\ timedEvents'[i] = timedEvents[i]
  BY <1>3, AddEventProperties DEF IInv, ThreadInv, Sleep
<1> QED BY <1>0, <1>1, <1>2, <1>4, CallerBlocks DEF Sleep

LEMMA WaitForMutexStep ==
    ASSUME IInv, NEW h \in HANDLE, WaitForMutex(h)
    PROVE  IInv'
<1> DEFINE e == [tcb[currTcb] EXCEPT !.state = "BLOCKED", !.wait = "WAIT", !.mtx = h]
<1>0. AppRuns /\ currTcb \in Thread /\ tcb[currTcb] \in TCB
  BY CallerIsLive DEF WaitForMutex
<1>1. /\ e \in TCB /\ e.state = "BLOCKED" /\ e.wait = "WAIT"
      /\ e.pcb = CurrPcb /\ e.handle = tcb[currTcb].handle
  BY <1>0 DEF TCB, TcbState, WaitType, CurrPcb
<1>2. tcb' = [tcb EXCEPT ![currTcb] = e]
  BY DEF WaitForMutex
<1> HIDE DEF e
<1>3. timedEvents' \in EventTable /\ UNCHANGED timedEvents
  BY DEF IInv, ThreadInv, WaitForMutex
<1> QED BY <1>0, <1>1, <1>2, <1>3, CallerBlocks DEF WaitForMutex

LEMMA WaitForMsgStep ==
    ASSUME IInv, WaitForMsg
    PROVE  IInv'
<1> DEFINE e == [tcb[currTcb] EXCEPT !.state = "BLOCKED", !.wait = "MSG"]
<1>0. AppRuns /\ currTcb \in Thread /\ tcb[currTcb] \in TCB /\ tcb[currTcb].msgs = 0
  BY CallerIsLive DEF WaitForMsg
<1>1. /\ e \in TCB /\ e.state = "BLOCKED" /\ e.msgs = 0
      /\ e.pcb = CurrPcb /\ e.handle = tcb[currTcb].handle
  BY <1>0 DEF TCB, TcbState, WaitType, CurrPcb
<1>2. tcb' = [tcb EXCEPT ![currTcb] = e]
  BY DEF WaitForMsg
<1> HIDE DEF e
<1>3. timedEvents' \in EventTable /\ UNCHANGED timedEvents
  BY DEF IInv, ThreadInv, WaitForMsg
<1> QED BY <1>0, <1>1, <1>2, <1>3, CallerBlocks DEF WaitForMsg

\* A message is posted to t: PostMsg, PostKey, ThreadTimer.
LEMMA MessagePosted ==
    ASSUME ThreadInv, NEW t \in Thread,
           tcb' = Posted(tcb, t), tcbReady' = PostedReady(tcb, tcbReady, t),
           UNCHANGED <<currTcb, appTlsSlots>>,
           timedEvents' \in EventTable,
           EventsLive(timedEvents', tcb)
    PROVE  ThreadInv' /\ SameThreads(tcb, tcb')
<1>1. /\ tcb \in [Thread -> TCB] /\ WaitersEmpty(tcb) /\ QueueOK(tcbReady, tcb)
      /\ currTcb \in Thread /\ appTlsSlots = tcb[currTcb].tls
  BY DEF ThreadInv, TlsOfCurrent
<1>2. /\ tcb' \in [Thread -> TCB]
      /\ WaitersEmpty(tcb')
      /\ \A s \in Thread :
            /\ tcb'[s].tls = tcb[s].tls
            /\ tcb'[s].pcb = tcb[s].pcb
            /\ tcb'[s].handle = tcb[s].handle
            /\ tcb[s].state = "READY" => tcb'[s].state = "READY"
            /\ tcb[s].state = "FREE" <=> tcb'[s].state = "FREE"
  BY <1>1, PostedProperties
<1>3. QueueOK(tcbReady', tcb')
  BY <1>1, QueuePosted
<1>4. EventsLive(timedEvents', tcb')
  BY <1>2, EventsStayLive, NoEventAssumption
<1>5. ThreadInv'
  BY <1>1, <1>2, <1>3, <1>4, ThreadsStay
<1> QED BY <1>2, <1>5 DEF SameThreads

\* A blocked thread is woken: MutexUnlocked, WakeupThread.
LEMMA ThreadWoken ==
    ASSUME ThreadInv, NEW t \in Thread, tcb[t].state # "FREE",
           tcb' = Woken(tcb, t), tcbReady' = Enqueued(tcbReady, t),
           UNCHANGED <<currTcb, appTlsSlots>>,
           timedEvents' \in EventTable,
           EventsLive(timedEvents', tcb)
    PROVE  ThreadInv' /\ SameThreads(tcb, tcb')
<1>1. /\ tcb \in [Thread -> TCB] /\ WaitersEmpty(tcb) /\ QueueOK(tcbReady, tcb)
      /\ currTcb \in Thread /\ appTlsSlots = tcb[currTcb].tls
  BY DEF ThreadInv, TlsOfCurrent
<1>2. /\ tcb' \in [Thread -> TCB]
      /\ WaitersEmpty(tcb')
      /\ tcb'[t].state = "READY" /\ tcb'[t].tls = tcb[t].tls
      /\ tcb'[t].pcb = tcb[t].pcb /\ tcb'[t].handle = tcb[t].handle
      /\ \A s \in Thread \ {t} : tcb'[s] = tcb[s]
  BY <1>1, WokenEffect, WokenProperties
<1>3. QueueOK(tcbReady', tcb')
  BY <1>1, <1>2, QueueEntered
<1>4. EventsLive(timedEvents', tcb')
  BY <1>2, EventsStayLive, NoEventAssumption
<1>5. ThreadInv'
  BY <1>1, <1>2, <1>3, <1>4, ThreadsStay
<1> QED BY <1>2, <1>5 DEF SameThreads

LEMMA PostMsgStep ==
    ASSUME IInv, NEW h \in HANDLE, PostMsg(h)
    PROVE  IInv'
<1>0. AppRuns /\ victim = NoProc
  BY CallerIsLive DEF PostMsg
<1> DEFINE t == handles[h[1]].data
<1>1. t \in Thread
  BY DEF IInv, OwnerInv, HandlesOK, PostMsg, HasData, InUse
<1>2. /\ tcb' = Posted(tcb, t) /\ tcbReady' = PostedReady(tcb, tcbReady, t)
      /\ UNCHANGED <<currTcb, appTlsSlots, timedEvents>>
      /\ timedEvents \in EventTable /\ EventsLive(timedEvents, tcb)
      /\ ThreadInv
  BY DEF PostMsg, IInv, ThreadInv
<1> HIDE DEF t
<1>3. ThreadInv' /\ SameThreads(tcb, tcb')
  BY <1>1, <1>2, MessagePosted
<1>4. OwnerInv'
  BY <1>3, OwnersStay DEF IInv, OwnerInv, PostMsg
<1>5. ModeInv'
  BY <1>0, ModeResumed DEF PostMsg
<1> QED BY <1>3, <1>4, <1>5 DEF IInv

LEMMA MutexUnlockedStep ==
    ASSUME IInv, NEW h \in HANDLE, MutexUnlocked(h)
    PROVE  IInv'
<1>0. AppRuns /\ victim = NoProc
  BY CallerIsLive DEF MutexUnlocked
<1>1. PICK i \in Matches(tcb, h) :
         tcb' = Woken(tcb, tcbList[i]) /\ tcbReady' = Enqueued(tcbReady, tcbList[i])
  BY DEF MutexUnlocked
<1>2. tcbList[i] \in Thread /\ tcb[tcbList[i]].state # "FREE"
  BY LenProperties DEF Matches, IInv, OwnerInv, ListOK
<1>3. /\ UNCHANGED <<currTcb, appTlsSlots, timedEvents>>
      /\ timedEvents \in EventTable /\ EventsLive(timedEvents, tcb)
      /\ ThreadInv
  BY DEF MutexUnlocked, IInv, ThreadInv
<1>4. ThreadInv' /\ SameThreads(tcb, tcb')
  BY <1>1, <1>2, <1>3, ThreadWoken
<1>5. OwnerInv'
  BY <1>4, OwnersStay DEF IInv, OwnerInv, MutexUnlocked
<1>6. ModeInv'
  BY <1>0, ModeResumed DEF MutexUnlocked
<1> QED BY <1>4, <1>5, <1>6 DEF IInv

LEMMA GetMsgStep ==
    ASSUME IInv, GetMsg
    PROVE  IInv'
<1> DEFINE e == [tcb[currTcb] EXCEPT !.msgs = @ - 1]
<1>0. /\ AppRuns /\ currTcb \in Thread /\ tcb[currTcb] \in TCB /\ victim = NoProc
      /\ tcb[currTcb].msgs > 0 /\ MaxMsgs \in Nat /\ tcb[currTcb].state = "READY"
  BY CallerIsLive, KernelAssumption DEF GetMsg
<1>1. /\ e \in TCB /\ e.state = "READY" /\ e.wait = tcb[currTcb].wait
      /\ e.tls = tcb[currTcb].tls
      /\ e.pcb = tcb[currTcb].pcb /\ e.handle = tcb[currTcb].handle
  BY <1>0 DEF TCB
<1>2. tcb' = [tcb EXCEPT ![currTcb] = e]
  BY DEF GetMsg
<1> HIDE DEF e
<1>3. /\ tcb' \in [Thread -> TCB]
      /\ \A s \in Thread \ {currTcb} : tcb'[s] = tcb[s]
      /\ tcb'[currTcb] = e
  BY <1>0, <1>1, <1>2 DEF IInv, ThreadInv
<1>4. ThreadInv'
  <2>0. /\ UNCHANGED <<currTcb, tcbReady, timedEvents, appTlsSlots>>
        /\ QueueOK(tcbReady, tcb)
        /\ timedEvents \in EventTable /\ EventsLive(timedEvents, tcb)
        /\ appTlsSlots = tcb[currTcb].tls
        /\ WaitersEmpty(tcb)
        /\ ThreadInv
    BY DEF IInv, ThreadInv, TlsOfCurrent, GetMsg
  <2>1. \A s \in Thread : tcb'[s].state = tcb[s].state
    BY <1>0, <1>1, <1>3
  <2>2. QueueOK(tcbReady', tcb')
    BY <2>0, <2>1, QueueSame
  <2>3. tcb[currTcb].wait # "MSG"
    BY <1>0, <2>0 DEF WaitersEmpty
  <2>4. WaitersEmpty(tcb')
    BY <1>1, <1>3, <2>0, <2>3 DEF WaitersEmpty
  <2>5. EventsLive(timedEvents', tcb')
    BY <2>0, <2>1, EventsStayLive, NoEventAssumption
  <2> QED BY <1>1, <1>3, <2>0, <2>2, <2>4, <2>5, ThreadsStay
<1>5. OwnerInv'
  <2>1. SameThreads(tcb, tcb')
    BY <1>0, <1>1, <1>3 DEF SameThreads
  <2> QED BY <2>1, OwnersStay DEF IInv, OwnerInv, GetMsg
<1>6. ModeInv'
  BY <1>0, ModeResumed DEF GetMsg
<1> QED BY <1>4, <1>5, <1>6 DEF IInv

LEMMA SetTimerStep ==
    ASSUME IInv, NEW ms \in TimerMs, NEW repeat \in BOOLEAN, SetTimer(ms, repeat)
    PROVE  IInv'
<1>0. /\ AppRuns /\ currTcb \in Thread /\ tcb[currTcb].state = "READY"
      /\ CurrPcb \in Proc /\ victim = NoProc
  BY CallerIsLive DEF SetTimer, IInv, OwnerInv, ProcsOK
<1>1. ms % HalfRange \in Nat
  <2>1. ms \in Nat /\ HalfRange \in Nat \ {0}
    BY KernelAssumption
  <2>2. ms % HalfRange \in 0 .. HalfRange - 1
    BY <2>1, RemainderType
  <2> QED BY <2>1, <2>2
<1> DEFINE e == TimerEvent(currTcb, ms % HalfRange, repeat)
<1>2. e \in TimedEvent /\ e.tcb = currTcb
  BY <1>0, <1>1, TimerEventType
<1>3. timedEvents' = AddEvent(timedEvents, e) /\ timedEvents \in EventTable
  BY DEF SetTimer, IInv, ThreadInv
<1> HIDE DEF e
<1>4. /\ timedEvents' \in EventTable
      /\ \A i \in Pending(timedEvents') :
            \/ timedEvents'[i].tcb = currTcb
            \/ i \in Pending(timedEvents) /\ timedEvents'[i] = timedEvents[i]
  BY <1>2, <1>3, AddEventProperties
<1>5. ThreadInv'
  <2>0. /\ UNCHANGED <<currTcb, tcb, tcbReady, appTlsSlots>>
        /\ EventsLive(timedEvents, tcb)
    BY DEF SetTimer, IInv, ThreadInv
  <2>1. EventsLive(timedEvents', tcb')
    BY <1>0, <1>4, <2>0 DEF EventsLive
  <2> QED BY <1>4, <2>0, <2>1 DEF IInv, ThreadInv, CurrentCanRun, TlsOfCurrent
<1>6. OwnerInv'
  <2>1. numActiveTimers' \in [Proc -> Int]
    BY <1>0 DEF SetTimer, IInv, OwnerInv
  <2> QED BY <2>1 DEF SetTimer, IInv, OwnerInv
<1>7. ModeInv'
  BY <1>0, ModeResumed DEF SetTimer
<1> QED BY <1>5, <1>6, <1>7 DEF IInv

LEMMA CreateThreadStep ==
    ASSUME IInv, NEW t \in Thread, CreateThread(t)
    PROVE  IInv'
<1>0. /\ AppRuns /\ currTcb \in Thread /\ tcb[currTcb].state = "READY"
      /\ CurrPcb \in pcbs \ {IdleProc} /\ victim = NoProc
      /\ tcb[t].state = "FREE" /\ t # currTcb
  BY CallerIsLive DEF CreateThread
<1>1. PICK i \in Slot :
         /\ handles[i].type = "NONE"
         /\ handles' = CreateHandle(handles, i, CurrPcb, "THREAD", t)
         /\ tcb' = [tcb EXCEPT ![t] = NewTcb(CurrPcb, HandleOf(handles', i))]
  BY DEF CreateThread, FirstFree, FreeSlots
<1>2. /\ tcb' \in [Thread -> TCB]
      /\ ListOK(tcbList', tcb')
      /\ HandlesOK(handles', tcb')
      /\ ProcsOK(pcbs, victim, handles', tcb')
  <2>1. /\ tcb \in [Thread -> TCB]
        /\ ListOK(tcbList, tcb) /\ HandlesOK(handles, tcb)
        /\ ProcsOK(pcbs, victim, handles, tcb)
    BY DEF IInv, ThreadInv, OwnerInv
  <2>2. tcbList' = Append(tcbList, t)
    BY DEF CreateThread
  <2> QED BY <1>0, <1>1, <2>1, <2>2, OwnersCreated
<1>3. OwnerInv'
  BY <1>2 DEF CreateThread, IInv, OwnerInv
<1>4. /\ \A s \in Thread \ {t} : tcb'[s] = tcb[s]
      /\ tcb'[t].state = "READY" /\ tcb'[t].wait = "NONE"
  BY <1>1 DEF IInv, ThreadInv, NewTcb
<1>5. ThreadInv'
  <2>0. /\ UNCHANGED <<currTcb, timedEvents, appTlsSlots>>
        /\ tcbReady' = Pushed(tcbReady, t)
        /\ QueueOK(tcbReady, tcb)
        /\ timedEvents \in EventTable /\ EventsLive(timedEvents, tcb)
        /\ appTlsSlots = tcb[currTcb].tls
        /\ WaitersEmpty(tcb)
        /\ ThreadInv
    BY DEF IInv, ThreadInv, TlsOfCurrent, CreateThread
  <2>1. ~InQueue(tcbReady, t)
    BY <1>0, <2>0, QueueMembers
  <2>2. QueueOK(tcbReady', tcb')
    BY <1>0, <1>4, <2>0, <2>1, QueuePushed
  <2>3. WaitersEmpty(tcb')
    BY <1>4, <2>0 DEF WaitersEmpty
  <2>4. EventsLive(timedEvents', tcb')
    BY <1>4, <2>0, EventsStayLive, NoEventAssumption
  <2> QED BY <1>0, <1>2, <1>4, <2>0, <2>2, <2>3, <2>4, ThreadsStay
<1>6. ModeInv'
  BY <1>0, ModeResumed DEF CreateThread
<1> QED BY <1>3, <1>5, <1>6 DEF IInv

\* CloseObject, CreateMutex and OpenFile change one slot that is no thread's.
LEMMA ObjectSlotStep ==
    ASSUME IInv, AppRuns, NEW i \in Slot, handles' \in HandleTable,
           \A j \in Slot \ {i} : handles'[j] = handles[j],
           handles[i].type # "THREAD", handles'[i].type # "THREAD",
           handles'[i].owner \in {CurrPcb, NoProc},
           UNCHANGED <<currTcb, tcb, tcbReady, tcbList, timedEvents, pcbs,
                       numActiveTimers, appTlsSlots, victim>>,
           Resume
    PROVE  IInv'
<1>0. CurrPcb \in pcbs /\ victim = NoProc
  BY CallerIsLive
<1>1. ThreadInv'
  BY ThreadsUnchanged DEF IInv
<1>2. OwnerInv'
  BY <1>0, OwnersOtherSlot DEF IInv, OwnerInv
<1>3. ModeInv'
  BY <1>0, ModeResumed
<1> QED BY <1>1, <1>2, <1>3 DEF IInv

LEMMA CreatedSlot ==
    ASSUME NEW table \in HandleTable, NEW i \in Slot, NEW p \in Proc,
           NEW type \in HandleType
    PROVE  /\ CreateHandle(table, i, p, type, NoThread) \in HandleTable
           /\ CreateHandle(table, i, p, type, NoThread)[i].type = type
           /\ CreateHandle(table, i, p, type, NoThread)[i].owner = p
           /\ \A j \in Slot \ {i} :
                 CreateHandle(table, i, p, type, NoThread)[j] = table[j]
<1>1. CreateHandle(table, i, p, type, NoThread) \in HandleTable
  BY CreateHandleType
<1> QED BY <1>1 DEF CreateHandle, HandleTable

LEMMA ClearedSlot ==
    ASSUME NEW table \in HandleTable, NEW i \in Slot
    PROVE  /\ ResetSlot(table, i) \in HandleTable
           /\ ResetSlot(table, i)[i].type = "NONE"
           /\ ResetSlot(table, i)[i].owner = NoProc
           /\ \A j \in Slot \ {i} : ResetSlot(table, i)[j] = table[j]
<1>1. ResetSlot(table, i) \in HandleTable
  BY ResetSlotType
<1> QED BY <1>1 DEF ResetSlot, FreeEntry, HandleTable

LEMMA CreateMutexStep ==
    ASSUME IInv, CreateMutex
    PROVE  IInv'
<1>0. AppRuns /\ CurrPcb \in Proc /\ handles \in HandleTable /\ "MUTEX" \in HandleType
  BY CallerIsLive DEF CreateMutex, IInv, OwnerInv, HandlesOK, ProcsOK, HandleType
<1>1. PICK i \in Slot :
         /\ handles[i].type = "NONE"
         /\ handles' = CreateHandle(handles, i, CurrPcb, "MUTEX", NoThread)
  BY DEF CreateMutex, FirstFree, FreeSlots
<1>2. /\ handles' \in HandleTable
      /\ handles'[i].type = "MUTEX" /\ handles'[i].owner = CurrPcb
      /\ \A j \in Slot \ {i} : handles'[j] = handles[j]
  BY <1>0, <1>1, CreatedSlot
<1> QED BY <1>0, <1>1, <1>2, ObjectSlotStep DEF CreateMutex

LEMMA OpenFileStep ==
    ASSUME IInv, NEW opens \in BOOLEAN, OpenFile(opens)
    PROVE  IInv'
<1>0. AppRuns /\ CurrPcb \in Proc /\ handles \in HandleTable
  BY CallerIsLive DEF OpenFile, IInv, OwnerInv, HandlesOK, ProcsOK
<1>1. PICK i \in Slot :
         /\ handles[i].type = "NONE"
         /\ LET created == CreateHandle(handles, i, CurrPcb, "FILE", NoThread)
            IN handles' = IF opens THEN created ELSE ResetSlot(created, i)
  BY DEF OpenFile, FirstFree, FreeSlots
<1> DEFINE created == CreateHandle(handles, i, CurrPcb, "FILE", NoThread)
<1>2. /\ created \in HandleTable
      /\ created[i].type = "FILE" /\ created[i].owner = CurrPcb
      /\ \A j \in Slot \ {i} : created[j] = handles[j]
  BY <1>0, CreatedSlot DEF HandleType
<1>3. handles' = IF opens THEN created ELSE ResetSlot(created, i)
  BY <1>1
<1> HIDE DEF created
<1>4. /\ handles' \in HandleTable
      /\ handles'[i].type # "THREAD"
      /\ handles'[i].owner \in {CurrPcb, NoProc}
      /\ \A j \in Slot \ {i} : handles'[j] = handles[j]
  BY <1>2, <1>3, ClearedSlot
<1> QED BY <1>0, <1>1, <1>4, ObjectSlotStep DEF OpenFile

LEMMA CloseObjectStep ==
    ASSUME IInv, NEW h \in HANDLE, CloseObject(h)
    PROVE  IInv'
<1>0. AppRuns /\ h[1] \in Slot /\ handles[h[1]].type # "THREAD" /\ handles \in HandleTable
  BY DEF CloseObject, Destroyable, InUse, IInv, OwnerInv, HandlesOK
<1>1. handles' = ResetSlot(handles, h[1])
  BY DEF CloseObject
<1>2. /\ handles' \in HandleTable
      /\ handles'[h[1]].type = "NONE"
      /\ handles'[h[1]].owner = NoProc
      /\ \A j \in Slot \ {h[1]} : handles'[j] = handles[j]
  BY <1>0, <1>1, ClearedSlot
<1> QED BY <1>0, <1>2, ObjectSlotStep DEF CloseObject

\* prc_destroyTCBImpl, on the threads.
LEMMA ThreadsDestroyed ==
    ASSUME ThreadInv, NEW t \in Thread \ {Idle}, DestroyTCB(t)
    PROVE  ThreadInv'
<1>0. /\ tcb \in [Thread -> TCB] /\ QueueOK(tcbReady, tcb) /\ WaitersEmpty(tcb)
      /\ timedEvents \in EventTable /\ EventsLive(timedEvents, tcb)
      /\ appTlsSlots = tcb[currTcb].tls
      /\ currTcb \in Thread
  BY DEF ThreadInv, TlsOfCurrent
<1>1. /\ tcb' \in [Thread -> TCB]
      /\ tcb'[t].state = "FREE" /\ tcb'[t].wait = "NONE"
      /\ \A s \in Thread \ {t} : tcb'[s] = tcb[s]
  BY <1>0, FreeTcbType DEF DestroyTCB
<1>2. WaitersEmpty(tcb')
  BY <1>0, <1>1 DEF WaitersEmpty
<1>3. timedEvents' \in EventTable /\ EventsLive(timedEvents', tcb')
  <2>1. timedEvents' = EventsWithout(timedEvents, t)
    BY DEF DestroyTCB
  <2>2. \A i \in Pending(timedEvents) : timedEvents[i].tcb \in Thread
    BY <1>0, NoEventAssumption DEF EventTable, Pending, TimedEvent
  <2>3. /\ timedEvents' \in EventTable
        /\ \A i \in Pending(timedEvents') :
              /\ i \in Pending(timedEvents)
              /\ timedEvents'[i] = timedEvents[i]
              /\ timedEvents[i].tcb # t
    BY <1>0, <2>1, EventsWithoutProperties
  <2> QED BY <1>0, <1>1, <2>2, <2>3 DEF EventsLive
<1>4. CASE currTcb = t
  BY <1>1, <1>2, <1>3, <1>4, ThreadsPicked DEF DestroyTCB
<1>5. CASE currTcb # t
  <2>1. QueueOK(Dequeued(tcbReady, t), tcb')
    BY <1>0, <1>1, QueueLeft
  <2>2. tcbReady' = Dequeued(tcbReady, t) /\ UNCHANGED <<currTcb, appTlsSlots>>
    BY <1>5 DEF DestroyTCB
  <2>3. tcb'[currTcb] = tcb[currTcb]
    BY <1>0, <1>1, <1>5
  <2> QED BY <1>0, <1>1, <1>2, <1>3, <2>1, <2>2, <2>3, ThreadsStay
<1> QED BY <1>4, <1>5

LEMMA CloseThreadStep ==
    ASSUME IInv, NEW h \in HANDLE, CloseThread(h)
    PROVE  IInv'
<1> DEFINE i == h[1]
           t == handles[i].data
<1>0. CurrPcb \in pcbs \ {IdleProc} /\ victim = NoProc
  BY CallerIsLive DEF CloseThread
<1>1. /\ i \in Slot /\ handles[i].type = "THREAD" /\ handles[i].owner = CurrPcb
      /\ t # Main[CurrPcb]
      /\ handles' = ResetSlot(handles, i)
      /\ DestroyTCB(t)
      /\ UNCHANGED <<pcbs, victim>>
  BY DEF CloseThread, Destroyable, InUse
<1>2. /\ ThreadInv
      /\ tcb \in [Thread -> TCB] /\ ListOK(tcbList, tcb)
      /\ HandlesOK(handles, tcb) /\ ProcsOK(pcbs, victim, handles, tcb)
  BY DEF IInv, ThreadInv, OwnerInv
<1>3. \A r \in pcbs' : t # Main[r]
  BY <1>0, <1>1, <1>2 DEF HandlesOK, ProcsOK
<1> HIDE DEF t, i
<1>4. tcb' = [tcb EXCEPT ![t] = FreeTcb] /\ tcbList' = Dequeued(tcbList, t)
  BY <1>1 DEF DestroyTCB
<1>5. /\ t \in Thread \ {Idle}
      /\ ListOK(tcbList', tcb')
      /\ HandlesOK(handles', tcb')
      /\ ProcsOK(pcbs', victim', handles', tcb')
  BY <1>0, <1>1, <1>2, <1>3, <1>4, OwnersDestroyed DEF t
<1>6. ThreadInv'
  BY <1>1, <1>2, <1>5, ThreadsDestroyed
<1>7. OwnerInv'
  BY <1>5 DEF IInv, OwnerInv, CloseThread
<1>8. ModeInv'
  BY <1>0, ModeResumed DEF CloseThread
<1> QED BY <1>6, <1>7, <1>8 DEF IInv

LEMMA CloseProcessStep ==
    ASSUME IInv, NEW h \in HANDLE, CloseProcess(h)
    PROVE  IInv'
<1> DEFINE i == h[1]
           t == handles[i].data
<1>0. CurrPcb \in pcbs \ {IdleProc} /\ victim = NoProc /\ cursor = 1
  BY CallerIsLive DEF CloseProcess
<1>1. /\ i \in Slot /\ handles[i].type = "THREAD" /\ handles[i].owner = CurrPcb
      /\ t = Main[CurrPcb]
      /\ handles' = ResetSlot(handles, i)
      /\ DestroyTCB(t)
      /\ pcbs' = pcbs \ {CurrPcb} /\ victim' = CurrPcb
  BY DEF CloseProcess, Destroyable, InUse
<1>2. /\ ThreadInv
      /\ tcb \in [Thread -> TCB] /\ ListOK(tcbList, tcb)
      /\ HandlesOK(handles, tcb) /\ ProcsOK(pcbs, victim, handles, tcb)
  BY DEF IInv, ThreadInv, OwnerInv
<1>3. \A r \in pcbs' : t # Main[r]
  BY <1>0, <1>1, <1>2, KernelAssumption DEF ProcsOK
<1> HIDE DEF t, i
<1>4. tcb' = [tcb EXCEPT ![t] = FreeTcb] /\ tcbList' = Dequeued(tcbList, t)
  BY <1>1 DEF DestroyTCB
<1>5. /\ t \in Thread \ {Idle}
      /\ ListOK(tcbList', tcb')
      /\ HandlesOK(handles', tcb')
      /\ ProcsOK(pcbs', victim', handles', tcb')
  BY <1>0, <1>1, <1>2, <1>3, <1>4, OwnersDestroyed DEF t
<1>6. ThreadInv'
  BY <1>1, <1>2, <1>5, ThreadsDestroyed
<1>7. OwnerInv'
  BY <1>5 DEF IInv, OwnerInv, CloseProcess
<1>8. ModeInv'
  BY <1>0, <1>2 DEF ModeInv, CloseProcess, ProcsOK, Slot
<1> QED BY <1>6, <1>7, <1>8 DEF IInv

-----------------------------------------------------------------------------
\* Interrupts and the kernel's loops.

\* A step inside the timed-event loop or the keyboard loop, or the entry to one.
LEMMA ModeLoops ==
    ASSUME ModeInv, SameThreads(tcb, tcb'), currTcb \in Thread,
           kpc # "teardown", kpc' \in {"events", "keys"}, cursor' \in Nat \ {0},
           UNCHANGED <<currTcb, crpt, victim>>
    PROVE  ModeInv'
BY DEF ModeInv, SameThreads, CurrPcb

LEMMA TimerIRQStep ==
    ASSUME IInv, TimerIRQ
    PROVE  IInv'
<1>1. ThreadInv'
  <2>1. /\ timedEvents \in EventTable /\ timedEvents' = Aged(timedEvents)
        /\ EventsLive(timedEvents, tcb)
        /\ UNCHANGED <<currTcb, tcb, tcbReady, appTlsSlots>>
    BY DEF IInv, ThreadInv, TimerIRQ
  <2>2. timedEvents' \in EventTable /\ EventsLive(timedEvents', tcb)
    BY <2>1, AgedProperties DEF EventsLive
  <2> QED BY <2>1, <2>2 DEF IInv, ThreadInv, CurrentCanRun, TlsOfCurrent
<1>2. OwnerInv'
  BY DEF IInv, OwnerInv, TimerIRQ
<1>3. ModeInv'
  BY ModeLoops DEF IInv, ThreadInv, ModeInv, TimerIRQ, SameThreads
<1> QED BY <1>1, <1>2, <1>3 DEF IInv

\* What the timed-event loop knows of the event it pops.
LEMMA PoppedEvent ==
    ASSUME IInv, NEW i \in Due(timedEvents)
    PROVE  /\ timedEvents[i] \in TimedEvent
           /\ timedEvents[i].tcb \in Thread
           /\ tcb[timedEvents[i].tcb].state # "FREE"
           /\ [timedEvents EXCEPT ![i] = NoEvent] \in EventTable
           /\ EventsLive([timedEvents EXCEPT ![i] = NoEvent], tcb)
<1>1. /\ timedEvents \in EventTable /\ EventsLive(timedEvents, tcb)
      /\ i \in EventCell /\ i \in Pending(timedEvents)
  BY DEF IInv, ThreadInv, Due, Pending
<1>2. timedEvents[i] \in TimedEvent /\ timedEvents[i].tcb \in Thread
  BY <1>1 DEF EventTable, Pending, TimedEvent
<1> QED BY <1>1, <1>2 DEF EventsLive, EventTable, Pending

LEMMA WakeupThreadStep ==
    ASSUME IInv, NEW i \in EventCell, WakeupThread(i)
    PROVE  IInv'
<1> DEFINE t == timedEvents[i].tcb
<1>1. /\ t \in Thread /\ tcb[t].state # "FREE"
      /\ timedEvents' \in EventTable /\ EventsLive(timedEvents', tcb)
  BY PoppedEvent DEF WakeupThread
<1>2. /\ tcb' = Woken(tcb, t) /\ tcbReady' = Enqueued(tcbReady, t)
      /\ UNCHANGED <<currTcb, appTlsSlots>>
      /\ ThreadInv
  BY DEF WakeupThread, IInv
<1> HIDE DEF t
<1>3. ThreadInv' /\ SameThreads(tcb, tcb')
  BY <1>1, <1>2, ThreadWoken
<1>4. OwnerInv'
  BY <1>3, OwnersStay DEF IInv, OwnerInv, WakeupThread
<1>5. ModeInv'
  BY <1>3, ModeLoops DEF IInv, ThreadInv, ModeInv, WakeupThread
<1> QED BY <1>3, <1>4, <1>5 DEF IInv

LEMMA ThreadTimerStep ==
    ASSUME IInv, NEW i \in EventCell, ThreadTimer(i)
    PROVE  IInv'
<1> DEFINE e == timedEvents[i]
           t == e.tcb
           popped == [timedEvents EXCEPT ![i] = NoEvent]
<1>1. /\ e \in TimedEvent /\ t \in Thread /\ tcb[t].state # "FREE"
      /\ popped \in EventTable /\ EventsLive(popped, tcb)
  BY PoppedEvent DEF ThreadTimer
<1>2. /\ tcb' = Posted(tcb, t) /\ tcbReady' = PostedReady(tcb, tcbReady, t)
      /\ timedEvents' = IF e.repeat THEN AddEvent(popped, TimerEvent(t, e.ms, TRUE))
                        ELSE popped
      /\ UNCHANGED <<currTcb, appTlsSlots>>
      /\ ThreadInv
  BY DEF ThreadTimer, IInv
<1>3. e.ms \in Nat
  BY <1>1 DEF TimedEvent
<1> HIDE DEF e, t, popped
<1>4. timedEvents' \in EventTable /\ EventsLive(timedEvents', tcb)
  <2> DEFINE again == TimerEvent(t, e.ms, TRUE)
  <2>1. again \in TimedEvent /\ again.tcb = t
    BY <1>1, <1>3, TimerEventType
  <2> HIDE DEF again
  <2>2. /\ AddEvent(popped, again) \in EventTable
        /\ \A j \in Pending(AddEvent(popped, again)) :
              \/ AddEvent(popped, again)[j] = again
              \/ j \in Pending(popped) /\ AddEvent(popped, again)[j] = popped[j]
    BY <1>1, <2>1, AddEventProperties
  <2>3. EventsLive(AddEvent(popped, again), tcb)
    BY <1>1, <2>1, <2>2 DEF EventsLive
  <2> QED BY <1>1, <1>2, <2>2, <2>3 DEF again
<1>5. ThreadInv' /\ SameThreads(tcb, tcb')
  BY <1>1, <1>2, <1>4, MessagePosted
<1>6. OwnerInv'
  <2>1. numActiveTimers \in [Proc -> Int] /\ tcb[t].pcb \in Proc
    BY <1>1 DEF IInv, OwnerInv, ThreadInv, TCB
  <2>2. \/ numActiveTimers' = numActiveTimers
        \/ numActiveTimers' = [numActiveTimers EXCEPT ![tcb[t].pcb] = @ - 1]
    BY DEF ThreadTimer, t, e
  <2>3. numActiveTimers' \in [Proc -> Int]
    BY <2>1, <2>2
  <2> QED BY <1>5, <2>3, OwnersStay DEF IInv, ThreadTimer
<1>7. ModeInv'
  BY <1>5, ModeLoops DEF IInv, ThreadInv, ModeInv, ThreadTimer
<1> QED BY <1>5, <1>6, <1>7 DEF IInv

LEMMA ScheduleStep ==
    ASSUME IInv, Schedule
    PROVE  IInv'
<1>1. /\ tcb' \in [Thread -> TCB] /\ QueueOK(tcbReady, tcb')
      /\ PickNext(tcbReady) /\ ThreadInv
      /\ UNCHANGED <<tcb, timedEvents>>
  BY DEF IInv, ThreadInv, Schedule
<1>2. ThreadInv'
  BY <1>1, Picked DEF ThreadInv
<1>3. OwnerInv'
  BY DEF IInv, OwnerInv, Schedule
<1>4. ModeInv'
  BY ModeResumed DEF IInv, ModeInv, Schedule
<1> QED BY <1>2, <1>3, <1>4 DEF IInv

LEMMA KeyboardIRQStep ==
    ASSUME IInv, KeyboardIRQ
    PROVE  IInv'
<1>1. ThreadInv'
  BY ThreadsUnchanged DEF IInv, KeyboardIRQ
<1>2. OwnerInv'
  BY DEF IInv, OwnerInv, KeyboardIRQ
<1>3. ModeInv'
  BY ModeLoops DEF IInv, ThreadInv, KeyboardIRQ, SameThreads
<1> QED BY <1>1, <1>2, <1>3 DEF IInv

LEMMA PostKeyStep ==
    ASSUME IInv, PostKey
    PROVE  IInv'
<1>0. /\ ThreadInv /\ currTcb \in Thread
      /\ timedEvents' \in EventTable /\ EventsLive(timedEvents', tcb)
      /\ UNCHANGED <<currTcb, timedEvents, appTlsSlots>>
  BY DEF IInv, ThreadInv, PostKey
<1>1. ThreadInv' /\ SameThreads(tcb, tcb')
  <2>1. CASE Apps[cursor] \in pcbs \cap WantsKeys
    <3> DEFINE t == Main[Apps[cursor]]
    <3>1. t \in Thread
      BY <2>1, KernelAssumption DEF IInv, OwnerInv, ProcsOK
    <3>2. tcb' = Posted(tcb, t) /\ tcbReady' = PostedReady(tcb, tcbReady, t)
      BY <2>1 DEF PostKey
    <3> HIDE DEF t
    <3> QED BY <1>0, <3>1, <3>2, MessagePosted
  <2>2. CASE Apps[cursor] \notin pcbs \cap WantsKeys
    <3>1. UNCHANGED <<tcb, tcbReady>>
      BY <2>2 DEF PostKey
    <3> QED BY <1>0, <3>1, ThreadsUnchanged DEF SameThreads
  <2> QED BY <2>1, <2>2
<1>2. OwnerInv'
  BY <1>1, OwnersStay DEF IInv, OwnerInv, PostKey
<1>3. ModeInv'
  BY <1>0, <1>1, ModeLoops DEF IInv, ModeInv, PostKey
<1> QED BY <1>1, <1>2, <1>3 DEF IInv

LEMMA KeysPostedStep ==
    ASSUME IInv, KeysPosted
    PROVE  IInv'
<1>1. ThreadInv'
  BY ThreadsUnchanged DEF IInv, KeysPosted
<1>2. OwnerInv'
  BY DEF IInv, OwnerInv, KeysPosted
<1>3. ModeInv'
  BY ModeResumed DEF IInv, ModeInv, KeysPosted
<1> QED BY <1>1, <1>2, <1>3 DEF IInv

LEMMA DestroyHandleStep ==
    ASSUME IInv, DestroyHandle
    PROVE  IInv'
<1>0. /\ ThreadInv
      /\ tcb \in [Thread -> TCB] /\ ListOK(tcbList, tcb)
      /\ HandlesOK(handles, tcb) /\ ProcsOK(pcbs, victim, handles, tcb)
      /\ handles \in HandleTable
      /\ victim \in Proc \ pcbs /\ victim # IdleProc
      /\ cursor \in Slot
      /\ kpc = "teardown" /\ cursor' = cursor + 1
      /\ UNCHANGED <<pcbs, victim, numActiveTimers, kpc, crpt>>
  BY HandlesAssumption
     DEF IInv, ThreadInv, OwnerInv, ModeInv, HandlesOK, ProcsOK, DestroyHandle, Slot
<1>1. CASE handles[cursor].owner # victim
  <2>1. UNCHANGED <<currTcb, tcb, tcbReady, tcbList, timedEvents, handles, appTlsSlots>>
    BY <1>1 DEF DestroyHandle
  <2>2. ThreadInv'
    BY <1>0, <2>1, ThreadsUnchanged
  <2>3. OwnerInv'
    BY <1>0, <2>1 DEF IInv, OwnerInv
  <2>4. ModeInv'
    BY <1>0, <1>1, <2>1 DEF IInv, ModeInv, Slot
  <2> QED BY <2>2, <2>3, <2>4 DEF IInv
<1>2. CASE handles[cursor].owner = victim
  <2>1. handles' = ResetSlot(handles, cursor)
    BY <1>2 DEF DestroyHandle
  <2>2. /\ handles' \in HandleTable
        /\ handles'[cursor].type = "NONE" /\ handles'[cursor].owner = NoProc
        /\ \A j \in Slot \ {cursor} : handles'[j] = handles[j]
    BY <1>0, <2>1, ClearedSlot
  <2>3. ModeInv'
    BY <1>0, <2>2, HandlesAssumption DEF IInv, ModeInv, Slot
  <2>4. CASE handles[cursor].type # "THREAD"
    <3>1. UNCHANGED <<currTcb, tcb, tcbReady, tcbList, timedEvents, appTlsSlots>>
      BY <1>2, <2>4 DEF DestroyHandle
    <3>2. ThreadInv'
      BY <1>0, <3>1, ThreadsUnchanged
    <3>3. HandlesOK(handles', tcb) /\ ProcsOK(pcbs, victim, handles', tcb)
      BY <1>0, <2>2, <2>4, OwnersOtherSlot
    <3>4. OwnerInv'
      BY <1>0, <3>1, <3>3 DEF IInv, OwnerInv
    <3> QED BY <2>3, <3>2, <3>4 DEF IInv
  <2>5. CASE handles[cursor].type = "THREAD"
    <3> DEFINE t == handles[cursor].data
    <3>1. DestroyTCB(t)
      BY <1>2, <2>5 DEF DestroyHandle
    <3>2. tcb' = [tcb EXCEPT ![t] = FreeTcb] /\ tcbList' = Dequeued(tcbList, t)
      BY <3>1 DEF DestroyTCB
    <3>3. \A r \in pcbs' : t # Main[r]
      BY <1>0, <1>2, <2>5 DEF HandlesOK, ProcsOK
    <3> HIDE DEF t
    <3>4. /\ t \in Thread \ {Idle}
          /\ ListOK(tcbList', tcb')
          /\ HandlesOK(handles', tcb')
          /\ ProcsOK(pcbs', victim', handles', tcb')
      BY <1>0, <1>2, <2>1, <2>5, <3>2, <3>3, OwnersDestroyed DEF t
    <3>5. ThreadInv'
      BY <1>0, <3>1, <3>4, ThreadsDestroyed
    <3>6. OwnerInv'
      BY <1>0, <3>4 DEF IInv, OwnerInv
    <3> QED BY <2>3, <3>5, <3>6 DEF IInv
  <2> QED BY <2>4, <2>5
<1> QED BY <1>1, <1>2

LEMMA ProcessDestroyedStep ==
    ASSUME IInv, ProcessDestroyed
    PROVE  IInv'
<1>0. /\ ThreadInv
      /\ HandlesOK(handles, tcb) /\ ProcsOK(pcbs, victim, handles, tcb)
      /\ victim \in Proc
      /\ \A i \in Slot : handles[i].owner # victim
      /\ UNCHANGED <<currTcb, tcb, tcbReady, tcbList, timedEvents, handles, pcbs,
                     numActiveTimers, appTlsSlots>>
      /\ victim' = NoProc
  BY HandlesAssumption DEF IInv, OwnerInv, ModeInv, ProcessDestroyed, Slot
<1>1. ThreadInv'
  BY <1>0, ThreadsUnchanged
<1>2. \A t \in Thread : tcb[t].state # "FREE" => tcb[t].pcb # victim
  BY <1>0 DEF HandlesOK
<1>3. ProcsOK(pcbs, NoProc, handles, tcb)
  BY <1>0, <1>2 DEF ProcsOK
<1>4. OwnerInv'
  BY <1>0, <1>3 DEF IInv, OwnerInv
<1>5. ModeInv'
  BY <1>0, ModeResumed DEF ProcessDestroyed
<1> QED BY <1>1, <1>4, <1>5 DEF IInv

-----------------------------------------------------------------------------
(***************************************************************************)
(* The theorems                                                            *)
(***************************************************************************)

\* After krn_init every process has its main thread, in its slot, and all but
\* the idle thread are ready.
LEMMA InitIInv == Init => IInv
<1> SUFFICES ASSUME Init PROVE IInv
  OBVIOUS
<1> DEFINE n == Len(Booted)
<1>0. /\ Apps \in Seq(Proc \ {IdleProc}) /\ Len(Apps) \in Nat
      /\ Apps \in [1 .. Len(Apps) -> Proc \ {IdleProc}]
      /\ \A i, j \in 1 .. Len(Apps) : Apps[i] = Apps[j] => i = j
      /\ \A p \in Proc \ {IdleProc} : \E i \in 1 .. Len(Apps) : Apps[i] = p
      /\ Main \in [Proc -> Thread] /\ Main[IdleProc] = Idle /\ IdleProc \in Proc
      /\ \A p, q \in Proc : Main[p] = Main[q] => p = q
  BY KernelAssumption, LenProperties DEF UserProc
<1>1. /\ Booted \in Seq(Proc) /\ n = Len(Apps) + 1
      /\ Booted[1] = IdleProc
      /\ \A i \in 1 .. Len(Apps) : Booted[i + 1] = Apps[i]
  BY <1>0, KernelAssumption DEF Booted
<1>2. /\ n \in Nat \ {0} /\ n <= NumSlots /\ DOMAIN Booted = 1 .. n
      /\ NumSlots \in Nat
  BY <1>0, <1>1, KernelAssumption, HandlesAssumption, LenProperties
<1> HIDE DEF n
<1>3. \A i \in 1 .. n : i = 1 \/ \E j \in 1 .. Len(Apps) : i = j + 1 /\ Booted[i] = Apps[j]
  <2> SUFFICES ASSUME NEW i \in 1 .. n, i # 1
               PROVE  \E j \in 1 .. Len(Apps) : i = j + 1 /\ Booted[i] = Apps[j]
    OBVIOUS
  <2>1. i - 1 \in 1 .. Len(Apps) /\ i = (i - 1) + 1
    BY <1>0, <1>1, <1>2
  <2> QED BY <1>1, <2>1
<1> DEFINE M(i) == Main[Booted[i]]
<1>4. /\ \A i \in 1 .. n : /\ Booted[i] \in Proc
                           /\ Booted[i] = IdleProc <=> i = 1
                           /\ M(i) \in Thread
                           /\ M(i) = Idle <=> i = 1
      /\ \A i, j \in 1 .. n : M(i) = M(j) => i = j
      /\ \A p \in Proc : \E i \in 1 .. n : Booted[i] = p
  <2>1. \A i \in 1 .. n : Booted[i] \in Proc /\ (Booted[i] = IdleProc <=> i = 1)
    <3> SUFFICES ASSUME NEW i \in 1 .. n
                 PROVE  Booted[i] \in Proc /\ (Booted[i] = IdleProc <=> i = 1)
      OBVIOUS
    <3>1. CASE i = 1
      BY <1>0, <1>1, <3>1
    <3>2. CASE i # 1
      <4>1. PICK j \in 1 .. Len(Apps) : Booted[i] = Apps[j]
        BY <1>3, <3>2
      <4>2. Apps[j] \in Proc \ {IdleProc}
        BY <1>0
      <4> QED BY <3>2, <4>1, <4>2
    <3> QED BY <3>1, <3>2
  <2>2. ASSUME NEW i \in 1 .. n, NEW j \in 1 .. n, Booted[i] = Booted[j]
        PROVE  i = j
    <3>1. CASE i = 1 \/ j = 1
      BY <2>1, <2>2, <3>1
    <3>2. CASE i # 1 /\ j # 1
      <4>1. PICK k \in 1 .. Len(Apps) : i = k + 1 /\ Booted[i] = Apps[k]
        BY <1>3, <3>2
      <4>2. PICK l \in 1 .. Len(Apps) : j = l + 1 /\ Booted[j] = Apps[l]
        BY <1>3, <3>2
      <4>3. k = l
        BY <1>0, <2>2, <4>1, <4>2
      <4> QED BY <4>1, <4>2, <4>3
    <3> QED BY <3>1, <3>2
  <2>3. ASSUME NEW p \in Proc PROVE \E i \in 1 .. n : Booted[i] = p
    <3>1. CASE p = IdleProc
      BY <1>1, <1>2, <3>1
    <3>2. CASE p # IdleProc
      <4>1. PICK i \in 1 .. Len(Apps) : Apps[i] = p
        BY <1>0, <3>2
      <4>2. i + 1 \in 1 .. n /\ Booted[i + 1] = p
        BY <1>0, <1>1, <4>1
      <4> QED BY <4>2
    <3> QED BY <3>1, <3>2
  <2> QED BY <1>0, <2>1, <2>2, <2>3, KernelAssumption
<1>5. \A i \in 1 .. n : /\ <<i, 1>> \in HANDLE
                        /\ i \in Slot
  BY <1>2, HandlesAssumption DEF HANDLE, Counter, Slot
<1>6. ASSUME NEW i \in 1 .. n
      PROVE  /\ tcb[M(i)] \in TCB
             /\ tcb[M(i)].state = IF i = 1 THEN "KERNEL" ELSE "READY"
             /\ tcb[M(i)].pcb = Booted[i] /\ tcb[M(i)].handle = <<i, 1>>
             /\ tcb[M(i)].wait = "NONE" /\ tcb[M(i)].tls = NoThread
  <2> DEFINE new == NewTcb(Booted[i], <<i, 1>>)
  <2>1. i = CHOOSE j \in DOMAIN Booted : Main[Booted[j]] = M(i)
    BY <1>2, <1>4
  <2>2. tcb[M(i)] = IF M(i) = Idle THEN [new EXCEPT !.state = "KERNEL"] ELSE new
    BY <1>2, <1>4, <2>1 DEF Init
  <2>3. new \in TCB
    BY <1>4, <1>5, NewTcbType
  <2>4. [new EXCEPT !.state = "KERNEL"] \in TCB
    BY <2>3 DEF TCB, TcbState
  <2>5. /\ new.state = "READY" /\ new.pcb = Booted[i] /\ new.handle = <<i, 1>>
        /\ new.wait = "NONE" /\ new.tls = NoThread
    BY DEF NewTcb
  <2>6. LET k == [new EXCEPT !.state = "KERNEL"]
        IN /\ k.state = "KERNEL" /\ k.pcb = Booted[i] /\ k.handle = <<i, 1>>
           /\ k.wait = "NONE" /\ k.tls = NoThread
    BY DEF NewTcb
  <2> HIDE DEF new
  <2> QED BY <1>4, <2>2, <2>3, <2>4, <2>5, <2>6
<1>7. ASSUME NEW t \in Thread, \A i \in 1 .. n : M(i) # t
      PROVE  tcb[t] = FreeTcb
  BY <1>2, <1>7 DEF Init
<1>8. tcb \in [Thread -> TCB]
  <2>1. \A t \in Thread : tcb[t] \in TCB
    BY <1>6, <1>7, FreeTcbType
  <2>2. tcb = [t \in Thread |-> tcb[t]]
    BY DEF Init
  <2> QED BY <2>1, <2>2
<1>9. \A t \in Thread : tcb[t].state # "FREE" => \E i \in 1 .. n : M(i) = t
  BY <1>7, FreeTcbType
<1> HIDE DEF M
<1>10. ThreadInv
  <2>1. /\ currTcb = Idle /\ appTlsSlots = NoThread
        /\ timedEvents = [i \in EventCell |-> NoEvent]
        /\ tcbReady = [i \in 1 .. Len(Apps) |-> Main[Apps[i]]]
        /\ Idle \in Thread
    BY KernelAssumption DEF Init
  <2>2. \A i \in 1 .. Len(Apps) :
           /\ i + 1 \in 1 .. n /\ M(i + 1) = Main[Apps[i]] /\ Main[Apps[i]] \in Thread
    BY <1>0, <1>1, <1>4 DEF M
  <2>3. tcbReady \in Seq(Thread) /\ Len(tcbReady) = Len(Apps)
    BY <1>0, <2>1, <2>2, FunctionIsSeq
  <2>4. NoRepeats(tcbReady)
    BY <1>0, <1>4, <2>1, <2>2, <2>3 DEF NoRepeats
  <2>5. \A i \in 1 .. Len(tcbReady) : tcb[tcbReady[i]].state = "READY"
    BY <1>0, <1>6, <2>1, <2>2, <2>3
  <2>6. ASSUME NEW t \in Thread, tcb[t].state = "READY" PROVE InQueue(tcbReady, t)
    <3>1. PICK i \in 1 .. n : M(i) = t
      BY <1>9, <2>6
    <3>2. i # 1
      BY <1>6, <2>6, <3>1
    <3>3. PICK j \in 1 .. Len(Apps) : i = j + 1 /\ Booted[i] = Apps[j]
      BY <1>3, <3>2
    <3>4. j \in 1 .. Len(tcbReady) /\ tcbReady[j] = t
      BY <2>1, <2>2, <2>3, <3>1, <3>3
    <3> QED BY <3>4 DEF InQueue
  <2>7. QueueOK(tcbReady, tcb)
    BY <2>3, <2>4, <2>5, <2>6 DEF QueueOK
  <2>8. timedEvents \in EventTable /\ EventsLive(timedEvents, tcb)
    BY <2>1 DEF EventTable, EventsLive, Pending
  <2>9. WaitersEmpty(tcb)
    BY <1>6, <1>7, FreeTcbType DEF WaitersEmpty
  <2>10. TlsOfCurrent
    <3>1. 1 \in 1 .. n /\ M(1) = Idle
      BY <1>2, <1>4
    <3> QED BY <1>6, <2>1, <3>1 DEF TlsOfCurrent
  <2> QED BY <1>8, <2>1, <2>7, <2>8, <2>9, <2>10 DEF ThreadInv, CurrentCanRun
<1>11. OwnerInv
  <2>1. /\ tcbList = [i \in 1 .. n |-> M(i)]
        /\ \A i \in Slot : handles[i] = IF i <= n
              THEN [counter |-> 1, owner |-> Booted[i], type |-> "THREAD", data |-> M(i)]
              ELSE FreeEntry(0)
        /\ handles = [i \in Slot |-> handles[i]]
        /\ pcbs = Proc /\ victim = NoProc
        /\ numActiveTimers = [p \in Proc |-> 0]
    BY DEF Init, M, n
  <2>2. ListOK(tcbList, tcb)
    <3>1. tcbList \in Seq(Thread) /\ Len(tcbList) = n
      BY <1>2, <1>4, <2>1, FunctionIsSeq
    <3>2. tcbList # << >> /\ tcbList[1] = Idle
      BY <1>2, <1>4, <2>1, <3>1, EmptySeq
    <3>3. NoRepeats(tcbList)
      BY <1>2, <1>4, <2>1, <3>1 DEF NoRepeats
    <3>4. \A t \in Thread : InQueue(tcbList, t) <=> \E i \in 1 .. n : M(i) = t
      BY <2>1, <3>1 DEF InQueue
    <3>5. \A t \in Thread : InQueue(tcbList, t) <=> tcb[t].state # "FREE"
      BY <1>6, <1>9, <3>4
    <3> QED BY <3>1, <3>2, <3>3, <3>5 DEF ListOK
  <2>3. HandlesOK(handles, tcb)
    <3>1. \A i \in Slot : handles[i] \in HandleEntry
      <4>1. 0 \in Counter /\ 1 \in Counter
        BY HandlesAssumption DEF Counter
      <4>2. \A i \in Slot : i <= n => i \in 1 .. n
        BY <1>2 DEF Slot
      <4> QED BY <1>4, <2>1, <4>1, <4>2 DEF HandleEntry, HandleType, FreeEntry
    <3>2. handles \in HandleTable
      BY <2>1, <3>1 DEF HandleTable
    <3>3. \A i \in Slot : handles[i].type = "THREAD" =>
             /\ i \in 1 .. n /\ handles[i].data = M(i) /\ handles[i].owner = Booted[i]
             /\ HandleOf(handles, i) = <<i, 1>>
      BY <1>2, <2>1 DEF Slot, FreeEntry, HandleOf
    <3>4. ASSUME NEW t \in Thread, tcb[t].state # "FREE"
          PROVE  /\ tcb[t].handle[1] \in Slot
                 /\ handles[tcb[t].handle[1]].type = "THREAD"
                 /\ handles[tcb[t].handle[1]].data = t
      <4>1. PICK i \in 1 .. n : M(i) = t
        BY <1>9, <3>4
      <4>2. i \in Slot
        BY <1>5
      <4>2a. i <= n
        BY <1>2
      <4>3. handles[i].type = "THREAD" /\ handles[i].data = t
        BY <2>1, <4>1, <4>2, <4>2a
      <4>4. tcb[t].handle[1] = i
        BY <1>6, <4>1
      <4> QED BY <4>2, <4>3, <4>4
    <3> QED BY <1>4, <1>6, <3>2, <3>3, <3>4 DEF HandlesOK
  <2>4. ProcsOK(pcbs, victim, handles, tcb)
    <3>1. \A t \in Thread : tcb[t].state # "FREE" =>
             tcb[t].pcb \in Proc /\ (tcb[t].pcb = IdleProc <=> t = Idle)
      BY <1>4, <1>6, <1>9
    <3>2. \A i \in Slot : handles[i].owner \in Proc \cup {NoProc}
      BY <2>3 DEF HandlesOK, HandleTable, HandleEntry
    <3>3. ASSUME NEW p \in Proc
          PROVE  tcb[Main[p]].state # "FREE" /\ tcb[Main[p]].pcb = p
      <4>1. PICK i \in 1 .. n : Booted[i] = p
        BY <1>4
      <4>2. M(i) = Main[p]
        BY <4>1 DEF M
      <4> QED BY <1>6, <4>1, <4>2
    <3> QED BY <2>1, <3>1, <3>2, <3>3, KernelAssumption DEF ProcsOK
  <2> QED BY <2>1, <2>2, <2>3, <2>4 DEF OwnerInv
<1>12. ModeInv
  <2>1. 1 \in 1 .. n /\ M(1) = Idle /\ Booted[1] = IdleProc
    BY <1>1, <1>2, <1>4
  <2>2. /\ kpc = "user" /\ cursor = 1 /\ victim = NoProc
        /\ crpt = IdleProc /\ currTcb = Idle
    BY DEF Init
  <2>3. CurrPcb = IdleProc
    BY <1>6, <2>1, <2>2 DEF CurrPcb
  <2> QED BY <2>2, <2>3 DEF ModeInv
<1> QED BY <1>10, <1>11, <1>12 DEF IInv

\* What no action changes keeps the invariant.
LEMMA StutterIInv ==
    ASSUME IInv, UNCHANGED vars
    PROVE  IInv'
<1>1. ThreadInv'
  BY ThreadsUnchanged DEF IInv, vars
<1>2. OwnerInv'
  BY DEF IInv, OwnerInv, vars
<1>3. ModeInv'
  BY DEF IInv, ModeInv, CurrPcb, vars
<1> QED BY <1>1, <1>2, <1>3 DEF IInv

\* Every system call, interrupt and kernel step keeps the invariant.
LEMMA NextIInv ==
    ASSUME IInv, [Next]_vars
    PROVE  IInv'
<1>1. CASE Syscall
  <2>1. ASSUME NEW ms \in SleepMs, NEW bits \in SleepBits, Sleep(ms, bits)
        PROVE  IInv'
    BY <2>1, SleepStep
  <2>2. ASSUME NEW t \in Thread, CreateThread(t) PROVE IInv'
    BY <2>2, CreateThreadStep
  <2>3. ASSUME NEW h \in HANDLE,
               \/ CloseObject(h) \/ CloseThread(h) \/ CloseProcess(h)
               \/ WaitForMutex(h) \/ MutexUnlocked(h) \/ PostMsg(h)
        PROVE  IInv'
    BY <2>3, CloseObjectStep, CloseThreadStep, CloseProcessStep,
       WaitForMutexStep, MutexUnlockedStep, PostMsgStep
  <2>4. ASSUME NEW opens \in BOOLEAN, OpenFile(opens) PROVE IInv'
    BY <2>4, OpenFileStep
  <2>5. ASSUME NEW ms \in TimerMs, NEW repeat \in BOOLEAN, SetTimer(ms, repeat)
        PROVE  IInv'
    BY <2>5, SetTimerStep
  <2>6. CASE SetTlsPtr \/ CreateMutex \/ GetMsg \/ WaitForMsg
    BY <2>6, SetTlsPtrStep, CreateMutexStep, GetMsgStep, WaitForMsgStep
  <2> QED BY <1>1, <2>1, <2>2, <2>3, <2>4, <2>5, <2>6 DEF Syscall, OtherSyscall
<1>2. CASE Interrupt
  BY <1>2, TimerIRQStep, KeyboardIRQStep DEF Interrupt
<1>3. CASE KernelStep
  BY <1>3, WakeupThreadStep, ThreadTimerStep, ScheduleStep, PostKeyStep,
     KeysPostedStep, DestroyHandleStep, ProcessDestroyedStep DEF KernelStep
<1>4. CASE UNCHANGED vars
  BY <1>4, StutterIInv
<1> QED BY <1>1, <1>2, <1>3, <1>4 DEF Next

\* The inductive invariant: what the kernel's threads, queues, lists, handles
\* and processes owe each other, at every entry and exit and inside its loops.
THEOREM InductiveInvariant == Spec => []IInv
<1> QED BY InitIInv, NextIInv, PTL DEF Spec

-----------------------------------------------------------------------------
\* Types: no system call or interrupt writes a value outside the ranges of the
\* TCB, HANDLE and queue structures, and a thread's message count never falls
\* below zero or exceeds its queue.
THEOREM TypeCorrect == Spec => []TypeOK
<1>1. IInv => TypeOK
  BY DEF IInv, ThreadInv, OwnerInv, ModeInv, QueueOK, ListOK, HandlesOK,
         ProcsOK, EventTable, TypeOK, CurrPcb, TCB
<1> QED BY <1>1, InductiveInvariant, PTL

\* tcb_enqueue and krn_pickNextTcb: the ready queue holds READY threads, each
\* once, and all of them as long as it can grow.
THEOREM ReadyQueueIsExact == Spec => []ReadyQueueExact
<1>1. IInv => ReadyQueueExact
  BY DEF IInv, ThreadInv, QueueOK, ReadyQueueExact
<1> QED BY <1>1, InductiveInvariant, PTL

\* krn_irqHandler resumes a thread that can run, even when the handler has
\* blocked or destroyed the thread that entered the kernel.
THEOREM ResumedThreadCanRun == Spec => []CurrentCanRun
<1>1. IInv => CurrentCanRun
  BY DEF IInv, ThreadInv
<1> QED BY <1>1, InductiveInvariant, PTL

\* setCurrTCBTlsSlots: the global TLS pointer is that of the current thread.
THEOREM TlsFollowsThread == Spec => []TlsOfCurrent
<1>1. IInv => TlsOfCurrent
  BY DEF IInv, ThreadInv
<1> QED BY <1>1, InductiveInvariant, PTL

\* prc_postThreadMsg and syscall_getMsg: no thread waits for a message that it
\* already has.
THEOREM MessagesWakeWaiters == Spec => []NoMissedMessage
<1>1. IInv => NoMissedMessage
  BY DEF IInv, ThreadInv, WaitersEmpty, NoMissedMessage
<1> QED BY <1>1, InductiveInvariant, PTL

\* timedEvent_removeThreads: no timed event outlives its thread.
THEOREM EventsDieWithThreads == Spec => []EventsOfLiveThreads
<1>1. IInv => EventsOfLiveThreads
  BY DEF IInv, ThreadInv, EventsLive, EventsOfLiveThreads
<1> QED BY <1>1, InductiveInvariant, PTL

\* prc_createTCB and prc_destroyTCBImpl: the thread list is exact and keeps its
\* root, the idle thread.
THEOREM ThreadListIsExact == Spec => []ThreadListExact
<1>1. IInv => ThreadListExact
  BY DEF IInv, OwnerInv, ListOK, ThreadListExact
<1> QED BY <1>1, InductiveInvariant, PTL

\* Threads and their handles are created and destroyed together.
THEOREM HandlesMatchThreads == Spec => []ThreadHandles
<1>1. IInv => ThreadHandles
  BY DEF IInv, OwnerInv, HandlesOK, ThreadHandles
<1> QED BY <1>1, InductiveInvariant, PTL

\* Outside a tear-down the current thread belongs to a process that exists.
LEMMA LiveCaller ==
    ASSUME IInv, kpc # "teardown"
    PROVE  CurrPcb \in pcbs /\ crpt = CurrPcb
<1>1. crpt = CurrPcb /\ victim = NoProc
  BY DEF IInv, ModeInv
<1>2. tcb[currTcb].state # "FREE" /\ currTcb \in Thread
  <2>1. currTcb \in Thread /\ (currTcb = Idle \/ tcb[currTcb].state = "READY")
    BY DEF IInv, ThreadInv, CurrentCanRun
  <2>2. tcb[Idle].state # "FREE"
    BY KernelAssumption DEF IInv, OwnerInv, ProcsOK
  <2> QED BY <2>1, <2>2
<1>3. CurrPcb \in pcbs \cup {NoProc} /\ CurrPcb \in Proc
  <2>1. CurrPcb \in pcbs \cup {victim}
    BY <1>2 DEF IInv, OwnerInv, ProcsOK, CurrPcb
  <2>2. CurrPcb \in Proc
    BY <1>2 DEF IInv, ThreadInv, CurrPcb, TCB
  <2> QED BY <1>1, <2>1, <2>2
<1> QED BY <1>1, <1>3, HandlesAssumption

\* The kernel always returns to a process that exists, on its page table.
THEOREM ReturnsToLiveProcess == Spec => []ResumesLiveProcess
<1>1. IInv => ResumesLiveProcess
  BY LiveCaller DEF ResumesLiveProcess
<1> QED BY <1>1, InductiveInvariant, PTL

\* prc_destroyPCBImpl never leaves the CPU on a page table it has destroyed.
THEOREM PageTableStays == Spec => []PageTableExists
<1>1. ASSUME IInv PROVE PageTableExists
  <2>1. CASE kpc = "teardown"
    BY <1>1, <2>1 DEF IInv, ModeInv, OwnerInv, ProcsOK, PageTableExists
  <2>2. CASE kpc # "teardown"
    BY <1>1, <2>2, LiveCaller DEF PageTableExists
  <2> QED BY <2>1, <2>2
<1> QED BY <1>1, InductiveInvariant, PTL

\* prc_destroyPCBImpl and handles_destroyPrcHandles: a destroyed process leaves
\* no thread, no handle and no timed event behind.
THEOREM TearDownIsComplete == Spec => []DeadProcessLeavesNothing
<1>1. ASSUME IInv PROVE DeadProcessLeavesNothing
  <2> SUFFICES ASSUME NEW p \in Proc \ (pcbs \cup {victim})
               PROVE  /\ \A t \in Thread : tcb[t].state # "FREE" => tcb[t].pcb # p
                      /\ \A i \in Slot : handles[i].owner # p
                      /\ \A i \in Pending(timedEvents) :
                            tcb[timedEvents[i].tcb].pcb # p
    BY DEF DeadProcessLeavesNothing
  <2>1. \A t \in Thread : tcb[t].state # "FREE" => tcb[t].pcb # p
    BY <1>1 DEF IInv, OwnerInv, ProcsOK
  <2>2. \A i \in Slot : handles[i].owner # p
    BY <1>1, HandlesAssumption DEF IInv, OwnerInv, ProcsOK
  <2>3. \A i \in Pending(timedEvents) :
           /\ timedEvents[i].tcb \in Thread
           /\ tcb[timedEvents[i].tcb].state # "FREE"
    BY <1>1 DEF IInv, ThreadInv, EventsLive, EventTable, Pending, TimedEvent
  <2> QED BY <2>1, <2>2, <2>3
<1> QED BY <1>1, InductiveInvariant, PTL

=============================================================================
