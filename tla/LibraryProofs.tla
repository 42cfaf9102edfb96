---------------------------- MODULE LibraryProofs -----------------------------
(***************************************************************************)
(* Proofs about the libraries: the dynamic array, the callbacks of the clock *)
(* and the events of the agenda that are kept in one, the ring buffer of the *)
(* queues, and the chain of coroutines, for any number of them.            *)
(***************************************************************************)
EXTENDS HwClk, PQueue, Queue, Coroutine, SequenceTheorems, WellFoundedInduction, TLAPS

-----------------------------------------------------------------------------
(***************************************************************************)
(* Dynamic arrays (dynamicarray.c)                                         *)
(***************************************************************************)

\* The buffers of an array whose elements are in E.
Buffers(E) == UNION {[0 .. n - 1 -> E \cup {Junk}] : n \in Nat}

\* An array whose first size slots hold elements of E.
IsArray(a, E) ==
    /\ a \in [data : Buffers(E), size : Nat, capacity : Nat]
    /\ a.size <= a.capacity
    /\ a.data \in [0 .. a.capacity - 1 -> E \cup {Junk}]
    /\ \A i \in 0 .. a.size - 1 : a.data[i] \in E

\* What calloc or realloc gives is a buffer.
LEMMA IsBuffer ==
    ASSUME NEW E, NEW n \in Nat, NEW d \in [0 .. n - 1 -> E \cup {Junk}]
    PROVE  d \in Buffers(E)
  BY DEF Buffers

\* An array made of its parts.
LEMMA ArrayMadeOf ==
    ASSUME NEW E, NEW n \in Nat, NEW m \in 0 .. n, NEW d \in [0 .. n - 1 -> E \cup {Junk}],
           \A i \in 0 .. m - 1 : d[i] \in E
    PROVE  IsArray([data |-> d, size |-> m, capacity |-> n], E)
  BY IsBuffer DEF IsArray

\* array_createGeneric gives an empty array.
LEMMA ArrayCreatedIs ==
    ASSUME NEW n \in Nat, NEW E
    PROVE  IsArray(ArrayCreated(n), E) /\ ArrayCreated(n).size = 0
<1> DEFINE d == [i \in 0 .. n - 1 |-> Junk]
<1>1. d \in [0 .. n - 1 -> E \cup {Junk}] /\ 0 \in 0 .. n /\ \A i \in 0 .. 0 - 1 : d[i] \in E
  OBVIOUS
<1>2. ArrayCreated(n) = [data |-> d, size |-> 0, capacity |-> n]
  BY DEF ArrayCreated
<1> HIDE DEF d
<1> QED BY <1>1, <1>2, ArrayMadeOf

\* array_reserveGeneric, called by an insertion: there is room for one more element, and
\* none has moved.
LEMMA ArrayWithRoomIs ==
    ASSUME NEW a, NEW E, IsArray(a, E)
    PROVE  /\ IsArray(ArrayWithRoom(a), E)
           /\ ArrayWithRoom(a).size = a.size
           /\ a.size < ArrayWithRoom(a).capacity
           /\ \A i \in 0 .. a.size - 1 : ArrayWithRoom(a).data[i] = a.data[i]
<1> DEFINE n == ArrayNextCapacity(a)
           b == ArrayReserved(a, n)
<1>0. /\ a.size \in Nat
      /\ a.capacity \in Nat
      /\ a.size <= a.capacity
      /\ a.data \in [0 .. a.capacity - 1 -> E \cup {Junk}]
      /\ \A i \in 0 .. a.size - 1 : a.data[i] \in E
  BY DEF IsArray
<1>1. CASE ~ArrayIsFull(a)
  BY <1>0, <1>1 DEF ArrayWithRoom, ArrayIsFull
<1>2. CASE ArrayIsFull(a)
  <2>1. n \in Nat /\ n > a.capacity
    BY <1>0, DynArrayAssumption DEF ArrayNextCapacity
  <2> HIDE DEF n
  <2> DEFINE d == [i \in 0 .. n - 1 |-> IF i < a.capacity THEN a.data[i] ELSE Junk]
  <2>2. b = [data |-> d, size |-> a.size, capacity |-> n]
    <3>1. ~(n <= a.capacity)
      BY <1>0, <2>1
    <3> HIDE DEF d
    <3> QED BY <3>1 DEF ArrayReserved, IsArray, d
  <2>3. \A i \in 0 .. a.size - 1 : d[i] = a.data[i]
    BY <1>0, <2>1
  <2>4. d \in [0 .. n - 1 -> E \cup {Junk}]
    BY <1>0, <2>1
  <2>5. a.size \in 0 .. n
    BY <1>0, <2>1
  <2> HIDE DEF d, b
  <2>6. IsArray(b, E)
    BY <1>0, <2>1, <2>2, <2>3, <2>4, <2>5, ArrayMadeOf
  <2>7. ArrayWithRoom(a) = b
    BY <1>2 DEF ArrayWithRoom, b, n
  <2> QED BY <1>0, <2>1, <2>2, <2>3, <2>6, <2>7
<1> QED BY <1>1, <1>2

\* array_pushGeneric adds one element at the end and changes no other.
LEMMA ArrayPushedIs ==
    ASSUME NEW a, NEW E, NEW e \in E, IsArray(a, E)
    PROVE  /\ IsArray(ArrayPushed(a, e), E)
           /\ ArrayPushed(a, e).size = a.size + 1
           /\ \A i \in 0 .. a.size - 1 : ArrayPushed(a, e).data[i] = a.data[i]
           /\ ArrayPushed(a, e).data[a.size] = e
<1> DEFINE b == ArrayWithRoom(a)
           c == [b EXCEPT !.data[b.size] = e, !.size = @ + 1]
<1>1. /\ IsArray(b, E)
      /\ b.size = a.size
      /\ a.size < b.capacity
      /\ \A i \in 0 .. a.size - 1 : b.data[i] = a.data[i]
  BY ArrayWithRoomIs
<1>2. c = ArrayPushed(a, e)
  BY DEF ArrayPushed
<1> HIDE DEF b
<1> DEFINE m == a.size
           n == b.capacity
           d == [b.data EXCEPT ![m] = e]
<1>3. /\ m \in Nat
      /\ n \in Nat
      /\ m + 1 \in 0 .. n
      /\ b.data \in [0 .. n - 1 -> E \cup {Junk}]
      /\ \A i \in 0 .. m - 1 : b.data[i] \in E
  BY <1>1 DEF IsArray
<1>4. c = [data |-> d, size |-> m + 1, capacity |-> n]
  <2>1. b \in [data : Buffers(E), size : Nat, capacity : Nat]
    BY <1>1 DEF IsArray
  <2>2. c = [b EXCEPT !.data = d, !.size = m + 1]
    <3>1. c = [b EXCEPT !.data[b.size] = e, !.size = @ + 1]
      OBVIOUS
    <3> HIDE DEF c
    <3> QED BY <1>1, <2>1, <3>1
  <2> HIDE DEF c, d
  <2> QED BY <2>1, <2>2
<1>5. /\ d \in [0 .. n - 1 -> E \cup {Junk}]
      /\ d[m] = e
      /\ \A i \in 0 .. m - 1 : d[i] = b.data[i]
  BY <1>3
<1> HIDE DEF c, d
<1>6. \A i \in 0 .. (m + 1) - 1 : d[i] \in E
  <2>1. \A i \in 0 .. (m + 1) - 1 : i = m \/ i \in 0 .. m - 1
    BY <1>3
  <2> QED BY <1>3, <1>5, <2>1
<1>7. IsArray(c, E)
  BY <1>3, <1>4, <1>5, <1>6, ArrayMadeOf
<1> QED BY <1>1, <1>2, <1>4, <1>5, <1>7

\* array_removeAtGeneric closes the gap: the elements behind it move down by one.
LEMMA ArrayRemovedAtIs ==
    ASSUME NEW a, NEW E, IsArray(a, E), NEW k \in 0 .. a.size - 1
    PROVE  /\ IsArray(ArrayRemovedAt(a, k), E)
           /\ ArrayRemovedAt(a, k).size = a.size - 1
           /\ \A i \in 0 .. a.size - 2 :
                ArrayRemovedAt(a, k).data[i] = IF i < k THEN a.data[i] ELSE a.data[i + 1]
<1> DEFINE d == ArrayMoved(a.data, k, k + 1, a.size - k - 1)
           b == [a EXCEPT !.data = d, !.size = @ - 1]
<1>1. /\ a.size \in Nat
      /\ a.capacity \in Nat
      /\ a.size <= a.capacity
      /\ a.data \in [0 .. a.capacity - 1 -> E \cup {Junk}]
      /\ \A i \in 0 .. a.size - 1 : a.data[i] \in E
  BY DEF IsArray
<1>2. ArrayRemovedAt(a, k) = b
  BY <1>1 DEF ArrayRemovedAt
<1> DEFINE n == a.capacity
           m == a.size
           ad == a.data
<1>3. /\ m \in Nat
      /\ n \in Nat
      /\ m <= n
      /\ k \in 0 .. m - 1
      /\ ad \in [0 .. n - 1 -> E \cup {Junk}]
      /\ \A i \in 0 .. m - 1 : ad[i] \in E
  BY <1>1
<1>4. d = [i \in DOMAIN ad |-> IF i \in k .. k + (m - k - 1) - 1 THEN ad[i - k + (k + 1)] ELSE ad[i]]
  BY DEF ArrayMoved
<1>5. b = [data |-> d, size |-> m - 1, capacity |-> n]
  <2>1. a \in [data : Buffers(E), size : Nat, capacity : Nat]
    BY DEF IsArray
  <2>2. b = [a EXCEPT !.data = d, !.size = a.size - 1]
    OBVIOUS
  <2> HIDE DEF b, d
  <2> QED BY <2>1, <2>2
<1> HIDE DEF ad, n, m, d, b
<1>8. d \in [0 .. n - 1 -> E \cup {Junk}]
  <2>1. ASSUME NEW i \in 0 .. n - 1, i \in k .. k + (m - k - 1) - 1
        PROVE  i - k + (k + 1) \in 0 .. n - 1
    BY <1>3, <2>1
  <2>2. DOMAIN ad = 0 .. n - 1 /\ \A i \in 0 .. n - 1 : ad[i] \in E \cup {Junk}
    BY <1>3
  <2> QED BY <1>4, <2>1, <2>2
<1>9. ASSUME NEW i \in 0 .. m - 2 PROVE d[i] = IF i < k THEN ad[i] ELSE ad[i + 1]
  <2>1. i \in 0 .. n - 1
    BY <1>3
  <2>2. d[i] = IF i \in k .. k + (m - k - 1) - 1 THEN ad[i - k + (k + 1)] ELSE ad[i]
    BY <1>3, <1>4, <2>1
  <2>3. i - k + (k + 1) = i + 1 /\ (i \in k .. k + (m - k - 1) - 1 <=> ~(i < k))
    BY <1>3
  <2> QED BY <2>2, <2>3
<1>10. \A i \in 0 .. (m - 1) - 1 : d[i] \in E
  <2> SUFFICES ASSUME NEW i \in 0 .. m - 2 PROVE d[i] \in E
    BY <1>3
  <2>1. i \in 0 .. m - 1 /\ i + 1 \in 0 .. m - 1
    BY <1>3
  <2> QED BY <1>3, <1>9, <2>1
<1>11. m - 1 \in 0 .. n
  BY <1>3
<1>12. IsArray(b, E)
  BY <1>3, <1>5, <1>8, <1>10, <1>11, ArrayMadeOf
<1>13. b.size = m - 1 /\ b.data = d
  BY <1>5
<1> QED BY <1>2, <1>9, <1>12, <1>13 DEF m, ad

-----------------------------------------------------------------------------
(***************************************************************************)
(* The clock's driver: the invariant                                       *)
(***************************************************************************)

\* A set of numbers that is not empty has a least element.
LEMMA LeastNumber ==
    ASSUME NEW S, S \subseteq Nat, S # {}
    PROVE  \E m \in S : \A n \in S : m <= n
<1>1. PICK m \in S : \A n \in S : ~(<<n, m>> \in OpToRel(<, Nat))
  BY NatLessThanWellFounded, WFMin
<1>2. \A n \in S : ~(n < m)
  BY <1>1 DEF OpToRel
<1> QED BY <1>2

\* The timer that the handler goes to next
LEMMA LowestIs ==
    ASSUME NEW S \in SUBSET Timers, S # {}
    PROVE  Lowest(S) \in S /\ \A u \in S : Lowest(S) <= u
<1>1. \E t \in S : \A u \in S : t <= u
  BY HwClkAssumption, LeastNumber
<1> QED BY <1>1 DEF Lowest

\* The places of the array of timer t that are in use
Index(t) == 0 .. funcs[t].size - 1

\* Types
HwClkTypeOK ==
    /\ DOMAIN funcs = Timers
    /\ funcs = [t \in Timers |-> funcs[t]]
    /\ \A t \in Timers : IsArray(funcs[t], Nat)
    /\ registered \in Nat
    /\ handler \in [ticked : SUBSET Timers, t : Nat, f : Nat]
    /\ due \subseteq Nat /\ called \subseteq Nat

\* The numbers in the arrays were given out before, each one once.
Numbered ==
    /\ \A t \in Timers : \A i \in Index(t) : funcs[t].data[i] < registered
    /\ \A t, u \in Timers : \A i \in Index(t), j \in Index(u) :
            funcs[t].data[i] = funcs[u].data[j] => t = u /\ i = j
    /\ \A x \in called : x < registered

\* The handler is at a timer that ticked, and not past the end of its array.
HandlerInArray ==
    Handling => handler.t \in handler.ticked /\ handler.f <= funcs[handler.t].size

\* Where the handler still comes to.
Coming(t, i) == (t = handler.t /\ i >= handler.f) \/ (t \in handler.ticked /\ t > handler.t)

\* What has yet to be called is where the handler still comes to.
DueComing ==
    Handling => \A x \in due : \E t \in Timers : \E i \in Index(t) : funcs[t].data[i] = x /\ Coming(t, i)

\* What was called is nowhere where it still comes to.
CalledGone ==
    Handling => \A t \in Timers : \A i \in Index(t) : Coming(t, i) => funcs[t].data[i] \notin called

\* The inductive invariant. It tells the callbacks apart by the numbers they were
\* given when they were registered, wherever removals have moved them since.
HwClkInv ==
    /\ HwClkTypeOK /\ Numbered /\ HandlerInArray
    /\ DueComing /\ CalledGone
    /\ ~Handling => due = {}

\* The elements of an array, as a set
LEMMA ContentRange ==
    ASSUME NEW a, IsArray(a, Nat)
    PROVE  Range(ArrayContent(a)) = {a.data[i] : i \in 0 .. a.size - 1}
<1>0. a.size \in Nat
  BY DEF IsArray
<1> DEFINE c == ArrayContent(a)
<1>1. c = [i \in 1 .. a.size |-> a.data[i - 1]]
  BY DEF ArrayContent
<1>2. Range(c) = {c[i] : i \in 1 .. a.size}
  BY <1>1 DEF Range
<1>3. \A i \in 1 .. a.size : c[i] = a.data[i - 1] /\ i - 1 \in 0 .. a.size - 1
  BY <1>0, <1>1
<1>4. \A i \in 0 .. a.size - 1 : i + 1 \in 1 .. a.size /\ (i + 1) - 1 = i
  BY <1>0
<1> HIDE DEF c
<1>5. \A i \in 0 .. a.size - 1 : c[i + 1] = a.data[i] /\ i + 1 \in 1 .. a.size
  BY <1>3, <1>4
<1>6. {c[i] : i \in 1 .. a.size} = {a.data[i] : i \in 0 .. a.size - 1}
  BY <1>3, <1>5
<1> QED BY <1>2, <1>6 DEF c

\* Where the invariant holds, a tick calls every callback once.
LEMMA CalledOnce == ASSUME HwClkInv PROVE CalledOncePerTick
<1>1. CASE ~Handling
  BY <1>1 DEF HwClkInv, CalledOncePerTick
<1>2. CASE Handling
  <2> DEFINE T == {u \in handler.ticked : u > handler.t}
  <2>0. /\ handler.t \in Timers
        /\ handler.ticked \subseteq Timers
        /\ handler.f \in Nat
        /\ \A t \in Timers : funcs[t].size \in Nat
    BY <1>2 DEF HwClkInv, HwClkTypeOK, HandlerInArray, IsArray
  <2>1. \A t \in T : Range(ArrayContent(funcs[t])) = {funcs[t].data[i] : i \in Index(t)}
    BY <2>0, ContentRange DEF HwClkInv, HwClkTypeOK, Index
  <2>2. \A t \in Timers : \A i \in Index(t) : Coming(t, i) => funcs[t].data[i] \in Ahead
    <3> SUFFICES ASSUME NEW t \in Timers, NEW i \in Index(t), Coming(t, i)
                 PROVE  funcs[t].data[i] \in Ahead
      OBVIOUS
    <3>1. CASE t \in T
      BY <2>1, <3>1 DEF Ahead
    <3>2. CASE t = handler.t /\ i >= handler.f
      <4>1. i \in handler.f .. funcs[handler.t].size - 1
        BY <2>0, <3>2 DEF Index
      <4> QED BY <3>2, <4>1 DEF Ahead
    <3> QED BY <3>1, <3>2 DEF Coming
  <2>3. \A x \in Ahead : \E t \in Timers : \E i \in Index(t) : funcs[t].data[i] = x /\ Coming(t, i)
    <3> SUFFICES ASSUME NEW x \in Ahead
                 PROVE  \E t \in Timers : \E i \in Index(t) : funcs[t].data[i] = x /\ Coming(t, i)
      OBVIOUS
    <3>1. CASE \E i \in handler.f .. funcs[handler.t].size - 1 : x = funcs[handler.t].data[i]
      <4>1. PICK i \in handler.f .. funcs[handler.t].size - 1 : x = funcs[handler.t].data[i]
        BY <3>1
      <4>2. i \in Index(handler.t) /\ i >= handler.f
        BY <2>0 DEF Index
      <4> QED BY <2>0, <4>1, <4>2 DEF Coming
    <3>2. CASE \E t \in T : x \in Range(ArrayContent(funcs[t]))
      BY <2>0, <2>1, <3>2 DEF Coming
    <3> QED BY <3>1, <3>2 DEF Ahead
  <2>4. due \subseteq Ahead
    BY <1>2, <2>2 DEF HwClkInv, DueComing
  <2>5. called \cap Ahead = {}
    BY <1>2, <2>3 DEF HwClkInv, CalledGone
  <2> QED BY <1>2, <2>4, <2>5 DEF CalledOncePerTick
<1> QED BY <1>1, <1>2

-----------------------------------------------------------------------------
(***************************************************************************)
(* The clock's driver: the inductive step                                  *)
(***************************************************************************)

\* The arrays are empty.
LEMMA HwClkInitInv == HwClkInit => HwClkInv
<1> SUFFICES ASSUME HwClkInit PROVE HwClkInv
  OBVIOUS
<1>1. \A t \in Timers : IsArray(funcs[t], Nat) /\ funcs[t].size = 0
  <2>1. 0 \in Nat
    OBVIOUS
  <2> QED BY <2>1, ArrayCreatedIs DEF HwClkInit
<1>2. handler.ticked = {} /\ ~Handling
  BY DEF HwClkInit, NotHandling, Handling
<1>3. HwClkTypeOK
  BY <1>1 DEF HwClkInit, HwClkTypeOK, NotHandling
<1>4. \A t \in Timers : Index(t) = {}
  BY <1>1 DEF Index
<1> QED BY <1>2, <1>3, <1>4 DEF HwClkInit, HwClkInv, Numbered, HandlerInArray, DueComing, CalledGone

\* What a registration makes of an array.
LEMMA RegisteredIs ==
    ASSUME HwClkTypeOK, NEW a, IsArray(a, Nat), NEW b \in {a, ArrayPushed(a, registered)}
    PROVE  /\ IsArray(b, Nat)
           /\ b.size = a.size \/ (b.size = a.size + 1 /\ b.data[a.size] = registered)
           /\ \A i \in 0 .. a.size - 1 : b.data[i] = a.data[i]
<1>1. registered \in Nat
  BY DEF HwClkTypeOK
<1>2. CASE b = a
  BY <1>2
<1>3. CASE b = ArrayPushed(a, registered)
  BY <1>1, <1>3, ArrayPushedIs
<1> QED BY <1>2, <1>3

\* hwclk_addCallback, in no handler
LEMMA AddCallbackInv ==
    ASSUME HwClkInv, NEW t \in Timers, HwClkAddCallback(t) PROVE HwClkInv'
<1>0. HwClkTypeOK /\ IsArray(funcs[t], Nat) /\ ~Handling
  BY DEF HwClkInv, HwClkTypeOK, HwClkAddCallback
<1>1. PICK b \in {funcs[t], ArrayPushed(funcs[t], registered)} : funcs' = [funcs EXCEPT ![t] = b]
  BY DEF HwClkAddCallback
<1>2. /\ IsArray(b, Nat)
      /\ b.size = funcs[t].size \/ (b.size = funcs[t].size + 1 /\ b.data[funcs[t].size] = registered)
      /\ \A i \in 0 .. funcs[t].size - 1 : b.data[i] = funcs[t].data[i]
  BY <1>0, RegisteredIs
<1>3. funcs'[t] = b /\ \A u \in Timers \ {t} : funcs'[u] = funcs[u]
  BY <1>0, <1>1 DEF HwClkTypeOK
<1>4. HwClkTypeOK'
  <2>1. registered' \in Nat /\ UNCHANGED <<handler, due, called>>
    BY <1>0 DEF HwClkAddCallback, HwClkTypeOK
  <2>2. \A u \in Timers : IsArray(funcs'[u], Nat)
    BY <1>0, <1>2, <1>3 DEF HwClkTypeOK
  <2>3. DOMAIN funcs' = Timers /\ funcs' = [u \in Timers |-> funcs'[u]]
    BY <1>0, <1>1 DEF HwClkTypeOK
  <2> QED BY <1>0, <2>1, <2>2, <2>3 DEF HwClkTypeOK
<1>5. registered' = registered + 1 /\ called' = called /\ handler' = handler /\ due' = due
  BY DEF HwClkAddCallback
<1>6. Numbered'
  <2>1. \A u \in Timers : \A i \in Index(u)' :
            \/ i \in Index(u) /\ funcs'[u].data[i] = funcs[u].data[i]
            \/ u = t /\ i = funcs[t].size /\ funcs'[u].data[i] = registered
    <3> SUFFICES ASSUME NEW u \in Timers, NEW i \in 0 .. funcs'[u].size - 1
                 PROVE  \/ i \in 0 .. funcs[u].size - 1 /\ funcs'[u].data[i] = funcs[u].data[i]
                        \/ u = t /\ i = funcs[t].size /\ funcs'[u].data[i] = registered
      BY DEF Index
    <3>1. CASE u # t
      BY <1>3, <3>1
    <3>2. CASE u = t
      <4>1. funcs[t].size \in Nat
        BY <1>0 DEF IsArray
      <4>2. i \in 0 .. b.size - 1
        BY <1>3, <3>2
      <4>3. i \in 0 .. funcs[t].size - 1 \/ (i = funcs[t].size /\ b.data[i] = registered)
        BY <1>2, <4>1, <4>2
      <4> QED BY <1>2, <1>3, <3>2, <4>3
    <3> QED BY <3>1, <3>2
  <2>2. registered \in Nat
    BY <1>0 DEF HwClkTypeOK
  <2>3. Numbered
    BY DEF HwClkInv
  <2>4. \A u \in Timers : \A i \in Index(u) : funcs[u].data[i] \in Nat
    BY <1>0 DEF HwClkTypeOK, IsArray, Index
  <2>5. \A u \in Timers : \A i \in Index(u)' : funcs'[u].data[i] < registered + 1
    BY <2>1, <2>2, <2>3, <2>4 DEF Numbered
  <2>6. \A x \in called : x < registered + 1
    BY <1>0, <2>2, <2>3 DEF Numbered, HwClkTypeOK
  <2>7. ASSUME NEW u \in Timers, NEW v \in Timers, NEW i \in Index(u)', NEW j \in Index(v)',
               funcs'[u].data[i] = funcs'[v].data[j]
        PROVE  u = v /\ i = j
    <3>1. \A w \in Timers : \A k \in Index(w) : funcs[w].data[k] # registered
      BY <2>2, <2>3, <2>4 DEF Numbered
    <3> QED BY <2>1, <2>3, <2>7, <3>1 DEF Numbered
  <2> QED BY <1>5, <2>5, <2>6, <2>7 DEF Numbered
<1>7. ~Handling'
  BY <1>0, <1>5 DEF Handling
<1> QED BY <1>0, <1>4, <1>5, <1>6, <1>7 DEF HwClkInv, HandlerInArray, DueComing, CalledGone

\* The interrupt of a tick: all callbacks of its timers are due.
LEMMA TickInv ==
    ASSUME HwClkInv, NEW ticked \in SUBSET Timers, ticked # {}, HwClkTick(ticked) PROVE HwClkInv'
<1>0. HwClkTypeOK /\ ~Handling /\ Timers \subseteq Nat
  BY HwClkAssumption DEF HwClkInv, HwClkTick
<1>1. /\ handler' = [ticked |-> ticked, t |-> Lowest(ticked), f |-> 0]
      /\ due' = UNION {Range(ArrayContent(funcs[t])) : t \in ticked}
      /\ called' = {}
      /\ UNCHANGED <<funcs, registered>>
  BY DEF HwClkTick
<1>2. Lowest(ticked) \in ticked /\ \A u \in ticked : Lowest(ticked) <= u
  BY LowestIs
<1>3. \A t \in ticked : Range(ArrayContent(funcs[t])) = {funcs[t].data[i] : i \in Index(t)}
  BY <1>0, ContentRange DEF HwClkTypeOK, Index
<1>4. \A t \in Timers : \A i \in Index(t) : funcs[t].data[i] \in Nat /\ i \in Nat
  BY <1>0 DEF HwClkTypeOK, IsArray, Index
<1>5. \A x \in due' : \E t \in ticked : \E i \in Index(t) : funcs[t].data[i] = x
  BY <1>1, <1>3
<1>6. due' \subseteq Nat
  BY <1>4, <1>5
<1>7. handler' \in [ticked : SUBSET Timers, t : Nat, f : Nat]
  BY <1>0, <1>1, <1>2
<1>8. HwClkTypeOK'
  BY <1>0, <1>1, <1>6, <1>7 DEF HwClkTypeOK
<1>9. Numbered'
  BY <1>1 DEF HwClkInv, Numbered, Index
<1>10. HandlerInArray'
  <2>1. funcs[Lowest(ticked)].size \in Nat
    BY <1>0, <1>2 DEF HwClkTypeOK, IsArray
  <2> QED BY <1>1, <1>2, <2>1 DEF HandlerInArray
<1>11. DueComing'
  <2> SUFFICES ASSUME NEW x \in due'
               PROVE  \E t \in Timers : \E i \in Index(t)' : funcs'[t].data[i] = x /\ Coming(t, i)'
    BY DEF DueComing
  <2>1. PICK t \in ticked : \E i \in Index(t) : funcs[t].data[i] = x
    BY <1>5
  <2>2. PICK i \in Index(t) : funcs[t].data[i] = x
    BY <2>1
  <2>3. t = Lowest(ticked) \/ t > Lowest(ticked)
    <3> DEFINE m == Lowest(ticked)
    <3>1. m \in Nat /\ t \in Nat /\ m <= t
      BY <1>0, <1>2
    <3> HIDE DEF m
    <3>2. t = m \/ t > m
      BY <3>1
    <3> QED BY <3>2 DEF m
  <2>4. t \in Timers /\ i \in Nat
    BY <1>4
  <2>5. Coming(t, i)'
    BY <1>1, <2>3, <2>4 DEF Coming
  <2> QED BY <1>1, <2>2, <2>4, <2>5 DEF Index
<1>12. CalledGone'
  BY <1>1 DEF CalledGone
<1>13. Handling'
  BY <1>1 DEF Handling
<1> QED BY <1>8, <1>9, <1>10, <1>11, <1>12, <1>13 DEF HwClkInv

\* The handler has been through an array.
LEMMA NextTimerInv ==
    ASSUME HwClkInv, HwClkNextTimer PROVE HwClkInv'
<1> DEFINE rest == {t \in handler.ticked : t > handler.t}
<1>0. /\ HwClkTypeOK
      /\ Handling
      /\ Timers \subseteq Nat
      /\ handler \in [ticked : SUBSET Timers, t : Nat, f : Nat]
      /\ handler.f = funcs[handler.t].size
      /\ handler' = (IF rest = {} THEN NotHandling ELSE [handler EXCEPT !.t = Lowest(rest), !.f = 0])
      /\ UNCHANGED <<funcs, registered, due, called>>
  BY HwClkAssumption DEF HwClkInv, HwClkNextTimer, HwClkTypeOK
<1>1. \A t \in Timers : \A i \in Index(t) : Coming(t, i) => t \in rest
  <2>1. handler.t \in Timers
    BY <1>0 DEF HwClkInv, HandlerInArray
  <2>2. funcs[handler.t].size \in Nat
    BY <1>0, <2>1 DEF HwClkTypeOK, IsArray
  <2>3. \A i \in Index(handler.t) : ~(i >= handler.f)
    BY <1>0, <2>2 DEF Index
  <2> QED BY <2>3 DEF Coming
<1>2. Numbered'
  BY <1>0 DEF HwClkInv, Numbered, Index
<1> HIDE DEF rest
<1>3. CASE rest = {}
  <2>1. due = {}
    BY <1>0, <1>1, <1>3 DEF HwClkInv, DueComing
  <2>2. handler' = NotHandling /\ ~Handling'
    <3>1. handler' = NotHandling
      BY <1>0, <1>3
    <3> QED BY <3>1 DEF Handling, NotHandling
  <2>3. HwClkTypeOK'
    <3>1. handler' \in [ticked : SUBSET Timers, t : Nat, f : Nat]
      BY <2>2 DEF NotHandling
    <3> QED BY <1>0, <3>1 DEF HwClkTypeOK
  <2> QED BY <1>0, <1>2, <2>1, <2>2, <2>3 DEF HwClkInv, HandlerInArray, DueComing, CalledGone
<1>4. CASE rest # {}
  <2> DEFINE m == Lowest(rest)
  <2>0. /\ rest \in SUBSET Timers
        /\ rest \subseteq handler.ticked
        /\ \A u \in rest : u > handler.t
    BY <1>0 DEF rest
  <2>1. m \in rest /\ (\A u \in rest : m <= u) /\ m > handler.t
    BY <1>4, <2>0, LowestIs
  <2>2. handler' = [handler EXCEPT !.t = m, !.f = 0]
    BY <1>0, <1>4
  <2>m. m \in Nat /\ m \in Timers /\ m \in handler.ticked
    BY <1>0, <2>0, <2>1
  <2> HIDE DEF m
  <2>3. /\ handler'.ticked = handler.ticked
        /\ handler'.t = m
        /\ handler'.f = 0
        /\ handler' \in [ticked : SUBSET Timers, t : Nat, f : Nat]
    <3>1. handler \in [ticked : SUBSET Timers, t : Nat, f : Nat]
      BY <1>0
    <3> QED BY <3>1, <2>m, <2>2
  <2>4. HwClkTypeOK'
    BY <1>0, <2>3 DEF HwClkTypeOK
  <2>5. funcs[m].size \in Nat /\ m \in handler.ticked /\ m \in Nat
    <3>1. IsArray(funcs[m], Nat)
      BY <1>0, <2>m DEF HwClkTypeOK
    <3> QED BY <2>m, <3>1 DEF IsArray
  <2>6. HandlerInArray'
    BY <1>0, <2>3, <2>5 DEF HandlerInArray
  <2>7. \A t \in Timers : \A i \in Index(t) : t \in rest => Coming(t, i)'
    <3> SUFFICES ASSUME NEW t \in Timers, NEW i \in Index(t), t \in rest PROVE Coming(t, i)'
      OBVIOUS
    <3>1. t \in Nat /\ m <= t /\ i >= 0 /\ t \in handler.ticked
      BY <1>0, <2>0, <2>1 DEF Index
    <3> QED BY <2>3, <2>5, <3>1 DEF Coming
  <2>8. \A t \in Timers : \A i \in Index(t) : Coming(t, i)' => Coming(t, i)
    <3> SUFFICES ASSUME NEW t \in Timers, NEW i \in Index(t), Coming(t, i)' PROVE Coming(t, i)
      OBVIOUS
    <3>1. m > handler.t /\ handler.t \in Nat /\ t \in Nat
      BY <1>0, <2>1
    <3>2. t = m \/ (t \in handler.ticked /\ t > m)
      BY <2>3 DEF Coming
    <3>3. t \in handler.ticked /\ t > handler.t
      BY <2>5, <3>1, <3>2
    <3> QED BY <3>3 DEF Coming
  <2>9. DueComing'
    <3> SUFFICES ASSUME NEW x \in due
                 PROVE  \E t \in Timers : \E i \in Index(t)' : funcs'[t].data[i] = x /\ Coming(t, i)'
      BY <1>0 DEF DueComing
    <3>0. PICK t \in Timers : \E i \in Index(t) : funcs[t].data[i] = x /\ Coming(t, i)
      BY <1>0 DEF HwClkInv, DueComing
    <3>1. PICK i \in Index(t) : funcs[t].data[i] = x /\ Coming(t, i)
      BY <3>0
    <3>2. Coming(t, i)' /\ i \in Index(t)'
      BY <1>0, <1>1, <2>7, <3>1 DEF Index
    <3> QED BY <1>0, <3>1, <3>2
  <2>10. CalledGone'
    <3> SUFFICES ASSUME NEW t \in Timers, NEW i \in Index(t)', Coming(t, i)'
                 PROVE  funcs[t].data[i] \notin called
      BY <1>0 DEF CalledGone
    <3>1. i \in Index(t)
      BY <1>0 DEF Index
    <3> QED BY <1>0, <2>8, <3>1 DEF HwClkInv, CalledGone
  <2>11. Handling'
    BY <2>3, <2>5 DEF Handling
  <2> QED BY <1>2, <2>4, <2>6, <2>9, <2>10, <2>11 DEF HwClkInv
<1> QED BY <1>3, <1>4

\* Where an element that stays comes from when the handler's turn ends.
Origin(keep, f, j) == IF keep \/ j < f THEN j ELSE j + 1

\* A turn of the loop, seen from the array of the handler's timer.
LEMMA CallArray ==
    ASSUME HwClkInv, NEW keep \in BOOLEAN, HwClkCall(keep)
    PROVE  \E b, c :
            /\ funcs' = [funcs EXCEPT ![handler.t] = c]
            /\ IsArray(b, Nat) /\ IsArray(c, Nat)
            /\ \/ b.size = funcs[handler.t].size
               \/ /\ b.size = funcs[handler.t].size + 1
                  /\ b.data[funcs[handler.t].size] = registered
                  /\ registered' = registered + 1
            /\ registered' \in {registered, registered + 1}
            /\ \A i \in Index(handler.t) : b.data[i] = funcs[handler.t].data[i]
            /\ c.size = IF keep THEN b.size ELSE b.size - 1
            /\ \A j \in 0 .. c.size - 1 : c.data[j] = b.data[Origin(keep, handler.f, j)]
            /\ handler' = [handler EXCEPT !.f = IF keep THEN @ + 1 ELSE @]
<1> DEFINE a == funcs[handler.t]
           f == handler.f
<1>0. /\ HwClkTypeOK
      /\ IsArray(a, Nat)
      /\ f \in 0 .. a.size - 1
      /\ a.size \in Nat
      /\ registered \in Nat
      /\ handler \in [ticked : SUBSET Timers, t : Nat, f : Nat]
  <2>1. handler.t \in Timers /\ f \in Nat /\ f <= a.size /\ f # a.size /\ HwClkTypeOK
        /\ handler \in [ticked : SUBSET Timers, t : Nat, f : Nat]
    BY DEF HwClkInv, HwClkTypeOK, HandlerInArray, HwClkCall
  <2>2. IsArray(a, Nat) /\ a.size \in Nat
    BY <2>1 DEF HwClkTypeOK, IsArray
  <2> HIDE DEF a, f
  <2>3. f \in 0 .. a.size - 1
    BY <2>1, <2>2
  <2> QED BY <2>1, <2>2, <2>3 DEF HwClkTypeOK
<1>1. PICK b \in {a, ArrayPushed(a, registered)} :
        /\ \/ b = a /\ UNCHANGED registered
           \/ Registered(a, b) /\ registered' = registered + 1
        /\ funcs' = [funcs EXCEPT ![handler.t] = AfterCall(b, keep).array]
        /\ handler' = [handler EXCEPT !.f = AfterCall(b, keep).f]
  BY DEF HwClkCall
<1> DEFINE c == AfterCall(b, keep).array
<1>2. /\ IsArray(b, Nat)
      /\ b.size = a.size \/ (b.size = a.size + 1 /\ b.data[a.size] = registered)
      /\ \A i \in 0 .. a.size - 1 : b.data[i] = a.data[i]
  BY <1>0, RegisteredIs
<1>3. registered' \in {registered, registered + 1} /\ (b = a \/ registered' = registered + 1)
  BY <1>1
<1>4. b.size \in Nat /\ f \in 0 .. b.size - 1
  BY <1>0, <1>2 DEF IsArray
<1>5. CASE keep
  <2>1. c = b /\ AfterCall(b, keep).f = f + 1
    BY <1>5 DEF AfterCall
  <2>2. \A j \in 0 .. c.size - 1 : c.data[j] = b.data[Origin(keep, f, j)]
    BY <1>5, <2>1 DEF Origin
  <2>3. handler' = [handler EXCEPT !.f = IF keep THEN @ + 1 ELSE @]
    BY <1>0, <1>1, <1>5, <2>1
  <2>4. b.size = a.size \/ (b.size = a.size + 1 /\ b.data[a.size] = registered /\ registered' = registered + 1)
    BY <1>0, <1>2, <1>3
  <2>5. funcs' = [funcs EXCEPT ![handler.t] = c]
    BY <1>1
  <2> HIDE DEF c
  <2> QED BY <1>2, <1>3, <1>5, <2>1, <2>2, <2>3, <2>4, <2>5 DEF Index
<1>6. CASE ~keep
  <2>1. c = ArrayRemovedAt(b, f) /\ AfterCall(b, keep).f = f
    BY <1>6 DEF AfterCall
  <2>2. /\ IsArray(c, Nat)
        /\ c.size = b.size - 1
        /\ \A i \in 0 .. b.size - 2 : c.data[i] = IF i < f THEN b.data[i] ELSE b.data[i + 1]
    BY <1>2, <1>4, <2>1, ArrayRemovedAtIs
  <2>3. \A j \in 0 .. c.size - 1 : c.data[j] = b.data[Origin(keep, f, j)]
    <3> HIDE DEF c
    <3>1. (b.size - 1) - 1 = b.size - 2
      BY <1>4
    <3> QED BY <1>6, <2>2, <3>1 DEF Origin
  <2>4. handler' = [handler EXCEPT !.f = IF keep THEN @ + 1 ELSE @]
    BY <1>0, <1>1, <1>6, <2>1
  <2>5. b.size = a.size \/ (b.size = a.size + 1 /\ b.data[a.size] = registered /\ registered' = registered + 1)
    BY <1>0, <1>2, <1>3
  <2>6. funcs' = [funcs EXCEPT ![handler.t] = c]
    BY <1>1
  <2> HIDE DEF c
  <2> QED BY <1>2, <1>3, <1>6, <2>2, <2>3, <2>4, <2>5, <2>6 DEF Index
<1> QED BY <1>5, <1>6

\* A turn of the loop: the callback may register another one, and may ask to be
\* removed, which moves those behind it to where the handler is.
LEMMA CallInv ==
    ASSUME HwClkInv, NEW keep \in BOOLEAN, HwClkCall(keep) PROVE HwClkInv'
<1> DEFINE T == handler.t
           a == funcs[T]
           f == handler.f
           e == a.data[f]
           O(j) == Origin(keep, f, j)
<1>0. /\ HwClkTypeOK
      /\ Numbered
      /\ Handling
      /\ T \in Timers
      /\ T \in handler.ticked
      /\ IsArray(a, Nat)
      /\ handler \in [ticked : SUBSET Timers, t : Nat, f : Nat]
      /\ registered \in Nat
      /\ Timers \subseteq Nat
  BY HwClkAssumption DEF HwClkInv, HwClkTypeOK, HandlerInArray, HwClkCall
<1>1. a.size \in Nat /\ f \in 0 .. a.size - 1
  <2>1. f \in Nat /\ f <= a.size /\ f # a.size
    BY DEF HwClkInv, HwClkTypeOK, HandlerInArray, HwClkCall
  <2>2. a.size \in Nat
    BY <1>0 DEF IsArray
  <2> HIDE DEF a, f
  <2> QED BY <2>1, <2>2
<1>2. PICK b, c :
        /\ funcs' = [funcs EXCEPT ![T] = c]
        /\ IsArray(b, Nat) /\ IsArray(c, Nat)
        /\ \/ b.size = a.size
           \/ /\ b.size = a.size + 1
              /\ b.data[a.size] = registered
              /\ registered' = registered + 1
        /\ registered' \in {registered, registered + 1}
        /\ \A i \in Index(T) : b.data[i] = a.data[i]
        /\ c.size = IF keep THEN b.size ELSE b.size - 1
        /\ \A j \in 0 .. c.size - 1 : c.data[j] = b.data[O(j)]
        /\ handler' = [handler EXCEPT !.f = IF keep THEN @ + 1 ELSE @]
  BY CallArray
<1>3. due' = due \ {e} /\ called' = called \cup {e}
  BY DEF HwClkCall
<1>4. /\ handler'.ticked = handler.ticked
      /\ handler'.t = T
      /\ handler'.f = IF keep THEN f + 1 ELSE f
      /\ handler' \in [ticked : SUBSET Timers, t : Nat, f : Nat]
  BY <1>0, <1>2
<1>5. funcs'[T] = c /\ \A t \in Timers \ {T} : funcs'[t] = funcs[t]
  BY <1>0, <1>2 DEF HwClkTypeOK
<1>6. b.size \in Nat /\ c.size \in Nat
  BY <1>2 DEF IsArray
<1>7. \A i \in Index(T) : a.data[i] \in Nat /\ a.data[i] < registered
  BY <1>0 DEF Numbered, IsArray, Index
<1> HIDE DEF T, a, f, e
<1>i. Index(T) = 0 .. a.size - 1
  BY DEF Index, a
<1>e. e \in Nat /\ e < registered /\ e = a.data[f] /\ b.data[f] = e
  BY <1>1, <1>2, <1>7, <1>i DEF e
\* The elements of b: those of a, and the one that was registered.
<1>8. \A i \in 0 .. b.size - 1 :
        \/ i \in 0 .. a.size - 1 /\ b.data[i] = a.data[i] /\ b.data[i] < registered
        \/ i = a.size /\ b.data[i] = registered /\ registered' = registered + 1
  <2> SUFFICES ASSUME NEW i \in 0 .. b.size - 1
               PROVE  \/ i \in 0 .. a.size - 1 /\ b.data[i] = a.data[i] /\ b.data[i] < registered
                      \/ i = a.size /\ b.data[i] = registered /\ registered' = registered + 1
    OBVIOUS
  <2>1. CASE i \in 0 .. a.size - 1
    BY <1>2, <1>7, <1>i, <2>1
  <2>2. CASE i \notin 0 .. a.size - 1
    <3>1. b.size = a.size + 1 /\ i = a.size
      BY <1>1, <1>2, <1>6, <2>2
    <3>2. b.data[a.size] = registered /\ registered' = registered + 1
      BY <1>1, <1>2, <3>1
    <3> QED BY <3>1, <3>2
  <2> QED BY <2>1, <2>2
\* Where those of c come from.
<1>9. \A j \in 0 .. c.size - 1 : O(j) \in 0 .. b.size - 1 /\ c.data[j] = b.data[O(j)]
  <2>1. \A j \in 0 .. c.size - 1 : O(j) \in 0 .. b.size - 1
    BY <1>1, <1>2, <1>6 DEF Origin
  <2> QED BY <1>2, <2>1
<1>10. \A j, k \in 0 .. c.size - 1 : O(j) = O(k) => j = k
  BY <1>1, <1>6 DEF Origin
<1>11. \A j \in 0 .. c.size - 1 : j >= handler'.f <=> O(j) > f
  BY <1>1, <1>4, <1>6 DEF Origin
<1>12. \A i \in 0 .. b.size - 1 : i > f => \E j \in 0 .. c.size - 1 : O(j) = i /\ j >= handler'.f
  <2> SUFFICES ASSUME NEW i \in 0 .. b.size - 1, i > f
               PROVE  \E j \in 0 .. c.size - 1 : O(j) = i /\ j >= handler'.f
    OBVIOUS
  <2>1. CASE keep
    <3>1. i \in 0 .. c.size - 1 /\ O(i) = i /\ i >= handler'.f
      BY <1>1, <1>2, <1>4, <1>6, <2>1 DEF Origin
    <3> QED BY <3>1
  <2>2. CASE ~keep
    <3>1. i - 1 \in 0 .. c.size - 1 /\ O(i - 1) = i /\ i - 1 >= handler'.f
      BY <1>1, <1>2, <1>4, <1>6, <2>2 DEF Origin
    <3> QED BY <3>1
  <2> QED BY <2>1, <2>2
<1>13. \A i, k \in 0 .. b.size - 1 : b.data[i] = b.data[k] => i = k
  <2>1. \A i, k \in 0 .. a.size - 1 : a.data[i] = a.data[k] => i = k
    BY <1>0, <1>i DEF Numbered, a
  <2>2. \A i \in 0 .. a.size - 1 : a.data[i] # registered
    BY <1>0, <1>7, <1>i
  <2> QED BY <1>8, <2>1, <2>2
\* No other timer has them.
<1>14. \A t \in Timers \ {T} : \A k \in Index(t) : \A i \in 0 .. b.size - 1 : funcs[t].data[k] # b.data[i]
  <2> SUFFICES ASSUME NEW t \in Timers \ {T}, NEW k \in Index(t), NEW i \in 0 .. b.size - 1,
                      funcs[t].data[k] = b.data[i]
               PROVE  FALSE
    OBVIOUS
  <2>1. funcs[t].data[k] \in Nat /\ funcs[t].data[k] < registered
    BY <1>0 DEF HwClkTypeOK, IsArray, Numbered, Index
  <2>2. i \in Index(T) /\ funcs[T].data[i] = funcs[t].data[k]
    BY <1>0, <1>8, <1>i, <2>1 DEF a
  <2> QED BY <1>0, <2>2 DEF Numbered
<1>15. HwClkTypeOK'
  <2>1. \A t \in Timers : IsArray(funcs'[t], Nat)
    BY <1>0, <1>2, <1>5 DEF HwClkTypeOK
  <2>2. DOMAIN funcs' = Timers /\ funcs' = [t \in Timers |-> funcs'[t]]
    BY <1>0, <1>2 DEF HwClkTypeOK
  <2>3. registered' \in Nat /\ due' \subseteq Nat /\ called' \subseteq Nat
    BY <1>0, <1>2, <1>3, <1>e DEF HwClkTypeOK
  <2> QED BY <1>4, <2>1, <2>2, <2>3 DEF HwClkTypeOK
<1>16. Numbered'
  <2>0. registered' \in Nat /\ registered <= registered'
    BY <1>0, <1>2
  <2>1. \A t \in Timers : \A i \in Index(t)' : funcs'[t].data[i] < registered'
    <3> SUFFICES ASSUME NEW t \in Timers, NEW i \in 0 .. funcs'[t].size - 1
                 PROVE  funcs'[t].data[i] < registered'
      BY DEF Index
    <3>1. CASE t = T
      <4>1. i \in 0 .. c.size - 1 /\ funcs'[t].data[i] = b.data[O(i)] /\ O(i) \in 0 .. b.size - 1
        BY <1>5, <1>9, <3>1
      <4> DEFINE k == O(i)
      <4>2. k \in 0 .. b.size - 1
        BY <4>1
      <4> HIDE DEF k
      <4>3. b.data[k] \in Nat
        BY <1>2, <4>2 DEF IsArray
      <4>4. b.data[k] < registered'
        BY <1>0, <1>8, <2>0, <4>2, <4>3
      <4> QED BY <4>1, <4>4 DEF k
    <3>2. CASE t # T
      <4>1. funcs'[t] = funcs[t] /\ i \in Index(t)
        BY <1>5, <3>2 DEF Index
      <4>2. funcs[t].data[i] \in Nat /\ funcs[t].data[i] < registered
        BY <1>0, <4>1 DEF HwClkTypeOK, IsArray, Numbered, Index
      <4> QED BY <1>0, <2>0, <4>1, <4>2
    <3> QED BY <3>1, <3>2
  <2>2. ASSUME NEW t \in Timers, NEW u \in Timers, NEW i \in Index(t)', NEW j \in Index(u)',
               funcs'[t].data[i] = funcs'[u].data[j]
        PROVE  t = u /\ i = j
    <3>1. CASE t = T /\ u = T
      <4>1. i \in 0 .. c.size - 1 /\ j \in 0 .. c.size - 1
        BY <1>5, <3>1 DEF Index
      <4>2. O(i) \in 0 .. b.size - 1 /\ O(j) \in 0 .. b.size - 1 /\ b.data[O(i)] = b.data[O(j)]
        BY <1>5, <1>9, <2>2, <3>1, <4>1
      <4>3. O(i) = O(j)
        BY <1>13, <4>2
      <4> QED BY <1>10, <3>1, <4>1, <4>3
    <3>2. CASE t = T /\ u # T
      <4>1. i \in 0 .. c.size - 1 /\ j \in Index(u) /\ funcs'[u] = funcs[u]
        BY <1>5, <3>2 DEF Index
      <4>2. O(i) \in 0 .. b.size - 1 /\ b.data[O(i)] = funcs[u].data[j]
        BY <1>5, <1>9, <2>2, <3>2, <4>1
      <4> QED BY <1>14, <3>2, <4>1, <4>2
    <3>3. CASE t # T /\ u = T
      <4>1. j \in 0 .. c.size - 1 /\ i \in Index(t) /\ funcs'[t] = funcs[t]
        BY <1>5, <3>3 DEF Index
      <4>2. O(j) \in 0 .. b.size - 1 /\ b.data[O(j)] = funcs[t].data[i]
        BY <1>5, <1>9, <2>2, <3>3, <4>1
      <4> QED BY <1>14, <3>3, <4>1, <4>2
    <3>4. CASE t # T /\ u # T
      <4>1. i \in Index(t) /\ j \in Index(u) /\ funcs'[t] = funcs[t] /\ funcs'[u] = funcs[u]
        BY <1>5, <3>4 DEF Index
      <4> QED BY <1>0, <2>2, <4>1 DEF Numbered
    <3> QED BY <3>1, <3>2, <3>3, <3>4
  <2>3. \A x \in called' : x < registered'
    <3>1. \A x \in called : x \in Nat /\ x < registered
      BY <1>0 DEF Numbered, HwClkTypeOK
    <3> QED BY <1>0, <1>3, <1>e, <2>0, <3>1
  <2> QED BY <2>1, <2>2, <2>3 DEF Numbered
<1>17. HandlerInArray'
  <2>1. handler'.f <= c.size
    BY <1>1, <1>2, <1>4, <1>6
  <2> QED BY <1>0, <1>4, <1>5, <2>1 DEF HandlerInArray
<1>18. \A t \in Timers \ {T} : \A i : Coming(t, i)' <=> Coming(t, i)
  BY <1>4 DEF Coming, T
<1>19. DueComing'
  <2> SUFFICES ASSUME NEW x \in due, x # e
               PROVE  \E t \in Timers : \E i \in Index(t)' : funcs'[t].data[i] = x /\ Coming(t, i)'
    BY <1>3 DEF DueComing
  <2>1. PICK t \in Timers : \E i \in Index(t) : funcs[t].data[i] = x /\ Coming(t, i)
    BY <1>0 DEF HwClkInv, DueComing
  <2>2. PICK i \in Index(t) : funcs[t].data[i] = x /\ Coming(t, i)
    BY <2>1
  <2>3. CASE t # T
    BY <1>5, <1>18, <2>2, <2>3 DEF Index
  <2>4. CASE t = T
    <3>1. i \in 0 .. a.size - 1 /\ a.data[i] = x /\ i \in Nat
      BY <1>i, <2>2, <2>4 DEF a
    <3>2. i >= f
      BY <1>0, <2>2, <2>4 DEF Coming, T, f
    <3>3. i # f
      BY <3>1, <1>e
    <3>4. i > f /\ i \in 0 .. b.size - 1 /\ b.data[i] = x
      BY <1>1, <1>2, <1>6, <1>i, <3>1, <3>2, <3>3
    <3>5. PICK j \in 0 .. c.size - 1 : O(j) = i /\ j >= handler'.f
      BY <1>12, <3>4
    <3>6. funcs'[t] = c
      BY <1>5, <2>4
    <3>7. j \in Index(t)' /\ funcs'[t].data[j] = x
      BY <1>9, <3>4, <3>5, <3>6 DEF Index
    <3>8. Coming(t, j)'
      BY <1>4, <2>4, <3>5 DEF Coming
    <3> QED BY <3>7, <3>8
  <2> QED BY <2>3, <2>4
<1>20. CalledGone'
  <2> SUFFICES ASSUME NEW t \in Timers, NEW i \in Index(t)', Coming(t, i)'
               PROVE  funcs'[t].data[i] \notin called /\ funcs'[t].data[i] # e
    BY <1>3 DEF CalledGone
  <2>1. CASE t # T
    <3>1. i \in Index(t) /\ funcs'[t] = funcs[t] /\ Coming(t, i)
      BY <1>5, <1>18, <2>1 DEF Index
    <3>2. funcs[t].data[i] \notin called
      BY <1>0, <3>1 DEF HwClkInv, CalledGone
    <3>3. f \in 0 .. b.size - 1
      BY <1>1, <1>2
    <3> QED BY <1>14, <1>e, <2>1, <3>1, <3>2, <3>3
  <2>2. CASE t = T
    <3>1. i \in 0 .. c.size - 1 /\ funcs'[t].data[i] = b.data[O(i)] /\ O(i) \in 0 .. b.size - 1
      BY <1>5, <1>9, <2>2 DEF Index
    <3>2. i >= handler'.f
      <4>1. ~(T > T)
        BY <1>0
      <4> QED BY <1>4, <2>2, <4>1 DEF Coming
    <3> DEFINE k == O(i)
    <3>3. k > f /\ k \in 0 .. b.size - 1
      BY <1>11, <3>1, <3>2
    <3> HIDE DEF k
    <3>4. f \in 0 .. b.size - 1 /\ k # f
      BY <1>1, <1>2, <3>3
    <3>5. b.data[k] # e
      BY <1>13, <1>e, <3>3, <3>4
    <3>6. CASE k \in 0 .. a.size - 1 /\ b.data[k] = a.data[k]
      <4>1. k \in Index(T) /\ k >= f
        BY <1>1, <1>i, <3>3, <3>6
      <4>2. Coming(T, k)
        BY <4>1 DEF Coming, T, f
      <4>3. a.data[k] \notin called
        BY <1>0, <4>1, <4>2 DEF HwClkInv, CalledGone, a
      <4> QED BY <2>2, <3>1, <3>5, <3>6, <4>3 DEF k
    <3>7. CASE b.data[k] = registered
      <4>1. registered \notin called
        BY <1>0 DEF Numbered
      <4> QED BY <3>1, <3>5, <3>7, <4>1 DEF k
    <3> QED BY <1>8, <3>3, <3>6, <3>7
  <2> QED BY <2>1, <2>2
<1>21. Handling'
  BY <1>0, <1>4 DEF Handling
<1> QED BY <1>15, <1>16, <1>17, <1>19, <1>20, <1>21 DEF HwClkInv

\* Every step keeps the invariant.
LEMMA HwClkStep == ASSUME HwClkInv, [HwClkNext]_hwclkVars PROVE HwClkInv'
<1>1. ASSUME NEW t \in Timers, HwClkAddCallback(t) PROVE HwClkInv'
  BY <1>1, AddCallbackInv
<1>2. ASSUME NEW ticked \in (SUBSET Timers) \ {{}}, HwClkTick(ticked) PROVE HwClkInv'
  <2>1. ticked \in SUBSET Timers /\ ticked # {}
    BY <1>2
  <2> QED BY <1>2, <2>1, TickInv
<1>3. ASSUME NEW keep \in BOOLEAN, HwClkCall(keep) PROVE HwClkInv'
  BY <1>3, CallInv
<1>4. CASE HwClkNextTimer
  BY <1>4, NextTimerInv
<1>5. CASE UNCHANGED hwclkVars
  BY <1>5 DEF hwclkVars, HwClkInv, HwClkTypeOK, Numbered, HandlerInArray, DueComing, CalledGone,
              Handling, Index, Coming
<1> QED BY <1>1, <1>2, <1>3, <1>4, <1>5 DEF HwClkNext

\* The invariant of the clock's driver holds in every reachable state.
THEOREM HwClkInvariant == HwClkSpec => []HwClkInv
  BY HwClkInitInv, HwClkStep, PTL DEF HwClkSpec

\* A tick calls every callback that was registered when it came, and none twice,
\* for any timers and whatever the callbacks register and remove meanwhile.
THEOREM TickCallsEachOnce == HwClkSpec => []CalledOncePerTick
  BY HwClkInvariant, CalledOnce, PTL

-----------------------------------------------------------------------------
(***************************************************************************)
(* Loops, as recursive functions                                           *)
(***************************************************************************)

\* What holds of 0, and of every number whose predecessor it holds of, holds up
\* to n: if not, there were a least one of which it does not.
LEMMA CountedUp ==
    ASSUME NEW n \in Nat, NEW T, 0 \in T, \A i \in 1 .. n : i - 1 \in T => i \in T
    PROVE  0 .. n \subseteq T
<1> DEFINE Bad == {i \in 0 .. n : i \notin T}
<1> SUFFICES ASSUME Bad # {} PROVE FALSE
  OBVIOUS
<1>1. PICK m \in Bad : \A k \in Bad : m <= k
  <2>1. Bad \subseteq Nat
    OBVIOUS
  <2> HIDE DEF Bad
  <2> QED BY <2>1, LeastNumber
<1>2. m # 0 /\ m \in 1 .. n
  OBVIOUS
<1>3. m - 1 \in 0 .. n /\ ~(m <= m - 1)
  BY <1>2
<1>4. m - 1 \in T
  BY <1>1, <1>3
<1> QED BY <1>2, <1>4

\* f[i] is the state of a loop after i rounds; round i makes g[i][s] of s.
IsLoop(f, n, S, s0, g) ==
    /\ f \in [0 .. n -> S]
    /\ f[0] = s0
    /\ \A i \in 1 .. n : f[i] = g[i][f[i - 1]]

\* A loop that the model writes as a recursive function is one: there is such a
\* function for no rounds, and a round can be added to it.
LEMMA Looped ==
    ASSUME NEW n \in Nat, NEW S, NEW s0 \in S, NEW g \in [1 .. n -> [S -> S]]
    PROVE  \E f : IsLoop(f, n, S, s0, g)
<1> DEFINE F(k) == {f \in [0 .. n -> S] : f[0] = s0 /\ \A i \in 1 .. k : f[i] = g[i][f[i - 1]]}
           T == {k \in 0 .. n : F(k) # {}}
<1>1. 0 \in T
  <2> DEFINE f == [i \in 0 .. n |-> s0]
  <2>1. f \in F(0)
    OBVIOUS
  <2> QED BY <2>1
<1>2. ASSUME NEW k \in 1 .. n, k - 1 \in T PROVE k \in T
  <2>1. PICK f \in F(k - 1) : TRUE
    BY <1>2
  <2> DEFINE v == g[k][f[k - 1]]
             h == [f EXCEPT ![k] = v]
  <2>2. f \in [0 .. n -> S] /\ f[0] = s0 /\ \A i \in 1 .. k - 1 : f[i] = g[i][f[i - 1]]
    BY <2>1
  <2>3. g[k] \in [S -> S] /\ f[k - 1] \in S
    BY <2>2
  <2>4. v \in S
    BY <2>3
  <2> HIDE DEF v
  <2>5. h \in [0 .. n -> S] /\ h[0] = s0 /\ h[k] = v /\ \A i \in 0 .. k - 1 : h[i] = f[i]
    BY <2>2, <2>4
  <2> HIDE DEF h
  <2>6. \A i \in 1 .. k : h[i] = g[i][h[i - 1]]
    <3> TAKE i \in 1 .. k
    <3>1. i - 1 \in 0 .. k - 1 /\ h[i - 1] = f[i - 1]
      BY <2>5
    <3>2. CASE i = k
      BY <2>5, <3>1, <3>2 DEF v
    <3>3. CASE i # k
      <4>1. i \in 1 .. k - 1 /\ i \in 0 .. k - 1
        BY <3>3
      <4> QED BY <2>2, <2>5, <3>1, <4>1
    <3> QED BY <3>2, <3>3
  <2>7. h \in F(k)
    BY <2>5, <2>6
  <2> QED BY <2>7
<1> HIDE DEF F
<1>3. 0 .. n \subseteq T
  <2> HIDE DEF T
  <2> QED BY <1>1, <1>2, CountedUp
<1>4. F(n) # {}
  BY <1>3
<1>5. PICK f : f \in F(n)
  BY <1>4
<1>6. IsLoop(f, n, S, s0, g)
  BY <1>5 DEF F, IsLoop
<1> QED BY <1>6

-----------------------------------------------------------------------------
(***************************************************************************)
(* The priority queue                                                      *)
(***************************************************************************)

\* An element of the agenda
Event == [time : Nat, nr : Nat]

\* The inductive invariant: the agenda is an array of events, in order, and the
\* number an event will get is of none that is pending.
PQueueInv ==
    /\ IsArray(agenda, Event)
    /\ added \in Nat
    /\ \A e \in pending : e.nr < added
    /\ AgendaInOrder

\* The first n slots of d, the earliest event last.
InOrder(d, n) == \A i, j \in 0 .. n - 1 : i < j => Earlier(d[j], d[i])

\* Where the binary search looks
LEMMA Middle ==
    ASSUME NEW low \in Nat, NEW high \in Int, low <= high
    PROVE  /\ (low + high) \div 2 \in Nat
           /\ low <= (low + high) \div 2
           /\ (low + high) \div 2 <= high
  OBVIOUS

\* The comparison finds the earlier of two events, or the one that was added first.
LEMMA EventCmpIs ==
    ASSUME NEW x \in Event, NEW y \in Event
    PROVE  EventCmp(x, y) >= 0 <=> x.time <= y.time
  BY DEF EventCmp, Event

-----------------------------------------------------------------------------
(***************************************************************************)
(* The search, the insertion and the removal of the priority queue         *)
(***************************************************************************)

\* The binary search of push: all before its result are later than the new event,
\* all from there on are not.
LEMMA PosOfIs ==
    ASSUME NEW a, IsArray(a, Event), InOrder(a.data, a.size), NEW e \in Event
    PROVE  /\ PosOf(a, e) \in 0 .. a.size
           /\ \A j \in 0 .. PosOf(a, e) - 1 : a.data[j].time > e.time
           /\ \A j \in PosOf(a, e) .. a.size - 1 : a.data[j].time <= e.time
<1> DEFINE n == a.size
           d == a.data
           R == [low : 0 .. n, high : -1 .. n - 1]
           After(s) ==
                LET mid == (s.low + s.high) \div 2
                IN  IF s.low > s.high THEN s
                    ELSE IF EventCmp(d[mid], e) >= 0 THEN [s EXCEPT !.high = mid - 1]
                    ELSE [s EXCEPT !.low = mid + 1]
           s0 == [low |-> 0, high |-> n - 1]
           Is(f) == f = [i \in 0 .. a.size |->
                IF i = 0 THEN [low |-> 0, high |-> a.size - 1]
                ELSE LET s == f[i - 1]
                         mid == (s.low + s.high) \div 2
                     IN  IF s.low > s.high THEN s
                         ELSE IF EventCmp(a.data[mid], e) >= 0 THEN [s EXCEPT !.high = mid - 1]
                         ELSE [s EXCEPT !.low = mid + 1]]
           step == CHOOSE f : Is(f)
           g == [i \in 1 .. n |-> [s \in R |-> After(s)]]
<1>1. PosOf(a, e) = step[a.size].low
  BY Zenon DEF PosOf
<1>2. n \in Nat /\ \A i \in 0 .. n - 1 : d[i] \in Event
  BY DEF IsArray
<1>3. ASSUME NEW s \in R, s.low <= s.high, NEW mid, mid = (s.low + s.high) \div 2
      PROVE  /\ mid \in s.low .. s.high
             /\ mid \in 0 .. n - 1
             /\ [s EXCEPT !.high = mid - 1] = [low |-> s.low, high |-> mid - 1]
             /\ [s EXCEPT !.low = mid + 1] = [low |-> mid + 1, high |-> s.high]
             /\ [low |-> s.low, high |-> mid - 1] \in R
             /\ [low |-> mid + 1, high |-> s.high] \in R
  <2>1. s.low \in 0 .. n /\ s.high \in -1 .. n - 1
    BY DEF R
  <2>2. s.low \in Nat /\ s.high \in Int
    BY <1>2, <2>1
  <2>3. mid \in Nat /\ s.low <= mid /\ mid <= s.high
    BY <1>3, <2>2, Middle
  <2> QED BY <1>2, <2>1, <2>3
<1>4. ASSUME NEW s \in R PROVE After(s) \in R
  <2>1. s.low \in Int /\ s.high \in Int
    BY <1>2
  <2>2. CASE s.low > s.high
    BY <2>2
  <2>3. CASE s.low <= s.high
    <3> DEFINE mid == (s.low + s.high) \div 2
    <3>1. /\ [s EXCEPT !.high = mid - 1] = [low |-> s.low, high |-> mid - 1]
          /\ [s EXCEPT !.low = mid + 1] = [low |-> mid + 1, high |-> s.high]
          /\ [low |-> s.low, high |-> mid - 1] \in R
          /\ [low |-> mid + 1, high |-> s.high] \in R
      BY <1>3, <2>3
    <3>2. \/ After(s) = [s EXCEPT !.high = mid - 1]
          \/ After(s) = [s EXCEPT !.low = mid + 1]
      <4>1. ~(s.low > s.high)
        BY <2>1, <2>3
      <4> QED BY <4>1, Zenon
    <3> HIDE DEF After, R, mid
    <3> QED BY <3>1, <3>2
  <2> QED BY <2>1, <2>2, <2>3
<1>5. s0 \in R
  BY <1>2
<1>6. g \in [1 .. n -> [R -> R]] /\ \A i \in 1 .. n : \A s \in R : g[i][s] = After(s)
  <2> HIDE DEF After, R
  <2> QED BY <1>4
<1>7. \E f : Is(f)
  <2>1. PICK f \in [0 .. n -> R] : f[0] = s0 /\ \A i \in 1 .. n : f[i] = g[i][f[i - 1]]
    <3>1. n \in Nat
      BY <1>2
    <3>2. g \in [1 .. n -> [R -> R]]
      BY <1>6
    <3> HIDE DEF g, s0, R, n
    <3>3. PICK f : IsLoop(f, n, R, s0, g)
      BY <1>5, <3>1, <3>2, Looped
    <3> QED BY <3>3 DEF IsLoop
  <2>2. \A i \in 1 .. n : f[i] = After(f[i - 1])
    <3> HIDE DEF g, R, After
    <3>1. \A i \in 1 .. n : f[i - 1] \in R
      BY <1>2, <2>1
    <3> QED BY <1>6, <2>1, <3>1
  <2> DEFINE h == [i \in 0 .. n |-> IF i = 0 THEN s0 ELSE After(f[i - 1])]
  <2>3. f = h
    <3> HIDE DEF After, s0, R
    <3>1. \A i \in 0 .. n : i = 0 \/ i \in 1 .. n
      BY <1>2
    <3> QED BY <2>1, <2>2, <3>1
  <2>4. Is(f)
    BY <2>3, Zenon
  <2> QED BY <2>4
<1>8. Is(step)
  <2> HIDE DEF Is
  <2> QED BY <1>7
<1>9. step = [i \in 0 .. n |-> IF i = 0 THEN s0 ELSE After(step[i - 1])]
  <2> HIDE DEF step
  <2> QED BY <1>8, Zenon
<1>10. step[0] = s0 /\ \A i \in 1 .. n : step[i] = After(step[i - 1])
  <2> HIDE DEF step, s0, After
  <2>1. 0 \in 0 .. n /\ \A i \in 1 .. n : i \in 0 .. n /\ i # 0
    BY <1>2
  <2> QED BY <1>9, <2>1
<1> HIDE DEF step, Is, g
<1> DEFINE Found(s) ==
                /\ s \in R
                /\ s.low <= s.high + 1
                /\ \A j \in 0 .. s.low - 1 : d[j].time > e.time
                /\ \A j \in s.high + 1 .. n - 1 : d[j].time <= e.time
           T == {i \in 0 .. n : Found(step[i]) /\ step[i].high - step[i].low + 1 <= n - i}
<1>11. 0 \in T
  BY <1>2, <1>10
<1>12. \A i, j \in 0 .. n - 1 : i < j => d[j].time <= d[i].time
  <2>1. \A i, j \in 0 .. n - 1 : i < j => Earlier(d[j], d[i])
    BY DEF InOrder
  <2> QED BY <1>2, <2>1 DEF Earlier, Event
<1>13. ASSUME NEW i \in 1 .. n, i - 1 \in T PROVE i \in T
  <2> DEFINE s == step[i - 1]
             t == step[i]
             mid == (s.low + s.high) \div 2
  <2>1. t = After(s)
    BY <1>10
  <2>2. Found(s) /\ s.high - s.low + 1 <= n - (i - 1)
    BY <1>13
  <2>3. s.low \in 0 .. n /\ s.high \in -1 .. n - 1 /\ i \in 1 .. n
    BY <2>2
  <2> HIDE DEF s, t
  <2>4. CASE s.low > s.high
    <3>1. t = s
      BY <2>1, <2>4
    <3>2. s.high - s.low + 1 <= n - i
      BY <1>2, <2>3, <2>4
    <3> HIDE DEF Found
    <3> QED BY <1>2, <2>2, <3>1, <3>2 DEF s, t
  <2>5. CASE s.low <= s.high
    <3>0. ~(s.low > s.high)
      BY <1>2, <2>3, <2>5
    <3>1. /\ mid \in s.low .. s.high
          /\ mid \in 0 .. n - 1
          /\ [s EXCEPT !.high = mid - 1] = [low |-> s.low, high |-> mid - 1]
          /\ [s EXCEPT !.low = mid + 1] = [low |-> mid + 1, high |-> s.high]
          /\ [low |-> s.low, high |-> mid - 1] \in R
          /\ [low |-> mid + 1, high |-> s.high] \in R
      <4>1. s \in R
        BY <2>2
      <4> QED BY <1>3, <2>5, <4>1
    <3>2. EventCmp(d[mid], e) >= 0 <=> d[mid].time <= e.time
      BY <1>2, <3>1, EventCmpIs
    <3>3. e.time \in Nat /\ \A j \in 0 .. n - 1 : d[j].time \in Nat
      BY <1>2 DEF Event
    <3>4. CASE EventCmp(d[mid], e) >= 0
      <4>1. t = [s EXCEPT !.high = mid - 1]
        BY <2>1, <3>0, <3>4, Zenon
      <4> HIDE DEF mid
      <4>2. t = [low |-> s.low, high |-> mid - 1] /\ t.low = s.low /\ t.high = mid - 1 /\ t \in R
        BY <3>1, <4>1
      <4>3. \A j \in mid .. n - 1 : d[j].time <= e.time
        <5> TAKE j \in mid .. n - 1
        <5>1. j \in 0 .. n - 1 /\ (j = mid \/ mid < j)
          BY <1>2, <3>1
        <5>2. d[mid].time <= e.time /\ (mid < j => d[j].time <= d[mid].time)
          BY <1>12, <3>1, <3>2, <3>4, <5>1
        <5>3. d[mid].time \in Nat /\ d[j].time \in Nat
          BY <3>1, <3>3, <5>1
        <5> QED BY <3>3, <5>1, <5>2, <5>3
      <4>4. (mid - 1) + 1 = mid /\ s.low <= mid /\ (mid - 1) - s.low + 1 <= n - i
        BY <1>2, <2>2, <2>3, <3>1
      <4>5. Found(t)
        BY <2>2, <4>2, <4>3, <4>4
      <4> HIDE DEF Found
      <4> QED BY <4>2, <4>4, <4>5 DEF t
    <3>5. CASE ~(EventCmp(d[mid], e) >= 0)
      <4>1. t = [s EXCEPT !.low = mid + 1]
        BY <2>1, <3>0, <3>5, Zenon
      <4> HIDE DEF mid
      <4>2. t = [low |-> mid + 1, high |-> s.high] /\ t.low = mid + 1 /\ t.high = s.high /\ t \in R
        BY <3>1, <4>1
      <4>3. \A j \in 0 .. mid : d[j].time > e.time
        <5> TAKE j \in 0 .. mid
        <5>1. j \in 0 .. n - 1 /\ (j = mid \/ j < mid)
          BY <1>2, <3>1
        <5>2. ~(d[mid].time <= e.time) /\ (j < mid => d[mid].time <= d[j].time)
          BY <1>12, <3>1, <3>2, <3>5, <5>1
        <5>3. d[mid].time \in Nat /\ d[j].time \in Nat
          BY <3>1, <3>3, <5>1
        <5> QED BY <3>3, <5>1, <5>2, <5>3
      <4>4. (mid + 1) - 1 = mid /\ mid + 1 <= s.high + 1 /\ s.high - (mid + 1) + 1 <= n - i
        BY <1>2, <2>2, <2>3, <3>1
      <4>5. Found(t)
        BY <2>2, <4>2, <4>3, <4>4
      <4> HIDE DEF Found
      <4> QED BY <4>2, <4>4, <4>5 DEF t
    <3> QED BY <3>4, <3>5
  <2> QED BY <1>2, <2>3, <2>4, <2>5
<1>14. n \in T
  <2> HIDE DEF T, n
  <2>1. 0 .. n \subseteq T
    BY <1>2, <1>11, <1>13, CountedUp
  <2> QED BY <1>2, <2>1
<1>15. Found(step[n]) /\ step[n].high - step[n].low + 1 <= n - n
  BY <1>14
<1>16. step[n].low \in 0 .. n /\ step[n].high \in -1 .. n - 1
  BY <1>15
<1>17. step[n].high + 1 = step[n].low
  BY <1>2, <1>15, <1>16
<1> QED BY <1>1, <1>15, <1>16, <1>17

\* array_insertGeneric: those from pos on move up by one.
LEMMA InsertedIs ==
    ASSUME NEW a, NEW E, IsArray(a, E), NEW e \in E, NEW pos \in 0 .. a.size, PosOf(a, e) = pos
    PROVE  /\ IsArray(Inserted(a, e), E)
           /\ Inserted(a, e).size = a.size + 1
           /\ \A i \in 0 .. pos - 1 : Inserted(a, e).data[i] = a.data[i]
           /\ Inserted(a, e).data[pos] = e
           /\ \A i \in pos .. a.size - 1 : Inserted(a, e).data[i + 1] = a.data[i]
<1> DEFINE b == ArrayWithRoom(a)
           c == [b EXCEPT !.data = [ArrayMoved(b.data, pos + 1, pos, b.size - pos) EXCEPT ![pos] = e],
                          !.size = @ + 1]
<1>1. /\ IsArray(b, E)
      /\ b.size = a.size
      /\ a.size < b.capacity
      /\ \A i \in 0 .. a.size - 1 : b.data[i] = a.data[i]
  BY ArrayWithRoomIs
<1>2. c = Inserted(a, e)
  BY Zenon DEF Inserted
<1> HIDE DEF b
<1> DEFINE m == a.size
           n == b.capacity
           bd == b.data
           v == ArrayMoved(bd, pos + 1, pos, m - pos)
           d == [v EXCEPT ![pos] = e]
<1>3. /\ m \in Nat
      /\ n \in Nat
      /\ m + 1 \in 0 .. n
      /\ bd \in [0 .. n - 1 -> E \cup {Junk}]
      /\ \A i \in 0 .. m - 1 : bd[i] \in E /\ bd[i] = a.data[i]
      /\ pos \in 0 .. m
  BY <1>1 DEF IsArray
<1>4. c = [data |-> d, size |-> m + 1, capacity |-> n]
  <2>1. b \in [data : Buffers(E), size : Nat, capacity : Nat]
    BY <1>1 DEF IsArray
  <2>2. c = [b EXCEPT !.data = d, !.size = m + 1]
    <3>1. c = [b EXCEPT !.data = [ArrayMoved(b.data, pos + 1, pos, b.size - pos) EXCEPT ![pos] = e],
                        !.size = b.size + 1]
      BY Zenon
    <3> HIDE DEF c
    <3> QED BY <1>1, <3>1
  <2> HIDE DEF c, d
  <2> QED BY <2>1, <2>2
<1>5. v = [i \in 0 .. n - 1 |-> IF i \in pos + 1 .. pos + 1 + (m - pos) - 1 THEN bd[i - (pos + 1) + pos] ELSE bd[i]]
  <2>1. DOMAIN bd = 0 .. n - 1
    BY <1>3
  <2> HIDE DEF bd
  <2> QED BY <2>1 DEF ArrayMoved
<1> HIDE DEF bd, n, m, v, d, c
<1>6. /\ pos + 1 + (m - pos) - 1 = m
      /\ \A i \in Int : i - (pos + 1) + pos = i - 1
  BY <1>3
<1>7. v = [i \in 0 .. n - 1 |-> IF i \in pos + 1 .. m THEN bd[i - 1] ELSE bd[i]]
  <2>1. \A i \in 0 .. n - 1 : i - (pos + 1) + pos = i - 1
    BY <1>3
  <2>2. pos + 1 .. pos + 1 + (m - pos) - 1 = pos + 1 .. m
    BY <1>3
  <2> QED BY <1>5, <2>1, <2>2
<1>8. v \in [0 .. n - 1 -> E \cup {Junk}]
  <2>1. \A i \in 0 .. n - 1 : i \in pos + 1 .. m => i - 1 \in 0 .. n - 1
    BY <1>3
  <2>2. \A i \in 0 .. n - 1 : (IF i \in pos + 1 .. m THEN bd[i - 1] ELSE bd[i]) \in E \cup {Junk}
    BY <1>3, <2>1
  <2> QED BY <1>7, <2>2
<1>9. /\ d \in [0 .. n - 1 -> E \cup {Junk}]
      /\ d[pos] = e
      /\ \A i \in 0 .. n - 1 : i # pos => d[i] = v[i]
  BY <1>3, <1>8 DEF d
<1>10. ASSUME NEW i \in 0 .. pos - 1 PROVE d[i] = a.data[i] /\ a.data[i] \in E
  <2>1. i \in 0 .. n - 1 /\ i # pos /\ i \notin pos + 1 .. m /\ i \in 0 .. m - 1
    BY <1>3
  <2>2. v[i] = bd[i]
    BY <1>7, <2>1
  <2> QED BY <1>3, <1>9, <2>1, <2>2
<1>11. ASSUME NEW i \in pos .. m - 1 PROVE d[i + 1] = a.data[i] /\ a.data[i] \in E
  <2>1. i + 1 \in 0 .. n - 1 /\ i + 1 # pos /\ i + 1 \in pos + 1 .. m /\ i \in 0 .. m - 1 /\ (i + 1) - 1 = i
    BY <1>3
  <2>2. v[i + 1] = bd[i]
    BY <1>7, <2>1
  <2> QED BY <1>3, <1>9, <2>1, <2>2
<1>12. \A i \in 0 .. (m + 1) - 1 : d[i] \in E
  <2> TAKE i \in 0 .. (m + 1) - 1
  <2>1. i \in 0 .. pos - 1 \/ i = pos \/ (i - 1 \in pos .. m - 1 /\ (i - 1) + 1 = i)
    BY <1>3
  <2> QED BY <1>9, <1>10, <1>11, <2>1
<1>13. IsArray(c, E)
  BY <1>3, <1>4, <1>9, <1>12, ArrayMadeOf
<1>14. c.data = d /\ c.size = m + 1
  BY <1>4
<1> QED BY <1>2, <1>9, <1>10, <1>11, <1>13, <1>14 DEF m

\* An event is pushed: its number is larger than those of the same time.
LEMMA PushInv ==
    ASSUME PQueueInv, NEW t \in Times, PQueuePush(t)
    PROVE  PQueueInv'
<1> DEFINE e == [time |-> t, nr |-> added]
           n == agenda.size
           d == agenda.data
           pos == PosOf(agenda, e)
           c == Inserted(agenda, e)
<1>1. /\ agenda' = c
      /\ added' = added + 1
      /\ pending' = pending \cup {e}
  BY Zenon DEF PQueuePush
<1>2. e \in Event /\ e.nr = added /\ e.time = t /\ added \in Nat /\ t \in Nat
  BY PQueueAssumption DEF PQueueInv, Event
<1>3. /\ IsArray(agenda, Event)
      /\ n \in Nat
      /\ \A i \in 0 .. n - 1 : d[i] \in Event
      /\ {d[i] : i \in 0 .. n - 1} = pending
      /\ InOrder(d, n)
  BY DEF PQueueInv, IsArray, AgendaInOrder, InOrder
<1>4. \A i \in 0 .. n - 1 : d[i] \in pending /\ d[i].nr < added
  BY <1>3 DEF PQueueInv
<1> HIDE DEF e, n, d
<1>5. /\ pos \in 0 .. n
      /\ \A j \in 0 .. pos - 1 : d[j].time > e.time
      /\ \A j \in pos .. n - 1 : d[j].time <= e.time
  BY <1>2, <1>3, PosOfIs DEF n, d
<1>6. /\ IsArray(c, Event)
      /\ c.size = n + 1
      /\ \A i \in 0 .. pos - 1 : c.data[i] = d[i]
      /\ c.data[pos] = e
      /\ \A i \in pos .. n - 1 : c.data[i + 1] = d[i]
  <2> HIDE DEF pos
  <2>1. pos \in 0 .. agenda.size
    BY <1>5 DEF n
  <2>2. PosOf(agenda, e) = pos
    BY DEF pos
  <2> QED BY <1>2, <1>3, <2>1, <2>2, InsertedIs DEF n, d
<1> HIDE DEF pos, c
<1>7. ASSUME NEW i \in 0 .. n
      PROVE  \/ i \in 0 .. pos - 1 /\ c.data[i] = d[i] /\ i \in 0 .. n - 1
             \/ i = pos /\ c.data[i] = e
             \/ i - 1 \in pos .. n - 1 /\ c.data[i] = d[i - 1] /\ i - 1 \in 0 .. n - 1
  <2>1. \/ i \in 0 .. pos - 1 /\ i \in 0 .. n - 1
        \/ i = pos
        \/ i - 1 \in pos .. n - 1 /\ (i - 1) + 1 = i /\ i - 1 \in 0 .. n - 1
    BY <1>3, <1>5
  <2> QED BY <1>6, <2>1
<1>8. {c.data[i] : i \in 0 .. n} = pending \cup {e}
  <2>1. ASSUME NEW i \in 0 .. n PROVE c.data[i] \in pending \cup {e}
    BY <1>4, <1>7
  <2>2. ASSUME NEW x \in pending PROVE \E i \in 0 .. n : c.data[i] = x
    <3>1. PICK i \in 0 .. n - 1 : d[i] = x
      BY <1>3
    <3>2. \/ i \in 0 .. pos - 1 /\ i \in 0 .. n
          \/ i \in pos .. n - 1 /\ i + 1 \in 0 .. n
      BY <1>3, <1>5
    <3> QED BY <1>6, <3>1, <3>2
  <2>3. pos \in 0 .. n /\ c.data[pos] = e
    BY <1>5, <1>6
  <2> QED BY <2>1, <2>2, <2>3
<1>9. ASSUME NEW i \in 0 .. n, NEW j \in 0 .. n, i < j PROVE Earlier(c.data[j], c.data[i])
  <2>1. \A k, l \in 0 .. n - 1 : k < l => Earlier(d[l], d[k])
    BY <1>3 DEF InOrder
  <2>2. \A k \in 0 .. pos - 1 : k \in 0 .. n - 1 /\ Earlier(e, d[k])
    <3> TAKE k \in 0 .. pos - 1
    <3>1. k \in 0 .. n - 1 /\ d[k].time > e.time
      BY <1>3, <1>5
    <3>2. d[k].time \in Nat /\ e.time \in Nat
      BY <1>2, <1>3, <3>1 DEF Event
    <3> QED BY <3>1, <3>2 DEF Earlier
  <2>3. \A k \in pos .. n - 1 : k \in 0 .. n - 1 /\ Earlier(d[k], e)
    <3> TAKE k \in pos .. n - 1
    <3>1. k \in 0 .. n - 1 /\ d[k].time <= e.time /\ d[k].nr < added
      BY <1>3, <1>4, <1>5
    <3>2. d[k].time \in Nat /\ e.time \in Nat /\ d[k].nr \in Nat
      BY <1>2, <1>3, <3>1 DEF Event
    <3> QED BY <1>2, <3>1, <3>2 DEF Earlier
  <2>4. i \in Int /\ j \in Int /\ pos \in Int /\ n \in Int
    BY <1>3, <1>5
  <2>5. CASE i \in 0 .. pos - 1 /\ c.data[i] = d[i] /\ i \in 0 .. n - 1
    <3>1. CASE j \in 0 .. pos - 1 /\ c.data[j] = d[j] /\ j \in 0 .. n - 1
      BY <1>9, <2>1, <2>5, <3>1
    <3>2. CASE j = pos /\ c.data[j] = e
      BY <2>2, <2>5, <3>2
    <3>3. CASE j - 1 \in pos .. n - 1 /\ c.data[j] = d[j - 1] /\ j - 1 \in 0 .. n - 1
      <4>1. i < j - 1
        BY <2>4, <2>5, <3>3
      <4> QED BY <2>1, <2>5, <3>3, <4>1
    <3> QED BY <1>7, <3>1, <3>2, <3>3
  <2>6. CASE i = pos /\ c.data[i] = e
    <3>1. j - 1 \in pos .. n - 1 /\ c.data[j] = d[j - 1]
      <4>1. ~(j \in 0 .. pos - 1) /\ ~(j = pos)
        BY <1>9, <2>4, <2>6
      <4> QED BY <1>7, <4>1
    <3> QED BY <2>3, <2>6, <3>1
  <2>7. CASE i - 1 \in pos .. n - 1 /\ c.data[i] = d[i - 1] /\ i - 1 \in 0 .. n - 1
    <3>1. ~(j \in 0 .. pos - 1) /\ ~(j = pos)
      BY <1>9, <2>4, <2>7
    <3>2. j - 1 \in pos .. n - 1 /\ c.data[j] = d[j - 1] /\ j - 1 \in 0 .. n - 1
      BY <1>7, <3>1
    <3>3. i - 1 < j - 1
      BY <1>9, <2>4
    <3> QED BY <2>1, <2>7, <3>2, <3>3
  <2> QED BY <1>7, <2>5, <2>6, <2>7
<1>10. (n + 1) - 1 = n /\ c.size - 1 = n
  BY <1>3, <1>6
<1>11. \A x \in pending \cup {e} : x.nr < added + 1
  <2>1. \A x \in pending : x.nr \in Nat /\ x.nr < added
    BY <1>3, <1>4 DEF Event
  <2> QED BY <1>2, <2>1
<1>12. AgendaInOrder'
  BY <1>1, <1>8, <1>9, <1>10 DEF AgendaInOrder
<1> QED BY <1>1, <1>2, <1>6, <1>11, <1>12 DEF PQueueInv

\* What the loop of remove has made of the array a after i elements.
ThinnedTo(s, a, S, i) ==
    /\ s.dst \in 0 .. i
    /\ s.count = i - s.dst
    /\ s.data \in [0 .. a.capacity - 1 -> Event \cup {Junk}]
    /\ \A j \in i .. a.size - 1 : s.data[j] = a.data[j]
    /\ \A j \in 0 .. s.dst - 1 : \E k \in 0 .. i - 1 : s.data[j] = a.data[k] /\ a.data[k].nr \notin S
    /\ \A k \in 0 .. i - 1 : a.data[k].nr \notin S => \E j \in 0 .. s.dst - 1 : s.data[j] = a.data[k]
    /\ InOrder(s.data, s.dst)

\* A round of the loop: an element is left out, or moved down.
LEMMA ThinnedOn ==
    ASSUME NEW a, IsArray(a, Event), InOrder(a.data, a.size), NEW S, NEW i \in 1 .. a.size,
           NEW s \in [data : [0 .. a.capacity - 1 -> Event \cup {Junk}], dst : Nat, count : Nat],
           ThinnedTo(s, a, S, i - 1), NEW e, e = s.data[i - 1]
    PROVE  IF e.nr \in S THEN ThinnedTo([s EXCEPT !.count = @ + 1], a, S, i)
           ELSE ThinnedTo([s EXCEPT !.data[s.dst] = e, !.dst = @ + 1], a, S, i)
<1> DEFINE n == a.size
           cap == a.capacity
           d == a.data
           sd == s.data
           m == s.dst
<1>1. /\ n \in Nat /\ cap \in Nat /\ n <= cap /\ i \in 1 .. n
      /\ \A k \in 0 .. n - 1 : d[k] \in Event
      /\ \A k, l \in 0 .. n - 1 : k < l => Earlier(d[l], d[k])
  BY DEF IsArray, InOrder
<1>2. /\ m \in 0 .. i - 1
      /\ s.count = (i - 1) - m
      /\ sd \in [0 .. cap - 1 -> Event \cup {Junk}]
      /\ \A j \in i - 1 .. n - 1 : sd[j] = d[j]
      /\ \A j \in 0 .. m - 1 : \E k \in 0 .. (i - 1) - 1 : sd[j] = d[k] /\ d[k].nr \notin S
      /\ \A k \in 0 .. (i - 1) - 1 : d[k].nr \notin S => \E j \in 0 .. m - 1 : sd[j] = d[k]
      /\ \A k, l \in 0 .. m - 1 : k < l => Earlier(sd[l], sd[k])
  BY DEF ThinnedTo, InOrder
<1>3. i - 1 \in 0 .. n - 1 /\ i - 1 \in 0 .. cap - 1 /\ e = d[i - 1] /\ e \in Event
  <2>1. i - 1 \in 0 .. n - 1 /\ i - 1 \in 0 .. cap - 1 /\ i - 1 \in i - 1 .. n - 1
    BY <1>1
  <2> QED BY <1>1, <1>2, <2>1
<1>4. \A k \in 0 .. i - 1 : k \in 0 .. (i - 1) - 1 \/ k = i - 1
  BY <1>1
<1>5. CASE e.nr \in S
  <2> DEFINE t == [s EXCEPT !.count = @ + 1]
  <2>1. t = [data |-> sd, dst |-> m, count |-> s.count + 1]
    OBVIOUS
  <2>2. t.data = sd /\ t.dst = m /\ t.count = i - m
    BY <1>1, <1>2, <2>1
  <2> HIDE DEF t, sd, m, d, n, cap
  <2>3. m \in 0 .. i
    BY <1>1, <1>2
  <2>4. \A j \in i .. n - 1 : sd[j] = d[j]
    <3>1. \A j \in i .. n - 1 : j \in i - 1 .. n - 1
      BY <1>1
    <3> QED BY <1>2, <3>1
  <2>5. \A j \in 0 .. m - 1 : \E k \in 0 .. i - 1 : sd[j] = d[k] /\ d[k].nr \notin S
    <3>1. 0 .. (i - 1) - 1 \subseteq 0 .. i - 1
      BY <1>1
    <3> QED BY <1>2, <3>1
  <2>6. \A k \in 0 .. i - 1 : d[k].nr \notin S => \E j \in 0 .. m - 1 : sd[j] = d[k]
    BY <1>2, <1>3, <1>4, <1>5
  <2>7. ThinnedTo(t, a, S, i)
    BY <1>2, <2>2, <2>3, <2>4, <2>5, <2>6 DEF ThinnedTo, InOrder, n, cap, d
  <2> QED BY <1>5, <2>7 DEF t
<1>6. CASE e.nr \notin S
  <2> DEFINE td == [sd EXCEPT ![m] = e]
             t == [s EXCEPT !.data[s.dst] = e, !.dst = @ + 1]
  <2>1. t = [data |-> td, dst |-> m + 1, count |-> s.count]
    <3>1. t = [s EXCEPT !.data = td, !.dst = m + 1]
      BY Zenon
    <3> HIDE DEF t, td
    <3> QED BY <3>1
  <2> HIDE DEF t
  <2>2. t.data = td /\ t.dst = m + 1 /\ t.count = i - (m + 1)
    BY <1>1, <1>2, <2>1
  <2> HIDE DEF sd, m, d, n, cap
  <2>3. m \in 0 .. cap - 1 /\ m + 1 \in 0 .. i /\ (m + 1) - 1 = m
    BY <1>1, <1>2
  <2>4. /\ td \in [0 .. cap - 1 -> Event \cup {Junk}]
        /\ td[m] = e
        /\ \A j \in 0 .. cap - 1 : j # m => td[j] = sd[j]
    BY <1>2, <1>3, <2>3
  <2> HIDE DEF td
  <2>5. \A j \in i .. n - 1 : td[j] = d[j]
    <3>1. \A j \in i .. n - 1 : j \in i - 1 .. n - 1 /\ j \in 0 .. cap - 1 /\ j # m
      BY <1>1, <1>2
    <3> QED BY <1>2, <2>4, <3>1
  <2>6. \A j \in 0 .. m - 1 : td[j] = sd[j]
    <3>1. \A j \in 0 .. m - 1 : j \in 0 .. cap - 1 /\ j # m
      BY <1>1, <1>2
    <3> QED BY <2>4, <3>1
  <2>7. \A j \in 0 .. (m + 1) - 1 : j \in 0 .. m - 1 \/ j = m
    BY <1>1, <1>2
  <2>8. \A j \in 0 .. (m + 1) - 1 : \E k \in 0 .. i - 1 : td[j] = d[k] /\ d[k].nr \notin S
    <3> TAKE j \in 0 .. (m + 1) - 1
    <3>1. CASE j \in 0 .. m - 1
      <4>1. PICK k \in 0 .. (i - 1) - 1 : sd[j] = d[k] /\ d[k].nr \notin S
        BY <1>2, <3>1
      <4>2. k \in 0 .. i - 1
        BY <1>1
      <4> QED BY <2>6, <3>1, <4>1, <4>2
    <3>2. CASE j = m
      <4>1. i - 1 \in 0 .. i - 1
        BY <1>1
      <4> QED BY <1>3, <1>6, <2>4, <3>2, <4>1
    <3> QED BY <2>7, <3>1, <3>2
  <2>9. \A k \in 0 .. i - 1 : d[k].nr \notin S => \E j \in 0 .. (m + 1) - 1 : td[j] = d[k]
    <3> TAKE k \in 0 .. i - 1
    <3>1. 0 .. m - 1 \subseteq 0 .. (m + 1) - 1 /\ m \in 0 .. (m + 1) - 1
      BY <1>1, <1>2
    <3>2. CASE k \in 0 .. (i - 1) - 1
      BY <1>2, <2>6, <3>1, <3>2
    <3>3. CASE k = i - 1
      BY <1>3, <2>4, <3>1, <3>3
    <3> QED BY <1>4, <3>2, <3>3
  <2>10. \A k, l \in 0 .. (m + 1) - 1 : k < l => Earlier(td[l], td[k])
    <3> SUFFICES ASSUME NEW k \in 0 .. (m + 1) - 1, NEW l \in 0 .. (m + 1) - 1, k < l
                 PROVE  Earlier(td[l], td[k])
      OBVIOUS
    <3>1. CASE l \in 0 .. m - 1
      <4>1. k \in 0 .. m - 1
        BY <1>1, <1>2, <3>1
      <4> QED BY <1>2, <2>6, <3>1, <4>1
    <3>2. CASE l = m
      <4>1. k \in 0 .. m - 1
        BY <1>1, <1>2, <3>2
      <4>2. PICK k0 \in 0 .. (i - 1) - 1 : sd[k] = d[k0]
        BY <1>2, <4>1
      <4>3. k0 \in 0 .. n - 1 /\ k0 < i - 1
        BY <1>1
      <4>4. Earlier(d[i - 1], d[k0])
        BY <1>1, <1>3, <4>3
      <4> QED BY <1>3, <2>4, <2>6, <3>2, <4>1, <4>2, <4>4
    <3> QED BY <2>7, <3>1, <3>2
  <2>11. ThinnedTo(t, a, S, i)
    <3>1. t.dst \in 0 .. i /\ t.count = i - t.dst
      BY <2>2, <2>3
    <3>2. /\ t.data \in [0 .. a.capacity - 1 -> Event \cup {Junk}]
          /\ \A j \in i .. a.size - 1 : t.data[j] = a.data[j]
      BY <2>2, <2>4, <2>5 DEF n, cap, d
    <3>3. \A j \in 0 .. t.dst - 1 : \E k \in 0 .. i - 1 : t.data[j] = a.data[k] /\ a.data[k].nr \notin S
      BY <2>2, <2>8 DEF d
    <3>4. \A k \in 0 .. i - 1 : a.data[k].nr \notin S => \E j \in 0 .. t.dst - 1 : t.data[j] = a.data[k]
      BY <2>2, <2>9 DEF d
    <3>5. InOrder(t.data, t.dst)
      BY <2>2, <2>10 DEF InOrder
    <3> QED BY <3>1, <3>2, <3>3, <3>4, <3>5 DEF ThinnedTo
  <2> QED BY <1>6, <2>11 DEF t, sd, m
<1> QED BY <1>5, <1>6

\* The loop of pqueue_remove, as a whole: those that are kept are in their order.
LEMMA ThinnedIs ==
    ASSUME NEW a, IsArray(a, Event), InOrder(a.data, a.size), NEW S
    PROVE  \E s : /\ s \in [data : [0 .. a.capacity - 1 -> Event \cup {Junk}], dst : Nat, count : Nat]
                  /\ ThinnedTo(s, a, S, a.size)
                  /\ Thinned(a, S) = [a EXCEPT !.data = s.data, !.size = @ - s.count]
<1> DEFINE n == a.size
           R == [data : [0 .. a.capacity - 1 -> Event \cup {Junk}], dst : Nat, count : Nat]
           After(s, i) ==
                LET e == s.data[i - 1]
                IN  IF e.nr \in S THEN [s EXCEPT !.count = @ + 1]
                    ELSE [s EXCEPT !.data[s.dst] = e, !.dst = @ + 1]
           s0 == [data |-> a.data, dst |-> 0, count |-> 0]
           Is(f) == f = [i \in 0 .. a.size |->
                IF i = 0 THEN [data |-> a.data, dst |-> 0, count |-> 0]
                ELSE LET s == f[i - 1]
                         e == s.data[i - 1]
                     IN  IF e.nr \in S THEN [s EXCEPT !.count = @ + 1]
                         ELSE [s EXCEPT !.data[s.dst] = e, !.dst = @ + 1]]
           step == CHOOSE f : Is(f)
           g == [i \in 1 .. n |-> [s \in R |-> After(s, i)]]
<1>1. Thinned(a, S) = [a EXCEPT !.data = step[a.size].data, !.size = @ - step[a.size].count]
  BY Zenon DEF Thinned
<1>2. /\ n \in Nat /\ a.capacity \in Nat /\ n <= a.capacity
      /\ a.data \in [0 .. a.capacity - 1 -> Event \cup {Junk}]
  BY DEF IsArray
<1>3. ASSUME NEW i \in 1 .. n, NEW s \in R PROVE After(s, i) \in R
  <2> DEFINE e == s.data[i - 1]
             sd == s.data
             m == s.dst
  <2>1. i - 1 \in 0 .. a.capacity - 1
    BY <1>2
  <2>2. e \in Event \cup {Junk} /\ s.dst \in Nat /\ s.count \in Nat
        /\ sd \in [0 .. a.capacity - 1 -> Event \cup {Junk}]
    BY <2>1
  <2> HIDE DEF e
  <2>3. [s EXCEPT !.count = @ + 1] \in R
    BY <2>2
  <2>4. [s EXCEPT !.data[s.dst] = e, !.dst = @ + 1] \in R
    <3> DEFINE td == [sd EXCEPT ![m] = e]
               t == [s EXCEPT !.data[s.dst] = e, !.dst = @ + 1]
    <3>1. t = [s EXCEPT !.data = td, !.dst = m + 1]
      BY Zenon
    <3>2. td \in [0 .. a.capacity - 1 -> Event \cup {Junk}]
      BY <2>2
    <3> HIDE DEF t, td
    <3>3. t = [data |-> td, dst |-> m + 1, count |-> s.count]
      BY <3>1
    <3>4. m + 1 \in Nat
      BY <2>2
    <3> QED BY <2>2, <3>2, <3>3, <3>4 DEF t
  <2>5. \/ After(s, i) = [s EXCEPT !.count = @ + 1]
        \/ After(s, i) = [s EXCEPT !.data[s.dst] = e, !.dst = @ + 1]
    BY Zenon DEF e
  <2> HIDE DEF After, R
  <2> QED BY <2>3, <2>4, <2>5
<1>4. s0 \in R
  BY <1>2
<1>5. g \in [1 .. n -> [R -> R]] /\ \A i \in 1 .. n : \A s \in R : g[i][s] = After(s, i)
  <2> HIDE DEF After, R
  <2> QED BY <1>3
<1>6. \E f : Is(f) /\ f \in [0 .. n -> R]
  <2>1. PICK f \in [0 .. n -> R] : f[0] = s0 /\ \A i \in 1 .. n : f[i] = g[i][f[i - 1]]
    <3>1. n \in Nat
      BY <1>2
    <3>2. g \in [1 .. n -> [R -> R]]
      BY <1>5
    <3> HIDE DEF g, s0, R, n
    <3>3. PICK f : IsLoop(f, n, R, s0, g)
      BY <1>4, <3>1, <3>2, Looped
    <3> QED BY <3>3 DEF IsLoop
  <2>2. \A i \in 1 .. n : f[i] = After(f[i - 1], i)
    <3> HIDE DEF g, R, After
    <3>1. \A i \in 1 .. n : f[i - 1] \in R
      BY <1>2, <2>1
    <3> QED BY <1>5, <2>1, <3>1
  <2> DEFINE h == [i \in 0 .. n |-> IF i = 0 THEN s0 ELSE After(f[i - 1], i)]
  <2>3. f = h
    <3> HIDE DEF After, s0, R
    <3>1. \A i \in 0 .. n : i = 0 \/ i \in 1 .. n
      BY <1>2
    <3> QED BY <2>1, <2>2, <3>1
  <2>4. Is(f)
    BY <2>3, Zenon
  <2> QED BY <2>1, <2>4
<1>7. Is(step)
  <2> HIDE DEF Is
  <2> QED BY <1>6
<1>8. step = [i \in 0 .. n |-> IF i = 0 THEN s0 ELSE After(step[i - 1], i)]
  <2> HIDE DEF step
  <2> QED BY <1>7, Zenon
<1>9. step[0] = s0 /\ \A i \in 1 .. n : step[i] = After(step[i - 1], i)
  <2> HIDE DEF step, s0, After
  <2>1. 0 \in 0 .. n /\ \A i \in 1 .. n : i \in 0 .. n /\ i # 0
    BY <1>2
  <2> QED BY <1>8, <2>1
<1> HIDE DEF step, Is, g
<1> DEFINE T == {i \in 0 .. n : step[i] \in R /\ ThinnedTo(step[i], a, S, i)}
<1>10. 0 \in T
  <2>1. /\ s0.dst = 0 /\ s0.count = 0 /\ s0.data = a.data
        /\ 0 \in 0 .. 0 /\ 0 = 0 - 0 /\ 0 .. 0 - 1 = {}
    OBVIOUS
  <2> HIDE DEF s0
  <2>2. ThinnedTo(s0, a, S, 0)
    BY <1>2, <2>1 DEF ThinnedTo, InOrder
  <2>3. 0 \in 0 .. n
    BY <1>2
  <2> HIDE DEF R
  <2> QED BY <1>4, <1>9, <2>2, <2>3
<1>11. ASSUME NEW i \in 1 .. n, i - 1 \in T PROVE i \in T
  <2> DEFINE s == step[i - 1]
             e == s.data[i - 1]
  <2>1. s \in R /\ ThinnedTo(s, a, S, i - 1)
    BY <1>11
  <2>2. step[i] = After(s, i)
    BY <1>9
  <2>3. step[i] \in R
    <3> HIDE DEF After, R, s
    <3> QED BY <1>3, <2>1, <2>2
  <2> HIDE DEF s
  <2>4. IF e.nr \in S THEN ThinnedTo([s EXCEPT !.count = @ + 1], a, S, i)
        ELSE ThinnedTo([s EXCEPT !.data[s.dst] = e, !.dst = @ + 1], a, S, i)
    <3> HIDE DEF e
    <3>1. e = s.data[i - 1]
      BY DEF e
    <3> QED BY <2>1, <3>1, ThinnedOn
  <2>5. step[i] = IF e.nr \in S THEN [s EXCEPT !.count = @ + 1]
                  ELSE [s EXCEPT !.data[s.dst] = e, !.dst = @ + 1]
    BY <2>2, Zenon
  <2>6. ThinnedTo(step[i], a, S, i)
    BY <2>4, <2>5, Zenon
  <2>7. i \in 0 .. n
    BY <1>2
  <2> HIDE DEF R
  <2> QED BY <2>3, <2>6, <2>7
<1>12. n \in T
  <2> HIDE DEF T, n
  <2>1. 0 .. n \subseteq T
    BY <1>2, <1>10, <1>11, CountedUp
  <2> QED BY <1>2, <2>1
<1>13. step[n] \in R /\ ThinnedTo(step[n], a, S, a.size)
  BY <1>12
<1> HIDE DEF R
<1> QED BY <1>1, <1>13 DEF R

\* Events are removed by a predicate.
LEMMA RemoveInv ==
    ASSUME PQueueInv, NEW S, PQueueRemove(S)
    PROVE  PQueueInv'
<1> DEFINE n == agenda.size
           cap == agenda.capacity
           d == agenda.data
<1>1. /\ agenda' = Thinned(agenda, S)
      /\ pending' = {e \in pending : e.nr \notin S}
      /\ added' = added
  BY DEF PQueueRemove
<1>2. /\ IsArray(agenda, Event)
      /\ n \in Nat /\ cap \in Nat /\ n <= cap
      /\ \A i \in 0 .. n - 1 : d[i] \in Event
      /\ {d[i] : i \in 0 .. n - 1} = pending
      /\ InOrder(d, n)
      /\ agenda \in [data : Buffers(Event), size : Nat, capacity : Nat]
  BY DEF PQueueInv, IsArray, AgendaInOrder, InOrder
<1>3. PICK s : /\ s \in [data : [0 .. cap - 1 -> Event \cup {Junk}], dst : Nat, count : Nat]
               /\ ThinnedTo(s, agenda, S, n)
               /\ Thinned(agenda, S) = [agenda EXCEPT !.data = s.data, !.size = @ - s.count]
  BY <1>2, ThinnedIs
<1> DEFINE m == s.dst
           td == s.data
           c == [agenda EXCEPT !.data = td, !.size = @ - s.count]
<1>4. /\ m \in 0 .. n /\ n - s.count = m
      /\ td \in [0 .. cap - 1 -> Event \cup {Junk}]
      /\ \A j \in 0 .. m - 1 : \E k \in 0 .. n - 1 : td[j] = d[k] /\ d[k].nr \notin S
      /\ \A k \in 0 .. n - 1 : d[k].nr \notin S => \E j \in 0 .. m - 1 : td[j] = d[k]
      /\ InOrder(td, m)
  <2>1. s.dst \in 0 .. n /\ s.count = n - s.dst
    BY <1>3 DEF ThinnedTo
  <2>2. n - s.count = m
    BY <1>2, <2>1
  <2> QED BY <1>3, <2>1, <2>2 DEF ThinnedTo
<1>5. c = [data |-> td, size |-> m, capacity |-> cap]
  <2>1. c = [agenda EXCEPT !.data = td, !.size = n - s.count]
    OBVIOUS
  <2> HIDE DEF c, td
  <2> QED BY <1>2, <1>4, <2>1
<1>6. agenda' = c
  BY <1>1, <1>3
<1> HIDE DEF c, td, m, d, n, cap
<1>7. \A i \in 0 .. m - 1 : td[i] \in Event
  BY <1>2, <1>4
<1>8. m \in 0 .. cap
  BY <1>2, <1>4
<1>9. IsArray(c, Event)
  BY <1>2, <1>4, <1>5, <1>7, <1>8, ArrayMadeOf
<1>10. {td[i] : i \in 0 .. m - 1} = {e \in pending : e.nr \notin S}
  <2>1. ASSUME NEW i \in 0 .. m - 1 PROVE td[i] \in {e \in pending : e.nr \notin S}
    <3>1. PICK k \in 0 .. n - 1 : td[i] = d[k] /\ d[k].nr \notin S
      BY <1>4
    <3>2. d[k] \in pending
      BY <1>2
    <3> QED BY <3>1, <3>2
  <2>2. ASSUME NEW e \in pending, e.nr \notin S PROVE \E i \in 0 .. m - 1 : td[i] = e
    <3>1. PICK k \in 0 .. n - 1 : d[k] = e
      BY <1>2
    <3> QED BY <1>4, <2>2, <3>1
  <2> QED BY <2>1, <2>2
<1>11. c.size = m /\ c.data = td
  BY <1>5
<1>12. AgendaInOrder'
  BY <1>1, <1>4, <1>6, <1>10, <1>11 DEF AgendaInOrder, InOrder
<1>13. \A e \in pending' : e.nr < added'
  BY <1>1 DEF PQueueInv
<1> QED BY <1>1, <1>6, <1>9, <1>12, <1>13 DEF PQueueInv

\* The last element of the array is taken.
LEMMA PopInv ==
    ASSUME PQueueInv, PQueuePop
    PROVE  PQueueInv'
<1> DEFINE n == agenda.size
           d == agenda.data
           c == ArrayPopped(agenda)
<1>1. /\ n > 0
      /\ agenda' = c
      /\ pending' = pending \ {d[n - 1]}
      /\ added' = added
  BY DEF PQueuePop, PQueueFront
<1>2. /\ n \in Nat
      /\ \A i \in 0 .. n - 1 : d[i] \in Event
      /\ {d[i] : i \in 0 .. n - 1} = pending
      /\ \A i, j \in 0 .. n - 1 : i < j => Earlier(d[j], d[i])
      /\ agenda \in [data : Buffers(Event), size : Nat, capacity : Nat]
      /\ n <= agenda.capacity
      /\ d \in [0 .. agenda.capacity - 1 -> Event \cup {Junk}]
  BY DEF PQueueInv, IsArray, AgendaInOrder
<1>3. c = [data |-> d, size |-> n - 1, capacity |-> agenda.capacity]
  BY <1>2 DEF ArrayPopped
<1>4. c.data = d /\ c.size = n - 1 /\ c.capacity = agenda.capacity
  BY <1>3
<1> HIDE DEF c, d, n
<1>5. \A i \in 0 .. (n - 1) - 1 : i \in 0 .. n - 1 /\ i < n - 1
  BY <1>2
<1>6. n - 1 \in 0 .. n - 1 /\ n - 1 \in 0 .. agenda.capacity
  BY <1>1, <1>2
<1>7. \A i \in 0 .. (n - 1) - 1 : d[i] # d[n - 1]
  <2> TAKE i \in 0 .. (n - 1) - 1
  <2>1. Earlier(d[n - 1], d[i])
    BY <1>2, <1>5, <1>6
  <2>2. d[i] \in Event
    BY <1>2, <1>5
  <2> QED BY <2>1, <2>2 DEF Earlier, Event
<1>8. {d[i] : i \in 0 .. (n - 1) - 1} = pending \ {d[n - 1]}
  <2>1. \A i \in 0 .. n - 1 : i = n - 1 \/ i \in 0 .. (n - 1) - 1
    BY <1>2
  <2> QED BY <1>2, <1>5, <1>6, <1>7, <2>1
<1>9. AgendaInOrder'
  <2>1. \A i, j \in 0 .. (n - 1) - 1 : i < j => Earlier(d[j], d[i])
    BY <1>2, <1>5
  <2> QED BY <1>1, <1>4, <1>8, <2>1 DEF AgendaInOrder
<1>10. IsArray(c, Event)
  <2>1. \A i \in 0 .. (n - 1) - 1 : d[i] \in Event
    BY <1>2, <1>5
  <2>2. agenda.capacity \in Nat
    BY <1>2
  <2> QED BY <1>2, <1>3, <1>6, <2>1, <2>2, ArrayMadeOf
<1>11. \A e \in pending' : e.nr < added'
  BY <1>1 DEF PQueueInv
<1> QED BY <1>1, <1>9, <1>10, <1>11 DEF PQueueInv

\* The agenda is empty.
LEMMA PQueueInitInv == PQueueInit => PQueueInv
<1> SUFFICES ASSUME PQueueInit PROVE PQueueInv
  OBVIOUS
<1>1. agenda = ArrayCreated(InitialRoom) /\ added = 0 /\ pending = {}
  BY DEF PQueueInit
<1>2. IsArray(agenda, Event) /\ agenda.size = 0
  BY <1>1, PQueueAssumption, ArrayCreatedIs
<1>3. 0 .. 0 - 1 = {}
  OBVIOUS
<1> QED BY <1>1, <1>2, <1>3 DEF PQueueInv, AgendaInOrder

\* Every step keeps the invariant.
LEMMA PQueueStep == ASSUME PQueueInv, [PQueueNext]_pqueueVars PROVE PQueueInv'
<1>1. CASE UNCHANGED pqueueVars
  BY <1>1 DEF PQueueInv, AgendaInOrder, pqueueVars
<1>2. CASE \E t \in Times : PQueuePush(t)
  BY <1>2, PushInv
<1>3. CASE PQueuePushFails
  BY <1>1, <1>3 DEF PQueuePushFails
<1>4. CASE PQueuePop
  BY <1>4, PopInv
<1>5. CASE \E S \in SUBSET (0 .. added - 1) : PQueueRemove(S)
  BY <1>5, RemoveInv
<1> QED BY <1>1, <1>2, <1>3, <1>4, <1>5 DEF PQueueNext

\* The invariant of the priority queue holds in every reachable state.
THEOREM PQueueInvariant == PQueueSpec => []PQueueInv
  BY PQueueInitInv, PQueueStep, PTL DEF PQueueSpec

\* The agenda is in order, the event to be run next at its end and those of the
\* same time in the order in which they were pushed: for any times, any number of
\* events, and any pushes, pops and removals.
THEOREM AgendaKeepsOrder == PQueueSpec => []AgendaInOrder
<1>1. PQueueInv => AgendaInOrder
  BY DEF PQueueInv
<1> QED BY <1>1, PQueueInvariant, PTL

-----------------------------------------------------------------------------
(***************************************************************************)
(* The ring of the queue                                                   *)
(***************************************************************************)

\* How far the slot i is from the slot h, in a ring of c.
Onward(h, i, c) == IF h + i < c THEN h + i ELSE h + i - c

\* How far the slot t is from the slot h, in a ring of c.
Between(h, t, c) == IF t < h THEN t + c - h ELSE t - h

\* % takes one turn of the ring away, where there is one.
LEMMA ModOnce ==
    ASSUME NEW c \in Nat \ {0}, NEW x \in Int
    PROVE  /\ x \in 0 .. c - 1 => x % c = x
           /\ x \in c .. 2 * c - 1 => x % c = x - c
<1>1. x \in 0 .. c - 1 => x % c = x
  OBVIOUS
<1>2. x \in c .. 2 * c - 1 => x % c = x - c
  OBVIOUS
<1> QED BY <1>1, <1>2

\* The two uses the ring makes of %
LEMMA RingSteps ==
    ASSUME NEW c \in Nat \ {0}, NEW h \in 0 .. c - 1, NEW i \in 0 .. c - 1
    PROVE  /\ (h + i) % c = Onward(h, i, c)
           /\ Onward(h, i, c) \in 0 .. c - 1
           /\ (i + c - h) % c = Between(h, i, c)
           /\ Between(h, i, c) \in 0 .. c - 1
<1>1. PICK x \in Int : x = h + i
  OBVIOUS
<1>2. PICK y \in Int : y = i + c - h
  OBVIOUS
<1>3. x % c = Onward(h, i, c) /\ Onward(h, i, c) \in 0 .. c - 1
  <2>1. CASE x < c
    <3>1. x \in 0 .. c - 1 /\ Onward(h, i, c) = x
      BY <1>1, <2>1 DEF Onward
    <3> QED BY <3>1, ModOnce
  <2>2. CASE x >= c
    <3>1. x \in c .. 2 * c - 1 /\ Onward(h, i, c) = x - c /\ x - c \in 0 .. c - 1
      BY <1>1, <2>2 DEF Onward
    <3>2. x % c = x - c
      BY <3>1, ModOnce
    <3> QED BY <3>1, <3>2
  <2> QED BY <2>1, <2>2
<1>4. y % c = Between(h, i, c) /\ Between(h, i, c) \in 0 .. c - 1
  <2>1. CASE i < h
    <3>1. y \in 0 .. c - 1 /\ Between(h, i, c) = y
      BY <1>2, <2>1 DEF Between
    <3> QED BY <3>1, ModOnce
  <2>2. CASE i >= h
    <3>1. y \in c .. 2 * c - 1 /\ Between(h, i, c) = y - c /\ y - c \in 0 .. c - 1
      BY <1>2, <2>2 DEF Between
    <3>2. y % c = y - c
      BY <3>1, ModOnce
    <3> QED BY <3>1, <3>2
  <2> QED BY <2>1, <2>2
<1>5. (h + i) % c = x % c /\ (i + c - h) % c = y % c
  BY <1>1, <1>2, Zenon
<1> QED BY <1>3, <1>4, <1>5

\* From h on by i slots, which is i slots from h
LEMMA ThereAndBack ==
    ASSUME NEW c \in Nat \ {0}, NEW h \in 0 .. c - 1, NEW i \in 0 .. c - 1
    PROVE  Between(h, Onward(h, i, c), c) = i
  BY DEF Between, Onward

-----------------------------------------------------------------------------
(***************************************************************************)
(* Rings, and the elements in them                                         *)
(***************************************************************************)

\* A ring buffer, or no buffer yet. No ring has one slot: it would be full and
\* empty at once.
IsRing(q) ==
    /\ q = [data |-> q.data, capacity |-> q.capacity, head |-> q.head, tail |-> q.tail]
    /\ q.capacity \in Nat \ {1}
    /\ q.capacity = 0 => q.head = 0 /\ q.tail = 0
    /\ q.capacity > 0 =>
            /\ q.data \in [0 .. q.capacity - 1 -> Nat]
            /\ q.head \in 0 .. q.capacity - 1
            /\ q.tail \in 0 .. q.capacity - 1

\* Sizes and slots of a ring
LEMMA RingIs ==
    ASSUME NEW q, IsRing(q), q.capacity > 0
    PROVE  /\ QueueSize(q) = Between(q.head, q.tail, q.capacity)
           /\ QueueSize(q) \in 0 .. q.capacity - 1
           /\ \A i \in 0 .. q.capacity - 1 :
                Slot(q, i) = Onward(q.head, i, q.capacity) /\ Slot(q, i) \in 0 .. q.capacity - 1
           /\ \A i \in 0 .. q.capacity - 1 : (i + 1) % q.capacity = Onward(i, 1, q.capacity)
<1> DEFINE c == q.capacity
           h == q.head
           t == q.tail
<1>1. c \in Nat \ {0, 1} /\ h \in 0 .. c - 1 /\ t \in 0 .. c - 1
  BY DEF IsRing
<1>2. QueueSize(q) = (t + c - h) % c
  BY <1>1 DEF QueueSize
<1>3. \A i : Slot(q, i) = (h + i) % c
  BY DEF Slot
<1> HIDE DEF c, h, t
<1>4. (t + c - h) % c = Between(h, t, c) /\ Between(h, t, c) \in 0 .. c - 1
  BY <1>1, RingSteps
<1>5. ASSUME NEW i \in 0 .. c - 1
      PROVE  (h + i) % c = Onward(h, i, c) /\ (h + i) % c \in 0 .. c - 1
  <2>1. (h + i) % c = Onward(h, i, c) /\ Onward(h, i, c) \in 0 .. c - 1
    BY <1>1, RingSteps
  <2> QED BY <2>1, Zenon
<1>6. ASSUME NEW i \in 0 .. c - 1 PROVE (i + 1) % c = Onward(i, 1, c)
  <2>1. 1 \in 0 .. c - 1
    BY <1>1
  <2> QED BY <1>1, <2>1, RingSteps
<1>7. QueueSize(q) = Between(h, t, c) /\ QueueSize(q) \in 0 .. c - 1
  BY <1>2, <1>4, Zenon
<1>8. \A i \in 0 .. c - 1 : Slot(q, i) = Onward(h, i, c) /\ Slot(q, i) \in 0 .. c - 1
  BY <1>3, <1>5, Zenon
<1> QED BY <1>6, <1>7, <1>8 DEF c, h, t

\* The elements of a ring, from the first to the last
LEMMA ContentIs ==
    ASSUME NEW q, IsRing(q)
    PROVE  /\ QueueSize(q) \in Nat
           /\ Content(q) \in Seq(Nat)
           /\ Len(Content(q)) = QueueSize(q)
           /\ \A i \in 1 .. QueueSize(q) : Content(q)[i] = q.data[Slot(q, i - 1)]
<1> DEFINE n == QueueSize(q)
           s == Content(q)
<1>1. s = [i \in 1 .. n |-> q.data[Slot(q, i - 1)]]
  BY DEF Content
<1>2. n \in Nat
  <2>1. CASE q.capacity = 0
    BY <2>1 DEF QueueSize
  <2>2. CASE q.capacity > 0
    <3>1. q.capacity \in Nat
      BY DEF IsRing
    <3> QED BY <2>2, <3>1, RingIs
  <2> QED BY <2>1, <2>2 DEF IsRing
<1>3. \A i \in 1 .. n : q.data[Slot(q, i - 1)] \in Nat
  <2>1. CASE q.capacity = 0
    BY <2>1 DEF QueueSize
  <2>2. CASE q.capacity > 0
    <3>1. q.capacity \in Nat /\ q.data \in [0 .. q.capacity - 1 -> Nat]
      BY <2>2 DEF IsRing
    <3>2. /\ n \in 0 .. q.capacity - 1
          /\ \A i \in 0 .. q.capacity - 1 : Slot(q, i) \in 0 .. q.capacity - 1
      BY <2>2, RingIs
    <3> HIDE DEF n
    <3>3. \A i \in 1 .. n : i - 1 \in 0 .. q.capacity - 1
      BY <3>1, <3>2
    <3> QED BY <3>1, <3>2, <3>3
  <2> QED BY <2>1, <2>2 DEF IsRing
<1> HIDE DEF s, n
<1>4. s \in [1 .. n -> Nat]
  BY <1>1, <1>3
<1>5. s \in Seq(Nat)
  BY <1>2, <1>4, SeqDef
<1>6. Len(s) = n
  <2>1. DOMAIN s = 1 .. Len(s) /\ Len(s) \in Nat
    BY <1>5, LenProperties
  <2>2. DOMAIN s = 1 .. n
    BY <1>4
  <2>3. ASSUME NEW m \in Nat, 1 .. m = 1 .. n PROVE m = n
    <3>1. \A i \in Int : i \in 1 .. m <=> i \in 1 .. n
      BY <2>3
    <3>2. ~(m < n) /\ ~(n < m)
      BY <1>2, <3>1
    <3> QED BY <1>2, <3>2
  <2> QED BY <2>1, <2>2, <2>3
<1>7. \A i \in 1 .. n : s[i] = q.data[Slot(q, i - 1)]
  BY <1>1
<1> QED BY <1>2, <1>5, <1>6, <1>7 DEF s, n

\* The ring q, taken apart, and what it makes of slots.
RingOf(q, c, d, h, t) ==
    /\ c \in Nat \ {0, 1} /\ d \in [0 .. c - 1 -> Nat] /\ h \in 0 .. c - 1 /\ t \in 0 .. c - 1
    /\ q = [data |-> d, capacity |-> c, head |-> h, tail |-> t]
    /\ q.capacity = c /\ q.data = d /\ q.head = h /\ q.tail = t
    /\ QueueSize(q) = Between(h, t, c)
    /\ QueueSize(q) \in 0 .. c - 1
    /\ \A i \in 0 .. c - 1 : Slot(q, i) = Onward(h, i, c) /\ Slot(q, i) \in 0 .. c - 1
    /\ \A i \in 0 .. c - 1 : (i + 1) % c = Onward(i, 1, c)

\* Every ring can be taken apart.
LEMMA RingParts ==
    ASSUME NEW q, IsRing(q), q.capacity > 0
    PROVE  RingOf(q, q.capacity, q.data, q.head, q.tail)
<1>1. /\ q.capacity \in Nat \ {0, 1}
      /\ q.data \in [0 .. q.capacity - 1 -> Nat]
      /\ q.head \in 0 .. q.capacity - 1
      /\ q.tail \in 0 .. q.capacity - 1
      /\ q = [data |-> q.data, capacity |-> q.capacity, head |-> q.head, tail |-> q.tail]
  BY DEF IsRing
<1>2. /\ QueueSize(q) = Between(q.head, q.tail, q.capacity)
      /\ QueueSize(q) \in 0 .. q.capacity - 1
      /\ \A i \in 0 .. q.capacity - 1 :
            Slot(q, i) = Onward(q.head, i, q.capacity) /\ Slot(q, i) \in 0 .. q.capacity - 1
      /\ \A i \in 0 .. q.capacity - 1 : (i + 1) % q.capacity = Onward(i, 1, q.capacity)
  BY RingIs
<1> QED BY <1>1, <1>2 DEF RingOf

\* A ring made of its parts, with the elements s in it.
RingWith(q, c, d, h, t, s) ==
    /\ c \in Nat \ {0, 1} /\ d \in [0 .. c - 1 -> Nat] /\ h \in 0 .. c - 1 /\ t \in 0 .. c - 1
    /\ q = [data |-> d, capacity |-> c, head |-> h, tail |-> t]
    /\ s \in Seq(Nat) /\ Len(s) = Between(h, t, c)
    /\ \A i \in 1 .. Len(s) : s[i] = d[Onward(h, i - 1, c)]

\* What was put together is a ring, and has the elements that were put in.
LEMMA RingMadeOf ==
    ASSUME NEW q, NEW c, NEW d, NEW h, NEW t, NEW s, RingWith(q, c, d, h, t, s)
    PROVE  IsRing(q) /\ Content(q) = s
<1>0. /\ c \in Nat \ {0, 1} /\ d \in [0 .. c - 1 -> Nat] /\ h \in 0 .. c - 1 /\ t \in 0 .. c - 1
      /\ q = [data |-> d, capacity |-> c, head |-> h, tail |-> t]
      /\ s \in Seq(Nat) /\ Len(s) = Between(h, t, c)
      /\ \A i \in 1 .. Len(s) : s[i] = d[Onward(h, i - 1, c)]
  BY DEF RingWith
<1>1. q.data = d /\ q.capacity = c /\ q.head = h /\ q.tail = t
  BY <1>0
<1>2. IsRing(q) /\ c > 0
  BY <1>0, <1>1 DEF IsRing
<1>3. /\ QueueSize(q) = Between(h, t, c)
      /\ QueueSize(q) \in 0 .. c - 1
      /\ \A i \in 0 .. c - 1 : Slot(q, i) = Onward(h, i, c)
  BY <1>0, <1>1, <1>2, RingIs
<1>4. /\ Content(q) \in Seq(Nat)
      /\ Len(Content(q)) = Len(s)
      /\ \A i \in 1 .. Len(s) : Content(q)[i] = d[Slot(q, i - 1)]
  <2>1. /\ Content(q) \in Seq(Nat)
        /\ Len(Content(q)) = QueueSize(q)
        /\ \A i \in 1 .. QueueSize(q) : Content(q)[i] = q.data[Slot(q, i - 1)]
    BY <1>2, ContentIs
  <2>2. QueueSize(q) = Len(s)
    BY <1>0, <1>3
  <2> QED BY <1>1, <2>1, <2>2
<1>5. \A i \in 1 .. Len(s) : i - 1 \in 0 .. c - 1
  BY <1>0, <1>3
<1>6. \A i \in 1 .. Len(Content(q)) : Content(q)[i] = s[i]
  <2> TAKE i \in 1 .. Len(Content(q))
  <2>1. i \in 1 .. Len(s) /\ i - 1 \in 0 .. c - 1
    BY <1>4, <1>5
  <2>2. Slot(q, i - 1) = Onward(h, i - 1, c)
    BY <1>3, <2>1
  <2>3. s[i] = d[Onward(h, i - 1, c)] /\ Content(q)[i] = d[Slot(q, i - 1)]
    BY <1>0, <1>4, <2>1
  <2> QED BY <2>2, <2>3
<1> QED BY <1>0, <1>2, <1>4, <1>6, SeqEqual

\* A ring with no elements
LEMMA NoneIs ==
    ASSUME NEW q, IsRing(q), QueueSize(q) = 0
    PROVE  Content(q) = << >>
<1>1. Content(q) \in Seq(Nat) /\ Len(Content(q)) = 0
  BY ContentIs
<1> QED BY <1>1, EmptySeq

\* A push puts the element behind the others.
LEMMA PushedIs ==
    ASSUME NEW q, IsRing(q), ~QueueIsFull(q), NEW v \in Nat
    PROVE  IsRing(Pushed(q, v)) /\ Content(Pushed(q, v)) = Append(Content(q), v)
<1>1. q.capacity > 0 /\ QueueSize(q) # q.capacity - 1
  BY DEF QueueIsFull, IsRing
<1>2. PICK c, d, h, t : RingOf(q, c, d, h, t)
  BY <1>1, RingParts
<1>3. /\ c \in Nat \ {0, 1} /\ d \in [0 .. c - 1 -> Nat] /\ h \in 0 .. c - 1 /\ t \in 0 .. c - 1
      /\ q = [data |-> d, capacity |-> c, head |-> h, tail |-> t]
      /\ q.capacity = c /\ q.data = d /\ q.head = h /\ q.tail = t
      /\ QueueSize(q) = Between(h, t, c)
      /\ QueueSize(q) \in 0 .. c - 1
      /\ \A i \in 0 .. c - 1 : Slot(q, i) = Onward(h, i, c) /\ Slot(q, i) \in 0 .. c - 1
      /\ \A i \in 0 .. c - 1 : (i + 1) % c = Onward(i, 1, c)
  BY <1>2 DEF RingOf
<1>0. c \in Nat \ {0, 1} /\ d \in [0 .. c - 1 -> Nat] /\ h \in 0 .. c - 1 /\ t \in 0 .. c - 1
  BY <1>3
<1> DEFINE n == QueueSize(q)
           s == Content(q)
           p == Pushed(q, v)
           pd == [d EXCEPT ![t] = v]
           pt == Onward(t, 1, c)
           ps == Append(s, v)
<1>4. n \in 0 .. c - 2 /\ n = Between(h, t, c)
  <2>1. n \in 0 .. c - 1 /\ n # c - 1 /\ n = Between(h, t, c)
    BY <1>1, <1>3
  <2> HIDE DEF n
  <2> QED BY <1>0, <2>1
<1>5. /\ s \in Seq(Nat) /\ Len(s) = n
      /\ \A i \in 1 .. n : s[i] = d[Slot(q, i - 1)]
  BY <1>3, ContentIs
<1>6. p = [data |-> pd, capacity |-> c, head |-> h, tail |-> pt]
  <2>1. (q.tail + 1) % q.capacity = pt
    BY <1>3
  <2>2. p = [q EXCEPT !.data = pd, !.tail = pt]
    BY <1>3, <2>1 DEF Pushed
  <2> HIDE DEF p, pd, pt
  <2> QED BY <1>3, <2>2
<1>7. /\ ps \in Seq(Nat) /\ Len(ps) = n + 1
      /\ \A i \in 1 .. n : ps[i] = s[i]
      /\ ps[n + 1] = v
  BY <1>5, AppendProperties
<1> HIDE DEF n, s, p, pd, pt, ps
<1>8. pt \in 0 .. c - 1 /\ Between(h, pt, c) = n + 1 /\ Onward(h, n, c) = t
  BY <1>0, <1>4 DEF pt, Onward, Between
<1>9. /\ pd \in [0 .. c - 1 -> Nat] /\ pd[t] = v
      /\ \A i \in 0 .. c - 1 : i # t => pd[i] = d[i]
  BY <1>0 DEF pd
<1>10. \A i \in 1 .. n + 1 : ps[i] = pd[Onward(h, i - 1, c)]
  <2> TAKE i \in 1 .. n + 1
  <2>1. CASE i = n + 1
    <3>1. i - 1 = n
      BY <1>4, <2>1
    <3> QED BY <1>7, <1>8, <1>9, <2>1, <3>1
  <2>2. CASE i \in 1 .. n
    <3>1. i - 1 \in 0 .. c - 1 /\ Onward(h, i - 1, c) # t /\ Onward(h, i - 1, c) \in 0 .. c - 1
      BY <1>0, <1>4, <2>2 DEF Onward, Between
    <3>2. s[i] = d[Onward(h, i - 1, c)]
      BY <1>3, <1>5, <2>2, <3>1
    <3> QED BY <1>7, <1>9, <2>2, <3>1, <3>2
  <2> QED BY <1>4, <2>1, <2>2
<1>11. IsRing(p) /\ Content(p) = ps
  <2>1. Len(ps) = Between(h, pt, c) /\ \A i \in 1 .. Len(ps) : ps[i] = pd[Onward(h, i - 1, c)]
    BY <1>7, <1>8, <1>10
  <2>2. RingWith(p, c, pd, h, pt, ps)
    BY <1>0, <1>6, <1>7, <1>8, <1>9, <2>1 DEF RingWith
  <2> QED BY <2>2, RingMadeOf
<1> QED BY <1>11 DEF p, ps, s

\* A pop takes the first element.
LEMMA PoppedIs ==
    ASSUME NEW q, IsRing(q), ~QueueIsEmpty(q)
    PROVE  /\ IsRing(Popped(q))
           /\ Content(q) # << >>
           /\ Head(Content(q)) = q.data[q.head]
           /\ Content(Popped(q)) = Tail(Content(q))
<1>1. q.capacity > 0 /\ q.tail # q.head
  BY DEF QueueIsEmpty, IsRing
<1>2. PICK c, d, h, t : RingOf(q, c, d, h, t)
  BY <1>1, RingParts
<1>3. /\ c \in Nat \ {0, 1} /\ d \in [0 .. c - 1 -> Nat] /\ h \in 0 .. c - 1 /\ t \in 0 .. c - 1
      /\ q = [data |-> d, capacity |-> c, head |-> h, tail |-> t]
      /\ q.capacity = c /\ q.data = d /\ q.head = h /\ q.tail = t
      /\ QueueSize(q) = Between(h, t, c)
      /\ QueueSize(q) \in 0 .. c - 1
      /\ \A i \in 0 .. c - 1 : Slot(q, i) = Onward(h, i, c) /\ Slot(q, i) \in 0 .. c - 1
      /\ \A i \in 0 .. c - 1 : (i + 1) % c = Onward(i, 1, c)
  BY <1>2 DEF RingOf
<1>0. c \in Nat \ {0, 1} /\ d \in [0 .. c - 1 -> Nat] /\ h \in 0 .. c - 1 /\ t \in 0 .. c - 1
  BY <1>3
<1> DEFINE n == QueueSize(q)
           s == Content(q)
           p == Popped(q)
           ph == Onward(h, 1, c)
           ps == Tail(s)
<1>4. n \in 1 .. c - 1 /\ n = Between(h, t, c)
  <2>1. n \in 0 .. c - 1 /\ n = Between(h, t, c) /\ h # t
    BY <1>1, <1>3
  <2>2. Between(h, t, c) # 0
    BY <1>0, <2>1 DEF Between
  <2> QED BY <2>1, <2>2
<1>5. /\ s \in Seq(Nat) /\ Len(s) = n
      /\ \A i \in 1 .. n : s[i] = d[Slot(q, i - 1)]
  BY <1>3, ContentIs
<1>6. p = [data |-> d, capacity |-> c, head |-> ph, tail |-> t]
  <2>1. (q.head + 1) % q.capacity = ph
    BY <1>3
  <2>2. p = [q EXCEPT !.head = ph]
    BY <2>1 DEF Popped
  <2> HIDE DEF p, ph
  <2> QED BY <1>3, <2>2
<1>7. s # << >>
  BY <1>4, <1>5, EmptySeq
<1>8. /\ ps \in Seq(Nat) /\ Len(ps) = n - 1
      /\ \A i \in 1 .. n - 1 : ps[i] = s[i + 1]
  BY <1>5, <1>7, HeadTailProperties
<1>9. Head(s) = s[1]
  BY <1>5, <1>7
<1> HIDE DEF n, s, p, ph, ps
<1>10. ph \in 0 .. c - 1 /\ Between(ph, t, c) = n - 1
  BY <1>0, <1>4 DEF ph, Onward, Between
<1>11. s[1] = d[h]
  <2>1. 1 \in 1 .. n /\ 1 - 1 = 0 /\ 0 \in 0 .. c - 1 /\ Onward(h, 0, c) = h
    BY <1>0, <1>4 DEF Onward
  <2> QED BY <1>3, <1>5, <2>1
<1>12. \A i \in 1 .. n - 1 : ps[i] = d[Onward(ph, i - 1, c)]
  <2> TAKE i \in 1 .. n - 1
  <2>1. /\ i + 1 \in 1 .. n /\ (i + 1) - 1 = i /\ i \in 0 .. c - 1
        /\ Onward(h, i, c) = Onward(ph, i - 1, c)
    BY <1>0, <1>4 DEF ph, Onward
  <2> QED BY <1>3, <1>5, <1>8, <2>1
<1>13. IsRing(p) /\ Content(p) = ps
  <2>1. Len(ps) = Between(ph, t, c) /\ \A i \in 1 .. Len(ps) : ps[i] = d[Onward(ph, i - 1, c)]
    BY <1>8, <1>10, <1>12
  <2>2. RingWith(p, c, d, ph, t, ps)
    BY <1>0, <1>6, <1>8, <1>10, <2>1 DEF RingWith
  <2> QED BY <2>2, RingMadeOf
<1> QED BY <1>3, <1>7, <1>9, <1>11, <1>13 DEF p, ps, s

\* The copy into a larger buffer, in one piece or in two: the same elements.
LEMMA CopiedIs ==
    ASSUME NEW q, IsRing(q), NEW n \in Nat \ {0, 1}, n > q.capacity,
           NEW r, r = [data |-> Copied(q, n), capacity |-> n, head |-> 0, tail |-> QueueSize(q)]
    PROVE  IsRing(r) /\ Content(r) = Content(q)
<1> DEFINE m == QueueSize(q)
           s == Content(q)
           rd == Copied(q, n)
           h == q.head
           c == q.capacity
<1>1. /\ s \in Seq(Nat) /\ Len(s) = m /\ m \in Nat
      /\ \A i \in 1 .. m : s[i] = q.data[Slot(q, i - 1)]
  BY ContentIs
<1>2. c \in Nat /\ m \in 0 .. n - 1 /\ (c = 0 => m = 0)
  <2>1. c \in Nat
    BY DEF IsRing
  <2>2. CASE c = 0
    <3>1. m = 0
      BY <2>2 DEF QueueSize
    <3> QED BY <2>1, <3>1
  <2>3. CASE c > 0
    <3>1. m \in 0 .. c - 1
      BY <2>3, RingIs
    <3> QED BY <2>1, <2>3, <3>1
  <2> QED BY <2>1, <2>2, <2>3
<1>3. rd = [i \in 0 .. n - 1 |->
              IF i >= m THEN NoVal ELSE IF i < c - h THEN q.data[h + i] ELSE q.data[i - (c - h)]]
  BY DEF Copied
<1>4. ASSUME NEW i \in 0 .. m - 1 PROVE rd[i] = s[i + 1] /\ rd[i] \in Nat
  <2>1. c > 0
    BY <1>2
  <2>2. /\ h \in 0 .. c - 1 /\ m \in 0 .. c - 1
        /\ \A k \in 0 .. c - 1 : Slot(q, k) = Onward(h, k, c) /\ Slot(q, k) \in 0 .. c - 1
        /\ q.data \in [0 .. c - 1 -> Nat]
    BY <2>1, RingIs DEF IsRing
  <2> HIDE DEF h, c, m, s, rd
  <2>3. i \in 0 .. n - 1 /\ ~(i >= m) /\ i \in 0 .. c - 1 /\ i + 1 \in 1 .. m /\ (i + 1) - 1 = i
    <3>1. c \in Nat /\ m \in 0 .. n - 1 /\ m \in 0 .. c - 1 /\ i \in 0 .. m - 1
      BY <1>2, <2>2
    <3> QED BY <3>1
  <2>4. rd[i] = IF i < c - h THEN q.data[h + i] ELSE q.data[i - (c - h)]
    BY <1>3, <2>3
  <2>5. Onward(h, i, c) = IF i < c - h THEN h + i ELSE i - (c - h)
    BY <1>2, <2>2, <2>3 DEF Onward
  <2>6. rd[i] = q.data[Onward(h, i, c)]
    BY <2>4, <2>5
  <2> QED BY <1>1, <2>2, <2>3, <2>6
<1> HIDE DEF h, c, m, s, rd
<1>5. rd \in [0 .. n - 1 -> Nat]
  <2>1. \A i \in 0 .. n - 1 : i >= m \/ i \in 0 .. m - 1
    BY <1>2
  <2>2. \A i \in 0 .. n - 1 : rd[i] \in Nat
    <3> TAKE i \in 0 .. n - 1
    <3>1. CASE i >= m
      <4>1. rd[i] = NoVal
        BY <1>3, <3>1
      <4> QED BY <4>1, QueueAssumption
    <3> QED BY <1>4, <2>1, <3>1
  <2> QED BY <1>3, <2>2
<1>6. /\ m \in 0 .. n - 1 /\ 0 \in 0 .. n - 1 /\ Len(s) = Between(0, m, n)
      /\ \A i \in 1 .. Len(s) : s[i] = rd[Onward(0, i - 1, n)]
  <2>1. Between(0, m, n) = m
    BY <1>2 DEF Between
  <2>2. \A i \in 1 .. m : i - 1 \in 0 .. m - 1 /\ (i - 1) + 1 = i /\ Onward(0, i - 1, n) = i - 1
    BY <1>2 DEF Onward
  <2> QED BY <1>1, <1>2, <1>4, <2>1, <2>2
<1>7. r = [data |-> rd, capacity |-> n, head |-> 0, tail |-> m]
  BY DEF rd, m
<1>8. RingWith(r, n, rd, 0, m, s)
  BY <1>1, <1>5, <1>6, <1>7 DEF RingWith
<1> QED BY <1>8, RingMadeOf DEF s

-----------------------------------------------------------------------------
(***************************************************************************)
(* The removal from the ring                                               *)
(***************************************************************************)

\* The loop of the abstract removal.
IsKept(k, s, S) ==
    /\ k \in [0 .. Len(s) -> Seq(Nat)]
    /\ k[0] = << >>
    /\ \A i \in 1 .. Len(s) : k[i] = IF s[i] \in S THEN k[i - 1] ELSE Append(k[i - 1], s[i])

\* The abstract removal is a loop, too.
LEMMA WithoutIs ==
    ASSUME NEW s \in Seq(Nat), NEW S
    PROVE  \E k : IsKept(k, s, S) /\ Abstract!Without(s, S) = k[Len(s)]
<1> DEFINE n == Len(s)
           R == Seq(Nat)
           After(x, i) == IF s[i] \in S THEN x ELSE Append(x, s[i])
           Is(f) == f = [i \in 0 .. Len(s) |->
                IF i = 0 THEN << >>
                ELSE IF s[i] \in S THEN f[i - 1] ELSE Append(f[i - 1], s[i])]
           kept == CHOOSE f : Is(f)
           g == [i \in 1 .. n |-> [x \in R |-> After(x, i)]]
<1>1. Abstract!Without(s, S) = kept[Len(s)]
  BY Zenon DEF Abstract!Without
<1>2. n \in Nat /\ \A i \in 1 .. n : s[i] \in Nat
  BY LenProperties, ElementOfSeq
<1>3. << >> \in R
  BY EmptySeq
<1>4. ASSUME NEW i \in 1 .. n, NEW x \in R PROVE After(x, i) \in R
  <2>1. Append(x, s[i]) \in Seq(Nat)
    BY <1>2, AppendProperties
  <2> QED BY <2>1
<1>5. g \in [1 .. n -> [R -> R]] /\ \A i \in 1 .. n : \A x \in R : g[i][x] = After(x, i)
  <2> HIDE DEF After, R
  <2> QED BY <1>4
<1>6. \E f : Is(f) /\ f \in [0 .. n -> R]
  <2>1. PICK f \in [0 .. n -> R] : f[0] = << >> /\ \A i \in 1 .. n : f[i] = g[i][f[i - 1]]
    <3> HIDE DEF g, R, n
    <3>1. g \in [1 .. n -> [R -> R]]
      BY <1>5
    <3>2. PICK f : IsLoop(f, n, R, << >>, g)
      BY <1>2, <1>3, <3>1, Looped
    <3> QED BY <3>2 DEF IsLoop
  <2>2. \A i \in 1 .. n : f[i] = After(f[i - 1], i)
    <3> HIDE DEF g, R, After
    <3> HIDE DEF n
    <3> TAKE i \in 1 .. n
    <3>1. i - 1 \in 0 .. n
      BY <1>2
    <3>2. f[i - 1] \in R
      BY <2>1, <3>1
    <3> QED BY <1>5, <2>1, <3>2
  <2> DEFINE h == [i \in 0 .. n |-> IF i = 0 THEN << >> ELSE After(f[i - 1], i)]
  <2>3. f = h
    <3> HIDE DEF After, R
    <3>1. \A i \in 0 .. n : i = 0 \/ i \in 1 .. n
      BY <1>2
    <3> QED BY <2>1, <2>2, <3>1
  <2>4. Is(f)
    BY <2>3, Zenon
  <2> QED BY <2>1, <2>4
<1>7. Is(kept)
  <2> HIDE DEF Is
  <2> QED BY <1>6
<1>8. kept = [i \in 0 .. n |-> IF i = 0 THEN << >> ELSE After(kept[i - 1], i)]
  <2> HIDE DEF kept
  <2> QED BY <1>7, Zenon
<1>9. kept[0] = << >> /\ \A i \in 1 .. n : kept[i] = After(kept[i - 1], i)
  <2> HIDE DEF kept, After
  <2>1. 0 \in 0 .. n /\ \A i \in 1 .. n : i \in 0 .. n /\ i # 0
    BY <1>2
  <2> QED BY <1>8, <2>1
<1> HIDE DEF kept, Is, g
<1>10. \A i \in 0 .. n : kept[i] \in R
  <2> DEFINE T == {i \in 0 .. n : kept[i] \in R}
  <2>1. 0 \in T
    <3> HIDE DEF R
    <3>1. kept[0] \in R /\ 0 \in 0 .. n
      BY <1>2, <1>3, <1>9
    <3> QED BY <3>1
  <2>2. ASSUME NEW i \in 1 .. n, i - 1 \in T PROVE i \in T
    <3> HIDE DEF After, R
    <3>1. i \in 0 .. n /\ kept[i - 1] \in R
      BY <1>2, <2>2
    <3> QED BY <1>4, <1>9, <3>1
  <2>3. 0 .. n \subseteq T
    <3> HIDE DEF T
    <3> QED BY <1>2, <2>1, <2>2, CountedUp
  <2> QED BY <2>3
<1>11. kept \in [0 .. n -> R]
  <2> HIDE DEF After, R
  <2> QED BY <1>8, <1>10
<1>12. \A i \in 1 .. n : kept[i] = IF s[i] \in S THEN kept[i - 1] ELSE Append(kept[i - 1], s[i])
  BY <1>9, Zenon
<1> HIDE DEF After
<1> QED BY <1>1, <1>9, <1>11, <1>12 DEF IsKept

\* The ring after i rounds of the loop of remove, where k has been kept of s.
CompactedTo(x, c, h, s, k, i) ==
    /\ x \in [data : [0 .. c - 1 -> Nat], dst : 0 .. c - 1, count : Nat]
    /\ k \in Seq(Nat) /\ Len(k) <= i
    /\ x.dst = Onward(h, Len(k), c)
    /\ x.count = i - Len(k)
    /\ \A j \in 1 .. Len(k) : x.data[Onward(h, j - 1, c)] = k[j]
    /\ \A j \in i + 1 .. Len(s) : x.data[Onward(h, j - 1, c)] = s[j]

\* A round of the loop of remove: the element is left out, or moved to dst.
LEMMA CompactedOn ==
    ASSUME NEW c \in Nat \ {0, 1}, NEW h \in 0 .. c - 1, NEW s \in Seq(Nat), Len(s) \in 0 .. c - 1,
           NEW i \in 1 .. Len(s), NEW x, NEW k, CompactedTo(x, c, h, s, k, i - 1), NEW S,
           NEW v, v = x.data[Onward(h, i - 1, c)]
    PROVE  /\ v = s[i]
           /\ v \in S => CompactedTo([x EXCEPT !.count = @ + 1], c, h, s, k, i)
           /\ v \notin S => CompactedTo([x EXCEPT !.data[x.dst] = v, !.dst = (x.dst + 1) % c],
                                        c, h, s, Append(k, v), i)
<1> DEFINE n == Len(s)
           m == Len(k)
           d == x.data
           At(j) == Onward(h, j - 1, c)
<1>0. x \in [data : [0 .. c - 1 -> Nat], dst : 0 .. c - 1, count : Nat]
  BY DEF CompactedTo
<1>1. /\ d \in [0 .. c - 1 -> Nat] /\ x.dst \in 0 .. c - 1 /\ x.count \in Nat
      /\ k \in Seq(Nat) /\ m <= i - 1
      /\ x.dst = Onward(h, m, c)
      /\ x.count = (i - 1) - m
      /\ \A j \in 1 .. m : d[At(j)] = k[j]
      /\ \A j \in (i - 1) + 1 .. n : d[At(j)] = s[j]
  BY DEF CompactedTo
<1>2. n \in 0 .. c - 1 /\ m \in Nat /\ i \in 1 .. n
  BY <1>1, LenProperties
<1>3. /\ \A j \in 1 .. c : At(j) \in 0 .. c - 1
      /\ \A j, l \in 1 .. c : At(j) = At(l) => j = l
  BY DEF Onward
<1>4. v = s[i] /\ v \in Nat
  <2>1. i \in (i - 1) + 1 .. n
    BY <1>2
  <2> QED BY <1>1, <2>1, ElementOfSeq
<1>5. \A j \in i + 1 .. n : j \in (i - 1) + 1 .. n /\ j \in 1 .. c
  BY <1>2
<1>6. ASSUME v \in S PROVE CompactedTo([x EXCEPT !.count = @ + 1], c, h, s, k, i)
  <2> DEFINE y == [x EXCEPT !.count = @ + 1]
  <2>1. y = [data |-> d, dst |-> x.dst, count |-> x.count + 1]
    <3>1. y = [x EXCEPT !.count = x.count + 1]
      BY Zenon
    <3> HIDE DEF y
    <3> QED BY <1>0, <3>1
  <2>2. y.data = d /\ y.dst = x.dst /\ y.count = i - m
    BY <1>1, <1>2, <2>1
  <2>3. y \in [data : [0 .. c - 1 -> Nat], dst : 0 .. c - 1, count : Nat] /\ m <= i
    <3>1. m <= i
      BY <1>1, <1>2
    <3>2. x.count + 1 \in Nat
      BY <1>1
    <3> HIDE DEF m, y, d
    <3> QED BY <1>1, <2>1, <3>1, <3>2
  <2>4. \A j \in i + 1 .. n : d[At(j)] = s[j]
    BY <1>1, <1>5
  <2> HIDE DEF y, d
  <2> QED BY <1>1, <2>2, <2>3, <2>4 DEF CompactedTo, y
<1>7. ASSUME v \notin S
      PROVE  CompactedTo([x EXCEPT !.data[x.dst] = v, !.dst = (x.dst + 1) % c], c, h, s, Append(k, v), i)
  <2> DEFINE y == [x EXCEPT !.data[x.dst] = v, !.dst = (x.dst + 1) % c]
             yd == [d EXCEPT ![At(m + 1)] = v]
             yk == Append(k, v)
  <2>1. m + 1 \in 1 .. i /\ m + 1 \in 1 .. c /\ (m + 1) - 1 = m /\ At(m + 1) = x.dst
    <3>1. m \in Nat /\ m <= i - 1 /\ i \in 1 .. n /\ n \in 0 .. c - 1 /\ x.dst = Onward(h, m, c)
      BY <1>1, <1>2
    <3> HIDE DEF m, n
    <3>2. m + 1 \in 1 .. i /\ m + 1 \in 1 .. c /\ (m + 1) - 1 = m
      BY <3>1
    <3> QED BY <3>1, <3>2
  <2>2. (x.dst + 1) % c = Onward(h, m + 1, c) /\ Onward(h, m + 1, c) \in 0 .. c - 1
    <3>1. 1 \in 0 .. c - 1
      OBVIOUS
    <3>2. (x.dst + 1) % c = Onward(x.dst, 1, c) /\ Onward(x.dst, 1, c) \in 0 .. c - 1
      BY <1>1, <3>1, RingSteps
    <3>3. Onward(Onward(h, m, c), 1, c) = Onward(h, m + 1, c)
      <4>1. m \in 0 .. c - 2
        BY <1>1, <1>2
      <4> HIDE DEF m
      <4> QED BY <4>1 DEF Onward
    <3> QED BY <1>1, <3>2, <3>3
  <2>3. y = [data |-> yd, dst |-> Onward(h, m + 1, c), count |-> x.count]
    <3>1. y = [x EXCEPT !.data = yd, !.dst = Onward(h, m + 1, c)]
      BY <2>1, <2>2, Zenon
    <3> HIDE DEF y, yd, At
    <3> QED BY <1>0, <3>1
  <2>4. /\ yk \in Seq(Nat) /\ Len(yk) = m + 1 /\ yk[m + 1] = v
        /\ \A j \in 1 .. m : yk[j] = k[j]
    BY <1>1, <1>4, AppendProperties
  <2>5. /\ yd \in [0 .. c - 1 -> Nat] /\ yd[At(m + 1)] = v
        /\ \A j \in 1 .. c : j # m + 1 => yd[At(j)] = d[At(j)]
    <3> HIDE DEF At, d
    <3> QED BY <1>1, <1>3, <1>4, <2>1
  <2>6. y.data = yd /\ y.dst = Onward(h, m + 1, c) /\ y.count = x.count
    BY <2>3
  <2>7. x.count = i - (m + 1) /\ m + 1 <= i
    BY <1>1, <1>2
  <2>8. y \in [data : [0 .. c - 1 -> Nat], dst : 0 .. c - 1, count : Nat]
    <3> HIDE DEF yd, y
    <3> QED BY <1>1, <2>2, <2>3, <2>5
  <2> HIDE DEF y, yd, yk, d, At, m, n
  <2>9. \A j \in 1 .. m + 1 : yd[At(j)] = yk[j]
    <3> TAKE j \in 1 .. m + 1
    <3>1. j = m + 1 \/ (j \in 1 .. m /\ j \in 1 .. c /\ j # m + 1)
      BY <1>2, <2>1
    <3> QED BY <1>1, <2>4, <2>5, <3>1
  <2>10. \A j \in i + 1 .. n : yd[At(j)] = s[j]
    <3> TAKE j \in i + 1 .. n
    <3>1. j # m + 1
      BY <1>2, <2>1
    <3> QED BY <1>1, <1>5, <2>5, <3>1
  <2> QED BY <2>4, <2>6, <2>7, <2>8, <2>9, <2>10 DEF CompactedTo, y, yk, At, n
<1> QED BY <1>4, <1>6, <1>7

\* The loop of remove: what it starts from and what a round makes of it.
IsCompact(f, q, S) ==
    /\ f[0] = [data |-> q.data, dst |-> q.head, count |-> 0]
    /\ \A i \in 1 .. QueueSize(q) :
        LET s == f[i - 1]
            v == s.data[Slot(q, i - 1)]
        IN  f[i] = IF v \in S THEN [s EXCEPT !.count = @ + 1]
                   ELSE [s EXCEPT !.data[s.dst] = v, !.dst = (s.dst + 1) % q.capacity]

\* The removal that the model writes is that loop.
LEMMA CompactedIs ==
    ASSUME NEW q, IsRing(q), NEW S
    PROVE  \E f : IsCompact(f, q, S) /\ Compacted(q, S) = f[QueueSize(q)]
<1> DEFINE n == QueueSize(q)
           c == q.capacity
           D == {q.data} \cup [0 .. c - 1 -> Nat]
           R == [data : D, dst : {q.head} \cup 0 .. c - 1, count : Nat]
           After(s, i) ==
                LET v == s.data[Slot(q, i - 1)]
                IN  IF v \in S THEN [s EXCEPT !.count = @ + 1]
                    ELSE [s EXCEPT !.data[s.dst] = v, !.dst = (s.dst + 1) % q.capacity]
           s0 == [data |-> q.data, dst |-> q.head, count |-> 0]
           Is(f) == f = [i \in 0 .. QueueSize(q) |->
                IF i = 0 THEN [data |-> q.data, dst |-> q.head, count |-> 0]
                ELSE LET s == f[i - 1]
                         v == s.data[Slot(q, i - 1)]
                     IN  IF v \in S THEN [s EXCEPT !.count = @ + 1]
                         ELSE [s EXCEPT !.data[s.dst] = v,
                                        !.dst = (s.dst + 1) % q.capacity]]
           step == CHOOSE f : Is(f)
           g == [i \in 1 .. n |-> [s \in R |-> After(s, i)]]
<1>1. Compacted(q, S) = step[QueueSize(q)]
  BY Zenon DEF Compacted
<1>2. n \in Nat
  BY ContentIs
<1>3. ASSUME NEW i \in 1 .. n, NEW s \in R PROVE After(s, i) \in R
  <2>1. q.capacity > 0
    <3>1. n # 0
      BY <1>2
    <3> QED BY <3>1 DEF QueueSize, IsRing
  <2>2. RingOf(q, q.capacity, q.data, q.head, q.tail)
    BY <2>1, RingParts
  <2>3. /\ c \in Nat \ {0, 1} /\ n \in 0 .. c - 1
        /\ q.data \in [0 .. c - 1 -> Nat] /\ q.head \in 0 .. c - 1
        /\ \A j \in 0 .. c - 1 : Slot(q, j) \in 0 .. c - 1
        /\ \A j \in 0 .. c - 1 : (j + 1) % c = Onward(j, 1, c)
    BY <2>2 DEF RingOf
  <2>4. D = [0 .. c - 1 -> Nat] /\ {q.head} \cup 0 .. c - 1 = 0 .. c - 1
    BY <2>3
  <2>5. R = [data : [0 .. c - 1 -> Nat], dst : 0 .. c - 1, count : Nat]
    <3> HIDE DEF D, c
    <3> QED BY <2>4
  <2> DEFINE v == s.data[Slot(q, i - 1)]
             sd == s.data
             m == s.dst
  <2>6. s \in [data : [0 .. c - 1 -> Nat], dst : 0 .. c - 1, count : Nat]
    <3> HIDE DEF R, c
    <3> QED BY <2>5
  <2> HIDE DEF R, D, c
  <2>7. i - 1 \in 0 .. c - 1
    <3> HIDE DEF n
    <3> QED BY <2>3
  <2>8. Slot(q, i - 1) \in 0 .. c - 1
    BY <2>3, <2>7
  <2>9. sd \in [0 .. c - 1 -> Nat] /\ m \in 0 .. c - 1 /\ s.count \in Nat /\ v \in Nat
    BY <2>6, <2>8
  <2>10. (m + 1) % q.capacity \in 0 .. c - 1
    <3>1. 1 \in 0 .. c - 1
      BY <2>3
    <3>2. (m + 1) % c = Onward(m, 1, c) /\ Onward(m, 1, c) \in 0 .. c - 1
      BY <2>3, <2>9, <3>1, RingSteps
    <3> QED BY <3>2 DEF c
  <2>11. [s EXCEPT !.count = @ + 1] \in R
    <3> DEFINE k == s.count + 1
               t == [s EXCEPT !.count = @ + 1]
    <3>1. t = [s EXCEPT !.count = k]
      BY Zenon
    <3>2. k \in Nat
      BY <2>9
    <3> HIDE DEF t, k
    <3>3. t = [data |-> s.data, dst |-> s.dst, count |-> k]
      BY <2>6, <3>1
    <3>4. t \in R
      BY <2>5, <2>9, <3>2, <3>3
    <3> QED BY <3>4 DEF t
  <2>12. [s EXCEPT !.data[s.dst] = v, !.dst = (s.dst + 1) % q.capacity] \in R
    <3> DEFINE td == [sd EXCEPT ![m] = v]
               tm == (m + 1) % q.capacity
               t == [s EXCEPT !.data[s.dst] = v, !.dst = (s.dst + 1) % q.capacity]
    <3>1. t = [s EXCEPT !.data = td, !.dst = tm]
      BY Zenon
    <3>2. td \in [0 .. c - 1 -> Nat]
      BY <2>9
    <3>3. tm \in 0 .. c - 1
      BY <2>10
    <3> HIDE DEF t, td, tm
    <3>4. t = [data |-> td, dst |-> tm, count |-> s.count]
      BY <2>6, <3>1
    <3>5. t \in R
      BY <2>5, <2>9, <3>2, <3>3, <3>4
    <3> QED BY <3>5 DEF t
  <2>13. \/ After(s, i) = [s EXCEPT !.count = @ + 1]
         \/ After(s, i) = [s EXCEPT !.data[s.dst] = v, !.dst = (s.dst + 1) % q.capacity]
    BY Zenon
  <2> HIDE DEF After
  <2> QED BY <2>11, <2>12, <2>13
<1>4. s0 \in R
  OBVIOUS
<1>5. g \in [1 .. n -> [R -> R]] /\ \A i \in 1 .. n : \A s \in R : g[i][s] = After(s, i)
  <2> HIDE DEF After, R, n
  <2> QED BY <1>3
<1>6. \E f : Is(f)
  <2>1. PICK f \in [0 .. n -> R] : f[0] = s0 /\ \A i \in 1 .. n : f[i] = g[i][f[i - 1]]
    <3>1. g \in [1 .. n -> [R -> R]]
      BY <1>5
    <3> HIDE DEF g, s0, R, n
    <3>2. PICK f : IsLoop(f, n, R, s0, g)
      BY <1>2, <1>4, <3>1, Looped
    <3> QED BY <3>2 DEF IsLoop
  <2>2. \A i \in 1 .. n : f[i] = After(f[i - 1], i)
    <3> HIDE DEF g, R, After, n
    <3>1. \A i \in 1 .. n : f[i - 1] \in R
      BY <1>2, <2>1
    <3> QED BY <1>5, <2>1, <3>1
  <2> DEFINE h == [i \in 0 .. n |-> IF i = 0 THEN s0 ELSE After(f[i - 1], i)]
  <2>3. f = h
    <3> HIDE DEF After, s0, R, n
    <3>1. \A i \in 0 .. n : i = 0 \/ i \in 1 .. n
      BY <1>2
    <3> QED BY <2>1, <2>2, <3>1
  <2>4. Is(f)
    BY <2>3, Zenon
  <2> QED BY <2>4
<1>7. Is(step)
  <2> HIDE DEF Is
  <2> QED BY <1>6
<1>8. step = [i \in 0 .. n |-> IF i = 0 THEN s0 ELSE After(step[i - 1], i)]
  <2> HIDE DEF step
  <2> QED BY <1>7, Zenon
<1>9. step[0] = s0 /\ \A i \in 1 .. n : step[i] = After(step[i - 1], i)
  <2> HIDE DEF step, s0, After, n
  <2>1. 0 \in 0 .. n /\ \A i \in 1 .. n : i \in 0 .. n /\ i # 0
    BY <1>2
  <2> QED BY <1>8, <2>1
<1> HIDE DEF step, Is, g
<1>10. IsCompact(step, q, S)
  BY <1>9, Zenon DEF IsCompact
<1> QED BY <1>1, <1>10

\* queue_remove leaves what the abstract removal leaves, in its order, and counts
\* the rest.
LEMMA RemovedIs ==
    ASSUME NEW q, IsRing(q), NEW S,
           NEW r, r = [q EXCEPT !.data = Compacted(q, S).data, !.tail = Compacted(q, S).dst]
    PROVE  /\ IsRing(r)
           /\ Content(r) = Abstract!Without(Content(q), S)
           /\ Compacted(q, S).count = Len(Content(q)) - Len(Content(r))
<1> DEFINE n == QueueSize(q)
           s == Content(q)
<1>1. PICK f : IsCompact(f, q, S) /\ Compacted(q, S) = f[n]
  BY CompactedIs
<1>2. s \in Seq(Nat) /\ Len(s) = n /\ n \in Nat
  BY ContentIs
<1>3. PICK k : IsKept(k, s, S) /\ Abstract!Without(s, S) = k[Len(s)]
  <2> HIDE DEF s
  <2> QED BY <1>2, WithoutIs
<1>4. /\ k \in [0 .. n -> Seq(Nat)] /\ k[0] = << >>
      /\ \A i \in 1 .. n : k[i] = IF s[i] \in S THEN k[i - 1] ELSE Append(k[i - 1], s[i])
  <2> HIDE DEF s
  <2> QED BY <1>2, <1>3 DEF IsKept
<1>5. f[0] = [data |-> q.data, dst |-> q.head, count |-> 0]
  BY <1>1 DEF IsCompact
<1>6. q = [data |-> q.data, capacity |-> q.capacity, head |-> q.head, tail |-> q.tail]
  BY DEF IsRing
<1>7. CASE q.capacity = 0
  <2>1. n = 0 /\ q.head = 0 /\ q.tail = 0
    BY <1>7 DEF QueueSize, IsRing
  <2>2. r = [q EXCEPT !.data = q.data, !.tail = q.head]
    <3> HIDE DEF n
    <3>1. Compacted(q, S).data = q.data /\ Compacted(q, S).dst = q.head
      BY <1>1, <1>5, <2>1
    <3> QED BY <3>1
  <2>3. r = q
    BY <1>6, <2>1, <2>2
  <2>4. s = << >>
    BY <2>1, NoneIs
  <2>5. Compacted(q, S).count = 0
    <3> HIDE DEF n
    <3> QED BY <1>1, <1>5, <2>1
  <2> HIDE DEF s, n
  <2>6. Abstract!Without(s, S) = << >>
    BY <1>2, <1>3, <1>4, <2>1
  <2>7. Content(r) = s /\ IsRing(r)
    BY <2>3 DEF s
  <2>8. Len(s) - Len(s) = 0
    BY <1>2, <2>1
  <2> QED BY <2>4, <2>5, <2>6, <2>7, <2>8 DEF s
<1>8. CASE q.capacity > 0
  <2>1. PICK c, d, h, t : RingOf(q, c, d, h, t)
    BY <1>8, RingParts
  <2>2. /\ c \in Nat \ {0, 1} /\ d \in [0 .. c - 1 -> Nat] /\ h \in 0 .. c - 1 /\ t \in 0 .. c - 1
        /\ q = [data |-> d, capacity |-> c, head |-> h, tail |-> t]
        /\ q.capacity = c /\ q.data = d /\ q.head = h /\ q.tail = t
        /\ n = Between(h, t, c)
        /\ n \in 0 .. c - 1
        /\ \A i \in 0 .. c - 1 : Slot(q, i) = Onward(h, i, c) /\ Slot(q, i) \in 0 .. c - 1
    BY <2>1 DEF RingOf
  <2>3. \A i \in 1 .. n : s[i] = d[Slot(q, i - 1)]
    BY <2>2, ContentIs
  <2> HIDE DEF n, s
  <2>0. c \in Nat \ {0, 1} /\ d \in [0 .. c - 1 -> Nat] /\ h \in 0 .. c - 1 /\ t \in 0 .. c - 1 /\ n \in 0 .. c - 1
    BY <2>2
  <2>4. \A i \in 1 .. n : i - 1 \in 0 .. c - 1
    BY <2>0
  <2>5. \A i \in 1 .. n : Slot(q, i - 1) = Onward(h, i - 1, c)
    BY <2>2, <2>4
  <2> DEFINE T == {i \in 0 .. n : CompactedTo(f[i], c, h, s, k[i], i)}
  <2>6. 0 \in T
    <3>1. f[0] \in [data : [0 .. c - 1 -> Nat], dst : 0 .. c - 1, count : Nat]
      BY <1>5, <2>2
    <3>2. Len(k[0]) = 0 /\ k[0] \in Seq(Nat)
      BY <1>4, EmptySeq
    <3>3. Onward(h, 0, c) = h
      BY <2>0 DEF Onward
    <3>4. f[0].dst = Onward(h, 0, c) /\ f[0].count = 0 - 0 /\ f[0].data = d
      BY <1>5, <2>2, <3>3
    <3>5. \A j \in 0 + 1 .. Len(s) : f[0].data[Onward(h, j - 1, c)] = s[j]
      <4>1. 0 + 1 .. Len(s) = 1 .. n
        BY <1>2
      <4> QED BY <2>3, <2>5, <3>4, <4>1
    <3>6. \A j \in 1 .. 0 : f[0].data[Onward(h, j - 1, c)] = k[0][j]
      OBVIOUS
    <3>7. CompactedTo(f[0], c, h, s, k[0], 0)
      BY <3>1, <3>2, <3>4, <3>5, <3>6 DEF CompactedTo
    <3> QED BY <1>2, <3>7
  <2>7. ASSUME NEW i \in 1 .. n, i - 1 \in T PROVE i \in T
    <3> DEFINE x == f[i - 1]
               v == x.data[Slot(q, i - 1)]
               y == k[i - 1]
    <3>1. CompactedTo(x, c, h, s, y, i - 1)
      BY <2>7
    <3>2. v = x.data[Onward(h, i - 1, c)]
      BY <2>5
    <3>3. f[i] = IF v \in S THEN [x EXCEPT !.count = @ + 1]
                 ELSE [x EXCEPT !.data[x.dst] = v, !.dst = (x.dst + 1) % c]
      <4>1. f[i] = IF v \in S THEN [x EXCEPT !.count = @ + 1]
                   ELSE [x EXCEPT !.data[x.dst] = v, !.dst = (x.dst + 1) % q.capacity]
        BY <1>1, Zenon DEF IsCompact, n
      <4> HIDE DEF x, v
      <4> QED BY <2>2, <4>1, Zenon
    <3> HIDE DEF x, v, y
    <3>4. Len(s) \in 0 .. c - 1 /\ i \in 1 .. Len(s)
      BY <1>2, <2>0
    <3>5. /\ v = s[i]
          /\ v \in S => CompactedTo([x EXCEPT !.count = @ + 1], c, h, s, y, i)
          /\ v \notin S => CompactedTo([x EXCEPT !.data[x.dst] = v, !.dst = (x.dst + 1) % c],
                                       c, h, s, Append(y, v), i)
      <4>1. v = s[i]
        <5>1. i \in (i - 1) + 1 .. Len(s)
          BY <1>2, <2>0
        <5> QED BY <3>1, <3>2, <5>1 DEF CompactedTo
      <4>2. v \in S => CompactedTo([x EXCEPT !.count = @ + 1], c, h, s, y, i)
        BY <1>2, <2>0, <3>1, <3>2, <3>4, CompactedOn
      <4>3. v \notin S => CompactedTo([x EXCEPT !.data[x.dst] = v, !.dst = (x.dst + 1) % c],
                                       c, h, s, Append(y, v), i)
        BY <1>2, <2>0, <3>1, <3>2, <3>4, CompactedOn
      <4> QED BY <4>1, <4>2, <4>3
    <3>6. k[i] = IF s[i] \in S THEN y ELSE Append(y, s[i])
      BY <1>4 DEF y
    <3>7. CompactedTo(f[i], c, h, s, k[i], i)
      <4>1. CASE v \in S
        BY <3>3, <3>5, <3>6, <4>1, Zenon
      <4>2. CASE v \notin S
        BY <3>3, <3>5, <3>6, <4>2, Zenon
      <4> QED BY <4>1, <4>2
    <3>8. i \in 0 .. n
      BY <2>0
    <3> QED BY <3>7, <3>8
  <2>8. n \in T
    <3> HIDE DEF T
    <3>1. 0 .. n \subseteq T
      BY <1>2, <2>6, <2>7, CountedUp
    <3> QED BY <1>2, <3>1
  <2> DEFINE x == f[n]
             y == k[n]
             m == Len(y)
  <2>9. CompactedTo(x, c, h, s, y, n)
    BY <2>8
  <2> HIDE DEF T, x, y, m
  <2>10. /\ x \in [data : [0 .. c - 1 -> Nat], dst : 0 .. c - 1, count : Nat]
         /\ y \in Seq(Nat) /\ m <= n
         /\ x.dst = Onward(h, m, c)
         /\ x.count = n - m
         /\ \A j \in 1 .. m : x.data[Onward(h, j - 1, c)] = y[j]
    BY <2>9 DEF CompactedTo, m
  <2>11. m \in 0 .. c - 1 /\ x.dst \in 0 .. c - 1 /\ x.data \in [0 .. c - 1 -> Nat]
    <3>1. m \in Nat
      BY <2>10, LenProperties DEF m
    <3> QED BY <2>0, <2>10, <3>1
  <2>12. Between(h, x.dst, c) = m
    <3>1. c \in Nat \ {0} /\ h \in 0 .. c - 1 /\ m \in 0 .. c - 1
      BY <2>0, <2>11
    <3>2. Between(h, Onward(h, m, c), c) = m
      BY <3>1, ThereAndBack
    <3> QED BY <2>10, <3>2
  <2>13. r = [data |-> x.data, capacity |-> c, head |-> h, tail |-> x.dst]
    <3>1. r = [q EXCEPT !.data = x.data, !.tail = x.dst]
      BY <1>1 DEF x
    <3> QED BY <2>2, <3>1
  <2>14. RingWith(r, c, x.data, h, x.dst, y)
    BY <2>0, <2>10, <2>11, <2>12, <2>13 DEF RingWith, m
  <2>15. IsRing(r) /\ Content(r) = y
    BY <2>14, RingMadeOf
  <2>16. Abstract!Without(s, S) = y /\ Compacted(q, S).count = n - m
    BY <1>1, <1>2, <1>3, <2>10 DEF x, y
  <2> QED BY <1>2, <2>15, <2>16 DEF s, m
<1>9. q.capacity \in Nat
  BY DEF IsRing
<1> QED BY <1>7, <1>8, <1>9

-----------------------------------------------------------------------------
(***************************************************************************)
(* The queue implements the FIFO                                           *)
(***************************************************************************)

\* What an empty ring holds
LEMMA EmptyIs ==
    ASSUME NEW q, IsRing(q), QueueIsEmpty(q)
    PROVE  Content(q) = << >>
<1>1. QueueSize(q) = 0
  <2>1. CASE q.capacity = 0
    BY <2>1 DEF QueueSize
  <2>2. CASE q.capacity > 0
    <3>1. q.head \in Nat /\ q.tail = q.head /\ q.capacity \in Nat
      BY <2>2 DEF IsRing, QueueIsEmpty
    <3>2. QueueSize(q) = Between(q.head, q.tail, q.capacity)
      BY <2>2, RingIs
    <3> QED BY <3>1, <3>2 DEF Between
  <2> QED BY <2>1, <2>2 DEF IsRing
<1> QED BY <1>1, NoneIs

\* Before create, or after destroy
LEMMA NoBufferIs == IsRing(NoBuffer) /\ Content(NoBuffer) = << >>
<1>1. IsRing(NoBuffer)
  BY DEF IsRing, NoBuffer
<1>2. QueueIsEmpty(NoBuffer)
  BY DEF NoBuffer, QueueIsEmpty
<1> QED BY <1>1, <1>2, EmptyIs

\* A ring whose head and tail were reset is empty.
LEMMA ClearedIs ==
    ASSUME NEW q, IsRing(q), NEW r, r = [q EXCEPT !.head = 0, !.tail = 0]
    PROVE  IsRing(r) /\ Content(r) = << >>
<1>1. q = [data |-> q.data, capacity |-> q.capacity, head |-> q.head, tail |-> q.tail]
  BY DEF IsRing
<1>2. r = [data |-> q.data, capacity |-> q.capacity, head |-> 0, tail |-> 0]
  BY <1>1
<1>3. r.data = q.data /\ r.capacity = q.capacity /\ r.head = 0 /\ r.tail = 0
  BY <1>2
<1>4. /\ q.capacity \in Nat \ {1}
      /\ q.capacity > 0 => q.data \in [0 .. q.capacity - 1 -> Nat] /\ 0 \in 0 .. q.capacity - 1
  BY DEF IsRing
<1>5. IsRing(r)
  <2>1. r = [data |-> r.data, capacity |-> r.capacity, head |-> r.head, tail |-> r.tail]
    BY <1>2, <1>3
  <2> QED BY <1>3, <1>4, <2>1 DEF IsRing
<1>6. QueueIsEmpty(r)
  BY <1>3 DEF QueueIsEmpty
<1> QED BY <1>5, <1>6, EmptyIs

\* reserve, for one element or more: there is room, and nothing has changed.
LEMMA ReservedIs ==
    ASSUME NEW q, IsRing(q), NEW n \in Nat \ {0}
    PROVE  /\ IsRing(Reserved(q, n))
           /\ Content(Reserved(q, n)) = Content(q)
           /\ n < Reserved(q, n).capacity
<1>1. q.capacity \in Nat
  BY DEF IsRing
<1>2. CASE n + 1 <= q.capacity
  BY <1>1, <1>2 DEF Reserved
<1>3. CASE n + 1 > q.capacity
  <2> DEFINE r == [data |-> Copied(q, n + 1), capacity |-> n + 1, head |-> 0, tail |-> QueueSize(q)]
  <2>1. Reserved(q, n) = r
    BY <1>1, <1>3 DEF Reserved
  <2>2. n + 1 \in Nat \ {0, 1} /\ r.capacity = n + 1
    OBVIOUS
  <2>3. r = [data |-> Copied(q, n + 1), capacity |-> n + 1, head |-> 0, tail |-> QueueSize(q)]
    OBVIOUS
  <2> HIDE DEF r
  <2>4. IsRing(r) /\ Content(r) = Content(q)
    BY <1>3, <2>2, <2>3, CopiedIs
  <2> QED BY <2>1, <2>2, <2>4
<1> QED BY <1>1, <1>2, <1>3

\* A push on a full ring makes it larger; it is not full then.
LEMMA GrownIs ==
    ASSUME NEW q, IsRing(q), QueueIsFull(q),
           NEW r, r = Reserved(q, NextCapacity(q))
    PROVE  IsRing(r) /\ Content(r) = Content(q) /\ ~QueueIsFull(r)
<1> DEFINE n == NextCapacity(q)
<1>1. /\ n \in Nat \ {0}
      /\ QueueSize(q) < n
  <2>1. CASE q.capacity = 0
    BY <2>1, QueueAssumption DEF NextCapacity, QueueSize
  <2>2. CASE q.capacity > 0
    <3>1. q.capacity \in Nat \ {0, 1} /\ n = (q.capacity - 1) * 2
      BY <2>2 DEF IsRing, NextCapacity
    <3>2. QueueSize(q) = q.capacity - 1
      BY <2>2 DEF QueueIsFull
    <3> QED BY <3>1, <3>2
  <2> QED BY <2>1, <2>2 DEF IsRing
<1> HIDE DEF n
<1>2. IsRing(r) /\ Content(r) = Content(q) /\ n < r.capacity
  BY <1>1, ReservedIs DEF n
<1>3. QueueSize(r) = QueueSize(q) /\ QueueSize(r) \in Nat
  BY <1>2, ContentIs
<1>4. r.capacity \in Nat
  BY <1>2 DEF IsRing
<1>5. ~QueueIsFull(r)
  BY <1>1, <1>2, <1>3, <1>4 DEF QueueIsFull
<1> QED BY <1>2, <1>5

\* The inductive invariant of the queue
QueueInv == qUsable \in BOOLEAN /\ (qUsable => IsRing(queue))

\* What the queue holds for the one who uses it.
Items == IF qUsable THEN Content(queue) ELSE << >>

\* No queue was created.
LEMMA QueueInitFifo == QueueInit => QueueInv /\ Abstract!FifoInit
  BY NoBufferIs DEF QueueInit, QueueInv, Abstract!FifoInit, Abstract!Answer

\* create
LEMMA CreateFifo ==
    ASSUME ~qUsable, NEW n \in Nat, QueueCreate(n)
    PROVE  QueueInv' /\ Abstract!FifoNext
<1>1. qUsable' = TRUE
  BY DEF QueueCreate
<1>2. PICK ok \in BOOLEAN : qAnswer' = [call |-> "create", ok |-> ok, val |-> 0]
  BY DEF QueueCreate, Answered
<1>3. queue' = NoBuffer \/ (n # 0 /\ queue' = Reserved(NoBuffer, n))
  BY DEF QueueCreate
<1>4. IsRing(queue') /\ Content(queue') = << >>
  BY <1>3, NoBufferIs, ReservedIs
<1>5. Abstract!Create(ok)
  BY <1>1, <1>2, <1>4 DEF Abstract!Create, Abstract!Answer
<1>6. QueueInv'
  BY <1>1, <1>4 DEF QueueInv
<1> QED BY <1>5, <1>6 DEF Abstract!FifoNext

\* destroy
LEMMA DestroyFifo ==
    ASSUME QueueDestroy
    PROVE  QueueInv' /\ Abstract!FifoNext
<1>1. qUsable' = FALSE /\ qAnswer' = [call |-> "destroy", ok |-> TRUE, val |-> 0]
  BY DEF QueueDestroy, Answered
<1>2. Abstract!Destroy
  BY <1>1 DEF Abstract!Destroy, Abstract!Answer
<1> QED BY <1>1, <1>2 DEF QueueInv, Abstract!FifoNext

\* reserve
LEMMA ReserveFifo ==
    ASSUME qUsable, QueueInv, NEW n \in Nat \ {0}, QueueReserve(n)
    PROVE  QueueInv' /\ Abstract!FifoNext
<1>1. qUsable' = qUsable /\ IsRing(queue)
  BY DEF QueueReserve, QueueInv
<1>2. PICK ok \in BOOLEAN : qAnswer' = [call |-> "reserve", ok |-> ok, val |-> 0]
  BY DEF QueueReserve, Answered
<1>3. queue' = queue \/ queue' = Reserved(queue, n)
  BY DEF QueueReserve
<1>4. IsRing(queue') /\ Content(queue') = Content(queue)
  BY <1>1, <1>3, ReservedIs
<1>5. Abstract!Reserve(ok)
  BY <1>1, <1>2, <1>4 DEF Abstract!Reserve, Abstract!Answer
<1>6. QueueInv'
  BY <1>1, <1>4 DEF QueueInv
<1> QED BY <1>5, <1>6 DEF Abstract!FifoNext

\* push, on a ring that is full or not
LEMMA PushFifo ==
    ASSUME qUsable, QueueInv, NEW v \in Val, QueuePush(v)
    PROVE  QueueInv' /\ Abstract!FifoNext
<1> DEFINE r == Reserved(queue, NextCapacity(queue))
<1>1. qUsable' = qUsable /\ IsRing(queue) /\ v \in Nat
  BY QueueAssumption DEF QueuePush, QueueInv
<1>2. \/ ~QueueIsFull(queue) /\ queue' = Pushed(queue, v) /\ Answered("push", TRUE, v)
      \/ QueueIsFull(queue) /\ queue' = Pushed(r, v) /\ Answered("push", TRUE, v)
      \/ queue' = queue /\ Answered("push", FALSE, v)
  BY DEF QueuePush
<1> HIDE DEF r
<1>3. ASSUME NEW q, IsRing(q), Content(q) = Content(queue), ~QueueIsFull(q),
             queue' = Pushed(q, v), Answered("push", TRUE, v)
      PROVE  QueueInv' /\ Abstract!FifoNext
  <2>1. IsRing(queue') /\ Content(queue') = Append(Content(queue), v)
    BY <1>1, <1>3, PushedIs
  <2>2. Abstract!Push(v)
    BY <1>1, <1>3, <2>1 DEF Abstract!Push, Abstract!Answer, Answered
  <2>3. QueueInv'
    BY <1>1, <2>1 DEF QueueInv
  <2> QED BY <2>2, <2>3 DEF Abstract!FifoNext
<1>4. CASE ~QueueIsFull(queue) /\ queue' = Pushed(queue, v) /\ Answered("push", TRUE, v)
  BY <1>1, <1>3, <1>4
<1>5. CASE QueueIsFull(queue) /\ queue' = Pushed(r, v) /\ Answered("push", TRUE, v)
  <2>1. r = Reserved(queue, NextCapacity(queue))
    BY DEF r
  <2>2. IsRing(r) /\ Content(r) = Content(queue) /\ ~QueueIsFull(r)
    BY <1>1, <1>5, <2>1, GrownIs
  <2> QED BY <1>3, <1>5, <2>2
<1>6. CASE queue' = queue /\ Answered("push", FALSE, v)
  <2>1. Abstract!PushFails(v)
    BY <1>1, <1>6 DEF Abstract!PushFails, Abstract!Answer, Answered
  <2>2. QueueInv'
    BY <1>1, <1>6 DEF QueueInv
  <2> QED BY <2>1, <2>2 DEF Abstract!FifoNext
<1> QED BY <1>2, <1>4, <1>5, <1>6

\* pop and drop, on a ring that is empty or not
LEMMA PopFifo ==
    ASSUME qUsable, QueueInv, QueuePop \/ QueueDrop
    PROVE  QueueInv' /\ Abstract!FifoNext
<1>1. qUsable' = qUsable /\ IsRing(queue)
  BY DEF QueuePop, QueueDrop, QueueInv
<1>2. CASE QueueIsEmpty(queue)
  <2>1. Content(queue) = << >>
    BY <1>1, <1>2, EmptyIs
  <2>2. queue' = queue
    BY <1>2 DEF QueuePop, QueueDrop
  <2>3. QueuePop => Abstract!Pop
    BY <1>1, <1>2, <2>1, <2>2
    DEF QueuePop, Answered, Abstract!Pop, Abstract!Rest, Abstract!FrontOf, Abstract!Answer
  <2>4. ASSUME QueueDrop PROVE Abstract!Drop
    <3>1. Abstract!FrontOf("drop") = [call |-> "drop", ok |-> FALSE, val |-> 0]
      BY <1>1, <2>1 DEF Abstract!FrontOf, Abstract!Answer
    <3>2. qAnswer' = [call |-> "drop", ok |-> FALSE, val |-> 0]
      BY <1>2, <2>4 DEF QueueDrop, Answered
    <3>3. [[call |-> "drop", ok |-> FALSE, val |-> 0] EXCEPT !.val = 0]
            = [call |-> "drop", ok |-> FALSE, val |-> 0]
      OBVIOUS
    <3>4. qAnswer' = [Abstract!FrontOf("drop") EXCEPT !.val = 0]
      BY <3>1, <3>2, <3>3, Zenon
    <3> QED BY <1>1, <2>1, <2>2, <3>4 DEF Abstract!Drop, Abstract!Rest
  <2>5. QueueInv'
    BY <1>1, <2>2 DEF QueueInv
  <2> QED BY <2>3, <2>4, <2>5 DEF Abstract!FifoNext
<1>3. CASE ~QueueIsEmpty(queue)
  <2>1. /\ IsRing(Popped(queue))
        /\ Content(queue) # << >>
        /\ Head(Content(queue)) = queue.data[queue.head]
        /\ Content(Popped(queue)) = Tail(Content(queue))
    BY <1>1, <1>3, PoppedIs
  <2>2. queue' = Popped(queue)
    BY <1>3 DEF QueuePop, QueueDrop
  <2>3. QueuePop => Abstract!Pop
    BY <1>1, <1>3, <2>1, <2>2
    DEF QueuePop, Answered, Abstract!Pop, Abstract!Rest, Abstract!FrontOf, Abstract!Answer
  <2>4. ASSUME QueueDrop PROVE Abstract!Drop
    <3>1. Abstract!FrontOf("drop") = [call |-> "drop", ok |-> TRUE, val |-> Head(Content(queue))]
      BY <1>1, <2>1 DEF Abstract!FrontOf, Abstract!Answer
    <3>2. qAnswer' = [call |-> "drop", ok |-> TRUE, val |-> 0]
      BY <1>3, <2>4 DEF QueueDrop, Answered
    <3>3. ASSUME NEW ok, NEW v
          PROVE  [[call |-> "drop", ok |-> ok, val |-> v] EXCEPT !.val = 0]
                    = [call |-> "drop", ok |-> ok, val |-> 0]
      OBVIOUS
    <3>4. qAnswer' = [Abstract!FrontOf("drop") EXCEPT !.val = 0]
      BY <3>1, <3>2, <3>3, Zenon
    <3> QED BY <1>1, <2>1, <2>2, <3>4 DEF Abstract!Drop, Abstract!Rest
  <2>5. QueueInv'
    BY <1>1, <2>1, <2>2 DEF QueueInv
  <2> QED BY <2>3, <2>4, <2>5 DEF Abstract!FifoNext
<1> QED BY <1>2, <1>3

\* peek
LEMMA PeekFifo ==
    ASSUME qUsable, QueueInv, QueuePeek
    PROVE  QueueInv' /\ Abstract!FifoNext
<1>1. qUsable' = qUsable /\ queue' = queue /\ IsRing(queue)
  BY DEF QueuePeek, QueueInv
<1>2. Abstract!Peek
  <2>1. CASE QueueIsEmpty(queue)
    <3>1. Content(queue) = << >>
      BY <1>1, <2>1, EmptyIs
    <3> QED BY <1>1, <2>1, <3>1 DEF QueuePeek, Answered, Abstract!Peek, Abstract!FrontOf, Abstract!Answer
  <2>2. CASE ~QueueIsEmpty(queue)
    <3>1. Content(queue) # << >> /\ Head(Content(queue)) = queue.data[queue.head]
      BY <1>1, <2>2, PoppedIs
    <3> QED BY <1>1, <2>2, <3>1 DEF QueuePeek, Answered, Abstract!Peek, Abstract!FrontOf, Abstract!Answer
  <2> QED BY <2>1, <2>2
<1> QED BY <1>1, <1>2 DEF QueueInv, Abstract!FifoNext

\* clear
LEMMA ClearFifo ==
    ASSUME qUsable, QueueInv, QueueClear
    PROVE  QueueInv' /\ Abstract!FifoNext
<1>1. /\ qUsable' = qUsable /\ IsRing(queue)
      /\ queue' = [queue EXCEPT !.head = 0, !.tail = 0]
      /\ qAnswer' = [call |-> "clear", ok |-> TRUE, val |-> 0]
  BY DEF QueueClear, QueueInv, Answered
<1>2. IsRing(queue') /\ Content(queue') = << >>
  BY <1>1, ClearedIs
<1>3. Abstract!Clear
  BY <1>1, <1>2 DEF Abstract!Clear, Abstract!Answer
<1> QED BY <1>1, <1>2, <1>3 DEF QueueInv, Abstract!FifoNext

\* remove, by a predicate
LEMMA RemoveFifo ==
    ASSUME qUsable, QueueInv, NEW S \in SUBSET Val, QueueRemove(S)
    PROVE  QueueInv' /\ Abstract!FifoNext
<1>1. /\ qUsable' = qUsable /\ IsRing(queue)
      /\ queue' = [queue EXCEPT !.data = Compacted(queue, S).data, !.tail = Compacted(queue, S).dst]
      /\ qAnswer' = [call |-> "remove", ok |-> TRUE, val |-> Compacted(queue, S).count]
  BY DEF QueueRemove, QueueInv, Answered
<1>2. /\ IsRing(queue')
      /\ Content(queue') = Abstract!Without(Content(queue), S)
      /\ Compacted(queue, S).count = Len(Content(queue)) - Len(Content(queue'))
  BY <1>1, RemovedIs
<1>3. Abstract!Remove(S)
  BY <1>1, <1>2 DEF Abstract!Remove, Abstract!Answer
<1> QED BY <1>1, <1>2, <1>3 DEF QueueInv, Abstract!FifoNext

\* getAt
LEMMA GetAtFifo ==
    ASSUME qUsable, QueueInv, NEW i \in 0 .. QueueSize(queue), QueueGetAt(i)
    PROVE  QueueInv' /\ Abstract!FifoNext
<1>1. qUsable' = qUsable /\ queue' = queue /\ IsRing(queue)
  BY DEF QueueGetAt, QueueInv
<1>2. /\ QueueSize(queue) \in Nat
      /\ Len(Content(queue)) = QueueSize(queue)
      /\ \A j \in 1 .. QueueSize(queue) : Content(queue)[j] = queue.data[Slot(queue, j - 1)]
  BY <1>1, ContentIs
<1>3. i < QueueSize(queue) => Content(queue)[i + 1] = queue.data[Slot(queue, i)]
  <2>1. (i + 1) - 1 = i
    OBVIOUS
  <2>2. i < QueueSize(queue) => i + 1 \in 1 .. QueueSize(queue)
    BY <1>2
  <2> QED BY <1>2, <2>1, <2>2
<1>4. i >= QueueSize(queue) <=> ~(i < QueueSize(queue))
  BY <1>2
<1>5. Abstract!GetAt(i) /\ i \in 0 .. Len(Items)
  BY <1>1, <1>2, <1>3, <1>4 DEF QueueGetAt, Answered, Abstract!GetAt, Abstract!Answer, Items
<1> QED BY <1>1, <1>5 DEF QueueInv, Abstract!FifoNext, Items

\* Every step keeps the invariant, and is one of the abstract queue.
LEMMA QueueStepFifo ==
    ASSUME 0 \notin ReserveCapacities, QueueInv, [QueueNext]_queueVars
    PROVE  QueueInv' /\ [Abstract!FifoNext]_(Abstract!fifoVars)
<1>1. CASE UNCHANGED queueVars
  BY <1>1 DEF queueVars, QueueInv, Abstract!fifoVars
<1>2. CASE ~qUsable /\ \E n \in InitialCapacities : QueueCreate(n)
  <2>1. PICK n \in Nat : QueueCreate(n)
    BY <1>2, QueueAssumption
  <2> QED BY <1>2, <2>1, CreateFifo
<1>3. CASE qUsable /\ (QueueDestroy \/ QueuePop \/ QueueDrop \/ QueuePeek \/ QueueClear)
  BY <1>3, DestroyFifo, PopFifo, PeekFifo, ClearFifo
<1>4. CASE qUsable /\ \E n \in ReserveCapacities : QueueReserve(n)
  <2>1. PICK n \in Nat \ {0} : QueueReserve(n)
    BY <1>4, QueueAssumption
  <2> QED BY <1>4, <2>1, ReserveFifo
<1>5. CASE qUsable /\ \E v \in Val : QueuePush(v)
  BY <1>5, PushFifo
<1>6. CASE qUsable /\ \E S \in SUBSET Val : QueueRemove(S)
  BY <1>6, RemoveFifo
<1>7. CASE qUsable /\ \E i \in 0 .. QueueSize(queue) : QueueGetAt(i)
  BY <1>7, GetAtFifo
<1> QED BY <1>1, <1>2, <1>3, <1>4, <1>5, <1>6, <1>7 DEF QueueNext

\* The ring buffer is a FIFO queue: its answers, its count and its order are those
\* of a sequence, for any capacities, values and removals, wherever head and tail
\* are in the ring and however often it grew. reserve(0) is left out: on an empty
\* queue it makes a ring of one slot, which loses what is pushed next. No caller
\* in the system reserves none.
THEOREM QueueImplementsFifo ==
    ASSUME 0 \notin ReserveCapacities
    PROVE  QueueSpec => QueueIsFifo
<1>1. QueueInit => QueueInv /\ Abstract!FifoInit
  BY QueueInitFifo
<1>2. QueueInv /\ [QueueNext]_queueVars => QueueInv' /\ [Abstract!FifoNext]_(Abstract!fifoVars)
  BY QueueStepFifo
<1> QED BY <1>1, <1>2, PTL DEF QueueSpec, QueueIsFifo, Abstract!FifoSpec

-----------------------------------------------------------------------------
(***************************************************************************)
(* Coroutines: the invariant                                               *)
(***************************************************************************)

\* The coroutine at place i of the chain of main and the coroutines q
Link(q, i) == IF i \in 1 .. Len(q) THEN q[i] ELSE Main

\* The pointers nx and pv join the places up to place to with the next ones.
Joined(nx, pv, q, to) ==
    \A i \in 0 .. to : nx[Link(q, i)] = Link(q, i + 1) /\ pv[Link(q, i + 1)] = Link(q, i)

\* No coroutine is in the chain twice.
Distinct(q) == \A i, j \in 1 .. Len(q) : q[i] = q[j] => i = j

\* The coroutines of the chain but main
Alive(q) == {q[i] : i \in 1 .. Len(q)}

\* What a field of type Coroutine* may hold
Pointer == All \cup {NullCo}

\* Types, and that no coroutine is in the chain twice
CoTypeOK ==
    /\ coState \in [All -> {"unused", "STARTING", "ACTIVE", "FINISHED"}]
    /\ coNext \in [All -> Pointer] /\ coPrevious \in [All -> Pointer]
    /\ coCtx \in [All -> Pointer \cup {StarterCtx}]
    /\ coCurr \in Pointer
    /\ alive \in Seq(Co) /\ Distinct(alive)

\* Before the first co_create nothing is set up.
NoneYet ==
    coCurr = NullCo =>
        /\ alive = << >> /\ coState[Main] = "STARTING"
        /\ \A c \in Co : coState[c] = "unused"
        /\ \A c \in All : coNext[c] = NullCo /\ coPrevious[c] = NullCo
        /\ coCtx[Main] = NullCo

\* The chain is closed, forwards and backwards, and nobody else is linked.
Linked ==
    coCurr # NullCo =>
        /\ Joined(coNext, coPrevious, alive, Len(alive))
        /\ \A c \in Co \ Alive(alive) : coNext[c] = NullCo /\ coPrevious[c] = NullCo

\* A coroutine is in the chain from its creation until it is finished.
Flags ==
    /\ \A c \in Co : c \in Alive(alive) <=> coState[c] \in {"STARTING", "ACTIVE"}
    /\ coState[Main] = IF coCurr = NullCo THEN "STARTING" ELSE "ACTIVE"

\* The context of a coroutine that is suspended is in its own frame; that of the
\* current one is cleared, or still the shared one from which it was started.
Contexts ==
    coCurr # NullCo =>
        /\ coCurr \in Alive(alive) \cup {Main} /\ coState[coCurr] = "ACTIVE"
        /\ coCtx[coCurr] \in {NullCo, StarterCtx}
        /\ \A c \in (Alive(alive) \cup {Main}) \ {coCurr} :
            \/ coState[c] = "STARTING" /\ coCtx[c] = NullCo
            \/ coState[c] = "ACTIVE" /\ coCtx[c] = c

\* The inductive invariant of the coroutines
CoInv == CoTypeOK /\ NoneYet /\ Linked /\ Flags /\ Contexts

-----------------------------------------------------------------------------
(***************************************************************************)
(* The chain of coroutines                                                 *)
(***************************************************************************)

\* Places of the chain: only main is at two, the first and the last.
LEMMA LinkFacts ==
    ASSUME NEW q \in Seq(Co), Distinct(q)
    PROVE  /\ Len(q) \in Nat
           /\ \A i \in 1 .. Len(q) : q[i] \in Co /\ Link(q, i) = q[i]
           /\ \A i : Link(q, i) \in Alive(q) \cup {Main}
           /\ Link(q, 0) = Main /\ Link(q, Len(q) + 1) = Main
           /\ \A i, j \in 0 .. Len(q) : Link(q, i) = Link(q, j) => i = j
           /\ \A i, j \in 1 .. Len(q) + 1 : Link(q, i) = Link(q, j) => i = j
           /\ \A c \in Alive(q) \cup {Main} : \E i \in 0 .. Len(q) : c = Link(q, i)
           /\ Alive(q) \subseteq Co
<1>1. Len(q) \in Nat /\ \A i \in 1 .. Len(q) : q[i] \in Co
  BY LenProperties
<1>2. Main \notin Co
  BY CoroutineAssumption
<1>3. \A i \in 1 .. Len(q) : Link(q, i) = q[i]
  BY DEF Link
<1>4. Link(q, 0) = Main /\ Link(q, Len(q) + 1) = Main
  BY <1>1 DEF Link
<1>5. \A i, j \in 0 .. Len(q) : Link(q, i) = Link(q, j) => i = j
  BY <1>1, <1>2 DEF Link, Distinct
<1>6. \A i, j \in 1 .. Len(q) + 1 : Link(q, i) = Link(q, j) => i = j
  BY <1>1, <1>2 DEF Link, Distinct
<1>7. \A c \in Alive(q) \cup {Main} : \E i \in 0 .. Len(q) : c = Link(q, i)
  <2>1. \A i \in 1 .. Len(q) : \E j \in 0 .. Len(q) : q[i] = Link(q, j)
    BY <1>1, <1>3
  <2>2. \E j \in 0 .. Len(q) : Main = Link(q, j)
    BY <1>1, <1>4
  <2> QED BY <2>1, <2>2 DEF Alive
<1>8. \A i : Link(q, i) \in Alive(q) \cup {Main}
  BY DEF Link, Alive
<1>9. Alive(q) \subseteq Co
  BY <1>1 DEF Alive
<1> QED BY <1>1, <1>3, <1>4, <1>5, <1>6, <1>7, <1>8, <1>9

\* co_create: a coroutine put before main closes the chain again.
LEMMA ChainAppended ==
    ASSUME NEW q \in Seq(Co), Distinct(q), NEW c \in Co \ Alive(q),
           NEW nx \in [All -> Pointer], NEW pv \in [All -> Pointer],
           Joined(nx, pv, q, Len(q) - 1)
    PROVE  /\ Append(q, c) \in Seq(Co) /\ Distinct(Append(q, c))
           /\ Alive(Append(q, c)) = Alive(q) \cup {c}
           /\ Joined([nx EXCEPT ![Link(q, Len(q))] = c, ![c] = Main],
                     [pv EXCEPT ![Main] = c, ![c] = Link(q, Len(q))],
                     Append(q, c), Len(q) + 1)
<1> DEFINE r == Append(q, c)
           last == Link(q, Len(q))
           nx1 == [nx EXCEPT ![last] = c, ![c] = Main]
           pv1 == [pv EXCEPT ![Main] = c, ![c] = last]
<1>0. PICK n \in Nat : n = Len(q)
  BY LinkFacts
<1>1. /\ r \in Seq(Co) /\ Len(r) = n + 1 /\ r[n + 1] = c
      /\ \A i \in 1 .. n : r[i] = q[i]
  BY <1>0, AppendProperties
<1>2. \A i \in 1 .. n : q[i] \in Co /\ q[i] # c
  BY <1>0, LinkFacts DEF Alive
<1>3. /\ last \in Alive(q) \cup {Main} /\ last # c /\ last \in All /\ c \in All /\ Main \in All
      /\ Main # c
  BY <1>0, LinkFacts, CoroutineAssumption DEF All
<1> HIDE DEF r
<1>4. \A i \in 0 .. n : Link(r, i) = Link(q, i)
  BY <1>0, <1>1 DEF Link
<1>5. Link(r, n + 1) = c /\ Link(r, n + 2) = Main
  BY <1>1 DEF Link
<1>6. Distinct(r)
  <2>1. \A i, j \in 1 .. n : q[i] = q[j] => i = j
    BY <1>0 DEF Distinct
  <2>2. ASSUME NEW i \in 1 .. n + 1, NEW j \in 1 .. n + 1, r[i] = r[j] PROVE i = j
    <3>1. (i \in 1 .. n \/ i = n + 1) /\ (j \in 1 .. n \/ j = n + 1)
      OBVIOUS
    <3> QED BY <1>1, <1>2, <2>1, <2>2, <3>1
  <2> QED BY <1>1, <2>2 DEF Distinct
<1>7. Alive(r) = Alive(q) \cup {c}
  <2>1. \A i \in 1 .. n + 1 : r[i] \in Alive(q) \cup {c}
    <3> SUFFICES ASSUME NEW i \in 1 .. n + 1 PROVE r[i] \in Alive(q) \cup {c}
      OBVIOUS
    <3>1. i \in 1 .. n \/ i = n + 1
      OBVIOUS
    <3> QED BY <1>0, <1>1, <3>1 DEF Alive
  <2>2. \A i \in 1 .. n : i \in 1 .. n + 1 /\ q[i] = r[i]
    BY <1>1
  <2>3. n + 1 \in 1 .. n + 1 /\ r[n + 1] = c
    BY <1>1
  <2>4. Alive(r) = {r[i] : i \in 1 .. n + 1} /\ Alive(q) = {q[i] : i \in 1 .. n}
    BY <1>0, <1>1 DEF Alive
  <2> QED BY <2>1, <2>2, <2>3, <2>4
<1>8. /\ nx1[last] = c /\ nx1[c] = Main /\ \A x \in All \ {c, last} : nx1[x] = nx[x]
      /\ pv1[Main] = c /\ pv1[c] = last /\ \A x \in All \ {c, Main} : pv1[x] = pv[x]
  BY <1>3
<1> HIDE DEF nx1, pv1
<1>9. ASSUME NEW i \in 0 .. n + 1
      PROVE  nx1[Link(r, i)] = Link(r, i + 1) /\ pv1[Link(r, i + 1)] = Link(r, i)
  <2>1. CASE i = n + 1
    BY <2>1, <1>5, <1>8
  <2>2. CASE i = n
    BY <2>2, <1>0, <1>4, <1>5, <1>8
  <2>3. CASE i < n
    <3>1. Link(r, i) = Link(q, i) /\ Link(r, i + 1) = Link(q, i + 1)
      BY <2>3, <1>4
    <3>2. i \in 0 .. n - 1 /\ i \in 0 .. n /\ n \in 0 .. n /\ i + 1 \in 0 .. n /\ 0 \in 0 .. n
      BY <2>3
    <3>3. Link(q, i) # last /\ Link(q, i + 1) # Main
      BY <3>2, <2>3, <1>0, LinkFacts
    <3>4. Link(q, i) \in All \ {c, last} /\ Link(q, i + 1) \in All \ {c, Main}
      BY <3>3, <1>3, LinkFacts DEF All
    <3>5. nx[Link(q, i)] = Link(q, i + 1) /\ pv[Link(q, i + 1)] = Link(q, i)
      BY <3>2, <1>0 DEF Joined
    <3> QED BY <3>1, <3>4, <3>5, <1>8
  <2> QED BY <2>1, <2>2, <2>3
<1>10. Joined(nx1, pv1, r, n + 1)
  BY <1>9 DEF Joined
<1> QED BY <1>0, <1>1, <1>6, <1>7, <1>10 DEF r, nx1, pv1

\* finish: the neighbours of a coroutine, which may be one and the same, are joined.
LEMMA ChainCut ==
    ASSUME NEW q \in Seq(Co), Distinct(q), NEW k \in 1 .. Len(q),
           NEW nx \in [All -> Pointer], NEW pv \in [All -> Pointer],
           Joined(nx, pv, q, Len(q))
    PROVE  /\ RemoveAt(q, k) \in Seq(Co) /\ Distinct(RemoveAt(q, k))
           /\ Alive(RemoveAt(q, k)) = Alive(q) \ {q[k]}
           /\ Joined([nx EXCEPT ![pv[q[k]]] = nx[q[k]], ![q[k]] = NullCo],
                     [pv EXCEPT ![nx[q[k]]] = pv[q[k]], ![q[k]] = NullCo],
                     RemoveAt(q, k), Len(q) - 1)
           /\ Len(RemoveAt(q, k)) = Len(q) - 1
           /\ nx[q[k]] \in (Alive(q) \cup {Main}) \ {q[k]}
           /\ pv[q[k]] \in (Alive(q) \cup {Main}) \ {q[k]}
<1> DEFINE r == RemoveAt(q, k)
           c == q[k]
           before == pv[c]
           next == nx[c]
           nx1 == [nx EXCEPT ![before] = next, ![c] = NullCo]
           pv1 == [pv EXCEPT ![next] = before, ![c] = NullCo]
<1>0. PICK n \in Nat : n = Len(q) /\ k \in 1 .. n /\ k \in Nat /\ k >= 1 /\ k <= n
  BY LinkFacts
<1>1. /\ r \in Seq(Co) /\ Len(r) = n - 1
      /\ \A i \in 1 .. n - 1 : r[i] = IF i < k THEN q[i] ELSE q[i + 1]
  <2>1. /\ SubSeq(q, 1, k - 1) \in Seq(Co) /\ Len(SubSeq(q, 1, k - 1)) = k - 1
        /\ \A i \in 1 .. k - 1 : SubSeq(q, 1, k - 1)[i] = q[i]
    BY <1>0, SubSeqProperties
  <2>2. /\ SubSeq(q, k + 1, n) \in Seq(Co) /\ Len(SubSeq(q, k + 1, n)) = n - k
        /\ \A i \in 1 .. n - k : SubSeq(q, k + 1, n)[i] = q[k + i]
    <3>1. k < n \/ k = n
      BY <1>0
    <3> QED BY <1>0, <3>1, SubSeqProperties
  <2> HIDE DEF r
  <2>3. /\ r = SubSeq(q, 1, k - 1) \o SubSeq(q, k + 1, n)
    BY <1>0 DEF r, RemoveAt
  <2>4. ASSUME NEW a \in Seq(Co), NEW b \in Seq(Co), Len(a) = k - 1, Len(b) = n - k
        PROVE  /\ a \o b \in Seq(Co) /\ Len(a \o b) = n - 1
               /\ \A i \in 1 .. n - 1 : (a \o b)[i] = IF i < k THEN a[i] ELSE b[i - (k - 1)]
    <3>1. Len(a) + Len(b) = n - 1
      BY <1>0, <2>4
    <3>2. /\ a \o b \in Seq(Co) /\ Len(a \o b) = Len(a) + Len(b)
          /\ \A i \in 1 .. Len(a) + Len(b) :
                (a \o b)[i] = IF i <= Len(a) THEN a[i] ELSE b[i - Len(a)]
      BY ConcatProperties
    <3>3. \A i \in 1 .. n - 1 : i <= k - 1 <=> i < k
      BY <1>0
    <3> QED BY <2>4, <3>1, <3>2, <3>3
  <2>5. /\ r \in Seq(Co) /\ Len(r) = n - 1
        /\ \A i \in 1 .. n - 1 : r[i] = IF i < k THEN SubSeq(q, 1, k - 1)[i]
                                     ELSE SubSeq(q, k + 1, n)[i - (k - 1)]
    BY <2>1, <2>2, <2>3, <2>4
  <2>6. ASSUME NEW i \in 1 .. n - 1 PROVE r[i] = IF i < k THEN q[i] ELSE q[i + 1]
    <3>1. CASE i < k
      BY <1>0, <2>1, <2>5, <3>1
    <3>2. CASE i >= k
      <4>1. i - (k - 1) \in 1 .. n - k /\ k + (i - (k - 1)) = i + 1
        BY <1>0, <3>2
      <4> QED BY <1>0, <2>2, <2>5, <3>2, <4>1
    <3> QED BY <1>0, <3>1, <3>2
  <2> QED BY <2>5, <2>6
<1>2. \A i \in 1 .. n : q[i] \in Co
  BY <1>0, LinkFacts
<1>3. /\ Link(q, k) = c /\ Link(q, k - 1) = before /\ Link(q, k + 1) = next
  <2>1. k \in 0 .. n /\ k - 1 \in 0 .. n /\ (k - 1) + 1 = k
    BY <1>0
  <2>2. nx[Link(q, k)] = Link(q, k + 1) /\ pv[Link(q, (k - 1) + 1)] = Link(q, k - 1)
    BY <2>1, <1>0 DEF Joined
  <2>3. Link(q, k) = c
    BY <1>0, LinkFacts
  <2> QED BY <2>1, <2>2, <2>3
<1> HIDE DEF r
<1>4. \A i \in 0 .. n : Link(r, i) = IF i < k THEN Link(q, i) ELSE Link(q, i + 1)
  <2> SUFFICES ASSUME NEW i \in 0 .. n
               PROVE  Link(r, i) = IF i < k THEN Link(q, i) ELSE Link(q, i + 1)
    OBVIOUS
  <2>1. CASE i = 0
    BY <1>0, <1>1, <2>1 DEF Link
  <2>2. CASE i = n
    BY <1>0, <1>1, <2>2 DEF Link
  <2>3. CASE i \in 1 .. n - 1
    <3>1. i \in 1 .. n /\ i + 1 \in 1 .. n
      BY <1>0, <2>3
    <3>2. Link(r, i) = r[i] /\ Link(q, i) = q[i] /\ Link(q, i + 1) = q[i + 1]
      BY <1>0, <1>1, <2>3, <3>1 DEF Link
    <3> QED BY <1>1, <2>3, <3>2
  <2> QED BY <2>1, <2>2, <2>3
<1>5. Distinct(r)
  <2>1. \A i \in 1 .. n - 1 : \E m \in 1 .. n :
           r[i] = q[m] /\ m = (IF i < k THEN i ELSE i + 1)
    BY <1>0, <1>1
  <2>2. \A i, j \in 1 .. n : q[i] = q[j] => i = j
    BY <1>0 DEF Distinct
  <2>3. ASSUME NEW i \in 1 .. n - 1, NEW j \in 1 .. n - 1, r[i] = r[j] PROVE i = j
    <3>1. (IF i < k THEN i ELSE i + 1) = (IF j < k THEN j ELSE j + 1)
      BY <2>1, <2>2, <2>3
    <3> QED BY <1>0, <3>1
  <2> QED BY <1>1, <2>3 DEF Distinct
<1>6. Alive(r) = Alive(q) \ {c}
  <2>1. \A x \in Alive(r) : x \in Alive(q) \ {c}
    <3> SUFFICES ASSUME NEW i \in 1 .. n - 1 PROVE r[i] \in Alive(q) \ {c}
      BY <1>1 DEF Alive
    <3>1. PICK j \in 1 .. n : r[i] = q[j] /\ j # k
      BY <1>0, <1>1
    <3> QED BY <3>1, <1>0 DEF Alive, Distinct
  <2>2. \A x \in Alive(q) \ {c} : x \in Alive(r)
    <3> SUFFICES ASSUME NEW j \in 1 .. n, j # k PROVE q[j] \in Alive(r)
      BY <1>0 DEF Alive
    <3>1. PICK i \in 1 .. n - 1 : i = (IF j < k THEN j ELSE j - 1)
      BY <1>0
    <3>2. r[i] = q[j]
      BY <1>0, <1>1, <3>1
    <3> QED BY <3>2, <1>1 DEF Alive
  <2> QED BY <2>1, <2>2
<1>7. /\ before \in (Alive(q) \cup {Main}) \ {c} /\ next \in (Alive(q) \cup {Main}) \ {c}
      /\ before \in All /\ next \in All /\ c \in All
  <2>1. before \in Alive(q) \cup {Main} /\ next \in Alive(q) \cup {Main}
    BY <1>3, LinkFacts
  <2>2. before # c /\ next # c
    <3>1. k - 1 \in 0 .. n /\ k \in 0 .. n /\ k \in 1 .. n + 1 /\ k + 1 \in 1 .. n + 1
      BY <1>0
    <3>2. k - 1 # k /\ k + 1 # k
      BY <1>0
    <3>3. \A i, j \in 0 .. n : Link(q, i) = Link(q, j) => i = j
      BY <1>0, LinkFacts
    <3>4. \A i, j \in 1 .. n + 1 : Link(q, i) = Link(q, j) => i = j
      BY <1>0, LinkFacts
    <3> HIDE DEF before, next, c
    <3> QED BY <3>1, <3>2, <3>3, <3>4, <1>3
  <2> QED BY <2>1, <2>2, <1>2, <1>0, LinkFacts DEF All
<1>8. /\ nx1[before] = next /\ \A x \in All \ {c, before} : nx1[x] = nx[x]
      /\ pv1[next] = before /\ \A x \in All \ {c, next} : pv1[x] = pv[x]
  BY <1>7
<1> HIDE DEF nx1, pv1, before, next, c
<1>9. ASSUME NEW i \in 0 .. n - 1
      PROVE  nx1[Link(r, i)] = Link(r, i + 1) /\ pv1[Link(r, i + 1)] = Link(r, i)
  <2>1. CASE i = k - 1
    <3>1. Link(r, i) = Link(q, i) /\ Link(r, i + 1) = Link(q, k + 1)
      BY <1>0, <1>4, <2>1
    <3> QED BY <3>1, <2>1, <1>3, <1>8
  <2>2. CASE i # k - 1
    <3>1. PICK j \in 0 .. n : /\ Link(r, i) = Link(q, j) /\ Link(r, i + 1) = Link(q, j + 1)
                              /\ j # k /\ j # k - 1
      <4>1. CASE i < k - 1
        BY <1>0, <1>4, <2>2, <4>1
      <4>2. CASE i >= k
        <5>1. i + 1 \in 0 .. n /\ i + 1 # k /\ i + 1 # k - 1 /\ (i + 1) + 1 = i + 2
          BY <1>0, <4>2
        <5>2. Link(r, i) = Link(q, i + 1) /\ Link(r, i + 1) = Link(q, i + 2)
          BY <1>0, <1>4, <4>2
        <5> QED BY <5>1, <5>2
      <4> QED BY <1>0, <2>2, <4>1, <4>2
    <3>2. nx[Link(q, j)] = Link(q, j + 1) /\ pv[Link(q, j + 1)] = Link(q, j)
      BY <1>0 DEF Joined
    <3>3. Link(q, j) # Link(q, k) /\ Link(q, j) # Link(q, k - 1)
      BY <1>0, <3>1, LinkFacts
    <3>4. Link(q, j + 1) # Link(q, k) /\ Link(q, j + 1) # Link(q, k + 1)
      <4>1. j + 1 \in 1 .. n + 1 /\ k \in 1 .. n + 1 /\ k + 1 \in 1 .. n + 1 /\ j + 1 # k /\ j + 1 # k + 1
        BY <1>0, <3>1
      <4> QED BY <1>0, <4>1, LinkFacts
    <3>5. Link(q, j) \in All \ {c, before} /\ Link(q, j + 1) \in All \ {c, next}
      <4>1. Link(q, j) \in All /\ Link(q, j + 1) \in All
        BY LinkFacts DEF All
      <4> QED BY <4>1, <3>3, <3>4, <1>3
    <3> QED BY <3>1, <3>2, <3>5, <1>8
  <2> QED BY <2>1, <2>2
<1>10. Joined(nx1, pv1, r, n - 1)
  BY <1>9 DEF Joined
<1> QED BY <1>0, <1>1, <1>5, <1>6, <1>7, <1>10 DEF r, nx1, pv1, before, next, c

-----------------------------------------------------------------------------
(***************************************************************************)
(* Coroutines: the inductive step                                          *)
(***************************************************************************)

\* Before the first co_create
LEMMA CoInitInv == CoInit => CoInv
<1> SUFFICES ASSUME CoInit PROVE CoInv
  OBVIOUS
<1>1. Main \notin Co /\ NullCo \notin All
  BY CoroutineAssumption DEF All
<1>2. Len(alive) = 0 /\ alive = << >> /\ Alive(alive) = {}
  BY DEF CoInit, Alive
<1>3. CoTypeOK
  BY <1>1, <1>2 DEF CoInit, CoTypeOK, Pointer, Distinct
<1>4. NoneYet
  BY <1>1 DEF CoInit, NoneYet, All
<1>5. Flags
  BY <1>1, <1>2 DEF CoInit, Flags, All
<1> QED BY <1>3, <1>4, <1>5 DEF CoInit, CoInv, Linked, Contexts

\* co_create sets up main the first time, and makes a coroutine of a struct that is
\* unused or whose coroutine is finished.
LEMMA CreateKeeps == ASSUME CoInv, NEW c \in Co, CoCreate(c) PROVE CoInv'
<1> DEFINE last == IF coState[Main] # "ACTIVE" THEN Main ELSE coPrevious[Main]
<1>0. /\ CoTypeOK /\ NoneYet /\ Linked /\ Flags /\ Contexts
      /\ Main \notin Co /\ NullCo \notin All /\ c \in All /\ Main \in All /\ c # Main
  BY CoroutineAssumption DEF CoInv, All
<1>1. /\ coState[c] \in {"unused", "FINISHED"} /\ c \notin Alive(alive)
      /\ Len(alive) \in Nat
  BY <1>0, LinkFacts DEF CoCreate, Flags, CoTypeOK
<1>2. last = Link(alive, Len(alive)) /\ Joined(coNext, coPrevious, alive, Len(alive) - 1)
  <2>1. CASE coCurr = NullCo
    <3>1. Len(alive) = 0 /\ coState[Main] = "STARTING"
      BY <1>0, <2>1 DEF NoneYet
    <3> QED BY <3>1 DEF Joined, Link
  <2>2. CASE coCurr # NullCo
    <3>1. Joined(coNext, coPrevious, alive, Len(alive)) /\ coState[Main] = "ACTIVE"
      BY <1>0, <2>2 DEF Linked, Flags
    <3>2. coPrevious[Main] = Link(alive, Len(alive))
      BY <1>0, <1>1, <3>1, LinkFacts DEF Joined, CoTypeOK
    <3> QED BY <1>1, <3>1, <3>2 DEF Joined
  <2> QED BY <2>1, <2>2
<1>3. /\ coNext' = [coNext EXCEPT ![last] = c, ![c] = Main]
      /\ coPrevious' = [coPrevious EXCEPT ![Main] = c, ![c] = last]
      /\ alive' = Append(alive, c)
      /\ coState' = [coState EXCEPT ![Main] = "ACTIVE", ![c] = "STARTING"]
      /\ coCtx' = [coCtx EXCEPT ![c] = NullCo]
      /\ coCurr' = IF coState[Main] # "ACTIVE" THEN Main ELSE coCurr
  BY DEF CoCreate
<1>4. /\ alive' \in Seq(Co) /\ Distinct(alive') /\ Alive(alive') = Alive(alive) \cup {c}
      /\ Joined(coNext', coPrevious', alive', Len(alive) + 1)
      /\ Len(alive') = Len(alive) + 1
  <2>1. /\ alive \in Seq(Co) /\ Distinct(alive)
        /\ coNext \in [All -> Pointer] /\ coPrevious \in [All -> Pointer]
    BY <1>0 DEF CoTypeOK
  <2>2. Len(Append(alive, c)) = Len(alive) + 1
    BY <2>1, AppendProperties
  <2> HIDE DEF last
  <2> QED BY <1>1, <1>2, <1>3, <2>1, <2>2, ChainAppended
<1>5. last \in Alive(alive) \cup {Main} /\ last \in All
  <2> HIDE DEF last
  <2> QED BY <1>0, <1>2, LinkFacts DEF CoTypeOK, All
<1> HIDE DEF last
<1>6. CoTypeOK'
  BY <1>0, <1>3, <1>4, <1>5 DEF CoTypeOK, Pointer
<1>7. coCurr' # NullCo /\ coCurr' \in Alive(alive) \cup {Main} /\ coCurr' # c /\ coState'[coCurr'] = "ACTIVE"
  <2>1. CASE coCurr = NullCo
    BY <1>0, <1>3, <2>1 DEF Flags, CoTypeOK
  <2>2. CASE coCurr # NullCo
    <3>1. /\ coCurr \in Alive(alive) \cup {Main} /\ coState[coCurr] = "ACTIVE"
          /\ coState[Main] = "ACTIVE"
      BY <1>0, <2>2 DEF Contexts, Flags
    <3>2. coCurr' = coCurr /\ coCurr # c /\ coCurr \in All
      BY <1>0, <1>1, <1>3, <2>2, <3>1 DEF CoTypeOK, Pointer
    <3>3. coState'[coCurr] = "ACTIVE"
      BY <1>0, <1>3, <3>1, <3>2 DEF CoTypeOK
    <3> QED BY <2>2, <3>1, <3>2, <3>3
  <2> QED BY <2>1, <2>2
<1>8. NoneYet' /\ Linked'
  <2>1. \A x \in Co \ Alive(alive') : coNext'[x] = NullCo /\ coPrevious'[x] = NullCo
    <3> SUFFICES ASSUME NEW x \in Co \ Alive(alive')
                 PROVE  coNext'[x] = NullCo /\ coPrevious'[x] = NullCo
      OBVIOUS
    <3>1. x # c /\ x # Main /\ x # last /\ x \in All /\ x \in Co \ Alive(alive)
      BY <1>0, <1>4, <1>5 DEF All
    <3>2. coNext'[x] = coNext[x] /\ coPrevious'[x] = coPrevious[x]
      BY <1>0, <1>3, <3>1 DEF CoTypeOK
    <3>3. coNext[x] = NullCo /\ coPrevious[x] = NullCo
      BY <1>0, <3>1 DEF NoneYet, Linked
    <3> QED BY <3>2, <3>3
  <2> QED BY <1>4, <1>7, <2>1 DEF NoneYet, Linked
<1>9. Flags'
  BY <1>0, <1>3, <1>4, <1>7 DEF Flags, CoTypeOK, All
<1>10. Contexts'
  <2>1. /\ coCtx'[c] = NullCo /\ coState'[c] = "STARTING"
        /\ \A x \in All \ {c} : coCtx'[x] = coCtx[x]
        /\ \A x \in All \ {c, Main} : coState'[x] = coState[x]
        /\ coState'[Main] = "ACTIVE"
    BY <1>0, <1>3 DEF CoTypeOK
  <2>2. CASE coCurr = NullCo
    <3>1. coCurr' = Main /\ Alive(alive') = {c} /\ coCtx[Main] = NullCo
      BY <1>0, <1>3, <1>4, <2>2 DEF NoneYet, Alive, Flags
    <3> QED BY <1>0, <1>7, <2>1, <3>1 DEF Contexts
  <2>3. CASE coCurr # NullCo
    <3>1. coCurr' = coCurr /\ coState[Main] = "ACTIVE" /\ Alive(alive) \subseteq Co
      BY <1>0, <1>3, <2>3, LinkFacts DEF Flags, CoTypeOK
    <3>2. /\ coCtx[coCurr] \in {NullCo, StarterCtx}
          /\ \A x \in (Alive(alive) \cup {Main}) \ {coCurr} :
               \/ coState[x] = "STARTING" /\ coCtx[x] = NullCo
               \/ coState[x] = "ACTIVE" /\ coCtx[x] = x
      BY <1>0, <2>3 DEF Contexts
    <3>3. coCtx'[coCurr'] \in {NullCo, StarterCtx}
      BY <1>7, <2>1, <3>1, <3>2 DEF All
    <3>4. ASSUME NEW x \in (Alive(alive') \cup {Main}) \ {coCurr'}
          PROVE  \/ coState'[x] = "STARTING" /\ coCtx'[x] = NullCo
                 \/ coState'[x] = "ACTIVE" /\ coCtx'[x] = x
      BY <1>0, <1>4, <2>1, <3>1, <3>2 DEF All
    <3> QED BY <1>4, <1>7, <3>3, <3>4 DEF Contexts
  <2> QED BY <2>2, <2>3
<1> QED BY <1>6, <1>8, <1>9, <1>10 DEF CoInv

\* What a switch from the current coroutine to c, which is alive, keeps.
LEMMA SwitchKeeps ==
    ASSUME CoTypeOK, coCurr # NullCo, coCurr \in All, NEW S \in SUBSET All, NEW c \in S \ {coCurr},
           coCtx[coCurr] \in {NullCo, StarterCtx}, coState[coCurr] = "ACTIVE",
           coState[c] \in {"STARTING", "ACTIVE"},
           \A x \in S \ {coCurr} :
              \/ coState[x] = "STARTING" /\ coCtx[x] = NullCo
              \/ coState[x] = "ACTIVE" /\ coCtx[x] = x,
           SwitchTo(c),
           coState'[c] = "ACTIVE", \A x \in S \ {c} : coState'[x] = coState[x]
    PROVE  /\ coCurr' = c /\ coCtx' \in [All -> Pointer \cup {StarterCtx}]
           /\ coCtx'[coCurr'] \in {NullCo, StarterCtx}
           /\ \A x \in S \ {coCurr'} :
               \/ coState'[x] = "STARTING" /\ coCtx'[x] = NullCo
               \/ coState'[x] = "ACTIVE" /\ coCtx'[x] = x
<1>1. /\ coCurr' = c /\ c \in All
      /\ coCtx' = [coCtx EXCEPT ![coCurr] = coCurr,
                               ![c] = IF coState[c] = "STARTING" THEN StarterCtx ELSE NullCo]
  BY DEF SwitchTo
<1>2. /\ coCtx'[coCurr] = coCurr /\ coCtx'[c] \in {NullCo, StarterCtx}
      /\ \A x \in All \ {c, coCurr} : coCtx'[x] = coCtx[x]
      /\ coCtx' \in [All -> Pointer \cup {StarterCtx}]
  BY <1>1 DEF CoTypeOK, Pointer
<1> QED BY <1>1, <1>2

\* co_yield, to any coroutine or to the next one
LEMMA YieldKeeps ==
    ASSUME CoInv, CoYieldNext \/ \E c \in All : CoYieldTo(c)
    PROVE  CoInv'
<1>0. /\ CoTypeOK /\ NoneYet /\ Linked /\ Flags /\ Contexts
      /\ Main \notin Co /\ NullCo \notin All /\ Main \in All
      /\ coCurr # NullCo /\ coCurr \in All
      /\ Alive(alive) \subseteq Co
  BY CoroutineAssumption, LinkFacts DEF CoInv, All, CoTypeOK, Pointer, CoYieldNext, CoYieldTo
<1>1. CASE UNCHANGED coVars
  BY <1>1 DEF coVars, CoInv, CoTypeOK, NoneYet, Linked, Flags, Contexts
<1>2. ASSUME NEW c \in (Alive(alive) \cup {Main}) \ {coCurr}, SwitchTo(c),
             coState' = [coState EXCEPT ![c] = Started(c)],
             UNCHANGED <<coNext, coPrevious, alive>>
      PROVE  CoInv'
  <2>1. coState[c] \in {"STARTING", "ACTIVE"} /\ Started(c) = "ACTIVE" /\ c \in All
    BY <1>0, <1>2 DEF Contexts, Started, All
  <2>2. /\ coState' \in [All -> {"unused", "STARTING", "ACTIVE", "FINISHED"}]
        /\ coState'[c] = "ACTIVE" /\ \A x \in All \ {c} : coState'[x] = coState[x]
    BY <1>0, <1>2, <2>1 DEF CoTypeOK
  <2>3. /\ coCurr' = c /\ coCtx' \in [All -> Pointer \cup {StarterCtx}]
        /\ coCtx'[coCurr'] \in {NullCo, StarterCtx}
        /\ \A x \in (Alive(alive) \cup {Main}) \ {coCurr'} :
               \/ coState'[x] = "STARTING" /\ coCtx'[x] = NullCo
               \/ coState'[x] = "ACTIVE" /\ coCtx'[x] = x
    <3>1. Alive(alive) \cup {Main} \in SUBSET All
      BY <1>0 DEF All
    <3>2. /\ coCtx[coCurr] \in {NullCo, StarterCtx} /\ coState[coCurr] = "ACTIVE"
          /\ \A x \in (Alive(alive) \cup {Main}) \ {coCurr} :
               \/ coState[x] = "STARTING" /\ coCtx[x] = NullCo
               \/ coState[x] = "ACTIVE" /\ coCtx[x] = x
      BY <1>0 DEF Contexts
    <3> QED BY <1>0, <1>2, <2>1, <2>2, <3>1, <3>2, SwitchKeeps
  <2>4. CoTypeOK'
    BY <1>0, <1>2, <2>1, <2>2, <2>3 DEF CoTypeOK, Pointer
  <2>5. coCurr' # NullCo
    BY <1>0, <2>1, <2>3
  <2>6. NoneYet' /\ Linked'
    BY <1>0, <1>2, <2>5 DEF NoneYet, Linked
  <2>7. Flags'
    BY <1>0, <1>2, <2>1, <2>2, <2>5 DEF Flags, All
  <2>8. Contexts'
    BY <1>2, <2>2, <2>3 DEF Contexts
  <2> QED BY <2>4, <2>6, <2>7, <2>8 DEF CoInv
<1>3. CASE CoYieldNext
  <2>1. coNext[coCurr] \in Alive(alive) \cup {Main}
    <3>1. PICK i \in 0 .. Len(alive) : coCurr = Link(alive, i)
      BY <1>0, LinkFacts DEF Contexts, CoTypeOK
    <3>2. coNext[coCurr] = Link(alive, i + 1)
      BY <1>0, <3>1 DEF Linked, Joined
    <3> QED BY <1>0, <3>2, LinkFacts DEF CoTypeOK
  <2> QED BY <1>2, <1>3, <2>1 DEF CoYieldNext
<1>4. ASSUME NEW c \in All, CoYieldTo(c) PROVE CoInv'
  <2>1. CASE coState[c] = "FINISHED"
    BY <1>1, <1>4, <2>1 DEF CoYieldTo, coVars
  <2>2. CASE coState[c] # "FINISHED"
    <3>1. c \in (Alive(alive) \cup {Main}) \ {coCurr}
      BY <1>0, <1>4, <2>2 DEF CoYieldTo, Flags, CoTypeOK, All
    <3> QED BY <1>2, <1>4, <2>2, <3>1 DEF CoYieldTo
  <2> QED BY <2>1, <2>2
<1> QED BY <1>3, <1>4

\* A coroutine ends or is destroyed, by itself or by another one.
LEMMA FinishKeeps == ASSUME CoInv, NEW c \in All, CoDestroy(c) PROVE CoInv'
<1>0. /\ CoTypeOK /\ NoneYet /\ Linked /\ Flags /\ Contexts
      /\ Main \notin Co /\ NullCo \notin All /\ Main \in All
      /\ coCurr # NullCo /\ coCurr \in All
      /\ Alive(alive) \subseteq Co
  BY CoroutineAssumption, LinkFacts DEF CoInv, All, CoTypeOK, Pointer, CoDestroy
<1>1. CASE UNCHANGED coVars
  BY <1>1 DEF coVars, CoInv, CoTypeOK, NoneYet, Linked, Flags, Contexts
<1>2. CASE coState[c] # "FINISHED" /\ c # Main /\ Finish(c)
  <2> DEFINE k == CHOOSE i \in 1 .. Len(alive) : alive[i] = c
             next == coNext[c]
             before == coPrevious[c]
             Rest == (Alive(alive) \ {c}) \cup {Main}
  <2>1. c \in Co /\ c \in Alive(alive) /\ c \in All
    BY <1>0, <1>2 DEF CoDestroy, Flags, CoTypeOK, All
  <2>2. k \in 1 .. Len(alive) /\ alive[k] = c
    BY <2>1 DEF Alive
  <2> HIDE DEF k
  <2>3. /\ coNext' = [coNext EXCEPT ![before] = next, ![c] = NullCo]
        /\ coPrevious' = [coPrevious EXCEPT ![next] = before, ![c] = NullCo]
        /\ alive' = RemoveAt(alive, k)
    BY <1>2 DEF Finish, Unlink, Survivors, k
  <2>4. /\ alive' \in Seq(Co) /\ Distinct(alive') /\ Alive(alive') = Alive(alive) \ {c}
        /\ Joined(coNext', coPrevious', alive', Len(alive'))
        /\ next \in Rest \ {c} /\ before \in Rest \ {c}
    <3>1. /\ alive \in Seq(Co) /\ Distinct(alive)
          /\ coNext \in [All -> Pointer] /\ coPrevious \in [All -> Pointer]
          /\ Joined(coNext, coPrevious, alive, Len(alive))
      BY <1>0 DEF CoTypeOK, Linked
    <3>2. /\ RemoveAt(alive, k) \in Seq(Co) /\ Distinct(RemoveAt(alive, k))
          /\ Alive(RemoveAt(alive, k)) = Alive(alive) \ {alive[k]}
          /\ Len(RemoveAt(alive, k)) = Len(alive) - 1
          /\ Joined([coNext EXCEPT ![coPrevious[alive[k]]] = coNext[alive[k]], ![alive[k]] = NullCo],
                    [coPrevious EXCEPT ![coNext[alive[k]]] = coPrevious[alive[k]], ![alive[k]] = NullCo],
                    RemoveAt(alive, k), Len(alive) - 1)
          /\ coNext[alive[k]] \in (Alive(alive) \cup {Main}) \ {alive[k]}
          /\ coPrevious[alive[k]] \in (Alive(alive) \cup {Main}) \ {alive[k]}
      BY <2>2, <3>1, ChainCut
    <3>3. /\ coNext' = [coNext EXCEPT ![coPrevious[c]] = coNext[c], ![c] = NullCo]
          /\ coPrevious' = [coPrevious EXCEPT ![coNext[c]] = coPrevious[c], ![c] = NullCo]
      BY <2>3
    <3>4. /\ Joined(coNext', coPrevious', alive', Len(alive'))
      BY <2>2, <2>3, <3>2, <3>3
    <3>5. next \in Rest \ {c} /\ before \in Rest \ {c}
      BY <2>2, <3>2
    <3> QED BY <2>2, <2>3, <3>2, <3>4, <3>5
  <2>5. /\ next \in All /\ before \in All /\ Rest \in SUBSET All /\ c # Main /\ c # next
        /\ (Alive(alive') \cup {Main}) = Rest
    BY <1>0, <1>2, <2>4 DEF All
  <2> HIDE DEF next, before
  <2>6. ASSUME coState' \in [All -> {"unused", "STARTING", "ACTIVE", "FINISHED"}],
               coCtx' \in [All -> Pointer \cup {StarterCtx}],
               coCurr' \in Rest, coState'[coCurr'] = "ACTIVE",
               coCtx'[coCurr'] \in {NullCo, StarterCtx}, coState'[Main] = "ACTIVE",
               coState'[c] = "FINISHED",
               \A x \in Co \ {c} : coState'[x] \in {"STARTING", "ACTIVE"} <=> coState[x] \in {"STARTING", "ACTIVE"},
               \A x \in Rest \ {coCurr'} :
                  \/ coState'[x] = "STARTING" /\ coCtx'[x] = NullCo
                  \/ coState'[x] = "ACTIVE" /\ coCtx'[x] = x
        PROVE  CoInv'
    <3>1. coCurr' \in All /\ coCurr' # NullCo
      BY <1>0, <2>5, <2>6
    <3>2. CoTypeOK'
      BY <1>0, <2>3, <2>4, <2>5, <2>6, <3>1 DEF CoTypeOK, Pointer
    <3>3. NoneYet' /\ Linked'
      <4>1. ASSUME NEW x \in Co \ Alive(alive')
            PROVE  coNext'[x] = NullCo /\ coPrevious'[x] = NullCo
        <5>1. CASE x = c
          BY <1>0, <2>1, <2>3, <5>1 DEF CoTypeOK
        <5>2. CASE x # c
          <6>1. x \in Co \ Alive(alive) /\ x # next /\ x # before /\ x \in All
            <7>1. x \in Co \ Alive(alive) /\ x \in All /\ x # Main
              BY <1>0, <2>4, <4>1, <5>2 DEF All
            <7> QED BY <2>4, <7>1
          <6>2. coNext'[x] = coNext[x] /\ coPrevious'[x] = coPrevious[x]
            BY <1>0, <2>3, <5>2, <6>1 DEF CoTypeOK
          <6>3. coNext[x] = NullCo /\ coPrevious[x] = NullCo
            BY <1>0, <6>1 DEF Linked
          <6> QED BY <6>2, <6>3
        <5> QED BY <5>1, <5>2
      <4> QED BY <2>4, <3>1, <4>1 DEF NoneYet, Linked
    <3>4. Flags'
      BY <1>0, <2>1, <2>4, <2>6, <3>1 DEF Flags
    <3>5. Contexts'
      BY <2>5, <2>6 DEF Contexts
    <3> QED BY <3>2, <3>3, <3>4, <3>5 DEF CoInv
  <2>7. CASE c # coCurr
    <3>1. /\ coState' = [coState EXCEPT ![c] = "FINISHED"] /\ UNCHANGED <<coCtx, coCurr>>
      BY <1>2, <2>7 DEF Finish
    <3>2. /\ coState' \in [All -> {"unused", "STARTING", "ACTIVE", "FINISHED"}]
          /\ coState'[c] = "FINISHED" /\ \A x \in All \ {c} : coState'[x] = coState[x]
      BY <1>0, <2>1, <3>1 DEF CoTypeOK
    <3>3. coCurr \in Rest /\ coCtx \in [All -> Pointer \cup {StarterCtx}] /\ coState[Main] = "ACTIVE"
      BY <1>0, <2>7 DEF Contexts, CoTypeOK, Flags
    <3>4. \A x \in Rest \ {coCurr} :
               \/ coState[x] = "STARTING" /\ coCtx[x] = NullCo
               \/ coState[x] = "ACTIVE" /\ coCtx[x] = x
      BY <1>0 DEF Contexts
    <3>5. coCtx[coCurr] \in {NullCo, StarterCtx} /\ coState[coCurr] = "ACTIVE"
      BY <1>0 DEF Contexts
    <3>6. \A x \in Rest : x \in All \ {c}
      BY <2>5
    <3>7. \A x \in Co \ {c} : x \in All \ {c}
      BY DEF All
    <3> HIDE DEF Rest
    <3> QED BY <1>0, <2>5, <2>6, <2>7, <3>1, <3>2, <3>3, <3>4, <3>5, <3>6, <3>7
  <2>8. CASE c = coCurr
    <3>1. /\ SwitchTo(next)
          /\ coState' = [coState EXCEPT ![c] = "FINISHED", ![next] = Started(next)]
      BY <1>2, <2>8 DEF Finish, next
    <3>2. /\ coCtx[coCurr] \in {NullCo, StarterCtx} /\ coState[coCurr] = "ACTIVE"
          /\ \A x \in Rest \ {coCurr} :
               \/ coState[x] = "STARTING" /\ coCtx[x] = NullCo
               \/ coState[x] = "ACTIVE" /\ coCtx[x] = x
      BY <1>0 DEF Contexts
    <3>3. next \in Rest \ {coCurr}
      BY <2>4, <2>8 DEF next
    <3>4. coState[next] \in {"STARTING", "ACTIVE"} /\ Started(next) = "ACTIVE"
      BY <3>2, <3>3 DEF Started
    <3>5. /\ coState' \in [All -> {"unused", "STARTING", "ACTIVE", "FINISHED"}]
          /\ coState'[c] = "FINISHED" /\ coState'[next] = "ACTIVE"
          /\ \A x \in All \ {c, next} : coState'[x] = coState[x]
      BY <1>0, <2>1, <2>5, <3>1, <3>4 DEF CoTypeOK
    <3>6. \A x \in Rest : x \in All \ {c}
      BY <2>5
    <3>7. \A x \in Rest \ {next} : coState'[x] = coState[x]
      BY <3>5, <3>6
    <3>8. coState[Main] = "ACTIVE" /\ Main \in Rest
      BY <1>0 DEF Flags
    <3> HIDE DEF Rest
    <3>9. /\ coCurr' = next /\ coCtx' \in [All -> Pointer \cup {StarterCtx}]
          /\ coCtx'[coCurr'] \in {NullCo, StarterCtx}
          /\ \A x \in Rest \ {coCurr'} :
               \/ coState'[x] = "STARTING" /\ coCtx'[x] = NullCo
               \/ coState'[x] = "ACTIVE" /\ coCtx'[x] = x
      BY <1>0, <2>5, <3>1, <3>2, <3>3, <3>4, <3>5, <3>7, SwitchKeeps
    <3>10. coState'[Main] = "ACTIVE"
      BY <3>5, <3>7, <3>8
    <3>11. \A x \in Co \ {c} : coState'[x] \in {"STARTING", "ACTIVE"} <=> coState[x] \in {"STARTING", "ACTIVE"}
      BY <3>4, <3>5 DEF All
    <3> QED BY <2>6, <3>3, <3>5, <3>9, <3>10, <3>11
  <2> QED BY <2>7, <2>8
<1> QED BY <1>1, <1>2 DEF CoDestroy

\* The invariant of the coroutines holds in every reachable state.
THEOREM CoroutineInvariant == CoSpec => []CoInv
<1>1. CoInv /\ [CoNext]_coVars => CoInv'
  <2>1. CoInv /\ UNCHANGED coVars => CoInv'
    BY DEF coVars, CoInv, CoTypeOK, NoneYet, Linked, Flags, Contexts
  <2> QED BY <2>1, CreateKeeps, YieldKeeps, FinishKeeps DEF CoNext
<1> QED BY <1>1, CoInitInv, PTL DEF CoSpec

\* The chain as a sequence that begins and ends with main
LEMMA ChainOfLinks ==
    ASSUME CoTypeOK, Joined(coNext, coPrevious, alive, Len(alive))
    PROVE  LET chain == <<Main>> \o alive \o <<Main>>
           IN  \A i \in 1 .. Len(chain) - 1 :
                   coNext[chain[i]] = chain[i + 1] /\ coPrevious[chain[i + 1]] = chain[i]
<1> DEFINE n == Len(alive)
           chain == <<Main>> \o alive \o <<Main>>
<1>0. n \in Nat /\ alive \in Seq(All) /\ Main \in All
  <2>1. alive \in Seq(Co) /\ Co \subseteq All /\ Main \in All
    BY DEF CoTypeOK, All
  <2> QED BY <2>1, LenProperties
<1>1. ASSUME NEW a \in Seq(All), NEW m \in Nat, m = Len(a)
      PROVE  /\ Len(<<Main>> \o a \o <<Main>>) = m + 2
             /\ \A i \in 1 .. m + 2 : (<<Main>> \o a \o <<Main>>)[i] = Link(a, i - 1)
  <2> DEFINE s == <<Main>> \o a
  <2>1. <<Main>> \in Seq(All) /\ Len(<<Main>>) = 1 /\ <<Main>>[1] = Main
    BY <1>0
  <2>2. /\ s \in Seq(All) /\ Len(s) = m + 1
        /\ \A i \in 1 .. m + 1 : s[i] = IF i <= 1 THEN <<Main>>[i] ELSE a[i - 1]
    BY <1>1, <2>1, ConcatProperties
  <2>3. \A i \in 1 .. m + 1 : s[i] = Link(a, i - 1)
    BY <1>1, <2>1, <2>2 DEF Link
  <2> HIDE DEF s
  <2>4. /\ Len(s \o <<Main>>) = m + 2
        /\ \A i \in 1 .. m + 2 : (s \o <<Main>>)[i] = IF i <= m + 1 THEN s[i] ELSE <<Main>>[i - (m + 1)]
    BY <2>1, <2>2, ConcatProperties
  <2>5. Link(a, (m + 2) - 1) = Main
    BY <1>1 DEF Link
  <2>6. \A i \in 1 .. m + 2 : (s \o <<Main>>)[i] = Link(a, i - 1)
    BY <2>1, <2>3, <2>4, <2>5
  <2> QED BY <2>4, <2>6 DEF s
<1>2. Len(chain) = n + 2 /\ \A i \in 1 .. n + 2 : chain[i] = Link(alive, i - 1)
  BY <1>0, <1>1
<1> HIDE DEF chain, n
<1>3. ASSUME NEW i \in 1 .. Len(chain) - 1
      PROVE  coNext[chain[i]] = chain[i + 1] /\ coPrevious[chain[i + 1]] = chain[i]
  <2>1. i \in 1 .. n + 2 /\ i + 1 \in 1 .. n + 2 /\ i - 1 \in 0 .. n /\ (i + 1) - 1 = (i - 1) + 1
    BY <1>0, <1>2, <1>3
  <2>2. chain[i] = Link(alive, i - 1) /\ chain[i + 1] = Link(alive, (i - 1) + 1)
    BY <1>2, <2>1
  <2> QED BY <2>1, <2>2 DEF Joined, n
<1> QED BY <1>3 DEF chain

\* A switch finds the next coroutine, and the context in which it stopped: chain
\* and contexts are exact for any number of coroutines, created, finished and
\* destroyed in any order.
THEOREM CoroutinesAreExact == CoSpec => []CoroutinesExact
<1>1. ASSUME CoInv, coCurr # NullCo PROVE CoChainExact /\ CoContextsExact
  <2>0. CoTypeOK /\ Linked /\ Flags /\ Contexts
    BY <1>1 DEF CoInv
  <2>1. Alive(alive) = ToSet(alive) /\ Len(alive) \in Nat
    <3>1. DOMAIN alive = 1 .. Len(alive) /\ Len(alive) \in Nat
      BY <2>0, LenProperties DEF CoTypeOK
    <3> QED BY <3>1 DEF Alive, ToSet
  <2>2. CoHasAlive <=> alive # << >>
    <3>1. coNext[Main] = Link(alive, 1) /\ Main \notin Co
      <4>1. 0 \in 0 .. Len(alive) /\ Link(alive, 0) = Main /\ 0 + 1 = 1
        BY <2>1 DEF Link
      <4>2. coNext[Link(alive, 0)] = Link(alive, 0 + 1)
        BY <1>1, <2>0, <4>1 DEF Linked, Joined
      <4> QED BY <4>1, <4>2, CoroutineAssumption
    <3>2. CASE alive = << >>
      BY <3>1, <3>2 DEF CoHasAlive, Link
    <3>3. CASE alive # << >>
      <4>1. Len(alive) # 0
        BY <2>0, <3>3, EmptySeq DEF CoTypeOK
      <4>2. Link(alive, 1) = alive[1] /\ alive[1] \in Co
        BY <2>0, <2>1, <4>1, LenProperties DEF Link, CoTypeOK
      <4> QED BY <3>1, <3>3, <4>2 DEF CoHasAlive
    <3> QED BY <3>2, <3>3
  <2>3. CoChainExact
    BY <1>1, <2>0, <2>1, <2>2, ChainOfLinks DEF CoChainExact, Linked
  <2>4. CoContextsExact
    BY <1>1, <2>0, <2>1 DEF CoContextsExact, Contexts
  <2> QED BY <2>3, <2>4
<1>2. CoInv => CoroutinesExact
  <2>1. CASE coCurr = NullCo
    BY <2>1 DEF CoroutinesExact, CoChainExact, CoContextsExact
  <2> QED BY <1>1, <2>1 DEF CoroutinesExact
<1> QED BY <1>2, CoroutineInvariant, PTL

===============================================================================
