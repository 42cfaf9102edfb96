------------------------------- MODULE HwClk -------------------------------
(***************************************************************************)
(* The clock driver's timer callbacks (os/hw/hwclk.c).  The interrupt      *)
(* handler calls the callbacks of every timer that ticked, removes those   *)
(* that answer false from the array it is going through, and a callback    *)
(* may add another one to that array.                                      *)
(*                                                                         *)
(* A callback is the number of its registration.                           *)
(***************************************************************************)
EXTENDS DynArray, Functions

CONSTANTS
    Timers,         \* 0 .. HWCLK_NUMTIMERS - 1
    MaxCallbacks    \* bound on the registrations ever made

ASSUME HwClkAssumption == Timers \subseteq Nat /\ MaxCallbacks \in Nat

VARIABLES
    funcs,          \* of each timer, hwclk_Timer::funcs
    registered,     \* history: the number of registrations
    handler,        \* [ticked, t, f]: the handler's locals; ticked = {} outside it
    due,            \* history: the callbacks of the tick that were not called yet
    called          \* history: those that were called

hwclkVars == <<funcs, registered, handler, due, called>>

NotHandling == [ticked |-> {}, t |-> 0, f |-> 0]

Handling == handler.ticked # {}

Lowest(S) == CHOOSE t \in S : \A u \in S : t <= u

HwClkInit ==
    /\ funcs = [t \in Timers |-> ArrayCreated(0)]
    /\ registered = 0
    /\ handler = NotHandling
    /\ due = {}
    /\ called = {}

\* The array after a registration, or the same one when memory has run out:
\* the result of the push is ignored.
Registered(a, b) ==
    /\ registered < MaxCallbacks
    /\ \/ (ArrayIsFull(a) => ArrayCanGrow(a)) /\ b = ArrayPushed(a, registered)
       \/ ArrayIsFull(a) /\ b = a

\* hwclk_addCallback outside the handler
HwClkAddCallback(t) ==
    /\ ~Handling
    /\ \E b \in {funcs[t], ArrayPushed(funcs[t], registered)} :
        Registered(funcs[t], b) /\ funcs' = [funcs EXCEPT ![t] = b]
    /\ registered' = registered + 1
    /\ UNCHANGED <<handler, due, called>>

\* The interrupt: GET_STATE tells which timers ticked.
HwClkTick(ticked) ==
    /\ ~Handling
    /\ handler' = [ticked |-> ticked, t |-> Lowest(ticked), f |-> 0]
    /\ due' = UNION {Range(ArrayContent(funcs[t])) : t \in ticked}
    /\ called' = {}
    /\ UNCHANGED <<funcs, registered>>

\* Mutant: the index moves on after a removal too.
AfterCallSkips(b, keep) ==
    IF keep THEN [array |-> b, f |-> handler.f + 1]
    ELSE [array |-> ArrayRemovedAt(b, handler.f), f |-> handler.f + 1]

\* A callback that answered true is kept, another one is removed.
AfterCall(b, keep) ==
    IF keep THEN [array |-> b, f |-> handler.f + 1]
    ELSE [array |-> ArrayRemovedAt(b, handler.f), f |-> handler.f]

\* One turn of the inner loop: the callback runs, and may register another one
\* for its timer.
HwClkCall(keep) ==
    LET a == funcs[handler.t]
        e == a.data[handler.f]
    IN  /\ Handling /\ handler.f # a.size
        /\ \E b \in {a, ArrayPushed(a, registered)} :
            /\ \/ b = a /\ UNCHANGED registered
               \/ Registered(a, b) /\ registered' = registered + 1
            /\ funcs' = [funcs EXCEPT ![handler.t] = AfterCall(b, keep).array]
            /\ handler' = [handler EXCEPT !.f = AfterCall(b, keep).f]
        /\ due' = due \ {e}
        /\ called' = called \cup {e}

\* The next timer that ticked, or the end of the handler.
HwClkNextTimer ==
    LET rest == {t \in handler.ticked : t > handler.t}
    IN  /\ Handling /\ handler.f = funcs[handler.t].size
        /\ handler' = IF rest = {} THEN NotHandling
                      ELSE [handler EXCEPT !.t = Lowest(rest), !.f = 0]
        /\ UNCHANGED <<funcs, registered, due, called>>

HwClkNext ==
    \/ \E t \in Timers : HwClkAddCallback(t)
    \/ \E ticked \in (SUBSET Timers) \ {{}} : HwClkTick(ticked)
    \/ \E keep \in BOOLEAN : HwClkCall(keep)
    \/ HwClkNextTimer

HwClkSpec == HwClkInit /\ [][HwClkNext]_hwclkVars

-----------------------------------------------------------------------------
(***************************************************************************)
(* Properties                                                              *)
(***************************************************************************)

\* The callbacks the handler will still come to.
Ahead ==
    {funcs[handler.t].data[i] : i \in handler.f .. funcs[handler.t].size - 1}
        \cup UNION {Range(ArrayContent(funcs[t])) :
                        t \in {u \in handler.ticked : u > handler.t}}

\* Whatever is removed from the array or added to it while the handler goes
\* through it, a tick calls every callback that was registered when it came,
\* and none twice.
CalledOncePerTick ==
    IF Handling THEN due \subseteq Ahead /\ called \cap Ahead = {} ELSE due = {}

=============================================================================
