--------------------------------- MODULE Tls ---------------------------------
(***************************************************************************)
(* The TLS indexes of a process (appsdk/app_process.c): one bitset for all *)
(* its threads, which run preemptively, and a slot for each index on every *)
(* thread's own stack.  The bitset is one byte, tested and changed by      *)
(* separate instructions.                                                  *)
(*                                                                         *)
(* That appTlsSlots points to the slots of the thread that runs is what    *)
(* the kernel sees to (TlsOfCurrent in Kernel); here a thread simply finds *)
(* its own.  The systems of a process free what they have allocated.       *)
(***************************************************************************)
EXTENDS Naturals

CONSTANTS
    TlsThread,      \* the threads of the process
    TlsMain,        \* the one that app_startup runs in
    TlsMaxSlots,    \* TLS_MAXSLOTS, no more than a byte has bits
    TlsValues       \* what is stored in a slot

ASSUME TlsAssumption ==
    /\ TlsMain \in TlsThread
    /\ TlsMaxSlots \in 1 .. 8
    /\ TlsValues \cap TlsThread = {}

VARIABLES
    appTlsStatus,   \* the indexes whose bit is set
    slots,          \* of each thread, ownTlsSlots: 0 before anything is stored
    tls,            \* of each thread, where it is: [at, index, byte]
    held,           \* history: the indexes the systems run by a thread have
    raced           \* history: a bit was changed between a thread's test and its store

tlsVars == <<appTlsStatus, slots, tls, held, raced>>

Index == 0 .. TlsMaxSlots - 1
CurrentThread == 0      \* TLS_IDX_CURRENTTHREAD

\* Not yet started, and back in the program's own code
NotStarted == [at |-> "new", index |-> 0, byte |-> {}]
Back == [NotStarted EXCEPT !.at = "out"]

TlsInit ==
    /\ appTlsStatus = {}
    /\ slots = [t \in TlsThread |-> [i \in Index |-> 0]]
    /\ tls = [t \in TlsThread |-> NotStarted]
    /\ held = [t \in TlsThread |-> {}]
    /\ raced = FALSE

\* Thread t goes on at a step of its call.
At(t, at) == tls' = [tls EXCEPT ![t].at = at]
IsAt(t, at) == tls[t].at = at

-----------------------------------------------------------------------------
(***************************************************************************)
(* The start of a thread                                                   *)
(***************************************************************************)

\* app_startup, before there is another thread: the first index is for the
\* handle of the current thread.
TlsStartup ==
    /\ IsAt(TlsMain, "new")
    /\ appTlsStatus = {}
    /\ appTlsStatus' = {CurrentThread}
    /\ At(TlsMain, "entry")
    /\ UNCHANGED <<slots, held, raced>>

\* app_createThread, called by a thread that runs
TlsCreateThread(t) ==
    /\ t # TlsMain /\ IsAt(t, "new")
    /\ \E u \in TlsThread : IsAt(u, "out")
    /\ At(t, "entry")
    /\ UNCHANGED <<appTlsStatus, slots, held, raced>>

\* app_tlsSet: nothing happens for an index that is not allocated.
Stored(t, i, value) ==
    IF i \in appTlsStatus THEN [slots[t] EXCEPT ![i] = value] ELSE slots[t]

\* app_threadEntry: the slots are zero, but for the thread's own handle.
TlsThreadEntry(t) ==
    /\ IsAt(t, "entry")
    /\ slots' = [slots EXCEPT ![t] = Stored(t, CurrentThread, t)]
    /\ At(t, "out")
    /\ UNCHANGED <<appTlsStatus, held, raced>>

-----------------------------------------------------------------------------
(***************************************************************************)
(* app_tlsAlloc and app_tlsFree, an instruction at a time                  *)
(***************************************************************************)

TlsAllocBegins(t) ==
    /\ IsAt(t, "out")
    /\ tls' = [tls EXCEPT ![t] = [at |-> "test", index |-> 0, byte |-> {}]]
    /\ UNCHANGED <<appTlsStatus, slots, held, raced>>

\* BS_ISBITSET of the loop's index; past the last one the answer is TLS_INVALID.
TlsTest(t) ==
    LET i == tls[t].index
    IN  /\ IsAt(t, "test")
        /\ IF i \notin appTlsStatus THEN At(t, "loadSet")
           ELSE IF i + 1 \in Index THEN tls' = [tls EXCEPT ![t].index = i + 1]
           ELSE tls' = [tls EXCEPT ![t] = Back]
        /\ UNCHANGED <<appTlsStatus, slots, held, raced>>

\* app_tlsFree: BS_ISBITSET
TlsFreeBegins(t, i) ==
    /\ IsAt(t, "out") /\ i \in held[t]
    /\ held' = [held EXCEPT ![t] = @ \ {i}]
    /\ tls' = [tls EXCEPT ![t] =
                IF i \in appTlsStatus THEN [at |-> "loadClear", index |-> i, byte |-> {}]
                ELSE Back]
    /\ UNCHANGED <<appTlsStatus, slots, raced>>

\* BS_SETBIT and BS_CLEARBIT load the byte ...
TlsLoad(t) ==
    /\ tls[t].at \in {"loadSet", "loadClear"}
    /\ tls' = [tls EXCEPT ![t] = [at |-> IF IsAt(t, "loadSet") THEN "set" ELSE "clear",
                                 index |-> tls[t].index, byte |-> appTlsStatus]]
    /\ UNCHANGED <<appTlsStatus, slots, held, raced>>

\* Another thread is between its test and its store when t stores the byte.
Overtakes(t) ==
    \E u \in TlsThread \ {t} : tls[u].at \in {"loadSet", "set", "loadClear", "clear"}

\* Mutant: the index is returned without its bit being set.
TlsSetBitNot(t) ==
    /\ IsAt(t, "set")
    /\ appTlsStatus' = tls[t].byte
    /\ raced' = (raced \/ Overtakes(t))
    /\ held' = [held EXCEPT ![t] = @ \cup {tls[t].index}]
    /\ tls' = [tls EXCEPT ![t] = Back]
    /\ UNCHANGED <<slots>>

\* ... and store it: the index belongs to who asked for it ...
TlsSetBit(t) ==
    /\ IsAt(t, "set")
    /\ appTlsStatus' = tls[t].byte \cup {tls[t].index}
    /\ raced' = (raced \/ Overtakes(t))
    /\ held' = [held EXCEPT ![t] = @ \cup {tls[t].index}]
    /\ tls' = [tls EXCEPT ![t] = Back]
    /\ UNCHANGED <<slots>>

\* ... or to nobody.
TlsClearBit(t) ==
    /\ IsAt(t, "clear")
    /\ appTlsStatus' = tls[t].byte \ {tls[t].index}
    /\ raced' = (raced \/ Overtakes(t))
    /\ tls' = [tls EXCEPT ![t] = Back]
    /\ UNCHANGED <<slots, held>>

\* app_tlsSet of a system: its slots are no other thread's business, so that the
\* test and the store are one step.
TlsSet(t, i, value) ==
    /\ IsAt(t, "out") /\ \E u \in TlsThread : i \in held[u]
    /\ slots' = [slots EXCEPT ![t] = Stored(t, i, value)]
    /\ UNCHANGED <<appTlsStatus, tls, held, raced>>

TlsNext ==
    \/ TlsStartup
    \/ \E t \in TlsThread :
        \/ TlsCreateThread(t) \/ TlsThreadEntry(t)
        \/ TlsAllocBegins(t) \/ TlsTest(t) \/ TlsLoad(t) \/ TlsSetBit(t) \/ TlsClearBit(t)
        \/ \E i \in Index : TlsFreeBegins(t, i) \/ \E v \in TlsValues : TlsSet(t, i, v)

TlsSpec == TlsInit /\ [][TlsNext]_tlsVars

-----------------------------------------------------------------------------
(***************************************************************************)
(* Properties                                                              *)
(***************************************************************************)

\* "... to independently use TLS without stomping on some TLS slot that is already
\* in use" (app_process.h): no two systems have the same index, and none has
\* that of app_getCurrentThread, which answers the thread that asks; unless a
\* thread was preempted in app_tlsAlloc or app_tlsFree and another one's call
\* changed the bitset meanwhile.
TlsIndexesKept ==
    ~raced =>
        /\ \A t \in TlsThread : held[t] \subseteq appTlsStatus \ {CurrentThread}
        /\ \A t, u \in TlsThread : t # u => held[t] \cap held[u] = {}
        /\ \A t \in TlsThread : tls[t].at \notin {"new", "entry"} =>
            slots[t][CurrentThread] = t

=============================================================================
