----------------------------- MODULE Coroutine -----------------------------
(***************************************************************************)
(* The coroutines of libraries/coroutines: a circular chain of those that  *)
(* are alive, and for each one that is suspended a pointer to the cpu      *)
(* context in its stack frame.  Only the current one runs, so a call is    *)
(* one step, up to the switch it ends with.                                *)
(*                                                                         *)
(* The values passed along and the stack measurement are left out.  A      *)
(* coroutine does not yield to itself, and the last one does not yield to  *)
(* the next: both would write through a NULL context.                      *)
(***************************************************************************)
EXTENDS Naturals, Sequences, SequencesExt

CONSTANTS
    Co,             \* the Coroutine structs of a program
    Main,           \* gCo.main
    NullCo,         \* NULL
    StarterCtx      \* gStarterCtx, the context of a first execution

ASSUME CoroutineAssumption ==
    /\ Main \notin Co /\ NullCo \notin Co \cup {Main}
    /\ StarterCtx \notin Co \cup {Main, NullCo}

VARIABLES
    coState,        \* flags: "unused" before create; main's are zero: "STARTING"
    coNext,
    coPrevious,
    coCtx,          \* ctx: whose frame it is in, StarterCtx or NULL
    coCurr,         \* gCo.curr
    alive           \* history: the live coroutines, the oldest first

coVars == <<coState, coNext, coPrevious, coCtx, coCurr, alive>>

All == Co \cup {Main}

CoInit ==
    /\ coState = [c \in All |-> IF c = Main THEN "STARTING" ELSE "unused"]
    /\ coNext = [c \in All |-> NullCo]
    /\ coPrevious = [c \in All |-> NullCo]
    /\ coCtx = [c \in All |-> NullCo]
    /\ coCurr = NullCo
    /\ alive = << >>

\* co_hasAlive
CoHasAlive == coNext[Main] # Main

\* co_create, with the set up of main by the first one: at the end of the chain.
CoCreate(c) ==
    LET first == coState[Main] # "ACTIVE"
        last == IF first THEN Main ELSE coPrevious[Main]
    IN  /\ coState[c] \in {"unused", "FINISHED"} /\ c # coCurr
        /\ coState' = [coState EXCEPT ![Main] = "ACTIVE", ![c] = "STARTING"]
        /\ coCurr' = IF first THEN Main ELSE coCurr
        /\ coNext' = [coNext EXCEPT ![last] = c, ![c] = Main]
        /\ coPrevious' = [coPrevious EXCEPT ![Main] = c, ![c] = last]
        /\ coCtx' = [coCtx EXCEPT ![c] = NullCo]
        /\ alive' = Append(alive, c)

\* The switch of co_yield: the caller's context goes to its frame; whoever is
\* resumed clears its own, and one that starts does so from the shared context.
SwitchTo(c) ==
    /\ coCurr' = c
    /\ coCtx' = [coCtx EXCEPT ![coCurr] = coCurr,
                              ![c] = IF coState[c] = "STARTING" THEN StarterCtx ELSE NullCo]

\* runCoroutine
Started(c) == IF coState[c] = "STARTING" THEN "ACTIVE" ELSE coState[c]

\* co_yield to a coroutine; one that is finished answers at once.
CoYieldTo(c) ==
    /\ coCurr # NullCo /\ c # coCurr /\ coState[c] # "unused"
    /\ IF coState[c] = "FINISHED" THEN UNCHANGED <<coState, coCtx, coCurr>>
       ELSE SwitchTo(c) /\ coState' = [coState EXCEPT ![c] = Started(c)]
    /\ UNCHANGED <<coNext, coPrevious, alive>>

\* co_yield(NULL)
CoYieldNext ==
    /\ coCurr # NullCo /\ coNext[coCurr] # coCurr
    /\ SwitchTo(coNext[coCurr])
    /\ coState' = [coState EXCEPT ![coNext[coCurr]] = Started(coNext[coCurr])]
    /\ UNCHANGED <<coNext, coPrevious, alive>>

\* The other coroutines, when c is gone.
Survivors(c) == RemoveAt(alive, CHOOSE i \in 1 .. Len(alive) : alive[i] = c)

\* Mutant: only the one before is linked again.
UnlinkForward(c) ==
    /\ coNext' = [coNext EXCEPT ![coPrevious[c]] = coNext[c], ![c] = NullCo]
    /\ coPrevious' = [coPrevious EXCEPT ![c] = NullCo]
    /\ alive' = Survivors(c)

Unlink(c) ==
    /\ coNext' = [coNext EXCEPT ![coPrevious[c]] = coNext[c], ![c] = NullCo]
    /\ coPrevious' = [coPrevious EXCEPT ![coNext[c]] = coPrevious[c], ![c] = NullCo]
    /\ alive' = Survivors(c)

\* finish: the current one goes on with what was next in the chain.
Finish(c) ==
    /\ Unlink(c)
    /\ IF c = coCurr
       THEN /\ SwitchTo(coNext[c])
            /\ coState' = [coState EXCEPT ![c] = "FINISHED", ![coNext[c]] = Started(coNext[c])]
       ELSE /\ coState' = [coState EXCEPT ![c] = "FINISHED"]
            /\ UNCHANGED <<coCtx, coCurr>>

\* co_destroy: of one that is finished, and of main, it does nothing. The
\* return of an entry function is the same as destroying the current one.
CoDestroy(c) ==
    /\ coState[c] # "unused" /\ coCurr # NullCo
    /\ IF coState[c] = "FINISHED" \/ c = Main THEN UNCHANGED coVars ELSE Finish(c)

CoNext ==
    \/ \E c \in Co : CoCreate(c)
    \/ \E c \in All : CoYieldTo(c) \/ CoDestroy(c)
    \/ CoYieldNext

CoSpec == CoInit /\ [][CoNext]_coVars

-----------------------------------------------------------------------------
(***************************************************************************)
(* Properties                                                              *)
(***************************************************************************)

\* The chain, from main through the coroutines in the order of their creation
\* and back, forwards and backwards, whoever was destroyed in between, by itself
\* or by another; what is not alive is not linked, and co_hasAlive is right.
CoChainExact ==
    coCurr # NullCo =>
        LET chain == <<Main>> \o alive \o <<Main>>
        IN  /\ \A i \in 1 .. Len(chain) - 1 :
                /\ coNext[chain[i]] = chain[i + 1]
                /\ coPrevious[chain[i + 1]] = chain[i]
            /\ \A c \in Co \ ToSet(alive) : coNext[c] = NullCo /\ coPrevious[c] = NullCo
            /\ CoHasAlive <=> alive # << >>

\* The current coroutine is alive and has no saved context but the one it was
\* started from; every other one that is alive waits to start and has none, or is
\* suspended and its context is in a frame of its own: the shared context is
\* never in use twice.
CoContextsExact ==
    coCurr # NullCo =>
        /\ coCurr \in ToSet(alive) \cup {Main} /\ coState[coCurr] = "ACTIVE"
        /\ coCtx[coCurr] \in {NullCo, StarterCtx}
        /\ \A c \in (ToSet(alive) \cup {Main}) \ {coCurr} :
            \/ coState[c] = "STARTING" /\ coCtx[c] = NullCo
            \/ coState[c] = "ACTIVE" /\ coCtx[c] = c

\* Both at once: a switch finds the next coroutine and the context it stopped in.
CoroutinesExact == CoChainExact /\ CoContextsExact

=============================================================================
