---------------------------- MODULE MCComponents ----------------------------
(***************************************************************************)
(* The components that share no state, checked in one run: the state that  *)
(* TLC starts from chooses a component, which then runs alone.             *)
(***************************************************************************)
EXTENDS Queue, PQueue, HwClk, Coroutine, Amalloc, FileIO, Disk, Tls, Boot,
        Screen

VARIABLE component      \* the one that runs

allVars == <<component, queueVars, pqueueVars, hwclkVars, coVars, amallocVars,
             fileVars, diskVars, tlsVars, bootVars, screenVars>>

\* The apps that are launched: after idle and HelloWorld, which krn_init starts,
\* one more in either mode, for what a failed launch leaves to the next one.
KernelApps == <<TRUE, FALSE, TRUE, FALSE>>

\* ROM images, with pages of 4 bytes: sections that end within a page, at its
\* end, and none of the shared data.
RomOf(text, rodata, data, dataShared) ==
    [textSize |-> text, rodataAddr |-> 8, rodataSize |-> rodata,
     dataAddr |-> 16, dataSize |-> data, dataSharedAddr |-> 20, dataSharedSize |-> dataShared]
SmallRoms == {RomOf(text, rodata, data, dataShared) :
                text \in {5, 8}, rodata \in {0, 3}, data \in {1, 4}, dataShared \in {0, 3, 6}}

ComponentsInit ==
    /\ QueueInit /\ PQueueInit /\ HwClkInit /\ CoInit /\ AmallocInit /\ FileInit /\ DiskInit
    /\ TlsInit /\ BootInit /\ ScreenInit
    /\ component \in {"queue", "pqueue", "hwclk", "coroutine", "amalloc", "file", "disk",
                      "tls", "boot", "screen"}
    /\ component # "amalloc" => ~hasBrkFunc
    /\ component # "disk" => \A d \in Drives : ~Present(d)
    /\ component # "boot" => gROMInfo = CHOOSE r \in Roms : TRUE
    /\ component # "screen" => screenLib = "boot"

\* A step of one component, which leaves the variables of the others alone.
ComponentsNext ==
    /\ UNCHANGED component
    /\ IF component = "queue" THEN QueueNext ELSE UNCHANGED queueVars
    /\ IF component = "pqueue" THEN PQueueNext ELSE UNCHANGED pqueueVars
    /\ IF component = "hwclk" THEN HwClkNext ELSE UNCHANGED hwclkVars
    /\ IF component = "coroutine" THEN CoNext ELSE UNCHANGED coVars
    /\ IF component = "amalloc" THEN AmallocNext ELSE UNCHANGED amallocVars
    /\ IF component = "file" THEN FileNext ELSE UNCHANGED fileVars
    /\ IF component = "disk" THEN DiskNext ELSE UNCHANGED diskVars
    /\ IF component = "tls" THEN TlsNext ELSE UNCHANGED tlsVars
    /\ IF component = "boot" THEN BootNext ELSE UNCHANGED bootVars
    /\ IF component = "screen" THEN ScreenNext ELSE UNCHANGED screenVars

\* The fairness of the disk driver, the only component with a liveness property.
ComponentsSpec == ComponentsInit /\ [][ComponentsNext]_allVars /\ DiskFairness

=============================================================================
