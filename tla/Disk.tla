-------------------------------- MODULE Disk --------------------------------
(***************************************************************************)
(* The disk controller's driver (os/hw/hwdkc.c) and the hardware behind it. *)
(* The kernel is not interrupted while it runs, but the hardware goes on:  *)
(* disks come and go in the middle of an operation for which the driver    *)
(* waits.                                                                  *)
(*                                                                         *)
(* External: the controller, which raises its interrupt when a disk comes  *)
(* or goes and lowers it when its state is asked for; and FatFs, which     *)
(* remembers of which disk a drive's file system was read.  A call of      *)
(* FatFs that reads or writes does so once.  A drive has one operation at  *)
(* a time, so the bits R and W are one field, op.                          *)
(***************************************************************************)
EXTENDS Naturals, FiniteSets

CONSTANTS
    Drives,         \* 0 .. HWDKC_MAXDISKS - 1
    Disks,          \* the disks there are
    NoDisk,
    Protected,      \* the write protected ones
    Blank,          \* those without a file system
    MaxAttached     \* bound: how often a disk is put in after the start

ASSUME DiskAssumption ==
    /\ Drives \subseteq Nat /\ Drives # {} /\ IsFiniteSet(Drives)
    /\ NoDisk \notin Disks /\ Protected \subseteq Disks /\ Blank \subseteq Disks
    /\ MaxAttached \in Nat

VARIABLES
    hwDisk,         \* external: the disk in each drive
    hwOp,           \* external: its operation, "ready", "ongoing" or "error"
    hwAttached,     \* bound: the disks put in since the start
    hwIrq,          \* external: the interrupt pin
    hwMoved,        \* external: the disk of the operation that is waited for, when done
    blank,          \* external: the disks that have no file system
    disk,           \* dkcDrv.disks: [mounted, prot, op, init], HWDKC_CUSTOMFLAG_INITIALIZED
    fs,             \* FatFs: the disk of each drive's file system, NoDisk if none
    dkc,            \* where the driver is: [at, job, drive, snapshot]
    missed,         \* history: drives of which a change was lost to a sync
    exchanged       \* history: whether a disk was out between two queries after f_mount

hwVars == <<hwDisk, hwAttached, hwOp, hwIrq, hwMoved, blank>>
diskVars == <<hwVars, disk, fs, dkc, missed, exchanged>>

Present(d) == hwDisk[d] # NoDisk

\* A drive's byte of QUERYSTATE, with the driver's own flag
StateOf(d) ==
    [mounted |-> Present(d), prot |-> hwDisk[d] \in Protected, op |-> hwOp[d], init |-> disk[d].init]

\* What hwdkc_updateState makes of a drive's byte: the driver's own flag is kept.
Seen(byte, init) == [mounted |-> byte.mounted, prot |-> byte.prot, op |-> byte.op, init |-> init]

InUser == dkc.at = "user"
UserMode == [at |-> "user", job |-> "none", drive |-> 0, snapshot |-> << >>]

\* What a query of drive d makes of a disk that was out since the last one.
ExchangeSeen(d) ==
    IF ~Present(d) THEN "no" ELSE IF exchanged[d] = "no" THEN "no" ELSE "yes"

\* The driver's code is at a step for a job.
Goes(at, job) == dkc' = [dkc EXCEPT !.at = at, !.job = job]

-----------------------------------------------------------------------------
(***************************************************************************)
(* The hardware                                                            *)
(***************************************************************************)

HwAttach(d, k) ==
    /\ ~Present(d) /\ \A e \in Drives : hwDisk[e] # k
    /\ hwAttached < MaxAttached /\ hwAttached' = hwAttached + 1
    /\ hwDisk' = [hwDisk EXCEPT ![d] = k]
    /\ hwIrq' = TRUE
    /\ UNCHANGED <<hwOp, hwMoved, blank, disk, fs, dkc, missed, exchanged>>

HwDetach(d) ==
    /\ Present(d)
    /\ hwDisk' = [hwDisk EXCEPT ![d] = NoDisk]
    /\ hwOp' = [hwOp EXCEPT ![d] = "ready"]
    /\ hwIrq' = TRUE
    /\ exchanged' = [exchanged EXCEPT ![d] = IF @ = "no" THEN "unseen" ELSE @]
    /\ UNCHANGED <<hwAttached, hwMoved, blank, disk, fs, dkc, missed>>

HwCompletes(d) ==
    /\ hwOp[d] = "ongoing"
    /\ hwOp' = [hwOp EXCEPT ![d] = "ready"]
    /\ hwMoved' = hwDisk[d]
    /\ blank' = IF dkc.job = "format" THEN blank \ {hwDisk[d]} ELSE blank
    /\ UNCHANGED <<hwDisk, hwAttached, hwIrq, disk, fs, dkc, missed, exchanged>>

HwFails(d) ==
    /\ hwOp[d] = "ongoing"
    /\ hwOp' = [hwOp EXCEPT ![d] = "error"]
    /\ UNCHANGED <<hwDisk, hwAttached, hwIrq, hwMoved, blank, disk, fs, dkc, missed, exchanged>>

-----------------------------------------------------------------------------
(***************************************************************************)
(* The interface to FatFs                                                  *)
(***************************************************************************)

\* disk_initialize: it marks a drive that has a disk.
Initialised(d) == [disk EXCEPT ![d].init = @ \/ disk[d].mounted]

\* What disk_read and disk_write ask before they call the hardware, of the
\* driver's own state; and what the hardware asks.
MayRead(s) == s.mounted /\ s.init /\ s.op = "ready"
MayWrite(s) == MayRead(s) /\ ~s.prot
HwAccepts(d) == Present(d) /\ hwOp[d] = "ready"

\* Mutant: the loop ends before the last drive.
GoesOnUpToLast ==
    LET rest == {d \in DOMAIN dkc.snapshot : d > dkc.drive /\ d + 1 \in DOMAIN dkc.snapshot}
    IN  dkc' = IF rest = {} THEN UserMode
               ELSE [dkc EXCEPT !.at = "scan", !.job = "none",
                                !.drive = CHOOSE d \in rest : \A e \in rest : d <= e]

\* The drive after dkc.drive in the scan, or the end of the driver's code.
GoesOn ==
    LET rest == {d \in DOMAIN dkc.snapshot : d > dkc.drive}
    IN  dkc' = IF rest = {} THEN UserMode
               ELSE [dkc EXCEPT !.at = "scan", !.job = "none",
                                !.drive = CHOOSE d \in rest : \A e \in rest : d <= e]

\* disk_read or disk_write: the operation starts and the driver waits for it,
\* or it fails and so does what it is done for.
Operates(may, job) ==
    LET d == dkc.drive
    IN  IF may /\ HwAccepts(d)
        THEN /\ hwOp' = [hwOp EXCEPT ![d] = "ongoing"]
             /\ hwMoved' = NoDisk
             /\ Goes("sync", job)
        ELSE GoesOn /\ UNCHANGED <<hwOp, hwMoved>>

\* A turn of the loop of hwdkc_sync. It asks for the state of all drives, which
\* lowers the interrupt, and looks at one: what else has changed is missed.
KnownMounted(e) ==
    IF e \in DOMAIN dkc.snapshot /\ e > dkc.drive THEN dkc.snapshot[e].mounted ELSE disk[e].mounted

\* Mutant: the state that was asked for is not kept.
DkcSyncForgets ==
    LET d == dkc.drive
    IN  /\ dkc.at = "sync"
        /\ hwIrq' = FALSE
        /\ missed' = missed \cup {e \in Drives \ {d} : KnownMounted(e) # Present(e)}
        /\ exchanged' = [exchanged EXCEPT ![d] = ExchangeSeen(d)]
        /\ IF hwOp[d] = "ready" THEN Goes("done", dkc.job) ELSE UNCHANGED dkc
        /\ UNCHANGED <<hwDisk, hwAttached, hwOp, hwMoved, blank, fs, disk>>

DkcSync ==
    LET d == dkc.drive
    IN  /\ dkc.at = "sync"
        /\ disk' = [disk EXCEPT ![d] = StateOf(d)]
        /\ hwIrq' = FALSE
        /\ missed' = missed \cup {e \in Drives \ {d} : KnownMounted(e) # Present(e)}
        /\ exchanged' = [exchanged EXCEPT ![d] = ExchangeSeen(d)]
        /\ IF hwOp[d] = "ready" THEN Goes("done", dkc.job) ELSE UNCHANGED dkc
        /\ UNCHANGED <<hwDisk, hwAttached, hwOp, hwMoved, blank, fs>>

-----------------------------------------------------------------------------
(***************************************************************************)
(* The driver                                                              *)
(***************************************************************************)

\* The driver's memory is zeroed; hwdkc_ctor calls the handler.
DiskInit ==
    /\ hwDisk \in [Drives -> Disks \cup {NoDisk}]
    /\ \A d, e \in Drives : Present(d) /\ d # e => hwDisk[d] # hwDisk[e]
    /\ hwAttached = 0
    /\ hwOp = [d \in Drives |-> "ready"]
    /\ hwIrq = TRUE
    /\ hwMoved = NoDisk
    /\ blank = Blank
    /\ disk = [d \in Drives |-> [mounted |-> FALSE, prot |-> FALSE, op |-> "ready", init |-> FALSE]]
    /\ fs = [d \in Drives |-> NoDisk]
    /\ dkc = UserMode
    /\ missed = {}
    /\ exchanged = [d \in Drives |-> "no"]

\* hwdkc_handler, hwdkc_updateState: the state of all drives is asked for once.
DkcHandler ==
    /\ InUser /\ hwIrq
    /\ dkc' = [at |-> "scan", job |-> "none",
               drive |-> CHOOSE d \in Drives : \A e \in Drives : d <= e,
               snapshot |-> [d \in Drives |-> StateOf(d)]]
    /\ hwIrq' = FALSE
    /\ missed' = {}
    /\ exchanged' = [d \in Drives |-> ExchangeSeen(d)]
    /\ UNCHANGED <<hwDisk, hwAttached, hwOp, hwMoved, blank, disk, fs>>

\* Mutant: a drive is looked at the first time only.
DkcScanOnce ==
    LET d == dkc.drive
        new == Seen(dkc.snapshot[d], disk[d].init)
    IN  /\ dkc.at = "scan"
        /\ disk' = [disk EXCEPT ![d] = new]
        /\ IF ~new.init /\ new.mounted THEN Goes("info", "none") ELSE GoesOn
        /\ UNCHANGED <<hwVars, fs, missed, exchanged>>

\* Its loop: a drive that has a disk now and had none gets looked at.
DkcScan ==
    LET d == dkc.drive
        new == Seen(dkc.snapshot[d], disk[d].init)
    IN  /\ dkc.at = "scan"
        /\ disk' = [disk EXCEPT ![d] = new]
        /\ IF ~disk[d].mounted /\ new.mounted THEN Goes("info", "none") ELSE GoesOn
        /\ UNCHANGED <<hwVars, fs, missed, exchanged>>

\* Mutant: the query is made until it succeeds.
DkcInfoRetried ==
    /\ dkc.at = "info"
    /\ IF Present(dkc.drive) THEN Goes("mount", "mount") ELSE UNCHANGED dkc
    /\ UNCHANGED <<hwVars, disk, fs, missed, exchanged>>

\* QUERYDISKINFO fails when the disk has gone: the drive stays without a file
\* system, or with the one it had.
DkcInfo ==
    /\ dkc.at = "info"
    /\ IF Present(dkc.drive) THEN Goes("mount", "mount") ELSE GoesOn
    /\ UNCHANGED <<hwVars, disk, fs, missed, exchanged>>

\* f_mount: what was mounted before is forgotten, and the first sector is read.
DkcMount ==
    /\ dkc.at = "mount"
    /\ fs' = [fs EXCEPT ![dkc.drive] = NoDisk]
    /\ disk' = Initialised(dkc.drive)
    /\ exchanged' = [exchanged EXCEPT ![dkc.drive] = "no"]
    /\ Operates(MayRead(disk'[dkc.drive]), dkc.job)
    /\ UNCHANGED <<hwDisk, hwAttached, hwIrq, blank, missed>>

\* hwdkc_format, which may find no memory: f_mkfs
DkcFormat ==
    /\ dkc.at = "format"
    /\ \/ Operates(MayWrite(disk[dkc.drive]), "format")
       \/ GoesOn /\ UNCHANGED <<hwOp, hwMoved>>
    /\ UNCHANGED <<hwDisk, hwAttached, hwIrq, blank, disk, fs, missed, exchanged>>

\* The operation is over. A file system that was found is mounted and its room
\* looked up; a disk without one is formatted and mounted once more.
DkcDone ==
    LET d == dkc.drive
        found == hwMoved \in Disks \ blank
    IN  /\ dkc.at = "done"
        /\ CASE dkc.job \in {"mount", "remount", "automount"} /\ found ->
                    /\ fs' = [fs EXCEPT ![d] = hwMoved]
                    /\ IF dkc.job = "automount" THEN GoesOn ELSE Goes("free", dkc.job)
             [] dkc.job = "mount" /\ ~found -> Goes("format", "mount") /\ UNCHANGED fs
             [] dkc.job = "format" -> Goes("mount", "remount") /\ UNCHANGED fs
             [] OTHER -> GoesOn /\ UNCHANGED fs
        /\ hwMoved' = NoDisk
        /\ UNCHANGED <<hwDisk, hwAttached, hwOp, hwIrq, blank, disk, missed, exchanged>>

\* f_getfree
DkcFree ==
    /\ dkc.at = "free"
    /\ Operates(MayRead(disk[dkc.drive]), "access")
    /\ UNCHANGED <<hwDisk, hwAttached, hwIrq, blank, disk, fs, missed, exchanged>>

\* A system call on a file: FatFs mounts again what could not be mounted, and
\* otherwise trusts disk_status, for which a drive once initialised stays so.
FileCall(d, write) ==
    /\ InUser /\ disk[d].init
    /\ IF fs[d] = NoDisk
       THEN /\ dkc' = [UserMode EXCEPT !.at = "mount", !.job = "automount", !.drive = d]
            /\ UNCHANGED hwVars
       ELSE /\ IF write THEN MayWrite(disk[d]) ELSE MayRead(disk[d])
            /\ HwAccepts(d)
            /\ hwOp' = [hwOp EXCEPT ![d] = "ongoing"]
            /\ hwMoved' = NoDisk
            /\ dkc' = [UserMode EXCEPT !.at = "sync", !.job = "access", !.drive = d]
            /\ UNCHANGED <<hwDisk, hwAttached, hwIrq, blank>>
    /\ UNCHANGED <<disk, fs, missed, exchanged>>

DkcStep == DkcScan \/ DkcInfo \/ DkcMount \/ DkcFormat \/ DkcDone \/ DkcFree \/ DkcSync

DiskNext ==
    \/ DkcHandler \/ DkcStep
    \/ \E d \in Drives :
        \/ HwDetach(d) \/ HwCompletes(d) \/ HwFails(d)
        \/ \E k \in Disks : HwAttach(d, k)
        \/ \E write \in BOOLEAN : FileCall(d, write)

\* The kernel's code goes on; the cpu takes an interrupt that is raised again and
\* again in user mode; the hardware ends an operation it has begun.
DiskFairness ==
    /\ WF_diskVars(DkcStep)
    /\ SF_diskVars(DkcHandler)
    /\ \A d \in Drives : WF_diskVars(HwCompletes(d) \/ HwFails(d))

DiskSpec == DiskInit /\ [][DiskNext]_diskVars /\ DiskFairness

-----------------------------------------------------------------------------
(***************************************************************************)
(* Properties                                                              *)
(***************************************************************************)

\* In user mode, and with no interrupt to come, the driver is right about which
\* drives have a disk: a change is lost only when hwdkc_sync waited for another
\* drive, as the comment in it says.
ChangesNoticed ==
    InUser /\ ~hwIrq =>
        \A d \in Drives \ missed : disk[d].mounted <=> Present(d)

\* A process works with the file system of the disk that is in the drive,
\* whatever went wrong when it, or the one before it, was mounted or formatted,
\* unless since f_mount a disk was taken out and one put in between two queries.
RightFileSystem ==
    \A d \in Drives :
        InUser /\ disk[d].mounted /\ exchanged[d] = "no" => fs[d] \in {NoDisk, hwDisk[d]}

\* The driver's code ends, and so does the call for which it runs, unless an
\* operation fails: hwdkc_sync waits for a drive that reports an error.
DriverReturns == ~InUser ~> (InUser \/ \E d \in Drives : hwOp[d] = "error")

\* A disk that stays is noticed, unless the change was lost to a sync.
DiskNoticed ==
    \A d \in Drives :
        Present(d) ~> (disk[d].mounted \/ ~Present(d) \/ d \in missed
                         \/ \E e \in Drives : hwOp[e] = "error")

=============================================================================
