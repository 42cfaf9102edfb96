------------------------------ MODULE DiskProofs ------------------------------
(***************************************************************************)
(* Proofs about the disk controller's driver, for any drives and disks that *)
(* come and go at any time.                                                *)
(***************************************************************************)
EXTENDS Disk, TLAPS, WellFoundedInduction

-----------------------------------------------------------------------------
(***************************************************************************)
(* The invariant                                                           *)
(***************************************************************************)

\* Where the code of the driver may be, and for what job it is there
At == {"user", "scan", "info", "mount", "format", "done", "free", "sync"}

\* What the driver is at a step for
Job == {"none", "mount", "remount", "automount", "format", "access"}

\* What dkcDrv.disks keeps of a drive
DriveState == [mounted : BOOLEAN, prot : BOOLEAN, op : {"ready", "ongoing", "error"}, init : BOOLEAN]

\* The answer to QUERYSTATE, while the handler goes through it
Snapshot == {<< >>} \cup [Drives -> DriveState]

\* Types of the state of the driver's code
Call == [at : At, job : Job, drive : Nat, snapshot : Snapshot]

\* Types of the hardware
HwTypeOK ==
    /\ hwDisk \in [Drives -> Disks \cup {NoDisk}]
    /\ hwOp \in [Drives -> {"ready", "ongoing", "error"}]
    /\ hwAttached \in Nat
    /\ hwIrq \in BOOLEAN
    /\ hwMoved \in Disks \cup {NoDisk}
    /\ blank \subseteq Disks

\* The driver is at a drive, and it has a snapshot while it scans.
CallOK ==
    /\ dkc \in Call
    /\ InUser => dkc.snapshot = << >>
    /\ ~InUser => dkc.drive \in Drives
    /\ dkc.at = "scan" => dkc.drive \in DOMAIN dkc.snapshot

\* Types of the driver and of FatFs
DriverTypeOK ==
    /\ disk \in [Drives -> DriveState]
    /\ fs \in [Drives -> Disks \cup {NoDisk}]
    /\ missed \subseteq Drives
    /\ exchanged \in [Drives -> {"no", "unseen", "yes"}]

\* Types
DiskTypeOK == HwTypeOK /\ DriverTypeOK /\ CallOK

\* A drive that the scan has yet to look at
Pending(d) ==
    /\ d \in DOMAIN dkc.snapshot
    /\ d > dkc.drive \/ (d = dkc.drive /\ dkc.at = "scan")

\* What the driver has been told last of drive d: whether it has a disk
Known(d) == IF Pending(d) THEN dkc.snapshot[d].mounted ELSE disk[d].mounted

\* Drive d has a disk that will be, or is being, mounted.
Found(d) ==
    \/ Pending(d) /\ ~disk[d].mounted
    \/ dkc.at \in {"info", "mount"} /\ d = dkc.drive

\* What is known is so, unless the interrupt is raised or the change was missed.
KnownPresent == ~hwIrq => \A d \in Drives \ missed : Known(d) = Present(d)

\* The driver waits for the one operation there is, on a drive it knows mounted.
OneOperation ==
    /\ \A d \in Drives : hwOp[d] # "ready" => Present(d) /\ dkc.at = "sync" /\ dkc.drive = d
    /\ dkc.at = "sync" => disk[dkc.drive].mounted

\* While a drive is known to have a disk, and its disk was not exchanged, the file
\* system is that of its disk, or is about to be dropped ...
KnownRight(d) ==
    Known(d) /\ exchanged[d] = "no" /\ ~(Found(d) /\ Present(d)) => fs[d] \in {NoDisk, hwDisk[d]}

\* Every drive is right about its file system.
KnownFileSystem == \A d \in Drives : KnownRight(d)

\* ... and so is the one that is being read.
KnownMoved ==
    LET d == dkc.drive
    IN  dkc.at \in {"sync", "done"} /\ disk[d].mounted /\ exchanged[d] = "no" =>
            hwMoved \in {NoDisk, hwDisk[d]}

\* The inductive invariant. A snapshot is older than what the hardware has done
\* since, so that what holds in user mode has to be said of the drives that the
\* scan has yet to look at as well as of those it has looked at.
DiskInv == DiskTypeOK /\ KnownPresent /\ OneOperation /\ KnownFileSystem /\ KnownMoved

-----------------------------------------------------------------------------
(***************************************************************************)
(* Where the driver goes                                                   *)
(***************************************************************************)

\* A set of numbers that is not empty has a least element.
LEMMA LeastNumber ==
    ASSUME NEW S, S \subseteq Nat, S # {}
    PROVE  \E m \in S : \A n \in S : m <= n
<1>1. PICK m \in S : \A n \in S : ~(<<n, m>> \in OpToRel(<, Nat))
  BY NatLessThanWellFounded, WFMin
<1>2. \A n \in S : ~(n < m)
  BY <1>1 DEF OpToRel
<1> QED BY <1>2

\* The driver stays at its drive when it goes on to another step.
LEMMA GoesStep ==
    ASSUME CallOK, ~InUser, NEW a \in At \ {"user", "scan"}, NEW j \in Job, Goes(a, j)
    PROVE  /\ CallOK' /\ dkc'.at = a /\ dkc'.job = j
           /\ dkc'.drive = dkc.drive /\ dkc'.snapshot = dkc.snapshot
<1>1. /\ dkc' \in Call /\ dkc'.at = a /\ dkc'.job = j
      /\ dkc'.drive = dkc.drive /\ dkc'.snapshot = dkc.snapshot
  BY DEF CallOK, Call, Goes
<1> QED BY <1>1 DEF CallOK, InUser

\* The scan goes on to the next drive, or the code ends: no drive but the one it
\* was at is passed over.
LEMMA GoesOnStep ==
    ASSUME CallOK, ~InUser, GoesOn
    PROVE  /\ CallOK' /\ dkc'.at \in {"user", "scan"}
           /\ \A d \in Drives : Pending(d)' <=> Pending(d) /\ d # dkc.drive
           /\ \A d \in Drives : Pending(d)' => dkc'.snapshot[d] = dkc.snapshot[d]
<1> DEFINE rest == {d \in DOMAIN dkc.snapshot : d > dkc.drive}
           m == CHOOSE d \in rest : \A e \in rest : d <= e
<1>0. /\ dkc \in Call /\ dkc.drive \in Nat /\ dkc.drive \in Drives
      /\ dkc.snapshot \in Snapshot /\ DOMAIN dkc.snapshot \subseteq Drives
  BY DEF CallOK, Call, Snapshot
<1>n. Drives \subseteq Nat
  BY DiskAssumption
<1>1. CASE rest = {}
  <2>1. dkc' = UserMode
    BY <1>1 DEF GoesOn
  <2>2. CallOK' /\ dkc'.at = "user" /\ DOMAIN dkc'.snapshot = {}
    BY <2>1 DEF CallOK, Call, UserMode, At, Job, Snapshot, InUser
  <2>3. \A d \in Drives : ~Pending(d)'
    BY <2>2 DEF Pending
  <2>4. \A d \in Drives : Pending(d) => d = dkc.drive
    BY <1>1 DEF Pending
  <2> QED BY <2>2, <2>3, <2>4
<1>2. CASE rest # {}
  <2>1. m \in rest /\ \A e \in rest : m <= e
    <3>1. \E d \in rest : \A e \in rest : d <= e
      BY <1>0, <1>n, <1>2, LeastNumber
    <3> QED BY <3>1
  <2>2. dkc' = [dkc EXCEPT !.at = "scan", !.job = "none", !.drive = m]
    BY <1>2 DEF GoesOn
  <2> HIDE DEF m
  <2>3. /\ dkc' \in Call /\ dkc'.at = "scan" /\ dkc'.drive = m
        /\ dkc'.snapshot = dkc.snapshot
    BY <1>0, <1>n, <2>1, <2>2 DEF Call, At, Job
  <2>4. CallOK'
    BY <1>0, <2>1, <2>3 DEF CallOK, InUser
  <2>5. ASSUME NEW d \in Drives PROVE Pending(d)' <=> Pending(d) /\ d # dkc.drive
    <3>1. Pending(d)' <=> d \in DOMAIN dkc.snapshot /\ (d > m \/ d = m)
      BY <2>3 DEF Pending
    <3>2. Pending(d) /\ d # dkc.drive <=> d \in DOMAIN dkc.snapshot /\ d > dkc.drive
      BY <1>0, <1>n DEF Pending
    <3>3. m \in Drives /\ m \in Nat /\ d \in Nat
      BY <1>0, <1>n, <2>1
    <3>4. d \in DOMAIN dkc.snapshot /\ d > dkc.drive => d >= m
      BY <2>1
    <3>5. m \in DOMAIN dkc.snapshot /\ m > dkc.drive
      BY <2>1
    <3> QED BY <1>0, <3>1, <3>2, <3>3, <3>4, <3>5
  <2> QED BY <2>3, <2>4, <2>5
<1> QED BY <1>1, <1>2

\* What a step of the driver's code does to dkc, wherever it goes: the drive it is at
\* is no longer one to look at, the others are as they were.
Moves ==
    /\ CallOK'
    /\ \A d \in Drives : Pending(d)' <=> Pending(d) /\ d # dkc.drive
    /\ \A d \in Drives : Pending(d)' => dkc'.snapshot[d] = dkc.snapshot[d]
    /\ dkc'.at \in {"user", "scan"} \/ dkc'.drive = dkc.drive

\* A step at the same drive moves on, in that sense.
LEMMA GoesMoves ==
    ASSUME CallOK, ~InUser, NEW a \in At \ {"user", "scan"}, NEW j \in Job, Goes(a, j)
    PROVE  Moves /\ dkc'.at = a /\ dkc'.job = j /\ dkc'.drive = dkc.drive
<1>1. /\ CallOK' /\ dkc'.at = a /\ dkc'.job = j
      /\ dkc'.drive = dkc.drive /\ dkc'.snapshot = dkc.snapshot
  BY GoesStep
<1>2. dkc.drive \in Nat /\ Drives \subseteq Nat
  BY DiskAssumption DEF CallOK, Call
<1>3. ASSUME NEW d \in Drives PROVE Pending(d)' <=> Pending(d) /\ d # dkc.drive
  BY <1>1, <1>2 DEF Pending
<1> QED BY <1>1, <1>3 DEF Moves

\* So does a turn of the scan.
LEMMA GoesOnMoves ==
    ASSUME CallOK, ~InUser, GoesOn
    PROVE  Moves /\ dkc'.at \in {"user", "scan"}
BY GoesOnStep DEF Moves

-----------------------------------------------------------------------------
(***************************************************************************)
(* What a step of the driver leaves as it was                              *)
(***************************************************************************)

\* So what is known of the other drives is known still.
LEMMA OthersKept ==
    ASSUME CallOK, ~InUser, Moves, KnownFileSystem, UNCHANGED hwDisk,
           NEW c \in Drives, c = dkc.drive,
           \A d \in Drives \ {c} :
              disk'[d] = disk[d] /\ fs'[d] = fs[d] /\ exchanged'[d] = exchanged[d]
    PROVE  /\ \A d \in Drives \ {c} : Known(d)' = Known(d) /\ KnownRight(d)'
           /\ Known(c)' = disk'[c].mounted
           /\ Found(c)' <=> dkc'.at \in {"info", "mount"} /\ dkc'.drive = c
<1>2. ASSUME NEW d \in Drives \ {c} PROVE Known(d)' = Known(d) /\ KnownRight(d)'
  <2>0. disk'[d] = disk[d] /\ fs'[d] = fs[d] /\ exchanged'[d] = exchanged[d] /\ d # c /\ d \in Drives
    OBVIOUS
  <2>1. (Pending(d)' <=> Pending(d)) /\ (Pending(d) => dkc'.snapshot[d] = dkc.snapshot[d])
    BY <2>0 DEF Moves
  <2>2. Known(d)' = Known(d)
    BY <2>0, <2>1 DEF Known
  <2>3. Found(d)' => Pending(d) /\ ~disk[d].mounted
    <3>1. dkc'.at \in {"info", "mount"} => dkc'.drive # d
      BY <2>0 DEF Moves
    <3> QED BY <2>0, <2>1, <3>1 DEF Found
  <2>4. (Found(d) /\ Present(d))' => Found(d) /\ Present(d)
    BY <2>3 DEF Found, Present
  <2>5. KnownRight(d)
    BY <2>0 DEF KnownFileSystem
  <2>6. CASE Found(d) /\ Present(d)
    <3>1. Pending(d) \/ d = dkc.drive
      BY <2>6 DEF Found
    <3>2. Found(d)' /\ Present(d)'
      BY <2>0, <2>1, <2>6, <3>1 DEF Found, Present
    <3> QED BY <2>2, <3>2 DEF KnownRight
  <2>7. CASE ~(Found(d) /\ Present(d))
    BY <2>0, <2>2, <2>5, <2>7 DEF KnownRight
  <2> QED BY <2>2, <2>6, <2>7
<1>3. ~Pending(c)'
  BY DEF Moves
<1>4. Known(c)' = disk'[c].mounted
  BY <1>3 DEF Known
<1>5. Found(c)' <=> dkc'.at \in {"info", "mount"} /\ dkc'.drive = c
  BY <1>3 DEF Found
<1> QED BY <1>2, <1>4, <1>5

\* A step of the driver, at drive c: what there is to see to for the invariant.
LEMMA DriverStep ==
    ASSUME DiskInv, ~InUser, Moves, HwTypeOK', DriverTypeOK', UNCHANGED hwDisk,
           NEW c \in Drives, c = dkc.drive,
           \A d \in Drives \ {c} :
              disk'[d] = disk[d] /\ fs'[d] = fs[d] /\ exchanged'[d] = exchanged[d],
           ~hwIrq' => \A d \in Drives \ (missed' \cup {c}) : Known(d) = Present(d),
           ~hwIrq' /\ c \notin missed' => disk'[c].mounted = Present(c),
           \A d \in Drives : hwOp'[d] # "ready" => Present(d) /\ dkc'.at = "sync" /\ d = c,
           dkc'.at = "sync" => disk'[c].mounted,
           disk'[c].mounted /\ exchanged'[c] = "no" /\ (dkc'.at \in {"info", "mount"} => ~Present(c)) =>
              fs'[c] \in {NoDisk, hwDisk[c]},
           dkc'.at \in {"sync", "done"} /\ disk'[c].mounted /\ exchanged'[c] = "no" =>
              hwMoved' \in {NoDisk, hwDisk[c]}
    PROVE  DiskInv'
<1>1. /\ \A d \in Drives \ {c} : Known(d)' = Known(d) /\ KnownRight(d)'
      /\ Known(c)' = disk'[c].mounted
      /\ Found(c)' <=> dkc'.at \in {"info", "mount"} /\ dkc'.drive = c
  BY OthersKept DEF DiskInv, DiskTypeOK
<1>2. dkc'.at \in {"sync", "done", "info", "mount"} => dkc'.drive = c
  BY DEF Moves
<1>3. \A d \in Drives : Present(d)' = Present(d)
  BY DEF Present
<1>4. DiskTypeOK'
  BY DEF DiskTypeOK, Moves
<1>5. KnownPresent'
  <2> SUFFICES ASSUME ~hwIrq', NEW d \in Drives \ missed' PROVE Known(d)' = Present(d)'
    BY DEF KnownPresent
  <2>1. CASE d = c
    BY <1>1, <1>3, <2>1
  <2>2. CASE d # c
    <3>1. d \in Drives \ (missed' \cup {c})
      BY <2>2
    <3>2. Known(d) = Present(d)
      BY <3>1
    <3>3. Known(d)' = Known(d)
      BY <1>1, <2>2
    <3> QED BY <1>3, <3>2, <3>3
  <2> QED BY <2>1, <2>2
<1>6. OneOperation'
  <2>1. ASSUME NEW d \in Drives, hwOp'[d] # "ready"
        PROVE  Present(d)' /\ dkc'.at = "sync" /\ dkc'.drive = d
    BY <1>2, <1>3, <2>1
  <2> QED BY <1>2, <2>1 DEF OneOperation
<1>7. KnownFileSystem'
  <2>1. KnownRight(c)'
    BY <1>1, <1>2, <1>3 DEF KnownRight
  <2> QED BY <1>1, <2>1 DEF KnownFileSystem
<1>8. KnownMoved'
  BY <1>2 DEF KnownMoved
<1> QED BY <1>4, <1>5, <1>6, <1>7, <1>8 DEF DiskInv

\* The same for a step that asks the hardware nothing.
LEMMA BlindStep ==
    ASSUME DiskInv, ~InUser, dkc.at # "sync", Moves, HwTypeOK', DriverTypeOK',
           UNCHANGED <<hwDisk, hwIrq, missed>>,
           NEW c \in Drives, c = dkc.drive,
           \A d \in Drives \ {c} :
              disk'[d] = disk[d] /\ fs'[d] = fs[d] /\ exchanged'[d] = exchanged[d],
           disk'[c].mounted = Known(c),
           \A d \in Drives : hwOp'[d] # "ready" => Present(d) /\ dkc'.at = "sync" /\ d = c,
           dkc'.at = "sync" => disk'[c].mounted,
           disk'[c].mounted /\ exchanged'[c] = "no" /\ (dkc'.at \in {"info", "mount"} => ~Present(c)) =>
              fs'[c] \in {NoDisk, hwDisk[c]},
           dkc'.at \in {"sync", "done"} /\ disk'[c].mounted /\ exchanged'[c] = "no" =>
              hwMoved' \in {NoDisk, hwDisk[c]}
    PROVE  DiskInv'
<1>1. ~hwIrq' => \A d \in Drives \ missed' : Known(d) = Present(d)
  BY DEF DiskInv, KnownPresent
<1>2. ~hwIrq' => \A d \in Drives \ (missed' \cup {c}) : Known(d) = Present(d)
  BY <1>1
<1>3. ~hwIrq' /\ c \notin missed' => disk'[c].mounted = Present(c)
  BY <1>1
<1> QED BY <1>2, <1>3, DriverStep

\* disk_read or disk_write
LEMMA OperatesStep ==
    ASSUME DiskInv, ~InUser, dkc.at \notin {"sync"}, NEW c \in Drives, c = dkc.drive,
           NEW may \in BOOLEAN, NEW j \in Job, Operates(may, j)
    PROVE  /\ Moves
           /\ hwOp' \in [Drives -> {"ready", "ongoing", "error"}]
           /\ hwMoved' \in Disks \cup {NoDisk}
           /\ dkc'.at \in {"user", "scan", "sync"}
           /\ dkc'.at = "sync" => may /\ hwMoved' = NoDisk
           /\ \A d \in Drives : hwOp'[d] # "ready" => Present(d) /\ dkc'.at = "sync" /\ d = c
<1>1. \A d \in Drives : hwOp[d] = "ready"
  BY DEF DiskInv, OneOperation
<1>2. CallOK /\ HwTypeOK
  BY DEF DiskInv, DiskTypeOK
<1>3. CASE may /\ HwAccepts(c)
  <2>1. Goes("sync", j) /\ hwOp' = [hwOp EXCEPT ![c] = "ongoing"] /\ hwMoved' = NoDisk
    BY <1>3 DEF Operates
  <2>2. Moves /\ dkc'.at = "sync"
    BY <1>2, <2>1, GoesMoves DEF At
  <2> QED BY <1>1, <1>2, <1>3, <2>1, <2>2 DEF HwTypeOK, HwAccepts
<1>4. CASE ~(may /\ HwAccepts(c))
  <2>1. GoesOn /\ UNCHANGED <<hwOp, hwMoved>>
    BY <1>4 DEF Operates
  <2>2. Moves /\ dkc'.at \in {"user", "scan"}
    BY <1>2, <2>1, GoesOnMoves
  <2> QED BY <1>1, <1>2, <2>1, <2>2 DEF HwTypeOK
<1> QED BY <1>3, <1>4

\* At the drive where the driver is, after the scan has looked at it.
LEMMA KnownHere ==
    ASSUME DiskInv, ~InUser, dkc.at # "scan", NEW c \in Drives, c = dkc.drive
    PROVE  /\ ~Pending(c) /\ Known(c) = disk[c].mounted
           /\ disk[c].mounted /\ exchanged[c] = "no" /\ (dkc.at \in {"info", "mount"} => ~Present(c)) =>
                 fs[c] \in {NoDisk, hwDisk[c]}
<1>1. c \in Nat
  BY DiskAssumption
<1>2. ~Pending(c)
  BY <1>1 DEF Pending
<1>3. Known(c) = disk[c].mounted
  BY <1>2 DEF Known
<1> QED BY <1>2, <1>3 DEF DiskInv, KnownFileSystem, KnownRight, Found

-----------------------------------------------------------------------------
(***************************************************************************)
(* The steps of the driver                                                 *)
(***************************************************************************)

\* hwdkc_updateState looks at the next drive.
LEMMA ScanKeeps == ASSUME DiskInv, DkcScan PROVE DiskInv'
<1>0. ~InUser /\ dkc.at = "scan" /\ dkc.at # "sync" /\ CallOK /\ DriverTypeOK /\ HwTypeOK
  BY DEF DkcScan, InUser, DiskInv, DiskTypeOK
<1>1. PICK c \in Drives : c = dkc.drive
  BY <1>0 DEF CallOK
<1> DEFINE new == Seen(dkc.snapshot[c], disk[c].init)
<1>2. c \in Nat /\ Pending(c) /\ dkc.snapshot \in [Drives -> DriveState]
  <2>1. c \in DOMAIN dkc.snapshot
    BY <1>0, <1>1 DEF CallOK
  <2> QED BY <1>0, <1>1, <2>1, DiskAssumption DEF Pending, CallOK, Call, Snapshot
<1>3. new \in DriveState /\ new.mounted = Known(c)
  BY <1>0, <1>2 DEF Seen, DriveState, DriverTypeOK, Known
<1>4. disk' = [disk EXCEPT ![c] = new] /\ UNCHANGED <<hwVars, fs, missed, exchanged>>
  BY <1>1 DEF DkcScan
<1>5. IF ~disk[c].mounted /\ new.mounted THEN Goes("info", "none") ELSE GoesOn
  BY <1>1 DEF DkcScan
<1> HIDE DEF new
<1>6. disk' \in [Drives -> DriveState] /\ disk'[c] = new /\ \A d \in Drives \ {c} : disk'[d] = disk[d]
  BY <1>0, <1>3, <1>4 DEF DriverTypeOK
<1>7. HwTypeOK' /\ DriverTypeOK'
  BY <1>0, <1>4, <1>6 DEF HwTypeOK, DriverTypeOK, hwVars
<1>8. \A d \in Drives : hwOp'[d] = "ready"
  BY <1>0, <1>4 DEF DiskInv, OneOperation, hwVars
<1>9. Known(c) /\ exchanged[c] = "no" /\ (disk[c].mounted \/ ~Present(c)) => fs[c] \in {NoDisk, hwDisk[c]}
  BY <1>0, <1>2 DEF DiskInv, KnownFileSystem, KnownRight, Found
<1>10. CASE ~disk[c].mounted /\ new.mounted
  <2>1. Moves /\ dkc'.at = "info"
    BY <1>0, <1>5, <1>10, GoesMoves DEF At, Job
  <2> QED BY <1>0, <1>1, <1>3, <1>4, <1>6, <1>7, <1>8, <1>9, <2>1, BlindStep DEF hwVars
<1>11. CASE ~(~disk[c].mounted /\ new.mounted)
  <2>1. Moves /\ dkc'.at \in {"user", "scan"}
    BY <1>0, <1>5, <1>11, GoesOnMoves
  <2> QED BY <1>0, <1>1, <1>3, <1>4, <1>6, <1>7, <1>8, <1>9, <1>11, <2>1, BlindStep DEF hwVars
<1> QED BY <1>10, <1>11

\* QUERYDISKINFO: the disk may have gone since the snapshot.
LEMMA InfoKeeps == ASSUME DiskInv, DkcInfo PROVE DiskInv'
<1>0. ~InUser /\ dkc.at = "info" /\ dkc.at \notin {"sync", "scan"} /\ CallOK /\ DriverTypeOK /\ HwTypeOK
  BY DEF DkcInfo, InUser, DiskInv, DiskTypeOK
<1>1. PICK c \in Drives : c = dkc.drive
  BY <1>0 DEF CallOK
<1>2. UNCHANGED <<hwVars, disk, fs, missed, exchanged>>
  BY DEF DkcInfo
<1>3. HwTypeOK' /\ DriverTypeOK'
  BY <1>0, <1>2 DEF HwTypeOK, DriverTypeOK, hwVars
<1>4. Moves /\ ((dkc'.at = "mount" /\ Present(c)) \/ (dkc'.at \in {"user", "scan"} /\ ~Present(c)))
  <2>1. CASE Present(c)
    <3>1. Goes("mount", "mount")
      BY <1>1, <2>1 DEF DkcInfo
    <3> QED BY <1>0, <2>1, <3>1, GoesMoves DEF At, Job
  <2>2. CASE ~Present(c)
    <3>1. GoesOn
      BY <1>1, <2>2 DEF DkcInfo
    <3> QED BY <1>0, <2>2, <3>1, GoesOnMoves
  <2> QED BY <2>1, <2>2
<1>5. \A d \in Drives : hwOp'[d] = "ready"
  BY <1>0, <1>2 DEF DiskInv, OneOperation, hwVars
<1>6. /\ Known(c) = disk[c].mounted
      /\ disk[c].mounted /\ exchanged[c] = "no" /\ (dkc.at \in {"info", "mount"} => ~Present(c)) =>
            fs[c] \in {NoDisk, hwDisk[c]}
  BY <1>0, <1>1, KnownHere
<1> QED BY <1>0, <1>1, <1>2, <1>3, <1>4, <1>5, <1>6, BlindStep DEF hwVars

\* f_mount forgets what was mounted before it reads anything.
LEMMA MountKeeps == ASSUME DiskInv, DkcMount PROVE DiskInv'
<1>0. ~InUser /\ dkc.at \notin {"sync", "scan"} /\ CallOK /\ DriverTypeOK /\ HwTypeOK
  BY DEF DkcMount, InUser, DiskInv, DiskTypeOK
<1>1. PICK c \in Drives : c = dkc.drive
  BY <1>0 DEF CallOK
<1>2. /\ fs' = [fs EXCEPT ![c] = NoDisk]
      /\ disk' = [disk EXCEPT ![c].init = disk[c].init \/ disk[c].mounted]
      /\ exchanged' = [exchanged EXCEPT ![c] = "no"]
      /\ UNCHANGED <<hwDisk, hwAttached, hwIrq, blank, missed>>
  BY <1>1 DEF DkcMount, Initialised
<1>3. /\ fs'[c] = NoDisk /\ disk'[c].mounted = disk[c].mounted
      /\ \A d \in Drives \ {c} :
            disk'[d] = disk[d] /\ fs'[d] = fs[d] /\ exchanged'[d] = exchanged[d]
  BY <1>0, <1>2 DEF DriverTypeOK, DriveState
<1>4. DriverTypeOK'
  <2>1. disk[c].init \in BOOLEAN /\ disk[c].mounted \in BOOLEAN /\ c \in Drives
    BY <1>0 DEF DriverTypeOK, DriveState
  <2>2. disk' \in [Drives -> DriveState]
    BY <1>0, <1>2, <2>1 DEF DriverTypeOK, DriveState
  <2> QED BY <1>0, <1>2, <2>2 DEF DriverTypeOK
<1>5. PICK may \in BOOLEAN : Operates(may, dkc.job) /\ (may => disk'[c].mounted)
  <2>1. Operates(MayRead(disk'[c]), dkc.job)
    BY <1>1 DEF DkcMount
  <2>2. disk'[c] \in DriveState
    BY <1>4 DEF DriverTypeOK
  <2>3. MayRead(disk'[c]) \in BOOLEAN /\ (MayRead(disk'[c]) => disk'[c].mounted)
    BY <2>2 DEF MayRead, DriveState
  <2> QED BY <2>1, <2>3
<1>6. dkc.job \in Job
  BY <1>0 DEF CallOK, Call
<1>7. /\ Moves
      /\ hwOp' \in [Drives -> {"ready", "ongoing", "error"}]
      /\ hwMoved' \in Disks \cup {NoDisk}
      /\ dkc'.at \in {"user", "scan", "sync"}
      /\ dkc'.at = "sync" => may /\ hwMoved' = NoDisk
      /\ \A d \in Drives : hwOp'[d] # "ready" => Present(d) /\ dkc'.at = "sync" /\ d = c
  BY <1>0, <1>1, <1>5, <1>6, OperatesStep
<1>8. HwTypeOK'
  BY <1>0, <1>2, <1>7 DEF HwTypeOK
<1>9. disk'[c].mounted = Known(c)
  BY <1>0, <1>1, <1>3, KnownHere
<1> QED BY <1>0, <1>1, <1>2, <1>3, <1>4, <1>5, <1>7, <1>8, <1>9, BlindStep

\* f_mkfs and f_getfree begin in the same way.
LEMMA AccessKeeps ==
    ASSUME DiskInv, dkc.at \in {"format", "free"},
           NEW may \in BOOLEAN, NEW j \in Job,
           Operates(may, j) \/ (GoesOn /\ UNCHANGED <<hwOp, hwMoved>>),
           may => disk[dkc.drive].mounted,
           UNCHANGED <<hwDisk, hwAttached, hwIrq, blank, disk, fs, missed, exchanged>>
    PROVE  DiskInv'
<1>0. ~InUser /\ dkc.at \notin {"sync", "scan", "info", "mount"} /\ CallOK /\ DriverTypeOK /\ HwTypeOK
  BY DEF InUser, DiskInv, DiskTypeOK
<1>1. PICK c \in Drives : c = dkc.drive
  BY <1>0 DEF CallOK
<1>2. \A d \in Drives : hwOp[d] = "ready"
  BY <1>0 DEF DiskInv, OneOperation
<1>3. /\ Moves
      /\ hwOp' \in [Drives -> {"ready", "ongoing", "error"}]
      /\ hwMoved' \in Disks \cup {NoDisk}
      /\ dkc'.at \in {"user", "scan", "sync"}
      /\ dkc'.at = "sync" => may /\ hwMoved' = NoDisk
      /\ \A d \in Drives : hwOp'[d] # "ready" => Present(d) /\ dkc'.at = "sync" /\ d = c
  <2>1. CASE Operates(may, j)
    BY <1>0, <1>1, <2>1, OperatesStep
  <2>2. CASE GoesOn /\ UNCHANGED <<hwOp, hwMoved>>
    BY <1>0, <1>2, <2>2, GoesOnMoves DEF HwTypeOK
  <2> QED BY <2>1, <2>2
<1>4. HwTypeOK' /\ DriverTypeOK'
  BY <1>0, <1>3 DEF HwTypeOK, DriverTypeOK
<1>5. /\ Known(c) = disk[c].mounted
      /\ disk[c].mounted /\ exchanged[c] = "no" /\ (dkc.at \in {"info", "mount"} => ~Present(c)) =>
            fs[c] \in {NoDisk, hwDisk[c]}
  BY <1>0, <1>1, KnownHere
<1> QED BY <1>0, <1>1, <1>3, <1>4, <1>5, BlindStep

\* f_mkfs
LEMMA FormatKeeps == ASSUME DiskInv, DkcFormat PROVE DiskInv'
<1>0. ~InUser /\ CallOK /\ DriverTypeOK
  BY DEF DkcFormat, InUser, DiskInv, DiskTypeOK
<1>1. disk[dkc.drive] \in DriveState
  BY <1>0 DEF CallOK, DriverTypeOK
<1>2. /\ MayWrite(disk[dkc.drive]) \in BOOLEAN
      /\ MayWrite(disk[dkc.drive]) => disk[dkc.drive].mounted
  BY <1>1 DEF MayWrite, MayRead, DriveState
<1> QED BY <1>2, AccessKeeps DEF DkcFormat, Job

\* f_getfree
LEMMA FreeKeeps == ASSUME DiskInv, DkcFree PROVE DiskInv'
<1>0. ~InUser /\ CallOK /\ DriverTypeOK
  BY DEF DkcFree, InUser, DiskInv, DiskTypeOK
<1>1. disk[dkc.drive] \in DriveState
  BY <1>0 DEF CallOK, DriverTypeOK
<1>2. /\ MayRead(disk[dkc.drive]) \in BOOLEAN
      /\ MayRead(disk[dkc.drive]) => disk[dkc.drive].mounted
  BY <1>1 DEF MayRead, DriveState
<1> QED BY <1>2, AccessKeeps DEF DkcFree, Job

\* The operation is over: the file system is that of the disk it was read from.
LEMMA DoneKeeps == ASSUME DiskInv, DkcDone PROVE DiskInv'
<1>0. ~InUser /\ dkc.at = "done" /\ dkc.at \notin {"sync", "scan", "info", "mount"}
      /\ CallOK /\ DriverTypeOK /\ HwTypeOK
  BY DEF DkcDone, InUser, DiskInv, DiskTypeOK
<1>1. PICK c \in Drives : c = dkc.drive
  BY <1>0 DEF CallOK
<1>2. /\ hwMoved' = NoDisk
      /\ UNCHANGED <<hwDisk, hwAttached, hwOp, hwIrq, blank, disk, missed, exchanged>>
  BY DEF DkcDone
<1>3. dkc.job \in Job
  BY <1>0 DEF CallOK, Call
<1>4. /\ Moves /\ dkc'.at \in {"user", "scan", "free", "format", "mount"}
      /\ fs' = [fs EXCEPT ![c] = hwMoved] \/ fs' = fs
      /\ dkc'.at = "mount" => fs' = fs
  <2>1. CASE dkc.job \in {"mount", "remount", "automount"} /\ hwMoved \in Disks \ blank
    <3>1. fs' = [fs EXCEPT ![c] = hwMoved] /\ (GoesOn \/ Goes("free", dkc.job))
      BY <1>1, <2>1 DEF DkcDone
    <3> QED BY <1>0, <1>3, <3>1, GoesMoves, GoesOnMoves DEF At
  <2>2. CASE ~(dkc.job \in {"mount", "remount", "automount"} /\ hwMoved \in Disks \ blank)
    <3>1. fs' = fs /\ (GoesOn \/ Goes("format", "mount") \/ Goes("mount", "remount"))
      BY <1>3, <2>2 DEF DkcDone, Job
    <3> QED BY <1>0, <3>1, GoesMoves, GoesOnMoves DEF At, Job
  <2> QED BY <2>1, <2>2
<1>5. /\ fs' \in [Drives -> Disks \cup {NoDisk}]
      /\ \A d \in Drives \ {c} : fs'[d] = fs[d]
      /\ fs'[c] \in {fs[c], hwMoved}
  BY <1>0, <1>4 DEF HwTypeOK, DriverTypeOK
<1>6. HwTypeOK' /\ DriverTypeOK'
  BY <1>0, <1>2, <1>5 DEF HwTypeOK, DriverTypeOK
<1>7. \A d \in Drives : hwOp'[d] = "ready"
  BY <1>0, <1>2 DEF DiskInv, OneOperation
<1>8. /\ Known(c) = disk[c].mounted
      /\ disk[c].mounted /\ exchanged[c] = "no" => fs[c] \in {NoDisk, hwDisk[c]}
  BY <1>0, <1>1, KnownHere
<1>9. disk[c].mounted /\ exchanged[c] = "no" => hwMoved \in {NoDisk, hwDisk[c]}
  BY <1>0, <1>1 DEF DiskInv, KnownMoved
<1> QED BY <1>0, <1>1, <1>2, <1>4, <1>5, <1>6, <1>7, <1>8, <1>9, BlindStep

\* hwdkc_sync: the state of one drive is taken, changes of the others are missed.
LEMMA SyncKeeps == ASSUME DiskInv, DkcSync PROVE DiskInv'
<1>0. ~InUser /\ dkc.at = "sync" /\ dkc.at \notin {"scan", "info", "mount"}
      /\ CallOK /\ DriverTypeOK /\ HwTypeOK
  BY DEF DkcSync, InUser, DiskInv, DiskTypeOK
<1>1. PICK c \in Drives : c = dkc.drive
  BY <1>0 DEF CallOK
<1>2. /\ disk' = [disk EXCEPT ![c] = StateOf(c)]
      /\ missed' = missed \cup {e \in Drives \ {c} : KnownMounted(e) # Present(e)}
      /\ exchanged' = [exchanged EXCEPT ![c] = ExchangeSeen(c)]
      /\ hwIrq' = FALSE
      /\ UNCHANGED <<hwDisk, hwAttached, hwOp, hwMoved, blank, fs>>
  BY <1>1 DEF DkcSync
<1>3. StateOf(c) \in DriveState /\ StateOf(c).mounted = Present(c)
  <2>1. Present(c) \in BOOLEAN /\ (hwDisk[c] \in Protected) \in BOOLEAN
        /\ hwOp[c] \in {"ready", "ongoing", "error"} /\ disk[c].init \in BOOLEAN
    BY <1>0 DEF HwTypeOK, DriverTypeOK, DriveState, Present
  <2> QED BY <2>1 DEF StateOf, DriveState
<1>4. disk' \in [Drives -> DriveState] /\ disk'[c].mounted = Present(c)
      /\ \A d \in Drives \ {c} : disk'[d] = disk[d]
  BY <1>0, <1>2, <1>3 DEF DriverTypeOK
<1>5. /\ exchanged' \in [Drives -> {"no", "unseen", "yes"}]
      /\ \A d \in Drives \ {c} : exchanged'[d] = exchanged[d]
      /\ exchanged'[c] = ExchangeSeen(c)
  BY <1>0, <1>2 DEF DriverTypeOK, ExchangeSeen
<1>6. HwTypeOK' /\ DriverTypeOK'
  BY <1>0, <1>2, <1>4, <1>5 DEF HwTypeOK, DriverTypeOK
<1>7. \A d \in Drives : hwOp[d] # "ready" => Present(d) /\ d = c
  BY <1>0, <1>1 DEF DiskInv, OneOperation
<1>8. Moves /\ dkc'.at \in {"sync", "done"} /\ (dkc'.at = "sync" <=> hwOp[c] # "ready")
  <2>1. CASE hwOp[c] = "ready"
    <3>1. Goes("done", dkc.job)
      BY <1>1, <2>1 DEF DkcSync
    <3>2. dkc.job \in Job
      BY <1>0 DEF CallOK, Call
    <3> QED BY <1>0, <2>1, <3>1, <3>2, GoesMoves DEF At
  <2>2. CASE hwOp[c] # "ready"
    <3>1. UNCHANGED dkc
      BY <1>1, <2>2 DEF DkcSync
    <3>2. ~Pending(c)
      BY <1>0, <1>1, KnownHere
    <3>3. CallOK' /\ \A d \in Drives : Pending(d)' <=> Pending(d)
      BY <1>0, <3>1 DEF CallOK, InUser, Pending
    <3> QED BY <1>0, <1>1, <2>2, <3>1, <3>2, <3>3 DEF Moves
  <2> QED BY <2>1, <2>2
<1>9. \A d \in Drives \ (missed' \cup {c}) : Known(d) = Present(d)
  <2> SUFFICES ASSUME NEW d \in Drives, d \notin missed', d # c PROVE Known(d) = Present(d)
    OBVIOUS
  <2>1. KnownMounted(d) = Present(d)
    BY <1>2
  <2>2. KnownMounted(d) = Known(d)
    BY <1>0 DEF KnownMounted, Known, Pending
  <2> QED BY <2>1, <2>2
<1>10. disk[c].mounted
  BY <1>0, <1>1 DEF DiskInv, OneOperation
<1>11. exchanged[c] = "no" => fs[c] \in {NoDisk, hwDisk[c]} /\ hwMoved \in {NoDisk, hwDisk[c]}
  BY <1>0, <1>1, <1>10, KnownHere DEF DiskInv, KnownMoved
<1>12. Present(c) /\ exchanged'[c] = "no" => exchanged[c] = "no"
  BY <1>5 DEF ExchangeSeen
<1>13. c \notin missed' => disk'[c].mounted = Present(c)
  BY <1>4
<1>14. disk'[c].mounted /\ exchanged'[c] = "no" =>
          fs'[c] \in {NoDisk, hwDisk[c]} /\ hwMoved' \in {NoDisk, hwDisk[c]}
  BY <1>2, <1>4, <1>11, <1>12
<1>15. /\ \A d \in Drives : hwOp'[d] # "ready" => Present(d) /\ dkc'.at = "sync" /\ d = c
       /\ dkc'.at = "sync" => disk'[c].mounted
  BY <1>2, <1>4, <1>7, <1>8
<1> QED BY <1>0, <1>1, <1>2, <1>4, <1>5, <1>6, <1>8, <1>9, <1>13, <1>14, <1>15, DriverStep

\* The interrupt is handled: all that is there is in the snapshot.
LEMMA HandlerKeeps == ASSUME DiskInv, DkcHandler PROVE DiskInv'
<1> DEFINE least == CHOOSE d \in Drives : \A e \in Drives : d <= e
           all == [d \in Drives |-> StateOf(d)]
<1>0. InUser /\ dkc.at = "user" /\ CallOK /\ DriverTypeOK /\ HwTypeOK
  BY DEF DkcHandler, InUser, DiskInv, DiskTypeOK
<1>1. least \in Drives /\ \A e \in Drives : least <= e
  <2>1. \E d \in Drives : \A e \in Drives : d <= e
    BY DiskAssumption, LeastNumber
  <2> QED BY <2>1
<1>2. /\ dkc' = [at |-> "scan", job |-> "none", drive |-> least, snapshot |-> all]
      /\ hwIrq' = FALSE /\ missed' = {}
      /\ exchanged' = [d \in Drives |-> ExchangeSeen(d)]
      /\ UNCHANGED <<hwDisk, hwAttached, hwOp, hwMoved, blank, disk, fs>>
  BY DEF DkcHandler
<1> HIDE DEF least
<1>3. all \in [Drives -> DriveState] /\ \A d \in Drives : all[d].mounted = Present(d)
  <2>1. ASSUME NEW d \in Drives PROVE StateOf(d) \in DriveState /\ StateOf(d).mounted = Present(d)
    <3>1. Present(d) \in BOOLEAN /\ (hwDisk[d] \in Protected) \in BOOLEAN
          /\ hwOp[d] \in {"ready", "ongoing", "error"} /\ disk[d].init \in BOOLEAN
      BY <1>0 DEF HwTypeOK, DriverTypeOK, DriveState, Present
    <3> QED BY <3>1 DEF StateOf, DriveState
  <2> QED BY <2>1
<1> HIDE DEF all
<1>4. dkc' \in Call /\ dkc'.at = "scan" /\ dkc'.drive = least /\ dkc'.snapshot = all
      /\ DOMAIN all = Drives
  BY <1>1, <1>2, <1>3, DiskAssumption DEF Call, At, Job, Snapshot
<1>5. DiskTypeOK'
  BY <1>0, <1>1, <1>2, <1>4 DEF DiskTypeOK, HwTypeOK, DriverTypeOK, CallOK, InUser, ExchangeSeen
<1>6. ASSUME NEW d \in Drives PROVE Pending(d)' /\ Known(d)' = Present(d) /\ Present(d)' = Present(d)
  <2>1. least \in Nat /\ d \in Nat /\ least <= d
    BY <1>1, DiskAssumption
  <2>2. Pending(d)'
    BY <1>4, <2>1 DEF Pending
  <2> QED BY <1>2, <1>3, <1>4, <2>2 DEF Known, Present
<1>7. ASSUME NEW d \in Drives PROVE ~Pending(d) /\ Known(d) = disk[d].mounted
  BY <1>0 DEF Known, Pending, CallOK
<1>8. KnownPresent'
  BY <1>6 DEF KnownPresent
<1>9. OneOperation'
  BY <1>0, <1>2, <1>4 DEF DiskInv, OneOperation, InUser
<1>10. ASSUME NEW d \in Drives PROVE KnownRight(d)'
  <2> SUFFICES ASSUME Known(d)', exchanged'[d] = "no", ~(Found(d) /\ Present(d))'
               PROVE  fs'[d] \in {NoDisk, hwDisk'[d]}
    BY DEF KnownRight
  <2>1. Present(d)
    BY <1>6
  <2>2. disk[d].mounted /\ Known(d)
    BY <1>2, <1>6, <1>7, <2>1 DEF Found
  <2>3. exchanged[d] = "no"
    BY <1>2, <2>1 DEF ExchangeSeen
  <2>4. ~Found(d)
    BY <1>0, <1>7 DEF Found
  <2> QED BY <1>2, <2>2, <2>3, <2>4 DEF DiskInv, KnownFileSystem, KnownRight
<1>11. KnownMoved'
  BY <1>4 DEF KnownMoved
<1> QED BY <1>5, <1>8, <1>9, <1>10, <1>11 DEF DiskInv, KnownFileSystem

\* A system call on a file
LEMMA FileCallKeeps ==
    ASSUME DiskInv, NEW c \in Drives, NEW write \in BOOLEAN, FileCall(c, write) PROVE DiskInv'
<1>0. InUser /\ dkc.at = "user" /\ CallOK /\ DriverTypeOK /\ HwTypeOK
  BY DEF FileCall, InUser, DiskInv, DiskTypeOK
<1>1. UNCHANGED <<hwDisk, hwAttached, hwIrq, blank, disk, fs, missed, exchanged>>
  BY DEF FileCall, hwVars
<1>2. /\ dkc' \in Call /\ dkc'.at \in {"mount", "sync"} /\ dkc'.drive = c /\ dkc'.snapshot = << >>
  BY DiskAssumption DEF FileCall, UserMode, Call, At, Job, Snapshot
<1>3. \/ dkc'.at = "mount" /\ UNCHANGED <<hwOp, hwMoved>> /\ fs[c] = NoDisk
      \/ /\ dkc'.at = "sync" /\ disk[c].mounted /\ Present(c) /\ hwMoved' = NoDisk
         /\ hwOp' = [hwOp EXCEPT ![c] = "ongoing"]
  BY DEF FileCall, UserMode, hwVars, MayRead, MayWrite, HwAccepts
<1>4. DiskTypeOK'
  BY <1>0, <1>1, <1>2, <1>3 DEF DiskTypeOK, HwTypeOK, DriverTypeOK, CallOK, InUser
<1>5. ASSUME NEW d \in Drives
      PROVE  /\ ~Pending(d) /\ ~Pending(d)' /\ Known(d)' = Known(d) /\ Present(d)' = Present(d)
             /\ Known(d) = disk[d].mounted
  BY <1>0, <1>1, <1>2 DEF Known, Pending, CallOK, Present
<1>6. KnownPresent'
  BY <1>1, <1>5 DEF DiskInv, KnownPresent
<1>7. OneOperation'
  <2>1. \A d \in Drives : hwOp[d] = "ready"
    BY <1>0 DEF DiskInv, OneOperation
  <2> QED BY <1>0, <1>1, <1>2, <1>3, <1>5, <2>1 DEF OneOperation, HwTypeOK
<1>8. KnownFileSystem'
  <2> SUFFICES ASSUME NEW d \in Drives PROVE KnownRight(d)'
    BY DEF KnownFileSystem
  <2>1. ~Found(d) /\ KnownRight(d)
    BY <1>0, <1>5 DEF Found, DiskInv, KnownFileSystem
  <2> QED BY <1>1, <1>5, <2>1 DEF KnownRight
<1>9. KnownMoved'
  BY <1>2, <1>3 DEF KnownMoved
<1> QED BY <1>4, <1>6, <1>7, <1>8, <1>9 DEF DiskInv

-----------------------------------------------------------------------------
(***************************************************************************)
(* The steps of the hardware                                               *)
(***************************************************************************)

\* The hardware: a disk comes or goes, an operation ends.
LEMMA AttachKeeps ==
    ASSUME DiskInv, NEW c \in Drives, NEW k \in Disks, HwAttach(c, k) PROVE DiskInv'
<1>0. CallOK /\ DriverTypeOK /\ HwTypeOK /\ ~Present(c)
  BY DEF HwAttach, DiskInv, DiskTypeOK
<1>1. /\ hwIrq' = TRUE /\ hwAttached' = hwAttached + 1 /\ hwDisk' = [hwDisk EXCEPT ![c] = k]
      /\ UNCHANGED <<hwOp, hwMoved, blank, disk, fs, dkc, missed, exchanged>>
  BY DEF HwAttach
<1>2. DiskTypeOK'
  BY <1>0, <1>1 DEF DiskTypeOK, HwTypeOK, DriverTypeOK, CallOK, InUser
<1>3. ASSUME NEW d \in Drives
      PROVE  /\ (Pending(d)' <=> Pending(d)) /\ Known(d)' = Known(d) /\ (Found(d)' <=> Found(d))
             /\ hwDisk'[d] = IF d = c THEN k ELSE hwDisk[d]
             /\ d # c => Present(d)' = Present(d)
  BY <1>0, <1>1 DEF Known, Pending, Found, Present, HwTypeOK
<1>4. KnownPresent'
  BY <1>1 DEF KnownPresent
<1>5. OneOperation'
  BY <1>0, <1>1, <1>3 DEF DiskInv, OneOperation
<1>6. KnownFileSystem'
  <2> SUFFICES ASSUME NEW d \in Drives PROVE KnownRight(d)'
    BY DEF KnownFileSystem
  <2>1. KnownRight(d)
    BY DEF DiskInv, KnownFileSystem
  <2>2. CASE d = c
    BY <1>0, <1>1, <1>3, <2>1, <2>2 DEF KnownRight, Present
  <2>3. CASE d # c
    BY <1>1, <1>3, <2>1, <2>3 DEF KnownRight
  <2> QED BY <2>2, <2>3
<1>7. KnownMoved'
  <2>1. dkc.at \in {"sync", "done"} => dkc.drive \in Drives
    BY <1>0 DEF CallOK, InUser
  <2>2. CASE dkc.drive = c
    BY <1>0, <1>1, <1>3, <2>1, <2>2 DEF DiskInv, KnownMoved, Present
  <2>3. CASE dkc.drive # c
    BY <1>0, <1>1, <1>3, <2>1, <2>3 DEF DiskInv, KnownMoved
  <2> QED BY <2>2, <2>3
<1> QED BY <1>2, <1>4, <1>5, <1>6, <1>7 DEF DiskInv

\* A disk is taken out, in the middle of anything.
LEMMA DetachKeeps == ASSUME DiskInv, NEW c \in Drives, HwDetach(c) PROVE DiskInv'
<1>0. CallOK /\ DriverTypeOK /\ HwTypeOK
  BY DEF DiskInv, DiskTypeOK
<1>1. /\ hwIrq' = TRUE /\ hwDisk' = [hwDisk EXCEPT ![c] = NoDisk]
      /\ hwOp' = [hwOp EXCEPT ![c] = "ready"]
      /\ exchanged' = [exchanged EXCEPT ![c] = IF exchanged[c] = "no" THEN "unseen" ELSE exchanged[c]]
      /\ UNCHANGED <<hwAttached, hwMoved, blank, disk, fs, dkc, missed>>
  BY DEF HwDetach
<1>2. DiskTypeOK'
  BY <1>0, <1>1 DEF DiskTypeOK, HwTypeOK, DriverTypeOK, CallOK, InUser
<1>3. ASSUME NEW d \in Drives
      PROVE  /\ (Pending(d)' <=> Pending(d)) /\ Known(d)' = Known(d) /\ (Found(d)' <=> Found(d))
             /\ d # c => /\ Present(d)' = Present(d) /\ hwDisk'[d] = hwDisk[d]
                         /\ exchanged'[d] = exchanged[d] /\ hwOp'[d] = hwOp[d]
             /\ d = c => exchanged'[d] # "no" /\ hwOp'[d] = "ready"
  BY <1>0, <1>1 DEF Known, Pending, Found, Present, HwTypeOK, DriverTypeOK
<1>4. KnownPresent'
  BY <1>1 DEF KnownPresent
<1>5. OneOperation'
  BY <1>0, <1>1, <1>3 DEF DiskInv, OneOperation
<1>6. KnownFileSystem'
  <2> SUFFICES ASSUME NEW d \in Drives PROVE KnownRight(d)'
    BY DEF KnownFileSystem
  <2>1. KnownRight(d)
    BY DEF DiskInv, KnownFileSystem
  <2>2. CASE d = c
    BY <1>3, <2>2 DEF KnownRight
  <2>3. CASE d # c
    BY <1>1, <1>3, <2>1, <2>3 DEF KnownRight
  <2> QED BY <2>2, <2>3
<1>7. KnownMoved'
  <2>1. dkc.at \in {"sync", "done"} => dkc.drive \in Drives
    BY <1>0 DEF CallOK, InUser
  <2> QED BY <1>1, <1>3, <2>1 DEF DiskInv, KnownMoved
<1> QED BY <1>2, <1>4, <1>5, <1>6, <1>7 DEF DiskInv

\* The operation that is waited for ends, or fails.
LEMMA EndKeeps ==
    ASSUME DiskInv, NEW c \in Drives, HwCompletes(c) \/ HwFails(c) PROVE DiskInv'
<1>0. CallOK /\ DriverTypeOK /\ HwTypeOK /\ hwOp[c] = "ongoing"
  BY DEF HwCompletes, HwFails, DiskInv, DiskTypeOK
<1>1. UNCHANGED <<hwDisk, hwAttached, hwIrq, disk, fs, dkc, missed, exchanged>>
  BY DEF HwCompletes, HwFails
<1>2. dkc.drive = c /\ dkc.at = "sync" /\ Present(c) /\ \A d \in Drives \ {c} : hwOp[d] = "ready"
  BY <1>0 DEF DiskInv, OneOperation
<1>3. /\ \E op \in {"ready", "error"} : hwOp' = [hwOp EXCEPT ![c] = op]
      /\ hwMoved' \in {hwMoved, hwDisk[c]}
      /\ blank' \subseteq blank
  <2>1. CASE HwCompletes(c)
    BY <2>1 DEF HwCompletes
  <2>2. CASE HwFails(c)
    BY <2>2 DEF HwFails
  <2> QED BY <2>1, <2>2
<1>4. DiskTypeOK'
  BY <1>0, <1>1, <1>3 DEF DiskTypeOK, HwTypeOK, DriverTypeOK, CallOK, InUser
<1>5. ASSUME NEW d \in Drives
      PROVE  Known(d)' = Known(d) /\ (Found(d)' <=> Found(d)) /\ Present(d)' = Present(d)
  BY <1>1 DEF Known, Pending, Found, Present
<1>6. KnownPresent'
  BY <1>1, <1>5 DEF DiskInv, KnownPresent
<1>7. OneOperation'
  BY <1>0, <1>1, <1>2, <1>3, <1>5 DEF DiskInv, OneOperation, HwTypeOK
<1>8. KnownFileSystem'
  <2> SUFFICES ASSUME NEW d \in Drives PROVE KnownRight(d)'
    BY DEF KnownFileSystem
  <2>1. KnownRight(d)
    BY DEF DiskInv, KnownFileSystem
  <2> QED BY <1>1, <1>5, <2>1 DEF KnownRight
<1>9. KnownMoved'
  BY <1>1, <1>2, <1>3 DEF DiskInv, KnownMoved
<1> QED BY <1>4, <1>6, <1>7, <1>8, <1>9 DEF DiskInv

-----------------------------------------------------------------------------
(***************************************************************************)
(* The theorems                                                            *)
(***************************************************************************)

\* The driver knows of no disk when the kernel starts, and is told to look.
LEMMA DiskInitInv == DiskInit => DiskInv
<1> SUFFICES ASSUME DiskInit PROVE DiskInv
  OBVIOUS
<1>1. dkc \in Call /\ dkc.at = "user" /\ dkc.snapshot = << >>
  BY DEF DiskInit, UserMode, Call, At, Job, Snapshot
<1>2. DiskTypeOK
  BY <1>1, DiskAssumption
     DEF DiskInit, DiskTypeOK, HwTypeOK, DriverTypeOK, CallOK, InUser, DriveState
<1>3. KnownPresent /\ OneOperation /\ KnownMoved
  BY <1>1 DEF DiskInit, KnownPresent, OneOperation, KnownMoved
<1>4. ASSUME NEW d \in Drives PROVE KnownRight(d)
  BY DEF DiskInit, KnownRight
<1> QED BY <1>2, <1>3, <1>4 DEF DiskInv, KnownFileSystem

\* Every step keeps the invariant.
LEMMA DiskStep == ASSUME DiskInv, [DiskNext]_diskVars PROVE DiskInv'
<1>1. CASE DkcHandler
  BY <1>1, HandlerKeeps
<1>2. CASE DkcStep
  BY <1>2, ScanKeeps, InfoKeeps, MountKeeps, FormatKeeps, DoneKeeps, FreeKeeps, SyncKeeps
     DEF DkcStep
<1>3. CASE \E d \in Drives :
             \/ HwDetach(d) \/ HwCompletes(d) \/ HwFails(d)
             \/ \E k \in Disks : HwAttach(d, k)
             \/ \E write \in BOOLEAN : FileCall(d, write)
  BY <1>3, DetachKeeps, EndKeeps, AttachKeeps, FileCallKeeps
<1>4. CASE UNCHANGED diskVars
  BY <1>4 DEF diskVars, hwVars, DiskInv, DiskTypeOK, HwTypeOK, DriverTypeOK, CallOK, InUser,
              KnownPresent, OneOperation, KnownFileSystem, KnownMoved, KnownRight, Known, Found,
              Pending, Present
<1> QED BY <1>1, <1>2, <1>3, <1>4 DEF DiskNext

\* The invariant of the driver holds in every reachable state.
THEOREM DiskInvariant == DiskSpec => []DiskInv
<1>1. DiskInv /\ [DiskNext]_diskVars => DiskInv'
  BY DiskStep
<1> QED BY <1>1, DiskInitInv, PTL DEF DiskSpec

\* In user mode there is no drive to look at any more.
LEMMA InUserKnown ==
    ASSUME DiskInv, InUser, NEW d \in Drives
    PROVE  ~Found(d) /\ Known(d) = disk[d].mounted
BY DEF DiskInv, DiskTypeOK, CallOK, InUser, Found, Known, Pending

\* For any drives and disks: with no interrupt to come, the driver is right about
\* which drives have a disk, unless hwdkc_sync read the change away while it
\* waited for another drive.
THEOREM DiskChangesNoticed == DiskSpec => []ChangesNoticed
<1>1. ASSUME DiskInv PROVE ChangesNoticed
  BY <1>1, InUserKnown DEF ChangesNoticed, DiskInv, KnownPresent
<1> QED BY <1>1, DiskInvariant, PTL

\* For any drives and disks: the file system that a process works with is the one
\* of the disk in the drive, unless a disk was exchanged between two queries.
THEOREM DiskRightFileSystem == DiskSpec => []RightFileSystem
<1>1. ASSUME DiskInv PROVE RightFileSystem
  BY <1>1, InUserKnown DEF RightFileSystem, DiskInv, KnownFileSystem, KnownRight
<1> QED BY <1>1, DiskInvariant, PTL

===============================================================================
