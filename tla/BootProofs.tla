------------------------------ MODULE BootProofs ------------------------------
(***************************************************************************)
(* Proofs about the start of the kernel, for any ROM image, page size and  *)
(* number of processes to start with; and about what its screen shows, and *)
(* that of the screen library, for screens of any size.                    *)
(***************************************************************************)
EXTENDS Boot, Screen, TLAPS

-----------------------------------------------------------------------------
(***************************************************************************)
(* The invariant                                                           *)
(***************************************************************************)

\* What a process is made of
Kind == {"pcb", "tcb", "handle", "stack", "pt"}

\* A process in kernel mode has a stack of its own, another one a page table.
Memory(a) == IF Privileged[a] THEN "stack" ELSE "pt"

\* What a launch under way has allocated, by where it is.
Parts ==
    CASE bootAt \in {"stack", "pt", "noPcb"} -> {"pcb"}
      [] bootAt \in {"tcb", "noTcb"} -> {"pcb", Memory(app)}
      [] bootAt \in {"handle", "noHandle"} -> {"pcb", Memory(app), "tcb"}
      [] bootAt = "made" -> {"pcb", Memory(app), "tcb", "handle"}
      [] OTHER -> {}

\* Before the first launch
Early == {"preInit", "mmuInit", "screen"}

\* In the course of a launch
Launching == {"stack", "pt", "tcb", "handle", "noHandle", "noTcb", "noPcb", "made", "failed", "swapped"}

\* Types
BootTypeOK ==
    /\ gROMInfo \in Roms
    /\ bootAt \in Early \cup Launching \cup {"launch", "up", "crash"}
    /\ app \in 1 .. Len(Privileged) + 1
    /\ bootAt \in Launching => app \in App
    /\ allocated \subseteq Kind \X App
    /\ pcbList \in Seq(App) /\ ready \in Seq(App)
    /\ pidCounter \in Nat

\* The page table of the kernel is made once.
SpaceMade ==
    IF bootAt \in {"preInit", "mmuInit"}
    THEN crpt = NoTable /\ mmuKeys = {} /\ krnPT = << >>
    ELSE crpt # NoTable =>
            /\ krnPT = KernelSpace(gROMInfo, KrnPageCount(gROMInfo))
            /\ krnPages = 0 .. KrnPageCount(gROMInfo) - 1

\* Before the first launch there is no process.
NothingYet ==
    bootAt \in Early => app = 1 /\ allocated = {} /\ pcbList = << >> /\ ready = << >> /\ pidCounter = 0

\* Outside the time in which it fills the stack of a new process, the kernel is
\* on its own page table, with its own key.
KernelsOwn ==
    bootAt \notin {"preInit", "mmuInit", "crash", "swapped"} => crpt = KrnTable /\ mmuKeys = {"KRN"}

\* While it does, it has the key of user code, to get at that stack.
Swapped == bootAt = "swapped" => mmuKeys = {"KRN", "USR"} /\ crpt # NoTable

\* What the processes of the list are made of
Made == UNION {PartsOf(a) : a \in Launched}

\* What is allocated belongs to a process of the list, or to the launch under way;
\* the thread of that one is ready from the moment it has its handle.
LaunchExact ==
    bootAt \notin {"crash"} =>
        /\ allocated = Made \cup (Parts \X {app})
        /\ {ready[i] : i \in 1 .. Len(ready)} =
              {a \in Launched : ~Privileged[a]} \cup (IF bootAt = "made" THEN {app} ELSE {})
        /\ Ascending(pcbList) /\ Ascending(ready)
        /\ pidCounter = Len(pcbList)
        /\ \A a \in Launched : a < app \/ (a = app /\ bootAt = "swapped")
        /\ bootAt = "stack" => Privileged[app]
        /\ bootAt = "pt" => ~Privileged[app]

\* The inductive invariant
BootInv == BootTypeOK /\ SpaceMade /\ NothingYet /\ KernelsOwn /\ Swapped /\ LaunchExact

-----------------------------------------------------------------------------
(***************************************************************************)
(* The kernel's part of a page table                                       *)
(***************************************************************************)

\* pageAlign, and the pages of addresses in order
LEMMA PageDivision ==
    ASSUME NEW a \in Nat, NEW b \in Nat
    PROVE  /\ KrnPageOf(a) \in Nat
           /\ a < b /\ b % KrnPageSize = 0 => KrnPageOf(a) < KrnPageOf(b)
           /\ a <= b => KrnPageOf(a) <= KrnPageOf(b)
           /\ KrnAlign(a) \in Nat /\ a <= KrnAlign(a) /\ KrnAlign(a) % KrnPageSize = 0
<1>1. KrnPageSize \in Nat \ {0}
  BY BootAssumption
<1>2. ASSUME NEW p \in Nat \ {0} PROVE a \div p \in Nat
  OBVIOUS
<1>3. ASSUME NEW p \in Nat \ {0}, a < b, b % p = 0 PROVE a \div p < b \div p
  BY <1>3
<1>4. ASSUME NEW p \in Nat \ {0}, a <= b PROVE a \div p <= b \div p
  BY <1>4
<1>5. ASSUME NEW p \in Nat \ {0} PROVE a <= ((a + p - 1) \div p) * p
  OBVIOUS
<1>6. ASSUME NEW p \in Nat \ {0}, NEW q \in Nat PROVE q * p \in Nat /\ (q * p) % p = 0
  OBVIOUS
<1>7. ASSUME NEW p \in Nat \ {0} PROVE (a + p - 1) \div p \in Nat
  OBVIOUS
<1> QED BY <1>1, <1>2, <1>3, <1>4, <1>5, <1>6, <1>7 DEF KrnPageOf, KrnAlign

\* What mmu_calcKrnPTLayout reads of a ROM image
Rom == [textSize : Nat, rodataAddr : Nat, rodataSize : Nat, dataAddr : Nat,
        dataSize : Nat, dataSharedAddr : Nat, dataSharedSize : Nat]

\* The sections of the kernel's part of a page table
Sections == {"text", "rodata", "data", "oriShared", "stack", "shared", "heap", "io"}

\* The three sections that may share a page
Together == {"stack", "shared", "heap"}

\* Where the sections of a ROM image are
LEMMA LayoutOrder ==
    ASSUME NEW r \in Roms
    PROVE  LET l == KrnLayout(r)
           IN  /\ DOMAIN l = Sections
               /\ \A n \in Sections : l[n].begin \in Nat /\ l[n].end \in Nat /\ l[n].begin <= l[n].end
               /\ l["text"].end <= l["rodata"].begin /\ l["rodata"].begin % KrnPageSize = 0
               /\ l["rodata"].end <= l["data"].begin /\ l["data"].begin % KrnPageSize = 0
               /\ l["data"].end <= l["oriShared"].begin /\ l["oriShared"].begin % KrnPageSize = 0
               /\ l["oriShared"].end <= l["stack"].begin /\ l["stack"].begin % KrnPageSize = 0
               /\ l["stack"].end = l["shared"].begin
               /\ l["shared"].end = l["heap"].begin
               /\ l["heap"].end <= l["io"].begin /\ l["io"].begin % KrnPageSize = 0
<1> DEFINE l == KrnLayout(r)
<1>1. r \in Rom
  BY BootAssumption DEF Rom
<1>2. /\ r.textSize <= r.rodataAddr /\ r.rodataAddr + r.rodataSize <= r.dataAddr
      /\ r.dataAddr + r.dataSize <= r.dataSharedAddr
      /\ r.rodataAddr % KrnPageSize = 0 /\ r.dataAddr % KrnPageSize = 0
      /\ r.dataSharedAddr % KrnPageSize = 0
  BY BootAssumption
<1>3. KrnStackSize \in Nat /\ KrnHeapPages * KrnPageSize \in Nat /\ KrnIoPages * KrnPageSize \in Nat
  BY BootAssumption
<1> DEFINE oriEnd == r.dataSharedAddr + r.dataSharedSize
           stackBegin == KrnAlign(oriEnd)
           heapBegin == stackBegin + KrnStackSize + r.dataSharedSize
           heapEnd == KrnAlign(heapBegin + KrnHeapPages * KrnPageSize)
           ioBegin == KrnAlign(heapEnd)
<1>4. /\ r.textSize \in Nat /\ r.rodataAddr \in Nat /\ r.rodataSize \in Nat /\ r.dataAddr \in Nat
      /\ r.dataSize \in Nat /\ r.dataSharedAddr \in Nat /\ r.dataSharedSize \in Nat
  BY <1>1 DEF Rom
<1>5. oriEnd \in Nat /\ stackBegin \in Nat /\ oriEnd <= stackBegin /\ stackBegin % KrnPageSize = 0
  BY <1>4, PageDivision
<1>6. heapBegin \in Nat
  BY <1>3, <1>4, <1>5
<1>7. heapEnd \in Nat /\ heapBegin <= heapEnd
  <2> HIDE DEF heapBegin
  <2>1. heapBegin + KrnHeapPages * KrnPageSize \in Nat
    BY <1>3, <1>6
  <2>2. heapBegin + KrnHeapPages * KrnPageSize <= heapEnd /\ heapEnd \in Nat
    BY <2>1, PageDivision
  <2> QED BY <1>3, <1>6, <2>2
<1>8. ioBegin \in Nat /\ heapEnd <= ioBegin /\ ioBegin % KrnPageSize = 0
  BY <1>7, PageDivision
<1>9. /\ l["text"] = [begin |-> 0, end |-> 0 + r.textSize]
      /\ l["rodata"] = [begin |-> r.rodataAddr, end |-> r.rodataAddr + r.rodataSize]
      /\ l["data"] = [begin |-> r.dataAddr, end |-> r.dataAddr + r.dataSize]
      /\ l["oriShared"] = [begin |-> r.dataSharedAddr, end |-> oriEnd]
      /\ l["stack"] = [begin |-> stackBegin, end |-> stackBegin + KrnStackSize]
      /\ l["shared"] = [begin |-> stackBegin + KrnStackSize, end |-> heapBegin]
      /\ l["heap"] = [begin |-> heapBegin, end |-> heapEnd]
      /\ l["io"] = [begin |-> ioBegin, end |-> ioBegin + KrnIoPages * KrnPageSize]
      /\ DOMAIN l = Sections
  BY DEF KrnLayout, Section, Sections
<1> HIDE DEF l, oriEnd, stackBegin, heapBegin, heapEnd, ioBegin
<1>10. stackBegin + KrnStackSize <= heapBegin
  BY <1>3, <1>4, <1>5 DEF heapBegin
<1>11. \A n \in Sections : l[n].begin \in Nat /\ l[n].end \in Nat /\ l[n].begin <= l[n].end
  BY <1>3, <1>4, <1>5, <1>6, <1>7, <1>8, <1>9, <1>10 DEF Sections, oriEnd
<1>12. /\ l["text"].end <= l["rodata"].begin /\ l["rodata"].begin % KrnPageSize = 0
       /\ l["rodata"].end <= l["data"].begin /\ l["data"].begin % KrnPageSize = 0
       /\ l["data"].end <= l["oriShared"].begin /\ l["oriShared"].begin % KrnPageSize = 0
       /\ l["oriShared"].end <= l["stack"].begin /\ l["stack"].begin % KrnPageSize = 0
       /\ l["stack"].end = l["shared"].begin
       /\ l["shared"].end = l["heap"].begin
       /\ l["heap"].end <= l["io"].begin /\ l["io"].begin % KrnPageSize = 0
  BY <1>2, <1>4, <1>5, <1>8, <1>9
<1> QED BY <1>9, <1>11, <1>12 DEF l

\* Sections that share a page have the same bits.
LEMMA SharedPages ==
    ASSUME NEW r \in Roms, NEW m \in Sections, NEW n \in Sections, NEW p,
           p \in PagesOf(KrnLayout(r)[m]), p \in PagesOf(KrnLayout(r)[n])
    PROVE  m = n \/ (m \in Together /\ n \in Together)
<1> DEFINE l == KrnLayout(r)
           First(k) == l[k].begin
           End(k) == l[k].end
<1>1. /\ \A k \in Sections : First(k) \in Nat /\ End(k) \in Nat /\ First(k) <= End(k)
      /\ End("text") <= First("rodata") /\ First("rodata") % KrnPageSize = 0
      /\ End("rodata") <= First("data") /\ First("data") % KrnPageSize = 0
      /\ End("data") <= First("oriShared") /\ First("oriShared") % KrnPageSize = 0
      /\ End("oriShared") <= First("stack") /\ First("stack") % KrnPageSize = 0
      /\ End("stack") = First("shared")
      /\ End("shared") = First("heap")
      /\ End("heap") <= First("io") /\ First("io") % KrnPageSize = 0
  BY LayoutOrder
<1>2. ASSUME NEW k \in Sections, p \in PagesOf(l[k])
      PROVE  p \in KrnPageOf(First(k)) .. KrnPageOf(End(k) - 1) /\ First(k) < End(k)
             /\ End(k) - 1 \in Nat
  <2>1. First(k) # End(k) /\ p \in KrnPageOf(First(k)) .. KrnPageOf(End(k) - 1)
    BY <1>2 DEF PagesOf
  <2>2. First(k) \in Nat /\ End(k) \in Nat /\ First(k) <= End(k)
    BY <1>1
  <2> HIDE DEF First, End
  <2> QED BY <2>1, <2>2
<1> HIDE DEF First, End, l
<1>3. \A k \in Sections : KrnPageOf(First(k)) \in Nat
  BY <1>1, PageDivision
<1>4. p \in Int
  BY <1>2, <1>3 DEF l
<1>5. ASSUME NEW j \in Sections, NEW k \in Sections, NEW b \in Sections,
             p \in PagesOf(l[j]), p \in PagesOf(l[k]),
             End(j) <= First(b), First(b) % KrnPageSize = 0, First(b) <= First(k)
      PROVE  FALSE
  <2>1. /\ p <= KrnPageOf(End(j) - 1) /\ End(j) - 1 \in Nat /\ KrnPageOf(End(j) - 1) \in Nat
        /\ KrnPageOf(First(k)) <= p /\ KrnPageOf(First(k)) \in Nat
    <3>1. p \in KrnPageOf(First(j)) .. KrnPageOf(End(j) - 1) /\ End(j) - 1 \in Nat
      BY <1>2, <1>5
    <3>2. p \in KrnPageOf(First(k)) .. KrnPageOf(End(k) - 1) /\ End(k) - 1 \in Nat
      BY <1>2, <1>5
    <3>3. KrnPageOf(End(j) - 1) \in Nat /\ KrnPageOf(First(k)) \in Nat
      BY <1>1, <3>1, PageDivision
    <3> QED BY <3>1, <3>2, <3>3
  <2>2. End(j) - 1 < First(b) /\ First(b) \in Nat /\ First(k) \in Nat
    BY <1>1, <1>5, <2>1
  <2>3. KrnPageOf(End(j) - 1) < KrnPageOf(First(b)) /\ KrnPageOf(First(b)) \in Nat
    BY <1>5, <2>1, <2>2, PageDivision
  <2>4. KrnPageOf(First(b)) <= KrnPageOf(First(k))
    BY <1>5, <2>2, PageDivision
  <2> QED BY <1>4, <2>1, <2>3, <2>4
<1>6. /\ First("rodata") <= First("data") /\ First("data") <= First("oriShared")
      /\ First("oriShared") <= First("stack") /\ First("stack") <= First("shared")
      /\ First("shared") <= First("heap") /\ First("heap") <= First("io")
  BY <1>1 DEF Sections
<1>7. ASSUME NEW j \in Sections, NEW k \in Sections, p \in PagesOf(l[j]), p \in PagesOf(l[k])
      PROVE  /\ j = "text" => k = "text"
             /\ j = "rodata" => k \in {"text", "rodata"}
             /\ j = "data" => k \in {"text", "rodata", "data"}
             /\ j = "oriShared" => k \in {"text", "rodata", "data", "oriShared"}
             /\ j \in Together => k # "io"
  <2>1. /\ First("rodata") \in Nat /\ First("data") \in Nat /\ First("oriShared") \in Nat
        /\ First("stack") \in Nat /\ First("shared") \in Nat /\ First("heap") \in Nat /\ First("io") \in Nat
        /\ End("stack") \in Nat /\ End("shared") \in Nat /\ End("heap") \in Nat
    BY <1>1 DEF Sections
  <2>2. \A n2 \in Sections \ {"text"} : First("rodata") <= First(n2)
    BY <1>6, <2>1 DEF Sections
  <2>3. \A n2 \in Sections \ {"text", "rodata"} : First("data") <= First(n2)
    BY <1>6, <2>1 DEF Sections
  <2>4. \A n2 \in Sections \ {"text", "rodata", "data"} : First("oriShared") <= First(n2)
    BY <1>6, <2>1 DEF Sections
  <2>5. \A n2 \in Sections \ {"text", "rodata", "data", "oriShared"} : First("stack") <= First(n2)
    BY <1>6, <2>1 DEF Sections
  <2>6. j \in Together => End(j) <= First("io")
    <3>1. First("heap") <= End("heap") /\ First("shared") <= End("shared")
      BY <1>1 DEF Sections
    <3> QED BY <1>1, <2>1, <3>1 DEF Together
  <2> QED BY <1>1, <1>5, <1>7, <2>1, <2>2, <2>3, <2>4, <2>5, <2>6 DEF Sections
<1>8. p \in PagesOf(l[m]) /\ p \in PagesOf(l[n])
  BY DEF l
<1> QED BY <1>7, <1>8 DEF Sections, Together

\* The first sections that have been set are right in the table pt.
Exact(pt, r, n, names) ==
    /\ DOMAIN pt = 0 .. n - 1
    /\ \A p \in 0 .. n - 1 :
        LET here == {m \in names : p \in PagesOf(KrnLayout(r)[m])}
        IN  /\ here = {} => pt[p] = [page |-> 0, bits |-> {}]
            /\ \A m \in here : pt[p] = [page |-> p, bits |-> Bits[m]]

\* Those three have the same bits.
LEMMA TogetherBits == \A m, n \in Together : Bits[m] = Bits[n]
BY DEF Together, Bits

\* mmu_setKrnRange for one more section: the pages it shares with earlier ones
\* have the same bits already.
LEMMA MappedExact ==
    ASSUME NEW r \in Roms, NEW n \in Nat, NEW names \in SUBSET Sections, NEW k \in Sections,
           NEW pt, Exact(pt, r, n, names)
    PROVE  Exact(Mapped(pt, KrnLayout(r), k), r, n, names \cup {k})
<1> DEFINE s == KrnLayout(r)[k]
           new == Mapped(pt, KrnLayout(r), k)
<1>1. s.begin \in Nat
  BY LayoutOrder
<1>2. KrnPageOf(s.begin) \in Nat
  BY <1>1, PageDivision
<1>3. DOMAIN pt = 0 .. n - 1
  BY DEF Exact
<1>4. /\ DOMAIN new = 0 .. n - 1
      /\ \A p \in 0 .. n - 1 :
            new[p] = IF p \in PagesOf(s)
                     THEN [page |-> KrnPageOf(s.begin) + (p - KrnPageOf(s.begin)), bits |-> Bits[k]]
                     ELSE pt[p]
  BY <1>3 DEF Mapped, KrnRangeSet
<1> HIDE DEF new
<1>5. ASSUME NEW p \in 0 .. n - 1, p \in PagesOf(s) PROVE new[p] = [page |-> p, bits |-> Bits[k]]
  <2>1. KrnPageOf(s.begin) + (p - KrnPageOf(s.begin)) = p
    BY <1>2
  <2> QED BY <1>4, <1>5, <2>1
<1>6. ASSUME NEW p \in 0 .. n - 1, NEW m \in names \cup {k}, p \in PagesOf(KrnLayout(r)[m])
      PROVE  new[p] = [page |-> p, bits |-> Bits[m]]
  <2>1. CASE p \in PagesOf(s)
    <3>1. m = k \/ (m \in Together /\ k \in Together)
      BY <1>6, <2>1, SharedPages
    <3>2. Bits[m] = Bits[k]
      BY <3>1, TogetherBits
    <3> QED BY <1>5, <2>1, <3>2
  <2>2. CASE p \notin PagesOf(s)
    <3>1. m # k
      BY <1>6, <2>2
    <3>2. pt[p] = [page |-> p, bits |-> Bits[m]]
      BY <1>6, <3>1 DEF Exact
    <3> QED BY <1>4, <2>2, <3>2
  <2> QED BY <2>1, <2>2
<1>7. ASSUME NEW p \in 0 .. n - 1, \A m \in names \cup {k} : p \notin PagesOf(KrnLayout(r)[m])
      PROVE  new[p] = [page |-> 0, bits |-> {}]
  <2>1. p \notin PagesOf(s)
    BY <1>7
  <2>2. pt[p] = [page |-> 0, bits |-> {}]
    BY <1>7 DEF Exact
  <2> QED BY <1>4, <2>1, <2>2
<1>8. Exact(new, r, n, names \cup {k})
  BY <1>4, <1>6, <1>7 DEF Exact
<1> QED BY <1>8 DEF new

\* Each page of each section is mapped to itself, with the section's bits.
LEMMA KernelSpaceRight ==
    ASSUME NEW r \in Roms, NEW n \in Nat
    PROVE  Exact(KernelSpace(r, n), r, n, Sections)
<1> DEFINE l == KrnLayout(r)
           clear == [p \in 0 .. n - 1 |-> [page |-> 0, bits |-> {}]]
           t1 == Mapped(clear, l, "text")
           t2 == Mapped(t1, l, "rodata")
           t3 == Mapped(t2, l, "data")
           t4 == Mapped(t3, l, "oriShared")
           t5 == Mapped(t4, l, "stack")
           t6 == Mapped(t5, l, "shared")
           t7 == Mapped(t6, l, "heap")
           t8 == Mapped(t7, l, "io")
<1>0. KernelSpace(r, n) = t8
  BY DEF KernelSpace
<1>e. Exact(clear, r, n, {})
  BY DEF Exact
<1> HIDE DEF clear
<1>1. Exact(t1, r, n, {"text"})
  <2>1. Exact(t1, r, n, {} \cup {"text"})
    BY <1>e, MappedExact DEF Sections
  <2> QED BY <2>1
<1> HIDE DEF t1
<1>2. Exact(t2, r, n, {"text"} \cup {"rodata"})
  BY <1>1, MappedExact DEF Sections
<1> HIDE DEF t2
<1>3. Exact(t3, r, n, ({"text"} \cup {"rodata"}) \cup {"data"})
  BY <1>2, MappedExact DEF Sections
<1> HIDE DEF t3
<1> DEFINE n4 == (({"text"} \cup {"rodata"}) \cup {"data"}) \cup {"oriShared"}
<1>4. Exact(t4, r, n, n4)
  BY <1>3, MappedExact DEF Sections
<1> HIDE DEF t4
<1>5. Exact(t5, r, n, n4 \cup {"stack"})
  BY <1>4, MappedExact DEF Sections
<1> HIDE DEF t5
<1>6. Exact(t6, r, n, (n4 \cup {"stack"}) \cup {"shared"})
  BY <1>5, MappedExact DEF Sections
<1> HIDE DEF t6
<1> DEFINE n7 == ((n4 \cup {"stack"}) \cup {"shared"}) \cup {"heap"}
<1>7. Exact(t7, r, n, n7)
  BY <1>6, MappedExact DEF Sections
<1> HIDE DEF t7
<1>8. Exact(t8, r, n, n7 \cup {"io"})
  BY <1>7, MappedExact DEF Sections
<1>9. n7 \cup {"io"} = Sections
  BY DEF Sections
<1> HIDE DEF t8, n7
<1> QED BY <1>0, <1>8, <1>9

\* The table that the kernel uses is right.
LEMMA SpaceExact == ASSUME BootTypeOK, SpaceMade PROVE KernelSpaceExact
<1> SUFFICES ASSUME crpt # NoTable PROVE KernelSpaceExact
  BY DEF KernelSpaceExact
<1> DEFINE n == KrnPageCount(gROMInfo)
           l == KrnLayout(gROMInfo)
<1>1. gROMInfo \in Roms
  BY DEF BootTypeOK
<1>2. krnPT = KernelSpace(gROMInfo, n) /\ krnPages = 0 .. n - 1
  BY DEF SpaceMade
<1>3. DOMAIN l = Sections /\ l["io"].end \in Nat
  BY <1>1, LayoutOrder DEF Sections
<1>4. n \in Nat
  BY <1>3, PageDivision DEF KrnPageCount
<1> HIDE DEF n
<1>5. Exact(krnPT, gROMInfo, n, Sections)
  BY <1>1, <1>2, <1>4, KernelSpaceRight
<1> QED BY <1>2, <1>3, <1>5 DEF KernelSpaceExact, Exact

-----------------------------------------------------------------------------
(***************************************************************************)
(* The list of processes and the ready queue                               *)
(***************************************************************************)

\* The threads of a queue
Threads(q) == {q[i] : i \in 1 .. Len(q)}

\* A process that is launched comes behind those that were.
LEMMA AppendAscending ==
    ASSUME NEW q \in Seq(App), NEW a \in App, Ascending(q), \A b \in Threads(q) : b < a
    PROVE  /\ Append(q, a) \in Seq(App) /\ Ascending(Append(q, a))
           /\ Threads(Append(q, a)) = Threads(q) \cup {a}
           /\ Len(Append(q, a)) = Len(q) + 1
<1> DEFINE s == Append(q, a)
<1>0. App \subseteq Nat
  BY BootAssumption DEF App
<1>1. /\ s \in Seq(App) /\ Len(s) = Len(q) + 1 /\ Len(q) \in Nat
      /\ \A i \in 1 .. Len(q) : s[i] = q[i]
      /\ s[Len(s)] = a
      /\ \A i \in 1 .. Len(q) : q[i] \in App
  OBVIOUS
<1> HIDE DEF s
<1>2. ASSUME NEW i \in 1 .. Len(s), NEW j \in 1 .. Len(s), i < j PROVE s[i] < s[j]
  <2>1. i \in 1 .. Len(q) /\ q[i] \in Threads(q)
    BY <1>1, <1>2 DEF Threads
  <2>2. CASE j \in 1 .. Len(q)
    BY <1>1, <1>2, <2>1, <2>2 DEF Ascending
  <2>3. CASE j = Len(s)
    BY <1>1, <2>1, <2>3
  <2> QED BY <1>1, <2>2, <2>3
<1>3. Threads(s) = Threads(q) \cup {a}
  <2>1. Threads(s) \subseteq Threads(q) \cup {a}
    <3> SUFFICES ASSUME NEW i \in 1 .. Len(s) PROVE s[i] \in Threads(q) \cup {a}
      BY DEF Threads
    <3>1. CASE i \in 1 .. Len(q)
      <4>1. s[i] = q[i]
        BY <1>1, <3>1
      <4> QED BY <3>1, <4>1 DEF Threads
    <3>2. CASE i = Len(s)
      BY <1>1, <3>2
    <3> QED BY <1>1, <3>1, <3>2
  <2>2. ASSUME NEW i \in 1 .. Len(q) PROVE q[i] \in Threads(s)
    <3>1. i \in 1 .. Len(s) /\ s[i] = q[i]
      BY <1>1
    <3> QED BY <3>1 DEF Threads
  <2>3. a \in Threads(s)
    <3>1. Len(s) \in 1 .. Len(s) /\ s[Len(s)] = a
      BY <1>1
    <3>2. PICK i \in 1 .. Len(s) : s[i] = a
      BY <3>1
    <3> QED BY <3>2 DEF Threads
  <2> QED BY <2>1, <2>2, <2>3 DEF Threads
<1> QED BY <1>1, <1>2, <1>3 DEF Ascending, s

\* The thread that is in the queue last leaves it.
LEMMA WithoutLast ==
    ASSUME NEW q \in Seq(App), NEW a \in App, Ascending(q), a \in Threads(q),
           \A b \in Threads(q) : b <= a
    PROVE  /\ Without(q, a) \in Seq(App) /\ Ascending(Without(q, a))
           /\ Threads(Without(q, a)) = Threads(q) \ {a}
<1> DEFINE k == CHOOSE i \in 1 .. Len(q) : q[i] = a /\ \A j \in 1 .. i - 1 : q[j] # a
           s == [i \in 1 .. Len(q) - 1 |-> IF i < k THEN q[i] ELSE q[i + 1]]
<1>0. App \subseteq Nat /\ Len(q) \in Nat /\ \A i \in 1 .. Len(q) : q[i] \in App
  BY BootAssumption DEF App
<1>1. PICK m \in 1 .. Len(q) : q[m] = a
  BY DEF Threads
<1>2. \A i \in 1 .. Len(q) : q[i] \in Threads(q)
  BY DEF Threads
<1>3. m = Len(q)
  <2>1. Len(q) \in 1 .. Len(q) /\ m <= Len(q)
    BY <1>0, <1>1
  <2>2. q[Len(q)] <= a
    BY <1>2, <2>1
  <2>3. m < Len(q) => a < q[Len(q)]
    BY <1>1, <2>1 DEF Ascending
  <2>4. q[Len(q)] \in Nat /\ a \in Nat
    BY <1>0, <2>1
  <2> QED BY <1>0, <2>1, <2>2, <2>3, <2>4
<1>4. \A i \in 1 .. Len(q) : i # Len(q) => q[i] < a
  BY <1>0, <1>1, <1>3 DEF Ascending
<1>5. k = Len(q)
  <2>1. Len(q) \in 1 .. Len(q) /\ q[Len(q)] = a /\ \A j \in 1 .. Len(q) - 1 : q[j] # a
    BY <1>0, <1>1, <1>3, <1>4
  <2>2. k \in 1 .. Len(q) /\ q[k] = a /\ \A j \in 1 .. k - 1 : q[j] # a
    <3>1. \E i \in 1 .. Len(q) : q[i] = a /\ \A j \in 1 .. i - 1 : q[j] # a
      BY <2>1
    <3> QED BY <3>1
  <2> HIDE DEF k
  <2> QED BY <1>0, <1>4, <2>1, <2>2
<1>6. Without(q, a) = s
  BY <1>1 DEF Without
<1> HIDE DEF k
<1>7. s = [i \in 1 .. Len(q) - 1 |-> q[i]]
  BY <1>0, <1>5
<1> HIDE DEF s
<1>8. s \in Seq(App) /\ Len(s) = Len(q) - 1 /\ \A i \in 1 .. Len(s) : s[i] = q[i]
  <2>1. Len(q) - 1 \in Nat
    BY <1>0, <1>1, <1>3
  <2>2. \A i \in 1 .. Len(q) - 1 : q[i] \in App
    BY <1>0
  <2>3. s \in [1 .. Len(q) - 1 -> App]
    BY <1>7, <2>2
  <2>4. s \in Seq(App) /\ Len(s) = Len(q) - 1
    BY <2>1, <2>3
  <2> QED BY <1>7, <2>4
<1>9. Ascending(s)
  BY <1>0, <1>8 DEF Ascending
<1>10. Threads(s) = Threads(q) \ {a}
  <2>1. ASSUME NEW i \in 1 .. Len(s) PROVE s[i] \in Threads(q) \ {a}
    <3>1. i \in 1 .. Len(q) /\ i # Len(q) /\ s[i] = q[i]
      BY <1>0, <1>8
    <3>2. q[i] < a /\ q[i] \in Nat /\ a \in Nat
      BY <1>0, <1>4, <3>1
    <3> QED BY <1>2, <3>1, <3>2
  <2>2. ASSUME NEW i \in 1 .. Len(q), q[i] # a PROVE q[i] \in Threads(s)
    <3>1. i \in 1 .. Len(s) /\ s[i] = q[i]
      BY <1>0, <1>1, <1>3, <1>8, <2>2
    <3> QED BY <3>1 DEF Threads
  <2> QED BY <2>1, <2>2 DEF Threads
<1> QED BY <1>6, <1>8, <1>9, <1>10

-----------------------------------------------------------------------------
(***************************************************************************)
(* The inductive step                                                      *)
(***************************************************************************)

\* The first step of krn_init
LEMMA BootInitInv == BootInit => BootInv
<1> SUFFICES ASSUME BootInit PROVE BootInv
  OBVIOUS
<1>1. 1 \in 1 .. Len(Privileged) + 1
  BY BootAssumption
<1>2. BootTypeOK
  BY <1>1 DEF BootInit, BootTypeOK, Early, Launching
<1>3. SpaceMade /\ NothingYet /\ KernelsOwn /\ Swapped
  BY DEF BootInit, SpaceMade, NothingYet, KernelsOwn, Swapped
<1>4. Launched = {} /\ Parts = {}
  BY DEF BootInit, Launched, Parts
<1>5. LaunchExact
  BY <1>4 DEF BootInit, LaunchExact, Ascending, Made
<1> QED BY <1>2, <1>3, <1>5 DEF BootInv

\* The start: the page table, and the screen
LEMMA MmuStartKeeps ==
    ASSUME BootInv, MmuPreInit \/ MmuInit \/ \E size \in ScreenSizes : AllocIO(size)
    PROVE  BootInv'
<1>1. /\ bootAt \in Early /\ UNCHANGED <<gROMInfo, pcbList, ready, pidCounter, app, allocated>>
      /\ bootAt' \in {"mmuInit", "screen", "launch", "crash"}
  BY DEF MmuPreInit, MmuInit, AllocIO, procVars, Early
<1>2. app = 1 /\ allocated = {} /\ pcbList = << >> /\ ready = << >> /\ pidCounter = 0
  BY <1>1 DEF BootInv, NothingYet
<1>3. BootTypeOK'
  BY <1>1 DEF BootInv, BootTypeOK, Early, Launching
<1>4. NothingYet'
  BY <1>1, <1>2 DEF NothingYet
<1>5. SpaceMade' /\ KernelsOwn' /\ Swapped'
  <2>1. CASE MmuPreInit
    BY <2>1 DEF MmuPreInit, BootInv, SpaceMade, KernelsOwn, Swapped
  <2>2. CASE MmuInit
    BY <2>2 DEF MmuInit, BootInv, SpaceMade, KernelsOwn, Swapped, KrnTable, NoTable
  <2>3. CASE \E size \in ScreenSizes : AllocIO(size)
    BY <2>3 DEF AllocIO, BootInv, SpaceMade, KernelsOwn, Swapped
  <2> QED BY <2>1, <2>2, <2>3
<1>6. Launched' = {} /\ Parts' = {}
  BY <1>1, <1>2 DEF Launched, Parts
<1>7. LaunchExact'
  BY <1>1, <1>2, <1>6 DEF LaunchExact, Ascending, Made
<1> QED BY <1>3, <1>4, <1>5, <1>7 DEF BootInv

\* A step of a launch that allocates, or frees, parts of the process
LEMMA PartsKeep ==
    ASSUME BootInv, bootAt \in (Launching \cup {"launch"}) \ {"swapped", "made"}, app \in App,
           UNCHANGED <<pcbList, ready, pidCounter, app, krnVars, crpt, mmuKeys>>,
           bootAt' \in (Launching \cup {"launch"}) \ {"swapped", "made"},
           NEW add \in SUBSET Kind, NEW drop \in SUBSET Kind,
           allocated' = (allocated \cup (add \X {app})) \ (drop \X {app}),
           Parts' = (Parts \cup add) \ drop,
           bootAt' = "stack" => Privileged[app],
           bootAt' = "pt" => ~Privileged[app]
    PROVE  BootInv'
<1>1. BootTypeOK /\ SpaceMade /\ KernelsOwn /\ LaunchExact
  BY DEF BootInv
<1>2. BootTypeOK'
  BY <1>1 DEF BootTypeOK, krnVars
<1>3. SpaceMade' /\ NothingYet' /\ KernelsOwn' /\ Swapped'
  BY <1>1 DEF SpaceMade, NothingYet, KernelsOwn, Swapped, krnVars, Launching, Early
<1>4. Launched' = Launched
  BY DEF Launched
<1>5. /\ \A a \in Launched : a # app
      /\ allocated = Made \cup (Parts \X {app})
  <2>1. \A a \in Launched : a < app
    BY <1>1 DEF LaunchExact, Launching
  <2>2. app \in Nat
    BY <1>1, BootAssumption DEF BootTypeOK
  <2> QED BY <1>1, <2>1, <2>2 DEF LaunchExact, Launching
<1>6. \A a \in Launched, k \in Kind : <<k, app>> \notin PartsOf(a)
  BY <1>5 DEF PartsOf
<1>7. \A k \in Kind : <<k, app>> \notin Made
  BY <1>6 DEF Made
<1>8. allocated' = Made \cup (Parts' \X {app})
  <2> DEFINE A == Parts \X {app}
             B == add \X {app}
             C == drop \X {app}
             D == Parts' \X {app}
  <2>1. Made \ C = Made
    <3> SUFFICES ASSUME NEW x \in Made PROVE x \notin drop \X {app}
      OBVIOUS
    <3>1. \A k \in drop : x # <<k, app>>
      BY <1>7
    <3> QED BY <3>1
  <2>2. (A \cup B) \ C = D
    OBVIOUS
  <2>3. allocated = Made \cup A /\ allocated' = (allocated \cup B) \ C
    BY <1>5
  <2> HIDE DEF A, B, C, D
  <2>4. allocated' = Made \cup D
    BY <2>1, <2>2, <2>3
  <2> QED BY <2>4 DEF D
<1>9. LaunchExact'
  <2>1. Made' = Made
    BY <1>4 DEF Made
  <2>2. allocated' = Made' \cup (Parts' \X {app'})
    BY <1>8, <2>1
  <2> QED BY <1>1, <1>4, <2>2 DEF LaunchExact, Launching, Ascending
<1> QED BY <1>2, <1>3, <1>9 DEF BootInv

\* A part is had, or it is not.
LEMMA ObtainsKeeps ==
    ASSUME BootInv, bootAt \in (Launching \cup {"launch"}) \ {"swapped", "made"}, app \in App,
           UNCHANGED <<pcbList, ready, pidCounter, app, krnVars, crpt, mmuKeys>>,
           bootAt' \in (Launching \cup {"launch"}) \ {"swapped", "made"},
           NEW kind \in Kind,
           \/ allocated' = allocated \cup {<<kind, app>>} /\ Parts' = Parts \cup {kind}
           \/ allocated' = allocated /\ Parts' = Parts,
           bootAt' = "stack" => Privileged[app],
           bootAt' = "pt" => ~Privileged[app]
    PROVE  BootInv'
<1>1. CASE allocated' = allocated \cup {<<kind, app>>} /\ Parts' = Parts \cup {kind}
  <2>1. allocated' = (allocated \cup ({kind} \X {app})) \ ({} \X {app})
    BY <1>1
  <2>2. Parts' = (Parts \cup {kind}) \ {}
    BY <1>1
  <2> QED BY <2>1, <2>2, PartsKeep
<1>2. CASE allocated' = allocated /\ Parts' = Parts
  <2>1. allocated' = (allocated \cup ({} \X {app})) \ ({} \X {app}) /\ Parts' = (Parts \cup {}) \ {}
    BY <1>2
  <2> QED BY <2>1, PartsKeep
<1> QED BY <1>1, <1>2

\* Parts are given back.
LEMMA FreesKeeps ==
    ASSUME BootInv, bootAt \in (Launching \cup {"launch"}) \ {"swapped", "made"}, app \in App,
           UNCHANGED <<pcbList, ready, pidCounter, app, krnVars, crpt, mmuKeys>>,
           bootAt' \in Launching \ {"swapped", "made", "stack", "pt"},
           NEW kinds \in SUBSET Kind,
           allocated' = allocated \ (kinds \X {app}), Parts' = Parts \ kinds
    PROVE  BootInv'
<1>1. allocated' = (allocated \cup ({} \X {app})) \ (kinds \X {app}) /\ Parts' = (Parts \cup {}) \ kinds
  OBVIOUS
<1> QED BY <1>1, PartsKeep

\* The launch of a process, up to the handle of its thread, and its failure
LEMMA LaunchKeeps ==
    ASSUME BootInv,
           \/ Launch \/ LaunchStack \/ LaunchPT \/ LaunchTcb \/ LaunchNoHandle
           \/ LaunchNoTcb \/ LaunchNoPcb
    PROVE  BootInv'
<1> USE DEF LaunchStep, Obtains, Frees, procVars
<1>0. BootTypeOK /\ LaunchExact
  BY DEF BootInv
<1>m. Memory(app) \in {"stack", "pt"}
  BY DEF Memory
<1>1. CASE Launch
  <2>1. /\ bootAt = "launch" /\ bootAt' \in {"stack", "pt", "failed"}
        /\ bootAt' = "stack" => Privileged[app]
        /\ bootAt' = "pt" => ~Privileged[app]
        /\ \/ allocated' = allocated \cup {<<"pcb", app>>} /\ bootAt' \in {"stack", "pt"}
           \/ allocated' = allocated /\ bootAt' = "failed"
    BY <1>1 DEF Launch
  <2>2. Parts = {} /\ Parts' = IF bootAt' = "failed" THEN {} ELSE {"pcb"}
    BY <2>1 DEF Parts
  <2> QED BY <1>1, <2>1, <2>2, ObtainsKeeps DEF Launch, Launching, Kind
<1>2. CASE LaunchStack \/ LaunchPT
  <2>1. /\ bootAt \in {"stack", "pt"} /\ bootAt' \in {"tcb", "noPcb"} /\ app \in App /\ app' = app
        /\ \/ allocated' = allocated \cup {<<Memory(app), app>>} /\ bootAt' = "tcb"
           \/ allocated' = allocated /\ bootAt' = "noPcb"
    BY <1>0, <1>2 DEF LaunchStack, LaunchPT, LaunchExact, BootTypeOK, Launching, Memory
  <2>2. Parts = {"pcb"} /\ Parts' = IF bootAt' = "noPcb" THEN {"pcb"} ELSE {"pcb"} \cup {Memory(app)}
    BY <2>1 DEF Parts, Memory
  <2> QED BY <1>2, <1>m, <2>1, <2>2, ObtainsKeeps DEF LaunchStack, LaunchPT, Launching, Kind
<1>3. CASE LaunchTcb
  <2>1. /\ bootAt = "tcb" /\ bootAt' \in {"handle", "noTcb"} /\ app \in App /\ app' = app
        /\ \/ allocated' = allocated \cup {<<"tcb", app>>} /\ bootAt' = "handle"
           \/ allocated' = allocated /\ bootAt' = "noTcb"
    BY <1>0, <1>3 DEF LaunchTcb, BootTypeOK, Launching
  <2>2. /\ Parts = {"pcb", Memory(app)}
        /\ Parts' = IF bootAt' = "noTcb" THEN {"pcb", Memory(app)} ELSE {"pcb", Memory(app)} \cup {"tcb"}
    BY <2>1 DEF Parts, Memory
  <2> QED BY <1>3, <2>1, <2>2, ObtainsKeeps DEF LaunchTcb, Launching, Kind
<1>4. CASE LaunchNoHandle
  <2>1. /\ bootAt = "noHandle" /\ bootAt' = "noTcb" /\ app \in App /\ app' = app
        /\ allocated' = allocated \ ({"tcb"} \X {app})
    BY <1>0, <1>4 DEF LaunchNoHandle, BootTypeOK, Launching
  <2>2. Parts = {"pcb", Memory(app), "tcb"} /\ Parts' = {"pcb", Memory(app)}
    BY <2>1 DEF Parts, Memory
  <2>3. Parts' = Parts \ {"tcb"}
    BY <1>m, <2>2
  <2> QED BY <1>4, <2>1, <2>3, FreesKeeps DEF LaunchNoHandle, Launching, Kind
<1>5. CASE LaunchNoTcb
  <2>1. /\ bootAt = "noTcb" /\ bootAt' = "noPcb" /\ app \in App /\ app' = app
        /\ allocated' = allocated \ ({Memory(app)} \X {app})
    BY <1>0, <1>5 DEF LaunchNoTcb, BootTypeOK, Launching, Memory
  <2>2. Parts = {"pcb", Memory(app)} /\ Parts' = {"pcb"}
    BY <2>1 DEF Parts, Memory
  <2>3. Parts' = Parts \ {Memory(app)} /\ {Memory(app)} \in SUBSET Kind
    BY <1>m, <2>2 DEF Kind
  <2> QED BY <1>5, <2>1, <2>3, FreesKeeps DEF LaunchNoTcb, Launching
<1>6. CASE LaunchNoPcb
  <2>1. /\ bootAt = "noPcb" /\ bootAt' = "failed" /\ app \in App /\ app' = app
        /\ allocated' = allocated \ ({"pcb"} \X {app})
    BY <1>0, <1>6 DEF LaunchNoPcb, BootTypeOK, Launching
  <2>2. Parts = {"pcb"} /\ Parts' = {}
    BY <2>1 DEF Parts
  <2>3. Parts' = Parts \ {"pcb"}
    BY <2>2
  <2> QED BY <1>6, <2>1, <2>3, FreesKeeps DEF LaunchNoPcb, Launching, Kind
<1> QED BY <1>1, <1>2, <1>3, <1>4, <1>5, <1>6

\* The thread gets its handle, and is ready.
LEMMA HandleKeeps == ASSUME BootInv, LaunchHandle PROVE BootInv'
<1>0. BootTypeOK /\ SpaceMade /\ KernelsOwn /\ LaunchExact
  BY DEF BootInv
<1>1. /\ bootAt = "handle" /\ bootAt' \in {"made", "noHandle"} /\ app \in App
      /\ UNCHANGED <<krnVars, app, pcbList, pidCounter, crpt, mmuKeys>>
      /\ IF bootAt' = "made" THEN allocated' = allocated \cup {<<"handle", app>>}
                                  /\ ready' = Append(ready, app)
         ELSE allocated' = allocated /\ ready' = ready
  BY <1>0 DEF LaunchHandle, LaunchStep, Obtains, BootTypeOK, Launching
<1>2. CASE bootAt' = "noHandle"
  <2>1. UNCHANGED ready
    BY <1>1, <1>2
  <2>2. Parts' = Parts
    BY <1>1, <1>2 DEF Parts, Memory
  <2> QED BY <1>1, <1>2, <2>1, <2>2, ObtainsKeeps DEF Launching, Kind
<1>3. CASE bootAt' = "made"
  <2>1. \A a \in Launched : a < app
    BY <1>0, <1>1 DEF LaunchExact
  <2>2. Threads(ready) = {a \in Launched : ~Privileged[a]}
    BY <1>0, <1>1 DEF LaunchExact, Threads
  <2>3. \A b \in Threads(ready) : b < app
    BY <2>1, <2>2
  <2>4. ready \in Seq(App) /\ Ascending(ready)
    BY <1>0, <1>1 DEF BootTypeOK, LaunchExact
  <2>5. /\ ready' \in Seq(App) /\ Ascending(ready')
        /\ Threads(ready') = {a \in Launched : ~Privileged[a]} \cup {app}
    BY <1>1, <1>3, <2>2, <2>3, <2>4, AppendAscending
  <2>6. Launched' = Launched /\ Made' = Made
    BY <1>1 DEF Launched, Made
  <2>7. Parts = {"pcb", Memory(app), "tcb"} /\ Parts' = {"pcb", Memory(app), "tcb", "handle"}
    BY <1>1, <1>3 DEF Parts, Memory
  <2>8. allocated' = Made' \cup (Parts' \X {app'})
    <3>1. allocated = Made \cup (Parts \X {app})
      BY <1>0, <1>1 DEF LaunchExact
    <3>2. Parts' \X {app} = (Parts \X {app}) \cup {<<"handle", app>>}
      BY <2>7
    <3> QED BY <1>1, <1>3, <2>6, <3>1, <3>2
  <2>9. BootTypeOK'
    BY <1>0, <1>1, <1>3, <2>5 DEF BootTypeOK, Launching, Kind, krnVars
  <2>10. SpaceMade' /\ NothingYet' /\ KernelsOwn' /\ Swapped'
    BY <1>0, <1>1, <1>3 DEF SpaceMade, NothingYet, KernelsOwn, Swapped, krnVars, Early
  <2>11. LaunchExact'
    BY <1>0, <1>1, <1>3, <2>1, <2>5, <2>6, <2>8 DEF LaunchExact, Threads, Ascending
  <2> QED BY <2>9, <2>10, <2>11 DEF BootInv
<1> QED BY <1>1, <1>2, <1>3

\* The process is in the list.
LEMMA MadeKeeps == ASSUME BootInv, LaunchMade PROVE BootInv'
<1>0. BootTypeOK /\ SpaceMade /\ KernelsOwn /\ LaunchExact
  BY DEF BootInv
<1>1. /\ bootAt = "made" /\ bootAt' = "swapped" /\ app \in App
      /\ UNCHANGED <<krnVars, app, allocated>>
      /\ ready' = IF Privileged[app] THEN Without(ready, app) ELSE ready
      /\ pidCounter' = pidCounter + 1 /\ pcbList' = Append(pcbList, app)
      /\ crpt' = IF Privileged[app] THEN KrnTable ELSE app
      /\ mmuKeys' = mmuKeys \cup {"USR"}
  BY <1>0 DEF LaunchMade, LaunchStep, BootTypeOK, Launching
<1>2. /\ \A a \in Launched : a < app
      /\ Threads(ready) = {a \in Launched : ~Privileged[a]} \cup {app}
      /\ pcbList \in Seq(App) /\ ready \in Seq(App) /\ Ascending(pcbList) /\ Ascending(ready)
      /\ Launched = Threads(pcbList) /\ pidCounter = Len(pcbList)
      /\ App \subseteq Nat \ {0} /\ app \in Nat
  <2>1. Launched = Threads(pcbList)
    BY DEF Launched, Threads
  <2>2. Threads(ready) = {a \in Launched : ~Privileged[a]} \cup {app}
    BY <1>0, <1>1 DEF LaunchExact, Threads
  <2>3. App \subseteq Nat \ {0} /\ app \in Nat
    BY <1>1, BootAssumption DEF App
  <2> QED BY <1>0, <1>1, <2>1, <2>2, <2>3 DEF LaunchExact, BootTypeOK
<1>3. /\ pcbList' \in Seq(App) /\ Ascending(pcbList') /\ Threads(pcbList') = Launched \cup {app}
      /\ Len(pcbList') = Len(pcbList) + 1
  BY <1>1, <1>2, AppendAscending
<1>4. Launched' = Launched \cup {app}
  BY <1>3 DEF Launched, Threads
<1>5. /\ ready' \in Seq(App) /\ Ascending(ready')
      /\ Threads(ready') = {a \in Launched' : ~Privileged[a]}
  <2>1. CASE Privileged[app]
    <3>1. \A b \in Threads(ready) : b <= app
      <4>1. pcbList \in Seq(App)
        BY <1>2
      <4>2. \A i \in 1 .. Len(pcbList) : pcbList[i] \in App
        BY <4>1
      <4>3. \A b \in Launched : b \in App
        BY <4>2 DEF Launched
      <4>4. ASSUME NEW b \in Threads(ready) PROVE b <= app
        <5>1. b \in Launched \/ b = app
          BY <1>2
        <5>2. b \in Launched => b < app /\ b \in Nat
          BY <1>2, <4>3
        <5>3. app \in Nat
          BY <1>2
        <5> QED BY <5>1, <5>2, <5>3
      <4> QED BY <4>4
    <3>2. /\ ready' \in Seq(App) /\ Ascending(ready') /\ Threads(ready') = Threads(ready) \ {app}
      BY <1>1, <1>2, <2>1, <3>1, WithoutLast
    <3>3. app \notin Launched
      BY <1>2
    <3> QED BY <1>2, <1>4, <2>1, <3>2, <3>3
  <2>2. CASE ~Privileged[app]
    <3>1. ready' = ready /\ {a \in Launched' : ~Privileged[a]} = {a \in Launched : ~Privileged[a]} \cup {app}
      BY <1>1, <1>4, <2>2
    <3> QED BY <1>2, <3>1
  <2> QED BY <2>1, <2>2
<1>6. Made' = Made \cup PartsOf(app)
  BY <1>4 DEF Made
<1>7. allocated' = Made' \cup (Parts' \X {app'})
  <2>1. Parts = {"pcb", Memory(app), "tcb", "handle"} /\ Parts' = {}
    BY <1>1 DEF Parts, Memory
  <2>2. PartsOf(app) = Parts \X {app} /\ Parts' \X {app'} = {}
    BY <2>1 DEF PartsOf, Memory
  <2>3. allocated = Made \cup (Parts \X {app})
    BY <1>0, <1>1 DEF LaunchExact
  <2> QED BY <1>1, <1>6, <2>2, <2>3
<1>8. BootTypeOK'
  BY <1>0, <1>1, <1>2, <1>3, <1>5 DEF BootTypeOK, Launching, krnVars
<1>9. SpaceMade' /\ NothingYet' /\ KernelsOwn' /\ Swapped'
  <2>1. crpt = KrnTable /\ mmuKeys = {"KRN"}
    BY <1>0, <1>1 DEF KernelsOwn
  <2>2. crpt' # NoTable
    BY <1>1, <1>2 DEF KrnTable, NoTable
  <2> QED BY <1>0, <1>1, <2>1, <2>2
          DEF SpaceMade, NothingYet, KernelsOwn, Swapped, krnVars, Early, KrnTable, NoTable
<1>10. LaunchExact'
  <2>1. pidCounter' = Len(pcbList')
    BY <1>1, <1>2, <1>3
  <2>2. \A a \in Launched' : a < app' \/ (a = app' /\ bootAt' = "swapped")
    BY <1>1, <1>2, <1>4
  <2>3. {ready'[i] : i \in 1 .. Len(ready')} =
          {a \in Launched' : ~Privileged[a]} \cup (IF bootAt' = "made" THEN {app'} ELSE {})
    BY <1>1, <1>5 DEF Threads
  <2> QED BY <1>1, <1>3, <1>5, <1>7, <2>1, <2>2, <2>3 DEF LaunchExact, Ascending
<1> QED BY <1>8, <1>9, <1>10 DEF BootInv

\* The next launch, after a success or a failure, and the end
LEMMA EndsKeeps == ASSUME BootInv, LaunchEnds \/ LaunchFailed \/ Booted PROVE BootInv'
<1>0. BootTypeOK /\ SpaceMade /\ KernelsOwn /\ Swapped /\ LaunchExact
  BY DEF BootInv
<1>1. /\ UNCHANGED <<gROMInfo, krnPT, krnPages, pcbList, ready, pidCounter, allocated>>
      /\ Launched' = Launched /\ Made' = Made
  BY DEF LaunchEnds, LaunchFailed, Booted, krnVars, procVars, Launched, Made
<1>2. Len(Privileged) \in Nat /\ App = 1 .. Len(Privileged) /\ app \in Nat
  BY <1>0, BootAssumption DEF App, BootTypeOK
<1>3. CASE LaunchEnds \/ (LaunchFailed /\ bootAt' = "launch")
  <2>1. /\ bootAt \in {"swapped", "failed"} /\ bootAt' = "launch" /\ app' = app + 1 /\ app \in App
        /\ crpt' = KrnTable /\ mmuKeys' = {"KRN"}
    BY <1>0, <1>3 DEF LaunchEnds, LaunchFailed, BootTypeOK, Launching, KernelsOwn, Swapped
  <2>2. Parts = {} /\ Parts' = {}
    BY <2>1 DEF Parts
  <2>3. BootTypeOK'
    BY <1>0, <1>1, <1>2, <2>1 DEF BootTypeOK, Launching
  <2>4. SpaceMade' /\ NothingYet' /\ KernelsOwn' /\ Swapped'
    BY <1>0, <1>1, <1>3, <2>1
       DEF SpaceMade, NothingYet, KernelsOwn, Swapped, Early, LaunchEnds, LaunchFailed, krnVars, KrnTable, NoTable
  <2>5. allocated' = Made' \cup (Parts' \X {app'})
    BY <1>0, <1>1, <2>1, <2>2 DEF LaunchExact
  <2>6. \A a \in Launched' : a < app'
    <3>1. \A a \in Launched : a \in Nat
      BY <1>0, <1>2 DEF BootTypeOK, Launched
    <3> QED BY <1>0, <1>1, <1>2, <2>1, <3>1 DEF LaunchExact
  <2>7. LaunchExact'
    BY <1>0, <1>1, <2>1, <2>5, <2>6 DEF LaunchExact, Ascending
  <2> QED BY <2>3, <2>4, <2>7 DEF BootInv
<1>4. CASE LaunchFailed /\ bootAt' = "crash"
  <2>1. BootTypeOK'
    BY <1>0, <1>1, <1>4 DEF LaunchFailed, BootTypeOK, Launching
  <2> QED BY <1>0, <1>1, <1>4, <2>1
          DEF LaunchFailed, BootInv, SpaceMade, NothingYet, KernelsOwn, Swapped, LaunchExact, Early, krnVars
<1>5. CASE Booted
  <2>1. BootTypeOK'
    BY <1>0, <1>1, <1>5 DEF Booted, BootTypeOK, Launching
  <2>2. Parts = {} /\ Parts' = {}
    BY <1>5 DEF Booted, Parts
  <2>3. SpaceMade' /\ NothingYet' /\ KernelsOwn' /\ Swapped'
    BY <1>0, <1>1, <1>5 DEF Booted, SpaceMade, NothingYet, KernelsOwn, Swapped, Early, krnVars
  <2>4. LaunchExact'
    <3>1. bootAt = "launch" /\ bootAt' = "up" /\ UNCHANGED <<app, allocated, pcbList, ready, pidCounter>>
      BY <1>5 DEF Booted, procVars
    <3> QED BY <1>0, <1>1, <2>2, <3>1 DEF LaunchExact, Ascending
  <2> QED BY <2>1, <2>3, <2>4 DEF BootInv
<1> QED BY <1>3, <1>4, <1>5 DEF LaunchEnds, LaunchFailed, LaunchStep

\* Every step keeps the invariant.
LEMMA BootStep == ASSUME BootInv, [BootNext]_bootVars PROVE BootInv'
<1>1. CASE UNCHANGED bootVars
  <2>1. /\ UNCHANGED <<gROMInfo, krnPT, krnPages, crpt, mmuKeys>>
        /\ UNCHANGED <<bootAt, app, allocated, pcbList, ready, pidCounter>>
    BY <1>1 DEF bootVars, krnVars, procVars
  <2>2. BootTypeOK' /\ SpaceMade' /\ NothingYet' /\ KernelsOwn' /\ Swapped'
    BY <2>1 DEF BootInv, BootTypeOK, SpaceMade, NothingYet, KernelsOwn, Swapped
  <2>3. Parts' = Parts /\ Made' = Made /\ Launched' = Launched
    <3>1. Made' = Made /\ Launched' = Launched
      BY <2>1 DEF Made, Launched
    <3>2. Parts' = Parts
      BY <2>1, Zenon DEF Parts, Memory
    <3> QED BY <3>1, <3>2
  <2>4. Ascending(pcbList)' = Ascending(pcbList) /\ Ascending(ready)' = Ascending(ready)
    BY <2>1 DEF Ascending
  <2>5. LaunchExact'
    BY <2>1, <2>3, <2>4 DEF BootInv, LaunchExact
  <2> QED BY <2>2, <2>5 DEF BootInv
<1> QED BY <1>1, MmuStartKeeps, LaunchKeeps, HandleKeeps, MadeKeeps, EndsKeeps DEF BootNext

\* The invariant of the kernel's start holds in every reachable state.
THEOREM BootInvariant == BootSpec => []BootInv
<1>1. BootInv /\ [BootNext]_bootVars => BootInv'
  BY BootStep
<1> QED BY <1>1, BootInitInv, PTL DEF BootSpec

\* For any ROM image that fits what mmu_calcKrnPTLayout asserts and any page size:
\* each page of the kernel is mapped to itself with the bits of its section, and
\* user code gets at the text and the read-only data alone.
THEOREM KernelSpaceIsExact == BootSpec => []KernelSpaceExact
<1>1. BootInv => KernelSpaceExact
  BY SpaceExact DEF BootInv
<1> QED BY <1>1, BootInvariant, PTL

\* For any number of processes that the kernel starts with: whatever allocation
\* of a launch fails, nothing of the process is left, and one that succeeds
\* leaves all of it.
THEOREM LaunchIsAllOrNothing == BootSpec => []LaunchedOrNothing
<1>1. ASSUME BootInv PROVE LaunchedOrNothing
  <2>1. bootAt \in {"launch", "up"} => Parts = {}
    BY DEF Parts
  <2> QED BY <1>1, <2>1 DEF BootInv, LaunchExact, LaunchedOrNothing, KernelsOwn, Made
<1> QED BY <1>1, BootInvariant, PTL

-----------------------------------------------------------------------------
(***************************************************************************)
(* The screen: cells and places                                            *)
(***************************************************************************)

\* The sizes of the screen and of the logo
LEMMA Dimensions ==
    /\ Width \in Nat \ {0, 1} /\ Height \in Nat \ {0}
    /\ LogoWidth \in 1 .. Width /\ LogoHeight \in 1 .. Height - 1
  BY ScreenAssumption

\* A number is put together from a quotient and a remainder in one way.
LEMMA Division ==
    ASSUME NEW w \in Nat \ {0}, NEW y \in Int, NEW x \in 0 .. w - 1
    PROVE  /\ y * w + x \in Int
           /\ (y * w + x) \div w = y
           /\ (y * w + x) % w = x
<1> DEFINE k == y * w + x
           q == k \div w
           r == k % w
<1>1. k \in Int /\ q \in Int /\ r \in 0 .. w - 1 /\ k = q * w + r
  OBVIOUS
<1>2. (y - q) * w = r - x /\ y - q \in Int
  BY <1>1
<1>3. ASSUME NEW d \in Int, d * w < w, d * w > -w PROVE d = 0
  <2>1. d >= 1 => d * w >= w
    OBVIOUS
  <2>2. d <= -1 => d * w <= -w
    OBVIOUS
  <2> QED BY <1>3, <2>1, <2>2
<1>4. r - x < w /\ r - x > -w
  BY <1>1
<1>5. y - q = 0
  <2> DEFINE d == y - q
  <2> HIDE DEF q, r, k
  <2>1. d \in Int /\ d * w < w /\ d * w > -w
    BY <1>2, <1>4
  <2> HIDE DEF d
  <2>2. d = 0
    BY <1>3, <2>1
  <2> QED BY <2>2 DEF d
<1> HIDE DEF q, r, k
<1>6. k \in Int /\ q = y /\ r = x
  BY <1>1, <1>2, <1>5
<1> QED BY <1>6 DEF q, r, k

\* Multiples are in the order of the numbers.
LEMMA Multiples ==
    ASSUME NEW w \in Nat \ {0}, NEW m \in Int, NEW n \in Int
    PROVE  /\ m * w \in Int
           /\ m <= n => m * w <= n * w
           /\ m < n => m * w + w <= n * w
           /\ (m + n) * w = m * w + n * w
           /\ (m - n) * w = m * w - n * w
<1>1. ASSUME NEW k \in Nat PROVE k * w >= 0 /\ (k > 0 => k * w >= w)
  OBVIOUS
<1>2. /\ (m + n) * w = m * w + n * w
      /\ (m - n) * w = m * w - n * w
      /\ (n - m) * w = n * w - m * w
      /\ m * w \in Int /\ n * w \in Int
  OBVIOUS
<1>3. m <= n => (n - m) * w >= 0
  BY <1>1
<1>4. m < n => (n - m) * w >= w
  BY <1>1
<1> QED BY <1>2, <1>3, <1>4

\* The same for the width of the screen
LEMMA Rows ==
    ASSUME NEW m \in Int, NEW n \in Int
    PROVE  /\ m * Width \in Int
           /\ m <= n => m * Width <= n * Width
           /\ m < n => m * Width + Width <= n * Width
           /\ (m + n) * Width = m * Width + n * Width
           /\ (m - n) * Width = m * Width - n * Width
<1>1. Width \in Nat \ {0}
  BY Dimensions
<1> QED BY <1>1, Multiples

\* A grid of h rows of w cells
LEMMA Grid ==
    ASSUME NEW w \in Nat \ {0}, NEW h \in Nat
    PROVE  /\ \A x \in 0 .. w - 1 : \A y \in 0 .. h - 1 : y * w + x \in 0 .. h * w - 1
           /\ \A k \in 0 .. h * w - 1 : k \div w \in 0 .. h - 1 /\ k % w \in 0 .. w - 1
<1>1. ASSUME NEW x \in 0 .. w - 1, NEW y \in 0 .. h - 1 PROVE y * w + x \in 0 .. h * w - 1
  <2>1. y * w >= 0 /\ y * w \in Int /\ h * w \in Int
    <3>1. 0 * w = 0
      OBVIOUS
    <3>2. 0 * w <= y * w
      BY Multiples
    <3> QED BY <3>1, <3>2, Multiples
  <2>2. y * w + w <= h * w
    BY Multiples
  <2> QED BY <2>1, <2>2
<1>2. ASSUME NEW k \in 0 .. h * w - 1 PROVE k \div w \in 0 .. h - 1 /\ k % w \in 0 .. w - 1
  <2> DEFINE q == k \div w
             r == k % w
  <2>1. k \in Nat /\ k < h * w /\ h * w \in Int
    BY Multiples
  <2>2. q \in Int /\ r \in 0 .. w - 1 /\ k = q * w + r
    BY <2>1
  <2> HIDE DEF q, r
  <2>3. q >= 0
    <3> SUFFICES ASSUME q < 0 PROVE FALSE
      BY <2>2
    <3>1. q * w + w <= 0 * w /\ q * w \in Int
      BY <2>2, Multiples
    <3>2. 0 * w = 0
      OBVIOUS
    <3> QED BY <2>1, <2>2, <3>1, <3>2
  <2>4. q < h
    <3> SUFFICES ASSUME h <= q PROVE FALSE
      BY <2>2
    <3>1. h * w <= q * w /\ q * w \in Int
      BY <2>2, Multiples
    <3> QED BY <2>1, <2>2, <3>1
  <2> QED BY <2>2, <2>3, <2>4 DEF q, r
<1> QED BY <1>1, <1>2

\* Where the place x, y is in the memory of the screen.
LEMMA CellOfPlace ==
    ASSUME NEW x \in 0 .. Width - 1, NEW y \in Int
    PROVE  /\ XYPtr(x, y) \in Int
           /\ XYPtr(x, y) \div Width = y
           /\ XYPtr(x, y) % Width = x
           /\ y \in 0 .. Height - 1 => XYPtr(x, y) \in 0 .. ScreenEnd - 1
<1>1. Width \in Nat \ {0} /\ Height \in Nat \ {0} /\ Height * Width \in Int
  BY Dimensions, Rows
<1>2. XYPtr(x, y) \in Int /\ XYPtr(x, y) \div Width = y /\ XYPtr(x, y) % Width = x
  BY <1>1, Division DEF XYPtr
<1>3. y \in 0 .. Height - 1 => XYPtr(x, y) \in 0 .. ScreenEnd - 1
  <2>1. ScreenEnd = Height * Width
    BY <1>1 DEF XYPtr, ScreenEnd
  <2> QED BY <1>1, <2>1, Grid DEF XYPtr
<1> QED BY <1>2, <1>3

\* The place of a cell of the screen.
LEMMA PlaceOfCell ==
    ASSUME NEW k \in 0 .. ScreenEnd - 1
    PROVE  /\ k \div Width \in 0 .. Height - 1
           /\ k % Width \in 0 .. Width - 1
           /\ XYPtr(k % Width, k \div Width) = k
<1>1. Width \in Nat \ {0} /\ Height \in Nat \ {0} /\ Height * Width \in Int
  BY Dimensions, Rows
<1>2. ScreenEnd = Height * Width
  BY <1>1 DEF ScreenEnd, XYPtr
<1>3. k \div Width \in 0 .. Height - 1 /\ k % Width \in 0 .. Width - 1
  BY <1>1, <1>2, Grid
<1> DEFINE q == k \div Width
           r == k % Width
<1>4. k \in Nat
  BY <1>1, <1>2
<1>5. q \in Int /\ r \in 0 .. Width - 1 /\ k = q * Width + r
  BY <1>1, <1>4
<1> HIDE DEF q, r
<1>6. XYPtr(r, q) = k
  BY <1>5 DEF XYPtr
<1> QED BY <1>3, <1>6 DEF q, r

\* The memory of the screen, and the cell behind it.
IsScreen(buf) == buf = [i \in 0 .. ScreenEnd |-> buf[i]]

\* What the memory shows.
Image(buf) == [p \in Shown!Places |-> buf[XYPtr(p[2], p[1])]]

\* A pair is made of its two parts.
LEMMA Pairs ==
    ASSUME NEW S, NEW T, NEW p \in S \X T
    PROVE  p[1] \in S /\ p[2] \in T /\ p = <<p[1], p[2]>>
  OBVIOUS

\* The rows r are what the memory b shows.
Pictures(b, r) ==
    /\ \A x \in 0 .. Width - 1 : \A y \in 0 .. Height - 1 : b[XYPtr(x, y)] = r[<<y, x>>]
    /\ r = [p \in Shown!Places |-> r[p]]

\* Such rows are the image of the memory.
LEMMA SameImage ==
    ASSUME NEW b, NEW r, Pictures(b, r)
    PROVE  Image(b) = r
<1>0. /\ \A x \in 0 .. Width - 1 : \A y \in 0 .. Height - 1 : b[XYPtr(x, y)] = r[<<y, x>>]
      /\ r = [p \in Shown!Places |-> r[p]]
  BY DEF Pictures
<1>1. \A p \in Shown!Places : p[2] \in 0 .. Width - 1 /\ p[1] \in 0 .. Height - 1 /\ p = <<p[1], p[2]>>
  <2> DEFINE S == 0 .. Height - 1
             T == 0 .. Width - 1
  <2>1. Shown!Places = S \X T
    BY DEF Shown!Places
  <2> HIDE DEF S, T
  <2>2. \A p \in S \X T : p[1] \in S /\ p[2] \in T /\ p = <<p[1], p[2]>>
    BY Pairs
  <2>3. \A p \in Shown!Places : p[1] \in S /\ p[2] \in T /\ p = <<p[1], p[2]>>
    BY <2>1, <2>2
  <2> QED BY <2>3 DEF S, T
<1>2. \A p \in Shown!Places : b[XYPtr(p[2], p[1])] = r[p]
  BY <1>0, <1>1
<1> QED BY <1>0, <1>2 DEF Image

\* The cells that the code computes with
LEMMA ScreenEndIs ==
    /\ ScreenEnd \in Nat /\ Width \in Nat \ {0, 1} /\ Height \in Nat \ {0}
    /\ XYPtr(0, 0) = 0
    /\ \A n \in Int : XYPtr(0, n) = n * Width /\ n * Width \in Int
    /\ \A n \in Int : XYPtr(Width - 1, n) = n * Width + (Width - 1)
    /\ ScreenEnd = Height * Width
    /\ ScreenEnd = Width * Height
    /\ XYPtr(0, Height - 1) = ScreenEnd - Width
    /\ XYPtr(Width - 1, Height - 1) = ScreenEnd - 1
    /\ XYPtr(Width, Height - 1) = ScreenEnd
    /\ Width <= ScreenEnd
    /\ \A n \in Int : XYPtr(0, Height - n) = ScreenEnd - n * Width
<1>1. Width \in Nat \ {0, 1} /\ Height \in Nat \ {0}
  BY Dimensions
<1>2. /\ 0 * Width = 0 /\ 1 * Width = Width /\ Height * Width = Width * Height
      /\ \A n \in Int : n * Width \in Int
  BY <1>1
<1>3. 1 * Width <= Height * Width
  BY <1>1, Rows
<1>4. \A n \in Int : (Height - n) * Width = Height * Width - n * Width
  BY <1>1, Rows
<1>5. (Height - 1) * Width = Height * Width - Width
  BY <1>2, <1>4
<1>6. /\ XYPtr(0, 0) = 0 /\ ScreenEnd = Height * Width
      /\ \A n \in Int : XYPtr(0, n) = n * Width /\ XYPtr(Width - 1, n) = n * Width + (Width - 1)
  BY <1>1, <1>2 DEF XYPtr, ScreenEnd
<1>7. XYPtr(Width, Height - 1) = (Height - 1) * Width + Width
  BY DEF XYPtr
<1>8. XYPtr(Width, Height - 1) = ScreenEnd /\ XYPtr(Width - 1, Height - 1) = ScreenEnd - 1
  BY <1>1, <1>2, <1>5, <1>6, <1>7
<1>9. XYPtr(0, Height - 1) = ScreenEnd - Width
  BY <1>1, <1>2, <1>5, <1>6
<1>10. \A n \in Int : XYPtr(0, Height - n) = ScreenEnd - n * Width
  BY <1>1, <1>4, <1>6
<1>11. ScreenEnd \in Nat /\ Width <= ScreenEnd
  BY <1>1, <1>2, <1>3, <1>6
<1> QED BY <1>1, <1>2, <1>6, <1>8, <1>9, <1>10, <1>11

\* The rows have moved up by n, and those that came in are empty.
ScrolledTo(b, r, n) ==
    /\ IsScreen(r)
    /\ Image(r) = Shown!MovedUp(Image(b), n)
    /\ screenLib = "boot" => r[ScreenEnd] = b[ScreenEnd]

\* scroll, of both libraries: memmove, then memset
LEMMA ScrolledIs ==
    ASSUME NEW b, IsScreen(b), NEW n \in 0 .. Height
    PROVE  ScrolledTo(b, Scrolled(b, n), n)
<1> DEFINE r == Scrolled(b, n)
           m == LinesMoved(b, n)
           to == IF screenLib = "boot" THEN ScreenEnd - 1 ELSE ScreenEnd
           w == n * Width
<1>1. /\ ScreenEnd \in Nat /\ Width \in Nat \ {0, 1} /\ Height \in Nat \ {0} /\ w \in Int
      /\ XYPtr(0, n) = w /\ XYPtr(0, Height - n) = ScreenEnd - w
      /\ XYPtr(Width - 1, Height - 1) = ScreenEnd - 1 /\ XYPtr(Width, Height - 1) = ScreenEnd
      /\ Width * Height = ScreenEnd
  BY ScreenEndIs
<1>2. DOMAIN b = 0 .. ScreenEnd
  BY DEF IsScreen
<1>3. m = [i \in 0 .. ScreenEnd |-> IF i < ScreenEnd - w THEN b[i + w] ELSE b[i]]
  BY <1>1, <1>2 DEF LinesMoved
<1>4. DOMAIN m = 0 .. ScreenEnd
  BY <1>3
<1>5. n # 0 => r = [i \in 0 .. ScreenEnd |-> IF i \in ScreenEnd - w .. to THEN Nothing ELSE m[i]]
  <2> HIDE DEF m
  <2> QED BY <1>1, <1>4 DEF Scrolled, BootScrolled, HwscrScrolled, AreaCleared, m
<1>6. n = 0 => r = b
  BY DEF Scrolled
<1> HIDE DEF r, m, w
<1>7. IsScreen(r)
  <2>1. n # 0 => r = [i \in 0 .. ScreenEnd |-> r[i]]
    BY <1>5, Zenon
  <2> QED BY <1>6, <2>1 DEF IsScreen
<1>8. screenLib = "boot" => r[ScreenEnd] = b[ScreenEnd]
  <2> SUFFICES ASSUME screenLib = "boot", n # 0 PROVE r[ScreenEnd] = b[ScreenEnd]
    BY <1>6
  <2>1. to = ScreenEnd - 1 /\ ScreenEnd \in 0 .. ScreenEnd /\ ScreenEnd \notin ScreenEnd - w .. to
    BY <1>1
  <2>2. r[ScreenEnd] = m[ScreenEnd]
    BY <1>5, <2>1
  <2>3. ~(ScreenEnd < ScreenEnd - w)
    <3>1. w >= 0
      <4>1. 0 * Width <= n * Width /\ 0 * Width = 0
        BY <1>1, Rows
      <4> QED BY <4>1 DEF w
    <3> QED BY <1>1, <3>1
  <2> QED BY <1>3, <2>1, <2>2, <2>3
<1>9. Image(r) = Shown!MovedUp(Image(b), n)
  <2> DEFINE u == Shown!MovedUp(Image(b), n)
  <2>1. u = [p \in Shown!Places |-> IF p[1] + n < Height THEN Image(b)[<<p[1] + n, p[2]>>] ELSE Nothing]
    BY DEF Shown!MovedUp
  <2>2. ASSUME NEW x \in 0 .. Width - 1, NEW y \in 0 .. Height - 1 PROVE r[XYPtr(x, y)] = u[<<y, x>>]
    <3> DEFINE i == XYPtr(x, y)
    <3>1. <<y, x>> \in Shown!Places
      BY DEF Shown!Places
    <3>2. i \in 0 .. ScreenEnd - 1 /\ i = y * Width + x /\ y * Width \in Int
      BY CellOfPlace, Rows DEF XYPtr
    <3>3. CASE y + n < Height
      <4>1. <<y + n, x>> \in Shown!Places
        BY <3>3, <1>1 DEF Shown!Places
      <4>2. u[<<y, x>>] = b[XYPtr(x, y + n)]
        <5>1. u[<<y, x>>] = Image(b)[<<y + n, x>>]
          BY <2>1, <3>1, <3>3
        <5> QED BY <4>1, <5>1 DEF Image
      <4>3. XYPtr(x, y + n) = i + w
        <5>1. (y + n) * Width = y * Width + n * Width
          BY Rows
        <5> QED BY <3>2, <5>1, <1>1 DEF XYPtr, w
      <4>4. i < ScreenEnd - w /\ i \in 0 .. ScreenEnd
        <5>1. XYPtr(x, y + n) \in 0 .. ScreenEnd - 1
          <6>1. y + n \in 0 .. Height - 1
            BY <3>3, <1>1
          <6> QED BY <6>1, CellOfPlace
        <5> QED BY <1>1, <3>2, <4>3, <5>1
      <4>5. CASE n = 0
        <5>1. XYPtr(x, y + n) = i
          BY <4>5
        <5> QED BY <1>6, <4>2, <4>5, <5>1
      <4>6. CASE n # 0
        <5> HIDE DEF i
        <5>1. i \notin ScreenEnd - w .. to
          BY <1>1, <4>4
        <5>2. r[i] = m[i] /\ m[i] = b[i + w]
          BY <1>3, <1>5, <4>4, <4>6, <5>1
        <5> QED BY <4>2, <4>3, <5>2 DEF i
      <4> QED BY <4>5, <4>6
    <3>4. CASE ~(y + n < Height)
      <4>1. n # 0
        BY <3>4, <1>1
      <4>2. u[<<y, x>>] = Nothing
        BY <2>1, <3>1, <3>4
      <4>3. i >= ScreenEnd - w
        <5>1. Height - n <= y
          BY <3>4, <1>1
        <5>2. (Height - n) * Width <= y * Width
          BY <5>1, <1>1, Rows
        <5>3. (Height - n) * Width = Height * Width - n * Width /\ Height * Width = ScreenEnd
          BY <1>1, Rows, ScreenEndIs
        <5> QED BY <1>1, <3>2, <5>2, <5>3 DEF w
      <4>4. i \in ScreenEnd - w .. to /\ i \in 0 .. ScreenEnd
        <5> HIDE DEF i
        <5> QED BY <1>1, <3>2, <4>3
      <4> QED BY <1>5, <4>1, <4>2, <4>4
    <3> QED BY <3>3, <3>4
  <2>3. u = [p \in Shown!Places |-> u[p]]
    BY <2>1, Zenon
  <2> HIDE DEF u
  <2>4. Pictures(r, u)
    BY <2>2, <2>3 DEF Pictures
  <2>5. Image(r) = u
    BY <2>4, SameImage
  <2> QED BY <2>5 DEF u
<1> QED BY <1>7, <1>8, <1>9 DEF ScrolledTo, r

-----------------------------------------------------------------------------
(***************************************************************************)
(* The screen: what a character does                                       *)
(***************************************************************************)

\* The place of a cell
PlaceAt(k) == <<k \div Width, k % Width>>

\* It is the place that the cell was computed for.
LEMMA PlaceIs ==
    ASSUME NEW x \in 0 .. Width - 1, NEW y \in Int
    PROVE  PlaceAt(XYPtr(x, y)) = <<y, x>>
  BY CellOfPlace DEF PlaceAt

\* r is b, with a character in the cell k.
WrittenTo(b, r, k, ch) ==
    /\ IsScreen(r)
    /\ Image(r) = [Image(b) EXCEPT ![PlaceAt(k)] = ch]
    /\ r[ScreenEnd] = b[ScreenEnd]

\* A character written to a cell
LEMMA CellWritten ==
    ASSUME NEW b, IsScreen(b), NEW k \in 0 .. ScreenEnd - 1, NEW ch
    PROVE  WrittenTo(b, [b EXCEPT ![k] = ch], k, ch)
<1> DEFINE r == [b EXCEPT ![k] = ch]
<1>1. ScreenEnd \in Nat
  BY ScreenEndIs
<1>2. r = [i \in 0 .. ScreenEnd |-> IF i = k THEN ch ELSE b[i]]
  BY DEF IsScreen
<1> HIDE DEF r
<1>3. IsScreen(r)
  <2>1. r = [i \in 0 .. ScreenEnd |-> r[i]]
    BY <1>2, Zenon
  <2> QED BY <2>1 DEF IsScreen
<1>4. r[ScreenEnd] = b[ScreenEnd]
  BY <1>1, <1>2
<1>5. Image(r) = [Image(b) EXCEPT ![PlaceAt(k)] = ch]
  <2> DEFINE u == [Image(b) EXCEPT ![PlaceAt(k)] = ch]
             v == [p \in Shown!Places |-> IF p = PlaceAt(k) THEN ch ELSE Image(b)[p]]
  <2>1. u = v
    BY Zenon DEF Image
  <2>2. v = [p \in Shown!Places |-> v[p]]
    BY Zenon
  <2>3. ASSUME NEW x \in 0 .. Width - 1, NEW y \in 0 .. Height - 1 PROVE r[XYPtr(x, y)] = v[<<y, x>>]
    <3>1. <<y, x>> \in Shown!Places
      BY DEF Shown!Places
    <3>2. XYPtr(x, y) \in 0 .. ScreenEnd - 1 /\ XYPtr(x, y) \in 0 .. ScreenEnd
      BY CellOfPlace, <1>1
    <3>3. <<y, x>> = PlaceAt(k) <=> XYPtr(x, y) = k
      <4>1. PlaceAt(XYPtr(x, y)) = <<y, x>>
        BY PlaceIs
      <4>2. XYPtr(k % Width, k \div Width) = k
        BY PlaceOfCell
      <4>3. <<y, x>> = PlaceAt(k) => y = k \div Width /\ x = k % Width
        BY DEF PlaceAt
      <4> QED BY <4>1, <4>2, <4>3
    <3>4. Image(b)[<<y, x>>] = b[XYPtr(x, y)]
      BY <3>1 DEF Image
    <3>5. v[<<y, x>>] = IF <<y, x>> = PlaceAt(k) THEN ch ELSE Image(b)[<<y, x>>]
      BY <3>1
    <3> HIDE DEF v
    <3> QED BY <1>2, <3>2, <3>3, <3>4, <3>5
  <2> HIDE DEF v, u
  <2>4. Pictures(r, v)
    BY <2>2, <2>3 DEF Pictures
  <2>5. Image(r) = v
    BY <2>4, SameImage
  <2> QED BY <2>1, <2>5 DEF u
<1> QED BY <1>3, <1>4, <1>5 DEF WrittenTo, r

\* The place behind another one
LEMMA NextCell ==
    ASSUME NEW k \in 0 .. ScreenEnd - 2
    PROVE  /\ k + 1 \in 0 .. ScreenEnd - 1
           /\ (k + 1) \div Width = IF k % Width = Width - 1 THEN k \div Width + 1 ELSE k \div Width
           /\ (k + 1) % Width = ((k % Width) + 1) % Width
           /\ (k + 1) % Width = IF k % Width = Width - 1 THEN 0 ELSE (k % Width) + 1
<1> DEFINE y == k \div Width
           x == k % Width
<1>1. Width \in Nat \ {0, 1} /\ ScreenEnd \in Nat
  BY ScreenEndIs
<1>2. k \in 0 .. ScreenEnd - 1 /\ k + 1 \in 0 .. ScreenEnd - 1
  BY <1>1
<1>3. y \in Nat /\ x \in 0 .. Width - 1 /\ k = y * Width + x /\ y * Width \in Int
  BY <1>2, PlaceOfCell, ScreenEndIs DEF XYPtr
<1> HIDE DEF x, y
<1>4. CASE x = Width - 1
  <2>1. (y + 1) * Width = y * Width + Width
    <3>1. 1 * Width = Width
      BY <1>1
    <3> QED BY <1>3, <3>1, Rows
  <2>2. k + 1 = XYPtr(0, y + 1)
    BY <1>1, <1>3, <1>4, <2>1 DEF XYPtr
  <2>3. (k + 1) \div Width = y + 1 /\ (k + 1) % Width = 0
    <3>1. 0 \in 0 .. Width - 1 /\ y + 1 \in Int
      BY <1>1, <1>3
    <3> QED BY <2>2, <3>1, CellOfPlace
  <2>4. (x + 1) % Width = 0
    <3>1. Width % Width = 0
      <4>1. 1 * Width + 0 = Width /\ 0 \in 0 .. Width - 1 /\ Width \in Nat \ {0}
        BY <1>1
      <4>2. (1 * Width + 0) % Width = 0
        BY <4>1, Division
      <4> QED BY <4>1, <4>2
    <3>2. x + 1 = Width
      BY <1>1, <1>4
    <3> QED BY <3>1, <3>2
  <2> QED BY <1>2, <1>4, <2>3, <2>4 DEF x, y
<1>5. CASE x # Width - 1
  <2>1. x + 1 \in 0 .. Width - 1
    BY <1>1, <1>3, <1>5
  <2>2. k + 1 = XYPtr(x + 1, y)
    BY <1>1, <1>3 DEF XYPtr
  <2>3. (k + 1) \div Width = y /\ (k + 1) % Width = x + 1
    BY <1>3, <2>1, <2>2, CellOfPlace
  <2>4. (x + 1) % Width = x + 1
    BY <1>1, <2>1
  <2> QED BY <1>2, <1>5, <2>3, <2>4 DEF x, y
<1> QED BY <1>4, <1>5

\* A memory and a cursor on the screen
OnScreen(s) ==
    /\ s = [buf |-> s.buf, cursor |-> s.cursor]
    /\ IsScreen(s.buf)
    /\ s.cursor \in 0 .. ScreenEnd - 1

\* What a memory and a cursor show
View(s) == [rows |-> Image(s.buf), row |-> s.cursor \div Width, col |-> s.cursor % Width]

\* r shows v, and s has become r without a write behind the boot screen.
Shows(s, r, v) ==
    /\ OnScreen(r)
    /\ View(r) = v
    /\ screenLib = "boot" => r.buf[ScreenEnd] = s.buf[ScreenEnd]

\* A screen made of its parts
LEMMA MadeScreen ==
    ASSUME NEW b, IsScreen(b), NEW k \in 0 .. ScreenEnd - 1, NEW s, s = [buf |-> b, cursor |-> k]
    PROVE  /\ OnScreen(s) /\ s.buf = b /\ s.cursor = k
           /\ View(s) = [rows |-> Image(b), row |-> k \div Width, col |-> k % Width]
  BY DEF OnScreen, View

\* The screen scrolls when its last cell is reached.
LEMMA CheckedIs ==
    ASSUME NEW s, OnScreen(s), NEW t, t = ScrollChecked(s)
    PROVE  /\ s.cursor = ScreenEnd - 1 =>
                /\ t = [buf |-> Scrolled(s.buf, 1), cursor |-> ScreenEnd - Width]
                /\ ScrolledTo(s.buf, t.buf, 1)
           /\ s.cursor # ScreenEnd - 1 => t = s
           /\ OnScreen(t) /\ t.cursor \in 0 .. ScreenEnd - 2
<1>1. /\ ScreenEnd \in Nat /\ Width \in Nat \ {0, 1} /\ Height \in Nat \ {0}
      /\ XYPtr(0, Height - 1) = ScreenEnd - Width
      /\ XYPtr(Width - 1, Height - 1) = ScreenEnd - 1
      /\ Width <= ScreenEnd
  BY ScreenEndIs
<1>2. s.cursor \in 0 .. ScreenEnd - 1 /\ IsScreen(s.buf)
  BY DEF OnScreen
<1>3. CASE s.cursor = ScreenEnd - 1
  <2>1. t = [buf |-> Scrolled(s.buf, 1), cursor |-> ScreenEnd - Width]
    BY <1>1, <1>3 DEF ScrollChecked
  <2>2. 1 \in 0 .. Height
    BY <1>1
  <2>3. ScrolledTo(s.buf, Scrolled(s.buf, 1), 1)
    BY <1>2, <2>2, ScrolledIs
  <2>4. ScreenEnd - Width \in 0 .. ScreenEnd - 2 /\ ScreenEnd - Width \in 0 .. ScreenEnd - 1
    BY <1>1
  <2>5. t.buf = Scrolled(s.buf, 1) /\ t.cursor = ScreenEnd - Width
    BY <2>1
  <2>6. IsScreen(t.buf)
    BY <2>3, <2>5 DEF ScrolledTo
  <2>7. OnScreen(t)
    BY <2>1, <2>4, <2>5, <2>6 DEF OnScreen
  <2> QED BY <1>3, <2>1, <2>3, <2>4, <2>5, <2>7
<1>4. CASE s.cursor # ScreenEnd - 1
  <2>1. ~(s.cursor >= ScreenEnd - 1)
    BY <1>1, <1>2, <1>4
  <2>2. t = s
    BY <1>1, <2>1 DEF ScrollChecked
  <2>3. t.cursor \in 0 .. ScreenEnd - 2
    BY <1>1, <1>2, <1>4, <2>2
  <2> QED BY <1>4, <2>2, <2>3
<1> QED BY <1>3, <1>4

\* One character, as printChar writes it
PrintedOne(s, ch) ==
    LET t == ScrollChecked(s)
    IN  [buf |-> [t.buf EXCEPT ![t.cursor] = ch], cursor |-> t.cursor + 1]

\* The bottom right corner
LEMMA LastPlace ==
    ASSUME NEW k \in 0 .. ScreenEnd - 1
    PROVE  /\ k = ScreenEnd - 1 <=> k \div Width = Height - 1 /\ k % Width = Width - 1
           /\ PlaceAt(ScreenEnd - Width) = <<Height - 1, 0>>
<1>1. /\ ScreenEnd \in Nat /\ Width \in Nat \ {0, 1} /\ Height \in Nat \ {0}
      /\ XYPtr(0, Height - 1) = ScreenEnd - Width
      /\ XYPtr(Width - 1, Height - 1) = ScreenEnd - 1
  BY ScreenEndIs
<1>2. /\ XYPtr(Width - 1, Height - 1) \div Width = Height - 1
      /\ XYPtr(Width - 1, Height - 1) % Width = Width - 1
  <2>1. Width - 1 \in 0 .. Width - 1 /\ Height - 1 \in Int
    BY <1>1
  <2> QED BY <2>1, CellOfPlace
<1>3. XYPtr(k % Width, k \div Width) = k
  BY PlaceOfCell
<1>4. PlaceAt(XYPtr(0, Height - 1)) = <<Height - 1, 0>>
  <2>1. 0 \in 0 .. Width - 1 /\ Height - 1 \in Int
    BY <1>1
  <2> QED BY <2>1, PlaceIs
<1> QED BY <1>1, <1>2, <1>3, <1>4

\* A character shows as the console puts it, at any place of the screen.
LEMMA PrintedOneIs ==
    ASSUME NEW s, OnScreen(s), NEW ch
    PROVE  Shows(s, PrintedOne(s, ch), Shown!Put(View(s), ch))
<1> DEFINE t == ScrollChecked(s)
           k == t.cursor
           b == [t.buf EXCEPT ![k] = ch]
           r == PrintedOne(s, ch)
           full == s.cursor = ScreenEnd - 1
           at == PlaceAt(k)
<1>1. /\ full => t = [buf |-> Scrolled(s.buf, 1), cursor |-> ScreenEnd - Width] /\ ScrolledTo(s.buf, t.buf, 1)
      /\ ~full => t = s
      /\ OnScreen(t) /\ k \in 0 .. ScreenEnd - 2
  BY CheckedIs
<1>2. r = [buf |-> b, cursor |-> k + 1]
  BY DEF PrintedOne
<1> HIDE DEF t, r
<1>3. ScreenEnd \in Nat /\ k \in 0 .. ScreenEnd - 1
  <2>1. k \in 0 .. ScreenEnd - 2 /\ ScreenEnd \in Nat
    BY <1>1, ScreenEndIs
  <2> HIDE DEF k
  <2> QED BY <2>1
<1>4. IsScreen(b) /\ Image(b) = [Image(t.buf) EXCEPT ![at] = ch] /\ b[ScreenEnd] = t.buf[ScreenEnd]
  <2>1. IsScreen(t.buf)
    BY <1>1 DEF OnScreen
  <2> HIDE DEF k
  <2>2. WrittenTo(t.buf, [t.buf EXCEPT ![k] = ch], k, ch)
    BY <1>3, <2>1, CellWritten, Zenon
  <2>3. WrittenTo(t.buf, b, k, ch)
    BY <2>2
  <2> HIDE DEF b
  <2> QED BY <2>3 DEF WrittenTo, at
<1> HIDE DEF b, k, at
<1>5. /\ k + 1 \in 0 .. ScreenEnd - 1
      /\ (k + 1) \div Width = IF k % Width = Width - 1 THEN k \div Width + 1 ELSE k \div Width
      /\ (k + 1) % Width = ((k % Width) + 1) % Width
  BY <1>1, NextCell
<1>6. /\ OnScreen(r) /\ r.buf = b
      /\ View(r) = [rows |-> Image(b), row |-> (k + 1) \div Width, col |-> (k + 1) % Width]
  BY <1>2, <1>4, <1>5, MadeScreen
<1>7. screenLib = "boot" => r.buf[ScreenEnd] = s.buf[ScreenEnd]
  <2>1. CASE full
    BY <1>1, <1>4, <1>6, <2>1 DEF ScrolledTo
  <2>2. CASE ~full
    BY <1>1, <1>4, <1>6, <2>2
  <2> QED BY <2>1, <2>2
<1>8. /\ at[1] = k \div Width /\ at[2] = k % Width
  BY DEF at, PlaceAt
<1>9. View(r) = [rows |-> [Image(t.buf) EXCEPT ![at] = ch],
                 row |-> IF at[2] = Width - 1 THEN at[1] + 1 ELSE at[1],
                 col |-> (at[2] + 1) % Width]
  BY <1>4, <1>5, <1>6, <1>8
<1>10. /\ View(s).rows = Image(s.buf)
       /\ View(s).row = s.cursor \div Width /\ View(s).col = s.cursor % Width
  BY DEF View
<1>11. full <=> View(s).row = Height - 1 /\ View(s).col = Width - 1
  <2>1. s.cursor \in 0 .. ScreenEnd - 1
    BY DEF OnScreen
  <2> QED BY <1>10, <2>1, LastPlace
<1>12. at = IF full THEN <<Height - 1, 0>> ELSE <<View(s).row, View(s).col>>
  <2>1. CASE full
    <3>1. k = ScreenEnd - Width
      BY <1>1, <2>1 DEF k
    <3>2. PlaceAt(ScreenEnd - Width) = <<Height - 1, 0>>
      BY <1>3, LastPlace
    <3> QED BY <2>1, <3>1, <3>2 DEF at
  <2>2. CASE ~full
    <3>1. k = s.cursor
      BY <1>1, <2>2 DEF k
    <3> QED BY <1>10, <2>2, <3>1 DEF at, PlaceAt
  <2> QED BY <2>1, <2>2
<1>13. Image(t.buf) = IF full THEN Shown!MovedUp(View(s).rows, 1) ELSE View(s).rows
  <2>1. CASE full
    BY <1>1, <1>10, <2>1 DEF ScrolledTo
  <2>2. CASE ~full
    BY <1>1, <1>10, <2>2
  <2> QED BY <2>1, <2>2
<1> HIDE DEF full
<1>14. View(r) = Shown!Put(View(s), ch)
  <2>1. Shown!NextPlace(View(s)) = at /\ Shown!RoomMade(View(s)) = Image(t.buf)
    BY <1>11, <1>12, <1>13 DEF Shown!NextPlace, Shown!RoomMade, Shown!Full
  <2> QED BY <1>9, <2>1 DEF Shown!Put
<1> QED BY <1>6, <1>7, <1>14 DEF Shows, r

\* printChar is that, count times: once, and for a tab four times.
LEMMA PrintedOnce ==
    ASSUME NEW s, NEW ch
    PROVE  PrintChar(s, ch, 1) = PrintedOne(s, ch)
<1> DEFINE Is(f) == f = [n \in 0 .. 1 |-> IF n = 0 THEN s ELSE PrintedOne(f[n - 1], ch)]
           after == CHOOSE f : Is(f)
           g == [n \in 0 .. 1 |-> IF n = 0 THEN s ELSE PrintedOne(s, ch)]
<1>1. PrintChar(s, ch, 1) = after[1]
  BY Zenon DEF PrintChar, PrintedOne
<1>2. Is(g)
  <2>1. \A n \in 0 .. 1 : n = 0 \/ (n = 1 /\ n - 1 = 0)
    OBVIOUS
  <2>2. g[0] = s
    OBVIOUS
  <2> QED BY <2>1, <2>2
<1>3. Is(after)
  <2> HIDE DEF Is
  <2> QED BY <1>2
<1>4. after[0] = s /\ after[1] = PrintedOne(after[0], ch)
  <2> HIDE DEF after
  <2>1. 0 \in 0 .. 1 /\ 1 \in 0 .. 1 /\ 1 # 0 /\ 1 - 1 = 0
    OBVIOUS
  <2> QED BY <1>3, <2>1
<1> QED BY <1>1, <1>4

\* A tab
LEMMA PrintedFourTimes ==
    ASSUME NEW s, NEW ch
    PROVE  PrintChar(s, ch, 4) =
                PrintedOne(PrintedOne(PrintedOne(PrintedOne(s, ch), ch), ch), ch)
<1> DEFINE Is(f) == f = [n \in 0 .. 4 |-> IF n = 0 THEN s ELSE PrintedOne(f[n - 1], ch)]
           after == CHOOSE f : Is(f)
           s1 == PrintedOne(s, ch)
           s2 == PrintedOne(s1, ch)
           s3 == PrintedOne(s2, ch)
           s4 == PrintedOne(s3, ch)
           g == [n \in 0 .. 4 |-> IF n = 0 THEN s ELSE IF n = 1 THEN s1 ELSE IF n = 2 THEN s2
                                  ELSE IF n = 3 THEN s3 ELSE s4]
<1>1. PrintChar(s, ch, 4) = after[4]
  BY Zenon DEF PrintChar, PrintedOne
<1>2. Is(g)
  <2> DEFINE h == [n \in 0 .. 4 |-> IF n = 0 THEN s ELSE PrintedOne(g[n - 1], ch)]
  <2>1. /\ \A n \in 0 .. 4 : n = 0 \/ n = 1 \/ n = 2 \/ n = 3 \/ n = 4
        /\ 1 - 1 = 0 /\ 2 - 1 = 1 /\ 3 - 1 = 2 /\ 4 - 1 = 3
    <3> HIDE DEF g, h
    <3> QED OBVIOUS
  <2>2. g[0] = s /\ g[1] = s1 /\ g[2] = s2 /\ g[3] = s3 /\ g[4] = s4
    <3> HIDE DEF s1, s2, s3, s4
    <3> QED OBVIOUS
  <2>3. \A n \in 0 .. 4 : g[n] = h[n]
    <3> TAKE n \in 0 .. 4
    <3>1. h[n] = IF n = 0 THEN s ELSE PrintedOne(g[n - 1], ch)
      <4> HIDE DEF g
      <4> QED OBVIOUS
    <3> HIDE DEF g, h
    <3>2. CASE n = 0
      BY <2>2, <3>1, <3>2
    <3>3. CASE n = 1
      <4>1. n - 1 = 0 /\ n # 0
        BY <3>3
      <4>2. h[n] = PrintedOne(g[0], ch)
        BY <3>1, <4>1
      <4> QED BY <2>2, <3>3, <4>2
    <3>4. CASE n = 2
      <4>1. n - 1 = 1 /\ n # 0
        BY <3>4
      <4>2. h[n] = PrintedOne(g[1], ch)
        BY <3>1, <4>1
      <4> QED BY <2>2, <3>4, <4>2
    <3>5. CASE n = 3
      <4>1. n - 1 = 2 /\ n # 0
        BY <3>5
      <4>2. h[n] = PrintedOne(g[2], ch)
        BY <3>1, <4>1
      <4> QED BY <2>2, <3>5, <4>2
    <3>6. CASE n = 4
      <4>1. n - 1 = 3 /\ n # 0
        BY <3>6
      <4>2. h[n] = PrintedOne(g[3], ch)
        BY <3>1, <4>1
      <4> QED BY <2>2, <3>6, <4>2
    <3> QED BY <2>1, <3>2, <3>3, <3>4, <3>5, <3>6
  <2>4. g = [n \in 0 .. 4 |-> g[n]] /\ h = [n \in 0 .. 4 |-> h[n]]
    <3> HIDE DEF s1, s2, s3, s4
    <3>1. g = [n \in 0 .. 4 |-> g[n]]
      BY Zenon
    <3> HIDE DEF g
    <3>2. h = [n \in 0 .. 4 |-> h[n]]
      BY Zenon
    <3> QED BY <3>1, <3>2
  <2>5. g = h
    <3> HIDE DEF g, h
    <3> QED BY <2>3, <2>4
  <2> QED BY <2>5, Zenon
<1>3. Is(after)
  <2> HIDE DEF Is
  <2> QED BY <1>2
<1>4. \A n \in 0 .. 4 : after[n] = IF n = 0 THEN s ELSE PrintedOne(after[n - 1], ch)
  <2> HIDE DEF after
  <2> QED BY <1>3
<1> HIDE DEF after, s1, s2, s3, s4
<1>5. after[0] = s
  BY <1>4
<1>6. after[1] = PrintedOne(after[0], ch)
  <2>1. 1 \in 0 .. 4 /\ 1 # 0 /\ 1 - 1 = 0
    OBVIOUS
  <2> QED BY <1>4, <2>1
<1>7. after[2] = PrintedOne(after[1], ch)
  <2>1. 2 \in 0 .. 4 /\ 2 # 0 /\ 2 - 1 = 1
    OBVIOUS
  <2> QED BY <1>4, <2>1
<1>8. after[3] = PrintedOne(after[2], ch)
  <2>1. 3 \in 0 .. 4 /\ 3 # 0 /\ 3 - 1 = 2
    OBVIOUS
  <2> QED BY <1>4, <2>1
<1>9. after[4] = PrintedOne(after[3], ch)
  <2>1. 4 \in 0 .. 4 /\ 4 # 0 /\ 4 - 1 = 3
    OBVIOUS
  <2> QED BY <1>4, <2>1
<1> QED BY <1>1, <1>5, <1>6, <1>7, <1>8, <1>9

\* A character, a tab, a new line, a carriage return, a backspace
LEMMA CharShown ==
    ASSUME NEW s, OnScreen(s), NEW ch
    PROVE  Shows(s, PrintChar(s, ch, 1), Shown!Put(View(s), ch))
  BY PrintedOnce, PrintedOneIs

\* Four spaces
LEMMA TabShown ==
    ASSUME NEW s, OnScreen(s), NEW ch
    PROVE  Shows(s, PrintChar(s, ch, 4),
                 Shown!Put(Shown!Put(Shown!Put(Shown!Put(View(s), ch), ch), ch), ch))
<1> DEFINE s1 == PrintedOne(s, ch)
           s2 == PrintedOne(s1, ch)
           s3 == PrintedOne(s2, ch)
           s4 == PrintedOne(s3, ch)
<1>1. PrintChar(s, ch, 4) = s4
  BY PrintedFourTimes
<1>2. Shows(s, s1, Shown!Put(View(s), ch))
  BY PrintedOneIs
<1> HIDE DEF s1
<1>3. OnScreen(s1)
  BY <1>2 DEF Shows
<1>4. Shows(s1, s2, Shown!Put(View(s1), ch))
  BY <1>3, PrintedOneIs
<1> HIDE DEF s2
<1>5. OnScreen(s2)
  BY <1>4 DEF Shows
<1>6. Shows(s2, s3, Shown!Put(View(s2), ch))
  BY <1>5, PrintedOneIs
<1> HIDE DEF s3
<1>7. OnScreen(s3)
  BY <1>6 DEF Shows
<1>8. Shows(s3, s4, Shown!Put(View(s3), ch))
  BY <1>7, PrintedOneIs
<1> HIDE DEF s4
<1> QED BY <1>1, <1>2, <1>4, <1>6, <1>8 DEF Shows

\* The rows after a new line
LinesAfter(v) ==
    IF v.row = Height - 1 THEN [rows |-> Shown!MovedUp(v.rows, 1), row |-> v.row, col |-> 0]
    ELSE [rows |-> v.rows, row |-> v.row + 1, col |-> 0]

\* A new line: the cursor goes to the next one, or the screen scrolls.
LEMMA LineShown ==
    ASSUME NEW s, OnScreen(s)
    PROVE  Shows(s, ScrollChecked([s EXCEPT !.cursor = XYPtr(0, @ \div Width + 1)]), LinesAfter(View(s)))
<1> DEFINE y == s.cursor \div Width
           k == XYPtr(0, y + 1)
           to == [s EXCEPT !.cursor = XYPtr(0, @ \div Width + 1)]
           t == ScrollChecked(to)
<1>1. /\ ScreenEnd \in Nat /\ Width \in Nat \ {0, 1} /\ Height \in Nat \ {0}
      /\ XYPtr(0, Height - 1) = ScreenEnd - Width
      /\ XYPtr(Width - 1, Height - 1) = ScreenEnd - 1
      /\ XYPtr(0, Height) = ScreenEnd
  BY ScreenEndIs DEF ScreenEnd
<1>2. s.cursor \in 0 .. ScreenEnd - 1 /\ IsScreen(s.buf) /\ s = [buf |-> s.buf, cursor |-> s.cursor]
  BY DEF OnScreen
<1>3. to = [buf |-> s.buf, cursor |-> k]
  <2>1. to = [s EXCEPT !.cursor = k]
    BY Zenon
  <2> HIDE DEF to, k
  <2> QED BY <1>2, <2>1
<1>4. y \in 0 .. Height - 1
  BY <1>2, PlaceOfCell
<1>5. View(s).rows = Image(s.buf) /\ View(s).row = y
  BY DEF View
<1> HIDE DEF y, to
<1>6. CASE y = Height - 1
  <2>1. k = ScreenEnd
    BY <1>1, <1>6
  <2>2. to.buf = s.buf /\ to.cursor = ScreenEnd
    BY <1>3, <2>1
  <2>3. t = [buf |-> Scrolled(s.buf, 1), cursor |-> ScreenEnd - Width]
    BY <1>1, <2>2 DEF ScrollChecked
  <2>4. ScrolledTo(s.buf, Scrolled(s.buf, 1), 1)
    <3>1. 1 \in 0 .. Height
      BY <1>1
    <3> QED BY <1>2, <3>1, ScrolledIs
  <2>5. ScreenEnd - Width \in 0 .. ScreenEnd - 1
    BY <1>1, ScreenEndIs
  <2>6. (ScreenEnd - Width) \div Width = Height - 1 /\ (ScreenEnd - Width) % Width = 0
    <3>1. 0 \in 0 .. Width - 1 /\ Height - 1 \in Int
      BY <1>1
    <3> QED BY <1>1, <3>1, CellOfPlace
  <2> HIDE DEF t
  <2>7. IsScreen(Scrolled(s.buf, 1)) /\ Image(Scrolled(s.buf, 1)) = Shown!MovedUp(Image(s.buf), 1)
    BY <2>4 DEF ScrolledTo
  <2>8. /\ OnScreen(t) /\ t.buf = Scrolled(s.buf, 1)
        /\ View(t) = [rows |-> Image(Scrolled(s.buf, 1)), row |-> (ScreenEnd - Width) \div Width,
                      col |-> (ScreenEnd - Width) % Width]
    BY <2>3, <2>5, <2>7, MadeScreen
  <2>9. View(t) = LinesAfter(View(s))
    BY <1>5, <1>6, <2>6, <2>7, <2>8 DEF LinesAfter
  <2>10. Shows(s, t, LinesAfter(View(s)))
    BY <2>4, <2>8, <2>9 DEF Shows, ScrolledTo
  <2> QED BY <2>10 DEF t, to
<1>7. CASE y # Height - 1
  <2>1. 0 \in 0 .. Width - 1 /\ y + 1 \in 0 .. Height - 1 /\ y + 1 \in Int
    BY <1>1, <1>4, <1>7
  <2>2. k \in 0 .. ScreenEnd - 1 /\ k \div Width = y + 1 /\ k % Width = 0
    BY <2>1, CellOfPlace
  <2> HIDE DEF k
  <2>3. OnScreen(to) /\ to.buf = s.buf /\ to.cursor = k
        /\ View(to) = [rows |-> Image(s.buf), row |-> k \div Width, col |-> k % Width]
    BY <1>2, <1>3, <2>2, MadeScreen
  <2>4. k # ScreenEnd - 1
    <3>1. (ScreenEnd - 1) % Width = Width - 1
      <4>1. Width - 1 \in 0 .. Width - 1 /\ Height - 1 \in Int
        BY <1>1
      <4> QED BY <1>1, <4>1, CellOfPlace
    <3> QED BY <1>1, <2>2, <3>1
  <2>5. t = to
    BY <2>3, <2>4, CheckedIs
  <2>6. View(t) = LinesAfter(View(s))
    BY <1>5, <1>7, <2>2, <2>3, <2>5 DEF LinesAfter
  <2>7. Shows(s, t, LinesAfter(View(s)))
    <3> HIDE DEF t
    <3> QED BY <2>3, <2>5, <2>6 DEF Shows
  <2> QED BY <2>7 DEF to
<1> QED BY <1>6, <1>7

\* A carriage return
LEMMA ReturnShown ==
    ASSUME NEW s, OnScreen(s)
    PROVE  Shows(s, [s EXCEPT !.cursor = XYPtr(0, @ \div Width)],
                 [rows |-> View(s).rows, row |-> View(s).row, col |-> 0])
<1> DEFINE y == s.cursor \div Width
           k == XYPtr(0, y)
           to == [s EXCEPT !.cursor = XYPtr(0, @ \div Width)]
<1>1. Width \in Nat \ {0, 1} /\ Height \in Nat \ {0}
  BY ScreenEndIs
<1>2. s.cursor \in 0 .. ScreenEnd - 1 /\ IsScreen(s.buf) /\ s = [buf |-> s.buf, cursor |-> s.cursor]
  BY DEF OnScreen
<1>3. to = [buf |-> s.buf, cursor |-> k]
  <2>1. to = [s EXCEPT !.cursor = k]
    BY Zenon
  <2> HIDE DEF to, k
  <2> QED BY <1>2, <2>1
<1>4. y \in 0 .. Height - 1
  BY <1>2, PlaceOfCell
<1>5. View(s).rows = Image(s.buf) /\ View(s).row = y
  BY DEF View
<1> HIDE DEF y, to
<1>6. k \in 0 .. ScreenEnd - 1 /\ k \div Width = y /\ k % Width = 0
  <2>1. 0 \in 0 .. Width - 1 /\ y \in Int
    BY <1>1, <1>4
  <2> QED BY <1>4, <2>1, CellOfPlace
<1> HIDE DEF k
<1>7. OnScreen(to) /\ to.buf = s.buf
      /\ View(to) = [rows |-> Image(s.buf), row |-> k \div Width, col |-> k % Width]
  BY <1>2, <1>3, <1>6, MadeScreen
<1>8. View(to) = [rows |-> View(s).rows, row |-> View(s).row, col |-> 0]
  BY <1>5, <1>6, <1>7
<1> QED BY <1>7, <1>8 DEF Shows, to

\* The place that backspace goes to
BackTo(v) ==
    IF v.col > 0 THEN <<v.row, v.col - 1>>
    ELSE IF v.row > 0 THEN <<v.row - 1, Width - 1>> ELSE <<0, 0>>

\* A console after a backspace
BackShowing(v) ==
    [rows |-> [v.rows EXCEPT ![BackTo(v)] = Space], row |-> BackTo(v)[1], col |-> BackTo(v)[2]]

\* The place before another one
LEMMA PreviousCell ==
    ASSUME NEW k \in 0 .. ScreenEnd - 1, NEW s, s.cursor = k, NEW j, j = IF k - 1 < 0 THEN 0 ELSE k - 1
    PROVE  /\ j \in 0 .. ScreenEnd - 2
           /\ PlaceAt(j) = BackTo(View(s))
<1>1. /\ ScreenEnd \in Nat /\ Width \in Nat \ {0, 1} /\ Width <= ScreenEnd /\ XYPtr(0, 0) = 0
  BY ScreenEndIs
<1>2. View(s).row = k \div Width /\ View(s).col = k % Width
  BY DEF View
<1>3. k \div Width \in Nat /\ k % Width \in 0 .. Width - 1
  BY PlaceOfCell
<1>4. CASE k = 0
  <2>1. j = 0 /\ j \in 0 .. ScreenEnd - 2
    BY <1>1, <1>4
  <2>2. PlaceAt(0) = <<0, 0>>
    <3>1. 0 \in 0 .. Width - 1
      BY <1>1
    <3> QED BY <1>1, <3>1, PlaceIs
  <2>3. k \div Width = 0 /\ k % Width = 0
    BY <1>4, <2>2 DEF PlaceAt
  <2> QED BY <1>2, <2>1, <2>2, <2>3 DEF BackTo
<1>5. CASE k # 0
  <2>1. j = k - 1 /\ j \in 0 .. ScreenEnd - 2 /\ j + 1 = k /\ j \in 0 .. ScreenEnd - 1
    BY <1>1, <1>5
  <2>2. /\ k \div Width = IF j % Width = Width - 1 THEN j \div Width + 1 ELSE j \div Width
        /\ k % Width = IF j % Width = Width - 1 THEN 0 ELSE (j % Width) + 1
    BY <2>1, NextCell
  <2>3. j \div Width \in Nat /\ j % Width \in 0 .. Width - 1
    BY <2>1, PlaceOfCell
  <2> DEFINE y == j \div Width
             x == j % Width
             yk == k \div Width
             xk == k % Width
  <2>4. BackTo(View(s)) = IF xk > 0 THEN <<yk, xk - 1>>
                          ELSE IF yk > 0 THEN <<yk - 1, Width - 1>> ELSE <<0, 0>>
    BY <1>2 DEF BackTo
  <2>5. PlaceAt(j) = <<y, x>>
    BY DEF PlaceAt
  <2> HIDE DEF y, x, yk, xk
  <2>6. CASE x = Width - 1
    <3>1. xk = 0 /\ yk = y + 1 /\ yk > 0 /\ yk - 1 = y /\ ~(xk > 0)
      BY <2>2, <2>3, <2>6 DEF y, x, yk, xk
    <3> QED BY <2>1, <2>4, <2>5, <2>6, <3>1
  <2>7. CASE x # Width - 1
    <3>1. xk = x + 1 /\ yk = y /\ xk > 0 /\ xk - 1 = x
      BY <2>2, <2>3, <2>7 DEF y, x, yk, xk
    <3> QED BY <2>1, <2>4, <2>5, <3>1
  <2> QED BY <2>6, <2>7
<1> QED BY <1>4, <1>5

\* A backspace prints a space where it went to, and goes there again.
LEMMA BackShown ==
    ASSUME NEW s, OnScreen(s)
    PROVE  Shows(s, BackOver(s), BackShowing(View(s)))
<1> DEFINE k == s.cursor
           j == IF k - 1 < 0 THEN 0 ELSE k - 1
           to == [s EXCEPT !.cursor = IF @ - 1 < XYPtr(0, 0) THEN XYPtr(0, 0) ELSE @ - 1]
           b == [s.buf EXCEPT ![j] = Space]
           r == [PrintChar(to, Space, 1) EXCEPT !.cursor = @ - 1]
<1>1. ScreenEnd \in Nat /\ XYPtr(0, 0) = 0
  BY ScreenEndIs
<1>2. k \in 0 .. ScreenEnd - 1 /\ IsScreen(s.buf) /\ s = [buf |-> s.buf, cursor |-> s.cursor]
  BY DEF OnScreen
<1>3. to = [buf |-> s.buf, cursor |-> j]
  <2>1. to = [s EXCEPT !.cursor = j]
    BY <1>1, Zenon
  <2> HIDE DEF to, j
  <2> QED BY <1>2, <2>1
<1>4. j \in 0 .. ScreenEnd - 2 /\ PlaceAt(j) = BackTo(View(s))
  BY <1>2, PreviousCell
<1>5. BackOver(s) = r
  BY Zenon DEF BackOver
<1> HIDE DEF to, j, b
<1>6. j \in 0 .. ScreenEnd - 1 /\ j # ScreenEnd - 1
  BY <1>1, <1>4
<1>7. OnScreen(to) /\ to.buf = s.buf /\ to.cursor = j
  BY <1>2, <1>3, <1>6, MadeScreen
<1>8. ScrollChecked(to) = to
  BY <1>6, <1>7, CheckedIs
<1>9. PrintChar(to, Space, 1) = [buf |-> b, cursor |-> j + 1]
  <2>1. PrintChar(to, Space, 1) = PrintedOne(to, Space)
    BY PrintedOnce
  <2>2. PrintedOne(to, Space) = [buf |-> [to.buf EXCEPT ![to.cursor] = Space], cursor |-> to.cursor + 1]
    BY <1>8, Zenon DEF PrintedOne
  <2> QED BY <1>7, <2>1, <2>2 DEF b
<1>10. r = [buf |-> b, cursor |-> j]
  <2>1. r = [buf |-> b, cursor |-> (j + 1) - 1]
    BY <1>9
  <2> HIDE DEF r
  <2> QED BY <1>6, <2>1
<1>11. WrittenTo(s.buf, b, j, Space)
  <2>1. WrittenTo(s.buf, [s.buf EXCEPT ![j] = Space], j, Space)
    BY <1>2, <1>6, CellWritten, Zenon
  <2> QED BY <2>1 DEF b
<1> HIDE DEF r
<1>12. /\ OnScreen(r) /\ r.buf = b
       /\ View(r) = [rows |-> Image(b), row |-> j \div Width, col |-> j % Width]
  <2>1. IsScreen(b)
    BY <1>11 DEF WrittenTo
  <2> QED BY <1>6, <1>10, <2>1, MadeScreen
<1>13. View(s).rows = Image(s.buf)
  BY DEF View
<1>14. j \div Width = BackTo(View(s))[1] /\ j % Width = BackTo(View(s))[2]
  <2>1. PlaceAt(j)[1] = j \div Width /\ PlaceAt(j)[2] = j % Width
    BY DEF PlaceAt
  <2> QED BY <1>4, <2>1
<1>15. View(r) = BackShowing(View(s))
  <2>1. Image(b) = [View(s).rows EXCEPT ![BackTo(View(s))] = Space]
    BY <1>4, <1>11, <1>13 DEF WrittenTo
  <2> QED BY <1>12, <1>14, <2>1 DEF BackShowing
<1>16. Shows(s, r, BackShowing(View(s)))
  BY <1>11, <1>12, <1>15 DEF Shows, WrittenTo
<1> QED BY <1>5, <1>16

\* One turn of the loop of printString, by its character
Turned(s, r) ==
    \/ \E ch \in Glyphs : Shows(s, r, Shown!Put(View(s), ch))
    \/ Shows(s, r, Shown!Put(Shown!Put(Shown!Put(Shown!Put(View(s), Space), Space), Space), Space))
    \/ Shows(s, r, LinesAfter(View(s)))
    \/ Shows(s, r, [rows |-> View(s).rows, row |-> View(s).row, col |-> 0])
    \/ Shows(s, r, BackShowing(View(s)))

\* Whatever the character, the turn is one of those.
LEMMA PrintedShown ==
    ASSUME NEW s, OnScreen(s), NEW ch \in Glyphs \cup {"TAB", "NL", "CR", "BS"}
    PROVE  Turned(s, Printed(s, ch))
<1>1. CASE ch = "TAB"
  <2>1. Printed(s, ch) = PrintChar(s, Space, 4)
    BY <1>1 DEF Printed
  <2> QED BY <2>1, TabShown DEF Turned
<1>2. CASE ch = "NL"
  <2>1. Printed(s, ch) = ScrollChecked([s EXCEPT !.cursor = XYPtr(0, @ \div Width + 1)])
    BY <1>2, Zenon DEF Printed
  <2> QED BY <2>1, LineShown, Zenon DEF Turned
<1>3. CASE ch = "CR"
  <2>1. Printed(s, ch) = [s EXCEPT !.cursor = XYPtr(0, @ \div Width)]
    BY <1>3, Zenon DEF Printed
  <2> QED BY <2>1, ReturnShown, Zenon DEF Turned
<1>4. CASE ch = "BS"
  <2>1. Printed(s, ch) = BackOver(s)
    BY <1>4 DEF Printed
  <2> QED BY <2>1, BackShown DEF Turned
<1>5. CASE ch \notin {"TAB", "NL", "CR", "BS"}
  <2>1. Printed(s, ch) = PrintChar(s, ch, 1)
    BY <1>5 DEF Printed
  <2>2. ch \in Glyphs
    BY <1>5
  <2> QED BY <2>1, <2>2, CharShown DEF Turned
<1> QED BY <1>1, <1>2, <1>3, <1>4, <1>5

-----------------------------------------------------------------------------
(***************************************************************************)
(* The screen implements the console                                       *)
(***************************************************************************)

\* The screen as it is
Current == [buf |-> screenBuf, cursor |-> screenCursor]

\* The inductive invariant
ScreenInv ==
    /\ screenLib \in {"boot", "hwscr"}
    /\ OnScreen(Current)
    /\ screenLib = "boot" => screenBuf[ScreenEnd] = Foreign

\* What the console shows, now and next
LEMMA ShownIs ==
    /\ Shown!Now = View(Current)
    /\ [p \in (0 .. Height - 1) \X (0 .. Width - 1) |-> screenBuf[XYPtr(p[2], p[1])]] = Image(screenBuf)
  BY DEF Shown!Now, View, Current, Image, Shown!Places

\* The console becomes what the screen has become.
LEMMA ShownBecomes ==
    ASSUME NEW r, screenBuf' = r.buf, screenCursor' = r.cursor
    PROVE  Shown!Becomes(View(r))
  BY DEF Shown!Becomes, View, Image, Shown!Places, XYPtr

\* The screen is empty, and so is the console.
LEMMA ScreenInitInv == ScreenInit => ScreenInv /\ Shown!ConsoleInit
<1> SUFFICES ASSUME ScreenInit PROVE ScreenInv /\ Shown!ConsoleInit
  OBVIOUS
<1>1. ScreenEnd \in Nat /\ XYPtr(0, 0) = 0 /\ Width \in Nat \ {0, 1} /\ Width <= ScreenEnd
  BY ScreenEndIs
<1>2. /\ screenLib \in {"boot", "hwscr"} /\ screenCursor = 0
      /\ screenBuf = [i \in 0 .. ScreenEnd |-> IF i = ScreenEnd THEN Foreign ELSE Nothing]
  BY <1>1 DEF ScreenInit
<1>3. IsScreen(screenBuf)
  <2>1. screenBuf = [i \in 0 .. ScreenEnd |-> screenBuf[i]]
    BY <1>2, Zenon
  <2> QED BY <2>1 DEF IsScreen
<1>4. screenBuf[ScreenEnd] = Foreign
  BY <1>1, <1>2
<1>5. OnScreen(Current)
  <2>1. 0 \in 0 .. ScreenEnd - 1
    BY <1>1
  <2> QED BY <1>2, <1>3, <2>1, MadeScreen DEF Current
<1>6. Image(screenBuf) = [p \in Shown!Places |-> Nothing]
  <2> DEFINE u == [p \in Shown!Places |-> Nothing]
  <2>1. ASSUME NEW x \in 0 .. Width - 1, NEW y \in 0 .. Height - 1
        PROVE  screenBuf[XYPtr(x, y)] = u[<<y, x>>]
    <3>1. <<y, x>> \in Shown!Places
      BY DEF Shown!Places
    <3>2. XYPtr(x, y) \in 0 .. ScreenEnd - 1 /\ XYPtr(x, y) \in 0 .. ScreenEnd /\ XYPtr(x, y) # ScreenEnd
      <4>1. XYPtr(x, y) \in 0 .. ScreenEnd - 1
        BY CellOfPlace
      <4> QED BY <1>1, <4>1
    <3> QED BY <1>2, <3>1, <3>2
  <2>2. u = [p \in Shown!Places |-> u[p]]
    BY Zenon
  <2> HIDE DEF u
  <2>3. Pictures(screenBuf, u)
    BY <2>1, <2>2 DEF Pictures
  <2>4. Image(screenBuf) = u
    BY <2>3, SameImage
  <2> QED BY <2>4 DEF u
<1>7. screenCursor \div Width = 0 /\ screenCursor % Width = 0
  <2>1. 0 \div Width = 0 /\ 0 % Width = 0
    BY <1>1
  <2> QED BY <1>2, <2>1
<1>8. Shown!ConsoleInit
  BY <1>6, <1>7, ShownIs DEF Shown!ConsoleInit
<1> QED BY <1>2, <1>4, <1>5, <1>8 DEF ScreenInv

\* A turn is a step of the console.
LEMMA TurnShown ==
    ASSUME ScreenInv, NEW r, Turned(Current, r),
           screenBuf' = r.buf, screenCursor' = r.cursor, screenLib' = screenLib
    PROVE  ScreenInv' /\ Shown!ConsoleNext
<1> DEFINE v == View(Current)
<1>1. Shown!Becomes(View(r))
  BY ShownBecomes
<1>2. Shown!Now = v
  BY ShownIs
<1>3. ASSUME NEW w, Shows(Current, r, w) PROVE ScreenInv' /\ Shown!Becomes(w)
  <2>1. OnScreen(r) /\ View(r) = w /\ (screenLib = "boot" => r.buf[ScreenEnd] = screenBuf[ScreenEnd])
    BY <1>3 DEF Shows, Current
  <2>2. r = [buf |-> r.buf, cursor |-> r.cursor]
    BY <2>1 DEF OnScreen
  <2>3. Current' = r
    BY <2>2 DEF Current
  <2>4. OnScreen(Current')
    BY <2>1, <2>3
  <2>5. OnScreen(Current)'
    BY <2>4 DEF OnScreen, IsScreen, ScreenEnd, XYPtr
  <2>6. (screenLib = "boot" => screenBuf[ScreenEnd] = Foreign)'
    BY <2>1 DEF ScreenInv, ScreenEnd, XYPtr
  <2>7. ScreenInv'
    BY <2>5, <2>6 DEF ScreenInv
  <2> QED BY <1>1, <2>1, <2>7
<1>4. CASE \E ch \in Glyphs : Shows(Current, r, Shown!Put(View(Current), ch))
  <2>1. PICK ch \in Glyphs : Shows(Current, r, Shown!Put(View(Current), ch))
    BY <1>4
  <2>2. Shown!Becomes(Shown!Put(Shown!Now, ch)) /\ ScreenInv'
    BY <1>2, <1>3, <2>1
  <2>3. Shown!Type(ch)
    BY <2>2, Zenon DEF Shown!Type
  <2> QED BY <2>2, <2>3, Zenon DEF Shown!ConsoleNext
<1>5. CASE Shows(Current, r, Shown!Put(Shown!Put(Shown!Put(Shown!Put(View(Current), Space), Space), Space), Space))
  <2>1. /\ Shown!Becomes(Shown!Put(Shown!Put(Shown!Put(Shown!Put(Shown!Now, Space), Space), Space), Space))
        /\ ScreenInv'
    BY <1>2, <1>3, <1>5
  <2>2. Shown!Tab
    BY <2>1, Zenon DEF Shown!Tab
  <2> QED BY <2>1, <2>2, Zenon DEF Shown!ConsoleNext
<1>6. CASE Shows(Current, r, LinesAfter(View(Current)))
  <2>1. Shown!Becomes(LinesAfter(Shown!Now)) /\ ScreenInv'
    BY <1>2, <1>3, <1>6
  <2>2. Shown!NewLine
    BY <2>1 DEF Shown!NewLine, Shown!Becomes, LinesAfter, Shown!Now
  <2> QED BY <2>1, <2>2, Zenon DEF Shown!ConsoleNext
<1>7. CASE Shows(Current, r, [rows |-> View(Current).rows, row |-> View(Current).row, col |-> 0])
  <2>1. Shown!Becomes([rows |-> Shown!Now.rows, row |-> Shown!Now.row, col |-> 0]) /\ ScreenInv'
    BY <1>2, <1>3, <1>7
  <2>2. Shown!CarriageReturn
    BY <2>1 DEF Shown!CarriageReturn, Shown!Becomes, Shown!Now
  <2> QED BY <2>1, <2>2, Zenon DEF Shown!ConsoleNext
<1>8. CASE Shows(Current, r, BackShowing(View(Current)))
  <2>1. Shown!Becomes(BackShowing(Shown!Now)) /\ ScreenInv'
    BY <1>2, <1>3, <1>8
  <2>2. Shown!Backspace
    BY <2>1, Zenon DEF Shown!Backspace, BackShowing, BackTo, Shown!Now
  <2> QED BY <2>1, <2>2, Zenon DEF Shown!ConsoleNext
<1> QED BY <1>4, <1>5, <1>6, <1>7, <1>8 DEF Turned

\* r is b with the character c in the cells A, which are at the places B.
Painted(b, r, A, B, c) ==
    /\ IsScreen(b)
    /\ r = [i \in DOMAIN b |-> IF i \in A THEN c ELSE b[i]]
    /\ \A x \in 0 .. Width - 1 : \A y \in 0 .. Height - 1 : XYPtr(x, y) \in A <=> <<y, x>> \in B

\* The memory then shows those rows.
LEMMA PaintedIs ==
    ASSUME NEW b, NEW r, NEW A, NEW B, NEW c, Painted(b, r, A, B, c)
    PROVE  /\ IsScreen(r)
           /\ Image(r) = [p \in Shown!Places |-> IF p \in B THEN c ELSE Image(b)[p]]
           /\ ScreenEnd \notin A => r[ScreenEnd] = b[ScreenEnd]
<1>1. ScreenEnd \in Nat
  BY ScreenEndIs
<1>2. /\ r = [i \in 0 .. ScreenEnd |-> IF i \in A THEN c ELSE b[i]]
      /\ \A x \in 0 .. Width - 1 : \A y \in 0 .. Height - 1 : XYPtr(x, y) \in A <=> <<y, x>> \in B
  <2>1. DOMAIN b = 0 .. ScreenEnd
    BY DEF Painted, IsScreen
  <2> QED BY <2>1 DEF Painted
<1>3. IsScreen(r)
  <2>1. r = [i \in 0 .. ScreenEnd |-> r[i]]
    BY <1>2, Zenon
  <2> QED BY <2>1 DEF IsScreen
<1>4. ScreenEnd \notin A => r[ScreenEnd] = b[ScreenEnd]
  BY <1>1, <1>2
<1> DEFINE u == [p \in Shown!Places |-> IF p \in B THEN c ELSE Image(b)[p]]
<1>5. ASSUME NEW x \in 0 .. Width - 1, NEW y \in 0 .. Height - 1 PROVE r[XYPtr(x, y)] = u[<<y, x>>]
  <2>1. <<y, x>> \in Shown!Places
    BY DEF Shown!Places
  <2>2. XYPtr(x, y) \in 0 .. ScreenEnd
    <3>1. XYPtr(x, y) \in 0 .. ScreenEnd - 1
      BY CellOfPlace
    <3> QED BY <1>1, <3>1
  <2>3. r[XYPtr(x, y)] = IF XYPtr(x, y) \in A THEN c ELSE b[XYPtr(x, y)]
    BY <1>2, <2>2
  <2>4. u[<<y, x>>] = IF <<y, x>> \in B THEN c ELSE Image(b)[<<y, x>>]
    BY <2>1
  <2>5. Image(b)[<<y, x>>] = b[XYPtr(x, y)]
    BY <2>1 DEF Image
  <2>6. XYPtr(x, y) \in A <=> <<y, x>> \in B
    BY <1>2
  <2> HIDE DEF u
  <2> QED BY <2>3, <2>4, <2>5, <2>6
<1>6. u = [p \in Shown!Places |-> u[p]]
  BY Zenon
<1> HIDE DEF u
<1>7. Pictures(r, u)
  BY <1>5, <1>6 DEF Pictures
<1>8. Image(r) = u
  BY <1>7, SameImage
<1> QED BY <1>3, <1>4, <1>8 DEF u

\* The screen shows other rows, and the cursor is at c.
Redrawn(c) ==
    /\ screenLib' = screenLib
    /\ IsScreen(screenBuf')
    /\ screenCursor' = c /\ c \in 0 .. ScreenEnd - 1
    /\ screenLib = "boot" => screenBuf'[ScreenEnd] = screenBuf[ScreenEnd]

\* The invariant is kept.
LEMMA RedrawnInv ==
    ASSUME ScreenInv, NEW c, Redrawn(c)
    PROVE  /\ ScreenInv'
           /\ Shown!Becomes([rows |-> Image(screenBuf'), row |-> c \div Width, col |-> c % Width])
<1> DEFINE s == [buf |-> screenBuf', cursor |-> c]
<1>0. /\ screenLib' = screenLib /\ IsScreen(screenBuf') /\ screenCursor' = c /\ c \in 0 .. ScreenEnd - 1
      /\ screenLib = "boot" => screenBuf'[ScreenEnd] = screenBuf[ScreenEnd]
  BY DEF Redrawn
<1>1. /\ OnScreen(s) /\ s.buf = screenBuf' /\ s.cursor = c
      /\ View(s) = [rows |-> Image(screenBuf'), row |-> c \div Width, col |-> c % Width]
  <2>1. \A b, k : (IsScreen(b) /\ k \in 0 .. ScreenEnd - 1) =>
            LET t == [buf |-> b, cursor |-> k]
            IN  /\ OnScreen(t) /\ t.buf = b /\ t.cursor = k
                /\ View(t) = [rows |-> Image(b), row |-> k \div Width, col |-> k % Width]
    BY MadeScreen
  <2> QED BY <1>0, <2>1
<1> HIDE DEF s
<1>2. Shown!Becomes(View(s))
  BY <1>0, <1>1, ShownBecomes
<1>3. Current' = s
  BY <1>0 DEF Current, s
<1>4. OnScreen(Current)'
  <2>1. OnScreen(Current')
    BY <1>1, <1>3
  <2> QED BY <2>1 DEF OnScreen, IsScreen, ScreenEnd, XYPtr
<1>5. (screenLib = "boot" => screenBuf[ScreenEnd] = Foreign)'
  BY <1>0 DEF ScreenInv, ScreenEnd, XYPtr
<1>6. ScreenInv'
  BY <1>0, <1>4, <1>5 DEF ScreenInv
<1> QED BY <1>1, <1>2, <1>6

\* The cursor is where it was.
LEMMA CursorStays ==
    ASSUME NEW x
    PROVE  Shown!Becomes([rows |-> x, row |-> screenCursor \div Width, col |-> screenCursor % Width])
            <=> ([p \in (0 .. Height - 1) \X (0 .. Width - 1) |-> screenBuf[XYPtr(p[2], p[1])]])' = x
                /\ UNCHANGED <<screenCursor \div Width, screenCursor % Width>>
  BY DEF Shown!Becomes

\* The cursor is on the screen.
LEMMA CursorIn ==
    ASSUME ScreenInv
    PROVE  /\ screenCursor \in 0 .. ScreenEnd - 1 /\ IsScreen(screenBuf) /\ DOMAIN screenBuf = 0 .. ScreenEnd
           /\ ScreenEnd \in Nat /\ 0 \in 0 .. ScreenEnd - 1
<1>1. OnScreen(Current)
  BY DEF ScreenInv
<1>2. screenCursor \in 0 .. ScreenEnd - 1 /\ IsScreen(screenBuf)
  BY <1>1 DEF OnScreen, Current
<1>3. DOMAIN screenBuf = 0 .. ScreenEnd
  BY <1>2 DEF IsScreen
<1>4. ScreenEnd \in Nat /\ 0 \in 0 .. ScreenEnd - 1
  BY <1>2, ScreenEndIs
<1> QED BY <1>2, <1>3, <1>4

\* hwscr_scroll
LEMMA ScrollStep ==
    ASSUME ScreenInv, NEW lines \in 0 .. Height, HwscrScroll(lines)
    PROVE  ScreenInv' /\ Shown!Scroll(lines)
<1>1. screenBuf' = Scrolled(screenBuf, lines) /\ UNCHANGED <<screenLib, screenCursor>>
  BY DEF HwscrScroll
<1>2. ScrolledTo(screenBuf, screenBuf', lines)
  <2>1. ScrolledTo(screenBuf, Scrolled(screenBuf, lines), lines)
    BY CursorIn, ScrolledIs
  <2> QED BY <1>1, <2>1
<1>3. Redrawn(screenCursor)
  BY <1>1, <1>2, CursorIn DEF Redrawn, ScrolledTo
<1>4. /\ ScreenInv'
      /\ Shown!Becomes([rows |-> Shown!MovedUp(Image(screenBuf), lines), row |-> screenCursor \div Width,
                        col |-> screenCursor % Width])
  <2>1. Image(screenBuf') = Shown!MovedUp(Image(screenBuf), lines)
    BY <1>2 DEF ScrolledTo
  <2> QED BY <1>3, <2>1, RedrawnInv
<1>5. Shown!Scroll(lines)
  BY <1>4, CursorStays, ShownIs DEF Shown!Scroll
<1> QED BY <1>4, <1>5

\* A turn of printString
LEMMA PrintStep ==
    ASSUME ScreenInv, NEW ch \in Glyphs \cup {"TAB", "NL", "CR", "BS"}, PrintString(ch)
    PROVE  ScreenInv' /\ Shown!ConsoleNext
<1> DEFINE r == Printed(Current, ch)
<1>1. screenBuf' = r.buf /\ screenCursor' = r.cursor /\ screenLib' = screenLib
  BY DEF PrintString, Current
<1>2. OnScreen(Current)
  BY DEF ScreenInv
<1>3. Turned(Current, r)
  BY <1>2, PrintedShown
<1> HIDE DEF r
<1> QED BY <1>1, <1>3, TurnShown

\* The cells A, which are at the places B, get the character c, and the cursor goes to k.
Redraws(A, B, c, k) ==
    /\ Painted(screenBuf, screenBuf', A, B, c)
    /\ screenLib' = screenLib
    /\ screenCursor' = k /\ k \in 0 .. ScreenEnd - 1
    /\ screenLib = "boot" => ScreenEnd \notin A

\* The rows of the console, with the character c at the places B
Overlaid(B, c) == [p \in Shown!Places |-> IF p \in B THEN c ELSE Shown!Now.rows[p]]

\* The console gets them, too.
LEMMA RedrawsIs ==
    ASSUME ScreenInv, NEW A, NEW B, NEW c, NEW k, Redraws(A, B, c, k)
    PROVE  /\ ScreenInv'
           /\ Shown!Becomes([rows |-> Overlaid(B, c), row |-> k \div Width, col |-> k % Width])
<1>1. /\ IsScreen(screenBuf')
      /\ Image(screenBuf') = [p \in Shown!Places |-> IF p \in B THEN c ELSE Image(screenBuf)[p]]
      /\ ScreenEnd \notin A => screenBuf'[ScreenEnd] = screenBuf[ScreenEnd]
  <2>1. Painted(screenBuf, screenBuf', A, B, c)
    BY DEF Redraws
  <2> QED BY <2>1, PaintedIs
<1>2. Redrawn(k)
  BY <1>1 DEF Redraws, Redrawn
<1>3. Shown!Now.rows = Image(screenBuf)
  BY ShownIs DEF Shown!Now
<1>4. Image(screenBuf') = Overlaid(B, c)
  BY <1>1, <1>3 DEF Overlaid
<1> QED BY <1>2, <1>4, RedrawnInv

\* The cells that are painted are those of the places.
Covers(A, B) ==
    \A x \in 0 .. Width - 1 : \A y \in 0 .. Height - 1 : XYPtr(x, y) \in A <=> <<y, x>> \in B

\* The step of a function that writes one character to an area.
LEMMA RedrawStep ==
    ASSUME ScreenInv, NEW A, NEW B, NEW c, NEW k \in 0 .. ScreenEnd - 1, Covers(A, B),
           screenBuf' = [i \in DOMAIN screenBuf |-> IF i \in A THEN c ELSE screenBuf[i]],
           screenLib' = screenLib, screenCursor' = k,
           screenLib = "boot" => ScreenEnd \notin A
    PROVE  /\ ScreenInv'
           /\ Shown!Becomes([rows |-> Overlaid(B, c), row |-> k \div Width, col |-> k % Width])
<1>1. IsScreen(screenBuf)
  BY CursorIn
<1>2. Painted(screenBuf, screenBuf', A, B, c)
  BY <1>1 DEF Painted, Covers
<1>3. Redraws(A, B, c, k)
  BY <1>2 DEF Redraws
<1> QED BY <1>3, RedrawsIs

\* The whole screen is one.
LEMMA WholeScreen == Covers(0 .. ScreenEnd - 1, Shown!Places)
<1>1. ASSUME NEW x \in 0 .. Width - 1, NEW y \in 0 .. Height - 1
      PROVE  XYPtr(x, y) \in 0 .. ScreenEnd - 1 /\ <<y, x>> \in Shown!Places
  BY CellOfPlace DEF Shown!Places
<1> QED BY <1>1 DEF Covers

\* boot_ui_clear
LEMMA BootClearStep ==
    ASSUME ScreenInv, BootClear
    PROVE  ScreenInv' /\ Shown!Fill
<1> DEFINE A == 0 .. ScreenEnd - 1
<1>1. ScreenEnd \in Nat /\ screenCursor \in 0 .. ScreenEnd - 1 /\ DOMAIN screenBuf = 0 .. ScreenEnd
  BY CursorIn
<1>2. \A i \in DOMAIN screenBuf : i < ScreenEnd <=> i \in A
  BY <1>1
<1>3. screenBuf' = [i \in DOMAIN screenBuf |-> IF i \in A THEN Space ELSE screenBuf[i]]
  <2>1. screenBuf' = [i \in DOMAIN screenBuf |-> IF i < ScreenEnd THEN Space ELSE screenBuf[i]]
    BY DEF BootClear
  <2> HIDE DEF A
  <2> QED BY <1>2, <2>1
<1>4. ScreenEnd \notin A /\ Covers(A, Shown!Places)
  BY <1>1, WholeScreen
<1> HIDE DEF A
<1>5. /\ ScreenInv'
      /\ Shown!Becomes([rows |-> Overlaid(Shown!Places, Space), row |-> screenCursor \div Width,
                        col |-> screenCursor % Width])
  BY <1>1, <1>3, <1>4, RedrawStep DEF BootClear
<1>6. Overlaid(Shown!Places, Space) = [p \in Shown!Places |-> Space]
  BY DEF Overlaid
<1>7. Shown!Fill
  BY <1>5, <1>6, CursorStays DEF Shown!Fill
<1> QED BY <1>5, <1>7

\* hwscr_clear
LEMMA HwscrClearStep ==
    ASSUME ScreenInv, HwscrClear
    PROVE  ScreenInv' /\ Shown!Clear
<1> DEFINE A == 0 .. ScreenEnd - 1
<1>1. ScreenEnd \in Nat /\ DOMAIN screenBuf = 0 .. ScreenEnd /\ 0 \in 0 .. ScreenEnd - 1
  BY CursorIn
<1>2. \A i \in DOMAIN screenBuf : i < ScreenEnd <=> i \in A
  BY <1>1
<1>3. screenBuf' = [i \in DOMAIN screenBuf |-> IF i \in A THEN Nothing ELSE screenBuf[i]]
  <2>1. screenBuf' = [i \in DOMAIN screenBuf |-> IF i < ScreenEnd THEN Nothing ELSE screenBuf[i]]
    BY DEF HwscrClear
  <2> HIDE DEF A
  <2> QED BY <1>2, <2>1
<1>4. ScreenEnd \notin A /\ Covers(A, Shown!Places)
  BY <1>1, WholeScreen
<1> HIDE DEF A
<1>5. screenCursor' = 0
  BY ScreenEndIs DEF HwscrClear
<1>6. /\ ScreenInv'
      /\ Shown!Becomes([rows |-> Overlaid(Shown!Places, Nothing), row |-> 0 \div Width, col |-> 0 % Width])
  BY <1>1, <1>3, <1>4, <1>5, RedrawStep DEF HwscrClear
<1>7. Overlaid(Shown!Places, Nothing) = [p \in Shown!Places |-> Nothing]
  BY DEF Overlaid
<1>8. 0 \div Width = 0 /\ 0 % Width = 0
  BY Dimensions
<1>9. Shown!Clear
  BY <1>6, <1>7, <1>8, Zenon DEF Shown!Clear
<1> QED BY <1>6, <1>9

\* hwscr_clearArea
LEMMA ClearAreaStep ==
    ASSUME ScreenInv, NEW x1 \in 0 .. Width - 1, NEW x2 \in 0 .. Width - 1,
           NEW y1 \in 0 .. Height - 1, NEW y2 \in 0 .. Height - 1, HwscrClearArea(x1, y1, x2, y2)
    PROVE  ScreenInv' /\ Shown!ClearArea(<<y1, x1>>, <<y2, x2>>)
<1> DEFINE A == XYPtr(x1, y1) .. XYPtr(x2, y2)
           B == {q \in Shown!Places : q[1] * Width + q[2] \in y1 * Width + x1 .. y2 * Width + x2}
<1>1. ScreenEnd \in Nat /\ screenCursor \in 0 .. ScreenEnd - 1
  BY CursorIn
<1>2. screenBuf' = [i \in DOMAIN screenBuf |-> IF i \in A THEN Nothing ELSE screenBuf[i]]
  BY DEF HwscrClearArea, AreaCleared
<1>3. Covers(A, B)
  <2>1. ASSUME NEW x \in 0 .. Width - 1, NEW y \in 0 .. Height - 1
        PROVE  XYPtr(x, y) \in A <=> <<y, x>> \in B
    <3>1. <<y, x>> \in Shown!Places
      BY DEF Shown!Places
    <3>2. <<y, x>> \in B <=> y * Width + x \in y1 * Width + x1 .. y2 * Width + x2
      BY <3>1
    <3> QED BY <3>2 DEF XYPtr
  <2> HIDE DEF A, B
  <2> QED BY <2>1 DEF Covers
<1>4. Overlaid(B, Nothing) =
        [q \in Shown!Places |->
            IF q[1] * Width + q[2] \in y1 * Width + x1 .. y2 * Width + x2 THEN Nothing ELSE Shown!Now.rows[q]]
  BY DEF Overlaid
<1>5. screenLib' = screenLib /\ screenLib # "boot" /\ screenCursor' = screenCursor
  BY DEF HwscrClearArea
<1> HIDE DEF A, B
<1>6. /\ ScreenInv'
      /\ Shown!Becomes([rows |-> Overlaid(B, Nothing), row |-> screenCursor \div Width,
                        col |-> screenCursor % Width])
  BY <1>1, <1>2, <1>3, <1>5, RedrawStep
<1>7. Shown!ClearArea(<<y1, x1>>, <<y2, x2>>)
  BY <1>4, <1>6, CursorStays DEF Shown!ClearArea, Shown!Now
<1> QED BY <1>6, <1>7

\* hwscr_printCharAtXY and hwscr_printStringAtXY
LEMMA PrintAtStep ==
    ASSUME ScreenInv, NEW x \in 0 .. Width - 1, NEW y \in 0 .. Height - 1, NEW n \in 1 .. Width - x,
           NEW ch, HwscrPrintAtXY(x, y, n, ch)
    PROVE  ScreenInv' /\ Shown!PutAt(<<y, x>>, n, ch)
<1> DEFINE A == XYPtr(x, y) .. XYPtr(x, y) + n - 1
           B == {q \in Shown!Places : q[1] = y /\ q[2] \in x .. x + n - 1}
<1>1. ScreenEnd \in Nat /\ screenCursor \in 0 .. ScreenEnd - 1
  BY CursorIn
<1>2. screenBuf' = [i \in DOMAIN screenBuf |-> IF i \in A THEN ch ELSE screenBuf[i]]
  BY DEF HwscrPrintAtXY
<1>3. Covers(A, B)
  <2>1. ASSUME NEW a \in 0 .. Width - 1, NEW b \in 0 .. Height - 1
        PROVE  XYPtr(a, b) \in A <=> <<b, a>> \in B
    <3>1. <<b, a>> \in Shown!Places
      BY DEF Shown!Places
    <3>2. <<b, a>> \in B <=> b = y /\ a \in x .. x + n - 1
      BY <3>1
    <3>3. XYPtr(x, y) \in Int /\ XYPtr(a, b) \in Int /\ Width \in Nat
      BY CellOfPlace, Dimensions
    <3>4. ASSUME XYPtr(a, b) \in A PROVE b = y /\ a \in x .. x + n - 1
      <4> DEFINE d == XYPtr(a, b) - XYPtr(x, y)
      <4>1. d \in 0 .. n - 1
        BY <3>3, <3>4
      <4>2. XYPtr(a, b) = XYPtr(x, y) + d
        BY <3>3
      <4> HIDE DEF d
      <4>3. x + d \in 0 .. Width - 1
        BY <3>3, <4>1
      <4>4. XYPtr(x + d, y) = XYPtr(x, y) + d
        <5> DEFINE w == y * Width
        <5>1. w \in Int
          BY Rows
        <5>2. XYPtr(x + d, y) = w + (x + d) /\ XYPtr(x, y) = w + x
          BY DEF XYPtr
        <5> HIDE DEF w
        <5> QED BY <4>1, <5>1, <5>2
      <4>5. b = y /\ a = x + d
        <5>1. XYPtr(a, b) \div Width = b /\ XYPtr(a, b) % Width = a
          BY CellOfPlace
        <5>2. XYPtr(x + d, y) \div Width = y /\ XYPtr(x + d, y) % Width = x + d
          BY <4>3, CellOfPlace
        <5> QED BY <4>2, <4>4, <5>1, <5>2
      <4> QED BY <4>1, <4>5
    <3>5. ASSUME b = y, a \in x .. x + n - 1 PROVE XYPtr(a, b) \in A
      <4>1. XYPtr(a, b) = XYPtr(x, y) + (a - x)
        <5> DEFINE w == y * Width
        <5>1. w \in Int
          BY Rows
        <5>2. XYPtr(a, b) = w + a /\ XYPtr(x, y) = w + x
          BY <3>5 DEF XYPtr
        <5> HIDE DEF w
        <5> QED BY <3>3, <5>1, <5>2
      <4> QED BY <3>3, <3>5, <4>1
    <3> QED BY <3>2, <3>4, <3>5
  <2> HIDE DEF A, B
  <2> QED BY <2>1 DEF Covers
<1>4. Overlaid(B, ch) =
        [q \in Shown!Places |-> IF q[1] = y /\ q[2] \in x .. x + n - 1 THEN ch ELSE Shown!Now.rows[q]]
  BY DEF Overlaid
<1>5. screenLib' = screenLib /\ screenLib # "boot" /\ screenCursor' = screenCursor
  BY DEF HwscrPrintAtXY
<1> HIDE DEF A, B
<1>6. /\ ScreenInv'
      /\ Shown!Becomes([rows |-> Overlaid(B, ch), row |-> screenCursor \div Width,
                        col |-> screenCursor % Width])
  BY <1>1, <1>2, <1>3, <1>5, RedrawStep
<1>7. Shown!PutAt(<<y, x>>, n, ch)
  BY <1>4, <1>6, CursorStays DEF Shown!PutAt, Shown!Now
<1> QED BY <1>6, <1>7

\* boot_ui_displayOSLogo: cell i of the logo is in the middle of row i / width.
LEMMA LogoStep ==
    ASSUME ScreenInv, NEW ch, DisplayOSLogo(ch)
    PROVE  ScreenInv' /\ Shown!Logo(ch)
<1> DEFINE left == (Width - LogoWidth) \div 2
           A == {(i \div LogoWidth) * Width + (i % LogoWidth) + left : i \in 0 .. LogoWidth * LogoHeight - 1}
           B == {q \in Shown!Places : q[1] < LogoHeight /\ q[2] \in left .. left + LogoWidth - 1}
           k == XYPtr(0, LogoHeight)
<1>1. /\ Width \in Nat /\ Height \in Nat /\ LogoWidth \in 1 .. Width /\ LogoHeight \in 1 .. Height - 1
      /\ LogoWidth \in Nat \ {0} /\ LogoHeight \in Nat /\ left \in Nat /\ left + LogoWidth <= Width
      /\ LogoWidth * LogoHeight = LogoHeight * LogoWidth
      /\ ScreenEnd \in Nat
  BY Dimensions, ScreenEndIs
<1>2. screenBuf' = [i \in DOMAIN screenBuf |-> IF i \in A THEN ch ELSE screenBuf[i]]
  BY Zenon DEF DisplayOSLogo
<1>3. Overlaid(B, ch) =
        [q \in Shown!Places |->
            IF q[1] < LogoHeight /\ q[2] \in left .. left + LogoWidth - 1 THEN ch ELSE Shown!Now.rows[q]]
  BY DEF Overlaid
<1>4. \A x \in 0 .. Width - 1 : \A y \in 0 .. Height - 1 :
        <<y, x>> \in B <=> y < LogoHeight /\ x \in left .. left + LogoWidth - 1
  BY DEF Shown!Places
<1>5. \A c : c \in A <=> \E i \in 0 .. LogoHeight * LogoWidth - 1 :
                            c = (i \div LogoWidth) * Width + (i % LogoWidth) + left
  <2> HIDE DEF left
  <2> QED BY <1>1
<1> HIDE DEF left, A, B
<1>6. ASSUME NEW i \in 0 .. LogoHeight * LogoWidth - 1
      PROVE  /\ i \div LogoWidth \in 0 .. LogoHeight - 1 /\ i \div LogoWidth \in 0 .. Height - 1
             /\ (i % LogoWidth) + left \in left .. left + LogoWidth - 1
             /\ (i % LogoWidth) + left \in 0 .. Width - 1
             /\ (i \div LogoWidth) * Width + (i % LogoWidth) + left
                    = XYPtr((i % LogoWidth) + left, i \div LogoWidth)
  <2> DEFINE q == i \div LogoWidth
             r == i % LogoWidth
             w == q * Width
  <2>1. q \in 0 .. LogoHeight - 1 /\ r \in 0 .. LogoWidth - 1
    BY <1>1, Grid
  <2> HIDE DEF q, r
  <2>2. w \in Int
    BY <2>1, Rows
  <2>3. XYPtr(r + left, q) = w + (r + left)
    BY DEF XYPtr
  <2> HIDE DEF w
  <2>4. /\ q \in 0 .. LogoHeight - 1 /\ q \in 0 .. Height - 1
        /\ r + left \in left .. left + LogoWidth - 1 /\ r + left \in 0 .. Width - 1
        /\ w + r + left = XYPtr(r + left, q)
    BY <1>1, <2>1, <2>2, <2>3
  <2> QED BY <2>4 DEF q, r, w
<1>7. Covers(A, B)
  <2>1. ASSUME NEW x \in 0 .. Width - 1, NEW y \in 0 .. Height - 1, XYPtr(x, y) \in A
        PROVE  y < LogoHeight /\ x \in left .. left + LogoWidth - 1
    <3>1. PICK i \in 0 .. LogoHeight * LogoWidth - 1 :
                XYPtr(x, y) = (i \div LogoWidth) * Width + (i % LogoWidth) + left
      BY <1>5, <2>1
    <3> DEFINE q == i \div LogoWidth
               z == (i % LogoWidth) + left
    <3>2. /\ q \in 0 .. LogoHeight - 1 /\ q \in 0 .. Height - 1 /\ z \in left .. left + LogoWidth - 1
          /\ z \in 0 .. Width - 1 /\ XYPtr(x, y) = XYPtr(z, q)
      BY <1>6, <3>1
    <3> HIDE DEF q, z
    <3>3. q \in Int
      BY <3>2
    <3>4. XYPtr(x, y) \div Width = y /\ XYPtr(x, y) % Width = x
      BY CellOfPlace
    <3>5. XYPtr(z, q) \div Width = q /\ XYPtr(z, q) % Width = z
      BY <3>2, <3>3, CellOfPlace
    <3>6. y = q /\ x = z
      BY <3>2, <3>4, <3>5
    <3> QED BY <1>1, <3>2, <3>6
  <2>2. ASSUME NEW x \in 0 .. Width - 1, NEW y \in 0 .. Height - 1,
               y < LogoHeight, x \in left .. left + LogoWidth - 1
        PROVE  XYPtr(x, y) \in A
    <3> DEFINE d == x - left
               i == y * LogoWidth + d
    <3>1. d \in 0 .. LogoWidth - 1 /\ y \in 0 .. LogoHeight - 1 /\ y \in Int /\ d + left = x
      BY <1>1, <2>2
    <3> HIDE DEF d
    <3>2. i \in 0 .. LogoHeight * LogoWidth - 1
      BY <1>1, <3>1, Grid
    <3>3. i \div LogoWidth = y /\ i % LogoWidth = d
      BY <1>1, <3>1, Division
    <3> HIDE DEF i
    <3>4. XYPtr(x, y) = (i \div LogoWidth) * Width + (i % LogoWidth) + left
      <4>1. XYPtr((i % LogoWidth) + left, i \div LogoWidth) = XYPtr(x, y)
        BY <3>1, <3>3
      <4> QED BY <1>6, <3>2, <4>1
    <3> QED BY <1>5, <3>2, <3>4
  <2> QED BY <1>4, <2>1, <2>2 DEF Covers
<1>8. ScreenEnd \notin A
  <2> SUFFICES ASSUME ScreenEnd \in A PROVE FALSE
    OBVIOUS
  <2>1. PICK i \in 0 .. LogoHeight * LogoWidth - 1 :
            ScreenEnd = (i \div LogoWidth) * Width + (i % LogoWidth) + left
    BY <1>5
  <2> DEFINE q == i \div LogoWidth
             z == (i % LogoWidth) + left
  <2>2. q \in 0 .. Height - 1 /\ z \in 0 .. Width - 1 /\ ScreenEnd = XYPtr(z, q)
    BY <1>6, <2>1
  <2> HIDE DEF q, z
  <2>3. q \in Int
    BY <2>2
  <2>4. XYPtr(z, q) \in 0 .. ScreenEnd - 1
    BY <2>2, <2>3, CellOfPlace
  <2> QED BY <1>1, <2>2, <2>4
<1>9. k \in 0 .. ScreenEnd - 1 /\ k \div Width = LogoHeight /\ k % Width = 0
  <2>1. 0 \in 0 .. Width - 1 /\ LogoHeight \in Int /\ LogoHeight \in 0 .. Height - 1
    BY <1>1
  <2> QED BY <2>1, CellOfPlace
<1>10. screenLib' = screenLib /\ screenCursor' = k
  BY Zenon DEF DisplayOSLogo
<1> HIDE DEF k
<1>11. /\ ScreenInv'
       /\ Shown!Becomes([rows |-> Overlaid(B, ch), row |-> k \div Width, col |-> k % Width])
  BY <1>2, <1>7, <1>8, <1>9, <1>10, RedrawStep
<1>12. Shown!Becomes([rows |-> Overlaid(B, ch), row |-> LogoHeight, col |-> 0])
  BY <1>9, <1>11
<1>13. Shown!Now.rows = [p \in (0 .. Height - 1) \X (0 .. Width - 1) |-> screenBuf[XYPtr(p[2], p[1])]]
  BY DEF Shown!Now
<1>14. Shown!Logo(ch)
  <2>1. Overlaid(B, ch) =
            [p \in Shown!Places |->
                IF p[1] < LogoHeight /\ p[2] \in left .. left + LogoWidth - 1 THEN ch
                ELSE [t \in (0 .. Height - 1) \X (0 .. Width - 1) |-> screenBuf[XYPtr(t[2], t[1])]][p]]
    BY <1>3, <1>13
  <2> QED BY <1>12, <2>1, Zenon DEF Shown!Logo, left
<1> QED BY <1>11, <1>14

\* Every step keeps the invariant, and is a step of the console or none.
LEMMA ScreenStep == ScreenInv /\ [ScreenNext]_screenVars => ScreenInv' /\ [Shown!ConsoleNext]_(Shown!consoleVars)
<1> SUFFICES ASSUME ScreenInv, [ScreenNext]_screenVars
             PROVE  ScreenInv' /\ [Shown!ConsoleNext]_(Shown!consoleVars)
  OBVIOUS
<1>1. CASE \E ch \in Glyphs \cup {"TAB", "NL", "CR", "BS"} : PrintString(ch)
  BY <1>1, PrintStep
<1>2. CASE BootClear
  BY <1>2, BootClearStep, Zenon DEF Shown!ConsoleNext
<1>3. CASE HwscrClear
  BY <1>3, HwscrClearStep, Zenon DEF Shown!ConsoleNext
<1>4. CASE \E ch \in Glyphs : DisplayOSLogo(ch)
  BY <1>4, LogoStep, Zenon DEF Shown!ConsoleNext
<1>5. CASE \E lines \in 0 .. Height : HwscrScroll(lines)
  BY <1>5, ScrollStep, Zenon DEF Shown!ConsoleNext
<1>6. CASE \E x1, x2 \in 0 .. Width - 1, y1, y2 \in 0 .. Height - 1 :
            XYPtr(x1, y1) <= XYPtr(x2, y2) /\ HwscrClearArea(x1, y1, x2, y2)
  <2>1. PICK x1, x2 \in 0 .. Width - 1, y1, y2 \in 0 .. Height - 1 : HwscrClearArea(x1, y1, x2, y2)
    BY <1>6
  <2>2. ScreenInv' /\ Shown!ClearArea(<<y1, x1>>, <<y2, x2>>)
    BY <2>1, ClearAreaStep
  <2>3. <<y1, x1>> \in Shown!Places /\ <<y2, x2>> \in Shown!Places
    BY DEF Shown!Places
  <2> QED BY <2>2, <2>3, Zenon DEF Shown!ConsoleNext
<1>7. CASE \E ch \in Glyphs, x \in 0 .. Width - 1, y \in 0 .. Height - 1 :
            \E n \in 1 .. Width - x : HwscrPrintAtXY(x, y, n, ch)
  <2>1. PICK ch \in Glyphs, x \in 0 .. Width - 1, y \in 0 .. Height - 1 :
            \E n \in 1 .. Width - x : HwscrPrintAtXY(x, y, n, ch)
    BY <1>7
  <2>2. PICK n \in 1 .. Width - x : HwscrPrintAtXY(x, y, n, ch)
    BY <2>1
  <2>3. ScreenInv' /\ Shown!PutAt(<<y, x>>, n, ch)
    BY <2>2, PrintAtStep
  <2>4. <<y, x>> \in Shown!Places /\ <<y, x>>[2] = x
    BY DEF Shown!Places
  <2>5. \E p \in Shown!Places : \E m \in 1 .. Width - p[2] : Shown!PutAt(p, m, ch)
    BY <2>2, <2>3, <2>4, Zenon
  <2> QED BY <2>3, <2>5, Zenon DEF Shown!ConsoleNext
<1>8. CASE UNCHANGED screenVars
  <2>1. screenLib' = screenLib /\ screenBuf' = screenBuf /\ screenCursor' = screenCursor
    BY <1>8 DEF screenVars
  <2>2. ScreenInv'
    BY <2>1 DEF ScreenInv, OnScreen, IsScreen, Current, ScreenEnd, XYPtr
  <2>3. UNCHANGED Shown!consoleVars
    BY <2>1 DEF Shown!consoleVars, XYPtr
  <2> QED BY <2>2, <2>3
<1> QED BY <1>1, <1>2, <1>3, <1>4, <1>5, <1>6, <1>7, <1>8 DEF ScreenNext

\* The memory is a screen with a cursor on it, and the boot screen leaves the
\* cell behind it alone.
THEOREM ScreenInvariant == ScreenSpec => []ScreenInv
<1>1. ScreenInit => ScreenInv
  BY ScreenInitInv
<1>2. ScreenInv /\ [ScreenNext]_screenVars => ScreenInv'
  BY ScreenStep
<1> QED BY <1>1, <1>2, PTL DEF ScreenSpec

\* Whatever the two libraries print, clear and scroll, and however large the
\* screen is, its memory shows what a console would, and the boot screen writes
\* to no memory but its own.
THEOREM ScreenImplementsConsole == ScreenSpec => ScreenIsConsole
<1>1. ScreenInit => ScreenInv /\ Shown!ConsoleInit
  BY ScreenInitInv
<1>2. ScreenInv /\ [ScreenNext]_screenVars => ScreenInv' /\ [Shown!ConsoleNext]_(Shown!consoleVars)
  BY ScreenStep
<1>3. ScreenInv => (screenLib = "boot" => screenBuf[ScreenEnd] = Foreign)
  BY DEF ScreenInv
<1> QED BY <1>1, <1>2, <1>3, ScreenInvariant, PTL DEF ScreenSpec, ScreenIsConsole, Shown!ConsoleSpec

===============================================================================
