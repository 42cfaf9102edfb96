------------------------------ MODULE MmuProofs ------------------------------
(***************************************************************************)
(* Proofs about physical pages and page tables, for any number of tables,  *)
(* any layout and any amount of memory.                                    *)
(***************************************************************************)
EXTENDS Mmu, TLAPS

-----------------------------------------------------------------------------
(***************************************************************************)
(* Addresses                                                               *)
(***************************************************************************)

\* Pages and addresses are integers.
LEMMA AddressTypes ==
    ASSUME NEW a \in Int
    PROVE  AddrToPage(a) \in Int /\ PageToAddr(a) \in Int /\ PageAlign(a) \in Int
<1>1. PageSize \in Nat /\ PageSize > 0
  BY MmuAssumption
<1>2. \A b \in Int : b \div PageSize \in Int /\ b * PageSize \in Int
  BY <1>1
<1> QED BY <1>1, <1>2 DEF AddrToPage, PageToAddr, PageAlign

\* The borders of a layout are integers.
LEMMA LayoutTypes ==
    ASSUME NEW p \in PT
    PROVE  /\ HeapBegin \in Int /\ HeapEnd(p) \in Int /\ StackBegin(p) \in Int
           /\ SharedDataEnd(p) \in Int /\ StackEnd(p) \in Int
           /\ StackTopPage(p) \in Int
<1>1. KrnPages \in Int /\ HeapPages[p] \in Int /\ StackSize[p] \in Int
      /\ DataSharedSize \in Int /\ PageSize \in Int
  BY MmuAssumption
<1>2. HeapBegin \in Int /\ HeapEnd(p) \in Int
  BY <1>1, AddressTypes DEF HeapBegin, HeapEnd
<1>3. StackBegin(p) \in Int
  BY <1>1, <1>2 DEF StackBegin
<1>4. SharedDataEnd(p) \in Int
  BY <1>1, <1>3, AddressTypes DEF SharedDataEnd
<1>5. StackEnd(p) \in Int
  BY <1>1, <1>4 DEF StackEnd
<1>6. StackTopPage(p) \in Int
  BY <1>5, AddressTypes DEF StackTopPage
<1> QED BY <1>2, <1>3, <1>4, <1>5, <1>6

OpType ==
    [fn : {"user", "set", "free", "commit", "rollback", "abort"},
     call : {"none", "heap", "stack", "setBrk", "growStack"},
     arg : Int, at : Int, last : Int]

\* A loop runs over integers.
LEMMA LoopType ==
    ASSUME NEW fn \in {"set", "free"},
           NEW call \in {"heap", "stack", "setBrk", "growStack"},
           NEW arg \in Int, NEW b \in Int, NEW e \in Int
    PROVE  /\ Loop(fn, call, arg, b, e) \in OpType
           /\ Loop(fn, call, arg, b, e).fn = fn
           /\ Loop(fn, call, arg, b, e).call = call
           /\ Loop(fn, call, arg, b, e).arg = arg
<1>1. AddrToPage(b) \in Int /\ AddrToPage(e - 1) \in Int
  BY AddressTypes
<1> QED BY <1>1 DEF Loop, OpType

LEMMA MapStackType ==
    ASSUME NEW p \in PT
    PROVE  /\ MapStack(p) \in OpType
           /\ MapStack(p).fn = "set" /\ MapStack(p).call = "stack"
<1>1. PageToAddr(StackTopPage(p)) \in Int /\ SharedDataEnd(p) \in Int
  BY LayoutTypes, AddressTypes
<1>2. AddrToPage(PageToAddr(StackTopPage(p))) \in Int
      /\ AddrToPage(SharedDataEnd(p) - 1) \in Int
  BY <1>1, AddressTypes
<1> QED BY <1>2 DEF MapStack, Loop, OpType

-----------------------------------------------------------------------------
(***************************************************************************)
(* The end of a transaction                                                *)
(***************************************************************************)

\* After a transaction nothing is tagged, and every page but a rolled back one
\* has the owner and the virtual page it had.
LEMMA FinishedProperties ==
    ASSUME MmuTypeOK, ptTransaction \in PT, NEW commit \in BOOLEAN
    PROVE  /\ Finished(commit) \in
                 [Frames -> [owner : PT \cup {NoPT, Tag}, vpage : Int]]
           /\ \A f \in Frames :
                 /\ Finished(commit)[f].owner # Tag
                 /\ commit \/ ppinfo[f].owner # Tag =>
                        /\ Finished(commit)[f].owner = OwnerOf(f)
                        /\ Finished(commit)[f].vpage = ppinfo[f].vpage
                 /\ ~commit /\ ppinfo[f].owner = Tag =>
                        Finished(commit)[f].owner = NoPT
BY MmuAssumption DEF MmuTypeOK, Finished, FreePage, OwnerOf

-----------------------------------------------------------------------------
(***************************************************************************)
(* One lemma for each action                                               *)
(***************************************************************************)

LEMMA InitPages == Init => PagesInv
<1> SUFFICES ASSUME Init PROVE PagesInv
  OBVIOUS
<1>1. HeapBegin \in Int
  BY MmuAssumption, AddressTypes DEF HeapBegin
<1>2. MmuTypeOK
  <2>1. \A p \in PT : DOMAIN pte[p] = {}
    BY DEF Init
  <2>2. ppinfo \in [Frames -> [owner : PT \cup {NoPT, Tag}, vpage : Int]]
    BY DEF Init, FreePage
  <2>3. brk \in [PT -> Int] /\ \A p \in PT : brk[p] >= HeapBegin
    BY <1>1 DEF Init
  <2>4. op \in OpType
    BY DEF Init, InUser, OpType
  <2>5. totalPages \in Ram /\ DOMAIN pte = PT /\ ptTransaction = NoPT /\ failed = FALSE
        /\ ptState \in [PT -> {"new", "live", "dead"}] /\ stackMapped \in [PT -> Int]
    BY DEF Init
  <2> QED BY <2>1, <2>2, <2>3, <2>4, <2>5 DEF MmuTypeOK, OpType
<1>3. Tagged = {}
  BY MmuAssumption DEF Init, Tagged, FreePage
<1>4. TransactionShape /\ CallerShape
  BY <1>3 DEF Init, TransactionShape, CallerShape, InUser
<1>5. OwnersLive /\ OwnedIsMapped
  BY MmuAssumption DEF Init, OwnersLive, OwnedIsMapped, OwnerOf, FreePage
<1>6. OwnedUntilFailure
  BY DEF Init, OwnedUntilFailure, PagesOwned
<1> QED BY <1>2, <1>4, <1>5, <1>6 DEF PagesInv

LEMMA StutterPages == PagesInv /\ UNCHANGED vars => PagesInv'
BY DEF vars, PagesInv, MmuTypeOK, TransactionShape, CallerShape, OwnersLive,
       OwnedIsMapped, OwnedUntilFailure, PagesOwned, OwnerOf, Tagged, Setting

\* Steps that only say what the kernel does next leave pages and tables alone.
LEMMA OwnershipKept ==
    ASSUME PagesInv, UNCHANGED <<ppinfo, ptTransaction, ptState, pte>>,
           failed => failed'
    PROVE  /\ OwnersLive' /\ OwnedIsMapped' /\ OwnedUntilFailure'
           /\ Tagged' = Tagged
BY DEF PagesInv, OwnersLive, OwnedIsMapped, OwnedUntilFailure, PagesOwned,
       OwnerOf, Tagged

LEMMA KeepPageStep == PagesInv /\ KeepPage => PagesInv'
<1> SUFFICES ASSUME PagesInv, KeepPage PROVE PagesInv'
  OBVIOUS
<1> USE DEF KeepPage, NextPage
<1>1. OwnersLive' /\ OwnedIsMapped' /\ OwnedUntilFailure' /\ Tagged' = Tagged
  BY OwnershipKept
<1>2. MmuTypeOK'
  BY DEF PagesInv, MmuTypeOK
<1>3. TransactionShape'
  BY <1>1 DEF PagesInv, TransactionShape, Setting, InUser, MmuTypeOK
<1>4. CallerShape'
  BY <1>1 DEF PagesInv, CallerShape, Setting, MmuTypeOK
<1> QED BY <1>1, <1>2, <1>3, <1>4 DEF PagesInv

LEMMA MapPageStep == PagesInv /\ MapPage => PagesInv'
<1> SUFFICES ASSUME PagesInv, MapPage PROVE PagesInv'
  OBVIOUS
<1>0. PICK t \in PT, a \in Int : t = ptTransaction /\ a = op.at
  BY DEF PagesInv, MmuTypeOK, TransactionShape, MapPage, Setting
<1>1. t = ptTransaction /\ a = op.at /\ op.fn = "set" /\ op.at <= op.last
  BY <1>0 DEF MapPage, Setting
<1>2. PICK f \in Frames :
        /\ f \in FreeFrames
        /\ ppinfo' = [ppinfo EXCEPT ![f] = [owner |-> Tag, vpage |-> a]]
        /\ pte' = [pte EXCEPT ![t] =
                    [v \in DOMAIN @ \cup {a} |-> IF v = a THEN f ELSE pte[t][v]]]
  BY <1>1 DEF MapPage, PpAlloc
<1>3. UNCHANGED <<totalPages, ptTransaction, ptState, brk, stackMapped, failed>>
      /\ op' = [op EXCEPT !.at = a + 1] /\ a \notin DOMAIN pte[t]
  BY <1>1 DEF MapPage, NextPage, HasPage
<1>4. /\ DOMAIN pte'[t] = DOMAIN pte[t] \cup {a}
      /\ pte'[t][a] = f
      /\ \A v \in DOMAIN pte[t] : pte'[t][v] = pte[t][v]
      /\ \A p \in PT \ {t} : pte'[p] = pte[p]
  BY <1>1, <1>2, <1>3 DEF PagesInv, MmuTypeOK
<1>5. /\ ppinfo[f].owner = NoPT
      /\ ppinfo'[f].owner = Tag /\ ppinfo'[f].vpage = a
      /\ \A g \in Frames \ {f} : ppinfo'[g] = ppinfo[g]
  BY <1>2 DEF PagesInv, MmuTypeOK, FreeFrames
<1>6. MmuTypeOK'
  <2>1. \A p \in PT : \A v \in DOMAIN pte'[p] : v \in Int /\ pte'[p][v] \in Frames
    BY <1>2, <1>4 DEF PagesInv, MmuTypeOK
  <2>2. ppinfo' \in [Frames -> [owner : PT \cup {NoPT, Tag}, vpage : Int]]
    BY <1>2 DEF PagesInv, MmuTypeOK
  <2>3. op' \in OpType
    BY <1>3 DEF PagesInv, MmuTypeOK, OpType
  <2> QED BY <1>2, <1>3, <2>1, <2>2, <2>3 DEF PagesInv, MmuTypeOK, OpType
<1>7. TransactionShape'
  BY <1>1, <1>3 DEF PagesInv, MmuTypeOK, TransactionShape, InUser
<1>8. CallerShape'
  <2>1. op.call = "growStack" => op.at = op.last
    <3>1. op.at \in Int /\ op.last \in Int
      BY DEF PagesInv, MmuTypeOK
    <3>2. op.call = "growStack" => op.at >= op.last
      BY <1>1 DEF PagesInv, CallerShape
    <3> QED BY <1>1, <3>1, <3>2
  <2>2. op.call = "growStack" => ~ Setting' /\ op'.at >= op'.last
    BY <1>1, <1>3, <2>1 DEF PagesInv, MmuTypeOK, Setting
  <2> QED BY <1>1, <1>3, <2>2 DEF PagesInv, MmuTypeOK, CallerShape
<1>9. OwnersLive'
  BY <1>3, <1>5, MmuAssumption DEF PagesInv, OwnersLive
<1>10. \A g \in Frames \ {f} : OwnerOf(g)' = OwnerOf(g)
  BY <1>3, <1>5 DEF OwnerOf
<1>11. OwnerOf(f)' = t
  BY <1>1, <1>3, <1>5 DEF OwnerOf
<1>12. OwnedIsMapped'
  <2> SUFFICES ASSUME NEW g \in Frames, NEW o, o = OwnerOf(g)', o # NoPT
               PROVE  ppinfo'[g].vpage \in DOMAIN pte'[o] /\ pte'[o][ppinfo'[g].vpage] = g
    BY DEF OwnedIsMapped
  <2>1. CASE g = f
    BY <1>4, <1>5, <1>11, <2>1
  <2>2. CASE g # f
    <3>1. o = OwnerOf(g) /\ ppinfo'[g] = ppinfo[g]
      BY <1>5, <1>10, <2>2
    <3>2. ppinfo[g].vpage \in DOMAIN pte[o] /\ pte[o][ppinfo[g].vpage] = g
      BY <3>1 DEF PagesInv, OwnedIsMapped
    <3>3. o \in PT
      BY <1>0, <3>1 DEF OwnerOf, PagesInv, MmuTypeOK
    <3> QED BY <1>4, <3>1, <3>2, <3>3
  <2> QED BY <2>1, <2>2
<1>13. OwnedUntilFailure'
  <2> SUFFICES ASSUME ~ failed, NEW p \in PT, NEW v \in DOMAIN pte'[p],
                      NEW g, g = pte'[p][v]
               PROVE  OwnerOf(g)' = p /\ ppinfo'[g].vpage = v
    BY <1>3 DEF OwnedUntilFailure, PagesOwned
  <2>1. CASE p = t /\ v = a
    BY <1>4, <1>5, <1>11, <2>1
  <2>2. CASE ~ (p = t /\ v = a)
    <3>1. v \in DOMAIN pte[p] /\ g = pte[p][v]
      BY <1>4, <2>2
    <3>2. OwnerOf(g) = p /\ ppinfo[g].vpage = v /\ g \in Frames
      BY <3>1 DEF PagesInv, OwnedUntilFailure, PagesOwned, MmuTypeOK
    <3>3. g # f
      BY <1>5, <3>2, MmuAssumption DEF OwnerOf
    <3> QED BY <1>5, <1>10, <3>2, <3>3
  <2> QED BY <2>1, <2>2
<1> QED BY <1>6, <1>7, <1>8, <1>9, <1>12, <1>13 DEF PagesInv

LEMMA OutOfPagesStep == PagesInv /\ OutOfPages => PagesInv'
<1> SUFFICES ASSUME PagesInv, OutOfPages PROVE PagesInv'
  OBVIOUS
<1> DEFINE t == ptTransaction
<1>1. t \in PT /\ op.fn = "set" /\ op.at <= op.last
  BY DEF PagesInv, MmuTypeOK, TransactionShape, OutOfPages, Setting
<1>2. /\ op' = IF op.call = "heap" THEN MapStack(t) ELSE [op EXCEPT !.fn = "rollback"]
      /\ failed' = (failed \/ op.call = "setBrk")
      /\ UNCHANGED <<totalPages, ppinfo, ptTransaction, ptState, pte, brk, stackMapped>>
  BY DEF OutOfPages
<1>3. OwnersLive' /\ OwnedIsMapped' /\ OwnedUntilFailure' /\ Tagged' = Tagged
  BY <1>2, OwnershipKept DEF PagesInv, MmuTypeOK
<1>4. /\ MapStack(t) \in OpType
      /\ MapStack(t).fn = "set" /\ MapStack(t).call = "stack"
  BY <1>1, MapStackType
<1>5. op' \in OpType
  BY <1>2, <1>4 DEF PagesInv, MmuTypeOK, OpType
<1>6. MmuTypeOK'
  BY <1>2, <1>5 DEF PagesInv, MmuTypeOK, OpType
<1>7. \/ op.call = "heap" /\ op'.fn = "set" /\ op'.call = "stack"
      \/ /\ op.call # "heap" /\ op'.fn = "rollback"
         /\ op'.call = op.call /\ op'.arg = op.arg
  BY <1>2, <1>4 DEF PagesInv, MmuTypeOK
<1>8. TransactionShape'
  BY <1>1, <1>2, <1>7 DEF PagesInv, TransactionShape, MmuTypeOK
<1>9. CallerShape'
  BY <1>1, <1>2, <1>3, <1>7 DEF PagesInv, CallerShape, Setting
<1> QED BY <1>3, <1>6, <1>8, <1>9 DEF PagesInv

LEMMA RangeSetStep == PagesInv /\ RangeSet => PagesInv'
<1> SUFFICES ASSUME PagesInv, RangeSet PROVE PagesInv'
  OBVIOUS
<1> DEFINE t == ptTransaction
<1>1. t \in PT /\ op.fn = "set"
  BY DEF PagesInv, MmuTypeOK, TransactionShape, RangeSet
<1>2. /\ op' = IF op.call = "heap" THEN MapStack(t) ELSE [op EXCEPT !.fn = "commit"]
      /\ UNCHANGED <<totalPages, ppinfo, ptTransaction, ptState, pte, brk, stackMapped,
                     failed>>
  BY DEF RangeSet
<1>3. OwnersLive' /\ OwnedIsMapped' /\ OwnedUntilFailure' /\ Tagged' = Tagged
  BY <1>2, OwnershipKept
<1>4. /\ MapStack(t) \in OpType
      /\ MapStack(t).fn = "set" /\ MapStack(t).call = "stack"
  BY <1>1, MapStackType
<1>5. op' \in OpType
  BY <1>2, <1>4 DEF PagesInv, MmuTypeOK, OpType
<1>6. MmuTypeOK'
  BY <1>2, <1>5 DEF PagesInv, MmuTypeOK, OpType
<1>7. \/ op.call = "heap" /\ op'.fn = "set" /\ op'.call = "stack"
      \/ /\ op.call # "heap" /\ op'.fn = "commit"
         /\ op'.call = op.call /\ op'.arg = op.arg
  BY <1>2, <1>4 DEF PagesInv, MmuTypeOK
<1>8. TransactionShape'
  BY <1>1, <1>2, <1>7 DEF PagesInv, TransactionShape, MmuTypeOK
<1>9. CallerShape'
  BY <1>1, <1>2, <1>3, <1>7 DEF PagesInv, CallerShape, Setting
<1> QED BY <1>3, <1>6, <1>8, <1>9 DEF PagesInv

LEMMA ReleasePageStep == PagesInv /\ ReleasePage => PagesInv'
<1> SUFFICES ASSUME PagesInv, ReleasePage PROVE PagesInv'
  OBVIOUS
<1>0. PICK t \in PT, a \in Int : t = ptTransaction /\ a = op.at
  BY DEF PagesInv, MmuTypeOK, TransactionShape, ReleasePage
<1>1. t = ptTransaction /\ a = op.at /\ op.fn = "free"
  BY <1>0 DEF ReleasePage
<1>2. /\ op' = [op EXCEPT !.at = a + 1]
      /\ UNCHANGED <<totalPages, ptTransaction, ptState, brk, stackMapped, failed>>
  BY <1>1 DEF ReleasePage, NextPage
<1>3. op'.fn = "free" /\ op'.call = op.call /\ op'.arg = op.arg /\ op' \in OpType
  BY <1>1, <1>2 DEF PagesInv, MmuTypeOK, OpType
<1>4. CASE ~ HasPage
  <2>1. UNCHANGED <<ppinfo, pte>>
    BY <1>4 DEF ReleasePage
  <2>2. OwnersLive' /\ OwnedIsMapped' /\ OwnedUntilFailure' /\ Tagged' = Tagged
    BY <1>2, <2>1, OwnershipKept
  <2>3. MmuTypeOK'
    BY <1>2, <1>3, <2>1 DEF PagesInv, MmuTypeOK, OpType
  <2>4. TransactionShape'
    BY <1>1, <1>2, <1>3, <2>2 DEF PagesInv, TransactionShape
  <2>5. CallerShape'
    BY <1>1, <1>2, <1>3, <2>2 DEF PagesInv, CallerShape, Setting
  <2> QED BY <2>2, <2>3, <2>4, <2>5 DEF PagesInv
<1>5. CASE HasPage
  <2>1. a \in DOMAIN pte[t] /\ pte[t][a] \in Frames
    BY <1>1, <1>5 DEF HasPage, PagesInv, MmuTypeOK
  <2>0. PICK f \in Frames : f = pte[t][a]
    BY <2>1
  <2>2. /\ ppinfo' = [ppinfo EXCEPT ![f] = FreePage]
        /\ pte' = [pte EXCEPT ![t] = [v \in DOMAIN @ \ {a} |-> pte[t][v]]]
    BY <1>1, <1>5, <2>0 DEF ReleasePage
  <2>3. /\ DOMAIN pte'[t] = DOMAIN pte[t] \ {a}
        /\ \A v \in DOMAIN pte'[t] : pte'[t][v] = pte[t][v]
        /\ \A p \in PT \ {t} : pte'[p] = pte[p]
    BY <1>1, <2>2 DEF PagesInv, MmuTypeOK
  <2>4. /\ ppinfo'[f].owner = NoPT
        /\ \A g \in Frames \ {f} : ppinfo'[g] = ppinfo[g]
    BY <2>1, <2>2 DEF PagesInv, MmuTypeOK, FreePage
  <2>5. MmuTypeOK'
    BY <1>1, <1>2, <1>3, <2>1, <2>2, <2>3 DEF PagesInv, MmuTypeOK, OpType, FreePage
  <2>6. Tagged' \subseteq Tagged
    BY <2>4, MmuAssumption DEF Tagged
  <2>7. TransactionShape'
    BY <1>1, <1>2, <1>3 DEF PagesInv, TransactionShape, MmuTypeOK
  <2>8. CallerShape'
    BY <1>1, <1>2, <1>3, <2>6 DEF PagesInv, CallerShape, Setting
  <2>9. OwnersLive'
    BY <1>2, <2>4, MmuAssumption DEF PagesInv, OwnersLive
  <2>10. \A g \in Frames \ {f} : OwnerOf(g)' = OwnerOf(g)
    BY <1>2, <2>4 DEF OwnerOf
  <2>11. OwnerOf(f)' = NoPT
    BY <2>4, MmuAssumption DEF OwnerOf
  <2>12. OwnedIsMapped'
    <3> SUFFICES ASSUME NEW g \in Frames, NEW o, o = OwnerOf(g)', o # NoPT
                 PROVE  /\ ppinfo'[g].vpage \in DOMAIN pte'[o]
                        /\ pte'[o][ppinfo'[g].vpage] = g
      BY DEF OwnedIsMapped
    <3>1. g # f /\ o = OwnerOf(g) /\ ppinfo'[g] = ppinfo[g]
      BY <2>4, <2>10, <2>11
    <3>2. ppinfo[g].vpage \in DOMAIN pte[o] /\ pte[o][ppinfo[g].vpage] = g
      BY <3>1 DEF PagesInv, OwnedIsMapped
    <3>3. o \in PT
      BY <1>0, <3>1 DEF OwnerOf, PagesInv, MmuTypeOK
    <3>4. ~ (o = t /\ ppinfo[g].vpage = a)
      BY <2>0, <3>1, <3>2
    <3> QED BY <2>3, <3>1, <3>2, <3>3, <3>4
  <2>13. OwnedUntilFailure'
    <3> SUFFICES ASSUME ~ failed, NEW p \in PT, NEW v \in DOMAIN pte'[p],
                        NEW g, g = pte'[p][v]
                 PROVE  OwnerOf(g)' = p /\ ppinfo'[g].vpage = v
      BY <1>2 DEF OwnedUntilFailure, PagesOwned
    <3>1. v \in DOMAIN pte[p] /\ g = pte[p][v] /\ ~ (p = t /\ v = a)
      BY <2>3
    <3>2. OwnerOf(g) = p /\ ppinfo[g].vpage = v /\ g \in Frames
      BY <3>1 DEF PagesInv, OwnedUntilFailure, PagesOwned, MmuTypeOK
    <3>3. OwnerOf(f) = t /\ ppinfo[f].vpage = a
      BY <2>0, <2>1 DEF PagesInv, OwnedUntilFailure, PagesOwned
    <3>4. g # f
      BY <3>1, <3>2, <3>3
    <3> QED BY <2>4, <2>10, <3>2, <3>4
  <2> QED BY <2>5, <2>7, <2>8, <2>9, <2>12, <2>13 DEF PagesInv
<1> QED BY <1>4, <1>5

LEMMA RangeFreedStep == PagesInv /\ RangeFreed => PagesInv'
<1> SUFFICES ASSUME PagesInv, RangeFreed PROVE PagesInv'
  OBVIOUS
<1>1. /\ op.fn = "free" /\ op' = [op EXCEPT !.fn = "commit"]
      /\ UNCHANGED <<totalPages, ppinfo, ptTransaction, ptState, pte, brk, stackMapped,
                     failed>>
  BY DEF RangeFreed
<1>2. OwnersLive' /\ OwnedIsMapped' /\ OwnedUntilFailure' /\ Tagged' = Tagged
  BY <1>1, OwnershipKept
<1>3. MmuTypeOK' /\ op'.fn = "commit" /\ op'.call = op.call /\ op'.arg = op.arg
  BY <1>1 DEF PagesInv, MmuTypeOK
<1>4. TransactionShape'
  BY <1>1, <1>2, <1>3 DEF PagesInv, TransactionShape
<1>5. CallerShape'
  BY <1>1, <1>2, <1>3 DEF PagesInv, CallerShape, Setting
<1> QED BY <1>2, <1>3, <1>4, <1>5 DEF PagesInv

\* A caller that opens a transaction and enters a loop keeps the ownership.
LEMMA TransactionOpened ==
    ASSUME PagesInv, op = InUser,
           NEW t \in PT, ptTransaction = NoPT, ptTransaction' = t,
           UNCHANGED <<ppinfo, ptState, pte, failed>>
    PROVE  /\ OwnersLive' /\ OwnedIsMapped' /\ OwnedUntilFailure'
           /\ Tagged = {} /\ Tagged' = {}
<1>1. Tagged = {} /\ Tagged' = {}
  BY DEF PagesInv, TransactionShape, Tagged
<1>2. \A f \in Frames : ppinfo[f].owner # Tag
  BY <1>1 DEF Tagged
<1>3. \A f \in Frames : OwnerOf(f)' = OwnerOf(f)
  BY <1>2 DEF OwnerOf
<1>4. OwnersLive'
  BY DEF PagesInv, OwnersLive
<1>5. OwnedIsMapped'
  BY <1>3 DEF PagesInv, OwnedIsMapped
<1>6. OwnedUntilFailure'
  BY <1>3 DEF PagesInv, OwnedUntilFailure, PagesOwned, MmuTypeOK
<1> QED BY <1>1, <1>4, <1>5, <1>6

LEMMA CreateUsrPTStep ==
    ASSUME NEW p \in PT, PagesInv, CreateUsrPT(p)
    PROVE  PagesInv'
<1>1. /\ op = InUser /\ ptState[p] = "new"
      /\ ptTransaction = NoPT /\ ptTransaction' = p
      /\ UNCHANGED <<totalPages, ppinfo, ptState, pte, failed>>
      /\ stackMapped' = [stackMapped EXCEPT ![p] = PageToAddr(StackTopPage(p))]
  BY DEF CreateUsrPT, BeginTransaction
<1>2. OwnersLive' /\ OwnedIsMapped' /\ OwnedUntilFailure' /\ Tagged' = {}
  BY <1>1, TransactionOpened
<1>3. HeapBegin \in Int /\ PageToAddr(StackTopPage(p)) \in Int /\ PageSize \in Nat
  BY LayoutTypes, AddressTypes, MmuAssumption
<1>4. /\ Loop("set", "heap", 0, HeapBegin, HeapBegin + 1) \in OpType
      /\ Loop("set", "heap", 0, HeapBegin, HeapBegin + 1).fn = "set"
      /\ Loop("set", "heap", 0, HeapBegin, HeapBegin + 1).call = "heap"
  <2>1. AddrToPage(HeapBegin) \in Int /\ AddrToPage(HeapBegin + 1 - 1) \in Int
    BY <1>3, AddressTypes
  <2>2. Loop("set", "heap", 0, HeapBegin, HeapBegin + 1) =
          [fn |-> "set", call |-> "heap", arg |-> 0,
           at |-> AddrToPage(HeapBegin), last |-> AddrToPage(HeapBegin + 1 - 1)]
    BY <1>3 DEF Loop
  <2> QED BY <2>1, <2>2 DEF OpType
<1>5. op' \in OpType /\ op'.fn = "set" /\ op'.call \in {"heap", "stack"}
  BY <1>4, MapStackType DEF CreateUsrPT
<1>6. brk' \in [PT -> Int] /\ \A q \in PT : brk'[q] >= HeapBegin
  <2>1. brk \in [PT -> Int] /\ \A q \in PT : brk[q] >= HeapBegin
    BY DEF PagesInv, MmuTypeOK
  <2>2. brk' = brk \/ brk' = [brk EXCEPT ![p] = HeapBegin + PageSize]
    BY DEF CreateUsrPT
  <2> QED BY <1>3, <2>1, <2>2
<1>7. MmuTypeOK'
  BY <1>1, <1>3, <1>5, <1>6 DEF PagesInv, MmuTypeOK, OpType
<1>8. TransactionShape'
  BY <1>1, <1>2, <1>5, MmuAssumption DEF TransactionShape
<1>9. CallerShape'
  BY <1>5 DEF CallerShape
<1> QED BY <1>2, <1>7, <1>8, <1>9 DEF PagesInv

\* The three calls that open a transaction for a running process.
LEMMA CallStarted ==
    ASSUME PagesInv, NEW p \in PT, Running(p), BeginTransaction(p),
           UNCHANGED <<totalPages, ppinfo, ptState, pte, brk, stackMapped, failed>>,
           op' \in OpType, op'.fn \in {"set", "free"},
           \/ op'.call = "setBrk" /\ op'.arg >= HeapBegin
           \/ op'.call = "growStack" /\ op'.at >= op'.last
    PROVE  PagesInv'
<1>1. /\ op = InUser /\ ptState[p] = "live"
      /\ ptTransaction = NoPT /\ ptTransaction' = p
  BY DEF Running, BeginTransaction
<1>2. OwnersLive' /\ OwnedIsMapped' /\ OwnedUntilFailure' /\ Tagged' = {}
  BY <1>1, TransactionOpened
<1>3. MmuTypeOK'
  BY <1>1 DEF PagesInv, MmuTypeOK, OpType
<1>4. TransactionShape'
  BY <1>1, <1>2, MmuAssumption DEF TransactionShape
<1>5. CallerShape'
  BY <1>2 DEF CallerShape
<1> QED BY <1>2, <1>3, <1>4, <1>5 DEF PagesInv

\* Addresses that a process passes are integers.
LEMMA UserAddress ==
    ASSUME NEW p \in PT, NEW a \in UserSpace(p)
    PROVE  a \in Int
BY LayoutTypes DEF UserSpace

LEMMA ExpandHeapStep ==
    ASSUME NEW p \in PT, NEW a \in UserSpace(p), PagesInv, ExpandHeap(p, a)
    PROVE  PagesInv'
<1>1. a \in Int /\ brk[p] \in Int /\ a >= HeapBegin
  BY UserAddress DEF ExpandHeap, BrkAllowed, PagesInv, MmuTypeOK
<1>2. AddrToPage(brk[p]) \in Int /\ AddrToPage(a - 1) \in Int
  BY <1>1, AddressTypes
<1>3. op' = Loop("set", "setBrk", a, brk[p], a)
  BY DEF ExpandHeap
<1>4. op' \in OpType /\ op'.fn = "set" /\ op'.call = "setBrk" /\ op'.arg = a
  BY <1>1, <1>2, <1>3 DEF Loop, OpType
<1> QED BY <1>1, <1>4, CallStarted DEF ExpandHeap

LEMMA ContractHeapStep ==
    ASSUME NEW p \in PT, NEW a \in UserSpace(p), PagesInv, ContractHeap(p, a)
    PROVE  PagesInv'
<1>1. a \in Int /\ brk[p] \in Int /\ a >= HeapBegin
  BY UserAddress DEF ContractHeap, BrkAllowed, PagesInv, MmuTypeOK
<1>2. PageAlign(a) \in Int /\ PageAlign(brk[p]) \in Int
  BY <1>1, AddressTypes
<1>3. AddrToPage(PageAlign(a)) \in Int /\ AddrToPage(PageAlign(brk[p]) - 1) \in Int
  BY <1>2, AddressTypes
<1>4. op' = Loop("free", "setBrk", a, PageAlign(a), PageAlign(brk[p]))
  BY DEF ContractHeap
<1>5. op' \in OpType /\ op'.fn = "free" /\ op'.call = "setBrk" /\ op'.arg = a
  BY <1>1, <1>3, <1>4 DEF Loop, OpType
<1> QED BY <1>1, <1>5, CallStarted DEF ContractHeap

LEMMA GrowStackStep ==
    ASSUME NEW p \in PT, NEW a \in UserSpace(p), PagesInv, GrowStack(p, a)
    PROVE  PagesInv'
<1>1. a \in Int /\ a + 1 - 1 = a
  BY UserAddress
<1>2. AddrToPage(a) \in Int
  BY <1>1, AddressTypes
<1>3. op' = Loop("set", "growStack", a, a, a + 1)
  BY DEF GrowStack
<1>4. /\ op' \in OpType /\ op'.fn = "set" /\ op'.call = "growStack"
      /\ op'.at = AddrToPage(a) /\ op'.last = AddrToPage(a)
  BY <1>1, <1>2, <1>3 DEF Loop, OpType
<1>5. op'.at >= op'.last
  BY <1>2, <1>4
<1> QED BY <1>4, <1>5, CallStarted DEF GrowStack

LEMMA MoveBrkStep ==
    ASSUME NEW p \in PT, NEW a \in UserSpace(p), PagesInv, MoveBrk(p, a)
    PROVE  PagesInv'
<1>1. OwnersLive' /\ OwnedIsMapped' /\ OwnedUntilFailure' /\ Tagged' = Tagged
  BY OwnershipKept DEF MoveBrk
<1>2. a \in Int /\ a >= HeapBegin
  BY UserAddress DEF MoveBrk, BrkAllowed
<1>3. MmuTypeOK'
  BY <1>2 DEF MoveBrk, PagesInv, MmuTypeOK
<1>4. TransactionShape'
  BY <1>1 DEF MoveBrk, PagesInv, TransactionShape
<1>5. CallerShape'
  BY <1>1 DEF MoveBrk, PagesInv, CallerShape, Setting
<1> QED BY <1>1, <1>3, <1>4, <1>5 DEF PagesInv

\* Tables that stay as they are map their own pages as long as every owned page
\* keeps its owner and its virtual page.
LEMMA OwnersStay ==
    ASSUME MmuTypeOK, PagesOwned, pte' = pte,
           \A f \in Frames : OwnerOf(f) \in PT =>
               ppinfo'[f].owner = OwnerOf(f) /\ ppinfo'[f].vpage = ppinfo[f].vpage
    PROVE  PagesOwned'
<1>1. \A p \in PT : \A v \in DOMAIN pte'[p] :
        /\ pte'[p][v] \in Frames
        /\ OwnerOf(pte'[p][v]) = p /\ ppinfo[pte'[p][v]].vpage = v
  BY DEF MmuTypeOK, PagesOwned
<1>2. \A p \in PT : \A v \in DOMAIN pte'[p] :
        /\ ppinfo'[pte'[p][v]].owner = p /\ p # Tag
        /\ ppinfo'[pte'[p][v]].vpage = v
  BY <1>1, MmuAssumption
<1> QED BY <1>2 DEF PagesOwned, OwnerOf

\* A committed transaction gives every page the owner it was meant for.
LEMMA Committed ==
    ASSUME PagesInv, NEW t \in PT, ptTransaction = t,
           ppinfo' = Finished(TRUE), ptTransaction' = NoPT, pte' = pte,
           ptState' = [ptState EXCEPT ![t] = "live"], failed' = failed
    PROVE  /\ ppinfo' \in [Frames -> [owner : PT \cup {NoPT, Tag}, vpage : Int]]
           /\ OwnersLive' /\ OwnedIsMapped' /\ OwnedUntilFailure' /\ Tagged' = {}
<1>1. /\ ppinfo' \in [Frames -> [owner : PT \cup {NoPT, Tag}, vpage : Int]]
      /\ \A f \in Frames :
            /\ ppinfo'[f].owner # Tag
            /\ ppinfo'[f].owner = OwnerOf(f)
            /\ ppinfo'[f].vpage = ppinfo[f].vpage
  BY FinishedProperties DEF PagesInv
<1>2. \A f \in Frames : OwnerOf(f)' = OwnerOf(f)
  BY <1>1 DEF OwnerOf
<1>3. Tagged' = {}
  BY <1>1 DEF Tagged
<1>4. OwnersLive'
  BY <1>1 DEF PagesInv, OwnersLive, OwnerOf, MmuTypeOK
<1>5. OwnedIsMapped'
  BY <1>1, <1>2 DEF PagesInv, OwnedIsMapped
<1>6. ASSUME ~ failed PROVE PagesOwned'
  BY <1>1, <1>6, OwnersStay DEF PagesInv, OwnedUntilFailure
<1>7. OwnedUntilFailure'
  BY <1>6 DEF OwnedUntilFailure
<1> QED BY <1>1, <1>3, <1>4, <1>5, <1>7

\* A transaction that is rolled back frees the tagged pages and no others.
LEMMA RolledBack ==
    ASSUME PagesInv, NEW t \in PT, ptTransaction = t,
           ppinfo' = Finished(FALSE), ptTransaction' = NoPT
    PROVE  /\ ppinfo' \in [Frames -> [owner : PT \cup {NoPT, Tag}, vpage : Int]]
           /\ Tagged' = {}
           /\ \A f \in Frames :
                 \/ /\ OwnerOf(f)' = OwnerOf(f) /\ ppinfo'[f].vpage = ppinfo[f].vpage
                    /\ ppinfo'[f].owner = ppinfo[f].owner /\ f \notin Tagged
                 \/ /\ OwnerOf(f)' = NoPT /\ OwnerOf(f) = t /\ f \in Tagged
                    /\ ppinfo'[f].owner = NoPT
<1>1. /\ ppinfo' \in [Frames -> [owner : PT \cup {NoPT, Tag}, vpage : Int]]
      /\ \A f \in Frames :
            /\ ppinfo'[f].owner # Tag
            /\ ppinfo[f].owner # Tag =>
                 ppinfo'[f].owner = OwnerOf(f) /\ ppinfo'[f].vpage = ppinfo[f].vpage
            /\ ppinfo[f].owner = Tag => ppinfo'[f].owner = NoPT
  BY FinishedProperties DEF PagesInv
<1>2. Tagged' = {}
  BY <1>1 DEF Tagged
<1> QED BY <1>1, <1>2 DEF OwnerOf, Tagged

LEMMA FinishCreateStep == PagesInv /\ FinishCreate => PagesInv'
<1> SUFFICES ASSUME PagesInv, FinishCreate PROVE PagesInv'
  OBVIOUS
<1>0. PICK t \in PT : t = ptTransaction
  BY DEF PagesInv, MmuTypeOK, TransactionShape, FinishCreate
<1>1. ptState[t] = "new"
  BY <1>0, MmuAssumption DEF PagesInv, TransactionShape, FinishCreate
<1>2. /\ ptTransaction' = NoPT /\ op' = InUser
      /\ UNCHANGED <<totalPages, brk, stackMapped, failed>>
  BY DEF FinishCreate
<1>3. op' \in OpType
  BY <1>2 DEF InUser, OpType
<1>4. Tagged' = {} => TransactionShape' /\ CallerShape'
  BY <1>2 DEF TransactionShape, CallerShape, InUser
<1>5. CASE op.fn = "commit"
  <2>1. /\ ppinfo' = Finished(TRUE)
        /\ ptState' = [ptState EXCEPT ![t] = "live"]
        /\ pte' = pte
    BY <1>0, <1>5 DEF FinishCreate
  <2>2. /\ ppinfo' \in [Frames -> [owner : PT \cup {NoPT, Tag}, vpage : Int]]
        /\ OwnersLive' /\ OwnedIsMapped' /\ OwnedUntilFailure' /\ Tagged' = {}
    BY <1>0, <1>2, <2>1, Committed
  <2>3. MmuTypeOK'
    BY <1>0, <1>2, <1>3, <2>1, <2>2 DEF PagesInv, MmuTypeOK, OpType
  <2> QED BY <1>4, <2>2, <2>3 DEF PagesInv
<1>6. CASE op.fn = "rollback"
  <2>1. /\ ppinfo' = Finished(FALSE)
        /\ ptState' = [ptState EXCEPT ![t] = "dead"]
        /\ pte' = [pte EXCEPT ![t] = << >>]
    BY <1>0, <1>6 DEF FinishCreate
  <2>2. /\ ppinfo' \in [Frames -> [owner : PT \cup {NoPT, Tag}, vpage : Int]]
        /\ Tagged' = {}
        /\ \A f \in Frames :
              \/ /\ OwnerOf(f)' = OwnerOf(f) /\ ppinfo'[f].vpage = ppinfo[f].vpage
                 /\ ppinfo'[f].owner = ppinfo[f].owner /\ f \notin Tagged
              \/ /\ OwnerOf(f)' = NoPT /\ OwnerOf(f) = t /\ f \in Tagged
                 /\ ppinfo'[f].owner = NoPT
    BY <1>0, <1>2, <2>1, RolledBack
  <2>3. /\ DOMAIN pte' = PT /\ DOMAIN pte'[t] = {}
        /\ \A p \in PT \ {t} : pte'[p] = pte[p]
    BY <2>1 DEF PagesInv, MmuTypeOK
  <2>4. MmuTypeOK'
    BY <1>0, <1>2, <1>3, <2>1, <2>2, <2>3 DEF PagesInv, MmuTypeOK, OpType
  <2>5. \A f \in Frames \ Tagged : OwnerOf(f) # t
    BY <1>0, <1>1, MmuAssumption DEF PagesInv, OwnersLive, OwnerOf, Tagged
  <2>6. OwnersLive'
    <3>1. \A f \in Frames : ppinfo'[f].owner \in PT =>
            ppinfo'[f].owner = ppinfo[f].owner /\ ppinfo[f].owner # t
      BY <1>1, <2>2, MmuAssumption DEF PagesInv, OwnersLive
    <3> QED BY <2>1, <3>1 DEF PagesInv, OwnersLive, MmuTypeOK
  <2>7. OwnedIsMapped'
    <3> SUFFICES ASSUME NEW g \in Frames, NEW o, o = OwnerOf(g)', o # NoPT
                 PROVE  /\ ppinfo'[g].vpage \in DOMAIN pte'[o]
                        /\ pte'[o][ppinfo'[g].vpage] = g
      BY DEF OwnedIsMapped
    <3>1. o = OwnerOf(g) /\ o # t /\ ppinfo'[g].vpage = ppinfo[g].vpage
      BY <2>2, <2>5
    <3>2. o \in PT
      BY <1>0, <3>1 DEF OwnerOf, PagesInv, MmuTypeOK
    <3> QED BY <2>3, <3>1, <3>2 DEF PagesInv, OwnedIsMapped
  <2>8. OwnedUntilFailure'
    <3> SUFFICES ASSUME ~ failed, NEW p \in PT, NEW v \in DOMAIN pte'[p],
                        NEW g, g = pte'[p][v]
                 PROVE  OwnerOf(g)' = p /\ ppinfo'[g].vpage = v
      BY <1>2 DEF OwnedUntilFailure, PagesOwned
    <3>1. p # t /\ v \in DOMAIN pte[p] /\ g = pte[p][v]
      BY <2>3
    <3>2. OwnerOf(g) = p /\ ppinfo[g].vpage = v /\ g \in Frames
      BY <3>1 DEF PagesInv, OwnedUntilFailure, PagesOwned, MmuTypeOK
    <3> QED BY <2>2, <3>1, <3>2
  <2> QED BY <1>4, <2>2, <2>4, <2>6, <2>7, <2>8 DEF PagesInv
<1> QED BY <1>5, <1>6 DEF FinishCreate

\* After a rollback that leaves the table as it is: ownership, whatever the
\* entries that now map pages of nobody.
LEMMA RolledBackOwnership ==
    ASSUME PagesInv, NEW t \in PT, ptTransaction = t,
           ppinfo' = Finished(FALSE), ptTransaction' = NoPT,
           UNCHANGED <<pte, ptState, failed>>,
           failed \/ Tagged = {}
    PROVE  /\ ppinfo' \in [Frames -> [owner : PT \cup {NoPT, Tag}, vpage : Int]]
           /\ OwnersLive' /\ OwnedIsMapped' /\ OwnedUntilFailure' /\ Tagged' = {}
<1>1. /\ ppinfo' \in [Frames -> [owner : PT \cup {NoPT, Tag}, vpage : Int]]
      /\ Tagged' = {}
      /\ \A f \in Frames :
            \/ /\ OwnerOf(f)' = OwnerOf(f) /\ ppinfo'[f].vpage = ppinfo[f].vpage
               /\ ppinfo'[f].owner = ppinfo[f].owner /\ f \notin Tagged
            \/ /\ OwnerOf(f)' = NoPT /\ OwnerOf(f) = t /\ f \in Tagged
               /\ ppinfo'[f].owner = NoPT
  BY RolledBack
<1>2. OwnersLive'
  BY <1>1, MmuAssumption DEF PagesInv, OwnersLive
<1>3. OwnedIsMapped'
  BY <1>1 DEF PagesInv, OwnedIsMapped
<1>4. ASSUME ~ failed PROVE PagesOwned'
  <2>1. \A f \in Frames : ppinfo[f].owner # Tag /\ OwnerOf(f) = ppinfo[f].owner
    BY <1>4 DEF Tagged, OwnerOf
  <2>2. \A f \in Frames :
          ppinfo'[f].owner = OwnerOf(f) /\ ppinfo'[f].vpage = ppinfo[f].vpage
    BY <1>1, <1>4, <2>1
  <2> QED BY <1>4, <2>2, OwnersStay DEF PagesInv, OwnedUntilFailure
<1>5. OwnedUntilFailure'
  BY <1>4 DEF OwnedUntilFailure
<1> QED BY <1>1, <1>2, <1>3, <1>5

LEMMA FinishSetBrkStep == PagesInv /\ FinishSetBrk => PagesInv'
<1> SUFFICES ASSUME PagesInv, FinishSetBrk PROVE PagesInv'
  OBVIOUS
<1>0. PICK t \in PT : t = ptTransaction
  BY DEF PagesInv, MmuTypeOK, TransactionShape, FinishSetBrk
<1>1. ptState[t] = "live" /\ op.arg >= HeapBegin /\ op.arg \in Int
  BY <1>0, MmuAssumption
  DEF PagesInv, TransactionShape, CallerShape, FinishSetBrk, MmuTypeOK
<1>2. /\ ptTransaction' = NoPT /\ op' = InUser /\ op.call = "setBrk"
      /\ UNCHANGED <<totalPages, ptState, pte, stackMapped, failed>>
  BY DEF FinishSetBrk
<1>3. /\ ppinfo' \in [Frames -> [owner : PT \cup {NoPT, Tag}, vpage : Int]]
      /\ OwnersLive' /\ OwnedIsMapped' /\ OwnedUntilFailure' /\ Tagged' = {}
  <2>1. CASE op.fn = "commit"
    <3>1. ppinfo' = Finished(TRUE)
      BY <2>1 DEF FinishSetBrk
    <3>2. ptState' = [ptState EXCEPT ![t] = "live"]
      BY <1>1, <1>2 DEF PagesInv, MmuTypeOK
    <3> QED BY <1>0, <1>2, <3>1, <3>2, Committed
  <2>2. CASE op.fn = "rollback"
    <3>1. ppinfo' = Finished(FALSE) /\ failed
      BY <1>2, <2>2 DEF FinishSetBrk, PagesInv, CallerShape
    <3> QED BY <1>0, <1>2, <3>1, RolledBackOwnership
  <2> QED BY <2>1, <2>2 DEF FinishSetBrk
<1>4. op' \in OpType
  BY <1>2 DEF InUser, OpType
<1>5. brk' \in [PT -> Int] /\ \A p \in PT : brk'[p] >= HeapBegin
  BY <1>0, <1>1 DEF FinishSetBrk, PagesInv, MmuTypeOK
<1>6. MmuTypeOK'
  BY <1>2, <1>3, <1>4, <1>5 DEF PagesInv, MmuTypeOK, OpType
<1>7. TransactionShape' /\ CallerShape'
  BY <1>2, <1>3 DEF TransactionShape, CallerShape, InUser
<1> QED BY <1>3, <1>6, <1>7 DEF PagesInv

LEMMA FinishGrowStackStep == PagesInv /\ FinishGrowStack => PagesInv'
<1> SUFFICES ASSUME PagesInv, FinishGrowStack PROVE PagesInv'
  OBVIOUS
<1>0. PICK t \in PT : t = ptTransaction
  BY DEF PagesInv, MmuTypeOK, TransactionShape, FinishGrowStack
<1>1. ptState[t] = "live" /\ op.arg \in Int
  BY <1>0, MmuAssumption DEF PagesInv, TransactionShape, FinishGrowStack, MmuTypeOK
<1>2. /\ ptTransaction' = NoPT /\ op.call = "growStack"
      /\ UNCHANGED <<totalPages, ptState, pte, brk, failed>>
      /\ stackMapped' = [stackMapped EXCEPT ![t] = PageToAddr(AddrToPage(op.arg))]
      /\ op' = IF op.fn = "commit" THEN InUser ELSE [op EXCEPT !.fn = "abort"]
  BY <1>0 DEF FinishGrowStack
<1>3. /\ ppinfo' \in [Frames -> [owner : PT \cup {NoPT, Tag}, vpage : Int]]
      /\ OwnersLive' /\ OwnedIsMapped' /\ OwnedUntilFailure' /\ Tagged' = {}
  <2>1. CASE op.fn = "commit"
    <3>1. ppinfo' = Finished(TRUE)
      BY <2>1 DEF FinishGrowStack
    <3>2. ptState' = [ptState EXCEPT ![t] = "live"]
      BY <1>1, <1>2 DEF PagesInv, MmuTypeOK
    <3> QED BY <1>0, <1>2, <3>1, <3>2, Committed
  <2>2. CASE op.fn = "rollback"
    <3>1. ppinfo' = Finished(FALSE) /\ Tagged = {}
      BY <1>2, <2>2 DEF FinishGrowStack, PagesInv, CallerShape
    <3> QED BY <1>0, <1>2, <3>1, RolledBackOwnership
  <2> QED BY <2>1, <2>2 DEF FinishGrowStack
<1>4. /\ op' \in OpType
      /\ op' = InUser \/ (op'.fn = "abort" /\ op'.call = "growStack")
  BY <1>2 DEF InUser, OpType, PagesInv, MmuTypeOK
<1>5. stackMapped' \in [PT -> Int]
  <2>1. AddrToPage(op.arg) \in Int
    BY <1>1, AddressTypes
  <2>2. PageToAddr(AddrToPage(op.arg)) \in Int
    BY <2>1, AddressTypes
  <2> QED BY <1>2, <2>2 DEF PagesInv, MmuTypeOK
<1>6. MmuTypeOK'
  BY <1>2, <1>3, <1>4, <1>5 DEF PagesInv, MmuTypeOK, OpType
<1>7. TransactionShape'
  BY <1>2, <1>3, <1>4 DEF TransactionShape, InUser
<1>8. CallerShape'
  BY <1>3, <1>4 DEF CallerShape, InUser
<1> QED BY <1>3, <1>6, <1>7, <1>8 DEF PagesInv

LEMMA DestroyPTStep ==
    ASSUME NEW t \in PT, PagesInv, DestroyPT(t)
    PROVE  PagesInv'
<1>1. /\ op = InUser /\ ptTransaction = NoPT /\ Tagged = {}
      /\ ptTransaction' = NoPT /\ op' = InUser
      /\ ppinfo' = PagesFreed(t)
      /\ ptState' = [ptState EXCEPT ![t] = "dead"]
      /\ pte' = [pte EXCEPT ![t] = << >>]
      /\ UNCHANGED <<totalPages, brk, stackMapped, failed>>
  BY DEF DestroyPT, Running, PagesInv, TransactionShape, InUser
<1>2. /\ ppinfo' \in [Frames -> [owner : PT \cup {NoPT, Tag}, vpage : Int]]
      /\ \A f \in Frames :
            \/ ppinfo[f].owner = t /\ ppinfo'[f].owner = NoPT
            \/ ppinfo[f].owner # t /\ ppinfo'[f] = ppinfo[f]
  BY <1>1 DEF PagesFreed, FreePage, PagesInv, MmuTypeOK
<1>3. /\ DOMAIN pte' = PT /\ DOMAIN pte'[t] = {}
      /\ \A p \in PT \ {t} : pte'[p] = pte[p]
  BY <1>1 DEF PagesInv, MmuTypeOK
<1>4. \A f \in Frames : ppinfo[f].owner # Tag /\ ppinfo'[f].owner # Tag
  BY <1>1, <1>2, MmuAssumption DEF Tagged
<1>5. \A f \in Frames : OwnerOf(f) = ppinfo[f].owner /\ OwnerOf(f)' = ppinfo'[f].owner
  BY <1>4 DEF OwnerOf
<1>6. MmuTypeOK'
  BY <1>1, <1>2, <1>3 DEF PagesInv, MmuTypeOK
<1>7. TransactionShape' /\ CallerShape'
  BY <1>1, <1>4 DEF TransactionShape, CallerShape, InUser, Tagged
<1>8. OwnersLive'
  <2> SUFFICES ASSUME NEW f \in Frames, ppinfo'[f].owner \in PT
               PROVE  ptState'[ppinfo'[f].owner] = "live"
    BY DEF OwnersLive
  <2>1. ppinfo[f].owner # t /\ ppinfo'[f] = ppinfo[f]
    BY <1>2, MmuAssumption
  <2>2. ptState[ppinfo[f].owner] = "live"
    BY <2>1 DEF PagesInv, OwnersLive
  <2> QED BY <1>1, <2>1, <2>2 DEF PagesInv, MmuTypeOK
<1>9. OwnedIsMapped'
  <2> SUFFICES ASSUME NEW g \in Frames, NEW o, o = OwnerOf(g)', o # NoPT
               PROVE  ppinfo'[g].vpage \in DOMAIN pte'[o] /\ pte'[o][ppinfo'[g].vpage] = g
    BY DEF OwnedIsMapped
  <2>1. o = OwnerOf(g) /\ o # t /\ ppinfo'[g] = ppinfo[g] /\ o \in PT
    BY <1>2, <1>4, <1>5 DEF PagesInv, MmuTypeOK
  <2> QED BY <1>3, <2>1 DEF PagesInv, OwnedIsMapped
<1>10. OwnedUntilFailure'
  <2> SUFFICES ASSUME ~ failed, NEW p \in PT, NEW v \in DOMAIN pte'[p],
                      NEW g, g = pte'[p][v]
               PROVE  OwnerOf(g)' = p /\ ppinfo'[g].vpage = v
    BY <1>1 DEF OwnedUntilFailure, PagesOwned
  <2>1. p # t /\ v \in DOMAIN pte[p] /\ g = pte[p][v]
    BY <1>3
  <2>2. OwnerOf(g) = p /\ ppinfo[g].vpage = v /\ g \in Frames
    BY <2>1 DEF PagesInv, OwnedUntilFailure, PagesOwned, MmuTypeOK
  <2> QED BY <1>2, <1>5, <2>1, <2>2
<1> QED BY <1>6, <1>7, <1>8, <1>9, <1>10 DEF PagesInv

-----------------------------------------------------------------------------
(***************************************************************************)
(* The theorems                                                            *)
(***************************************************************************)

LEMMA NextPages == PagesInv /\ Next => PagesInv'
<1> SUFFICES ASSUME PagesInv, Next PROVE PagesInv'
  OBVIOUS
<1>1. CASE KeepPage
  BY <1>1, KeepPageStep
<1>2. CASE MapPage
  BY <1>2, MapPageStep
<1>3. CASE OutOfPages
  BY <1>3, OutOfPagesStep
<1>4. CASE RangeSet
  BY <1>4, RangeSetStep
<1>5. CASE ReleasePage
  BY <1>5, ReleasePageStep
<1>6. CASE RangeFreed
  BY <1>6, RangeFreedStep
<1>7. CASE FinishCreate
  BY <1>7, FinishCreateStep
<1>8. CASE FinishSetBrk
  BY <1>8, FinishSetBrkStep
<1>9. CASE FinishGrowStack
  BY <1>9, FinishGrowStackStep
<1>10. ASSUME NEW p \in PT, CreateUsrPT(p) PROVE PagesInv'
  BY <1>10, CreateUsrPTStep
<1>11. ASSUME NEW p \in PT, DestroyPT(p) PROVE PagesInv'
  BY <1>11, DestroyPTStep
<1>12. ASSUME NEW p \in PT, NEW a \in UserSpace(p), MoveBrk(p, a) PROVE PagesInv'
  BY <1>12, MoveBrkStep
<1>13. ASSUME NEW p \in PT, NEW a \in UserSpace(p), ExpandHeap(p, a) PROVE PagesInv'
  BY <1>13, ExpandHeapStep
<1>14. ASSUME NEW p \in PT, NEW a \in UserSpace(p), ContractHeap(p, a) PROVE PagesInv'
  BY <1>14, ContractHeapStep
<1>15. ASSUME NEW p \in PT, NEW a \in UserSpace(p), GrowStack(p, a) PROVE PagesInv'
  BY <1>15, GrowStackStep
<1> QED
  BY <1>1, <1>2, <1>3, <1>4, <1>5, <1>6, <1>7, <1>8, <1>9, <1>10, <1>11, <1>12,
     <1>13, <1>14, <1>15
  DEF Next

\* The invariant that the other theorems follow from.
THEOREM PagesInvariant == Spec => []PagesInv
<1>1. Init => PagesInv
  BY InitPages
<1>2. PagesInv /\ [Next]_vars => PagesInv'
  BY NextPages, StutterPages
<1> QED BY <1>1, <1>2, PTL DEF Spec

\* The variables of mmu.c keep their types, and no break sinks below its heap.
THEOREM PageTypesCorrect == Spec => []MmuTypeOK
<1>1. PagesInv => MmuTypeOK
  BY DEF PagesInv
<1> QED BY <1>1, PagesInvariant, PTL

\* ppinfo tells the truth about every page, even when memory has run out: a page
\* that is owned is mapped by its owner, at the virtual page noted.
THEOREM OwnershipIsTrue == Spec => []OwnedIsMapped
<1>1. PagesInv => OwnedIsMapped
  BY DEF PagesInv
<1> QED BY <1>1, PagesInvariant, PTL

\* Every page goes back: when the kernel returns no transaction is open, nothing
\* is tagged, and only tables in use own pages.
THEOREM NoPageLeaks == Spec => []NothingLeaked
<1>1. PagesInv => NothingLeaked
  BY DEF PagesInv, NothingLeaked, TransactionShape, OwnersLive, Tagged, MmuTypeOK
<1> QED BY <1>1, PagesInvariant, PTL

\* Isolation: as long as no heap expansion has failed half-way, what a table maps
\* belongs to it alone.
THEOREM PagesAreIsolated == Spec => []OwnedUntilFailure
<1>1. PagesInv => OwnedUntilFailure
  BY DEF PagesInv
<1> QED BY <1>1, PagesInvariant, PTL

-----------------------------------------------------------------------------
(***************************************************************************)
(* Guard pages and backed heaps: the invariants                            *)
(***************************************************************************)

\* Page v of a process is in its heap, or in its stack and shared data: it is
\* neither the kernel's nor the guard page.
UserPage(p, v) ==
    \/ v >= KrnPages /\ PageToAddr(v) < HeapEnd(p)
    \/ PageToAddr(v) >= StackBegin(p) /\ PageToAddr(v) < SharedDataEnd(p)

\* A range that is being mapped lies within the heap or within the stack and the shared data.
GuardInv ==
    /\ GuardNeverMapped
    /\ op.fn = "set" => \A v \in op.at .. op.last : UserPage(ptTransaction, v)

\* The heap pages of p below page n are mapped.
Backed(p, n) == KrnPages .. n - 1 \subseteq DOMAIN pte[p]

\* The first page past the heap of p
BrkPage(p) == AddrToPage(brk[p])

\* A heap of which the first page could not be mapped: no page is left for the
\* stack either, so that the create will be rolled back.
CreateFails ==
    /\ op.fn = "set" /\ FreeFrames = {} /\ op.at <= op.last
    /\ op.at \notin DOMAIN pte[ptTransaction]

\* Tables that are in use and not being worked on are backed, new ones are empty.
TablesBacked ==
    \A p \in PT :
        /\ ptState[p] = "new" /\ p # ptTransaction => DOMAIN pte[p] = {} /\ brk[p] = HeapBegin
        /\ ptState[p] = "live" /\ p # ptTransaction => Backed(p, BrkPage(p))

\* mmu_createUsrPT maps the first page of the heap, then the stack.
CreateBacked ==
    /\ op.call = "heap" =>
        /\ op.fn = "set" /\ op.last = KrnPages /\ op.at \in {KrnPages, KrnPages + 1}
        /\ DOMAIN pte[ptTransaction] = KrnPages .. op.at - 1
        /\ BrkPage(ptTransaction) = KrnPages + 1
        /\ HeapEnd(ptTransaction) # HeapBegin
    /\ op.call = "stack" /\ op.fn \in {"set", "commit"} =>
        Backed(ptTransaction, BrkPage(ptTransaction)) \/ CreateFails

\* The other calls map or free pages beyond what is backed, and no others, and a
\* break is moved when all pages below it are there.
CallBacked ==
    LET p == ptTransaction
        to == AddrToPage(op.arg)
    IN  /\ op.call = "growStack" /\ op.fn # "abort" => Backed(p, BrkPage(p))
        /\ op.call = "setBrk" =>
            /\ op.fn = "set" => /\ op.arg > brk[p] /\ op.last >= to - 1
                                /\ op.at >= BrkPage(p) /\ Backed(p, op.at)
            /\ op.fn = "free" => op.arg <= brk[p] /\ op.at >= to /\ Backed(p, to)
            /\ op.fn = "commit" => Backed(p, to)
            /\ op.fn = "rollback" => op.arg > brk[p] /\ Backed(p, BrkPage(p))
        /\ op.fn = "free" => op.call = "setBrk"

\* The inductive invariant of the heap's pages
BackedInv == TablesBacked /\ CreateBacked /\ CallBacked

-----------------------------------------------------------------------------
(***************************************************************************)
(* Pages and addresses, in order                                           *)
(***************************************************************************)

\* Division by a positive number
LEMMA DivFacts ==
    ASSUME NEW p \in Nat \ {0}, NEW a \in Int
    PROVE  /\ a \div p \in Int
           /\ (a \div p) * p <= a
           /\ a < (a \div p) * p + p
OBVIOUS

\* Multiplication by a positive number
LEMMA MulOrder ==
    ASSUME NEW p \in Nat \ {0}, NEW m \in Int, NEW n \in Int
    PROVE  /\ m * p \in Int
           /\ m <= n => m * p <= n * p
           /\ m < n => m * p + p <= n * p
<1>1. ASSUME NEW k \in Nat PROVE k * p >= 0 /\ (k > 0 => k * p >= p)
  OBVIOUS
<1>2. (n - m) * p = n * p - m * p /\ m * p \in Int /\ n * p \in Int
  OBVIOUS
<1>3. m <= n => (n - m) * p >= 0
  BY <1>1
<1>4. m < n => (n - m) * p >= p
  BY <1>1
<1> QED BY <1>2, <1>3, <1>4

\* An address belongs to the page that begins at or before it and ends after it.
LEMMA PageOfAddress ==
    ASSUME NEW a \in Int, NEW n \in Int
    PROVE  /\ PageToAddr(n) <= a <=> n <= AddrToPage(a)
           /\ a < PageToAddr(n) <=> AddrToPage(a) < n
           /\ AddrToPage(PageToAddr(n)) = n
<1> DEFINE b == AddrToPage(a)
           P(m) == m * PageSize
<1>0. PageSize \in Nat \ {0}
  BY MmuAssumption
<1>1. b \in Int /\ P(b) <= a /\ a < P(b) + PageSize /\ P(b) \in Int /\ P(n) \in Int
  BY <1>0, DivFacts, MulOrder DEF AddrToPage
<1>2. n <= b => P(n) <= P(b)
  BY <1>0, <1>1, MulOrder
<1>3. b < n => P(b) + PageSize <= P(n)
  BY <1>0, <1>1, MulOrder
<1>4. PageToAddr(n) = P(n)
  BY DEF PageToAddr
<1>5. /\ PageToAddr(n) <= a <=> n <= b
      /\ a < PageToAddr(n) <=> b < n
  <2> HIDE DEF P, b
  <2> QED BY <1>0, <1>1, <1>2, <1>3, <1>4
<1>6. AddrToPage(PageToAddr(n)) = n
  <2> DEFINE c == P(n) \div PageSize
  <2>1. c \in Int /\ P(c) <= P(n) /\ P(n) < P(c) + PageSize /\ P(c) \in Int
    BY <1>0, <1>1, DivFacts, MulOrder
  <2>2. n < c => P(n) + PageSize <= P(c)
    BY <1>0, <2>1, MulOrder
  <2>3. c < n => P(c) + PageSize <= P(n)
    BY <1>0, <2>1, MulOrder
  <2>4. c = AddrToPage(PageToAddr(n))
    BY DEF AddrToPage, PageToAddr
  <2> HIDE DEF c, P
  <2> QED BY <1>0, <1>1, <2>1, <2>2, <2>3, <2>4
<1> QED BY <1>5, <1>6 DEF b

\* Addresses in order are in pages in order.
LEMMA PageOrder ==
    ASSUME NEW a \in Int, NEW b \in Int, a <= b
    PROVE  AddrToPage(a) <= AddrToPage(b)
<1>1. AddrToPage(a) \in Int /\ PageToAddr(AddrToPage(a)) \in Int
  BY AddressTypes
<1>2. PageToAddr(AddrToPage(a)) <= a
  BY <1>1, PageOfAddress
<1>3. PageToAddr(AddrToPage(a)) <= b
  BY <1>1, <1>2
<1> QED BY <1>1, <1>3, PageOfAddress

\* Pages and the addresses they begin at are in the same order.
LEMMA AddressOrder ==
    ASSUME NEW m \in Int, NEW n \in Int
    PROVE  /\ PageToAddr(m) <= PageToAddr(n) <=> m <= n
           /\ PageToAddr(m) < PageToAddr(n) <=> m < n
           /\ PageToAddr(n + 1) = PageToAddr(n) + PageSize
<1>1. PageToAddr(n) \in Int /\ AddrToPage(PageToAddr(n)) = n /\ PageToAddr(m) \in Int
      /\ AddrToPage(PageToAddr(m)) = m
  BY AddressTypes, PageOfAddress
<1>2. PageToAddr(m) <= PageToAddr(n) <=> m <= n
  BY <1>1, PageOfAddress
<1>3. PageToAddr(m) < PageToAddr(n) <=> m < n
  BY <1>1, PageOfAddress
<1>4. PageToAddr(n + 1) = PageToAddr(n) + PageSize
  <2>1. PageSize \in Nat
    BY MmuAssumption
  <2>2. (n + 1) * PageSize = n * PageSize + PageSize
    BY <2>1
  <2> QED BY <2>2 DEF PageToAddr
<1> QED BY <1>2, <1>3, <1>4

\* pageAlign: the first page border that is not below the address.
LEMMA AlignedUp ==
    ASSUME NEW a \in Int
    PROVE  \E n \in Int :
              /\ PageAlign(a) = PageToAddr(n)
              /\ a <= PageToAddr(n)
              /\ \A m \in Int : a <= PageToAddr(m) => n <= m
              /\ AddrToPage(a) <= n
<1> DEFINE n == AddrToPage(a + PageSize - 1)
<1>0. PageSize \in Nat \ {0}
  BY MmuAssumption
<1>1. n \in Int /\ n + 1 \in Int /\ PageToAddr(n) \in Int /\ AddrToPage(a) \in Int
  BY <1>0, AddressTypes
<1>2. a + PageSize - 1 < PageToAddr(n + 1)
  BY <1>0, <1>1, PageOfAddress
<1>3. PageToAddr(n + 1) = PageToAddr(n) + PageSize
  BY <1>1, AddressOrder
<1>4. a <= PageToAddr(n)
  <2> HIDE DEF n
  <2> QED BY <1>0, <1>1, <1>2, <1>3
<1>5. ASSUME NEW m \in Int, a <= PageToAddr(m) PROVE n <= m
  <2>1. PageToAddr(m) \in Int /\ PageToAddr(m + 1) = PageToAddr(m) + PageSize
    BY AddressTypes, AddressOrder
  <2>2. a + PageSize - 1 < PageToAddr(m + 1)
    BY <1>0, <1>5, <2>1
  <2>3. n < m + 1
    BY <1>0, <2>2, PageOfAddress
  <2> QED BY <1>1, <2>3
<1>6. AddrToPage(a) <= n
  BY <1>1, <1>4, PageOrder, PageOfAddress
<1>7. PageAlign(a) = PageToAddr(n)
  BY DEF PageAlign
<1> QED BY <1>1, <1>4, <1>5, <1>6, <1>7

-----------------------------------------------------------------------------
(***************************************************************************)
(* The layout of a process                                                 *)
(***************************************************************************)

\* The layout of a process, in pages: heap, guard page, stack and shared data.
LEMMA Layout ==
    ASSUME NEW p \in PT
    PROVE  \E h \in Int, s \in Int, e \in Int :
              /\ HeapBegin = PageToAddr(KrnPages) /\ HeapEnd(p) = PageToAddr(h)
              /\ StackBegin(p) = PageToAddr(s) /\ SharedDataEnd(p) = PageToAddr(e)
              /\ KrnPages <= h /\ h <= s
              /\ h > KrnPages => s = h + 1
              /\ s <= StackTopPage(p) /\ StackTopPage(p) < e
              /\ StackEnd(p) <= SharedDataEnd(p)
<1> DEFINE h == KrnPages + HeapPages[p]
           s == IF HeapEnd(p) = HeapBegin THEN h ELSE h + 1
<1>0. /\ KrnPages \in Nat \ {0} /\ HeapPages[p] \in Nat /\ StackSize[p] \in Nat \ {0}
      /\ DataSharedSize \in Nat /\ PageSize \in Nat \ {0}
  BY MmuAssumption
<1>1. h \in Int /\ s \in Int /\ KrnPages \in Int /\ KrnPages <= h /\ h <= s
  BY <1>0
<1>2. HeapBegin = PageToAddr(KrnPages) /\ HeapBegin \in Int /\ PageToAddr(h) \in Int
  BY <1>1, AddressTypes DEF HeapBegin
<1>3. HeapBegin + PageToAddr(HeapPages[p]) = PageToAddr(h)
  <2>1. (KrnPages + HeapPages[p]) * PageSize = KrnPages * PageSize + HeapPages[p] * PageSize
    BY <1>0
  <2> QED BY <2>1 DEF HeapBegin, PageToAddr
<1>4. HeapEnd(p) = PageToAddr(h)
  <2>1. HeapEnd(p) = PageAlign(PageToAddr(h))
    BY <1>3 DEF HeapEnd
  <2>2. PICK n \in Int : /\ PageAlign(PageToAddr(h)) = PageToAddr(n)
                         /\ PageToAddr(h) <= PageToAddr(n)
                         /\ \A m \in Int : PageToAddr(h) <= PageToAddr(m) => n <= m
    BY <1>2, AlignedUp
  <2>3. n <= h /\ h <= n
    BY <1>1, <1>2, <2>2, AddressOrder
  <2> QED BY <1>1, <2>1, <2>2, <2>3
<1>5. h > KrnPages => HeapEnd(p) # HeapBegin
  BY <1>1, <1>2, <1>4, AddressOrder
<1>6. StackBegin(p) = PageToAddr(s) /\ StackBegin(p) \in Int
  <2>1. PageToAddr(h + 1) = PageToAddr(h) + PageSize
    BY <1>1, AddressOrder
  <2> QED BY <1>1, <1>4, <2>1, AddressTypes DEF StackBegin
<1> DEFINE a == StackBegin(p) + StackSize[p] + DataSharedSize
<1>7. PICK e \in Int : SharedDataEnd(p) = PageToAddr(e) /\ a <= PageToAddr(e)
  <2>1. a \in Int
    BY <1>0, <1>6
  <2> QED BY <2>1, AlignedUp DEF SharedDataEnd
<1>8. /\ StackEnd(p) \in Int /\ PageToAddr(e) \in Int
      /\ StackBegin(p) <= StackEnd(p) - 1 /\ StackEnd(p) - 1 < PageToAddr(e)
      /\ StackEnd(p) <= SharedDataEnd(p)
  <2>1. PageToAddr(e) \in Int
    BY AddressTypes
  <2>2. StackEnd(p) = PageToAddr(e) - DataSharedSize
    BY <1>7 DEF StackEnd
  <2> HIDE DEF h, s
  <2> QED BY <1>0, <1>6, <1>7, <2>1, <2>2
<1>9. s <= StackTopPage(p) /\ StackTopPage(p) < e
  <2>1. StackEnd(p) - 1 \in Int /\ s \in Int
    BY <1>1, <1>8
  <2> HIDE DEF s
  <2>2. PageToAddr(s) <= StackEnd(p) - 1
    BY <1>6, <1>8
  <2> QED BY <1>8, <2>1, <2>2, PageOfAddress DEF StackTopPage
<1>10. h > KrnPages => s = h + 1
  BY <1>5
<1> HIDE DEF h, s
<1> QED BY <1>1, <1>2, <1>4, <1>6, <1>7, <1>8, <1>9, <1>10

(***************************************************************************)
(* The ranges that are mapped                                              *)
(***************************************************************************)

\* The pages of an interval of the heap, or of the stack and the shared data.
LEMMA RangeAllowed ==
    ASSUME NEW p \in PT, NEW b \in Int, NEW e \in Int, NEW v \in Int,
           AddrToPage(b) <= v, v <= AddrToPage(e - 1),
           \/ HeapBegin <= b /\ e <= HeapEnd(p)
           \/ StackBegin(p) <= b /\ e <= SharedDataEnd(p)
    PROVE  UserPage(p, v)
<1>0. PICK h \in Int, s \in Int, z \in Int :
          /\ HeapBegin = PageToAddr(KrnPages) /\ HeapEnd(p) = PageToAddr(h)
          /\ StackBegin(p) = PageToAddr(s) /\ SharedDataEnd(p) = PageToAddr(z)
  BY Layout
<1>1. /\ AddrToPage(b) \in Int /\ AddrToPage(e - 1) \in Int /\ e - 1 \in Int /\ KrnPages \in Int
      /\ PageToAddr(h) \in Int /\ PageToAddr(z) \in Int
  BY AddressTypes, MmuAssumption
<1>2. CASE HeapBegin <= b /\ e <= HeapEnd(p)
  <2>1. KrnPages <= AddrToPage(b)
    BY <1>0, <1>1, <1>2, PageOfAddress
  <2>2. e - 1 < PageToAddr(h)
    BY <1>0, <1>1, <1>2
  <2>3. AddrToPage(e - 1) < h
    BY <1>1, <2>2, PageOfAddress
  <2>4. KrnPages <= v /\ v < h
    BY <1>1, <2>1, <2>3
  <2>5. PageToAddr(v) < PageToAddr(h)
    BY <2>4, AddressOrder
  <2> QED BY <1>0, <1>1, <2>4, <2>5 DEF UserPage
<1>3. CASE StackBegin(p) <= b /\ e <= SharedDataEnd(p)
  <2>1. s <= AddrToPage(b)
    BY <1>0, <1>1, <1>3, PageOfAddress
  <2>2. e - 1 < PageToAddr(z)
    BY <1>0, <1>1, <1>3
  <2>3. AddrToPage(e - 1) < z
    BY <1>1, <2>2, PageOfAddress
  <2>4. s <= v /\ v < z
    BY <1>1, <2>1, <2>3
  <2>5. PageToAddr(s) <= PageToAddr(v) /\ PageToAddr(v) < PageToAddr(z)
    BY <2>4, AddressOrder
  <2>6. PageToAddr(v) >= StackBegin(p)
    BY <1>0, <2>5, AddressTypes
  <2> QED BY <1>0, <2>5, <2>6 DEF UserPage
<1> QED BY <1>2, <1>3

\* The part of a new process's stack that is mapped at once is above the guard page.
LEMMA StackAllowed ==
    ASSUME NEW p \in PT
    PROVE  /\ \A v \in MapStack(p).at .. MapStack(p).last : UserPage(p, v)
           /\ MapStack(p).at <= MapStack(p).last
           /\ MapStack(p).at = StackTopPage(p)
<1>0. PICK h \in Int, s \in Int, e \in Int :
          /\ StackBegin(p) = PageToAddr(s) /\ SharedDataEnd(p) = PageToAddr(e)
          /\ s <= StackTopPage(p) /\ StackTopPage(p) < e
  BY Layout
<1> DEFINE b == PageToAddr(StackTopPage(p))
<1>1. StackTopPage(p) \in Int /\ b \in Int /\ AddrToPage(b) = StackTopPage(p)
      /\ PageToAddr(e) \in Int
  BY LayoutTypes, AddressTypes, PageOfAddress
<1>2. /\ MapStack(p).at = AddrToPage(b)
      /\ MapStack(p).last = AddrToPage(PageToAddr(e) - 1)
  BY <1>0 DEF MapStack, Loop
<1>3. StackBegin(p) <= b
  BY <1>0, <1>1, AddressOrder
<1>4. PageToAddr(e) <= SharedDataEnd(p)
  BY <1>0, <1>1
<1> HIDE DEF b
<1>5. AddrToPage(PageToAddr(e) - 1) \in Int /\ PageToAddr(e) - 1 \in Int
  BY <1>1, AddressTypes
<1>6. \A v \in MapStack(p).at .. MapStack(p).last : UserPage(p, v)
  BY <1>1, <1>2, <1>3, <1>4, <1>5, RangeAllowed
<1>7. MapStack(p).at <= MapStack(p).last
  <2>1. b < PageToAddr(e)
    BY <1>0, <1>1, AddressOrder DEF b
  <2>2. b <= PageToAddr(e) - 1
    BY <1>1, <2>1
  <2> QED BY <1>1, <1>2, <1>5, <2>2, PageOrder
<1> QED BY <1>1, <1>2, <1>6, <1>7

\* The first page of the heap, where there is a heap
LEMMA FirstHeapPage ==
    ASSUME NEW p \in PT, HeapEnd(p) # HeapBegin
    PROVE  /\ AddrToPage(HeapBegin) = KrnPages /\ AddrToPage((HeapBegin + 1) - 1) = KrnPages
           /\ AddrToPage(HeapBegin + PageSize) = KrnPages + 1
           /\ UserPage(p, KrnPages)
           /\ StackTopPage(p) > KrnPages
<1>0. PICK h \in Int, s \in Int, e \in Int :
              /\ HeapBegin = PageToAddr(KrnPages) /\ HeapEnd(p) = PageToAddr(h)
              /\ KrnPages <= h
              /\ h > KrnPages => s = h + 1
              /\ s <= StackTopPage(p)
  BY Layout
<1>1. KrnPages \in Int /\ HeapBegin \in Int /\ KrnPages + 1 \in Int /\ StackTopPage(p) \in Int
  BY MmuAssumption, LayoutTypes
<1>2. h > KrnPages
  BY <1>0, <1>1
<1>3. AddrToPage(HeapBegin) = KrnPages
  BY <1>0, <1>1, PageOfAddress
<1>4. AddrToPage((HeapBegin + 1) - 1) = KrnPages
  BY <1>1, <1>3
<1>5. AddrToPage(HeapBegin + PageSize) = KrnPages + 1
  <2>1. PageToAddr(KrnPages + 1) = PageToAddr(KrnPages) + PageSize
    BY <1>1, AddressOrder
  <2> QED BY <1>0, <1>1, <2>1, PageOfAddress
<1>6. PageToAddr(KrnPages) < PageToAddr(h)
  BY <1>1, <1>2, AddressOrder
<1> QED BY <1>0, <1>1, <1>2, <1>3, <1>4, <1>5, <1>6 DEF UserPage

(***************************************************************************)
(* The guard pages                                                         *)
(***************************************************************************)

-----------------------------------------------------------------------------
(***************************************************************************)
(* Guard pages: the inductive step                                         *)
(***************************************************************************)

\* There is no process.
LEMMA GuardInit == Init => GuardInv
<1> SUFFICES ASSUME Init PROVE GuardInv
  OBVIOUS
<1>1. \A p \in PT : DOMAIN pte[p] = {}
  BY DEF Init
<1>2. op.fn # "set"
  BY DEF Init, InUser
<1> QED BY <1>1, <1>2 DEF GuardInv, GuardNeverMapped

\* Every step maps only what the layout of a process allows.
LEMMA GuardNext == PagesInv /\ GuardInv /\ [Next]_vars => GuardInv'
<1> SUFFICES ASSUME PagesInv, GuardInv, [Next]_vars PROVE GuardInv'
  OBVIOUS
<1>0. /\ MmuTypeOK /\ DOMAIN pte = PT /\ GuardNeverMapped
      /\ op.at \in Int /\ op.last \in Int
      /\ \A p \in PT : brk[p] \in Int /\ HeapBegin <= brk[p]
      /\ op.fn = "set" => ptTransaction \in PT
      /\ \A p \in PT : \A v \in DOMAIN pte[p] : UserPage(p, v)
      /\ \A p \in PT : \A v \in DOMAIN pte[p] : v \in Int
  <2>1. HeapBegin \in Int
    BY AddressTypes, MmuAssumption DEF HeapBegin
  <2> QED BY <2>1 DEF PagesInv, MmuTypeOK, TransactionShape, GuardInv, GuardNeverMapped, UserPage
<1>1. ASSUME NEW p \in PT, NEW fn, NEW call, NEW arg, NEW b \in Int, NEW e \in Int,
             \/ HeapBegin <= b /\ e <= HeapEnd(p)
             \/ StackBegin(p) <= b /\ e <= SharedDataEnd(p)
      PROVE  \A v \in Loop(fn, call, arg, b, e).at .. Loop(fn, call, arg, b, e).last : UserPage(p, v)
  <2>1. AddrToPage(b) \in Int /\ AddrToPage(e - 1) \in Int
    BY AddressTypes
  <2> QED BY <1>1, <2>1, RangeAllowed DEF Loop
<1>2. ASSUME \A p \in PT : DOMAIN pte'[p] \subseteq DOMAIN pte[p],
             op'.fn = "set" => \A v \in op'.at .. op'.last : UserPage(ptTransaction', v)
      PROVE  GuardInv'
  BY <1>0, <1>2 DEF GuardInv, GuardNeverMapped, UserPage
<1>3. CASE KeepPage
  BY <1>0, <1>2, <1>3 DEF KeepPage, NextPage, Setting, GuardInv, MmuTypeOK
<1>4. CASE MapPage
  <2>1. PICK t \in PT, a \in Int : t = ptTransaction /\ a = op.at
    BY <1>0, <1>4 DEF MapPage, Setting
  <2>2. PICK f \in Frames :
           pte' = [pte EXCEPT ![t] =
                    [v \in DOMAIN @ \cup {a} |-> IF v = a THEN f ELSE pte[t][v]]]
    BY <1>4, <2>1 DEF MapPage
  <2>a. /\ DOMAIN pte'[t] = DOMAIN pte[t] \cup {a}
        /\ \A p \in PT \ {t} : pte'[p] = pte[p]
    BY <1>0, <2>2
  <2>b. \A p \in PT : \A v \in DOMAIN pte'[p] :
           v \in DOMAIN pte[p] \/ (p = ptTransaction /\ v = op.at)
    BY <2>1, <2>a
  <2>3. op.fn = "set" /\ op.at \in op.at .. op.last
    BY <1>0, <1>4 DEF MapPage, Setting
  <2>4. UserPage(ptTransaction, op.at)
    BY <2>3 DEF GuardInv
  <2>5. GuardNeverMapped'
    BY <1>0, <2>b, <2>4 DEF GuardNeverMapped, UserPage
  <2>6. op'.at = op.at + 1 /\ op'.last = op.last /\ ptTransaction' = ptTransaction /\ op'.fn = "set"
    BY <1>4, <2>3, <1>0 DEF MapPage, NextPage, MmuTypeOK
  <2> QED BY <1>0, <2>3, <2>5, <2>6 DEF GuardInv, UserPage
<1>5. CASE OutOfPages \/ RangeSet
  <2>1. ptTransaction \in PT /\ op.fn = "set"
    BY <1>0, <1>5 DEF OutOfPages, RangeSet, Setting
  <2>2. \A v \in MapStack(ptTransaction).at .. MapStack(ptTransaction).last : UserPage(ptTransaction, v)
    BY <2>1, StackAllowed
  <2>3. op' = MapStack(ptTransaction) \/ op'.fn \in {"rollback", "commit"}
    BY <1>5 DEF OutOfPages, RangeSet, MmuTypeOK, PagesInv
  <2> QED BY <1>2, <1>5, <2>2, <2>3 DEF OutOfPages, RangeSet
<1>6. CASE ReleasePage \/ RangeFreed
  <2>1. op'.fn # "set"
    BY <1>0, <1>6 DEF ReleasePage, RangeFreed, NextPage, MmuTypeOK
  <2>2. \A p \in PT : DOMAIN pte'[p] \subseteq DOMAIN pte[p]
    BY <1>0, <1>6 DEF ReleasePage, RangeFreed
  <2> QED BY <1>2, <2>1, <2>2
<1>7. CASE FinishCreate \/ FinishSetBrk \/ FinishGrowStack
  <2>1. op'.fn # "set"
    BY <1>0, <1>7 DEF FinishCreate, FinishSetBrk, FinishGrowStack, InUser, MmuTypeOK
  <2>2. \A p \in PT : DOMAIN pte'[p] \subseteq DOMAIN pte[p]
    BY <1>0, <1>7 DEF FinishCreate, FinishSetBrk, FinishGrowStack
  <2> QED BY <1>2, <2>1, <2>2
<1>8. ASSUME NEW p \in PT, CreateUsrPT(p) PROVE GuardInv'
  <2>1. ptTransaction' = p /\ UNCHANGED pte
    BY <1>8 DEF CreateUsrPT, BeginTransaction
  <2>2. CASE HeapEnd(p) # HeapBegin
    <3>0. op' = Loop("set", "heap", 0, HeapBegin, HeapBegin + 1)
      BY <1>8, <2>2 DEF CreateUsrPT
    <3>1. op'.at = KrnPages /\ op'.last = KrnPages
      BY <2>2, <3>0, FirstHeapPage DEF Loop
    <3>2. \A v \in op'.at .. op'.last : v = KrnPages
      BY <3>1, MmuAssumption
    <3> QED BY <1>2, <2>1, <2>2, <3>2, FirstHeapPage
  <2>3. CASE HeapEnd(p) = HeapBegin
    BY <1>2, <1>8, <2>1, <2>3, StackAllowed DEF CreateUsrPT
  <2> QED BY <2>2, <2>3
<1>9. ASSUME NEW p \in PT, DestroyPT(p) PROVE GuardInv'
  BY <1>0, <1>2, <1>9 DEF DestroyPT, Running, InUser
<1>10. ASSUME NEW p \in PT, NEW a \in UserSpace(p),
              MoveBrk(p, a) \/ ExpandHeap(p, a) \/ ContractHeap(p, a) \/ GrowStack(p, a)
       PROVE  GuardInv'
  <2>1. a \in Int /\ HeapEnd(p) \in Int /\ StackEnd(p) \in Int /\ SharedDataEnd(p) \in Int
        /\ StackEnd(p) <= SharedDataEnd(p) /\ UNCHANGED pte
    BY <1>10, UserAddress, LayoutTypes, Layout DEF MoveBrk, ExpandHeap, ContractHeap, GrowStack
  <2>2. CASE MoveBrk(p, a) \/ ContractHeap(p, a)
    BY <1>2, <2>1, <2>2 DEF MoveBrk, ContractHeap, Running, InUser, Loop
  <2>3. CASE ExpandHeap(p, a)
    <3>1. op' = Loop("set", "setBrk", a, brk[p], a) /\ a <= HeapEnd(p) /\ ptTransaction' = p
      BY <2>3 DEF ExpandHeap, BrkAllowed, BeginTransaction
    <3> QED BY <1>0, <1>1, <1>2, <2>1, <3>1
  <2>4. CASE GrowStack(p, a)
    <3>1. /\ op' = Loop("set", "growStack", a, a, a + 1) /\ StackBegin(p) <= a
          /\ a + 1 <= SharedDataEnd(p) /\ ptTransaction' = p
      BY <2>1, <2>4, LayoutTypes DEF GrowStack, BeginTransaction
    <3> QED BY <1>1, <1>2, <2>1, <3>1
  <2> QED BY <1>10, <2>2, <2>3, <2>4
<1>11. CASE UNCHANGED vars
  BY <1>11 DEF vars, GuardInv, GuardNeverMapped, UserPage
<1> QED BY <1>3, <1>4, <1>5, <1>6, <1>7, <1>8, <1>9, <1>10, <1>11 DEF Next

\* No page between the heap and the stack of a process is ever mapped, for any
\* layout and page size: a stack that runs into it is noticed.
THEOREM GuardPagesStayUnmapped == Spec => []GuardNeverMapped
<1>1. GuardInv => GuardNeverMapped
  BY DEF GuardInv
<1> QED BY <1>1, GuardInit, GuardNext, PagesInvariant, PTL DEF Spec
(***************************************************************************)
(* The pages below the break                                               *)
(***************************************************************************)

-----------------------------------------------------------------------------
(***************************************************************************)
(* Backed heaps: the inductive step                                        *)
(***************************************************************************)

\* Types of what the break is compared with
LEMMA BrkPageTypes ==
    ASSUME MmuTypeOK
    PROVE  /\ \A p \in PT : BrkPage(p) \in Int /\ BrkPage(p) >= KrnPages /\ brk[p] \in Int
           /\ KrnPages \in Int /\ HeapBegin \in Int /\ AddrToPage(HeapBegin) = KrnPages
           /\ DOMAIN pte = PT /\ op.at \in Int /\ op.last \in Int /\ op.arg \in Int
           /\ AddrToPage(op.arg) \in Int
<1>1. KrnPages \in Int /\ HeapBegin \in Int /\ HeapBegin = PageToAddr(KrnPages)
  BY AddressTypes, MmuAssumption DEF HeapBegin
<1>2. AddrToPage(HeapBegin) = KrnPages
  BY <1>1, PageOfAddress
<1>3. ASSUME NEW p \in PT PROVE BrkPage(p) \in Int /\ BrkPage(p) >= KrnPages /\ brk[p] \in Int
  <2>1. brk[p] \in Int /\ HeapBegin <= brk[p]
    BY <1>1 DEF MmuTypeOK
  <2>2. AddrToPage(HeapBegin) <= AddrToPage(brk[p]) /\ AddrToPage(brk[p]) \in Int
    BY <1>1, <2>1, PageOrder, AddressTypes
  <2> QED BY <1>1, <1>2, <2>1, <2>2 DEF BrkPage
<1>4. DOMAIN pte = PT /\ op.at \in Int /\ op.last \in Int /\ op.arg \in Int
  BY DEF MmuTypeOK
<1> QED BY <1>1, <1>2, <1>3, <1>4, AddressTypes

\* The tables that the kernel is not working on.
LEMMA OtherTables ==
    ASSUME TablesBacked, NEW t,
           \A p \in PT \ {t} :
              ptState'[p] = ptState[p] /\ pte'[p] = pte[p] /\ brk'[p] = brk[p],
           ptTransaction \notin PT \/ ptTransaction = t,
           t \in PT => \/ ptTransaction' = t
                       \/ /\ ptState'[t] # "new"
                          /\ ptState'[t] = "live" => Backed(t, BrkPage(t))'
    PROVE  TablesBacked'
<1> SUFFICES ASSUME NEW p \in PT
             PROVE  /\ ptState'[p] = "new" /\ p # ptTransaction' =>
                           DOMAIN pte'[p] = {} /\ brk'[p] = HeapBegin
                    /\ ptState'[p] = "live" /\ p # ptTransaction' => Backed(p, BrkPage(p))'
  BY DEF TablesBacked
<1>1. CASE p = t
  BY <1>1
<1>2. CASE p # t
  <2>1. p # ptTransaction
    BY <1>2
  <2> QED BY <1>2, <2>1 DEF TablesBacked, Backed, BrkPage
<1> QED BY <1>1, <1>2

\* There is no process.
LEMMA BackedInit == Init => BackedInv
<1> SUFFICES ASSUME Init PROVE BackedInv
  OBVIOUS
<1>1. \A p \in PT : DOMAIN pte[p] = {} /\ brk[p] = HeapBegin /\ ptState[p] = "new"
  BY DEF Init
<1>2. op.call = "none" /\ op.fn = "user"
  BY DEF Init, InUser
<1> QED BY <1>1, <1>2 DEF BackedInv, TablesBacked, CreateBacked, CallBacked

\* A page was mapped, or was mapped already.
LEMMA SetPageBacked ==
    ASSUME PagesInv, BackedInv, KeepPage \/ MapPage
    PROVE  BackedInv'
<1>a. PICK t \in PT, a \in Int : t = ptTransaction /\ a = op.at
  BY BrkPageTypes DEF PagesInv, MmuTypeOK, TransactionShape, KeepPage, MapPage, Setting
<1>0. /\ op.last \in Int /\ a <= op.last /\ op.fn = "set"
      /\ MmuTypeOK /\ KrnPages \in Int /\ DOMAIN pte = PT
      /\ BrkPage(t) \in Int /\ brk[t] \in Int /\ BrkPage(t) >= KrnPages
      /\ AddrToPage(op.arg) \in Int
  BY <1>a, BrkPageTypes DEF PagesInv, KeepPage, MapPage, Setting
<1>1. /\ UNCHANGED <<ptState, brk>> /\ ptTransaction' = t
      /\ op'.at = a + 1 /\ op'.last = op.last /\ op'.fn = op.fn /\ op'.call = op.call
      /\ op'.arg = op.arg
  BY <1>0, <1>a DEF KeepPage, MapPage, NextPage, MmuTypeOK
<1>2. /\ DOMAIN pte'[t] = DOMAIN pte[t] \cup {a}
      /\ \A p \in PT \ {t} : pte'[p] = pte[p]
      /\ FreeFrames # {} \/ a \in DOMAIN pte[t]
  <2>1. CASE KeepPage
    BY <1>a, <2>1 DEF KeepPage, HasPage
  <2>2. CASE MapPage
    <3>1. PICK f \in FreeFrames :
             pte' = [pte EXCEPT ![t] =
                      [v \in DOMAIN @ \cup {a} |-> IF v = a THEN f ELSE pte[t][v]]]
      BY <1>a, <2>2 DEF MapPage, PpAlloc
    <3>2. DOMAIN pte'[t] = DOMAIN pte[t] \cup {a} /\ \A p \in PT \ {t} : pte'[p] = pte[p]
      BY <1>0, <3>1
    <3> QED BY <3>1, <3>2
  <2> QED BY <2>1, <2>2
<1>3. ~CreateFails
  BY <1>a, <1>2 DEF CreateFails
<1>4. \A n : Backed(t, n) => Backed(t, n)'
  BY <1>2 DEF Backed
<1>5. Backed(t, a) => Backed(t, a + 1)'
  <2>1. \A v \in KrnPages .. (a + 1) - 1 : v \in KrnPages .. a - 1 \/ v = a
    BY <1>0
  <2> QED BY <1>2, <2>1 DEF Backed
<1>6. PICK b \in Int : b = BrkPage(t) /\ b = BrkPage(t)'
  BY <1>0, <1>1 DEF BrkPage
<1>7. TablesBacked'
  BY <1>a, <1>1, <1>2, OtherTables DEF BackedInv
<1>8. CreateBacked'
  <2>1. CASE op.call = "heap"
    <3>1. /\ op.last = KrnPages /\ a \in {KrnPages, KrnPages + 1}
          /\ DOMAIN pte[t] = KrnPages .. a - 1
          /\ b = KrnPages + 1 /\ HeapEnd(t) # HeapBegin
      BY <1>a, <1>6, <2>1 DEF BackedInv, CreateBacked
    <3>2. a = KrnPages
      BY <1>0, <3>1
    <3>3. DOMAIN pte'[t] = KrnPages .. (a + 1) - 1
      <4>1. KrnPages .. (a + 1) - 1 = {a} /\ KrnPages .. a - 1 = {}
        BY <1>0, <3>2
      <4> QED BY <1>2, <3>1, <4>1
    <3> QED BY <1>0, <1>1, <1>6, <2>1, <3>1, <3>2, <3>3 DEF CreateBacked
  <2>2. CASE op.call # "heap"
    <3>1. op.call = "stack" => Backed(t, b)
      BY <1>0, <1>a, <1>3, <1>6 DEF BackedInv, CreateBacked
    <3>2. op.call = "stack" => Backed(t, b)'
      BY <1>4, <3>1
    <3> QED BY <1>1, <1>6, <2>2, <3>2 DEF CreateBacked
  <2> QED BY <2>1, <2>2
<1>9. CallBacked'
  <2>1. op.call = "growStack" => Backed(t, b)
    BY <1>0, <1>a, <1>6 DEF BackedInv, CallBacked
  <2>2. ASSUME op.call = "setBrk"
        PROVE  /\ op.arg > brk[t] /\ op.last >= AddrToPage(op.arg) - 1
               /\ a >= b /\ Backed(t, a)
    BY <1>0, <1>a, <1>6, <2>2 DEF BackedInv, CallBacked
  <2>3. CASE op.call = "setBrk"
    <3>1. a + 1 >= b /\ Backed(t, a + 1)'
      BY <1>5, <1>6, <2>2, <2>3
    <3>2. op'.fn = "set" /\ op'.call = "setBrk"
      BY <1>0, <1>1, <2>3
    <3>3. op'.arg > brk'[t] /\ op'.last >= AddrToPage(op'.arg) - 1
      BY <1>1, <2>2, <2>3
    <3> QED BY <1>1, <1>6, <3>1, <3>2, <3>3 DEF CallBacked
  <2>4. CASE op.call # "setBrk"
    <3>1. op.call = "growStack" => Backed(t, b)'
      BY <1>4, <2>1
    <3> QED BY <1>0, <1>1, <1>6, <2>4, <3>1 DEF CallBacked
  <2> QED BY <2>3, <2>4
<1> QED BY <1>7, <1>8, <1>9 DEF BackedInv

\* What is backed up to a page is so up to any earlier one.
LEMMA BackedBelow ==
    ASSUME NEW p, NEW m \in Int, NEW n \in Int, n <= m, Backed(p, m)
    PROVE  Backed(p, n)
<1>1. KrnPages \in Int
  BY MmuAssumption
<1> QED BY <1>1 DEF Backed

\* The kernel goes from one loop to the next.
LEMMA LoopEndBacked ==
    ASSUME PagesInv, BackedInv, OutOfPages \/ RangeSet \/ RangeFreed
    PROVE  BackedInv'
<1>a. PICK t \in PT, a \in Int : t = ptTransaction /\ a = op.at
  BY BrkPageTypes DEF PagesInv, MmuTypeOK, TransactionShape, OutOfPages, RangeSet, RangeFreed, Setting
<1>0. /\ MmuTypeOK /\ KrnPages \in Int /\ op.last \in Int /\ op.arg \in Int
      /\ BrkPage(t) \in Int /\ BrkPage(t) >= KrnPages
      /\ AddrToPage(op.arg) \in Int
  BY <1>a, BrkPageTypes DEF PagesInv
<1>1. UNCHANGED <<ptTransaction, ptState, brk, pte, ppinfo, totalPages>>
  BY DEF OutOfPages, RangeSet, RangeFreed
<1>2. PICK b \in Int, to \in Int : b = BrkPage(t) /\ b = BrkPage(t)' /\ to = AddrToPage(op.arg)
  BY <1>0, <1>1 DEF BrkPage
<1>3. \A n : Backed(t, n)' <=> Backed(t, n)
  BY <1>1 DEF Backed
<1>4. TablesBacked'
  BY <1>1 DEF BackedInv, TablesBacked, Backed, BrkPage
<1>5. FreeFrames' = FreeFrames
  BY <1>1 DEF FreeFrames
<1>6. CASE op.fn = "set" /\ op.call = "heap"
  <2>1. /\ op.last = KrnPages /\ a \in {KrnPages, KrnPages + 1}
        /\ DOMAIN pte[t] = KrnPages .. a - 1
        /\ b = KrnPages + 1 /\ HeapEnd(t) # HeapBegin
    BY <1>a, <1>2, <1>6 DEF BackedInv, CreateBacked
  <2>2. /\ op' = MapStack(t) /\ op'.fn = "set" /\ op'.call = "stack"
        /\ op'.at <= op'.last /\ op'.at = StackTopPage(t)
    BY <1>6, <1>a, MapStackType, StackAllowed DEF OutOfPages, RangeSet, RangeFreed
  <2>3. CASE a = KrnPages + 1
    <3>1. Backed(t, b)
      BY <2>1, <2>3 DEF Backed
    <3>2. CreateBacked'
      BY <1>1, <1>2, <1>3, <1>a, <2>2, <3>1 DEF CreateBacked
    <3>3. CallBacked'
      BY <2>2 DEF CallBacked
    <3> QED BY <1>4, <3>2, <3>3 DEF BackedInv
  <2>4. CASE a = KrnPages
    <3>1. DOMAIN pte[t] = {}
      BY <1>0, <2>1, <2>4
    <3>2. FreeFrames = {}
      BY <1>0, <1>6, <1>a, <2>1, <2>4 DEF OutOfPages, RangeSet, RangeFreed
    <3>3. CreateFails'
      BY <1>1, <1>5, <1>a, <2>2, <3>1, <3>2 DEF CreateFails
    <3>4. CreateBacked'
      BY <2>2, <3>3 DEF CreateBacked
    <3>5. CallBacked'
      BY <2>2 DEF CallBacked
    <3> QED BY <1>4, <3>4, <3>5 DEF BackedInv
  <2> QED BY <2>1, <2>3, <2>4
<1>7. CASE ~(op.fn = "set" /\ op.call = "heap")
  <2>1. /\ op'.call = op.call /\ op'.arg = op.arg /\ op.call # "heap"
        /\ op'.fn = IF OutOfPages THEN "rollback" ELSE "commit"
        /\ op.fn \in {"set", "free"}
    <3>1. op.fn \in {"set", "free"}
      BY DEF OutOfPages, RangeSet, RangeFreed, Setting
    <3>2. op.call # "heap"
      BY <1>7 DEF BackedInv, CreateBacked
    <3>3. OutOfPages => op.fn = "set" /\ op.at <= op.last
      BY DEF OutOfPages, Setting
    <3>4. RangeSet => op.fn = "set" /\ op.at > op.last
      BY DEF RangeSet
    <3>5. RangeFreed => op.fn = "free"
      BY DEF RangeFreed
    <3>6. OutOfPages => ~RangeSet /\ ~RangeFreed
      BY <1>0, <1>a, <3>3, <3>4, <3>5
    <3>7. CASE OutOfPages
      BY <1>0, <3>1, <3>2, <3>7 DEF OutOfPages, MmuTypeOK
    <3>8. CASE RangeSet \/ RangeFreed
      BY <1>0, <3>1, <3>2, <3>6, <3>8 DEF RangeSet, RangeFreed, MmuTypeOK
    <3> QED BY <3>7, <3>8
  <2>2. CreateBacked'
    <3>1. CASE op.call = "stack" /\ ~OutOfPages
      <4>1. op.fn = "set" /\ op.at > op.last
        BY <3>1 DEF BackedInv, CallBacked, RangeSet, RangeFreed
      <4>2. ~CreateFails
        BY <1>0, <1>a, <4>1 DEF CreateFails
      <4>3. Backed(t, b)
        BY <1>2, <1>a, <3>1, <4>1, <4>2 DEF BackedInv, CreateBacked
      <4> QED BY <1>1, <1>2, <1>3, <1>a, <2>1, <3>1, <4>3 DEF CreateBacked
    <3>2. CASE ~(op.call = "stack" /\ ~OutOfPages)
      BY <2>1, <3>2 DEF CreateBacked
    <3> QED BY <3>1, <3>2
  <2>3. CallBacked'
    <3>1. CASE op.call = "growStack"
      <4>1. Backed(t, b)
        BY <1>2, <1>a, <2>1, <3>1 DEF BackedInv, CallBacked
      <4> QED BY <1>1, <1>2, <1>3, <1>a, <2>1, <3>1, <4>1 DEF CallBacked
    <3>2. CASE op.call = "setBrk" /\ OutOfPages
      <4>1. op.arg > brk[t] /\ a >= b /\ Backed(t, a)
        BY <1>2, <1>a, <3>2 DEF BackedInv, CallBacked, OutOfPages, Setting
      <4>2. Backed(t, b)
        BY <4>1, BackedBelow
      <4> QED BY <1>1, <1>2, <1>3, <1>a, <2>1, <3>2, <4>1, <4>2 DEF CallBacked
    <3>3. CASE op.call = "setBrk" /\ ~OutOfPages
      <4>1. CASE op.fn = "set"
        <5>1. op.last >= to - 1 /\ Backed(t, a)
          BY <1>2, <1>a, <3>3, <4>1 DEF BackedInv, CallBacked
        <5>2. a > op.last
          BY <1>a, <3>3, <4>1 DEF RangeSet, RangeFreed
        <5>3. a >= to
          BY <1>0, <5>1, <5>2
        <5> QED BY <5>1, <5>3, BackedBelow, <1>1, <1>2, <1>3, <1>a, <2>1, <3>3 DEF CallBacked
      <4>2. CASE op.fn = "free"
        <5>1. Backed(t, to)
          BY <1>2, <1>a, <3>3, <4>2 DEF BackedInv, CallBacked
        <5> QED BY <5>1, <1>1, <1>2, <1>3, <1>a, <2>1, <3>3 DEF CallBacked
      <4> QED BY <2>1, <4>1, <4>2
    <3>4. CASE op.call \notin {"growStack", "setBrk"}
      BY <2>1, <3>4 DEF CallBacked
    <3> QED BY <3>1, <3>2, <3>3, <3>4
  <2> QED BY <1>4, <2>2, <2>3 DEF BackedInv
<1> QED BY <1>6, <1>7

\* A page above the new break is given back.
LEMMA ReleasePageBacked ==
    ASSUME PagesInv, BackedInv, ReleasePage
    PROVE  BackedInv'
<1>a. PICK t \in PT, a \in Int : t = ptTransaction /\ a = op.at
  BY BrkPageTypes DEF PagesInv, MmuTypeOK, TransactionShape, ReleasePage
<1>0. /\ MmuTypeOK /\ KrnPages \in Int /\ DOMAIN pte = PT /\ AddrToPage(op.arg) \in Int
      /\ op.fn = "free" /\ op.call = "setBrk"
  BY BrkPageTypes DEF PagesInv, ReleasePage, BackedInv, CallBacked
<1>1. PICK to \in Int : to = AddrToPage(op.arg) /\ op.arg <= brk[t] /\ a >= to /\ Backed(t, to)
  BY <1>0, <1>a DEF BackedInv, CallBacked
<1>2. /\ UNCHANGED <<ptState, brk>> /\ ptTransaction' = t
      /\ op'.at = a + 1 /\ op'.fn = "free" /\ op'.call = "setBrk"
      /\ op'.arg = op.arg
  BY <1>0, <1>a DEF ReleasePage, NextPage, MmuTypeOK
<1>3. /\ DOMAIN pte[t] \ {a} \subseteq DOMAIN pte'[t]
      /\ \A p \in PT \ {t} : pte'[p] = pte[p]
  BY <1>0, <1>a DEF ReleasePage, HasPage
<1>4. Backed(t, to)'
  <2>1. \A v \in KrnPages .. to - 1 : v # a
    BY <1>0, <1>1
  <2> QED BY <1>1, <1>3, <2>1 DEF Backed
<1>5. TablesBacked'
  BY <1>a, <1>2, <1>3, OtherTables DEF BackedInv
<1>6. CreateBacked'
  BY <1>2 DEF CreateBacked
<1>7. CallBacked'
  <2>1. a + 1 >= to
    BY <1>1
  <2> QED BY <1>1, <1>2, <1>4, <2>1 DEF CallBacked
<1> QED BY <1>5, <1>6, <1>7 DEF BackedInv

\* A call that ends leaves what it promised to its table.
LEMMA CallEndBacked ==
    ASSUME PagesInv, BackedInv, FinishCreate \/ FinishSetBrk \/ FinishGrowStack
    PROVE  BackedInv'
<1>a. PICK t \in PT : t = ptTransaction
  BY DEF PagesInv, MmuTypeOK, TransactionShape, FinishCreate, FinishSetBrk, FinishGrowStack
<1>0. /\ MmuTypeOK /\ DOMAIN pte = PT /\ AddrToPage(op.arg) \in Int
      /\ ptTransaction' = NoPT
      /\ op.fn \in {"commit", "rollback"}
      /\ BrkPage(t) \in Int
  BY BrkPageTypes DEF PagesInv, FinishCreate, FinishSetBrk, FinishGrowStack
<1>1. /\ op'.call \notin {"heap", "stack", "setBrk"} /\ op'.fn \in {"user", "abort"}
      /\ op'.call = "growStack" => op'.fn = "abort"
  BY <1>0 DEF FinishCreate, FinishSetBrk, FinishGrowStack, InUser, MmuTypeOK
<1>2. CreateBacked' /\ CallBacked'
  BY <1>1 DEF CreateBacked, CallBacked
<1>3. \A p \in PT \ {t} : ptState'[p] = ptState[p] /\ pte'[p] = pte[p] /\ brk'[p] = brk[p]
  BY <1>0, <1>a DEF FinishCreate, FinishSetBrk, FinishGrowStack, MmuTypeOK
<1>4. ptState'[t] # "new" /\ (ptState'[t] = "live" => Backed(t, BrkPage(t))')
  <2>1. CASE FinishCreate
    <3>1. CASE op.fn = "commit"
      <4>1. /\ ptState'[t] = "live" /\ pte' = pte /\ brk' = brk
        BY <1>0, <1>a, <2>1, <3>1 DEF FinishCreate, MmuTypeOK
      <4>2. ~CreateFails
        BY <3>1 DEF CreateFails
      <4>3. Backed(t, BrkPage(t))
        BY <1>a, <2>1, <3>1, <4>2 DEF BackedInv, CreateBacked, FinishCreate
      <4> QED BY <4>1, <4>3 DEF Backed, BrkPage
    <3>2. CASE op.fn = "rollback"
      BY <1>0, <1>a, <2>1, <3>2 DEF FinishCreate, MmuTypeOK
    <3> QED BY <1>0, <3>1, <3>2
  <2>2. CASE FinishSetBrk
    <3>1. ptState'[t] = "live" /\ pte' = pte
      BY <1>0, <1>a, <2>2, MmuAssumption DEF FinishSetBrk, PagesInv, TransactionShape, MmuTypeOK
    <3>2. CASE op.fn = "commit"
      <4>1. brk'[t] = op.arg /\ Backed(t, AddrToPage(op.arg))
        BY <1>0, <1>a, <2>2, <3>2 DEF FinishSetBrk, BackedInv, CallBacked, MmuTypeOK
      <4> QED BY <3>1, <4>1 DEF Backed, BrkPage
    <3>3. CASE op.fn = "rollback"
      <4>1. brk' = brk /\ Backed(t, BrkPage(t))
        BY <1>a, <2>2, <3>3 DEF FinishSetBrk, BackedInv, CallBacked
      <4> QED BY <3>1, <4>1 DEF Backed, BrkPage
    <3> QED BY <1>0, <3>2, <3>3
  <2>3. CASE FinishGrowStack
    <3>1. ptState'[t] = "live" /\ pte' = pte /\ brk' = brk
      BY <1>0, <1>a, <2>3, MmuAssumption DEF FinishGrowStack, PagesInv, TransactionShape, MmuTypeOK
    <3>2. Backed(t, BrkPage(t))
      BY <1>0, <1>a, <2>3 DEF FinishGrowStack, BackedInv, CallBacked
    <3> QED BY <3>1, <3>2 DEF Backed, BrkPage
  <2> QED BY <2>1, <2>2, <2>3
<1>5. TablesBacked'
  BY <1>a, <1>3, <1>4, OtherTables DEF BackedInv
<1> QED BY <1>2, <1>5 DEF BackedInv

\* In user code every table in use is backed, and no call is under way.
LEMMA UserBacked ==
    ASSUME PagesInv, BackedInv, op = InUser, NEW p \in PT
    PROVE  /\ ptTransaction = NoPT /\ ptTransaction \notin PT
           /\ ptState[p] = "live" => Backed(p, BrkPage(p))
           /\ ptState[p] = "new" => DOMAIN pte[p] = {} /\ brk[p] = HeapBegin
<1>1. ptTransaction = NoPT /\ ptTransaction # p /\ ptTransaction \notin PT
  BY MmuAssumption DEF PagesInv, TransactionShape, InUser
<1> QED BY <1>1 DEF BackedInv, TablesBacked

\* mmu_createUsrPT begins.
LEMMA CreateStartBacked ==
    ASSUME PagesInv, BackedInv, NEW p \in PT, CreateUsrPT(p)
    PROVE  BackedInv'
<1>0. /\ MmuTypeOK /\ KrnPages \in Int /\ HeapBegin \in Int /\ AddrToPage(HeapBegin) = KrnPages
      /\ DOMAIN pte = PT
  BY BrkPageTypes DEF PagesInv
<1>1. /\ op = InUser /\ ptState[p] = "new" /\ ptTransaction' = p
      /\ UNCHANGED <<ptState, pte>>
      /\ \A q \in PT \ {p} : brk'[q] = brk[q]
  BY <1>0 DEF CreateUsrPT, BeginTransaction, MmuTypeOK
<1>2. DOMAIN pte[p] = {} /\ brk[p] = HeapBegin /\ ptTransaction \notin PT
  BY <1>1, UserBacked
<1>3. TablesBacked'
  BY <1>1, <1>2, OtherTables DEF BackedInv
<1>4. CASE HeapEnd(p) # HeapBegin
  <2>1. /\ op' = Loop("set", "heap", 0, HeapBegin, HeapBegin + 1)
        /\ brk'[p] = HeapBegin + PageSize
    BY <1>0, <1>1, <1>4 DEF CreateUsrPT, MmuTypeOK
  <2>2. /\ op'.fn = "set" /\ op'.call = "heap" /\ op'.at = KrnPages /\ op'.last = KrnPages
    BY <1>4, <2>1, FirstHeapPage DEF Loop
  <2>3. BrkPage(p)' = KrnPages + 1
    BY <1>4, <2>1, FirstHeapPage DEF BrkPage
  <2>4. KrnPages .. KrnPages - 1 = {}
    BY <1>0
  <2>5. CreateBacked'
    BY <1>1, <1>2, <1>4, <2>2, <2>3, <2>4 DEF CreateBacked
  <2>6. CallBacked'
    BY <2>2 DEF CallBacked
  <2> QED BY <1>3, <2>5, <2>6 DEF BackedInv
<1>5. CASE HeapEnd(p) = HeapBegin
  <2>1. op' = MapStack(p) /\ brk'[p] = HeapBegin
    BY <1>1, <1>2, <1>5 DEF CreateUsrPT
  <2>2. op'.fn = "set" /\ op'.call = "stack"
    BY <2>1, MapStackType
  <2>3. BrkPage(p)' = KrnPages
    BY <1>0, <2>1 DEF BrkPage
  <2>4. KrnPages .. KrnPages - 1 = {}
    BY <1>0
  <2>5. Backed(p, BrkPage(p))'
    BY <2>3, <2>4 DEF Backed
  <2>6. CreateBacked'
    BY <1>1, <2>2, <2>5 DEF CreateBacked
  <2>7. CallBacked'
    BY <2>2 DEF CallBacked
  <2> QED BY <1>3, <2>6, <2>7 DEF BackedInv
<1> QED BY <1>4, <1>5

\* A break that moves within its page, and a table that is destroyed.
LEMMA UserStepBacked ==
    ASSUME PagesInv, BackedInv, NEW p \in PT, NEW a \in UserSpace(p),
           MoveBrk(p, a) \/ DestroyPT(p)
    PROVE  BackedInv'
<1>0. MmuTypeOK /\ op = InUser /\ ptState[p] = "live"
  BY DEF PagesInv, MoveBrk, DestroyPT, Running
<1>1. ptTransaction \notin PT /\ Backed(p, BrkPage(p))
  BY <1>0, UserBacked
<1>2. op' = InUser /\ ptTransaction' = ptTransaction
  BY <1>0 DEF MoveBrk, DestroyPT
<1>3. CreateBacked' /\ CallBacked'
  BY <1>2 DEF CreateBacked, CallBacked, InUser
<1>4. \A q \in PT \ {p} : ptState'[q] = ptState[q] /\ pte'[q] = pte[q] /\ brk'[q] = brk[q]
  BY <1>0 DEF MoveBrk, DestroyPT, MmuTypeOK
<1>5. ptState'[p] # "new" /\ (ptState'[p] = "live" => Backed(p, BrkPage(p))')
  <2>1. CASE MoveBrk(p, a)
    <3>1. AddrToPage(brk'[p]) = AddrToPage(brk[p]) /\ UNCHANGED <<pte, ptState>>
      BY <1>0, <2>1 DEF MoveBrk, SamePage, MmuTypeOK
    <3> QED BY <1>0, <1>1, <3>1 DEF Backed, BrkPage
  <2>2. CASE DestroyPT(p)
    BY <1>0, <2>2 DEF DestroyPT, MmuTypeOK
  <2> QED BY <2>1, <2>2
<1>6. TablesBacked'
  BY <1>1, <1>4, <1>5, OtherTables DEF BackedInv
<1> QED BY <1>3, <1>6 DEF BackedInv

\* prc_setBrk and hwcpu_tryGrowStack begin.
LEMMA CallStartBacked ==
    ASSUME PagesInv, BackedInv, NEW p \in PT, NEW a \in UserSpace(p),
           ExpandHeap(p, a) \/ ContractHeap(p, a) \/ GrowStack(p, a)
    PROVE  BackedInv'
<1>0. /\ MmuTypeOK /\ op = InUser /\ ptState[p] = "live" /\ ptTransaction' = p
      /\ UNCHANGED <<ptState, pte, brk>>
      /\ a \in Int /\ brk[p] \in Int /\ AddrToPage(a) \in Int
      /\ BrkPage(p) \in Int
  BY UserAddress, BrkPageTypes, AddressTypes
     DEF PagesInv, ExpandHeap, ContractHeap, GrowStack, Running, BeginTransaction
<1>1. ptTransaction \notin PT /\ Backed(p, BrkPage(p))
  BY <1>0, UserBacked
<1>2. Backed(p, BrkPage(p))' /\ BrkPage(p)' = BrkPage(p)
  BY <1>0, <1>1 DEF Backed, BrkPage
<1>3. TablesBacked'
  BY <1>0, <1>1, OtherTables DEF BackedInv
<1>4. /\ op'.call \notin {"heap", "stack"}
      /\ op'.arg = a
  <2>1. \/ op' = Loop("set", "setBrk", a, brk[p], a)
        \/ op' = Loop("free", "setBrk", a, PageAlign(a), PageAlign(brk[p]))
        \/ op' = Loop("set", "growStack", a, a, a + 1)
    BY DEF ExpandHeap, ContractHeap, GrowStack
  <2> QED BY <2>1 DEF Loop
<1>5. CreateBacked'
  BY <1>4 DEF CreateBacked
<1>6. CASE ExpandHeap(p, a)
  <2>1. /\ op' = Loop("set", "setBrk", a, brk[p], a) /\ a > brk[p]
    BY <1>6 DEF ExpandHeap
  <2>2. /\ op'.fn = "set" /\ op'.call = "setBrk" /\ op'.at = BrkPage(p)
        /\ op'.last = AddrToPage(a - 1)
    BY <2>1 DEF Loop, BrkPage
  <2>3. AddrToPage(a - 1) >= AddrToPage(a) - 1
    <3> DEFINE n == AddrToPage(a)
    <3>1. PageToAddr(n) <= a /\ n - 1 \in Int /\ PageToAddr(n - 1) \in Int
      <4>1. n \in Int /\ PageToAddr(n) <= a
        BY <1>0, PageOfAddress
      <4> HIDE DEF n
      <4>2. n - 1 \in Int
        BY <4>1
      <4> QED BY <4>1, <4>2, AddressTypes
    <3>2. PageToAddr((n - 1) + 1) = PageToAddr(n - 1) + PageSize
      BY <3>1, AddressOrder
    <3>3. (n - 1) + 1 = n /\ PageSize \in Nat \ {0}
      BY <1>0, MmuAssumption
    <3>4. PageToAddr(n) = PageToAddr(n - 1) + PageSize
      BY <3>2, <3>3
    <3> HIDE DEF n
    <3>5. PageToAddr(n - 1) <= a - 1 /\ a - 1 \in Int
      BY <1>0, <3>1, <3>3, <3>4
    <3>6. n - 1 <= AddrToPage(a - 1)
      BY <3>1, <3>5, PageOfAddress
    <3> QED BY <1>0, <3>5, <3>6, AddressTypes DEF n
  <2>4. CallBacked'
    BY <1>0, <1>2, <1>4, <2>1, <2>2, <2>3 DEF CallBacked
  <2> QED BY <1>3, <1>5, <2>4 DEF BackedInv
<1>7. CASE ContractHeap(p, a)
  <2>1. /\ op' = Loop("free", "setBrk", a, PageAlign(a), PageAlign(brk[p])) /\ a < brk[p]
    BY <1>7 DEF ContractHeap
  <2>2. op'.fn = "free" /\ op'.call = "setBrk" /\ op'.at = AddrToPage(PageAlign(a))
    BY <2>1 DEF Loop
  <2>3. AddrToPage(PageAlign(a)) >= AddrToPage(a)
    <3>1. PICK n \in Int : PageAlign(a) = PageToAddr(n) /\ AddrToPage(a) <= n
      BY <1>0, AlignedUp
    <3>2. AddrToPage(PageAlign(a)) = n
      BY <3>1, PageOfAddress
    <3> QED BY <1>0, <3>1, <3>2
  <2>4. Backed(p, AddrToPage(a))
    <3>1. AddrToPage(a) <= BrkPage(p)
      BY <1>0, <2>1, PageOrder DEF BrkPage
    <3> QED BY <1>0, <1>1, <3>1, BackedBelow
  <2>5. Backed(p, AddrToPage(a))'
    BY <1>0, <2>4 DEF Backed
  <2>6. CallBacked'
    BY <1>0, <1>4, <2>1, <2>2, <2>3, <2>5 DEF CallBacked
  <2> QED BY <1>3, <1>5, <2>6 DEF BackedInv
<1>8. CASE GrowStack(p, a)
  <2>1. op'.fn = "set" /\ op'.call = "growStack"
    BY <1>8 DEF GrowStack, Loop
  <2>2. CallBacked'
    BY <1>0, <1>2, <2>1 DEF CallBacked
  <2> QED BY <1>3, <1>5, <2>2 DEF BackedInv
<1> QED BY <1>6, <1>7, <1>8

\* Every step keeps the heaps backed, those with a roll-back too.
LEMMA BackedNext == PagesInv /\ BackedInv /\ [Next]_vars => BackedInv'
<1> SUFFICES ASSUME PagesInv, BackedInv, [Next]_vars PROVE BackedInv'
  OBVIOUS
<1>1. CASE UNCHANGED vars
  BY <1>1 DEF vars, BackedInv, TablesBacked, CreateBacked, CallBacked, CreateFails,
              Backed, BrkPage, FreeFrames
<1>2. ASSUME NEW p \in PT, DestroyPT(p) PROVE BackedInv'
  <2>1. 0 \in UserSpace(p)
    <3>1. PICK h \in Int, s \in Int, e \in Int :
             /\ HeapBegin = PageToAddr(KrnPages) /\ SharedDataEnd(p) = PageToAddr(e)
             /\ KrnPages <= h /\ h <= s /\ s <= StackTopPage(p) /\ StackTopPage(p) < e
      BY Layout
    <3>2. /\ KrnPages < e /\ KrnPages \in Nat \ {0} /\ PageSize \in Nat \ {0}
          /\ 0 < e
      BY <3>1, MmuAssumption, LayoutTypes
    <3>3. PageToAddr(0) <= PageToAddr(e)
      BY <3>2, AddressOrder
    <3>4. PageToAddr(0) = 0
      BY <3>2 DEF PageToAddr
    <3> QED BY <3>1, <3>3, <3>4, LayoutTypes DEF UserSpace
  <2> QED BY <1>2, <2>1, UserStepBacked
<1> QED BY <1>1, <1>2, SetPageBacked, LoopEndBacked, ReleasePageBacked, CallEndBacked,
           CreateStartBacked, UserStepBacked, CallStartBacked
        DEF Next

\* In user code every page of a heap below its break is mapped, for any number of
\* processes, any layout, any amount of memory and however often it runs out.
THEOREM BreaksAreBacked == Spec => []HeapBacked
<1>1. PagesInv /\ BackedInv => HeapBacked
  <2> SUFFICES ASSUME PagesInv, BackedInv, NEW p \in PT, ptState[p] = "live"
               PROVE  Backed(p, AddrToPage(UsableHeapEnd(p)))
    BY DEF HeapBacked, Backed
  <2>0. /\ MmuTypeOK /\ op.arg \in Int /\ brk[p] \in Int
        /\ BrkPage(p) \in Int /\ AddrToPage(op.arg) \in Int
    BY BrkPageTypes DEF PagesInv
  <2>1. CASE p # ptTransaction
    BY <2>1 DEF UsableHeapEnd, BackedInv, TablesBacked, BrkPage
  <2>2. CASE p = ptTransaction
    <3>1. /\ op.call \in {"setBrk", "growStack"} /\ op.fn \notin {"user", "abort"}
          /\ op.fn \in {"set", "free", "commit", "rollback"}
      BY <2>0, <2>2, MmuAssumption DEF PagesInv, TransactionShape, MmuTypeOK
    <3>2. CASE op.call = "growStack"
      BY <2>2, <3>1, <3>2 DEF UsableHeapEnd, BackedInv, CallBacked, BrkPage
    <3>3. CASE op.call = "setBrk" /\ op.fn \in {"set", "rollback"}
      <4>1. op.arg > brk[p] /\ Backed(p, BrkPage(p))
        <5>1. CASE op.fn = "set"
          <6>1. op.arg > brk[p] /\ op.at >= BrkPage(p) /\ Backed(p, op.at) /\ op.at \in Int
            BY <2>0, <2>2, <3>3, <5>1, BrkPageTypes DEF BackedInv, CallBacked
          <6> QED BY <2>0, <6>1, BackedBelow
        <5>2. CASE op.fn = "rollback"
          BY <2>2, <3>3, <5>2 DEF BackedInv, CallBacked
        <5> QED BY <3>3, <5>1, <5>2
      <4> QED BY <2>0, <4>1 DEF UsableHeapEnd, BrkPage
    <3>4. CASE op.call = "setBrk" /\ op.fn \in {"free", "commit"}
      <4>1. Backed(p, AddrToPage(op.arg))
        BY <2>2, <3>4 DEF BackedInv, CallBacked
      <4>2. CASE op.arg < brk[p]
        BY <2>2, <3>4, <4>1, <4>2 DEF UsableHeapEnd
      <4>3. CASE ~(op.arg < brk[p])
        <5>1. AddrToPage(brk[p]) <= AddrToPage(op.arg) /\ AddrToPage(brk[p]) \in Int
          BY <2>0, <4>3, PageOrder DEF BrkPage
        <5> QED BY <2>0, <4>1, <4>3, <5>1, BackedBelow DEF UsableHeapEnd
      <4> QED BY <4>2, <4>3
    <3> QED BY <3>1, <3>2, <3>3, <3>4
  <2> QED BY <2>1, <2>2
<1> QED BY <1>1, BackedInit, BackedNext, PagesInvariant, PTL DEF Spec

===============================================================================
