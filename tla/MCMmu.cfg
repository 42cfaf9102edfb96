\* Two page tables: one machine too small to make both, one too small to fill both.
CONSTANTS
    p1 = p1
    p2 = p2
    PT = {p1, p2}
    NoPT = NoPT
    Tag = Tag
    PageSize = 2
    KrnPages = 1
    MaxPages = 6
    Ram = {2, 6}
    StackSize <- MCStackSize
    HeapPages <- MCHeapPages
    DataSharedSize = 1
SPECIFICATION Spec
INVARIANTS
    OwnedIsMapped
    NothingLeaked
    OwnedUntilFailure
    HeapBacked
    GuardNeverMapped
CHECK_DEADLOCK FALSE
