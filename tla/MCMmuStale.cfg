\* A heap expansion that runs out of pages.
CONSTANTS
    p1 = p1
    p2 = p2
    PT = {p1, p2}
    NoPT = NoPT
    Tag = Tag
    PageSize = 2
    KrnPages = 1
    MaxPages = 6
    Ram = {2, 6}
    StackSize <- MCStackSize
    HeapPages <- MCHeapPages
    DataSharedSize = 1
SPECIFICATION Spec
INVARIANTS
    MappedOnce
CHECK_DEADLOCK FALSE
