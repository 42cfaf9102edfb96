\* Every component with values small enough to reach each of its cases.
CONSTANTS
    Val = {1, 2}
    NoVal = 0
    InitialCapacities = {0, 1, 2}
    ReserveCapacities = {1, 3}
    DefaultCapacity = 2
    MaxCapacity = 5
    Junk = Junk
    DefaultRoom = 2
    MaxRoom = 8
    Times = {1, 2}
    InitialRoom = 1
    MaxEvents = 5
    Timers = {0, 1}
    MaxCallbacks = 4
    Co = {c1, c2, c3}
    Main = Main
    NullCo = NullCo
    StarterCtx = StarterCtx
    Alignment = 2
    NodeSize = 2
    FreeNodeMin = 2
    HeapPageSize = 8
    HeapStart = 8
    InitialBrk = 16
    HeapLimit = 32
    Sizes = {1, 4, 7, 11}
    Clients = {1, 2, 3}
    FirstBytes = {10}
    OldByte = 0
    Chunk = 2
    MaxFile = 4
    ItemSizes = {1, 3}
    ItemCounts = {1, 3}
    Wrap = 4
    Drives = {0, 1}
    Disks = {a, b}
    NoDisk = NoDisk
    Protected = {}
    Blank = {a}
    MaxAttached = 2
    TlsThread = {t1, t2}
    TlsMain = t1
    TlsMaxSlots = 3
    TlsValues = {1}
    KrnPageSize = 4
    Roms <- SmallRoms
    KrnStackSize = 6
    KrnHeapPages = 2
    KrnIoPages = 2
    ScreenSizes = {5, 9}
    Privileged <- KernelApps
    Width = 2
    Height = 3
    Glyphs = {g}
    Space = Space
    Nothing = Nothing
    Foreign = Foreign
    LogoWidth = 1
    LogoHeight = 1
SPECIFICATION ComponentsSpec
INVARIANTS
    AgendaInOrder
    CalledOncePerTick
    CoroutinesExact
    HeapSound
    FileIoExact
    ChangesNoticed
    RightFileSystem
    TlsIndexesKept
    KernelSpaceExact
    LaunchedOrNothing
PROPERTIES
    QueueIsFifo
    HeapIsAllocator
    ScreenIsConsole
    DriverReturns
    DiskNoticed
\* The start of the kernel ends; so do the runs of the timers and of the disks,
\* at the bounds of their callbacks and exchanges.
CHECK_DEADLOCK FALSE
