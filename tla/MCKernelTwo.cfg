\* Two user processes with three threads between them; no sleeps or timers.
CONSTANTS
    hello = hello
    other = other
    tHello = tHello
    tOther = tOther
    w1 = w1
    Idle = tIdle
    IdleProc = idle
    Thread = {tIdle, tHello, tOther, w1}
    Proc = {idle, hello, other}
    NoProc = NoProc
    NoThread = NoThread
    NoEvent = NoEvent
    Apps <- TwoApps
    Main <- TwoAppsMain
    WantsKeys = {hello, other}
    NumSlots = 4
    CounterMod = 2
    SleepMs = {}
    TimerMs = {}
    HalfRange = 4
    SleepBits <- NoBits
    MaxTimers = 1
    MaxEvents = 1
    MaxMsgs = 1
    MaxReady = 4
SPECIFICATION Spec
INVARIANTS
    ReadyQueueExact
    ThreadListExact
    ResumesLiveProcess
    PageTableExists
    ThreadHandles
    DeadProcessLeavesNothing
PROPERTIES
    NoOvertaking
