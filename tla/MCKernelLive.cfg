\* Liveness: no symmetry, few handles.
CONSTANTS
    hello = hello
    other = other
    tHello = tHello
    tOther = tOther
    w1 = w1
    Idle = tIdle
    IdleProc = idle
    Thread = {tIdle, tHello, w1}
    Proc = {idle, hello}
    NoProc = NoProc
    NoThread = NoThread
    NoEvent = NoEvent
    Apps <- OneApp
    Main <- OneAppMain
    WantsKeys = {hello}
    NumSlots = 3
    CounterMod = 2
    SleepMs = {1, 2}
    TimerMs = {1}
    HalfRange = 4
    SleepBits <- NoBits
    MaxTimers = 1
    MaxEvents = 3
    MaxMsgs = 1
    MaxReady = 3
SPECIFICATION FairSpec
PROPERTIES
    ReadyRuns
    SleepEnds
    KernelReturns
