\* Three threads, recursive locking, sleeps.
CONSTANTS
    hello = hello
    tHello = tHello
    w1 = w1
    w2 = w2
    Idle = tIdle
    IdleProc = idle
    Thread = {tIdle, tHello, w1, w2}
    Proc = {idle, hello}
    NoProc = NoProc
    NoThread = NoThread
    NoEvent = NoEvent
    Apps <- OneApp
    Main <- OneAppMain
    WantsKeys = {}
    NumSlots = 5
    CounterMod = 2
    SleepMs = {1}
    TimerMs = {}
    HalfRange = 4
    SleepBits <- NoBits
    MaxTimers = 1
    MaxEvents = 3
    MaxMsgs = 1
    MaxReady = 4
    Users = {tHello, w1, w2}
    MaxDepth = 2
    UsesMsgs = FALSE
SYMMETRY Workers
SPECIFICATION MutexSpec
INVARIANTS
    MutexSound
PROPERTIES
    NotifyReachesWaiter
