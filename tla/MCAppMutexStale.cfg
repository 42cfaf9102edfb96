\* A thread that once waited for the mutex waits for a message.
CONSTANTS
    hello = hello
    tHello = tHello
    w1 = w1
    w2 = w2
    Idle = tIdle
    IdleProc = idle
    Thread = {tIdle, tHello, w1, w2}
    Proc = {idle, hello}
    NoProc = NoProc
    NoThread = NoThread
    NoEvent = NoEvent
    Apps <- OneApp
    Main <- OneAppMain
    WantsKeys = {}
    NumSlots = 5
    CounterMod = 2
    SleepMs = {}
    TimerMs = {}
    HalfRange = 4
    SleepBits <- NoBits
    MaxTimers = 1
    MaxEvents = 3
    MaxMsgs = 1
    MaxReady = 4
    Users = {tHello, w1, w2}
    MaxDepth = 1
    UsesMsgs = TRUE
SYMMETRY Workers
SPECIFICATION MutexSpec
PROPERTIES
    NotifyReachesWaiter
