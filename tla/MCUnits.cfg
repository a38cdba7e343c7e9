SPECIFICATION MCSpec
CONSTANTS
    Cooldown = 2
    LockTime = 12
    BackoffBase = 1
    BackoffMax = 3
    ShiftCap = 2
    SustainTicks = 2
    RingSize = 6
    BuildTime = 2
    connSwitchEnabled = TRUE
    loadDownRevert = TRUE
    StartEngines = {"epoll", "iouring"}
    ResetWindow = 4
    WordBits = 2
    MaxId = 22
    Users = {u1, u2}
    None = None
    Shared = Shared
    Regs = 2
    readBudget = 1
INVARIANTS
    NoThrash RingIsSet DoneAgrees CancelReaches
    NothingStranded OwnSocketOnly NextOwnerKept ClosedOnce
CHECK_DEADLOCK FALSE
