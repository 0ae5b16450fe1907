SPECIFICATION SystemSpec
CONSTANTS
    d1 = d1
    d2 = d2
    NoDevice = NoDevice
    Absent = Absent
    Jobs = {1}
    Bots = {"b1"}
    Devices = {d1, d2}
    Runner = d1
    BotOf <- OneBot
    Meets <- AnyDevice
    MaxSlots = 1
    Slots = 1
    AcceptTimeout = 0
    SkipTime = 0
    LostGrace = 0
    QueueTimeout = 1
    Retention = 0
    MaxActive = 2
    MaxLinks = 2
    MaxMint = 2
    MaxStreams = 1
    MaxInbox = 1
    MaxRestarts = 1
    MaxTroubles = 1
    Troubles = {"stream", "answer", "late", "crash", "restart", "failure", "cancel", "unlink", "purge", "switch", "quit", "delayed"}
CONSTRAINT Searched
INVARIANTS SystemTypeOK StartedIsNotWaiting SuccessIsReal OneComputer
PROPERTIES CommandStartsOnce
CHECK_DEADLOCK FALSE
