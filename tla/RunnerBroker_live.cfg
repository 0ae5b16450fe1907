SPECIFICATION FairSpec
CONSTANTS
    d1 = d1
    NoDevice = NoDevice
    Absent = Absent
    Meets <- AnyDevice
    AcceptTimeout = 0
    QueueTimeout = 1
    Retention = 0
    MaxActive = 2
    MaxLinks = 2
    MaxStreams = 2
    Jobs = {1}
    Bots = {"b1"}
    Devices = {d1}
    BotOf <- OneBot
    MaxSlots = 1
    SkipTime = 1
    LostGrace = 1
    MaxMint = 1
    MaxRestarts = 1

PROPERTIES QueuedMovesOn OfflineJobsEnd RevokedLosesAll CancelEnds
CHECK_DEADLOCK FALSE
