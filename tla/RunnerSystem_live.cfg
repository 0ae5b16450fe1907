SPECIFICATION FairSystemSpec
CONSTANTS
    d1 = d1
    d2 = d2
    NoDevice = NoDevice
    Absent = Absent
    Jobs = {1}
    Bots = {"b1"}
    Devices = {d1}
    Runner = d1
    BotOf <- OneBot
    Meets <- AnyDevice
    MaxSlots = 1
    Slots = 1
    AcceptTimeout = 0
    SkipTime = 1
    LostGrace = 0
    QueueTimeout = 1
    Retention = 0
    MaxActive = 2
    MaxLinks = 1
    MaxMint = 1
    MaxStreams = 1
    MaxInbox = 1
    MaxRestarts = 0
    MaxTroubles = 1
    Troubles = {"crash"}
PROPERTIES AcceptedJobsEnd EndedJobsLeave ImplementsBroker ImplementsWorker
CHECK_DEADLOCK FALSE
