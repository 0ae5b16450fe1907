SPECIFICATION Spec
CONSTANTS
    d1 = d1
    NoDevice = NoDevice
    Absent = Absent
    Meets <- AnyDevice
    AcceptTimeout = 0
    QueueTimeout = 1
    Retention = 0
    MaxActive = 2
    MaxLinks = 2
    MaxStreams = 1
    Jobs = {1, 2}
    Bots = {"b1", "b2"}
    Devices = {d1}
    BotOf <- TwoBots
    MaxSlots = 1
    SkipTime = 1
    LostGrace = 1
    MaxMint = 2
    MaxRestarts = 1
INVARIANTS TypeOK ActiveHasLink NoJobStranded TimersMatchStates CancelIsKept
PROPERTIES RunsAtMostOnce ImplementsJob AssignedWithinSlots NoOvertaking
CHECK_DEADLOCK FALSE
