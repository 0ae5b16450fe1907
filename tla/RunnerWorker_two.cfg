SPECIFICATION Spec
CONSTANTS
    j1 = j1  j2 = j2  b1 = b1
    Jobs <- TwoJobs
    Bots <- OneBot
    BotOf <- BotAll
    Slots = 1
SYMMETRY Permuted
INVARIANTS
    TypeOK
    AcceptedOnDisk
    SlotsRespected
    ReportsAreCurrent
