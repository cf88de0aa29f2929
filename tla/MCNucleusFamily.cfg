\* Three generations, or two siblings, that share two devices; a member may die
\* by a trap while the others wait for a device.
SPECIFICATION FamilySpec
CONSTANTS
    MaxProc = 4
    MaxMsg = 9
    CountMod = 5
    Population = 2
    Load <- NucleusLoad
    Device = {1, 2}
    Services = {"DOIO", "TRAP", "RECV"}
    Liberty = {}
    MaxTicks = 0
    MaxData = 1
INVARIANTS
    FamilyTree
    DeviceQueuesLive
    SoftblockCount
    RequestAtOneStage
    WaitEnds
    PanicIsDeadlock
PROPERTY AnswersMatch
