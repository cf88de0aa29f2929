SPECIFICATION FairTurnSpec
CONSTANTS
    Asid = {1, 2}
    Pages <- MCPagesFull
    TextSize <- MCTextSize
    Val = {0}
    PoolSize = 1
    MaxPages = 1
    ProgramLimit = 2
    StackTop = 9
    FirstStackBlock = 1
    Liberty = {"flash"}
PROPERTIES
    FaultServed
    FramesReturned
