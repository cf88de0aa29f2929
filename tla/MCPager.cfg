SPECIFICATION TurnSpec
CONSTANTS
    Asid = {1, 2}
    Pages <- MCPagesStack
    TextSize <- MCTextSize
    Val = {0, 1}
    PoolSize = 2
    MaxPages = 2
    ProgramLimit = 2
    StackTop = 9
    FirstStackBlock = 1
    Liberty = {}
INVARIANTS
    PagerTypeOK
    MutualExclusion
    SwapExact
    TlbCoherent
    WrittenToOwner
    SeesLastStore
