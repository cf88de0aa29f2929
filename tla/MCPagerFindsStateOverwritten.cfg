SPECIFICATION Spec
CONSTANTS
    Asid = {1}
    Pages <- MCPagesAlone
    TextSize <- MCTextSize
    Val = {0}
    PoolSize = 1
    MaxPages = 2
    ProgramLimit = 2
    StackTop = 9
    FirstStackBlock = 1
    Liberty = {}
INVARIANTS
    ResumesItself
CHECK_DEADLOCK FALSE
