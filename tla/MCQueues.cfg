\* The SSI, test and a child that may die and be created again; two messages;
\* a device and the clock.
SPECIFICATION Spec
CONSTANTS
    MaxProc = 3
    MaxMsg = 2
    MaxDevice = 1
    Liberty = {}
INVARIANTS
    QueuesTypeOK
    RingsClose
    FreeIsNowhereElse
PROPERTY ImplementsQueues
