\* The SSI, test and a free PCB; three messages, so that a selective receive
\* can pass over one message and still find two of the wanted sender, and so
\* that the pool is exhausted.
SPECIFICATION IpcSpec
CONSTANTS
    MaxProc = 3
    MaxMsg = 3
    CountMod = 4
    Population = 2
    Load <- MCLoad
INVARIANTS
    TypeOK
    Placement
    NoLostWakeup
    SoftblockExact
    MsgPoolExact
PROPERTY ImplementsChannels
