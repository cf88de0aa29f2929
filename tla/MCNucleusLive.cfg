\* Every request is answered: two processes, a device and the clock.
SPECIFICATION FairSpec
CONSTANTS
    MaxProc = 3
    MaxMsg = 6
    CountMod = 4
    Population = 2
    Load <- NucleusLoad
    Device = {1}
    Services = {"CREATE", "DOIO", "CLOCKWAIT"}
    Liberty = {}
    MaxTicks = 1
    MaxData = 1
INVARIANT
    WaitEnds
PROPERTY RequestsAnswered
