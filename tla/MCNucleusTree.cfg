\* Creation, termination and messages: three PCBs, so that the third is used
\* again; the pool is never exhausted by the requests and one plain message
\* in each inbox.
SPECIFICATION Spec
CONSTANTS
    MaxProc = 3
    MaxMsg = 8
    CountMod = 4
    Population = 2
    Load <- NucleusLoad
    Device = {}
    Services = {"CREATE", "TERM", "BAD", "GETTIME", "RECV", "DATA"}
    Liberty = {}
    MaxTicks = 0
    MaxData = 1
INVARIANTS
    NucleusTypeOK
    EveryPcbPlaced
    ProcessCount
    HaltAtTheEnd

