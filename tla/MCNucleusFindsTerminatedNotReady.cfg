\* A message sent while its receiver is being terminated.
SPECIFICATION Spec
CONSTANTS
    MaxProc = 4
    MaxMsg = 4
    CountMod = 5
    Population = 2
    Load <- NucleusLoad
    Device = {}
    Services = {"CREATE", "RECV", "TERM", "DATA"}
    Liberty = {"send"}
    MaxTicks = 0
    MaxData = 1
INVARIANT TerminatedNotReady
