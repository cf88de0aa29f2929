\* Two U-procs that ask for two things each, a string of up to two characters
\* among them, and may trap; commands may fail.
SPECIFICATION FairSpec
CONSTANTS
    UPROCMAX = 2
    MaxRequests = 1
    Strings <- MCStrings
    Liberty = {"trap"}
INVARIANTS
    SupportTypeOK
    OutputAsAsked
    NobodyCutOff
PROPERTY MachineHalts
