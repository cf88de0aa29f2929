\* Three devices with four units, three processes that keep them busy, and the
\* interval timer.
SPECIFICATION FairSpec
CONSTANTS
    Attached <- MCAttached
    Process = {p1, p2, p3}
    MaxTicks = 1
INVARIANTS
    InterruptsTypeOK
    CommandUnderWay
    NoPanic
PROPERTIES
    OwnStatus
    IoAnswered
