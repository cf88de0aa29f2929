\* A process may die while it waits for the clock; its PCB is used again.
SPECIFICATION Spec
CONSTANTS
    MaxProc = 4
    MaxMsg = 0
    MaxDevice = 1
    Liberty = {"clock"}
INVARIANT RingsClose
