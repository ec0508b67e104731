\* Two faults: one to break a turn or a write, one to break the handling of it.
SPECIFICATION FairSpec
CONSTANTS
    Cases = 2
    Controls = 1
    MaxFaults = 2
INVARIANTS
    FailureIsFinal
    CasesAddUp
PROPERTY
    Concludes
