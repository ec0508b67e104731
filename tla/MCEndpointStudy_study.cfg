\* Three replicates per cell, up to two faults, eight requests.
SPECIFICATION StudySpec
CONSTANTS
    Conditions <- MCConditions
    Spans <- MCSpans
    Cases = 1
    Repeats = 3
    MaxFaults = 2
INVARIANTS
    LossIsOneBlock
    VerdictIsQuiet
    SummaryAddsUp
