\* A sequential driver and a pool of two threads, over two slots of one
\* attempt; two failing appends, so that the record of a failure fails too.
CONSTANTS
    first = first
    second = second
    Drivers <- Two
    NumJobs = 2
    MaxAttempts = 1
    Workers <- Mixed
    MaxFaults = 2
SPECIFICATION FairSpec
PROPERTY Concludes
