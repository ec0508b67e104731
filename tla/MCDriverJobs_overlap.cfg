\* Two invocations of one config, free to overlap; an old file may be in the way.
CONSTANTS
    first = first
    second = second
    Drivers <- Two
    NumSlots = 1
    MaxRetries = 2
    Workers <- Mixed
    Identity <- Same
    OldFiles = {"none", "good"}
SPECIFICATION Spec
INVARIANTS
    AccountsClose
    NeverOverstated
    CountedIsBacked
