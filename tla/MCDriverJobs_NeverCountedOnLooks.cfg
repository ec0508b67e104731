\* One invocation, one child, and an old file that is not a managed link.
CONSTANTS
    first = first
    second = second
    Drivers <- One
    NumSlots = 1
    MaxRetries = 1
    Workers <- Mixed
    Identity <- Same
    OldFiles = {"none", "good"}
SPECIFICATION Spec
INVARIANT NeverCountedOnLooks
