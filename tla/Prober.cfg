SPECIFICATION Spec
CONSTANTS
    OldPods = {p1}
    NewPods = {p2}
    NumURLs <- URLs
    Hash = {1, 2}
    MaxGeneration = 2
    p1 = p1
    p2 = p2
INVARIANTS
    CountsExact
    ReadyJustified
    OneSession
PROPERTIES
    CountsDown
    EventuallyReady
CHECK_DEADLOCK FALSE
