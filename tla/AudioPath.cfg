CONSTANTS
    Capacity = 4
    MaxChunk = 4
    MaxSamples = 7
    MaxMediaEvents = 3
SPECIFICATION PathSpec
INVARIANTS
    DataRaceFree
    NeverTerminates
    NoFreedPort
PROPERTIES
    ImplementsQueue
    DestructionCompletes
CHECK_DEADLOCK FALSE
