SPECIFICATION SiloSpec
CONSTANTS
    JMessages = {m1, m2}
    JSlots = {1, 2}
    SnapshotInterval = 2
    MaxBatch = 2
    MaxJFaults = 2
    LostAcks = TRUE
    Stores <- MCStores
    TSlots = {s1, s2}
    Program <- MCProgram
    MaxOps = 1
    MaxTFaults = 1
    RMessages = {1, 2}
    LogKinds = {"memory", "sqlite", "postgres"}
    MaxConcurrent = 2
    Capacity = 2
    BatchLimit = 1
    MaxRFaults = 1
INVARIANTS
    ReplayIsJournal AppliedOnce
    FailedLeavesNoTrace CheckpointKept SagaPrefix
     
  
SYMMETRY Symmetry
CHECK_DEADLOCK FALSE
