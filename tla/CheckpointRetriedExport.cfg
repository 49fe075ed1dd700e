\* An export is repeated after a crash that hit it between its last write and its receipt.
CONSTANTS
    MaxExports = 5
    Retention = 3
    LateRetries = FALSE
SPECIFICATION CheckpointsSpec
INVARIANTS
    RetainedAreKept
CHECK_DEADLOCK FALSE
