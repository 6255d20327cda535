\* The reader is asked to stop while reads are queued.
SPECIFICATION Spec
CONSTANTS
    MaxReads = 2
    MaxReports = 1
    Shared = FALSE
INVARIANT ClosedEndsReads
CHECK_DEADLOCK FALSE
