\* Two reads and three reports, on a device shared with a keyboard.
SPECIFICATION Spec
CONSTANTS
    MaxReads = 2
    MaxReports = 3
    Shared = TRUE
INVARIANT ChannelSound
PROPERTY NoEventDropped
PROPERTY CloseReturns
CHECK_DEADLOCK FALSE
