\* Two sessions with two commands between them, any of which may crash.
SPECIFICATION Spec
CONSTANTS
    Guids = {g1, g2}
    Fingers = {thumb, index}
    Wild = Wild
    Free = Free
    NoRecord = NoRecord
    MaxNodes = 3
    Names = {"sensor"}
    Values = {v1, v2}
    NoValue = NoValue
    MaxSessions = 2
    MaxCmds = 2
    MaxSets = 1
SYMMETRY Alike
INVARIANT SessionSound
INVARIANT PairingKept
 
CHECK_DEADLOCK FALSE
