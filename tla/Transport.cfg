\* Items, nodes and handles in every order; DLLs with every mixture of entries.
SPECIFICATION Spec
CONSTANTS
    MaxItems = 3
    MaxNodes = 4
    MaxOpens = 9
    MaxEntries = 2
    Bases = {500, 2000}
INVARIANT InterfacesSound
INVARIANT ImageSound
CHECK_DEADLOCK FALSE
