\* Two queues, two objects of the driver half, the device opened twice.
SPECIFICATION Spec
CONSTANTS
    Queues = {"q1", "q2"}
    Extras = {"x1", "x2"}
    MaxActs = 3
    MaxOpens = 2
INVARIANT ObjectsSound
PROPERTY QueuesStopFirst
PROPERTY TeardownEnds
CHECK_DEADLOCK FALSE
