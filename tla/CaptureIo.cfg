\* Two captures in turn, cancelled at any time.
SPECIFICATION Spec
CONSTANT
    MaxOps = 2
INVARIANT CaptureSound
PROPERTY CallbackOnce
PROPERTY ImplementsAsyncResult
PROPERTY CompletionArrives
PROPERTY CancelledCaptureEnds
CHECK_DEADLOCK FALSE
