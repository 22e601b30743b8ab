CONSTANTS
    r1 = r1
    r2 = r2
    r3 = r3
    NoOne = NoOne
    Requests <- MCTwoRequests
    FrameKinds <- OnlyRequests
    max_inflight_per_client = 2
SPECIFICATION Spec
INVARIANT AcceptedIsAnswered
