CONSTANTS
    r1 = r1
    r2 = r2
    r3 = r3
    NoOne = NoOne
    Requests <- MCRequests
    FrameKinds <- AllKinds
    max_inflight_per_client = 2
SPECIFICATION FairSpec
INVARIANTS
    NoUseAfterClose
    InflightBounded
    OneReplyEach
PROPERTIES
    WritesOneAtATime
    SessionEnds
    ActsAsOutlined
