\* A stream over writers of both kinds.
SPECIFICATION WatchFairSpec
CONSTANTS
    Names = {}
    NoName = NoName
    LabelKeys = {k1}
    LabelValues = {EmptyValue, prod}
    EmptyValue = EmptyValue
    NoValue = NoValue
    NilLabels = NilLabels
    Payloads = {}
    NoData = NoData
    NoItem = NoItem
    Free = Free
    NoEvent = NoEvent
    prod = prod
    Ids = {i1, raw}
    Unsendable = {raw}
    Bodies <- WatchBodies
    Capacity = 1
    Writers = {w1, w2}
    GrpcWriters = {w2}
    Subscribers = {c1}
    Selectors <- WatchSelectors
    MaxCommits = 3
\* A panic under gRPC ends the process.
CHECK_DEADLOCK FALSE
INVARIANTS
    WatchTypeOK
    ListenersAreTheLoops
    SentIsTheFilteredFeed
PROPERTIES
    GoneStreamsLeave
    
    CallsReturn
