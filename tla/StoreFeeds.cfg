\* Two writers race for the lock while two subscribers come, read and go.
SPECIFICATION Spec
CONSTANTS
    Ids = {i1}
    Writers = {w1, w2}
    Subscribers = {c1, c2}
    Bodies <- TwoBodies
    Capacity = 1
    MaxCommits = 3
    Names = {alpha}
    NoName = NoName
    LabelKeys = {env}
    LabelValues = {EmptyValue, prod}
    EmptyValue = EmptyValue
    NoValue = NoValue
    NilLabels = NilLabels
    Payloads = {full}
    NoData = NoData
    NoItem = NoItem
    Free = Free
    NoEvent = NoEvent
    full = full
SYMMETRY Symmetric
INVARIANTS
    TypeOK
    OneWriterInside
    FeedInOrder
    NothingSilentlyLost
    MirrorIsExact
    LogRebuildsItems
    LogIsWellFormed
PROPERTIES
    ImplementsFeed
