\* The thread-safety the comment promises.
SPECIFICATION Spec
CONSTANTS
    Ids = {i1}
    Writers = {w1}
    Subscribers = {c1}
    Bodies <- TwoBodies
    Capacity = 1
    MaxCommits = 1
    Names = {alpha}
    NoName = NoName
    LabelKeys = {env}
    LabelValues = {EmptyValue, prod}
    EmptyValue = EmptyValue
    NoValue = NoValue
    NilLabels = NilLabels
    Payloads = {full}
    NoData = NoData
    NoItem = NoItem
    Free = Free
    NoEvent = NoEvent
    full = full
INVARIANTS
    NoCallPanics
