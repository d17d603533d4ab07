\* The check of If-Match and the update it guards are two steps.
SPECIFICATION Spec
CONSTANTS
    Names = {alpha}
    NoName = NoName
    LabelKeys = {}
    LabelValues = {EmptyValue}
    EmptyValue = EmptyValue
    NoValue = NoValue
    NilLabels = NilLabels
    Payloads = {full}
    NoData = NoData
    NoItem = NoItem
    Bodies <- TwoBodies
    Ids = {i1}
    Clients = {c1, c2}
    Handlers = {h1, h2}
    NoPut = NoPut
    MaxCommits = 3
PROPERTIES
    ConditionalPutReplacesMatched
