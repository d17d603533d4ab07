\* One identifier, every kind of payload, a labelled and an unlabelled body.
SPECIFICATION ClientSpec
CONSTANTS
    Ids = {i1}
    Names = {alpha}
    NoName = NoName
    LabelKeys = {env}
    LabelValues = {EmptyValue}
    EmptyValue = EmptyValue
    NoValue = NoValue
    NilLabels = NilLabels
    Payloads = {"object", "precise", "rounded", "empty", "list", "null", "broken"}
    NoData = NoData
    NoItem = NoItem
    Clients = {c1}
    Labelings <- TwoLabelings
    NoCopy = NoCopy
    Unreadable = Unreadable
    MaxCommits = 4
    Commands = {p1}
    NoExit = NoExit
INVARIANTS
    TypeOK
    OnlyGraphQLBreaks
    ExitTellsOutcome
PROPERTIES
    WriteBackKeeps
