\* Two clients, two handlers of conditional PUTs, which one client may occupy
\* both, and one identifier reused by delete and PATCH.
SPECIFICATION Spec
CONSTANTS
    Names = {alpha}
    NoName = NoName
    LabelKeys = {}
    LabelValues = {EmptyValue}
    EmptyValue = EmptyValue
    NoValue = NoValue
    NilLabels = NilLabels
    Payloads = {full}
    NoData = NoData
    NoItem = NoItem
    Bodies <- TwoBodies
    Ids = {i1}
    Clients = {c1, c2}
    Handlers = {h1, h2}
    NoPut = NoPut
    MaxCommits = 3
SYMMETRY Symmetric
INVARIANTS
    TypeOK
    EtagNamesOneItem
    SharedTagsOverlapped
PROPERTIES
    NotModifiedIsCurrent
    StaleTagsAreRefused
