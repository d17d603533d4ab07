\* Three identifiers, pages of one, two and three items, integers of 8 bits.
SPECIFICATION Spec
CONSTANTS
    Names = {alpha}
    NoName = NoName
    LabelKeys = {env}
    LabelValues = {EmptyValue, dev}
    EmptyValue = EmptyValue
    NoValue = NoValue
    NilLabels = NilLabels
    Payloads = {}
    NoData = NoData
    NoItem = NoItem
    Ids = {i1, i2, i3}
    Bodies <- TwoBodies
    Selectors <- TwoSelectors
    Pages <- SmallPages
    Limits <- SmallLimits
    Width = 8
    DefaultLimit = 2
    MaxLimit = 3
    Panicked = Panicked
    Forgotten = Forgotten
    MaxCommits = 4
INVARIANTS
    AnswerIsThePage
    WalkMissesNothing
    WalkNeverRepeats
