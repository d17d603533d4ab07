\* serve with a server of every kind, and each single command.  web is the
\* HTTP servers in one: the echo server's paths, and a New that may fail.
SPECIFICATION PatientCommands
CONSTANTS
    HttpServers = {web}
    GrpcServers = {grpc}
    DnsServers = {dns}
    Fallible = {web}
    EchoServers = {web}
    Missing = Missing
    NotANumber = NotANumber
    MaxDelay = 4
    Grace = 2
    Arguments <- MCArguments
    Paces = {0, 3}
    Spellings <- MCSpellings
    Canonical <- MCCanonical
    Lower <- MCLower
    RecordTypes = {"A", "TXT"}
    OtherType = "SRV"
    AnyType = "ANY"
    Address = "A"
    Apex = "sidequest.local."
    Wildcard = "*.sidequest.local."
    Environs <- MCEnvirons
    NoRequest = NoRequest
    NoAnswer = NoAnswer
\* The process ends.
CHECK_DEADLOCK FALSE
INVARIANTS
    CommandTypeOK
    RpcsAreFinished
    SlowOnlyIsCut
    AnswersFitQuestions
PROPERTIES
    StopsButForDns
    FailureStopsAll
    AloneStops
