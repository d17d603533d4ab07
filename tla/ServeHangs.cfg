\* A WatchItems stream that its client keeps open.
SPECIFICATION FairSpec
CONSTANTS
    HttpServers = {}
    GrpcServers = {grpc}
    DnsServers = {}
    Fallible = {}
\* The process ends.
CHECK_DEADLOCK FALSE
PROPERTIES
    CtrlCStops
