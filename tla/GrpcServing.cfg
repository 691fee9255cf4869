CONSTANTS
    localhost = localhost
    loopback4 = loopback4
    loopback6 = loopback6
    socketFile = socketFile
    Names = {localhost}
    Ip4s = {loopback4}
    Ip6s = {loopback6}
    UnixPaths = {socketFile}
    Ports = {1, 2}
    Resolve <- ResolveLocalhost
    Servers = {s1}
    Channels = {c1, c2}
    Requests = {r1, r2}
    Paths = {p1, p2}
    Addrs <- EveryAddress
    Taken <- OneTakenPort
    GlobalLimit = 1
    NoLimit = NoLimit
    NoPath = NoPath
    NoAddr = NoAddr
    NoSocket = NoSocket
    NoServer = NoServer
    NoChannel = NoChannel
SPECIFICATION FairSpec
INVARIANTS
    LocalAddrReaches
    ShutdownOnlyWhenCancelled
    CallbacksPaired
    ResponsePathIsRequestPath
    GlobalLimitHolds
PROPERTY CancelledServerStops
CHECK_DEADLOCK FALSE
