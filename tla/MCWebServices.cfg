SPECIFICATION MCSpec
CONSTANTS
    WsClients = {w1}
    ChannelBuffer = 2
    PublishBuffer = 1
    MaxMessages = 4
    NoWsClient = NoWsClient
    d80 = d80
    d8080 = d8080
    Destinations = {d80, d8080, vnc}
    VncDest = vnc
    Owners = {u1, u2}
    ClusterPorts = {p1, p2}
    Extends <- MCExtends
    MaxForwardOps = 3
    NoPort = NoPort
    ForwardKeys = {k1, k2}
    MyKeys = {k1}
    LocalPorts = {8080, 8081}
    SrcPort <- MCSrcPort
    MaxChanges = 3
    MaxLocalOps = 3
    NoListener = NoListener
    UserRequests = {q1, q2}
    MaxTokens = 2
    MaxUserOps = 3
    MaxUserCrashes = 1
    NoUser = NoUser
    LogReaders = {r1}
    LogTicks = 4
    LogFaults = 1
    Fidelity = 2
    LogRanges <- MCRanges
    LogLimits <- MCLimits
INVARIANTS WebTypeOK    
PROPERTIES  ForwardsAnnounced AnnouncementsReceived
CHECK_DEADLOCK FALSE
