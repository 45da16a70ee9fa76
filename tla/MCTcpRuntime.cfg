CONSTANTS
    Peer <- MCPeer
    Fd <- TwoFds
    no_peer = no_peer
    MaxQueue = 1
    MaxSends = 4
    MaxStreams = 2
    MaxAccepts = 1
SPECIFICATION FairSpec
INVARIANTS
    NoLostWakeup
    ThreadsOwnTheirSockets
    DeliveredUnlessRaced
PROPERTIES
    PendingEnds
CHECK_DEADLOCK FALSE
