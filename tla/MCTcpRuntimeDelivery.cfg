CONSTANTS
    Peer <- MCPeer
    Fd <- TwoFds
    no_peer = no_peer
    MaxQueue = 1
    MaxSends = 4
    MaxStreams = 2
    MaxAccepts = 0
SPECIFICATION Spec
INVARIANTS
    DeliveredToAddressee
CHECK_DEADLOCK FALSE
