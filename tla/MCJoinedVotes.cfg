CONSTANTS
    Size = 3
    Acceptor = {0, 1, 2}
    Value = {1, 2}
    no_value = no_value
    Arrays <- MCArrays
    Begins = {0, 1}
    MaxEarlier = 1
SPECIFICATION RoundSpec
INVARIANTS
    HighestVotesAreJoined
    ZipStaysInside
    ActivatedByMajority
    EachNodeOnce
CHECK_DEADLOCK FALSE
