CONSTANTS
    Base = 4
    Word = 2
    Chunk = 5
    MaxSent = 3
    Messages <- MCMessages
SPECIFICATION Spec
INVARIANTS
    DeliveredAsSent
    NothingWaits
PROPERTY
    EndIsReported
CHECK_DEADLOCK FALSE
