SPECIFICATION Spec
CONSTANTS
    Size = 3
    Value = {a}
    quiet = 1
    MaxTerm = 1
    MaxLog = 2
    MaxLost = 1
PROPERTIES
    NackedCatchUp
    EntriesAreCommitted
CHECK_DEADLOCK FALSE
