SPECIFICATION Spec
CONSTANTS
    Scripts <- MCScripts
    Unended = TRUE
    MaxTicks = 2
    MaxDatagrams = 2
INVARIANTS
    CallsFindTheWholeObject
    NobodyDiesHoldingTheLock
PROPERTIES
    CommandsAreServed
CHECK_DEADLOCK FALSE
