SPECIFICATION Spec
CONSTANTS
    Size = 3
    Value = {a, b}
    timeout = 1
    MaxTerm = 2
    MaxIndex = 1
    Term <- MCTerm
    Index <- MCIndex
SYMMETRY ValueSymmetry
INVARIANTS
    OneLeaderPerTerm
    LogsMatch
    ChoosableIsKept
PROPERTIES
    LogSpec
CHECK_DEADLOCK FALSE
