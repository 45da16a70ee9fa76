SPECIFICATION Spec
CONSTANTS
    Size = 3
    Value = {nop, a, b}
    Command = {a, b}
    no_op = nop
    timeout = 1
    MaxRound = 2
    MaxInst = 0
    Round <- MCRound
    Inst <- MCInst
INVARIANTS
    TypeOK
    CountedVotesAreCurrent
    PromisesAreTruthful
PROPERTIES
    LogSpec
    GhostCallsAllowed
CHECK_DEADLOCK FALSE
