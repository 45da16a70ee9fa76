SPECIFICATION Spec
CONSTANTS
    Node = {n1, n2, n3}
    Value = {nop, a}
    no_op = nop
    MaxRound = 2
    MaxInst = 1
    Quorum <- MCQuorum
    Round <- MCRound
    Inst <- MCInst
SYMMETRY NodeSymmetry
INVARIANTS
    ChosenBindsLaterRounds
    Inv
PROPERTIES
    LogSpec
CHECK_DEADLOCK FALSE
