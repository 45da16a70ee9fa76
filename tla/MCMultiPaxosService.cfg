SPECIFICATION ServiceSpec
CONSTANTS
    Size = 3
    Value = {nop, a}
    Command = {a}
    no_op = nop
    no_value = no_value
    timeout = 1
    MaxRound = 2
    MaxInst = 1
    Round <- MCRound
    Inst <- MCInst
INVARIANTS
    FirstUndecidedIsFirstHole
    LeaderAppendsInTheFree
    RequestsReachTheLeader
PROPERTIES
    AdapterSpec
    PassedOnAsOneLog
ACTION_CONSTRAINT FirstLeaderCrashes
CHECK_DEADLOCK FALSE
