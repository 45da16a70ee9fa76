SPECIFICATION Spec
CONSTANTS
    Size = 3
    Value <- Numbers
    of_clients <- ByServer
    Builds = {"raft", "raft2"}
    quiet = 1
    MaxTerm = 2
    MaxLog = 2
INVARIANTS
    LogsMatch
PROPERTIES
    LogSpec
CHECK_DEADLOCK FALSE
