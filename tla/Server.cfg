CONSTANTS
    MaxConns = 3
    MaxFaults = 3
    FaultyConns = 2
    JobConfigs = {"rec", "tr", "lc"}
    MaxStarts = 2
    MaxJobCalls = 2
    MaxDeeds = 6
SPECIFICATION ServerSpec
INVARIANTS SocketTypeOK JobsCoupled RecordingTold JobWatched
PROPERTIES ClosedClientLeaves FailedJoinUndone JoinCompletes
CHECK_DEADLOCK FALSE
