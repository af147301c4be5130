\* One execution with two attempts and a back-off between them.
SPECIFICATION RouteSpec
CONSTANTS
    Executions = 1
    Tries = 2
    Plans <- MCPlans
    Requests <- MCPlans
    AttemptIds <- MCAttempts
    Fingerprints = {"candidate"}
    NonCommitStatuses = {"rejected", "superseded", "cancelled", "exhausted"}
    Capacity = 1
    MaxAttempts = 2
    MaxSafe = 9
    None = None
    Triggers <- MCTriggers
    Deadline = 5
    Backoff <- MCBackoff
    Budget = 2
PROPERTY EveryExecutionReturns
CHECK_DEADLOCK FALSE
