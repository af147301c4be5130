\* Two statements, two executions of two attempts, a provider with one place,
\* and two remembered reactions.  The back-off is one tick, another attempt
\* needs one more, so a second attempt fits before the deadline of three or not.
SPECIFICATION ProviderSpec
CONSTANTS
    Executions = 2
    Tries = 2
    Plans <- MCPlans
    Requests <- MCPlans
    AttemptIds <- MCAttempts
    Fingerprints = {"candidate"}
    NonCommitStatuses = {"rejected", "superseded", "cancelled", "exhausted"}
    Capacity = 2
    MaxAttempts = 2
    MaxSafe = 9
    None = None
    Triggers <- MCTriggers
    Deadline = 3
    Backoff <- MCBackoff
    Budget = 1
    AttemptTimeout = 2
    MaxRetryAfter = 1
    Concurrent = 1
INVARIANTS ProviderTypeOK CoordinatorAccepts EndsAgree UnfinishedIsActive
PROPERTIES CommitsOnlyCurrent RouteBecomesFree PlaceComesFree
CHECK_DEADLOCK FALSE
