\* Two remembered reactions of three, two attempts each, three orders.
CONSTANTS
    Plans = {p1, p2, p3}
    Requests = {r1, r2}
    AttemptIds = {a1, a2}
    Fingerprints = {f1, f2}
    NonCommitStatuses = {"rejected", "exhausted"}
    Capacity = 2
    MaxAttempts = 2
    MaxSafe = 3
    None = None
SPECIFICATION Spec
SYMMETRY Interchangeable
INVARIANTS
    TypeOK
    RootIsValid
PROPERTIES
    HistoryIsKept
    ImplementsRegistry
