\* Are the requests of remembered reactions left alone by new reactions?
CONSTANTS
    Plans = {p1, p2, p3}
    Requests = {r1, r2}
    AttemptIds = {a1, a2}
    Fingerprints = {f1, f2}
    NonCommitStatuses = {"rejected", "exhausted"}
    Capacity = 2
    MaxAttempts = 2
    MaxSafe = 3
    None = None
SPECIFICATION Spec
SYMMETRY Interchangeable
INVARIANT RequestsStayFresh
