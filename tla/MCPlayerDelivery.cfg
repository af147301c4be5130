\* Three slots, three attempts, three changes of the consumer generation: a
\* drain of two publications with one retry, and a switch there and back.
CONSTANTS
    None = None
    MaxSlots = 3
    MaxAttempts = 3
    MaxGenerations = 3
SPECIFICATION Spec
INVARIANTS
    TypeOK
    ShownAtMostOnce
    SettledMeansShown
    CutoverIsEvidenced
    DrainIsSound
CHECK_DEADLOCK FALSE
