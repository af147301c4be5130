\* Three answers, and two replacements of their consumer.
CONSTANTS
    MaxPublications = 3
    MaxGeneration = 2
    None = None
SPECIFICATION Spec
\* A game may end, and the last answer may be settled for good.
CHECK_DEADLOCK FALSE
INVARIANTS
    RootIsValid
    WaitingHasAnAttemptLeft
PROPERTIES
    ImplementsOrderedDisplay
    InFlightSettles
