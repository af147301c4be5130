\* Two callers, every setup, and versions and turns that run out at five: two
\* structured questions with their answers, and the boundary after them.
CONSTANTS
    Callers = {c1, c2}
    Setups = {"compatibility", "observed", "committed", "structured"}
    MaxSafe = 5
    None = None
SPECIFICATION Spec
INVARIANTS
    TypeOK
    CommandStaysCurrent
    NoQuestionLeftBehind
    HandoffBlocksInput
PROPERTIES
    CommandEnds
CHECK_DEADLOCK FALSE
