\* Two questions and their answers, and one consumer.
CONSTANTS
    MaxPublications = 2
    MaxGeneration = 0
    None = None
SPECIFICATION PipelineSpec
\* A game may end, and an answer that failed for good ends its deliveries.
CHECK_DEADLOCK FALSE
INVARIANTS
    PipelineTypeOK
    OpenHandoffCanBePumped
PROPERTIES
    ReopensInTime
