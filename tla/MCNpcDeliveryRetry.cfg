\* As MCNpcDeliveryPipeline.cfg, with sinks that may be cut off.
CONSTANTS
    MaxPublications = 2
    MaxGeneration = 0
    None = None
SPECIFICATION PipelineSpec
\* A game may end, and an answer that failed for good ends its deliveries.
CHECK_DEADLOCK FALSE
PROPERTIES
    RetryReopens
