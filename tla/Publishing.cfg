\* Three publishes of up to three records, each record written up to twice.
CONSTANTS
    None = None
    Refused = Refused
    Batches <- SomeBatches
    Limits <- SmallLimits
    Codes <- SomeCodes
    MAX_AUTH_ATTEMPTS = 2
    MaxPublishes = 3
    MaxWrites = 2
SPECIFICATION Spec
INVARIANTS
    OutcomeInvariant
    WholeBatchOrNothing
    
PROPERTIES
    
    PublishIsAnswered
