\* One streamed or unstreamed fetch of up to six messages, in batches of two.
CONSTANTS
    Target = 6
    MaxIdle = 2
    BatchSize = 2
SPECIFICATION Spec
INVARIANTS
    StreamInvariant
    StopSilencesTheStream
PROPERTIES
    DeliversWhatWasFetched
    StopEndsTheFetch
    QuietBrokerEndsTheFetch
CHECK_DEADLOCK FALSE
