\* Two viewers, two registries, and every short payload on its own; two fetches
\* of up to two messages in a Data tab that can show two views.
CONSTANTS
    v1 = v1  v2 = v2  r1 = r1  r2 = r2
    None = None  Null = Null
    WORD_BITS = 16
    VARINT_BYTES = 3
    JSON_SAFE_MAX = 8192
    INDEX_MAX = 127
    MAX_DEPTH = 1
    PerSecond = 10
    LastSecond = 180000
    Viewers <- TwoViewers
    Endpoints <- TwoRegistries
    Payloads <- SomePayloads
    Racing <- RacingPayloads
    Pastes <- FewPastes
    Declares <- SchemaMessages
    MaxSteps = 5
    SCHEMA_CACHE_ENTRIES = 2
    orders = orders  payments = payments
    Views <- TwoViews
    Limit = 3
    Previews = {1}
    Whole = 2
    MaxFetches = 2
    MaxMessages = 2
SPECIFICATION MessagesSpec
SYMMETRY Symmetry
INVARIANTS
    SchemaInvariant
    ShownIsWhatWasWritten
    RowsAreOfOneFetch
    BusyWhileItsFetchRuns
    RetentionInvariant
PROPERTIES
    CompletedFetchIsWhole
CHECK_DEADLOCK FALSE
