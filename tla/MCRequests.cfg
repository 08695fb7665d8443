\* Two slots, a queue of at most two, three calls: one with a callback that may
\* cancel, one with media, one without a callback.
SPECIFICATION Spec
CONSTANTS
    r1 = r1
    r2 = r2
    r3 = r3
    Requests = {r1, r2, r3}
    NoRequest = NoRequest
    NSlots = 2
    MaxQueue = 2
    QueueTimeout = TRUE
    Streaming = {r1}
    Media = {r2}
    Invalid = {}
    Stalled = {}
    MaxChunks = 0
    MaxTokens = 1
INVARIANTS
    TypeOK
    Exclusive
    NotLost
    AnsweredWhole
    TimedOutUntouched
    MetricsExact
PROPERTIES
    ResultFrozen
    ImplementsService
