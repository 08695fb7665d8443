\* One slot and two calls that compete for it, both with a callback; the client of
\* r2 may stall for ever.  r3 is refused before it is queued.
SPECIFICATION FairSpec
CONSTANTS
    r1 = r1
    r2 = r2
    r3 = r3
    Requests = {r1, r2, r3}
    NoRequest = NoRequest
    NSlots = 1
    MaxQueue = 1
    QueueTimeout = FALSE
    Streaming = {r1, r2}
    Media = {}
    Invalid = {r3}
    Stalled = {r2}
    MaxChunks = 1
    MaxTokens = 1
PROPERTIES
    EngineSettles
    CallsReturn
    ShutdownJoins
