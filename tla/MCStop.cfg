\* Requests of up to five tokens, one after the other in the slot.
SPECIFICATION Spec
CONSTANTS
    a = a
    b = b
    Byte = {a, b}
    Pieces <- SomePieces
    StopLists <- SomeStops
    MaxTokens = 5
INVARIANTS
    SameAnswer
    NeverTakenBack
    WithheldForStop
    ProbsFollowText
