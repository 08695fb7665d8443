\* Requests of one and two prompts of up to three tokens, a batch of two.
SPECIFICATION Spec
CONSTANTS
    a = a
    b = b
    Tokens = {a, b}
    NBatch = 2
    MaxPrompt = 3
    MaxPrompts = 2
SYMMETRY TokenSymmetry
INVARIANTS
    SeesItsPrompt
    ReadsLastBatch
    KeptExactly
