\* Two slots, two tokens, prompts of up to three tokens in a context of four, reuse
\* from two shared tokens on (off when there is a projector).
SPECIFICATION MCSpec
CONSTANTS
    a = a
    b = b
    Tokens = {a, b}
    Image = Image
    Gone = Gone
    Window = 2
    RsSeq = 1
    NSlots = 2
    NCtx = 4
    NKeep = 1
    MaxPrompt = 3
    Reuses = {2}
SYMMETRY TokenSymmetry
VIEW MCView
INVARIANTS
    ServesPrompt
    MirrorSound
PROPERTIES
    ReuseHonest
