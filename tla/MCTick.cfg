\* Two slots, a batch of three, prompts of up to three tokens in a context of five;
\* no tick budget, one smaller than the slots need, one as large as the slots.
SPECIFICATION FairSpec
CONSTANTS
    NSlots = 2
    NBatch = 3
    NCtx = 5
    NKeep = 0
    AddBos = 1
    TickChoices = {0, 1, 2}
    MaxPrompt = 3
    Quotas <- SomeQuotas
INVARIANTS
    BatchWellFormed
    PositionsFit
    SampledOnce
PROPERTIES
    PrefillProgress
    FillCounted
    PrefillEnds
