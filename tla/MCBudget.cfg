\* No budget, none at all, and up to three tokens; the two tags begin alike.
SPECIFICATION BudgetSpec
CONSTANTS
    lt = lt
    think = think
    slash = slash
    other = other
    mute = mute
    Tokens = {lt, think, slash, other, mute}
    Suppressed = {mute}
    Sentences <- Calls
    Triggers = {slash, think}
    GenerationPrompt <- Assistant
    StartTag <- OpenTag
    EndTag <- CloseTag
    Message <- Say
    Budgets <- SomeBudgets
    MaxGenerated = 8
INVARIANTS
    BudgetExact
    GrammarKept
