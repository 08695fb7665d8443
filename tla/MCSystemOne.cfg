\* One or two questions of up to three options; a head of 64 tokens for laya.
SPECIFICATION Spec
CONSTANTS
    MaxQuestions = 2
    MaxOptions = 3
    MaxHead = 64
    TextLens <- SomeTexts
    OptionLens <- SomeOptions
    StateLens <- SomeStates
    MediaRows <- SomeMedia
INVARIANTS
    OwnScores
    CountsAgree
    StateGivesWay
CHECK_DEADLOCK FALSE
