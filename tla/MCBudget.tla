------------------------------ MODULE MCBudget ------------------------------
\* ReasoningBudget for TLC: tags of two tokens that may be mixed up.
EXTENDS ReasoningBudget

CONSTANTS lt, think, slash, other, mute

OpenTag == <<lt, think>>
CloseTag == <<lt, slash>>
Say == <<other>>
SomeBudgets == {-1, 0, 1, 2, 3}
Assistant == <<lt>>
\* Of the three sentences one needs a token the model must never produce.
Calls == {<<slash, other>>, <<slash, lt, other, other>>, <<slash, think, mute, lt>>}
=============================================================================
