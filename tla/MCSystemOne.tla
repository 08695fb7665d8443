----------------------------- MODULE MCSystemOne -----------------------------
\* SystemOne with the limits of the code and lengths on both sides of them.
EXTENDS SystemOne

SomeTexts == {3, 200}
SomeOptions == {2, 60}
SomeStates == {10, 20000}
SomeMedia == {100, 16000, 16320, 16330}
=============================================================================
