----------------------------- MODULE MCConvert -----------------------------
\* ConvertCache with processes that start on one model: the script and the weights
\* stand for the sources.
EXTENDS ConvertCache, TLC

MCSymmetry == Permutations(Procs)
=============================================================================
