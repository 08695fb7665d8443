------------------------------ MODULE MCRoutes ------------------------------
\* Routes with connections that differ only in what they ask for.
EXTENDS Routes, TLC

MCSymmetry == Permutations(Conns)
=============================================================================
