----------------------------- MODULE MCDecision -----------------------------
(* DecisionCache for TLC: the two tokens are interchangeable.              *)
EXTENDS DecisionCache, TLC

CONSTANTS a, b

TokenSymmetry == Permutations({a, b})
=============================================================================
