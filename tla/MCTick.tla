------------------------------- MODULE MCTick -------------------------------
(* EngineTick for TLC: unlimited requests (-1) and short ones.             *)
EXTENDS EngineTick

SomeQuotas == {-1, 1}
=============================================================================
