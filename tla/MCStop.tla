------------------------------- MODULE MCStop -------------------------------
(* StopStream for TLC: two bytes, tokens of none, one and two of them, and *)
(* stop sequences that overlap themselves and one another.                 *)
EXTENDS StopStream

CONSTANTS a, b

SomePieces == {<<>>, <<a>>, <<b>>, <<a, b>>, <<b, a>>}
SomeStops == {<<>>, <<<<b>>>>, <<<<a, a, b>>>>, <<<<a, b, a>>>>, <<<<a, b, a, b, b>>>>,
              <<<<b, b>>, <<a, b>>>>, <<<<b>>, <<a>>>>, <<<<b, a, a, a>>, <<a, a, b>>>>}
=============================================================================
