------------------------------ MODULE Embedding ------------------------------
(***************************************************************************)
(* onyx_engine::embed() (src/engine.cpp): one input evaluated in the       *)
(* cleared memory of the one context, under mutex_, on the caller's own    *)
(* thread.  A request calls it once for each of its inputs, and other      *)
(* requests come in between.                                               *)
(*                                                                         *)
(* A vector is the input it was computed from.                             *)
(***************************************************************************)
EXTENDS Naturals, Sequences

CONSTANTS Callers,   \* the handlers that may call it
          MaxInputs  \* bound: inputs of one request

VARIABLES
  holder,  \* the callers inside mutex_
  output,  \* the input whose embedding the context's output buffer has
  inputs,  \* caller -> how many inputs its request has
  vectors  \* caller -> the vectors it was given so far

Nothing == <<>>

Init == /\ holder = {} /\ output = Nothing
        /\ inputs = [c \in Callers |-> 0]
        /\ vectors = [c \in Callers |-> <<>>]

\* The input a caller is at.
Current(c) == <<c, Len(vectors[c]) + 1>>
Left(c) == Len(vectors[c]) < inputs[c]

Ask(c) == /\ \E n \in 0 .. MaxInputs : inputs' = [inputs EXCEPT ![c] = n]
          /\ UNCHANGED <<holder, output, vectors>>

\* Mutant of Lock: embed() without its lock_guard.
LockNot(c) == /\ Left(c)
              /\ holder' = holder \cup {c}
              /\ UNCHANGED <<output, inputs, vectors>>

Lock(c) == /\ Left(c)
           /\ holder = {} /\ holder' = {c}
           /\ UNCHANGED <<output, inputs, vectors>>

\* The memory is cleared and the input evaluated.
Evaluate(c) == /\ c \in holder
               /\ output' = Current(c)
               /\ UNCHANGED <<holder, inputs, vectors>>

\* The output is copied (and normalized) before the lock is given back.
Copy(c) == /\ c \in holder
           /\ vectors' = [vectors EXCEPT ![c] = Append(@, output)]
           /\ holder' = holder \ {c}
           /\ UNCHANGED <<output, inputs>>

\* The input is refused, or its evaluation fails.
Fail(c) == /\ c \in holder
           /\ holder' = holder \ {c}
           /\ UNCHANGED <<output, inputs, vectors>>

\* What the request asked for: the vector of each input, in order.
Whole(c) == vectors[c] = [i \in 1 .. inputs[c] |-> <<c, i>>]
=============================================================================
