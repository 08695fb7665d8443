------------------------------ MODULE MCCache ------------------------------
(* SlotCache for TLC: the two tokens are interchangeable.                  *)
EXTENDS SlotCache, TLC

CONSTANTS a, b

TokenSymmetry == Permutations({a, b})

\* A memory that removes no tail refuses what a shift removes, so that shift on is like
\* shift off for it; for the others shift off has no behaviour of its own, as a request may
\* end at the limit either way.  With a projector, which turns reuse off, a memory that
\* removes no tail behaves like a plain cache.  The other configurations are enough.
MCInit ==
    /\ Init
    /\ conf.media => conf.mem.tail
    /\ conf.shift <=> conf.mem.tail /\ ~conf.media

MCSpec == MCInit /\ [][Next]_vars

\* Once a generation was shifted, nothing reads its prompt any more: states that differ
\* in such a prompt only are one.
MCView ==
    <<conf, pc, state, [s \in Slots |-> IF truncated[s] THEN <<>> ELSE prompt[s]],
      has_media, sampled, cache, n_past, truncated, order, pend, kv>>
=============================================================================
