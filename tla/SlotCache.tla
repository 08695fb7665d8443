----------------------------- MODULE SlotCache -----------------------------
(***************************************************************************)
(* Prefix reuse in src/engine.cpp: what each slot's sequence holds in the  *)
(* KV cache, the mirror of it the engine keeps (slot.cache_tokens), and    *)
(* how an admission picks a slot and cuts its sequence back to what the    *)
(* new prompt shares with it.                                              *)
(*                                                                         *)
(* Tokens are the point here, so prompts and caches are sequences of them; *)
(* batches are not (EngineTick), nor are callers (EngineRequests).  kv is  *)
(* llama.cpp's memory, modelled from how the engine uses it.               *)
(***************************************************************************)
EXTENDS Integers, Sequences, FiniteSets

CONSTANTS
    NSlots,     \* --parallel
    Tokens,     \* the vocabulary
    Image,      \* a position of an image chunk: no token stands for it
    Gone,       \* a position a sliding window has left behind
    Window,     \* n_swa_ of a cache that is pruned to its window
    RsSeq,      \* llama_n_rs_seq(): tokens a recurrent state may be rolled back by
    NCtx,       \* n_ctx_slot_
    NKeep,      \* --keep, plus one when the vocab adds BOS
    MaxPrompt,  \* bound: longest prompt considered
    Reuses      \* values of --cache-reuse to consider, 0 = off

ASSUME SlotCacheAssumption ==
    /\ NSlots \in Nat \ {0}
    /\ Image \notin Tokens /\ Gone \notin Tokens \cup {Image}
    /\ Window \in Nat \ {0, 1} /\ RsSeq \in Nat \ {0}
    /\ MaxPrompt \in Nat \ {0} /\ MaxPrompt < NCtx
    /\ NCtx \in Nat /\ NKeep \in Nat
    /\ Reuses \subseteq Nat

Slots == 1 .. NSlots
Prompts == UNION {[1 .. n -> Tokens] : n \in 1 .. MaxPrompt}

VARIABLES
    conf,       \* what load() settled: seq_rm_, cache_reuse_, ctx_shift_, the mmproj
    pc,         \* "cancel", "admit", "decode"
    state,      \* slot.state
    prompt,     \* slot.prompt
    has_media,  \* slot.has_media
    sampled,    \* slot.sampled, as far as it is still to be decoded
    cache,      \* slot.cache_tokens
    n_past,     \* slot.n_past
    truncated,  \* result.truncated
    order,      \* the slots by t_last_used, oldest first
    pend,       \* the slot's rows of the batch, not decoded yet
    kv          \* what the memory holds for the slot's sequence

slotvars == <<state, prompt, has_media, sampled, cache, n_past, truncated, order>>
vars == <<conf, pc, slotvars, pend, kv>>

MinOf(S) == CHOOSE x \in S : \A y \in S : x <= y
MaxOf(S) == CHOOSE x \in S : \A y \in S : x >= y
In(st) == {s \in Slots : state[s] = st}
Busy == Slots \ In("IDLE")
IsPrefix(p, q) == Len(p) <= Len(q) /\ SubSeq(q, 1, Len(p)) = p

\* The memories a context may have: a plain KV cache, one pruned to a sliding window, a
\* recurrent state, one with a rollback, and one that fails to decode the probe's tokens.
Memories ==
    {[tail |-> TRUE, n_swa |-> 0, rs |-> 0, decodes |-> TRUE],
     [tail |-> TRUE, n_swa |-> Window, rs |-> 0, decodes |-> TRUE],
     [tail |-> FALSE, n_swa |-> 0, rs |-> 0, decodes |-> TRUE],
     [tail |-> FALSE, n_swa |-> 0, rs |-> RsSeq, decodes |-> TRUE],
     [tail |-> FALSE, n_swa |-> 0, rs |-> 0, decodes |-> FALSE]}

\* onyx_probe_seq_rm(): two tokens are decoded, the second is cut off again.
Probe(m) ==
    CASE m.rs > 0 -> "bounded"
      [] m.rs = 0 /\ ~m.decodes -> "none"
      [] m.rs = 0 /\ m.decodes -> IF m.tail THEN "partial" ELSE "full"

\* load(): a projector turns prefix reuse and context shift off.  Which memory can be
\* shifted is llama.cpp's answer (llama_memory_can_shift()), so any may say that it can.
Configs ==
    {[mem |-> c.mem, rm |-> Probe(c.mem), media |-> c.media,
      reuse |-> IF c.media THEN 0 ELSE c.reuse,
      shift |-> c.shift /\ ~c.media] :
        c \in [mem : Memories, media : BOOLEAN, reuse : Reuses, shift : BOOLEAN]}

Init ==
    /\ conf \in Configs
    /\ pc = "cancel"
    /\ state = [s \in Slots |-> "IDLE"]
    /\ prompt = [s \in Slots |-> <<>>]
    /\ has_media = [s \in Slots |-> FALSE]
    /\ sampled = [s \in Slots |-> <<>>]
    /\ cache = [s \in Slots |-> <<>>]
    /\ n_past = [s \in Slots |-> 0]
    /\ truncated = [s \in Slots |-> FALSE]
    /\ order = [i \in Slots |-> i]
    /\ pend = [s \in Slots |-> <<>>]
    /\ kv = [s \in Slots |-> <<>>]

-----------------------------------------------------------------------------
(* llama.cpp's memory.                                                     *)

\* llama_memory_seq_pos_min(): the first position of a cache that is still there; a recurrent
\* state stands at its last position, or the last one it can be rolled back to.
PosMin(k) ==
    IF k = <<>> THEN -1
    ELSE IF conf.mem.tail THEN Cardinality({i \in DOMAIN k : k[i] = Gone})
    ELSE MaxOf({0, Len(k) - 1 - conf.mem.rs})

\* llama_memory_seq_rm(seq, p, -1) succeeds.
CanRemove(k, p) == conf.mem.tail \/ p >= Len(k) - conf.mem.rs

\* The memory takes new rows; a window gives up what it does not need for the first of them.
Extended(k, new) ==
    [i \in 1 .. Len(k) |-> IF conf.mem.n_swa > 0 /\ i - 1 <= Len(k) - conf.mem.n_swa THEN Gone ELSE k[i]]
    \o new

-----------------------------------------------------------------------------
(* Admission.                                                              *)

\* Mutant of Cap: the whole prompt may come from the cache.
CapWhole(s, p) == MinOf({Len(cache[s]), Len(p)})

\* At least one token of the prompt is left to evaluate.
Cap(s, p) == MinOf({Len(cache[s]), Len(p) - 1})

Agree(s, p, n) == SubSeq(cache[s], 1, n) = SubSeq(p, 1, n)

\* The longest common prefix of the prompt and the slot's mirror; memory that
\* removes only whole sequences counts only a prompt that extends all of it.
Lcp(s, p, use) ==
    IF conf.reuse > 0 /\ use /\ conf.rm # "none"
    THEN LET n == CHOOSE n \in 0 .. Cap(s, p) :
                     Agree(s, p, n) /\ \A k \in n + 1 .. Cap(s, p) : ~Agree(s, p, k)
         IN IF conf.rm = "full" /\ n < Len(cache[s]) THEN 0 ELSE n
    ELSE 0

Older(s, t) == \E i, j \in Slots : i < j /\ order[i] = s /\ order[j] = t

\* The slot an admission takes: the most shared tokens, then the least recently used.
Best(s, p, use) ==
    /\ state[s] = "IDLE"
    /\ \A t \in In("IDLE") \ {s} :
         \/ Lcp(s, p, use) > Lcp(t, p, use)
         \/ Lcp(s, p, use) = Lcp(t, p, use) /\ Older(s, t)

\* Mutant of Threshold: a window that starts one position too late will do.
ThresholdLate(n) == IF conf.mem.n_swa > 0 THEN MaxOf({0, n - conf.mem.n_swa + 3}) ELSE n

\* The first new token, at position n, sees the positions after n - n_swa.
Threshold(n) == IF conf.mem.n_swa > 0 THEN MaxOf({0, n - conf.mem.n_swa + 2}) ELSE n

\* The state can serve the first n tokens: it holds something, does not start after what
\* the next token sees, and is cut back to them.
Held(s, n) == PosMin(kv[s]) >= 0 /\ PosMin(kv[s]) < Threshold(n) /\ CanRemove(kv[s], n)

\* The tokens reused of the shared ones.
Prefix(s, p, use) ==
    LET n == Lcp(s, p, use)
    IN IF conf.reuse > 0 /\ n >= conf.reuse /\ n > 0 /\ Held(s, n) THEN n ELSE 0

\* The cut the memory makes.
CutTo(k, n) == SubSeq(k, 1, MinOf({n, Len(k)}))

Admit(s) ==
    /\ pc = "admit"
    /\ \E p \in Prompts, use \in BOOLEAN :
         /\ Best(s, p, use)
         /\ LET n == Prefix(s, p, use) IN
              /\ kv' = [kv EXCEPT ![s] = CutTo(@, n)]
              /\ cache' = [cache EXCEPT ![s] = SubSeq(@, 1, n)]
              /\ n_past' = [n_past EXCEPT ![s] = n]
         /\ prompt' = [prompt EXCEPT ![s] = p]
    /\ state' = [state EXCEPT ![s] = "PREFILL"]
    /\ has_media' = [has_media EXCEPT ![s] = FALSE]
    /\ UNCHANGED <<conf, pc, sampled, truncated, order, pend>>

\* The slots of S were finished, in slot order: each becomes the most recently used.
Retired(S) == SelectSeq(order, LAMBDA s : s \notin S)
              \o SelectSeq([i \in Slots |-> i], LAMBDA s : s \in S)

\* f with the slots of S set to value.
With(f, S, value) == [s \in Slots |-> IF s \in S THEN value ELSE f[s]]

\* finish() on the slots of S: the sequence and its mirror stay.  (n_past stays
\* too; nothing reads it before the next admission sets it.)
Finish(S) ==
    /\ state' = With(state, S, "IDLE")
    /\ prompt' = With(prompt, S, <<>>)
    /\ has_media' = With(has_media, S, FALSE)
    /\ sampled' = With(sampled, S, <<>>)
    /\ n_past' = With(n_past, S, 0)
    /\ truncated' = With(truncated, S, FALSE)
    /\ order' = Retired(S)

\* prefill_media(): the sequence is dropped, the chunks fill n positions, the first
\* token is sampled, which may end the request.
AdmitMedia(s) ==
    /\ pc = "admit" /\ conf.media
    /\ Best(s, <<Image>>, FALSE)
    /\ cache' = [cache EXCEPT ![s] = <<>>]
    /\ \E n \in 0 .. NCtx - 1 :
         /\ kv' = [kv EXCEPT ![s] = [i \in 1 .. n |-> Image]]
         /\ \/ Finish({s})
            \/ /\ n > 0
               /\ state' = [state EXCEPT ![s] = "GENERATE"]
               /\ has_media' = [has_media EXCEPT ![s] = TRUE]
               /\ n_past' = [n_past EXCEPT ![s] = n]
               /\ \E t \in Tokens : sampled' = [sampled EXCEPT ![s] = <<t>>]
               /\ UNCHANGED <<prompt, truncated, order>>
    /\ UNCHANGED <<conf, pc, pend>>

\* The slots whose callers gave up.
Cancel ==
    /\ pc = "cancel"
    /\ \E S \in SUBSET Busy : Finish(S)
    /\ pc' = "admit"
    /\ UNCHANGED <<conf, cache, pend, kv>>

-----------------------------------------------------------------------------
(* The tick.                                                               *)

\* The mirror of a media slot is not kept: its image positions have no tokens.
Mirrored(s, rows) == IF has_media[s] THEN cache[s] ELSE cache[s] \o rows

\* build_batch(): the sampled token of each generating slot, a chunk of the rest of
\* the prompt for each prefilling one.  The mirror runs ahead of the decode.
Rows(s) ==
    CASE state[s] = "GENERATE" -> {sampled[s]}
      [] state[s] = "PREFILL" -> {SubSeq(prompt[s], n_past[s] + 1, n) : n \in n_past[s] .. Len(prompt[s])}
      [] OTHER -> {<<>>}

Build ==
    /\ pc = "admit"
    /\ pend' \in [Slots -> UNION {Rows(s) : s \in Slots}]
    /\ \A s \in Slots : pend'[s] \in Rows(s)
    /\ \E s \in Slots : pend'[s] # <<>>
    /\ cache' = [s \in Slots |-> Mirrored(s, pend'[s])]
    /\ n_past' = [s \in Slots |-> n_past[s] + Len(pend'[s])]
    /\ pc' = "decode"
    /\ UNCHANGED <<conf, state, prompt, has_media, sampled, truncated, order, kv>>

\* Nothing to decode: round the loop again.
BuildNothing ==
    /\ pc = "admit" /\ Busy = {}
    /\ pc' = "cancel"
    /\ UNCHANGED <<conf, slotvars, pend, kv>>

\* context_shift(): the oldest half of what is not kept goes, the rest moves down.
Kept == MaxOf({0, MinOf({NCtx - 4, NKeep})})
Discarded == MinOf({(NCtx - Kept) \div 2, NCtx - Kept - 1})
Shifted(q) == SubSeq(q, 1, Kept) \o SubSeq(q, Kept + Discarded + 1, Len(q))

\* Mutant of CacheShifted: the memory is shifted, the mirror is not.
CacheShiftedNot(q) == q

CacheShifted(q) == Shifted(q)

AtLimit(s) == n_past[s] >= NCtx

\* The rows of s hold its next-token row or the last token of its prompt.
Logits(s) == state[s] = "GENERATE" \/ n_past[s] = Len(prompt[s])

\* sample_slot() makes room when the context is full.  A memory that removes no tail
\* removes no middle either: its llama_memory_seq_rm() refuses, and there is no room.
MakeRoom(s, k) ==
    IF AtLimit(s)
    THEN /\ conf.shift /\ conf.mem.tail
         /\ kv' = [kv EXCEPT ![s] = Shifted(k)]
         /\ cache' = [cache EXCEPT ![s] = CacheShifted(@)]
    ELSE /\ kv' = [kv EXCEPT ![s] = k]
         /\ UNCHANGED cache

\* The rows of s are decoded.  If its logits row was among them it is sampled: the
\* request ends before that (a budget, the context), ends with the token, or has
\* one more token to decode.
Decode(s) ==
    /\ pc = "decode" /\ pend[s] # <<>>
    /\ pend' = [pend EXCEPT ![s] = <<>>]
    /\ LET k == Extended(kv[s], pend[s]) IN
       \/ /\ kv' = [kv EXCEPT ![s] = k]
          /\ UNCHANGED cache
          /\ IF Logits(s) THEN Finish({s})
             ELSE UNCHANGED <<state, prompt, has_media, sampled, n_past, truncated, order>>
       \/ /\ Logits(s)
          /\ MakeRoom(s, k)
          /\ \/ Finish({s})
             \/ /\ \E t \in Tokens : sampled' = [sampled EXCEPT ![s] = <<t>>]
                /\ state' = [state EXCEPT ![s] = "GENERATE"]
                /\ n_past' = [n_past EXCEPT ![s] = IF AtLimit(s) THEN @ - Discarded ELSE @]
                /\ truncated' = [truncated EXCEPT ![s] = @ \/ AtLimit(s)]
                /\ UNCHANGED <<prompt, has_media, order>>
    /\ pc' = IF \E t \in Slots : pend'[t] # <<>> THEN "decode" ELSE "cancel"
    /\ UNCHANGED conf

\* llama_decode() fails for good: every busy slot loses its sequence and its mirror.
DecodeFails ==
    /\ pc = "decode"
    /\ kv' = With(kv, Busy, <<>>)
    /\ cache' = With(cache, Busy, <<>>)
    /\ Finish(Busy)
    /\ pend' = With(pend, Slots, <<>>)
    /\ pc' = "cancel"
    /\ UNCHANGED conf

\* The tick throws: the whole memory is cleared, idle sequences included, but only
\* the mirrors of the busy slots.
TickThrows ==
    /\ pc \in {"admit", "decode"}
    /\ kv' = With(kv, Slots, <<>>)
    /\ cache' = With(cache, Busy, <<>>)
    /\ Finish(Busy)
    /\ pend' = With(pend, Slots, <<>>)
    /\ pc' = "cancel"
    /\ UNCHANGED conf

Next ==
    \/ Cancel \/ Build \/ BuildNothing \/ DecodeFails \/ TickThrows
    \/ \E s \in Slots : Admit(s) \/ AdmitMedia(s) \/ Decode(s)

Spec == Init /\ [][Next]_vars

-----------------------------------------------------------------------------
(* Properties.                                                             *)

\* The positions of a sequence the next token sees.
Seen(k) ==
    IF conf.mem.n_swa > 0 THEN {i \in DOMAIN k : i - 1 > Len(k) - conf.mem.n_swa} ELSE DOMAIN k

\* The logits of a text request come from its own prompt: whatever was reused, cut,
\* pruned, failed or dropped before, the sequence of a busy slot holds the tokens of its
\* prompt at the positions the next row sees, and that row goes right after them.
ServesPrompt ==
    \A s \in Busy :
        /\ Len(kv[s]) + Len(pend[s]) = n_past[s]
        /\ ~has_media[s] /\ ~truncated[s] =>
             /\ \A i \in Seen(kv[s]) : i <= Len(prompt[s]) => kv[s][i] = prompt[s][i]
             /\ \A i \in DOMAIN kv[s] \cap DOMAIN prompt[s] : kv[s][i] \in {prompt[s][i], Gone}

\* The mirror q has the tokens of k, every one and no other, those a window left included.
Copies(q, k) == Len(q) = Len(k) /\ \A i \in DOMAIN k : k[i] \in {q[i], Gone}

\* The mirror claims what the memory holds or is about to be given, no token more and none
\* less, but for a media request, which has no mirror, and an idle slot that lost the one or
\* the other as a whole: an admission can tell that case.
MirrorSound ==
    \A s \in Slots :
        \/ has_media[s] /\ cache[s] = <<>>
        \/ ~has_media[s] /\ Copies(cache[s], kv[s] \o pend[s])
        \/ state[s] = "IDLE" /\ (kv[s] = <<>> \/ cache[s] = <<>>)

\* The sequence k holds nothing but the tokens of q, in order, less those a window left.
Holds(q, k) == Len(k) <= Len(q) /\ \A i \in DOMAIN k : k[i] \in {q[i], Gone}

\* An admission reuses a proper prefix of the prompt that the sequence held, and leaves no
\* other token in it; recurrent state is extended, rolled back as far as it goes, or
\* dropped.
ReuseHonest ==
    [][\A s \in Slots :
         state[s] = "IDLE" /\ state'[s] = "PREFILL" =>
             /\ IsPrefix(kv'[s], kv[s])
             /\ n_past'[s] = Len(kv'[s]) /\ n_past'[s] < Len(prompt'[s])
             /\ Holds(prompt'[s], kv'[s])
             /\ ~conf.mem.tail => kv'[s] = <<>> \/ Len(kv[s]) - Len(kv'[s]) <= conf.mem.rs]_vars
=============================================================================
