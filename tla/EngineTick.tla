----------------------------- MODULE EngineTick -----------------------------
(***************************************************************************)
(* The engine thread's tick in src/engine.cpp: one llama_batch built from  *)
(* every busy slot (build_batch), decoded in views that shrink when the KV *)
(* cache has no room (decode_batch), and sampled per slot (sample_slot).   *)
(*                                                                         *)
(* Tokens and text are abstract; positions, rows and budgets are not.      *)
(* Where requests come from is EngineRequests' business, what a slot's KV  *)
(* holds is SlotCache's.                                                   *)
(***************************************************************************)
EXTENDS Integers, FiniteSets

CONSTANTS
    NSlots,        \* --parallel
    NBatch,        \* n_batch_
    NCtx,          \* n_ctx_slot_
    NKeep,         \* --keep, -1 = the whole prompt
    AddBos,        \* 1 when the vocab adds BOS, else 0
    TickChoices,   \* values of --tick-tokens to consider, 0 = none
    MaxPrompt,     \* bound: longest prompt considered
    Quotas         \* values of n_predict to consider, -1 = unlimited

ASSUME TickAssumption ==
    /\ NSlots \in Nat \ {0}
    /\ NBatch \in Nat /\ NBatch >= NSlots + 1
    /\ NCtx \in Nat /\ NKeep \in Nat \cup {-1} /\ AddBos \in {0, 1}
    /\ TickChoices \subseteq Nat
    /\ MaxPrompt \in Nat /\ MaxPrompt < NCtx
    /\ Quotas \subseteq Nat \cup {-1}

Slots == 1 .. NSlots
None == -1

VARIABLES
    conf,      \* what load() settled: tick_tokens_, ctx_shift_, whether there is an mmproj
    pc,        \* "cancel", "admit", "decode"
    state,     \* slot.state
    n_prompt,  \* slot.prompt.size()
    n_past,    \* slot.n_past
    i_batch,   \* slot.i_batch
    quota,     \* n_predict - n_predicted, -1 when unlimited
    kv,        \* positions of the slot's sequence that have been decoded
    truncated, \* slot.req->result.truncated: its context was shifted
    n_tokens_max, \* metrics_.n_tokens_max
    rows,      \* the slot's rows of the batch: [first, count]
    n_tokens,  \* batch.n_tokens
    off,       \* decode_batch(): rows already decoded
    n_view     \* decode_batch(): rows to try next

slotvars == <<state, n_prompt, n_past, i_batch, quota, kv>>
batch == <<rows, n_tokens, off, n_view>>
vars == <<conf, pc, slotvars, truncated, n_tokens_max, batch>>

MinOf(S) == CHOOSE x \in S : \A y \in S : x <= y
MaxOf(S) == CHOOSE x \in S : \A y \in S : x >= y

In(st) == {s \in Slots : state[s] = st}
Busy == Slots \ In("IDLE")

NoRows == [s \in Slots |-> [first |-> 0, count |-> 0]]

\* load(): --tick-tokens is capped at the batch size; a projector turns context
\* shift off.
Configs == {c \in [tick : {MinOf({t, NBatch}) : t \in TickChoices}, shift : BOOLEAN, media : BOOLEAN] :
                c.media => ~c.shift}

Init ==
    /\ conf \in Configs
    /\ pc = "cancel"
    /\ state = [s \in Slots |-> "IDLE"]
    /\ n_prompt = [s \in Slots |-> 0]
    /\ n_past = [s \in Slots |-> 0]
    /\ i_batch = [s \in Slots |-> None]
    /\ quota = [s \in Slots |-> 0]
    /\ kv = [s \in Slots |-> 0]
    /\ truncated = [s \in Slots |-> FALSE] /\ n_tokens_max = 0
    /\ rows = NoRows /\ n_tokens = 0 /\ off = 0 /\ n_view = NBatch

-----------------------------------------------------------------------------
(* Admission and release.                                                  *)

\* f with the slots of S set to value.
With(f, S, value) == [s \in Slots |-> IF s \in S THEN value ELSE f[s]]

\* Mutant of Counted: read after the slot was cleared.
CountedLate(S, past) == MaxOf({n_tokens_max, 0})

\* The largest n_past of the slots of S, or of a slot before them.
Counted(S, past) == MaxOf({n_tokens_max} \cup {past[s] : s \in S})

\* finish() on each slot of S, whose n_past is past; the other slots have state st, token
\* budget q, and were shifted or not as in cut.
Finish(S, st, q, past, cut) ==
    /\ n_tokens_max' = Counted(S, past)
    /\ truncated' = With(cut, S, FALSE)
    /\ state' = With(st, S, "IDLE")
    /\ n_prompt' = With(n_prompt, S, 0)
    /\ quota' = With(q, S, 0)

NoBatch == rows' = NoRows /\ n_tokens' = 0 /\ off' = 0 /\ n_view' = NBatch

\* The slots whose callers gave up.
Cancel ==
    /\ pc = "cancel"
    /\ \E S \in SUBSET Busy :
         /\ Finish(S, state, quota, n_past, truncated)
         /\ n_past' = With(n_past, S, 0)
         /\ kv' = With(kv, S, 0)
    /\ pc' = "admit"
    /\ UNCHANGED <<conf, i_batch, batch>>

\* An idle slot gets a prompt of which a proper prefix is already in its KV.
Admit(s) ==
    /\ pc = "admit" /\ state[s] = "IDLE"
    /\ \E n \in 1 .. MaxPrompt, q \in Quotas : \E cached \in 0 .. n - 1 :
         /\ n_prompt' = [n_prompt EXCEPT ![s] = n]
         /\ n_past' = [n_past EXCEPT ![s] = cached]
         /\ kv' = [kv EXCEPT ![s] = cached]
         /\ quota' = [quota EXCEPT ![s] = q]
    /\ state' = [state EXCEPT ![s] = "PREFILL"]
    /\ UNCHANGED <<conf, pc, i_batch, truncated, n_tokens_max, batch>>

Spend(q) == IF q > 0 THEN q - 1 ELSE q

\* prefill_media(): the whole prompt is evaluated at admission and its first
\* token sampled, which may end the request.  (One that fails first is finished with
\* nothing in its slot: no change that this module sees.)
AdmitMedia(s) ==
    /\ pc = "admit" /\ conf.media /\ state[s] = "IDLE"
    /\ \E n \in 1 .. NCtx - 1 :
         \/ /\ n_tokens_max' = Counted({s}, [n_past EXCEPT ![s] = n])
            /\ UNCHANGED slotvars
         \/ /\ n_past' = [n_past EXCEPT ![s] = n]
            /\ kv' = [kv EXCEPT ![s] = n]
            /\ \E q \in Quotas \ {0} : quota' = [quota EXCEPT ![s] = Spend(q)]
            /\ state' = [state EXCEPT ![s] = "GENERATE"]
            /\ UNCHANGED <<n_prompt, i_batch, n_tokens_max>>
    /\ UNCHANGED <<conf, pc, truncated, batch>>

-----------------------------------------------------------------------------
(* build_batch()                                                           *)

\* One row per generating slot, in slot order.
DecodeRow(s) == Cardinality({t \in In("GENERATE") : t < s})
NDecode == Cardinality(In("GENERATE"))
NPrefilling == Cardinality(In("PREFILL"))

\* Mutants of Budget: the room in the batch is not looked at; decode rows may take the
\* whole tick.
BudgetRoomy == IF conf.tick > 0 THEN MaxOf({1, conf.tick - NDecode}) ELSE NBatch
BudgetStarved == IF conf.tick > 0 THEN MinOf({NBatch - NDecode, MaxOf({0, conf.tick - NDecode})})
                 ELSE NBatch - NDecode

\* What the prompt chunks may use: what --tick-tokens leaves after the decode
\* rows, at least one row, at most the room in the batch.
Budget == LET room == NBatch - NDecode
          IN IF conf.tick > 0 THEN MinOf({room, MaxOf({1, conf.tick - NDecode})}) ELSE room

PerSlot == MaxOf({1, Budget \div NPrefilling})

\* Rows in the batch once slots 1 .. s have been given theirs: each prefilling
\* slot, in slot order, gets an even share of what is left.
Filled[s \in 0 .. NSlots] ==
    IF s = 0 THEN NDecode
    ELSE IF state[s] = "PREFILL"
         THEN Filled[s - 1] + MinOf({n_prompt[s] - n_past[s], PerSlot, NDecode + Budget - Filled[s - 1]})
         ELSE Filled[s - 1]

BuiltRows ==
    [s \in Slots |->
        CASE state[s] = "GENERATE" -> [first |-> DecodeRow(s), count |-> 1]
          [] state[s] = "PREFILL" -> [first |-> Filled[s - 1], count |-> Filled[s] - Filled[s - 1]]
          [] OTHER -> [first |-> 0, count |-> 0]]

\* Mutant of LogitsRow: the last prompt token is taken for the one before it.
LogitsRowEarly(s, r) ==
    IF state[s] = "GENERATE" \/ (r.count > 0 /\ n_past[s] + r.count = n_prompt[s] - 1)
    THEN r.first + r.count - 1 ELSE None

\* A slot asks for logits at its next-token row, or at the last prompt token.
LogitsRow(s, r) ==
    IF state[s] = "GENERATE" \/ (state[s] = "PREFILL" /\ r.count > 0 /\ n_past[s] + r.count = n_prompt[s])
    THEN r.first + r.count - 1 ELSE None

Build ==
    /\ pc = "admit"
    /\ rows' = BuiltRows
    /\ n_tokens' = Filled[NSlots]
    /\ n_past' = [s \in Slots |-> n_past[s] + rows'[s].count]
    /\ i_batch' = [s \in Slots |-> LogitsRow(s, rows'[s])]
    /\ off' = 0 /\ n_view' = NBatch
    /\ pc' = IF n_tokens' = 0 THEN "cancel" ELSE "decode"
    /\ UNCHANGED <<conf, state, n_prompt, quota, kv, truncated, n_tokens_max>>

-----------------------------------------------------------------------------
(* decode_batch()                                                          *)

ViewSize == MinOf({n_view, n_tokens - off})

\* llama_decode() returned 1 (no KV room) for more than one row: retry with half.
RetrySmaller ==
    /\ pc = "decode" /\ ViewSize > 1
    /\ n_view' = ViewSize \div 2
    /\ UNCHANGED <<conf, pc, slotvars, truncated, n_tokens_max, rows, n_tokens, off>>

\* The slot's rows among the next n.
RowsIn(s, n) == Cardinality({i \in off .. off + n - 1 : rows[s].first <= i /\ i < rows[s].first + rows[s].count})

\* Mutant of Hit: off by one at the end of the view.
HitPast(s, n) == i_batch[s] >= off /\ i_batch[s] <= off + n

\* The slots whose logits row landed in the view.
Hit(s, n) == i_batch[s] >= off /\ i_batch[s] < off + n

\* context_shift(): how much of the slot's context to drop, 0 when it cannot.
Discard(s) ==
    LET wanted == (IF NKeep < 0 THEN n_prompt[s] ELSE NKeep) + AddBos
        keep == MaxOf({0, MinOf({NCtx - 4, wanted})})
        left == n_past[s] - keep
    IN MaxOf({0, MinOf({left \div 2, left - 1})})

\* Mutant of AtLimit: the context check is one token late.
AtLimitLate(s) == n_past[s] > NCtx

AtLimit(s) == n_past[s] >= NCtx

Shifted(s) == IF AtLimit(s) /\ conf.shift THEN Discard(s) ELSE 0

\* sample_slot() looks at the token budget before it shifts.
Dropped(s) == IF quota[s] # 0 THEN Shifted(s) ELSE 0

\* sample_slot() must end the request: its token budget is spent, or its context
\* is full and cannot be shifted.
MustEnd(s) == quota[s] = 0 \/ (AtLimit(s) /\ Shifted(s) = 0)

\* The view decodes; its logits are sampled slot by slot, and a sampled token may
\* end its request (EOG, a stop word, a sampling error).
DecodeView ==
    LET n == ViewSize
        hit == {s \in Busy : Hit(s, n)}
        kept(s) == IF s \in hit THEN Dropped(s) ELSE 0
    IN
    /\ pc = "decode"
    /\ \E stops \in SUBSET hit :
         LET over == stops \cup {s \in hit : MustEnd(s)} IN
         /\ Finish(over, With(state, hit, "GENERATE"),
                   [s \in Slots |-> IF s \in hit THEN Spend(quota[s]) ELSE quota[s]],
                   [s \in Slots |-> n_past[s] - kept(s)],
                   [s \in Slots |-> truncated[s] \/ kept(s) > 0])
         /\ n_past' = [s \in Slots |-> IF s \in over THEN 0 ELSE n_past[s] - kept(s)]
         /\ kv' = [s \in Slots |-> IF s \in over THEN 0 ELSE kv[s] + RowsIn(s, n) - kept(s)]
    /\ i_batch' = With(i_batch, hit, None)
    /\ IF off + n < n_tokens
       THEN /\ off' = off + n
            /\ n_view' = NBatch
            /\ UNCHANGED <<pc, rows, n_tokens>>
       ELSE /\ pc' = "cancel"
            /\ NoBatch
    /\ UNCHANGED conf

\* A decode that fails for good, or a tick that throws: every busy slot is failed
\* and its KV dropped first.
TickFails ==
    /\ pc \in {"admit", "decode"} /\ Busy # {}
    /\ Finish(Busy, state, quota, With(n_past, Busy, 0), truncated)
    /\ n_past' = With(n_past, Busy, 0)
    /\ kv' = With(kv, Busy, 0)
    /\ i_batch' = With(i_batch, Busy, None)
    /\ pc' = "cancel"
    /\ NoBatch
    /\ UNCHANGED conf

Next ==
    \/ Cancel \/ Build \/ RetrySmaller \/ DecodeView \/ TickFails
    \/ \E s \in Slots : Admit(s) \/ AdmitMedia(s)

Spec == Init /\ [][Next]_vars

\* The engine thread keeps running.
Engine == Cancel \/ Build \/ RetrySmaller \/ DecodeView
FairSpec == Spec /\ WF_vars(Engine)

-----------------------------------------------------------------------------
(* Properties.                                                             *)

RowsOf(s) == rows[s].first .. rows[s].first + rows[s].count - 1

\* The batch fits its n_batch_ rows (onyx_batch_add does not check), every row
\* belongs to one slot, a slot's logits row is its last one, and a tick holds
\* exactly one row for each generating slot.  --tick-tokens bounds all of them: only the
\* decode rows themselves and one prompt token may exceed it.
BatchWellFormed ==
    pc = "decode" =>
        /\ n_tokens <= NBatch /\ off < n_tokens
        /\ \A i \in 0 .. n_tokens - 1 : Cardinality({s \in Slots : i \in RowsOf(s)}) = 1
        /\ \A s \in Slots : RowsOf(s) \subseteq 0 .. n_tokens - 1
        /\ \A s \in Busy : i_batch[s] # None =>
                rows[s].count > 0 /\ i_batch[s] = rows[s].first + rows[s].count - 1
        /\ off = 0 => \A s \in In("GENERATE") : rows[s].count = 1 /\ i_batch[s] # None
        /\ off = 0 /\ conf.tick > 0 => n_tokens <= MaxOf({conf.tick, NDecode + 1})

\* No row is ever placed at or past the slot's context limit.
PositionsFit == \A s \in Slots : n_past[s] <= NCtx

\* Across split and retried views every logits row is sampled exactly once, and
\* only after all of the slot's rows have been decoded.
SampledOnce ==
    \A s \in Busy :
        /\ pc # "decode" => i_batch[s] = None /\ kv[s] = n_past[s]
        /\ i_batch[s] = None =>
             IF state[s] = "PREFILL" THEN n_past[s] < n_prompt[s] ELSE kv[s] = n_past[s]

\* While some slot is prefilling every tick carries a prompt token, even when the
\* decode rows alone reach --tick-tokens.
PrefillProgress ==
    [][(pc = "admit" /\ In("PREFILL") # {} /\ Build) =>
         \E s \in In("PREFILL") : rows'[s].count > 0]_vars

\* n_tokens_max, "largest KV fill a slot reached", misses no request that ends of its own or
\* is cancelled, in whatever view and together with whichever others.  Not covered, because
\* n_past no longer says it: a request whose context was shifted, and one whose tick failed.
FillCounted ==
    [][\A s \in Busy :
         /\ state'[s] = "IDLE" /\ ~TickFails
         /\ ~truncated[s] /\ (pc = "decode" => Dropped(s) = 0)
         => n_tokens_max' >= kv[s] + IF pc = "decode" THEN RowsIn(s, ViewSize) ELSE 0]_vars

\* Each prefilling slot is done with its prompt some day, when a tick has room for
\* a token of every slot.
PrefillEnds ==
    \A s \in Slots :
        state[s] = "PREFILL" /\ (conf.tick = 0 \/ conf.tick >= NSlots) ~> state[s] # "PREFILL"
=============================================================================
