--------------------------- MODULE DecisionCache ---------------------------
(***************************************************************************)
(* onyx_engine::decide() in src/engine.cpp: the prompts of one decision    *)
(* request evaluated one after the other, with what sequence 0 of the KV   *)
(* cache keeps from one prompt and one request to the next                 *)
(* (decision_cache_), and sequence 1 for the prompts that share a prefix.  *)
(*                                                                         *)
(* decide() holds mutex_ from its first line to its last, so a request is  *)
(* a loop of steps no other thread sees: one step evaluates one prompt.    *)
(* Prompts are sequences of tokens and the place their answer is read      *)
(* from; scores are what the model saw when they were read.  seq0 and seq1 *)
(* are llama.cpp's memory, modelled from how the engine uses it.           *)
(***************************************************************************)
EXTENDS Integers, Sequences

CONSTANTS
    Tokens,      \* the vocabulary
    NBatch,      \* n_batch_
    MaxPrompt,   \* bound: longest prompt; the context is larger
    MaxPrompts   \* bound: prompts of a request

ASSUME DecisionAssumption ==
    /\ NBatch \in Nat \ {0}
    /\ MaxPrompt \in Nat \ {0} /\ MaxPrompts \in Nat \ {0}

VARIABLES
    conf,    \* what the model and the flags settle
    pc,      \* "idle", "prefix", "shared", "each"
    call,    \* the request: its prompts, and what kind they are
    next,    \* the prompt to evaluate next
    shared,  \* n_shared
    cache,   \* decision_cache_
    seq0,
    seq1,
    read     \* what the last scores were read from, Nothing before the first

vars == <<conf, pc, call, next, shared, cache, seq0, seq1, read>>

MinOf(S) == CHOOSE x \in S : \A y \in S : x <= y
MaxOf(S) == CHOOSE x \in S : \A y \in S : x >= y

\* first: the first position whose output is read, -1 when only the last one is.
Prompts == UNION {[tokens : [1 .. n -> Tokens], first : -1 .. n - 1] : n \in 1 .. MaxPrompt}

\* The media of a request are in all its prompts: as rows of the prompt, or as text
\* markers mtmd splits it at.
Calls == [kind : {"text", "rows", "media"},
          prompts : UNION {[1 .. n -> Prompts] : n \in 1 .. MaxPrompts}]

NoCall == [kind |-> "text", prompts |-> <<>>]
Nothing == [ctx |-> <<>>, tokens |-> <<>>, from |-> 0, first |-> 0]

\* mem: the context has a memory; llama.cpp gives one to every causal model.
\* whole: it removes whole sequences only.
\* family: can_share_prompt(), which is also what decides share_prefix.
\* reuse: decision_reuse_on_.
Configs == {c \in [mem : BOOLEAN, whole : BOOLEAN, causal : BOOLEAN, family : BOOLEAN,
                   reuse : BOOLEAN, projector : BOOLEAN] : c.causal => c.mem}

CanContinue == conf.mem /\ conf.causal /\ conf.family

Init ==
    /\ conf \in Configs
    /\ pc = "idle" /\ call = NoCall /\ next = 1 /\ shared = 0
    /\ cache = <<>> /\ seq0 = <<>> /\ seq1 = <<>>
    /\ read = Nothing

-----------------------------------------------------------------------------
(* decide(), up to the first evaluation.                                   *)

Agree(p, q, n) == n <= Len(p) /\ n <= Len(q) /\ SubSeq(p, 1, n) = SubSeq(q, 1, n)

\* Mutant of Own: a prompt may share what it reads.
OwnRead(p) == Len(p.tokens) - 1

\* What a prompt may take from a prefix: never its last token, nor what it reads.
Own(p) == IF p.first >= 0 THEN MinOf({p.first, Len(p.tokens) - 1}) ELSE Len(p.tokens) - 1

\* The prefix all prompts share.
Shared(c) ==
    IF CanContinue /\ Len(c.prompts) > 1 /\ c.kind = "text"
    THEN MaxOf({n \in 0 .. MaxPrompt : \A i \in DOMAIN c.prompts :
                   n <= Own(c.prompts[i]) /\ Agree(c.prompts[1].tokens, c.prompts[i].tokens, n)})
    ELSE 0

\* Markers are for causal families that read the last row, rows for the families that
\* read further up or are not causal; none of these shares a prompt.
Served(c) ==
    /\ c.kind = "media" => conf.causal /\ conf.family /\ \A i \in DOMAIN c.prompts : c.prompts[i].first = -1
    /\ c.kind = "rows" => ~conf.family

Begin ==
    /\ pc = "idle"
    /\ call' \in Calls /\ Served(call')
    /\ shared' = Shared(call')
    /\ pc' = IF shared' > 0 THEN "prefix" ELSE "each"
    /\ next' = 1 /\ read' = Nothing
    /\ UNCHANGED <<conf, cache, seq0, seq1>>

Return == pc' = "idle" /\ call' = NoCall /\ next' = 1 /\ shared' = 0 /\ UNCHANGED conf

Advance ==
    IF next = Len(call.prompts) THEN Return
    ELSE next' = next + 1 /\ UNCHANGED <<conf, pc, call, shared>>

-----------------------------------------------------------------------------
(* decision_reuse()                                                        *)

\* llama_memory_seq_rm(mem, 0, n, -1) succeeds.
CanRemove(n) == ~conf.whole \/ n = 0

\* The tokens of seq 0 that tokens begins with, n at most.
Matching(tokens, n) ==
    IF conf.mem /\ conf.reuse
    THEN MaxOf({k \in 0 .. Len(cache) : k <= n /\ Agree(cache, tokens, k)})
    ELSE 0

\* Mutant of Kept: the memory's refusal to cut is ignored.
KeptAnyway(tokens, n) == Matching(tokens, n)

\* How many of them are kept: none when the memory cannot be cut back to them.
Kept(tokens, n) ==
    LET k == Matching(tokens, n) IN IF k < Len(cache) /\ ~CanRemove(k) THEN 0 ELSE k

\* What seq 0 holds afterwards: it is not touched when all of it is kept.
Cut(tokens, n) ==
    LET k == Kept(tokens, n) IN
    IF ~conf.mem \/ k = 0 THEN <<>>
    ELSE IF k < Len(cache) /\ CanRemove(k) THEN SubSeq(seq0, 1, k) ELSE seq0

-----------------------------------------------------------------------------
(* decision_eval()                                                         *)

\* Where the one batch that holds every position read begins; without causal
\* attention it is the whole prompt.
OutFrom(p, from) ==
    IF ~conf.causal THEN from
    ELSE MaxOf({from, IF p.first >= 0 THEN p.first ELSE Len(p.tokens) - 1})

Fits(p, from) == Len(p.tokens) - OutFrom(p, from) <= NBatch

\* The rows from `from` on are evaluated after what the sequence holds.
Extended(held, p, from) == held \o SubSeq(p.tokens, from + 1, Len(p.tokens))

\* Read in the batch that begins at out; without memory that batch is all there is.
Scores(held, p, from, out) ==
    [ctx |-> IF conf.mem THEN Extended(held, p, from) ELSE Extended(<<>>, p, out),
     tokens |-> p.tokens, from |-> out, first |-> p.first]

-----------------------------------------------------------------------------
(* Prompts that share a prefix: it is evaluated into seq 0.                *)

First == call.prompts[1].tokens

Prefix ==
    /\ pc = "prefix"
    /\ LET n == Kept(First, shared) IN
         seq0' = Cut(First, shared) \o SubSeq(First, n + 1, shared)
    /\ cache' = SubSeq(First, 1, shared)
    /\ pc' = "shared"
    /\ UNCHANGED <<conf, call, next, shared, seq1, read>>

\* The decode fails: seq 0 is dropped.
PrefixFails ==
    /\ pc = "prefix"
    /\ Kept(First, shared) < shared
    /\ seq0' = <<>> /\ cache' = <<>>
    /\ Return
    /\ UNCHANGED <<seq1, read>>

\* seq 1 is emptied and made a copy of seq 0.
Copied == seq0

\* Each prompt runs in seq 1 from a copy of the prefix; the last one empties it.
SharedPrompt ==
    /\ pc = "shared"
    /\ LET p == call.prompts[next] IN
         /\ Fits(p, shared)
         /\ read' = Scores(Copied, p, shared, OutFrom(p, shared))
         /\ seq1' = IF next = Len(call.prompts) THEN <<>> ELSE Extended(Copied, p, shared)
    /\ Advance
    /\ UNCHANGED <<cache, seq0>>

SharedPromptFails ==
    /\ pc = "shared"
    /\ seq1' = <<>>
    /\ Return
    /\ UNCHANGED <<cache, seq0, read>>

-----------------------------------------------------------------------------
(* Prompts of their own, in seq 0.                                         *)

Each == pc = "each" /\ UNCHANGED seq1

Reusable(p) == IF CanContinue THEN IF p.first >= 0 THEN p.first ELSE Len(p.tokens) - 1 ELSE 0

\* The prompt is evaluated and kept for the next one, where that is of use.
Prompt ==
    /\ Each /\ call.kind = "text"
    /\ LET p == call.prompts[next]
           n == Kept(p.tokens, Reusable(p))
       IN /\ Fits(p, n)
          /\ read' = Scores(Cut(p.tokens, Reusable(p)), p, n, OutFrom(p, n))
          /\ IF CanContinue THEN cache' = p.tokens /\ seq0' = read'.ctx
             ELSE cache' = <<>> /\ seq0' = <<>>
    /\ Advance

\* Mutant of Dropped: the mirror alone is emptied.
DroppedMirror == cache' = <<>> /\ UNCHANGED seq0

\* decision_reuse({}, 0)
Dropped == cache' = <<>> /\ seq0' = <<>>

\* It does not fit in one batch, or a decode fails after part of it was evaluated.
PromptFails ==
    /\ Each /\ call.kind = "text"
    /\ Dropped
    /\ Return
    /\ UNCHANGED read

\* decision_eval_rows(), decision_eval_media(): from an empty seq 0, emptied again.
\* Without causal attention, or memory, all rows of the prompt go in one batch;
\* markers are evaluated chunk by chunk and read at the last row.
MediaPrompt ==
    /\ Each /\ call.kind # "text" /\ conf.projector
    /\ LET p == call.prompts[next]
           out == IF ~conf.causal \/ ~conf.mem THEN 0 ELSE OutFrom(p, 0)
       IN /\ call.kind = "rows" => Len(p.tokens) - out <= NBatch
          /\ read' = Scores(<<>>, p, 0, out)
    /\ Dropped
    /\ Advance

\* It fails, before seq 0 is touched or after.
MediaPromptFails ==
    /\ Each /\ call.kind # "text"
    /\ \/ Dropped
       \/ call.kind = "media" /\ UNCHANGED <<cache, seq0>>
    /\ Return
    /\ UNCHANGED read

Next ==
    \/ Begin
    \/ Prefix \/ PrefixFails \/ SharedPrompt \/ SharedPromptFails
    \/ Prompt \/ PromptFails \/ MediaPrompt \/ MediaPromptFails

Spec == Init /\ [][Next]_vars

-----------------------------------------------------------------------------
(* Properties.                                                             *)

\* The scores of a prompt come from its own tokens, all of them and no others, whatever
\* was kept, cut, shared or failed before it.
SeesItsPrompt == read.ctx = read.tokens

\* Every position that is read was evaluated for this prompt, in the last batch: from
\* the first of them on, or all of the prompt when attention is not causal.
ReadsLastBatch ==
    read # Nothing =>
        /\ read.from < Len(read.tokens)
        /\ read.first >= 0 => read.from <= read.first
        /\ ~conf.causal => read.from = 0

\* decision_cache_ is what seq 0 holds, through every failure; nothing is kept in a
\* context that could not continue from it, and seq 1 is empty between requests.
KeptExactly ==
    /\ cache = seq0
    /\ ~CanContinue => cache = <<>>
    /\ pc # "shared" => seq1 = <<>>
=============================================================================
