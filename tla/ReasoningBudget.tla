--------------------------- MODULE ReasoningBudget ---------------------------
(***************************************************************************)
(* sample_slot() of src/engine.cpp: each token of a request is sampled, or *)
(* forced by the reasoning budget, the state machine that finds the        *)
(* thinking block, counts what is spent inside it, and writes the closing  *)
(* tag once the budget is spent.  The sampler is that of Sampler.tla.      *)
(*                                                                         *)
(* Tokens are the point here; what they read as, and where the logits come *)
(* from, is not.  Several requests use the slot one after the other.       *)
(* StopStream is about the same slot; no name here is one of its, so that  *)
(* Generation_proofs can extend both.                                      *)
(***************************************************************************)
EXTENDS Integers, Sampler

CONSTANTS
    StartTag,     \* rb.start_tag
    EndTag,       \* rb.end_tag
    Message,      \* --reasoning-budget-message, tokenized
    Budgets,      \* values of reasoning_budget_tokens to consider, negative = unrestricted
    MaxGenerated  \* bound: tokens generated for a request

ASSUME BudgetAssumption ==
    /\ StartTag \in Seq(Tokens) /\ StartTag # <<>>
    /\ EndTag \in Seq(Tokens) /\ EndTag # <<>>
    /\ Message \in Seq(Tokens)
    /\ Budgets \subseteq Int
    /\ MaxGenerated \in Nat

VARIABLES
    rb,              \* the request's onyx_reasoning_budget
    gram,            \* its grammar
    smpl,            \* req->smpl: what the grammar was fed
    in_use,          \* the slot has a request
    generated,       \* the tokens generated for it
    forced,          \* which of them were forced, not sampled
    rb_state,        \* slot.rb_state
    rb_count,        \* tokens generated inside the block
    rb_forced_idx,   \* how much of the forced sequence is out
    rb_start_match,  \* how much of the start tag was just seen
    rb_end_match     \* how much of the end tag was just seen

matching == <<rb_start_match, rb_end_match>>
request == <<rb, gram>>
budget_vars ==
    <<request, smpl, in_use, generated, forced, rb_state, rb_count, rb_forced_idx, matching>>

\* build_reasoning_budget(): a budget of zero closes the block at once, a larger one
\* says the message first.  A template may open the block in the prompt.
Configs ==
    {[enabled |-> b >= 0, budget |-> b, start_in_prompt |-> in /\ b >= 0,
      forced |-> IF b > 0 THEN Message \o EndTag ELSE EndTag] : b \in Budgets, in \in BOOLEAN}

\* Mutant of Refused: the two are not seen to exclude each other.
RefusedNever(c, g) == FALSE

\* The 400 of the chat route: a grammar that is never asleep admits no forced tokens.
\* (/v1/completions has no budget.)
Refused(c, g) == c.enabled /\ g.kind # "NONE" /\ ~g.lazy

BudgetInit ==
    /\ rb \in Configs /\ gram \in Grammars /\ ~Refused(rb, gram)
    /\ smpl = Built(gram)
    /\ in_use = FALSE /\ generated = <<>> /\ forced = {}
    /\ rb_state = "OFF" /\ rb_count = 0 /\ rb_forced_idx = 0
    /\ rb_start_match = 0 /\ rb_end_match = 0

Reset(state) ==
    /\ rb_state' = state
    /\ rb_count' = 0 /\ rb_forced_idx' = 0 /\ rb_start_match' = 0 /\ rb_end_match' = 0

\* admit_queued()
AdmitQueued ==
    /\ ~in_use
    /\ rb' \in Configs /\ gram' \in Grammars /\ ~Refused(rb', gram')
    /\ smpl' = Built(gram')
    /\ in_use' = TRUE /\ generated' = <<>> /\ forced' = {}
    /\ Reset(IF ~rb'.enabled THEN "OFF" ELSE IF rb'.start_in_prompt THEN "COUNTING" ELSE "IDLE")

\* finish(), whatever ends the request: the slot's part of the machine is cleared.
FinishSlot ==
    /\ in_use
    /\ in_use' = FALSE
    /\ Reset("OFF")
    /\ UNCHANGED <<request, smpl, generated, forced>>

-----------------------------------------------------------------------------
(* sample_slot()                                                           *)

\* Mutant of Spent: the token after the budget is sampled too.
SpentLate == rb_state = "COUNTING" /\ rb.budget >= 0 /\ rb_count > rb.budget

\* Looked at before the token is sampled: a budget of zero forces the first one.
Spent == rb_state = "COUNTING" /\ rb.budget >= 0 /\ rb_count >= rb.budget

\* The machine is forcing, or starts to with this token.
Forcing == Spent \/ rb_state = "FORCING"
ForcedIdx == IF Spent THEN 0 ELSE rb_forced_idx

Generated(tok) == in_use /\ Len(generated) < MaxGenerated /\ generated' = Append(generated, tok)

\* A token the sampler returns and accepts.
SampledToken(tok) ==
    /\ ~Forcing
    /\ tok \in Sample(gram, smpl) /\ ~Throws(gram, smpl, tok)
    /\ Generated(tok)
    /\ smpl' = Accepted(gram, smpl, tok)

\* accept() throws: this request fails, before the machine has seen the token.
SamplingFails ==
    /\ in_use /\ Len(generated) < MaxGenerated /\ ~Forcing
    /\ \E tok \in Sample(gram, smpl) : Throws(gram, smpl, tok)
    /\ in_use' = FALSE
    /\ Reset("OFF")
    /\ UNCHANGED <<request, smpl, generated, forced>>

\* The next token of the forced sequence stands in for a sampled one; the grammar is not
\* fed it.
ForceToken ==
    /\ Forcing /\ ForcedIdx < Len(rb.forced)
    /\ Generated(rb.forced[ForcedIdx + 1])
    /\ forced' = forced \cup {Len(generated')}
    /\ rb_forced_idx' = ForcedIdx + 1
    /\ rb_state' = IF rb_forced_idx' >= Len(rb.forced) THEN "DONE" ELSE "FORCING"
    /\ UNCHANGED <<request, smpl, in_use, rb_count, matching>>

\* The rolling match of a tag of which n tokens were seen.
Matched(tag, n, tok) ==
    IF tok = tag[n + 1] THEN n + 1 ELSE IF tok = tag[1] THEN 1 ELSE 0

\* IDLE: the start tag is looked for.
Scan(tok) ==
    /\ rb_state = "IDLE"
    /\ SampledToken(tok)
    /\ LET n == Matched(StartTag, rb_start_match, tok) IN
         IF n >= Len(StartTag) THEN Reset("COUNTING")
         ELSE /\ rb_start_match' = n
              /\ UNCHANGED <<rb_state, rb_count, rb_forced_idx, rb_end_match>>
    /\ UNCHANGED <<request, in_use, forced>>

\* COUNTING: the token is charged, the end tag looked for.
Count(tok) ==
    /\ rb_state = "COUNTING"
    /\ SampledToken(tok)
    /\ rb_count' = rb_count + 1
    /\ rb_end_match' = Matched(EndTag, rb_end_match, tok)
    /\ rb_state' = IF rb_end_match' >= Len(EndTag) THEN "DONE" ELSE rb_state
    /\ UNCHANGED <<request, in_use, forced, rb_forced_idx, rb_start_match>>

\* OFF or DONE: the machine looks at nothing.
Pass(tok) ==
    /\ rb_state \in {"OFF", "DONE"}
    /\ SampledToken(tok)
    /\ UNCHANGED <<request, in_use, forced, rb_state, rb_count, rb_forced_idx, matching>>

BudgetNext ==
    \/ AdmitQueued \/ FinishSlot \/ ForceToken \/ SamplingFails
    \/ \E tok \in Tokens : Scan(tok) \/ Count(tok) \/ Pass(tok)

BudgetSpec == BudgetInit /\ [][BudgetNext]_budget_vars

-----------------------------------------------------------------------------
(* The block and its budget, read off the tokens alone.                    *)

\* tag ends with token i, and begins after token from.
EndsAt(tag, from, i) ==
    /\ i \in from + Len(tag) .. Len(generated)
    /\ \A k \in DOMAIN tag : generated[i - Len(tag) + k] = tag[k]

\* The block begins after token i.
OpensAfter(i) ==
    /\ rb.enabled
    /\ IF rb.start_in_prompt THEN i = 0
       ELSE EndsAt(StartTag, 0, i) /\ \A j \in 1 .. i - 1 : ~EndsAt(StartTag, 0, j)

\* The block that began after token i was closed by the model within its budget.
ClosedInTime(i) == \E j \in i .. i + rb.budget : EndsAt(EndTag, i, j)

\* The places of the tokens that follow a budget spent in full.
Window == {k \in DOMAIN generated : \E i \in 0 .. Len(generated) :
              /\ OpensAfter(i) /\ ~ClosedInTime(i)
              /\ k \in i + rb.budget + 1 .. i + rb.budget + Len(rb.forced)}

-----------------------------------------------------------------------------
(* Properties.                                                             *)

\* "up to N generated tokens are allowed inside the thinking block; the token that would be
\* the (N+1)th is replaced by the forced sequence": the tokens after a spent budget are that
\* sequence, in order, and nothing else is ever forced, not before the block, not after it
\* was closed, not a second time.
BudgetExact ==
    /\ forced = Window
    /\ \A i \in 0 .. Len(generated) : OpensAfter(i) /\ ~ClosedInTime(i) =>
          \A k \in DOMAIN rb.forced :
              LET at == i + rb.budget + k IN at <= Len(generated) => generated[at] = rb.forced[k]

\* The tokens from place i to each place n that were sampled.
SampledIn(i) ==
    LET sampled[n \in 0 .. Len(generated)] ==
          IF n < i THEN <<>>
          ELSE IF n \in forced THEN sampled[n - 1] ELSE Append(sampled[n - 1], generated[n])
    IN  sampled

SampledFrom(i) == SampledIn(i)[Len(generated)]

\* The places at which a lazy grammar woke.
Wakes == {k \in DOMAIN generated \ forced : generated[k] \in Triggers}

\* What a client asked the output to look like, it looks like: a grammar that is never
\* asleep holds for every token of the answer, none forced past it (behind the generation
\* prompt if the chat layer built it), and a lazy one for what was sampled from its trigger
\* on, whatever was forced in between.
GrammarKept ==
    /\ gram.kind # "NONE" /\ ~gram.lazy =>
          Fits(gram, (IF Prefilled(gram) THEN gram.generation_prompt ELSE <<>>) \o generated)
    /\ gram.lazy /\ Wakes # {} =>
          Fits(gram, SampledFrom(CHOOSE k \in Wakes : \A l \in Wakes : k <= l))
=============================================================================
