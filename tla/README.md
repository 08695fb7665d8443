# Onyx Engine in TLA+

TLA+ models of Onyx Engine (`src/`, C++), model-checked with TLC, with theorems proved by
TLAPS. Everything is translated from `src/src/*.cpp` and `*.h`; llama.cpp and mtmd are not in the
repository (submodules) and are modelled from how the engine calls them. `PROJECT.json` says for
each definition which lines it stands for, and for each property which plausible bug breaks it.

## 1. The system

One process serves one model over HTTP. A pool of HTTP threads parses requests and calls
`onyx_engine`; one engine thread owns the llama.cpp context and runs a loop of *ticks*.

| Component | State | Operations | Hard behaviour | Module |
|---|---|---|---|---|
| Request lifecycle (`engine.cpp`: `generate`, `loop`, `sweep_queue`, `admit_queued`, `finish`) | `queue_`, `stop_` (`q_mutex_`); per request `pieces`, `cancelled`, `finished` (`req->mu`), `result` (no lock); counters | submit, wait, heartbeat, callback, cancel, sweep, admit, finish, shutdown | N+1 threads, two kinds of lock, callbacks that block, timeouts, shutdown | `EngineRequests`, abstractly `GenService` |
| Batching tick (`build_batch`, `decode_batch`, `sample_slot`'s limits, `context_shift`) | slot states, positions, batch rows, views | build, decode a view, retry with half, sample, fail | limits and divisions at their boundaries, failure half-way through a batch | `EngineTick` |
| KV cache and prefix reuse (`admit_queued`, `context_shift`, failure paths) | the memory of llama.cpp, `cache_tokens` | pick a slot, cut back, extend, shift, drop | a hand-kept mirror that has to survive every failure, five kinds of memory | `SlotCache` |
| Text of a request (`on_sampled`, `stop_holdback`, `collect_delivered_probs`, `emit`, `finish`) | `result.text`, `probs`, `n_sent`, `n_probs_sent`, `probs_covered_bytes` | append, search, hold back, emit, cut, flush | stop sequences that straddle tokens, overlap, or begin in text that is already out | `StopStream` |
| Sampler (`sampler.cpp`) | chain and grammar of one request | sample, check, resample, accept | a lazy grammar that wakes, one that is fed the prompt, nothing left to sample | `Sampler` |
| Reasoning budget (`sample_slot`) | `rb_state` and its counters | scan, count, force | tags of several tokens, budget spent inside a tag, forced tokens the grammar never sees | `ReasoningBudget`, over `Sampler` |
| Decision mode (`decide` and its helpers) | `decision_cache_`, sequences 0 and 1 | shared prefix, prompts of their own, media | state kept between requests through every failure | `DecisionCache` |
| Decision requests (`decision.cpp`, `/v1/systemone`) | per request: prompts, scores, running indices | questions to prompts, scores to answers | options in two orders, cut to budgets, read at counted rows | `SystemOne` |
| Embeddings (`embed`, `/v1/embeddings`) | the context's memory and output buffer, under `mutex_` | evaluate, copy, one call per input | inputs of several requests take turns in one context | `Embedding`, composed in `Routes` |
| HTTP routes and streaming (`server.cpp`) | per-connection stream state | plain answer or frames, heartbeat, error frame, `[DONE]` | failure after the stream has begun, a queue that fills meanwhile, clients that leave, text the parser holds back | `Routes` |
| Server lifecycle (`main.cpp`, `server.cpp`) | `ready`, listener thread, engine | listen, load, serve, stop | requests during `load()`, a load that fails, a listener that dies | `Routes` |
| Safetensors conversion (`convert.cpp`) | the cache directory, shared by processes | look, compare times, convert into a temporary file, rename, verify | several processes without a lock, edits and kills between any two file operations | `ConvertCache` |
| llama.cpp adapter (`llama_util.cpp`) | none | probe the memory, tokenize, fill batches | what a memory can remove decides what is reused | the probe is `Probe` of `SlotCache` |
| Chat templates (`onyx_chat.cpp`) | none of their own | render, parse | which grammar a render asks for | that choice is `Grammars` of `Sampler`; the rest is not modelled |
| Request fields, command line, HTTP helpers | none | parsing, validation, strings | none a model checker reaches | not modelled |

How they interact: a route calls `generate()`, which appends to `queue_` and waits on
`req->cv`; the engine thread takes the head of the queue, gives it a slot (`SlotCache`), spends
ticks on it (`EngineTick`), turns each sampled token into text (`ReasoningBudget`, `StopStream`)
and pushes pieces; the HTTP thread hands each piece to the route's callback with no lock held. A
callback that returns false sets `cancelled`, which the engine looks at between ticks. A
decision model has no engine thread: `decide()` runs on the HTTP thread under `mutex_`.

What makes each correct:

* lifecycle: a call is served at most once, in arrival order, never lost, answered exactly once,
  with all its pieces in order; a result does not change after its caller may read it; every
  call ends, and shutdown ends;
* tick: the batch never overruns, a position never passes the context, each logits row is
  sampled once, every tick of a prefilling engine carries prompt tokens;
* cache: logits come from the request's own prompt;
* text: what was streamed is a prefix of the answer, the answer does not depend on streaming,
  logprob entries go with their text;
* budget and grammar: exactly the tokens after a spent budget are forced, and the tokens the
  grammar is responsible for are a beginning of what it describes;
* decision: a score is computed from its own prompt, whatever was kept, and each option's
  probability from that option's own scores;
* embeddings: every vector is of the input at its place;
* routes: a client that stays is told exactly once how its generation ended; one that left does
  not take a slot; no handler is inside the engine when it is destroyed;
* conversion: what is loaded is complete and has the edits made before the process started;
  nobody converts without need; nothing is left behind.

## 2. The modules

`GenService` is the promise of `generate()` without threads: a line of calls, at most `NSlots`
in service, pieces received in order, one answer.

`EngineRequests` is the implementation, one action per critical section. HTTP thread:
`Refuse`/`Reject`/`Enqueue` are `generate()` up to its wait; `Wake` and `Heartbeat` are what the
call finds when `wait_for` has returned, something or nothing, be it by its predicate or after the
100 ms, which end the wait whatever the predicate says; `CallbackReturns` is the unlocked callback;
`Take` is what both do with `req->mu` held. `generate()` does not look at `stop_`: that no call
comes after shutdown (`~stop` in the guards) is a condition on its callers, met by this program,
whose listener is joined before the engine is destroyed. Engine thread: `pc` is the place in
`loop()`; `Sweep`, `SweepCheck`, `SweepErase`, `SettleGone` are the four locked parts of
`sweep_queue()`; `Admit`/`AdmitCancelled` are `admit_queued()`; `Finish` writes the result and frees
the slot, `Publish` sets `finished`, and HTTP threads run between the two; `DrainSlot`,
`DrainQueue`, `SettlePending` are the shutdown. Clock readings are abstract: `Late` picks any front
part of the queue, because `t_queued` grows along it. Tokens are counted, not looked at.

`EngineTick` keeps numbers: `BuiltRows` lays the rows of a batch out as `build_batch()` does,
`DecodeView`/`RetrySmaller`/`TickFails` are the outcomes of `llama_decode()` on a view; `truncated`
and `n_tokens_max` are what a request and `/metrics` are told of the fill.
`SlotCache` keeps tokens: `Best`, `Lcp`, `Prefix` are the choice in `admit_queued()`, `PosMin`,
`CanRemove` and `Extended` are llama.cpp's memory of five kinds, which `Probe` tells apart as
`onyx_probe_seq_rm()` does: plain, pruned to a sliding window (cells left behind are `Gone`),
recurrent, recurrent with a rollback, and one that does not decode the probe. Which memory can be
shifted is llama.cpp's answer, so any may say that it can; one that removes no tail refuses the
removal from the middle that a shift begins with, and the request then ends for its length.
`StopStream` keeps bytes, `ReasoningBudget` tokens, for one slot used by one request after another.
`Sampler` is the sampler as operators: `Grammars` are the grammars the routes and a chat render may
ask for, `Built` is `init_grammar()`, `Sample`, `Accepted` and `Throws` what `sample()` may return
and what `accept()` does with it. A grammar's language is a set of sentences, the chain may pick
any token left. `ReasoningBudget` EXTENDS it and puts the two together, as `sample_slot()` does. In
`DecisionCache` a step is one prompt of a request, as `decide()` holds the lock throughout; a
score is represented by the tokens it was computed from and the batch it was read in.

`SystemOne` is the route in front of it, one prompt (`Fill`) or one answer (`Answer`) a step. A
prompt is a sequence of pieces with lengths and the row at which a piece is read; a score is the
set of outputs <<question, variant, option>> it was made from, so that an answer shows whose
scores went into it. Budgets and limits are the numbers of the code. Tokenization, the model's
own template (whether the state comes first is a choice; that an option's marker is in its piece is
assumed) and the arithmetic of probabilities are left out.

`Routes` is the caller's side of `GenService`, which it instantiates with its connections: one
action per step of a handler (`Arrive`, `Parse`, `Open`, `Role`, `Call`, `Receive`, `Heartbeat`,
`Return`, `AnswerPlain`, `EndStream`), the engine's steps as `GenService` promises them, the calls
to `embed()` as `Embedding` has them (`Lock`, `Evaluate`, `Copy`, `Fail`; a vector is the input it
was computed from), and the main and listener threads (`Loaded`, `LoadFails`, `ListenerEnds`,
`Joined`). It keeps what each client was sent. External and nondeterministic: what the chat parser
can parse (`held`), when a client leaves, whether a write to one that left succeeds. That
`onyx_engine`'s destructor comes after `listener.join()` is in `Joined`, so the drain of running
calls in `EngineRequests` is a promise of the class which this program does not need.

`ConvertCache` has one action per file operation of `onyx_resolve_model()`, for processes that
share a cache directory with no lock. The clock is coarse: two events may carry the same time. A
source is any file whose time the check reads: the converter script, asked first, and the weights and
metadata files. A time may turn out unreadable: a source then counts as newer, the script as older
in the lookup and as newer after a failed rename. Of the converter it has what shows outside: when
it reads each source, its own temporary file (`Create`, `part`), and the moment all is written and
moved to `tmp_path` (`Write`). Process and converter may be killed together (`Crash`) or the
converter alone (`ConverterKilled`). The file at `cache_path` is replaced but never deleted, so that its
own time can be read.

The modules are cut so that each abstracts what another keeps. `EngineRequests` lets a slot need
any number of ticks and end at any token, which covers what `EngineTick`, `StopStream` and
`ReasoningBudget` allow; `EngineTick` lets an admission find any proper prefix in the cache, which is
`ReuseHonest` of `SlotCache`; `SlotCache` lets a tick carry any chunk, which covers
`BuiltRows`. These correspondences are by construction and not themselves checked.

## 3. The runs

| Run | Instance | What it shows |
|---|---|---|
| `requests` | 3 calls (streaming, media, plain), 2 slots, queue of 2, timeout on, 1 token | all interleavings of three HTTP threads, the engine and shutdown: `Exclusive`, `NotLost`, `AnsweredWhole`, `TimedOutUntouched`, `MetricsExact`, `ResultFrozen`, and that they implement `GenService` |
| `requests_live` | 2 competing streaming calls, 1 slot, queue of 1, one client may stall, a third call is refused | `EngineSettles`, `CallsReturn`, `ShutdownJoins` |
| `tick` | 2 slots, batch 3, context 5, prompts of up to 3, three values of `--tick-tokens`, limits of one token or none, shift on and off | `BatchWellFormed` (the tick budget included), `PositionsFit`, `SampledOnce`, `PrefillProgress`, `FillCounted`, `PrefillEnds` |
| `cache` | 2 slots, 2 tokens, context 4, `--cache-reuse 2`, five kinds of memory (a window of 2, a rollback by 1), shift where it makes a difference, projector or not | `ServesPrompt`, `MirrorSound`, `ReuseHonest` through failures, throws and shifts |
| `stream` | 2 bytes, tokens of 0 to 2 bytes, 8 stop lists, 5 tokens | `SameAnswer`, `NeverTakenBack`, `WithheldForStop`, `ProbsFollowText` |
| `budget` | 5 tokens of which one is suppressed, tags that begin alike, budgets -1 to 3, grammars of every kind with three sentences and two triggers, 8 generated tokens | `BudgetExact`, `GrammarKept` |
| `decide` | requests of up to 2 prompts of up to 3 tokens, batch 2, all memories and kinds | `SeesItsPrompt`, `ReadsLastBatch`, `KeptExactly` |
| `systemone` | 8 kinds of family, 1 or 2 questions of up to 3 options, two lengths of each text, 4 sizes of media | `OwnScores`, `CountsAgree`, `StateGivesWay` |
| `convert` | 3 processes, the script and the weights, one edit, unreadable times, kills anywhere, junk or nothing in the cache | `PickedUp`, `ConvertsOnlyIfStale`, `NoLitter` |
| `routes` | 2 connections, plain, chat or text, 1 slot, queue of 1, 2 pieces; embeddings of up to 2 inputs | `EngineAlive`, `ClientTold`, `DropsGoneElsewhere`, `CarriesParsed`, `OwnVectors` |
| `routes_gone` | the same | finding 1 |
| `routes_text` | the same | finding 2 |

Why the bounds are enough. Two calls that compete and one behind them give every order of queue,
sweep and admission that the code tells apart: it compares a request with the head, with the swept
ones and with the slots, never three with each other. One sampled token per call is the smallest
that still has a piece before, during and after `finish`. In `tick` the batch of 3 is the smallest
`load()` allows for 2 slots, so room, share and view all reach zero or one; 5 positions are one
shift (which keeps at least the BOS) beyond the longest prompt. In `cache` 2 tokens suffice for
prompts that agree and differ at each place, a context of 4 shifts within one request; a window of 2
leaves a cell behind while the prompt still grows, and a rollback by 1 makes cutting one token
possible and two impossible. Stop sequences of 5 bytes against 5 tokens of up to 2 bytes reach every
overlap of two pieces; eight tokens hold a tag, three tokens of thought, a message and a tag; one of
the sentences needs the suppressed token, so the grammar can leave nothing to sample. In `decide`
three tokens against a batch of two make the prompt span two batches, and two prompts are shared
prefix and remainder; what a request finds from earlier ones is one token sequence, of which all are
reached. In `systemone` each length has a value within every budget and one beyond it, media leave
room for all, for the text budget, for exactly the 64 rows required, and for fewer; three options
tell a reversal from a rotation. In `convert` three processes are a winner, a loser whose rename
fails, and one that looks meanwhile; two sources, of which the script is asked first and forgiven an
unreadable time, let an edit fall before, between and after the comparisons and the reads of the
others; a second edit adds only a later one of the same. In `routes` the second connection fills the
slot or the queue between the first one's `queue_full()` and its call, and keeps it waiting; two
pieces are one held back and one after it; two inputs are the one that was evaluated before another
request came in, and the one after. Symmetry is used where the elements are interchangeable and no
liveness is checked (tokens in `cache` and `decide`, processes in `convert`, connections in
`routes`). `cache` starts from `MCInit`, which leaves out configurations that behave like others: a
memory that removes no tail refuses every shift, so that shift on is like shift off for it, and next
to a projector, where nothing is reused, it is like a plain cache; for the other memories shift off
has no behaviour of its own, since a request may end at the limit (its budget spent) either way. Its
`VIEW` takes states as one that differ only in the prompt of a slot that was shifted, which no
action and no property reads any more. The theorems are about `Spec`, all configurations included.

Deadlock is checked in every run but those of `ConvertCache`, `Routes` and `SystemOne`, where every
process, connection or request may be done for good. `EngineRequests` has a `Quiet` step for the
state in which the engine thread has exited and no call is under way: any other state without a
successor would be reported.

Fairness. `requests_live` assumes that the engine thread is scheduled (`WF` of its actions: it holds
no lock while it waits, and its calls into llama.cpp return) and that an HTTP thread is scheduled
and its callback returns, except for a client in `Stalled`, which may stop reading for ever. Nothing
is assumed of shutdown or of new calls. `tick` assumes that the engine thread goes on, not that
decodes succeed.

## 4. Findings

1. `routes_gone`: with nothing to send, a chat stream's callback asks its parser and not the socket
   (`server.cpp:818`), so a client that disconnected while it waited is not noticed unless the
   parser fails; `docs/architecture/concurrency.md:44` says the sweep drops it. The plain and the
   text routes do ask (`DropsGoneElsewhere`).
2. `routes_text`: when the final parse fails, a chat stream sends only the text after
   `accumulated`, which includes the pieces the parser held back (`server.cpp:855`); the comment
   at `server.cpp:848` says the withheld tail is flushed. `CarriesParsed` shows that this is the
   only way to lose text.

Observations that no run is spent on:

* Code and documentation disagree on a cached conversion exactly as old as a source: the code
  reuses it (a source makes it stale only if `src_time > cache_time`, `convert.cpp:305`), whereas
  `docs/architecture/safetensors-conversion.md:24` says that it is reused if it "is newer than the
  source weights and metadata files". Where the clock is coarse, an edit made in the tick of the
  file's last byte is therefore missed by every later start, until the next edit.
  `ConvertsOnlyIfStale` asks only what both agree on, that nobody converts next to a file that is
  newer, and `PickedUp` excepts the edits that are lost.
* Of several stop sequences the first of the *list* cuts, so a later one of the list may remain in
  the text before it (`SameAnswer` states this order).
* A trailing logprob entry without text of its own is part of the result but is not streamed,
  which is why `ProbsFollowText` asks only that what was streamed is a beginning of it.
* Prompt chunks are handed out in slot order (`engine.cpp:1003`): with `--tick-tokens` below the
  number of prefilling slots, a stream of short prompts into a lower slot can keep a higher one
  waiting for ever, although prefill as a whole never stops (`engine.cpp:996`). `PrefillEnds`
  therefore gives a tick a token for each slot.
* The rolling match of the reasoning tags restarts at one token (`engine.cpp:1243`), so a start tag
  `a a b` is overlooked when a third `a` precedes it, and the block is then unbounded. The tags
  that are never overlooked are those `Plain` describes in `Generation_proofs`; the tags of
  `budget` are among them, and `BudgetSpent` holds for all of them.
* After a tick that throws, the memory of every sequence is cleared but only the mirrors of busy
  slots (`engine.cpp:731`). An idle slot's mirror is then wrong, which does no harm: an admission
  asks the memory first, and `ServesPrompt` holds.
* An edit made while the converter runs is older than its output and goes unnoticed until the next
  one, whereas `docs/architecture/safetensors-conversion.md:25` says that editing the source
  invalidates the cache. With the one above the window reaches to the end of the tick of the last byte;
  `PickedUp` excepts exactly that. Nor does a comparison of times notice a source that was deleted
  or replaced by a copy with an older time.
* A script whose time cannot be read is passed over in the lookup (`convert.cpp:301`), where any
  other source makes the file stale (`convert.cpp:305`); `PickedUp` excepts that too.
* Whether a template opens the thinking block is decided by the prompt ending in the very start
  tag (`server.cpp:383`). A template that ends its prompt with the tag and a newline is not
  recognised; the machine then waits for a start tag that never comes, and the budget that
  `docs/reference/api/chat-completions.md:113` promises is not applied.
* A lazy grammar may wake inside the thinking block (a trigger among the model's thoughts). The
  tokens the budget forces afterwards are not fed to it, so it holds for the answer with the forced
  tokens left out; `GrammarKept` says exactly that.
* When a grammar leaves nothing else, a token the model's metadata suppresses may be sampled.
* `n_tokens_max` is `n_past` when a request finishes, after context shifts have lowered it
  (`engine.cpp:1389`), and a failed tick counts nothing, whereas `engine.h:235` says "largest KV
  fill a slot reached". `FillCounted` excepts those requests.
* With a cache that is pruned to its window, a shared prefix shorter than `n_swa - 1` is never
  reused, even while position 0 is still held: the threshold is then 0 (`engine.cpp:932`), and a
  cache whose first position is 0 does not start before it. Work is repeated, nothing is wrong.
* A process killed during a conversion leaves its temporary files, which nothing collects, and its
  converter may go on writing to them. A converter that is killed alone leaves the file it was
  writing (`scripts/convert-safetensors.py:503`), under a name the process does not know: what the
  process removes is `tmp_path`. `NoLitter` excepts these two and nothing else.
* Half a JSON object is refused only when the *length* cut it; a structured answer ended by a stop
  sequence of the user's is returned as it is (`ClientTold` speaks of length cuts).

## 5. Theorems

For any sets of requests, connections, processes, sources, tokens, bytes and stop lists, and any
numbers of slots, queue places, questions, lengths and bounds that satisfy the modules' assumptions
(`RequestsAssumption`, `TickAssumption`, `SlotCacheAssumption`, `StopStreamAssumption`,
`SamplerAssumption`, `BudgetAssumption`, `DecisionAssumption`, `SystemOneAssumption`,
`RoutesAssumption`, `ConvertAssumption`), TLAPS checks the theorems below. The
assumptions are what the code enforces before it serves: a batch has a row for every slot and one
more, a prompt is shorter than a slot's context, a stop sequence is not empty, a tag is not empty, a
grammar describes something, an option is at least its marker, the script is a source.

| Module | Theorem | Statement |
|---|---|---|
| `EngineRequests_proofs` | `Invariance` | `Spec => []Inv` |
| | `TypeCorrect` | `Spec => []TypeOK` |
| | `ServedOnce` | `Spec => []Exclusive` |
| | `NeverLost` | `Spec => []NotLost` |
| | `ResultStays` | `Spec => ResultFrozen` |
| | `TimedOutNeverRan` | `Spec => []TimedOutUntouched` |
| | `AnsweredInFull` | `Spec => []AnsweredWhole` |
| | `CountersExact` | `Spec => []MetricsExact` |
| | `Refinement` | `Spec => ImplementsService` |
| `EngineTick_proofs` | `Invariance`, `PositionsBounded`, `LogitsOnce`, `BatchSound`, `PromptsAdvance`, `FillSeen` | `Inv`, `PositionsFit`, `SampledOnce`, `BatchWellFormed`, and the action properties `PrefillProgress` and `FillCounted` |
| `SlotCache_proofs` | `Invariance`, `PromptServed`, `MirrorHonest`, `ReuseKept` | `Inv`, `ServesPrompt`, `MirrorSound`, and the action property `ReuseHonest` |
| `Generation_proofs` | `Invariance`, `AnswersSame`, `SentStays`, `HeldForStop`, `EntriesFollow` | of `StopStream`: `Inv`, `SameAnswer`, `NeverTakenBack`, `WithheldForStop`, `ProbsFollowText` |
| | `SlotKept`, `ForcedOnce`, `GrammarHolds` | of `ReasoningBudget`: `SlotInv`, `ForcedRun`, `GrammarKept`, for all tags |
| | `BudgetSpent` | `BudgetExact`, for all tags that are `Plain` |
| `SystemOne_proofs` | `Invariance`, `ScoresOwned`, `NoMismatch`, `StateCutLast` | `Inv`, `OwnScores`, `CountsAgree`, `StateGivesWay` |
| `DecisionCache_proofs` | `Invariance`, `MirrorExact`, `OwnContext`, `LastBatchRead` | `Inv`, `KeptExactly`, `SeesItsPrompt`, `ReadsLastBatch` |
| `Routes_proofs` | `Invariance`, `EngineOutlives`, `ClientsTold`, `GoneGiveWay`, `StreamsCarry`, `VectorsOwn` | `Inv`, `EngineAlive`, `ClientTold`, `DropsGoneElsewhere`, `CarriesParsed`, `OwnVectors` |
| `ConvertCache_proofs` | `Invariance`, `EditsPickedUp`, `OnlyStaleConverted`, `NothingLeft` | `Inv`, `PickedUp`, `ConvertsOnlyIfStale`, `NoLitter` |

Every proof has one step per action, and lemmas about sequences and finite sets before it.

**`EngineRequests`.** None of the properties is inductive alone. That a request is nowhere else
when it is queued depends on where the engine thread is: between `Sweep` and `SettleGone` a swept
request is in two lists, and only `pc` says whether it may still be in the queue. `Inv` therefore
adds to `TypeOK`, `Exclusive` and `NotLost`: `Control` (what `scan`, `gone`, `todo`, `pub` and `ret`
may hold at each `pc`), `Sweeping` (how the copied, the dropped and the queued requests relate at
each stage of the sweep), `Submitted` (the engine knows only requests that were submitted, so a new
call is nowhere in it) and `Gauge` (`requests_processing` is the number of busy slots, without which
it could not be shown never to drop below zero). Four layers stand on it, each inductive with the
ones below: `Fresh` (what is queued or dropped was never touched), `Ordered` and `Answered`
(delivered and waiting pieces are the first so many; who is told has a result; a call that returned
is nowhere in the engine, so nothing changes for it), `Counted` (each counter is the size of a set
which a step enlarges by one element, or leaves), and `Hidden` (a request dropped at the head of the
queue got no piece, a refused call is over).

`Refinement` maps a state to where each call stands (`Phase`) and shows, action by action, that a
step is one of `GenService` or changes nothing the callers see: `Admit` is `Start`, whose bound on
the calls in service is that of the slots; `SweepErase` and `AdmitCancelled` are `Leave`,
`DrainQueue` is `Close`, `Sample` and `finish()` are `Produce` if they push a piece, `SettleGone`,
`SettlePending` and `Publish` are `Settle`, and a caller's wake-up is `Receive`, `Return` or nothing.

**`EngineTick`.** `SampledOnce` is not inductive: half-way through a batch `n_past` counts rows that
the memory does not have yet, and a view may be halved at any row. `Inv` therefore says for each
slot (`Local`) that what `n_past` counts and the memory lacks is exactly the number of the slot's
rows at or past `off`, and that its logits row, if it has one, is its last and still ahead; and for
the batch (`Batch`) that its rows are shared out without gap or overlap. That the batch fits is then
arithmetic on a running sum: `BuiltRows` hands out what is left of the batch in slot order, so a
row belongs to one slot because the sum never falls. `PromptsAdvance` needs no invariant beyond
that, but the two limits: the decode rows leave a row of the batch, and the code lets one prompt
token pass the tick budget.

**`StopStream`.** The invariant is that of a request that runs (`Working`): everything but the end
of the text that a stop sequence may begin in (`Hold`) is handed over, and of the entries exactly
those whose text is (`Handing`). From it follow the four properties, once it is shown that a stop
sequence found in the longer text cannot begin in what was handed over: otherwise its beginning
would have been an end of the earlier text, and held back. The lemmas before say what a prefix, a
suffix and the concatenation of the pieces are place by place, and what `Hold` and the search
return.

**`ReasoningBudget`**, in the same module, since both are about the tokens of one request (their
state is disjoint: `BudgetSpec` and `Spec` are two specifications). `BudgetExact` and `GrammarKept`
are read off the tokens alone, and neither is inductive. `SlotInv` is what sustains both for any
tags whatever. Its part `Steady` says where the forced tokens are: none before the machine forces,
while it forces a run that reaches the last token and is `rb_forced_idx` long (`Written`),
afterwards the whole sequence; and that a slot whose machine is off has a request without a budget.
`ForcedOnce` follows: one run, no gap, at least a budget's worth of tokens before it. Its part `Fed`
says what the grammar was given: every token, behind the generation prompt if it describes it; or,
if it is lazy, nothing while no trigger was sampled, and then what was sampled from the first one
on. A forced token leaves `Fed` as it is only because the route refuses a budget together with a
grammar that is never asleep. What `SampledFrom` computes is a recursive function of the places, so
the proof shows that the function exists (`KeptIs`), that it ignores what comes after a place
(`KeptSame`) and what a token more does to it (`KeptMore`).

`Exactly` adds what the machine's state tells of the tags. While the block is searched for, no start
tag has ended and `rb_start_match` is the length of the longest end of the tokens that begins the
tag (`Rolling`); inside the block, `rb_count` is the distance from the place where it opened, no end
tag has ended since, and `rb_end_match` is the longest match behind that place; once the budget is
spent, the block was not closed in time and the forced run begins right behind the budget.
`RollingStep` is the heart of it: with a token more the longest match is one longer, or one, or
none. It needs `Plain`: if after `m` tokens of the tag the last `r` of them begin it too, the tag
goes on after `r` as after `m`. This is a property of the tags a template declares, which the code
does not check; every tag whose first token does not come again before its last is one, so is every
tag of one or two tokens. It cannot be dropped: for the tag `a a b` TLC finds `BudgetExact`
violated within seven tokens (for `a a a`, which is `Plain`, it does not).

**`SystemOne`.** First, without any state, that a prompt's rows read each option where the model
answers it (`Reads`), by a lemma for each family: markers counted behind media, head, cut options
and state, label tokens, groups, the joint prompt, and the second order that is reversed and read
back. Then the route: `Inv` ties the running indices to the questions. While prompts are made
(`Filling`) there are as many as the questions before take (`Rounds`), and they are in order; while
answers are made (`Answering`) `i_prompt` and `i_score` are where this question's scores begin,
which are sums over the questions before it (`Rounds`, `Sizes`).

**`SlotCache`.** `Inv` says for each slot: a busy slot's sequence ends where `n_past` says
(`Working`); the mirror has exactly the tokens of the memory and of the slot's rows in the batch,
but a media request has none and an idle slot may have lost one of the two as a whole (`Mirroring`:
this is what a failed tick leaves behind, and why an admission must ask the memory; `MirrorSound` is
read off it); a text request that is busy holds its own prompt (`Prompted`); and only a beginning
was left behind by a window (`Pruned`), before what the next token sees (`Near`, a part of
`Prompted`: a shift moves the sequence under the window, but then the prompt is cut anyway). The
hard step is admission, where the shared prefix, the window's edge and what the memory can remove
have to agree.

**`DecisionCache`.** To the three properties `Inv` adds what the prompts of a request share while
it runs (`Sharing`): sequence 0 holds the common prefix, so a copy of it continues any of them.

**`Routes`.** `Inv` follows each connection: what its call's phase can be at each place of the
handler (`Calling`), when it is cancelled (`Cancelling`), which frames are on the wire (`Telling`),
what the frames carry and what the parser still holds (`Carrying`, `Missing`), and which inputs it
has vectors of (`Embedded`, with `OneInside`: one caller inside `mutex_`). A step of one connection
leaves those of the others alone, so each action is proved for the connection that moves.

**`ConvertCache`.** A process remembers times and versions which other processes and edits make old
meanwhile. `Inv` relates them to the files: a conversion covers every edit made before it began
(`Sound`), the sources compared so far were, as the process started, not younger than the file
(`Checked`), but for a script whose time could not be read (`Judged`), a draft has what was read
since the conversion began (`Drafted`), a file that was found fresh is in the cache as long as the
process looks at it (`Found`), and the temporary files are there only while somebody is at work on
them, or was killed at it (`Tidy`).

Every invariant and every action property that a run checks is stated by a theorem. Model-checked
only is liveness (`EngineSettles`, `CallsReturn`, `ShutdownJoins`, `PrefillEnds`), which TLAPS does
not reach under fairness. What `Refinement` says of `Routes`,
which composes `GenService` and `Embedding` with the handlers, is by construction. A proof is about
the model: that the model is the code is for the reader to judge, with the `map` of `PROJECT.json`.

## 6. Plan

Later work, in this order.

1. `Routes` over `EngineRequests`: with `Refinement` proved, `Routes` may take its calls from
   `GenService` without losing a behaviour; that its own steps of `GenService` are exactly those is
   still by construction.
2. The converter's own shard and tensor bookkeeping, as far as its order matters.

## 7. Not modelled

* Rendering and parsing of chats (`onyx_chat.cpp`): text in, text out, mostly llama.cpp's; which
  grammar a render asks for and that the parser may hold text back are modelled.
* Request fields, JSON, command line, HTTP helpers: functions without state. The limits the
  command line enforces are the assumptions of the modules.
* The read-only routes (`/health`, `/metrics`, `/props`, `/tokenize`), which keep no state;
  `MetricsExact` and `FillCounted` are about what they report.
* The sampler chain (any token that is left may be picked), the arithmetic of probabilities,
  scores and embeddings, images beyond the positions they fill, timings, logs.
* Whether a cache is pruned to its window (`--swa-full`) is a choice of the model: llama.cpp
  decides it.

The memory model is sequentially consistent: shared state is under locks, but for `result`, whose
unlocked read is what `ResultFrozen` is about.
