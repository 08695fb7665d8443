------------------------------ MODULE Sampler ------------------------------
(***************************************************************************)
(* onyx_sampler (src/sampler.cpp): the sampler of one request.  Its chain  *)
(* (penalties, top-k, temperature ...) may pick any token it is not told   *)
(* to suppress; its grammar, kept outside the chain, refuses tokens.  What *)
(* a grammar accepts is llama.cpp's (external): a set of sentences.        *)
(***************************************************************************)
EXTENDS Sequences, SequencesExt

CONSTANTS
    Tokens,            \* the vocabulary, without the tokens that end a generation
    Suppressed,        \* those the model's metadata says must never be produced
    Sentences,         \* what a grammar describes
    Triggers,          \* the tokens that wake a lazy grammar
    GenerationPrompt   \* what the template puts after the last turn

\* (A grammar that describes nothing at all does not parse: init_grammar() throws, and the
\* request is refused.)
ASSUME SamplerAssumption ==
    /\ Sentences \subseteq Seq(Tokens) /\ Sentences # {}
    /\ Suppressed \subseteq Tokens /\ Triggers \subseteq Tokens
    /\ GenerationPrompt \in Seq(Tokens)

\* Where a request's grammar comes from.  /v1/completions sets the request's own grammar or
\* one built from a schema; a chat render (apply_sampling) one of any kind, which may be
\* lazy if it is for tool calls, with the template's generation prompt.
Grammars ==
    [kind : {"NONE"}, lazy : {FALSE}, generation_prompt : {<<>>}]
      \cup [kind : {"USER", "OUTPUT_FORMAT"}, lazy : {FALSE}, generation_prompt : {<<>>}]
      \cup [kind : {"USER", "OUTPUT_FORMAT", "TOOL_CALLS"}, lazy : {FALSE},
            generation_prompt : {GenerationPrompt}]
      \cup [kind : {"TOOL_CALLS"}, lazy : {TRUE}, generation_prompt : {GenerationPrompt}]

\* The grammars that describe the template's generation prompt too.
Prefilled(g) == ~g.lazy /\ g.kind \in {"OUTPUT_FORMAT", "TOOL_CALLS"}

\* A grammar of the chat layer starts where the generation prompt starts, every other
\* one with the first token it is given.
Language(g) ==
    IF Prefilled(g) THEN {g.generation_prompt \o s : s \in Sentences} ELSE Sentences

Fits(g, text) == \E s \in Language(g) : IsPrefix(text, s)

\* init_grammar(): a lazy grammar sleeps, a prefilled one is fed the generation prompt.
Built(g) ==
    [awake |-> g.kind # "NONE" /\ ~g.lazy,
     fed   |-> IF Prefilled(g) THEN g.generation_prompt ELSE <<>>]

\* llama_sampler_accept() of the grammar: a trigger wakes it, and is the first it is fed.
Accepted(g, s, tok) ==
    IF s.awake THEN [s EXCEPT !.fed = Append(@, tok)]
    ELSE IF g.lazy /\ tok \in Triggers THEN [awake |-> TRUE, fed |-> <<tok>>]
    ELSE s

\* accept() throws if the grammar cannot go on with the token.
Throws(g, s, tok) ==
    LET t == Accepted(g, s, tok) IN t.awake /\ ~Fits(g, t.fed)

\* What sample() may return: a token of the chain the grammar permits (checked alone, or
\* left after the whole vocabulary was masked).  When nothing is left, not even the end of
\* the generation, the chain picks among tokens that are all ruled out.
Sample(g, s) ==
    LET left == {tok \in Tokens \ Suppressed :
                    s.awake => Fits(g, Append(s.fed, tok))} IN
    IF left = {} /\ s.fed \notin Language(g) THEN Tokens ELSE left
=============================================================================
