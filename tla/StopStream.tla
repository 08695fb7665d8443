----------------------------- MODULE StopStream -----------------------------
(***************************************************************************)
(* The text of one request in src/engine.cpp: on_sampled() appends each    *)
(* sampled piece, looks for a stop sequence, holds back what may be the    *)
(* start of one, and emits the rest together with the logprob entries the  *)
(* emitted bytes cover; finish() flushes.                                  *)
(*                                                                         *)
(* Bytes are the point here: text, pieces and stop sequences are sequences *)
(* of them.  A logprob entry is the piece of its token.  Several requests  *)
(* use the slot one after the other.                                       *)
(***************************************************************************)
EXTENDS Integers, Sequences, SequencesExt

CONSTANTS
    Byte,       \* what text is made of
    Pieces,     \* what onyx_token_to_piece() returns for the tokens; empty for
                \* a control token the template does not preserve
    StopLists,  \* the lists of stop sequences to consider (onyx_parse_stop: no empty one)
    MaxTokens   \* bound: tokens sampled for a request

ASSUME StopStreamAssumption ==
    /\ Pieces \subseteq Seq(Byte)
    /\ StopLists \subseteq Seq(Seq(Byte) \ {<<>>})
    /\ MaxTokens \in Nat

VARIABLES
    conf,          \* the request: stop, wants_pieces, want_logprobs
    busy,          \* the slot has a request
    toks,          \* the pieces sampled so far (EOG has none)
    text,          \* result.text
    probs,         \* result.probs
    word,          \* result.stopping_word
    finish,        \* result.finish, "none" before it is set; "error" when result.error is
    n_sent,        \* slot.n_sent
    n_probs_sent,  \* slot.n_probs_sent
    covered,       \* slot.probs_covered_bytes
    out            \* what emit() handed over: the text and the entries

result == <<toks, text, probs, word, finish, out>>
cursor == <<n_sent, n_probs_sent, covered>>
vars == <<conf, busy, result, cursor>>

Bytes(ps) == Len(FlattenSeq(ps))

\* w stands in t after the first i bytes.
At(t, w, i) == IsPrefix(w, SubSeq(t, i + 1, Len(t)))

Requests == [stop : StopLists, wants_pieces : BOOLEAN, want_logprobs : BOOLEAN]

Fresh ==
    /\ toks' = <<>> /\ text' = <<>> /\ probs' = <<>> /\ word' = <<>>
    /\ finish' = "none" /\ out' = [text |-> <<>>, probs |-> <<>>]

Init ==
    /\ conf \in Requests
    /\ busy = FALSE
    /\ toks = <<>> /\ text = <<>> /\ probs = <<>> /\ word = <<>>
    /\ finish = "none" /\ out = [text |-> <<>>, probs |-> <<>>]
    /\ n_sent = 0 /\ n_probs_sent = 0 /\ covered = 0

ResetCursor == n_sent' = 0 /\ n_probs_sent' = 0 /\ covered' = 0

Admit ==
    /\ ~busy
    /\ conf' \in Requests
    /\ busy' = TRUE
    /\ Fresh
    /\ ResetCursor

-----------------------------------------------------------------------------
(* What is held back, and what is handed over.                             *)

\* Mutants of Hold: as much as the longest stop sequence may need is held back; only
\* the first stop sequence is looked at.
HoldLongest(t) == Max({0} \cup {Min({Len(t), Len(conf.stop[i]) - 1}) : i \in DOMAIN conf.stop})
HoldFirst(t) ==
    Max({k \in 0 .. Len(t) : \E i \in DOMAIN conf.stop :
             i = 1 /\ k < Len(conf.stop[i]) /\ IsSuffix(SubSeq(conf.stop[i], 1, k), t)} \cup {0})

\* stop_holdback(): the longest end of the text that a stop sequence begins with.
Hold(t) ==
    Max({k \in 0 .. Len(t) : \E i \in DOMAIN conf.stop :
             k < Len(conf.stop[i]) /\ IsSuffix(SubSeq(conf.stop[i], 1, k), t)} \cup {0})

\* Mutant of Covered: an entry goes out with the first byte of its text.
CoveredPartly(ps, n) ==
    Max({k \in n_probs_sent .. Len(ps) :
             k = n_probs_sent \/ covered + Bytes(SubSeq(ps, n_probs_sent + 1, k - 1)) < n})

\* collect_delivered_probs(): how many entries are covered by the first n bytes.
Covered(ps, n) ==
    Max({k \in n_probs_sent .. Len(ps) : covered + Bytes(SubSeq(ps, n_probs_sent + 1, k)) <= n})

\* emit() of what the first n bytes of t add to what was sent.
Handed(t, ps, n) ==
    [text |-> out.text \o SubSeq(t, n_sent + 1, n),
     probs |-> out.probs \o SubSeq(ps, n_probs_sent + 1, Covered(ps, n))]

\* Mutant of Flushes: text withheld at the end of the request is forgotten.
FlushesNot(t, kind) == FALSE

Flushes(t, kind) == conf.wants_pieces /\ kind \notin {"cancel", "error"} /\ Len(t) > n_sent

\* finish(): hands over the rest of the text unless the request failed or was
\* cancelled, and clears the slot.
Finish(t, ps, kind) ==
    /\ text' = t /\ probs' = ps /\ finish' = kind
    /\ out' = IF Flushes(t, kind) THEN Handed(t, ps, Len(t)) ELSE out
    /\ busy' = FALSE
    /\ ResetCursor
    /\ UNCHANGED conf

-----------------------------------------------------------------------------
(* on_sampled()                                                            *)

\* Mutant of From: only the newest piece is searched.
FromNewest(w) == Len(text)

\* The search for a stop sequence starts its length before what was sent.
From(w) == Max({0, n_sent - Len(w)})

Found(t, w) == {i \in From(w) .. Len(t) - Len(w) : At(t, w, i)}

\* The entries whose text lies within the first pos bytes.
Trimmed(ps, pos) == SubSeq(ps, 1, Max({k \in 0 .. Len(ps) : Bytes(SubSeq(ps, 1, k)) <= pos}))

\* A stop sequence is complete: the first one of the list that is found, at the
\* first place it is found.
Stopped(t, ps) ==
    LET i == Min({j \in DOMAIN conf.stop : Found(t, conf.stop[j]) # {}})
        pos == Min(Found(t, conf.stop[i]))
    IN /\ word' = conf.stop[i]
       /\ Finish(SubSeq(t, 1, pos), Trimmed(ps, pos), "stop")

GoOn(t, ps) ==
    LET n == Len(t) - Hold(t) IN
    /\ text' = t /\ probs' = ps
    /\ IF conf.wants_pieces /\ n > n_sent
       THEN /\ out' = Handed(t, ps, n)
            /\ n_sent' = n
            /\ n_probs_sent' = Covered(ps, n)
            /\ covered' = covered + Bytes(SubSeq(ps, n_probs_sent + 1, Covered(ps, n)))
       ELSE UNCHANGED <<out, cursor>>
    /\ UNCHANGED <<conf, busy, word, finish>>

Sampled(p) ==
    /\ busy /\ Len(toks) < MaxTokens
    /\ toks' = Append(toks, p)
    /\ LET t == text \o p
           ps == IF conf.want_logprobs THEN Append(probs, p) ELSE probs
       IN IF \E i \in DOMAIN conf.stop : Found(t, conf.stop[i]) # {}
          THEN Stopped(t, ps) ELSE GoOn(t, ps)

\* An end-of-generation token, n_predict or the context limit.
Ends(kind) ==
    /\ busy /\ kind \in {"stop", "length"}
    /\ Finish(text, probs, kind)
    /\ UNCHANGED <<toks, word>>

\* The caller gave up, or the tick, the sampler or the shutdown ended the request.
Aborts(kind) ==
    /\ busy /\ kind \in {"cancel", "error"}
    /\ Finish(text, probs, kind)
    /\ UNCHANGED <<toks, word>>

Next ==
    \/ Admit
    \/ \E p \in Pieces : Sampled(p)
    \/ \E kind \in {"stop", "length"} : Ends(kind)
    \/ \E kind \in {"cancel", "error"} : Aborts(kind)

Spec == Init /\ [][Next]_vars

-----------------------------------------------------------------------------
(* What a request answers, whatever was streamed of it.                    *)

All == FlattenSeq(toks)
Occurs(t, w) == \E i \in 0 .. Len(t) - Len(w) : At(t, w, i)
Complete(t) == \E i \in DOMAIN conf.stop : Occurs(t, conf.stop[i])

\* The bytes before the stop sequence: the first of the list that occurs, at its
\* first place.
Before(t) ==
    LET i == Min({j \in DOMAIN conf.stop : Occurs(t, conf.stop[j])})
    IN SubSeq(t, 1, Min({k \in 0 .. Len(t) : At(t, conf.stop[i], k)}))

Answer == IF Complete(All) THEN Before(All) ELSE All

-----------------------------------------------------------------------------
(* Properties.                                                             *)

\* A streaming request, whose text is searched from what was sent, answers the same
\* text as one that is searched from the start after every token; generation goes on
\* only while no stop sequence is complete.  (stop: on_sampled's find.)
SameAnswer == text = Answer /\ (busy => ~Complete(All))

\* What was handed over is never taken back: it is a prefix of the text, all of it
\* once the request ended well.
NeverTakenBack ==
    /\ IsPrefix(out.text, text)
    /\ conf.wants_pieces /\ finish \in {"stop", "length"} => out.text = text

\* Text is withheld only while it may be the start of a stop sequence.
WithheldForStop ==
    busy /\ conf.wants_pieces =>
        LET rest == SubSeq(text, Len(out.text) + 1, Len(text))
        IN rest # <<>> => \E i \in DOMAIN conf.stop : IsStrictPrefix(rest, conf.stop[i])

\* The entries are those of the tokens whose text survived, in order: every token until a
\* stop sequence cuts the text, then as many as fit in it.  No entry leaves before the text
\* of its token did, none that is cut later, and at the end none with a text of its own is
\* missing.
ProbsFollowText ==
    /\ conf.want_logprobs =>
          /\ IsPrefix(probs, toks) /\ Bytes(probs) <= Len(text)
          /\ Len(probs) < Len(toks) => Bytes(SubSeq(toks, 1, Len(probs) + 1)) > Len(text)
    /\ IsPrefix(out.probs, probs) /\ Bytes(out.probs) <= Len(out.text)
    /\ conf.wants_pieces /\ finish \in {"stop", "length"} => Bytes(out.probs) = Bytes(probs)
=============================================================================
