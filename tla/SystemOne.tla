------------------------------ MODULE SystemOne ------------------------------
(***************************************************************************)
(* POST /v1/systemone (src/src/server.cpp, decision.cpp): the questions of *)
(* a request become prompts, decide() returns one row of scores for each   *)
(* prompt, and the scores become answers.  What can go wrong is which      *)
(* number belongs to which option: options are shown in two orders, cut to *)
(* budgets, read at rows counted by hand, and taken out of the scores by a *)
(* running index.                                                          *)
(*                                                                         *)
(* An output <<q, v, i>> is what the model says of option i of question q  *)
(* (of the rating i, for a lev noul) in its variant v.  A score is the set *)
(* of the outputs it was made from.  Rows count from 0, all else from 1.   *)
(* A prompt's rows are pieces [of, len, mark]; mark is the row in a piece  *)
(* at which the model gives that piece's output, -1 when there is none.    *)
(***************************************************************************)
EXTENDS Integers, SequencesExt

CONSTANTS MaxQuestions,  \* bound: questions of a request
          MaxOptions,    \* bound: options of a question
          MaxHead,       \* laya: max_head_tokens
          TextLens,      \* bound: lengths of instructions, in tokens
          OptionLens,    \* bound: lengths of an option, in tokens
          StateLens,     \* bound: lengths of a state, in tokens
          MediaRows      \* bound: rows of the media of a request

ASSUME SystemOneAssumption ==
  /\ MaxQuestions \in Nat /\ MaxOptions \in Nat /\ MaxHead \in Nat
  /\ TextLens \subseteq Nat /\ StateLens \subseteq Nat /\ MediaRows \subseteq Nat
  /\ OptionLens \subseteq Nat \ {0}  \* its marker, or the token that ends it, at least

VARIABLES
  conf,     \* the family, and whether its template puts the state first
  pc,       \* "parse", "fill", "decide", "answer", "done", "refused"
  req,      \* the request: questions, state and media
  at,       \* the question and variant to fill, or the question to answer
  prompts,
  scores,   \* what decide() returned, a sequence of scores for each prompt
  i_prompt, i_score,
  answers,  \* question -> option -> the outputs its probability is made from
  refused   \* why there is no answer, "" when there is one

vars == <<conf, pc, req, at, prompts, scores, i_prompt, i_score, answers, refused>>

Least(a, b) == IF a <= b THEN a ELSE b
Most(a, b) == IF a >= b THEN a ELSE b
Total(lens) ==
  LET sum[i \in 0 .. Len(lens)] == IF i = 0 THEN 0 ELSE sum[i - 1] + lens[i]
  IN  sum[Len(lens)]

(***************************************************************************)
(* labels: openjev, granite-switch, nimble, pplx-decider, vllm-d3,         *)
(* h2o-lightning; groups: lfm2-d1; omni: lfm2-d1-omni; and so they are     *)
(* called: lev, kev, laya, clef, and decision2.                            *)
(***************************************************************************)
Families == {"labels", "lev", "groups", "kev", "laya", "omni", "clef", "decision2"}
Family == conf.family

\* The lengths that matter to a family.
OptionLensOf(family) == IF family \in {"kev", "laya", "omni"} THEN OptionLens ELSE {1}
TextLensOf(family) == IF family \in {"laya", "omni"} THEN TextLens ELSE {1}

\* An option: its text, and how many label tokens it can be read at.
Options(family) == [len : OptionLensOf(family), forms : IF family = "groups" THEN 1 .. 2 ELSE {1}]

\* A noul has two options, a score two levels or more (one, for h2o-lightning).
Questions(family) ==
  {q \in [type : {"choice", "score", "noul"}, text : TextLensOf(family),
          options : UNION {[1 .. n -> Options(family)] : n \in 1 .. MaxOptions}] :
     /\ q.type = "noul" => Len(q.options) = 2
     /\ q.type = "score" /\ family # "labels" => Len(q.options) >= 2
     /\ q.type = "choice" /\ family = "decision2" => Len(q.options) >= 2}

NoMedia == [files |-> 0, audio |-> FALSE, rows |-> 0]

\* Of the families that take media, only lfm2-d1-omni reads at rows that depend on them.
MediaOf(family) ==
  {NoMedia} \cup (IF family = "omni" THEN [files : 1 .. 2, audio : BOOLEAN, rows : MediaRows] ELSE {})

StateLensOf(family) == IF family = "omni" THEN StateLens ELSE {1}

Requests(family) ==
  [questions : UNION {[1 .. n -> Questions(family)] : n \in 1 .. MaxQuestions},
   state : StateLensOf(family), media : MediaOf(family)]

NoRequest == [questions |-> <<>>, state |-> 0, media |-> NoMedia]

Init == /\ conf \in [family : Families, stateFirst : BOOLEAN]
        /\ Family # "omni" => conf.stateFirst
        /\ pc = "parse" /\ req = NoRequest
        /\ at = [question |-> 1, variant |-> 0]
        /\ prompts = <<>> /\ scores = <<>> /\ answers = <<>>
        /\ i_prompt = 1 /\ i_score = 0
        /\ refused = ""

IsJoint == Family = "clef"

\* lev shows a choice's options in two orders.
NVariants(q) == IF Family = "lev" /\ q.type = "choice" /\ Len(q.options) > 1 THEN 2 ELSE 1

\* lev reads a noul from nine ratings.
NOutputs(q) == IF Family = "lev" /\ q.type = "noul" THEN 9 ELSE Len(q.options)

-----------------------------------------------------------------------------
(***************************************************************************)
(* Where a prompt is read.                                                 *)
(***************************************************************************)

Empty == [labels |-> <<>>, groups |-> <<>>, rows |-> <<>>, markers |-> <<>>, spans |-> <<>>]

Text(n) == [of |-> <<0, 0, 0>>, len |-> n, mark |-> -1]

Start(rows, k) == Total([j \in 1 .. k - 1 |-> rows[j].len])

\* The rows of the marker token, in order.
Marks(rows) ==
  FlattenSeq([k \in DOMAIN rows |->
    IF rows[k].mark \in 0 .. rows[k].len - 1 THEN <<Start(rows, k) + rows[k].mark>> ELSE <<>>])

\* The label of position i stands next to the option shown there: in reverse in the second
\* variant.
Label(q, n, v, i) == <<q, v, IF v = 0 THEN i ELSE n + 1 - i>>

FillLabels(q, v) ==
  LET n == NOutputs(req.questions[q])
  IN  [Empty EXCEPT !.labels = [i \in 1 .. n |-> Label(q, n, v, i)]]

\* lfm2-d1: all the tokens of an option's label, one option after the other.
FillGroups(q) ==
  LET forms == [i \in DOMAIN req.questions[q].options |-> req.questions[q].options[i].forms]
  IN  [Empty EXCEPT
         !.labels = FlattenSeq([i \in DOMAIN forms |-> [f \in 1 .. forms[i] |-> <<q, 0, i>>]]),
         !.groups = forms]

\* The pieces of the options of q, cut to these lengths and read at their first or last row.
OptionPieces(q, lens, where) ==
  [i \in DOMAIN lens |-> [of |-> <<q, 0, i>>, len |-> lens[i],
                          mark |-> IF where = "first" THEN 0 ELSE lens[i] - 1]]

LensOf(q) == [i \in DOMAIN req.questions[q].options |-> req.questions[q].options[i].len]

\* kev: an option is read at the token that ends it.
FillKev(q) ==
  LET rows == <<Text(1)>> \o OptionPieces(q, LensOf(q), "last") \o <<Text(1)>>
  IN  [Empty EXCEPT !.rows = rows, !.markers = Marks(rows)]

Capped(lens, n) == [i \in DOMAIN lens |-> Least(lens[i], n)]

\* laya: marker and 48 tokens for each option, or less when all of them are too long.
LayaOptions(lens) ==
  LET capped == Capped(lens, 49)
  IN  IF Total(capped) + 16 <= MaxHead THEN capped
      ELSE Capped(capped, Most(4, (MaxHead - Least(MaxHead, 16)) \div Len(lens)))

\* Mutant: the markers are counted before the options are cut.
LayaMarkersUncut(lens, cut, first) ==
  [i \in DOMAIN cut |-> first + Total(SubSeq(lens, 1, i - 1))]

\* An option's marker is the next row when it is appended.
LayaMarkers(lens, cut, first) ==
  [i \in DOMAIN cut |-> first + Total(SubSeq(cut, 1, i - 1))]

\* [cls] question [sep] ([marker] option)* [sep] state [sep]
FillLaya(q) ==
  LET cut == LayaOptions(LensOf(q))
      text == Least(req.questions[q].text, Most(8, MaxHead - Least(MaxHead, Total(cut))))
      head == <<Text(1), Text(text), Text(1)>>
  IN  [Empty EXCEPT !.rows = head \o OptionPieces(q, cut, "first") \o <<Text(2 + req.state)>>,
                    !.markers = LayaMarkers(LensOf(q), cut, text + 2)]

-----------------------------------------------------------------------------
(***************************************************************************)
(* lfm2-d1-omni: the media, then the pieces around the state, each cut to  *)
(* its budget, the state to the room that is left.                         *)
(***************************************************************************)

OmniMax ==
  IF req.media.files = 0 THEN 16384
  ELSE Least(IF req.media.audio THEN 15360 ELSE 896, 16384 - Least(16384, req.media.rows))

\* What question q takes besides the state: a row of the template, the instructions, the options.
OmniAround(q) ==
  LET n == Len(req.questions[q].options)
      budget == Most(96, Least(24 * n + 32, OmniMax \div 2))
  IN  <<Text(1), Text(Least(req.questions[q].text, Most(16, budget)))>>
      \o OptionPieces(q, Capped(LensOf(q), Most(2, (budget - 3 * n) \div n)), "first")

RowsOf(pieces) == Total([k \in DOMAIN pieces |-> pieces[k].len])

\* Mutant: what follows the state is forgotten.
RoomAfterHead(head, tail) == OmniMax - Least(OmniMax, RowsOf(head))

Room(head, tail) == OmniMax - Least(OmniMax, RowsOf(head) + RowsOf(tail))

CutTo(pieces, n) ==
  [k \in DOMAIN pieces |-> [pieces[k] EXCEPT !.len = Most(0, Least(@, n - Start(pieces, k)))]]

FillOmni(q) ==
  LET around == OmniAround(q)
      head == IF conf.stateFirst THEN <<>> ELSE around
      tail == IF conf.stateFirst THEN around ELSE <<>>
      body == <<Text(Least(req.state, Room(head, tail)))>>
      rows == <<Text(req.media.rows)>> \o CutTo(head \o body \o tail, OmniMax)
  IN  [Empty EXCEPT !.rows = rows, !.markers = Marks(rows)]

\* Images or one audio clip; and they have to leave room.
MediaRefused == /\ Family = "omni" /\ req.media.files > 0
                /\ \/ req.media.audio /\ req.media.files > 1
                   \/ OmniMax < 64

OptionsLost(q, prompt) == Family = "omni" /\ Len(prompt.markers) # Len(req.questions[q].options)

-----------------------------------------------------------------------------

\* The joint heads: a span for each option, question by question.
FillJoint(questions) ==
  [Empty EXCEPT
     !.spans = FlattenSeq([k \in DOMAIN questions |->
                 [i \in DOMAIN req.questions[questions[k]].options |-> <<questions[k], 0, i>>]])]

FillPrompt(q, v) ==
  CASE Family \in {"labels", "lev"} -> FillLabels(q, v)
    [] Family = "groups" -> FillGroups(q)
    [] Family = "kev" -> FillKev(q)
    [] Family = "laya" -> FillLaya(q)
    [] Family = "omni" -> FillOmni(q)
    [] Family = "decision2" -> FillJoint(<<q>>)
    [] Family = "clef" -> FillJoint([k \in DOMAIN req.questions |-> k])

\* Mutant: a label is a score, whatever its group.
RegroupedNot(labels, groups) == [i \in DOMAIN labels |-> {labels[i]}]

\* Labels of one group are one score, their maximum.
Regrouped(labels, groups) ==
  IF groups = <<>> THEN [i \in DOMAIN labels |-> {labels[i]}]
  ELSE [g \in DOMAIN groups |->
          LET before == Total(SubSeq(groups, 1, g - 1))
          IN  {labels[j] : j \in before + 1 .. before + groups[g]}]

\* What the model says at row r.
AtRow(rows, r) == {rows[k].of : k \in {j \in DOMAIN rows :
                     rows[j].mark >= 0 /\ Start(rows, j) + rows[j].mark = r}}

\* decision_read()
Read(p) ==
  IF p.labels # <<>> THEN Regrouped(p.labels, p.groups)
  ELSE [i \in DOMAIN p.spans |-> {p.spans[i]}] \o [i \in DOMAIN p.markers |-> AtRow(p.rows, p.markers[i])]

-----------------------------------------------------------------------------
(***************************************************************************)
(* The route.                                                              *)
(***************************************************************************)

First == [question |-> 1, variant |-> 0]

Refuse(why) == /\ pc' = "refused" /\ refused' = why
               /\ UNCHANGED <<conf, req, at, prompts, scores, i_prompt, i_score, answers>>

\* The body is refused (400, 501), or parsed.
Parse ==
  /\ pc = "parse"
  /\ \/ Refuse("body")
     \/ /\ req' \in Requests(Family)
        /\ pc' = "fill"
        /\ UNCHANGED <<conf, at, prompts, scores, i_prompt, i_score, answers, refused>>

\* One prompt for each variant of each question, or one for all of them.
Fill ==
  /\ pc = "fill"
  /\ LET q == at.question
         asked == req.questions[q]
         prompt == FillPrompt(q, at.variant)
         lastVariant == at.variant + 1 = NVariants(asked)
         last == IsJoint \/ (lastVariant /\ q = Len(req.questions))
     IN  IF MediaRefused THEN Refuse("media")
         ELSE IF OptionsLost(q, prompt) THEN Refuse("room")
         ELSE /\ prompts' = Append(prompts, prompt)
              /\ at' = IF last THEN First
                       ELSE IF lastVariant THEN [question |-> q + 1, variant |-> 0]
                       ELSE [at EXCEPT !.variant = @ + 1]
              /\ pc' = IF last THEN "decide" ELSE "fill"
              /\ UNCHANGED <<conf, req, scores, i_prompt, i_score, answers, refused>>

\* decide() fails, or evaluates each prompt from its own tokens (DecisionCache).
Decide ==
  /\ pc = "decide"
  /\ \/ Refuse("decide")
     \/ /\ scores' = [i \in DOMAIN prompts |-> Read(prompts[i])]
        /\ pc' = "answer"
        /\ UNCHANGED <<conf, req, at, prompts, i_prompt, i_score, answers, refused>>

\* The scores of the question: its part of the one row, or a row for each variant.
Taken(asked) ==
  IF IsJoint THEN <<SubSeq(scores[1], i_score + 1, i_score + Len(asked.options))>>
  ELSE SubSeq(scores, i_prompt, i_prompt + NVariants(asked) - 1)

\* Too few scores, of one question or all.
Mismatch(asked) ==
  \/ IsJoint /\ i_score + Len(asked.options) > Len(scores[1])
  \/ \E v \in DOMAIN Taken(asked) : Len(Taken(asked)[v]) # NOutputs(asked)

\* Mutant: every variant's scores are taken in the order of the options.
PlacedAsShown(v, n, i) == i

\* Where the score of option i is in variant v: the second is in the reverse order.
Placed(v, n, i) == IF v = 1 THEN i ELSE n + 1 - i

\* format_answer(): the average over the variants.
Formatted(asked) ==
  LET n == NOutputs(asked)
      taken == Taken(asked)
  IN  [i \in 1 .. n |-> UNION {taken[v][Placed(v, n, i)] : v \in DOMAIN taken}]

\* One question; a head that returned NaN has no answer.
Answer ==
  /\ pc = "answer"
  /\ LET asked == req.questions[at.question]
         last == at.question = Len(req.questions)
     IN  \/ Refuse("nan")
         \/ Mismatch(asked) /\ Refuse("mismatch")
         \/ /\ ~Mismatch(asked)
            /\ answers' = Append(answers, Formatted(asked))
            /\ i_prompt' = IF IsJoint THEN i_prompt ELSE i_prompt + NVariants(asked)
            /\ i_score' = IF IsJoint THEN i_score + Len(asked.options) ELSE i_score
            /\ at' = IF last THEN First ELSE [at EXCEPT !.question = @ + 1]
            /\ pc' = IF last THEN "done" ELSE "answer"
            /\ UNCHANGED <<conf, req, prompts, scores, refused>>

Next == Parse \/ Fill \/ Decide \/ Answer

Spec == Init /\ [][Next]_vars

-----------------------------------------------------------------------------

(***************************************************************************)
(* The probability of an option is made from what the model said of that   *)
(* option of that question, once in each variant, and of nothing else:     *)
(* through the reversed second order, the label groups, the cut options,   *)
(* the media before them and the running indices of the route.             *)
(***************************************************************************)
OwnScores ==
  \A q \in DOMAIN answers :
    answers[q] = [i \in 1 .. NOutputs(req.questions[q]) |->
                    {<<q, v, i>> : v \in 0 .. NVariants(req.questions[q]) - 1}]

(***************************************************************************)
(* The prompt maker, decide() and format_answer() count the outputs of a   *)
(* question alike: no request ends in "decision result does not match".    *)
(***************************************************************************)
CountsAgree == refused # "mismatch"

(***************************************************************************)
(* lfm2-d1-omni gives the state the room that is left, all of it and no    *)
(* more: a request is refused for its options only if they do not fit      *)
(* without any state, and a state is cut only when the prompt is full.     *)
(***************************************************************************)
StateGivesWay ==
  Family = "omni" =>
    /\ refused = "room" => RowsOf(OmniAround(at.question)) > OmniMax
    /\ \A k \in DOMAIN prompts :
         RowsOf(prompts[k].rows) = req.media.rows + Least(OmniMax, RowsOf(OmniAround(k)) + req.state)
=============================================================================
