------------------------ MODULE DecisionCache_proofs ------------------------
(***************************************************************************)
(* Proofs about DecisionCache, for any vocabulary, batch and length of     *)
(* prompts.  What the properties need besides themselves is Sharing: while *)
(* prompts share a prefix, seq 0 holds a prefix all of them begin with,    *)
(* and none of them reads from inside it.                                  *)
(***************************************************************************)
EXTENDS DecisionCache, SequenceTheorems, WellFoundedInduction, TLAPS

Reads == [ctx : Seq(Tokens), tokens : Seq(Tokens), from : Int, first : Int]

TypeOK ==
    /\ conf \in Configs
    /\ pc \in {"idle", "prefix", "shared", "each"}
    /\ next \in Nat /\ shared \in Nat
    /\ cache \in Seq(Tokens) /\ seq0 \in Seq(Tokens) /\ seq1 \in Seq(Tokens)
    /\ read \in Reads
    /\ pc # "idle" => call \in Calls /\ next \in DOMAIN call.prompts

\* A prefix of n tokens all prompts of the request share.
Common(n) ==
    \A i \in DOMAIN call.prompts :
        n <= Own(call.prompts[i]) /\ Agree(First, call.prompts[i].tokens, n)

Sharing ==
    /\ pc \in {"prefix", "shared"} => CanContinue /\ shared > 0 /\ Common(shared)
    /\ pc = "shared" => cache = SubSeq(First, 1, shared)

Inv == TypeOK /\ Sharing /\ KeptExactly /\ SeesItsPrompt /\ ReadsLastBatch

-----------------------------------------------------------------------------
(* Numbers and prompts.                                                    *)

\* A set of numbers below a bound has its maximum.
LEMMA MaxIn ==
    ASSUME NEW n \in Nat, NEW S \in SUBSET (0 .. n), S # {}
    PROVE  MaxOf(S) \in S /\ \A x \in S : x <= MaxOf(S)
<1>. DEFINE T == {n - x : x \in S}
            R == {ss \in Nat \X Nat : ss[1] < ss[2]}
<1>1. T \subseteq Nat /\ T # {}
    <2>1. \A x \in S : n - x \in Nat /\ n - x \in T
        OBVIOUS
    <2>. QED BY <2>1
<1>2. PICK d \in T : \A e \in T : ~(<<e, d>> \in R)
    <2>1. IsWellFoundedOn(R, Nat)
        BY NatLessThanWellFounded DEF OpToRel
    <2>. HIDE DEF T, R
    <2>. QED BY <1>1, <2>1, WFMin
<1>3. PICK m \in S : d = n - m
    BY <1>2
<1>4. \A x \in S : x <= m
    <2>. SUFFICES ASSUME NEW x \in S PROVE x <= m
        OBVIOUS
    <2>1. n - x \in T /\ n - x \in Nat /\ d \in Nat
        BY <1>3
    <2>2. ~(n - x < d)
        BY <1>2, <2>1
    <2>. QED BY <1>3, <2>2
<1>. QED BY <1>4 DEF MaxOf

\* The larger, the smaller of two numbers.
LEMMA OfTwo ==
    ASSUME NEW i \in Int, NEW j \in Int
    PROVE  /\ MaxOf({i, j}) = IF i >= j THEN i ELSE j
           /\ MinOf({i, j}) = IF i <= j THEN i ELSE j
<1>. DEFINE big == IF i >= j THEN i ELSE j
            small == IF i <= j THEN i ELSE j
<1>1. \A m \in {i, j} : (\A y \in {i, j} : m >= y) <=> m = big
    OBVIOUS
<1>2. big \in {i, j} /\ small \in {i, j}
    OBVIOUS
<1>3. \A m \in {i, j} : (\A y \in {i, j} : m <= y) <=> m = small
    OBVIOUS
<1>. HIDE DEF big, small
<1>4. MaxOf({i, j}) = big
    BY <1>1, <1>2 DEF MaxOf
<1>5. MinOf({i, j}) = small
    BY <1>2, <1>3 DEF MinOf
<1>. QED BY <1>4, <1>5 DEF big, small

\* A prompt has a token, and takes from a prefix neither the last one nor what it reads.
LEMMA PromptType ==
    ASSUME NEW p \in Prompts
    PROVE  /\ p.tokens \in Seq(Tokens) /\ Len(p.tokens) \in Nat \ {0}
           /\ Len(p.tokens) <= MaxPrompt
           /\ p.first \in Int /\ p.first >= -1 /\ p.first < Len(p.tokens)
           /\ Own(p) \in Nat /\ Own(p) < Len(p.tokens)
           /\ p.first >= 0 => Own(p) <= p.first
<1>. USE DecisionAssumption
<1>1. PICK n \in 1 .. MaxPrompt : p \in [tokens : [1 .. n -> Tokens], first : -1 .. n - 1]
    BY DEF Prompts
<1>2. p.tokens \in Seq(Tokens) /\ Len(p.tokens) = n
    BY <1>1
<1>3. p.first \in -1 .. n - 1
    BY <1>1
<1>4. MinOf({p.first, n - 1}) = IF p.first <= n - 1 THEN p.first ELSE n - 1
    <2>1. p.first \in Int /\ n - 1 \in Int
        BY <1>3
    <2>. QED BY <2>1, OfTwo
<1>. QED BY <1>1, <1>2, <1>3, <1>4 DEF Own

\* A request has prompts.
LEMMA CallType ==
    ASSUME NEW c \in Calls
    PROVE  /\ c.prompts \in Seq(Prompts) /\ Len(c.prompts) \in Nat \ {0}
           /\ DOMAIN c.prompts = 1 .. Len(c.prompts)
           /\ \A i \in DOMAIN c.prompts : c.prompts[i] \in Prompts
<1>. USE DecisionAssumption
<1>1. PICK n \in 1 .. MaxPrompts : c.prompts \in [1 .. n -> Prompts]
    BY DEF Calls
<1>. QED BY <1>1

\* Sequences agree on nothing at all, and with themselves.
LEMMA Agreement ==
    ASSUME NEW p \in Seq(Tokens), NEW q \in Seq(Tokens)
    PROVE  Agree(p, q, 0) /\ Agree(p, p, Len(p))
<1>1. SubSeq(p, 1, 0) = << >> /\ SubSeq(q, 1, 0) = << >>
    BY SubSeqEmpty
<1>. QED BY <1>1, LenProperties DEF Agree

\* A prefix and what comes after it are the whole.
LEMMA Continued ==
    ASSUME NEW t \in Seq(Tokens), NEW n \in 0 .. Len(t), NEW m \in n .. Len(t)
    PROVE  /\ SubSeq(t, 1, n) \o SubSeq(t, n + 1, m) = SubSeq(t, 1, m)
           /\ SubSeq(t, 1, n) \in Seq(Tokens)
           /\ SubSeq(t, 1, 0) = << >>
           /\ SubSeq(t, 1, Len(t)) = t
<1>1. SubSeq(t, 1, n) \o SubSeq(t, n + 1, m) = SubSeq(t, 1, m)
    BY ConcatAdjacentSubSeq, LenProperties
<1>2. SubSeq(t, 1, n) \in Seq(Tokens)
    BY SubSeqProperties, LenProperties
<1>. QED BY <1>1, <1>2, SubSeqEmpty, SubSeqFull

-----------------------------------------------------------------------------
(* What is kept.                                                           *)

\* The tokens that are kept are the first of the prompt, and seq 0 holds no others.
LEMMA KeepsPrefix ==
    ASSUME TypeOK, KeptExactly, NEW t \in Seq(Tokens), NEW n \in Nat, n <= Len(t)
    PROVE  /\ Kept(t, n) \in 0 .. n
           /\ Cut(t, n) = SubSeq(t, 1, Kept(t, n))
           /\ ~conf.mem => Kept(t, n) = 0
<1>. DEFINE S == {k \in 0 .. Len(cache) : k <= n /\ Agree(cache, t, k)}
            k == Matching(t, n)
<1>0. cache \in Seq(Tokens) /\ Len(cache) \in Nat /\ Len(t) \in Nat /\ seq0 = cache
    BY LenProperties DEF TypeOK, KeptExactly
<1>1. k \in 0 .. n /\ k <= Len(cache) /\ Agree(cache, t, k) /\ (~conf.mem => k = 0)
    <2>1. CASE conf.mem /\ conf.reuse
        <3>1. Agree(cache, t, 0)
            BY <1>0, Agreement
        <3>2. 0 \in S /\ S \in SUBSET (0 .. Len(cache))
            BY <1>0, <3>1
        <3>3. MaxOf(S) \in S
            BY <1>0, <3>2, MaxIn
        <3>. QED BY <1>0, <2>1, <3>3 DEF Matching
    <2>2. CASE ~(conf.mem /\ conf.reuse)
        BY <1>0, <2>2, Agreement DEF Matching
    <2>. QED BY <2>1, <2>2
<1>2. SubSeq(cache, 1, k) = SubSeq(t, 1, k)
    BY <1>1 DEF Agree
<1>3. SubSeq(cache, 1, Len(cache)) = cache /\ SubSeq(t, 1, 0) = << >>
    BY <1>0, SubSeqFull, SubSeqEmpty
<1>. HIDE DEF k
<1>4. Kept(t, n) = IF k < Len(cache) /\ ~CanRemove(k) THEN 0 ELSE k
    BY DEF Kept, k
<1>5. CASE Kept(t, n) = 0
    BY <1>3, <1>5, <1>1 DEF Cut
<1>6. CASE Kept(t, n) # 0
    <2>1. Kept(t, n) = k /\ k # 0 /\ conf.mem /\ (k < Len(cache) => CanRemove(k))
        BY <1>1, <1>4, <1>6
    <2>2. CASE k < Len(cache)
        BY <1>0, <1>1, <1>2, <2>1, <2>2 DEF Cut
    <2>3. CASE k = Len(cache)
        BY <1>0, <1>1, <1>2, <1>3, <2>1, <2>3 DEF Cut
    <2>. QED BY <1>0, <1>1, <2>1, <2>2, <2>3
<1>. QED BY <1>1, <1>5, <1>6

\* The batch that is read begins within the prompt, at what is read or before it.
LEMMA Batch ==
    ASSUME TypeOK, NEW p \in Prompts, NEW from \in 0 .. Own(p)
    PROVE  /\ OutFrom(p, from) \in Int /\ OutFrom(p, from) < Len(p.tokens)
           /\ p.first >= 0 => OutFrom(p, from) <= p.first
           /\ ~conf.causal => OutFrom(p, from) = from
<1>1. MaxOf({from, p.first}) = (IF from >= p.first THEN from ELSE p.first)
    BY PromptType, OfTwo
<1>2. MaxOf({from, Len(p.tokens) - 1})
        = (IF from >= Len(p.tokens) - 1 THEN from ELSE Len(p.tokens) - 1)
    BY PromptType, OfTwo
<1>3. /\ from \in Int /\ from >= 0 /\ from < Len(p.tokens) /\ Len(p.tokens) \in Int
      /\ p.first \in Int /\ p.first < Len(p.tokens)
      /\ p.first >= 0 => from <= p.first
    BY PromptType
<1>4. CASE ~conf.causal
    BY <1>3, <1>4 DEF OutFrom
<1>5. CASE conf.causal /\ p.first >= 0
    <2>1. OutFrom(p, from) = p.first
        <3>1. OutFrom(p, from) = MaxOf({from, p.first})
            <4>1. (IF p.first >= 0 THEN p.first ELSE Len(p.tokens) - 1) = p.first
                BY <1>5
            <4>. QED BY <1>5, <4>1, Zenon DEF OutFrom
        <3>. QED BY <1>1, <1>3, <1>5, <3>1
    <2>. QED BY <1>3, <1>5, <2>1
<1>6. CASE conf.causal /\ ~(p.first >= 0)
    <2>1. OutFrom(p, from) = Len(p.tokens) - 1
        <3>1. OutFrom(p, from) = MaxOf({from, Len(p.tokens) - 1})
            <4>1. (IF p.first >= 0 THEN p.first ELSE Len(p.tokens) - 1) = Len(p.tokens) - 1
                BY <1>6
            <4>. QED BY <1>6, <4>1, Zenon DEF OutFrom
        <3>. QED BY <1>2, <1>3, <3>1
    <2>. QED BY <1>3, <1>6, <2>1
<1>. QED BY <1>4, <1>5, <1>6

-----------------------------------------------------------------------------
(* The steps.                                                              *)

\* The end of a request, and the step to its next prompt.
LEMMA Over ==
    ASSUME TypeOK
    PROVE  /\ Return => conf' = conf /\ pc' = "idle" /\ next' \in Nat /\ shared' \in Nat
           /\ pc # "idle" /\ Advance =>
                /\ conf' = conf /\ next' \in Nat /\ shared' \in Nat
                /\ \/ pc' = "idle" /\ next = Len(call.prompts)
                   \/ /\ pc' = pc /\ call' = call /\ shared' = shared
                      /\ next # Len(call.prompts) /\ next' \in DOMAIN call.prompts
<1>1. ASSUME pc # "idle" PROVE next \in Nat /\ next <= Len(call.prompts)
                                /\ DOMAIN call.prompts = 1 .. Len(call.prompts)
                                /\ Len(call.prompts) \in Nat
    BY <1>1, CallType DEF TypeOK
<1>. QED BY <1>1 DEF Return, Advance, TypeOK

\* What all prompts share is what the largest such prefix is.
LEMMA SharedPrefix ==
    ASSUME NEW c \in Calls
    PROVE  /\ Shared(c) \in Nat
           /\ Shared(c) > 0 =>
                /\ CanContinue
                /\ \A i \in DOMAIN c.prompts :
                     /\ Shared(c) <= Own(c.prompts[i])
                     /\ Agree(c.prompts[1].tokens, c.prompts[i].tokens, Shared(c))
<1>. DEFINE S == {n \in 0 .. MaxPrompt : \A i \in DOMAIN c.prompts :
                   n <= Own(c.prompts[i]) /\ Agree(c.prompts[1].tokens, c.prompts[i].tokens, n)}
<1>1. CASE CanContinue /\ Len(c.prompts) > 1 /\ c.kind = "text"
    <2>1. \A i \in DOMAIN c.prompts :
            0 <= Own(c.prompts[i]) /\ Agree(c.prompts[1].tokens, c.prompts[i].tokens, 0)
        <3>1. c.prompts[1] \in Prompts
            BY CallType
        <3>2. \A i \in DOMAIN c.prompts : c.prompts[i] \in Prompts
            BY CallType
        <3>. QED BY <3>1, <3>2, PromptType, Agreement
    <2>2. MaxPrompt \in Nat
        BY DecisionAssumption
    <2>3. 0 \in S /\ S \in SUBSET (0 .. MaxPrompt)
        BY <2>1, <2>2
    <2>4. MaxOf(S) \in S
        BY <2>2, <2>3, MaxIn
    <2>5. Shared(c) = MaxOf(S)
        BY <1>1 DEF Shared
    <2>6. Shared(c) \in S
        BY <2>4, <2>5
    <2>. QED BY <1>1, <2>2, <2>6
<1>2. CASE ~(CanContinue /\ Len(c.prompts) > 1 /\ c.kind = "text")
    BY <1>2 DEF Shared
<1>. QED BY <1>1, <1>2

\* The prefix of a request whose prompts share one.
LEMMA PrefixType ==
    ASSUME TypeOK, pc # "idle", Common(shared)
    PROVE  /\ First \in Seq(Tokens) /\ shared <= Len(First)
           /\ \A i \in DOMAIN call.prompts :
                /\ call.prompts[i] \in Prompts
                /\ shared \in 0 .. Own(call.prompts[i])
                /\ SubSeq(First, 1, shared) = SubSeq(call.prompts[i].tokens, 1, shared)
<1>1. 1 \in DOMAIN call.prompts /\ \A i \in DOMAIN call.prompts : call.prompts[i] \in Prompts
    BY CallType DEF TypeOK
<1>2. First \in Seq(Tokens) /\ Own(call.prompts[1]) < Len(First) /\ Own(call.prompts[1]) \in Nat
      /\ Len(First) \in Nat
    BY <1>1, PromptType DEF First
<1>3. \A i \in DOMAIN call.prompts : shared <= Own(call.prompts[i]) /\ Own(call.prompts[i]) \in Nat
    BY <1>1, PromptType DEF Common
<1>. QED BY <1>1, <1>2, <1>3 DEF Common, Agree, TypeOK

\* What was read is the prompt, in one batch.
ReadWell(r) ==
    /\ r.ctx = r.tokens
    /\ r # Nothing =>
        /\ r.from < Len(r.tokens)
        /\ r.first >= 0 => r.from <= r.first
        /\ ~conf.causal => r.from = 0

\* A prompt read behind its own first tokens.
LEMMA Reading ==
    ASSUME TypeOK, NEW p \in Prompts, NEW n \in 0 .. Own(p), NEW held,
           held = SubSeq(p.tokens, 1, n), ~conf.causal => n = 0
    PROVE  LET r == Scores(held, p, n, OutFrom(p, n)) IN
             /\ r \in Reads /\ ReadWell(r)
             /\ conf.mem => r.ctx = p.tokens
             /\ Extended(held, p, n) = p.tokens
<1>1. /\ p.tokens \in Seq(Tokens) /\ Len(p.tokens) \in Nat /\ p.first \in Int
      /\ Own(p) \in Nat /\ Own(p) < Len(p.tokens)
    BY PromptType
<1>2. Extended(held, p, n) = p.tokens
    <2>1. n \in 0 .. Len(p.tokens) /\ Len(p.tokens) \in n .. Len(p.tokens)
        BY <1>1
    <2>2. SubSeq(p.tokens, 1, n) \o SubSeq(p.tokens, n + 1, Len(p.tokens))
            = SubSeq(p.tokens, 1, Len(p.tokens))
        BY <1>1, <2>1, Continued
    <2>. QED BY <1>1, <2>2, SubSeqFull DEF Extended
<1>3. /\ OutFrom(p, n) \in Int /\ OutFrom(p, n) < Len(p.tokens)
      /\ p.first >= 0 => OutFrom(p, n) <= p.first
      /\ ~conf.causal => OutFrom(p, n) = 0
    BY Batch
<1>4. ~conf.mem => Extended(<<>>, p, OutFrom(p, n)) = p.tokens
    <2>. SUFFICES ASSUME ~conf.mem PROVE Extended(<<>>, p, 0) = p.tokens
        BY <1>3 DEF TypeOK, Configs
    <2>1. 0 \in 0 .. Own(p) /\ SubSeq(p.tokens, 1, 0) = <<>>
        BY <1>1, Continued
    <2>. QED BY <1>1, <2>1, Continued DEF Extended
<1>. QED BY <1>1, <1>2, <1>3, <1>4 DEF Scores, Reads, ReadWell

\* Begin starts between two requests, with a prefix all prompts share.
LEMMA BeginKept == ASSUME Inv, Begin PROVE Inv'
<1>1. /\ conf' = conf /\ cache' = cache /\ seq0' = seq0 /\ seq1' = seq1 /\ seq1 = <<>>
      /\ call' \in Calls /\ shared' = Shared(call') /\ next' = 1 /\ read' = Nothing
      /\ pc' = IF shared' > 0 THEN "prefix" ELSE "each"
    BY DEF Begin, Inv, KeptExactly
<1>2. TypeOK'
    BY <1>1, CallType, SharedPrefix DEF Inv, TypeOK, Nothing, Reads
<1>3. Sharing'
    <2>. SUFFICES ASSUME shared' > 0 PROVE (CanContinue /\ Common(shared))'
        BY <1>1 DEF Sharing
    <2>1. /\ CanContinue
          /\ \A i \in DOMAIN call'.prompts :
                     /\ shared' <= Own(call'.prompts[i])
                     /\ Agree(call'.prompts[1].tokens, call'.prompts[i].tokens, shared')
        BY <1>1, SharedPrefix
    <2>. QED BY <1>1, <2>1 DEF Common, First, CanContinue
<1>4. KeptExactly'
    BY <1>1 DEF Inv, KeptExactly, CanContinue
<1>5. SeesItsPrompt' /\ ReadsLastBatch'
    BY <1>1 DEF SeesItsPrompt, ReadsLastBatch, Nothing
<1>. QED BY <1>2, <1>3, <1>4, <1>5 DEF Inv

\* A request that ends: what was read stays, or is read well; both copies go together.
LEMMA EndKept ==
    ASSUME Inv, conf' = conf, pc' = "idle", next' \in Nat, shared' \in Nat,
           read' \in Reads, ReadWell(read'),
           cache' \in Seq(Tokens), seq0' = cache', seq1' = <<>>,
           ~CanContinue => cache' = <<>>
    PROVE  Inv'
<1>1. TypeOK'
    BY DEF Inv, TypeOK
<1>2. Sharing' /\ KeptExactly'
    BY DEF Inv, Sharing, KeptExactly, CanContinue
<1>3. SeesItsPrompt' /\ ReadsLastBatch'
    BY DEF ReadWell, SeesItsPrompt, ReadsLastBatch
<1>. QED BY <1>1, <1>2, <1>3 DEF Inv

\* What was read before was read well.
LEMMA ReadSoFar ==
    ASSUME Inv
    PROVE  /\ TypeOK /\ read \in Reads /\ ReadWell(read)
           /\ cache \in Seq(Tokens) /\ seq0 = cache /\ (~CanContinue => cache = <<>>)
           /\ pc # "shared" => seq1 = <<>>
BY DEF Inv, TypeOK, ReadWell, SeesItsPrompt, ReadsLastBatch, KeptExactly

\* The prefix is in seq 0 when the first of the prompts runs.
LEMMA PrefixKept == ASSUME Inv, Prefix PROVE Inv'
<1>. DEFINE n == Kept(First, shared)
<1>1. TypeOK /\ KeptExactly /\ pc = "prefix" /\ CanContinue /\ Common(shared) /\ shared \in Nat
    BY DEF Inv, Prefix, Sharing, TypeOK
<1>2. First \in Seq(Tokens) /\ shared <= Len(First)
    BY <1>1, PrefixType
<1>3. n \in 0 .. shared /\ Cut(First, shared) = SubSeq(First, 1, n)
    BY <1>1, <1>2, KeepsPrefix
<1>4. Len(First) \in Nat
    BY <1>2, LenProperties
<1>5. SubSeq(First, 1, n) \o SubSeq(First, n + 1, shared) = SubSeq(First, 1, shared)
      /\ SubSeq(First, 1, shared) \in Seq(Tokens)
    <2>1. n \in 0 .. Len(First) /\ shared \in n .. Len(First) /\ shared \in 0 .. Len(First)
          /\ Len(First) \in shared .. Len(First)
        BY <1>1, <1>2, <1>3, <1>4
    <2>. HIDE DEF n
    <2>. QED BY <1>2, <2>1, Continued
<1>6. /\ seq0' = SubSeq(First, 1, shared) /\ cache' = SubSeq(First, 1, shared)
      /\ pc' = "shared"
      /\ conf' = conf /\ call' = call /\ next' = next /\ shared' = shared
      /\ seq1' = seq1 /\ read' = read
    BY <1>3, <1>5 DEF Prefix
<1>7. TypeOK'
    BY <1>1, <1>5, <1>6 DEF TypeOK
<1>8. Sharing'
    BY <1>1, <1>6 DEF Inv, Sharing, Common, First, CanContinue
<1>9. KeptExactly' /\ SeesItsPrompt' /\ ReadsLastBatch'
    BY <1>1, <1>6 DEF Inv, KeptExactly, SeesItsPrompt, ReadsLastBatch, CanContinue
<1>. QED BY <1>7, <1>8, <1>9 DEF Inv

\* A failed prefix, a prompt that does not fit or fails: nothing is kept.
LEMMA FailureKept ==
    ASSUME Inv, PrefixFails \/ SharedPromptFails \/ PromptFails \/ MediaPromptFails
    PROVE  Inv'
<1>1. TypeOK /\ Return
    BY DEF PrefixFails, SharedPromptFails, PromptFails, MediaPromptFails, Inv
<1>2. conf' = conf /\ pc' = "idle" /\ next' \in Nat /\ shared' \in Nat
    BY <1>1, Over
<1>3. <<>> \in Seq(Tokens)
    OBVIOUS
<1>4. read' = read /\ seq1' = <<>> /\ seq0' = cache' /\ cache' \in {cache, <<>>}
    BY ReadSoFar DEF PrefixFails, SharedPromptFails, PromptFails, MediaPromptFails, Each, Dropped
<1>. QED BY <1>2, <1>3, <1>4, ReadSoFar, EndKept

\* A prompt that continues the shared prefix is read from the copy of it.
LEMMA SharedPromptKept == ASSUME Inv, SharedPrompt PROVE Inv'
<1>. DEFINE p == call.prompts[next]
            r == Scores(Copied, p, shared, OutFrom(p, shared))
<1>1. /\ TypeOK /\ pc = "shared" /\ CanContinue /\ Common(shared)
      /\ cache = SubSeq(First, 1, shared) /\ next \in DOMAIN call.prompts
    BY DEF Inv, SharedPrompt, Sharing, TypeOK
<1>2. /\ p \in Prompts /\ shared \in 0 .. Own(p)
      /\ cache = SubSeq(p.tokens, 1, shared)
    BY <1>1, PrefixType
<1>3. Copied = SubSeq(p.tokens, 1, shared)
    BY <1>2, ReadSoFar DEF Copied
<1>4. conf.causal /\ conf.mem
    BY <1>1 DEF CanContinue
<1>5. r \in Reads /\ ReadWell(r) /\ Extended(Copied, p, shared) = p.tokens
    <2>. HIDE DEF p
    <2>. QED BY <1>1, <1>2, <1>3, <1>4, Reading
<1>6. /\ read' = r /\ cache' = cache /\ seq0' = seq0 /\ Advance
      /\ seq1' = IF next = Len(call.prompts) THEN <<>> ELSE Extended(Copied, p, shared)
    BY DEF SharedPrompt
<1>. HIDE DEF r
<1>7. CASE next = Len(call.prompts)
    <2>1. conf' = conf /\ pc' = "idle" /\ next' \in Nat /\ shared' \in Nat
        BY <1>1, <1>6, <1>7, Over DEF Advance
    <2>. QED BY <1>5, <1>6, <1>7, <2>1, ReadSoFar, EndKept
<1>8. CASE next # Len(call.prompts)
    <2>1. /\ conf' = conf /\ pc' = pc /\ call' = call /\ shared' = shared
          /\ next' \in Nat /\ next' \in DOMAIN call.prompts
        BY <1>1, <1>6, <1>8, Over
    <2>2. seq1' = p.tokens /\ p.tokens \in Seq(Tokens)
        BY <1>2, <1>5, <1>6, <1>8, PromptType
    <2>3. TypeOK'
        BY <1>1, <1>5, <1>6, <2>1, <2>2 DEF TypeOK
    <2>4. Sharing'
        BY <1>1, <1>6, <2>1 DEF Inv, Sharing, Common, First, CanContinue
    <2>5. KeptExactly'
        BY <1>1, <1>6, <2>1, ReadSoFar DEF KeptExactly, CanContinue
    <2>6. SeesItsPrompt' /\ ReadsLastBatch'
        BY <1>5, <1>6, <2>1 DEF ReadWell, SeesItsPrompt, ReadsLastBatch
    <2>. QED BY <2>3, <2>4, <2>5, <2>6 DEF Inv
<1>. QED BY <1>7, <1>8

\* The next prompt of a request whose prompts run on their own, or its end.
LEMMA EachKept ==
    ASSUME Inv, pc = "each", Advance, seq1' = seq1,
           read' \in Reads, ReadWell(read'),
           cache' \in Seq(Tokens), seq0' = cache', ~CanContinue => cache' = <<>>
    PROVE  Inv'
<1>1. TypeOK /\ seq1 = <<>>
    BY ReadSoFar
<1>2. CASE pc' = "idle"
    BY <1>1, <1>2, Over, EndKept
<1>3. CASE pc' # "idle"
    <2>1. /\ conf' = conf /\ pc' = pc /\ call' = call /\ shared' = shared
          /\ next' \in Nat /\ next' \in DOMAIN call.prompts
        BY <1>1, <1>3, Over
    <2>2. TypeOK'
        BY <1>1, <2>1 DEF TypeOK
    <2>3. Sharing' /\ KeptExactly'
        BY <1>1, <2>1 DEF Sharing, KeptExactly, CanContinue
    <2>4. SeesItsPrompt' /\ ReadsLastBatch'
        BY <2>1 DEF ReadWell, SeesItsPrompt, ReadsLastBatch
    <2>. QED BY <2>2, <2>3, <2>4 DEF Inv
<1>. QED BY <1>2, <1>3

\* A prompt of its own continues what was kept, and is kept.
LEMMA PromptKept == ASSUME Inv, Prompt PROVE Inv'
<1>. DEFINE p == call.prompts[next]
            n == Kept(p.tokens, Reusable(p))
            held == Cut(p.tokens, Reusable(p))
            r == Scores(held, p, n, OutFrom(p, n))
<1>1. /\ TypeOK /\ KeptExactly /\ pc = "each" /\ p \in Prompts
    BY CallType DEF Inv, Prompt, Each, TypeOK
<1>. HIDE DEF p
<1>2. /\ p.tokens \in Seq(Tokens) /\ Len(p.tokens) \in Nat \ {0} /\ p.first \in Int
      /\ p.first < Len(p.tokens) /\ Own(p) \in Nat /\ Own(p) < Len(p.tokens)
    BY <1>1, PromptType
<1>3. Reusable(p) \in 0 .. Own(p) /\ (~CanContinue => Reusable(p) = 0)
    <2>1. MinOf({p.first, Len(p.tokens) - 1}) =
            (IF p.first <= Len(p.tokens) - 1 THEN p.first ELSE Len(p.tokens) - 1)
        <3>1. Len(p.tokens) - 1 \in Int
            BY <1>2
        <3>. QED BY <1>2, <3>1, OfTwo
    <2>2. Own(p) = IF p.first >= 0 THEN p.first ELSE Len(p.tokens) - 1
        BY <1>2, <2>1 DEF Own
    <2>. QED BY <1>2, <2>2 DEF Reusable
<1>4. n \in 0 .. Reusable(p) /\ held = SubSeq(p.tokens, 1, n)
    BY <1>1, <1>2, <1>3, KeepsPrefix
<1>5. n \in 0 .. Own(p) /\ (~conf.causal => n = 0)
    BY <1>2, <1>3, <1>4 DEF CanContinue
<1>6. r \in Reads /\ ReadWell(r) /\ (conf.mem => r.ctx = p.tokens)
    <2>. HIDE DEF n, held
    <2>. QED BY <1>1, <1>4, <1>5, Reading
<1>7. /\ seq1' = seq1 /\ read' = r /\ Advance
      /\ IF CanContinue THEN cache' = p.tokens /\ seq0' = read'.ctx
         ELSE cache' = <<>> /\ seq0' = <<>>
    BY DEF Prompt, Each, p
<1>. HIDE DEF r
<1>8. cache' \in Seq(Tokens) /\ seq0' = cache' /\ (~CanContinue => cache' = <<>>)
    <2>1. CASE CanContinue
        <3>1. conf.mem
            BY <2>1 DEF CanContinue
        <3>. QED BY <1>2, <1>6, <1>7, <2>1, <3>1
    <2>2. CASE ~CanContinue
        <3>1. <<>> \in Seq(Tokens)
            OBVIOUS
        <3>. QED BY <1>7, <2>2, <3>1
    <2>. QED BY <2>1, <2>2
<1>. QED BY <1>1, <1>6, <1>7, <1>8, EachKept

\* A prompt with media is evaluated from the start, and not kept.
LEMMA MediaPromptKept == ASSUME Inv, MediaPrompt PROVE Inv'
<1>. DEFINE p == call.prompts[next]
            out == IF ~conf.causal \/ ~conf.mem THEN 0 ELSE OutFrom(p, 0)
            r == Scores(<<>>, p, 0, out)
<1>1. /\ TypeOK /\ pc = "each" /\ p \in Prompts
    BY CallType DEF Inv, MediaPrompt, Each, TypeOK
<1>. HIDE DEF p
<1>2. /\ p.tokens \in Seq(Tokens) /\ Len(p.tokens) \in Nat \ {0} /\ p.first \in Int
      /\ 0 \in 0 .. Own(p) /\ SubSeq(p.tokens, 1, 0) = <<>>
    BY <1>1, PromptType, SubSeqEmpty
<1>3. Extended(<<>>, p, 0) = p.tokens
    BY <1>1, <1>2, Reading
<1>4. /\ OutFrom(p, 0) \in Int /\ OutFrom(p, 0) < Len(p.tokens)
      /\ p.first >= 0 => OutFrom(p, 0) <= p.first
    BY <1>1, <1>2, Batch
<1>5. /\ out \in Int /\ out < Len(p.tokens)
      /\ p.first >= 0 => out <= p.first
      /\ ~conf.causal => out = 0
      /\ ~conf.mem => out = 0
    BY <1>2, <1>4
<1>. HIDE DEF out
<1>6. r \in Reads /\ ReadWell(r)
    BY <1>2, <1>3, <1>5 DEF Scores, Reads, ReadWell
<1>7. seq1' = seq1 /\ read' = r /\ Advance /\ cache' = <<>> /\ seq0' = <<>>
    BY DEF MediaPrompt, Each, Dropped, p, out
<1>8. <<>> \in Seq(Tokens)
    OBVIOUS
<1>. HIDE DEF r
<1>. QED BY <1>1, <1>6, <1>7, <1>8, EachKept

-----------------------------------------------------------------------------
(* The theorems.                                                           *)

\* At first nothing is kept and nothing was read.
LEMMA InvInit == Init => Inv
<1>. SUFFICES ASSUME Init PROVE Inv
    OBVIOUS
<1>1. <<>> \in Seq(Tokens)
    OBVIOUS
<1>2. Nothing \in Reads /\ Nothing.ctx = Nothing.tokens
    BY <1>1 DEF Nothing, Reads
<1>. QED BY <1>1, <1>2 DEF Init, Inv, TypeOK, Sharing, KeptExactly, SeesItsPrompt, ReadsLastBatch

\* Every step of decide() keeps it.
LEMMA InvNext == Inv /\ [Next]_vars => Inv'
<1>. SUFFICES ASSUME Inv, [Next]_vars PROVE Inv'
    OBVIOUS
<1>1. CASE Next
    BY <1>1, BeginKept, PrefixKept, FailureKept, SharedPromptKept, PromptKept, MediaPromptKept
       DEF Next
<1>2. CASE UNCHANGED vars
    BY <1>2 DEF vars, Inv, TypeOK, Sharing, Common, First, CanContinue, KeptExactly, SeesItsPrompt,
       ReadsLastBatch
<1>. QED BY <1>1, <1>2

\* The inductive invariant, from the first request on.
THEOREM Invariance == Spec => []Inv
BY InvInit, InvNext, PTL DEF Spec

\* The mirror of seq 0 is seq 0, and seq 1 is empty between requests.
THEOREM MirrorExact == Spec => []KeptExactly
<1>1. Inv => KeptExactly
    BY DEF Inv
<1>. QED BY <1>1, Invariance, PTL

\* The scores of every prompt come from its own tokens.
THEOREM OwnContext == Spec => []SeesItsPrompt
<1>1. Inv => SeesItsPrompt
    BY DEF Inv
<1>. QED BY <1>1, Invariance, PTL

\* Every position that is read is in the last batch.
THEOREM LastBatchRead == Spec => []ReadsLastBatch
<1>1. Inv => ReadsLastBatch
    BY DEF Inv
<1>. QED BY <1>1, Invariance, PTL
=============================================================================
