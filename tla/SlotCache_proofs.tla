-------------------------- MODULE SlotCache_proofs --------------------------
(***************************************************************************)
(* Proofs about SlotCache, for any number of slots, tokens, window, roll-  *)
(* back, context and prompts.  Inv relates three copies of a sequence: the *)
(* memory (kv), the mirror (cache) and the prompt.  A slot at work has its *)
(* mirror exact, rows of the batch included (Exact), and its memory        *)
(* holds its prompt as far as it got (Prompted); an idle slot may have     *)
(* lost either copy as a whole (Mirroring).  A window has only left behind *)
(* a beginning of the sequence (Pruned), none of what the next token sees  *)
(* as long as the sequence was not shifted (Near).                         *)
(***************************************************************************)
EXTENDS SlotCache, SequenceTheorems, FiniteSetTheorems, WellFoundedInduction, TLAPS

Cells == Tokens \cup {Image, Gone}
States == {"IDLE", "PREFILL", "GENERATE"}

TypeOK ==
    /\ conf \in Configs
    /\ pc \in {"cancel", "admit", "decode"}
    /\ state \in [Slots -> States]
    /\ prompt \in [Slots -> Seq(Tokens)]
    /\ has_media \in [Slots -> BOOLEAN]
    /\ sampled \in [Slots -> Seq(Tokens)]
    /\ cache \in [Slots -> Seq(Tokens)]
    /\ n_past \in [Slots -> Nat]
    /\ truncated \in [Slots -> BOOLEAN]
    /\ pend \in [Slots -> Seq(Tokens)]
    /\ kv \in [Slots -> Seq(Cells)]

\* Only a window leaves positions behind, and then the first ones of k.
Pruned(k) ==
    \E g \in 0 .. Len(k) :
        /\ \A i \in 1 .. Len(k) : k[i] = Gone <=> i <= g
        /\ g > 0 => conf.mem.n_swa > 0

\* What is gone of k lies before what the next token sees.
Near(k) == \A i \in 1 .. Len(k) : k[i] = Gone => i <= Len(k) - conf.mem.n_swa + 1

\* q, the mirror, has what the memory holds and what is about to be decoded.
Exact(q, k, new) ==
    /\ Len(q) = Len(k) + Len(new)
    /\ \A i \in 1 .. Len(k) : k[i] \in {q[i], Gone}
    /\ \A i \in 1 .. Len(new) : new[i] = q[Len(k) + i]

\* What a slot is in the middle of.
Working(s) ==
    /\ state[s] = "IDLE" =>
         ~has_media[s] /\ ~truncated[s] /\ pend[s] = <<>>
    /\ state[s] = "PREFILL" =>
         /\ ~has_media[s] /\ ~truncated[s]
         /\ n_past[s] <= Len(prompt[s]) /\ Len(prompt[s]) < NCtx
    /\ state[s] = "GENERATE" => Len(sampled[s]) = 1
    /\ has_media[s] => conf.media
    /\ pc # "decode" => pend[s] = <<>>
    /\ state[s] # "IDLE" => Len(kv[s]) + Len(pend[s]) = n_past[s]

\* The mirror of a slot.
Mirroring(s) ==
    \/ has_media[s] /\ cache[s] = <<>>
    \/ ~has_media[s] /\ Exact(cache[s], kv[s], pend[s])
    \/ state[s] = "IDLE" /\ (kv[s] = <<>> \/ cache[s] = <<>>)

\* The memory of a slot at work holds its prompt as far as it got, less what is gone.
Prompted(s) ==
    state[s] # "IDLE" /\ ~has_media[s] /\ ~truncated[s] =>
        /\ \A i \in 1 .. Len(kv[s]) : i <= Len(prompt[s]) => kv[s][i] \in {prompt[s][i], Gone}
        /\ state[s] = "PREFILL" =>
             \A i \in 1 .. Len(pend[s]) : pend[s][i] = prompt[s][Len(kv[s]) + i]
        /\ state[s] = "GENERATE" => Len(kv[s]) >= Len(prompt[s])
        /\ Near(kv[s])

Local(s) == Working(s) /\ Mirroring(s) /\ Prompted(s) /\ Pruned(kv[s])

Inv == TypeOK /\ \A s \in Slots : Local(s)

-----------------------------------------------------------------------------
(* Numbers and sequences.                                                  *)

\* A set of numbers below a bound has a largest one.
LEMMA Largest ==
    ASSUME NEW n \in Nat, NEW S \in SUBSET (0 .. n), S # {}
    PROVE  \E m \in S : \A x \in S : x <= m
<1>. DEFINE T == {n - x : x \in S}
            R == {ss \in Nat \X Nat : ss[1] < ss[2]}
<1>1. T \subseteq Nat /\ T # {}
    <2>1. \A x \in S : n - x \in Nat /\ n - x \in T
        OBVIOUS
    <2>. QED BY <2>1
<1>2. PICK d \in T : \A e \in T : ~(<<e, d>> \in R)
    <2>1. IsWellFoundedOn(R, Nat)
        BY NatLessThanWellFounded DEF OpToRel
    <2>. HIDE DEF T, R
    <2>. QED BY <1>1, <2>1, WFMin
<1>3. PICK m \in S : d = n - m
    BY <1>2
<1>4. \A x \in S : x <= m
    <2>. SUFFICES ASSUME NEW x \in S PROVE x <= m
        OBVIOUS
    <2>1. n - x \in T /\ n - x \in Nat /\ d \in Nat
        BY <1>3
    <2>2. ~(n - x < d)
        BY <1>2, <2>1
    <2>. QED BY <1>3, <2>2
<1>. QED BY <1>4

\* The larger, the smaller of two numbers.
LEMMA OfTwo ==
    ASSUME NEW i \in Int, NEW j \in Int
    PROVE  /\ MaxOf({i, j}) = IF i >= j THEN i ELSE j
           /\ MinOf({i, j}) = IF i <= j THEN i ELSE j
<1>. DEFINE big == IF i >= j THEN i ELSE j
            small == IF i <= j THEN i ELSE j
<1>1. \A m \in {i, j} : (\A y \in {i, j} : m >= y) <=> m = big
    OBVIOUS
<1>2. big \in {i, j} /\ small \in {i, j}
    OBVIOUS
<1>3. \A m \in {i, j} : (\A y \in {i, j} : m <= y) <=> m = small
    OBVIOUS
<1>. HIDE DEF big, small
<1>4. MaxOf({i, j}) = big
    BY <1>1, <1>2 DEF MaxOf
<1>5. MinOf({i, j}) = small
    BY <1>2, <1>3 DEF MinOf
<1>. QED BY <1>4, <1>5 DEF big, small

\* The first n elements of a sequence.
LEMMA FirstOf ==
    ASSUME NEW S, NEW q \in Seq(S), NEW n \in 0 .. Len(q)
    PROVE  /\ SubSeq(q, 1, n) \in Seq(S) /\ Len(SubSeq(q, 1, n)) = n
           /\ \A i \in 1 .. n : SubSeq(q, 1, n)[i] = q[i]
<1>1. Len(q) \in Nat /\ \A i \in 1 .. n : q[i] \in S
    BY LenProperties
<1>. QED BY <1>1, SubSeqProperties

\* The elements of a part of a sequence.
LEMMA PartOf ==
    ASSUME NEW S, NEW q \in Seq(S), NEW m \in 1 .. Len(q) + 1, NEW n \in m - 1 .. Len(q)
    PROVE  /\ SubSeq(q, m, n) \in Seq(S) /\ Len(SubSeq(q, m, n)) = n - m + 1
           /\ \A i \in 1 .. n - m + 1 : SubSeq(q, m, n)[i] = q[m + i - 1]
<1>1. Len(q) \in Nat /\ m \in Int /\ n \in Int /\ \A i \in m .. n : q[i] \in S
    BY LenProperties
<1>. QED BY <1>1, SubSeqProperties

\* What load() settled: only a cache with a tail has a window, and no projector is shifted.
LEMMA ConfType ==
    ASSUME TypeOK
    PROVE  /\ conf.mem.tail \in BOOLEAN /\ conf.media \in BOOLEAN
           /\ conf.mem.n_swa \in Nat /\ conf.mem.n_swa # 1
           /\ conf.mem.rs \in Nat
           /\ ~conf.mem.tail => conf.mem.n_swa = 0
           /\ conf.shift => ~conf.media
           /\ conf.reuse \in Nat
<1>1. PICK c \in [mem : Memories, media : BOOLEAN, reuse : Reuses, shift : BOOLEAN] :
        conf = [mem |-> c.mem, rm |-> Probe(c.mem), media |-> c.media,
                reuse |-> IF c.media THEN 0 ELSE c.reuse,
                shift |-> c.shift /\ ~c.media]
    BY DEF TypeOK, Configs
<1>2. \A m \in Memories : /\ m.tail \in BOOLEAN /\ m.n_swa \in Nat /\ m.n_swa # 1 /\ m.rs \in Nat
                          /\ ~m.tail => m.n_swa = 0
    <2>1. Window \in Nat /\ Window # 1 /\ RsSeq \in Nat
        BY SlotCacheAssumption
    <2>. SUFFICES ASSUME NEW m \in Memories
                  PROVE  /\ m.tail \in BOOLEAN /\ m.n_swa \in Nat /\ m.n_swa # 1 /\ m.rs \in Nat
                         /\ ~m.tail => m.n_swa = 0
        OBVIOUS
    <2>. DEFINE Mem(t, w, r, d) == [tail |-> t, n_swa |-> w, rs |-> r, decodes |-> d]
    <2>2. \/ m = Mem(TRUE, 0, 0, TRUE) \/ m = Mem(TRUE, Window, 0, TRUE)
          \/ m = Mem(FALSE, 0, 0, TRUE) \/ m = Mem(FALSE, 0, RsSeq, TRUE)
          \/ m = Mem(FALSE, 0, 0, FALSE)
        BY Zenon DEF Memories
    <2>3. CASE m = Mem(TRUE, 0, 0, TRUE)
        BY <2>1, <2>3
    <2>4. CASE m = Mem(TRUE, Window, 0, TRUE)
        BY <2>1, <2>4
    <2>5. CASE m = Mem(FALSE, 0, 0, TRUE)
        BY <2>1, <2>5
    <2>6. CASE m = Mem(FALSE, 0, 0, FALSE)
        BY <2>1, <2>6
    <2>7. CASE m = Mem(FALSE, 0, RsSeq, TRUE)
        BY <2>1, <2>7
    <2>. QED BY <2>2, <2>3, <2>4, <2>5, <2>6, <2>7
<1>3. Reuses \subseteq Nat
    BY SlotCacheAssumption
<1>4. conf.mem = c.mem /\ conf.media = c.media /\ conf.reuse \in Nat
      /\ conf.shift = (c.shift /\ ~c.media)
    BY <1>1, <1>3
<1>. QED BY <1>1, <1>2, <1>4

\* A prompt has a token, and room in the context.
LEMMA PromptType ==
    ASSUME NEW p \in Prompts
    PROVE  p \in Seq(Tokens) /\ Len(p) \in Nat \ {0} /\ Len(p) < NCtx
<1>1. PICK n \in 1 .. MaxPrompt : p \in [1 .. n -> Tokens]
    BY DEF Prompts
<1>2. n \in Nat \ {0} /\ n < NCtx
    BY SlotCacheAssumption
<1>. QED BY <1>1, <1>2

\* The types of a slot's variables.
LEMMA SlotType ==
    ASSUME TypeOK, NEW s \in Slots
    PROVE  /\ state[s] \in States /\ has_media[s] \in BOOLEAN /\ truncated[s] \in BOOLEAN
           /\ prompt[s] \in Seq(Tokens) /\ Len(prompt[s]) \in Nat
           /\ cache[s] \in Seq(Tokens) /\ Len(cache[s]) \in Nat
           /\ pend[s] \in Seq(Tokens) /\ Len(pend[s]) \in Nat
           /\ sampled[s] \in Seq(Tokens) /\ Len(sampled[s]) \in Nat
           /\ kv[s] \in Seq(Cells) /\ Len(kv[s]) \in Nat
           /\ n_past[s] \in Nat
BY LenProperties DEF TypeOK

-----------------------------------------------------------------------------
(* The memory.                                                             *)

\* What a sequence is after more rows.
LEMMA Extending ==
    ASSUME TypeOK, NEW k \in Seq(Cells), NEW new \in Seq(Tokens)
    PROVE  LET e == Extended(k, new) IN
             /\ e \in Seq(Cells) /\ Len(e) = Len(k) + Len(new)
             /\ \A i \in 1 .. Len(k) :
                  e[i] = IF conf.mem.n_swa > 0 /\ i - 1 <= Len(k) - conf.mem.n_swa THEN Gone
                         ELSE k[i]
             /\ \A i \in 1 .. Len(new) : e[Len(k) + i] = new[i]
<1>. DEFINE old == [i \in 1 .. Len(k) |->
                     IF conf.mem.n_swa > 0 /\ i - 1 <= Len(k) - conf.mem.n_swa THEN Gone ELSE k[i]]
<1>1. Len(k) \in Nat /\ Len(new) \in Nat /\ \A i \in 1 .. Len(k) : k[i] \in Cells
    BY LenProperties
<1>2. \A i \in 1 .. Len(k) : old[i] \in Cells
    BY <1>1 DEF Cells
<1>3. old \in Seq(Cells) /\ Len(old) = Len(k)
    BY <1>1, <1>2
<1>4. new \in Seq(Cells)
    BY SeqMonotonic DEF Cells
<1>5. Extended(k, new) = old \o new
    BY DEF Extended
<1>6. \A i \in 1 .. Len(k) : old[i] =
          IF conf.mem.n_swa > 0 /\ i - 1 <= Len(k) - conf.mem.n_swa THEN Gone ELSE k[i]
    OBVIOUS
<1>. HIDE DEF old
<1>7. /\ old \o new \in Seq(Cells) /\ Len(old \o new) = Len(k) + Len(new)
      /\ \A i \in 1 .. Len(k) + Len(new) :
           (old \o new)[i] = IF i <= Len(k) THEN old[i] ELSE new[i - Len(k)]
    <2>1. /\ old \o new \in Seq(Cells) /\ Len(old \o new) = Len(old) + Len(new)
          /\ \A i \in 1 .. Len(old) + Len(new) :
               (old \o new)[i] = IF i <= Len(old) THEN old[i] ELSE new[i - Len(old)]
        BY <1>3, <1>4, ConcatProperties
    <2>. QED BY <1>3, <2>1
<1>8. \A i \in 1 .. Len(k) : (old \o new)[i] = old[i]
    BY <1>1, <1>7
<1>9. \A i \in 1 .. Len(new) : (old \o new)[Len(k) + i] = new[i]
    <2>. SUFFICES ASSUME NEW i \in 1 .. Len(new) PROVE (old \o new)[Len(k) + i] = new[i]
        OBVIOUS
    <2>. DEFINE j == Len(k) + i
    <2>1. j \in 1 .. Len(k) + Len(new) /\ ~(j <= Len(k)) /\ j - Len(k) = i
        BY <1>1
    <2>. HIDE DEF j
    <2>2. (old \o new)[j] = new[j - Len(k)]
        BY <1>7, <2>1
    <2>. QED BY <2>1, <2>2 DEF j
<1>. QED BY <1>5, <1>6, <1>7, <1>8, <1>9

\* A window goes on leaving behind a beginning.
LEMMA ExtendedPruned ==
    ASSUME TypeOK, NEW k \in Seq(Cells), NEW new \in Seq(Tokens), Pruned(k)
    PROVE  Pruned(Extended(k, new))
<1>. DEFINE e == Extended(k, new)
            w == conf.mem.n_swa
<1>1. /\ Len(k) \in Nat /\ Len(new) \in Nat /\ w \in Nat /\ w # 1
      /\ \A i \in 1 .. Len(new) : new[i] \in Tokens
    BY LenProperties, ConfType
<1>2. /\ Len(e) = Len(k) + Len(new)
      /\ \A i \in 1 .. Len(k) : e[i] = IF w > 0 /\ i - 1 <= Len(k) - w THEN Gone ELSE k[i]
      /\ \A i \in 1 .. Len(new) : e[Len(k) + i] = new[i]
    BY Extending
<1>3. \A i \in 1 .. Len(e) : i > Len(k) => e[i] # Gone
    <2>. SUFFICES ASSUME NEW i \in 1 .. Len(e), i > Len(k) PROVE e[i] # Gone
        OBVIOUS
    <2>1. i - Len(k) \in 1 .. Len(new) /\ Len(k) + (i - Len(k)) = i
        BY <1>1, <1>2
    <2>2. e[i] \in Tokens
        BY <1>1, <1>2, <2>1
    <2>. QED BY <2>2, SlotCacheAssumption
<1>4. PICK g \in 0 .. Len(k) :
        /\ \A i \in 1 .. Len(k) : k[i] = Gone <=> i <= g
        /\ g > 0 => w > 0
    BY DEF Pruned
<1>. HIDE DEF e, w
<1>5. PICK h \in 0 .. Len(k) :
        /\ \A i \in 1 .. Len(k) : (w > 0 /\ i - 1 <= Len(k) - w) \/ i <= g <=> i <= h
        /\ h > 0 => w > 0
    <2>1. CASE w > 0 /\ Len(k) - w + 1 > g
        <3>. DEFINE h == Len(k) - w + 1
        <3>1. h \in 0 .. Len(k)
            BY <1>1, <1>4, <2>1
        <3>2. \A i \in 1 .. Len(k) : (w > 0 /\ i - 1 <= Len(k) - w) \/ i <= g <=> i <= h
            BY <1>1, <1>4, <2>1
        <3>. QED BY <2>1, <3>1, <3>2
    <2>2. CASE ~(w > 0 /\ Len(k) - w + 1 > g)
        <3>1. \A i \in 1 .. Len(k) : (w > 0 /\ i - 1 <= Len(k) - w) \/ i <= g <=> i <= g
            BY <1>1, <1>4, <2>2
        <3>. QED BY <1>4, <3>1
    <2>. QED BY <2>1, <2>2
<1>6. \A i \in 1 .. Len(k) : e[i] = Gone <=> i <= h
    BY <1>2, <1>4, <1>5
<1>7. \A i \in 1 .. Len(e) : e[i] = Gone <=> i <= h
    BY <1>1, <1>2, <1>3, <1>6
<1>8. h \in 0 .. Len(e) /\ (h > 0 => w > 0)
    BY <1>1, <1>2, <1>5
<1>. QED BY <1>7, <1>8 DEF Pruned, e, w

\* And leaves behind nothing the token after the new rows sees.
LEMMA ExtendedNear ==
    ASSUME TypeOK, NEW k \in Seq(Cells), NEW new \in Seq(Tokens), Near(k)
    PROVE  Near(Extended(k, new))
<1>. DEFINE e == Extended(k, new)
            w == conf.mem.n_swa
<1>1. /\ Len(k) \in Nat /\ Len(new) \in Nat /\ w \in Nat
      /\ \A i \in 1 .. Len(new) : new[i] \in Tokens
    BY LenProperties, ConfType
<1>2. /\ Len(e) = Len(k) + Len(new)
      /\ \A i \in 1 .. Len(k) : e[i] = IF w > 0 /\ i - 1 <= Len(k) - w THEN Gone ELSE k[i]
      /\ \A i \in 1 .. Len(new) : e[Len(k) + i] = new[i]
    BY Extending
<1>3. \A i \in 1 .. Len(k) : k[i] = Gone => i <= Len(k) - w + 1
    BY DEF Near
<1>. HIDE DEF e, w
<1>4. ASSUME NEW i \in 1 .. Len(e), e[i] = Gone PROVE i <= Len(e) - w + 1
    <2>1. CASE i <= Len(k)
        <3>1. i \in 1 .. Len(k) /\ ((w > 0 /\ i - 1 <= Len(k) - w) \/ k[i] = Gone)
            BY <1>1, <1>2, <1>4, <2>1
        <3>2. i <= Len(k) - w + 1
            BY <1>1, <1>3, <3>1
        <3>. QED BY <1>1, <1>2, <3>2
    <2>2. CASE ~(i <= Len(k))
        <3>1. i - Len(k) \in 1 .. Len(new) /\ Len(k) + (i - Len(k)) = i
            BY <1>1, <1>2, <2>2
        <3>2. e[i] \in Tokens
            BY <1>1, <1>2, <3>1
        <3>. QED BY <1>4, <3>2, SlotCacheAssumption
    <2>. QED BY <2>1, <2>2
<1>. QED BY <1>4 DEF Near, e, w

\* The mirror that ran ahead of the decode has the new rows.
LEMMA ExtendedExact ==
    ASSUME TypeOK, NEW q \in Seq(Tokens), NEW k \in Seq(Cells), NEW new \in Seq(Tokens),
           Exact(q, k, new)
    PROVE  Exact(q, Extended(k, new), <<>>)
<1>. DEFINE e == Extended(k, new)
<1>1. Len(k) \in Nat /\ Len(new) \in Nat /\ Len(<<>>) = 0
    BY LenProperties
<1>2. /\ Len(e) = Len(k) + Len(new)
      /\ \A i \in 1 .. Len(k) : e[i] \in {k[i], Gone}
      /\ \A i \in 1 .. Len(new) : e[Len(k) + i] = new[i]
    BY Extending
<1>. HIDE DEF e
<1>3. ASSUME NEW i \in 1 .. Len(e) PROVE e[i] \in {q[i], Gone}
    <2>1. CASE i <= Len(k)
        BY <1>1, <1>2, <2>1 DEF Exact
    <2>2. CASE i > Len(k)
        <3>1. i - Len(k) \in 1 .. Len(new) /\ Len(k) + (i - Len(k)) = i
            BY <1>1, <1>2, <2>2
        <3>2. e[i] = new[i - Len(k)] /\ new[i - Len(k)] = q[Len(k) + (i - Len(k))]
            BY <1>2, <3>1 DEF Exact
        <3>. QED BY <3>1, <3>2
    <2>. QED BY <1>1, <1>2, <2>1, <2>2
<1>4. Exact(q, e, <<>>)
    BY <1>1, <1>2, <1>3 DEF Exact
<1>. QED BY <1>4 DEF e

\* The mirror of more rows, before they are decoded.
LEMMA AppendedExact ==
    ASSUME NEW q \in Seq(Tokens), NEW k \in Seq(Cells), NEW new \in Seq(Tokens),
           Exact(q, k, <<>>)
    PROVE  Exact(q \o new, k, new)
<1>1. Len(k) \in Nat /\ Len(new) \in Nat /\ Len(<<>>) = 0 /\ Len(q) = Len(k)
    BY LenProperties DEF Exact
<1>2. /\ Len(q \o new) = Len(q) + Len(new)
      /\ \A i \in 1 .. Len(q) + Len(new) : (q \o new)[i] = IF i <= Len(q) THEN q[i] ELSE new[i - Len(q)]
    BY ConcatProperties
<1>3. \A i \in 1 .. Len(k) : k[i] \in {(q \o new)[i], Gone}
    BY <1>1, <1>2 DEF Exact
<1>4. ASSUME NEW i \in 1 .. Len(new) PROVE (q \o new)[Len(k) + i] = new[i]
    <2>1. Len(k) + i \in 1 .. Len(q) + Len(new) /\ ~(Len(k) + i <= Len(q)) /\ Len(k) + i - Len(q) = i
        BY <1>1
    <2>. QED BY <1>2, <2>1
<1>. QED BY <1>1, <1>2, <1>3, <1>4 DEF Exact

\* What a shift keeps and what it discards lies within a full context.
LEMMA ShiftSizes ==
    /\ Kept \in Nat /\ Discarded \in Nat \ {0} /\ NCtx \in Nat
    /\ Kept + Discarded < NCtx
<1>1. NCtx \in Nat /\ NKeep \in Nat /\ NCtx > 1
    BY SlotCacheAssumption
<1>. DEFINE m == IF NCtx - 4 <= NKeep THEN NCtx - 4 ELSE NKeep
<1>2. MinOf({NCtx - 4, NKeep}) = m /\ m \in Int
    <2>1. NCtx - 4 \in Int /\ NKeep \in Int
        BY <1>1
    <2>. QED BY <2>1, OfTwo
<1>3. m <= NCtx - 4
    BY <1>1
<1>. HIDE DEF m
<1>4. Kept = IF 0 >= m THEN 0 ELSE m
    BY <1>2, OfTwo DEF Kept
<1>5. Kept \in Nat /\ NCtx - Kept > 1
    BY <1>1, <1>2, <1>3, <1>4
<1>. DEFINE r == NCtx - Kept
<1>6. r \in Nat /\ r > 1 /\ r - 1 \in Int /\ r \div 2 \in Int /\ r \div 2 > 0
    BY <1>1, <1>5
<1>7. Discarded = IF r \div 2 <= r - 1 THEN r \div 2 ELSE r - 1
    <2>. HIDE DEF r
    <2>1. MinOf({r \div 2, r - 1}) = IF r \div 2 <= r - 1 THEN r \div 2 ELSE r - 1
        BY <1>6, OfTwo
    <2>. QED BY <2>1 DEF Discarded, r
<1>8. Discarded \in Nat \ {0} /\ Discarded <= r - 1
    BY <1>6, <1>7
<1>. QED BY <1>1, <1>5, <1>8

\* What a sequence is after a shift.
LEMMA Shifting ==
    ASSUME NEW S, NEW q \in Seq(S), Len(q) >= NCtx
    PROVE  /\ Shifted(q) \in Seq(S) /\ Len(Shifted(q)) = Len(q) - Discarded
           /\ \A i \in 1 .. Len(q) - Discarded :
                Shifted(q)[i] = IF i <= Kept THEN q[i] ELSE q[i + Discarded]
<1>. DEFINE a == SubSeq(q, 1, Kept)
            b == SubSeq(q, Kept + Discarded + 1, Len(q))
<1>1. Len(q) \in Nat /\ Kept \in Nat /\ Discarded \in Nat /\ Kept + Discarded < Len(q)
    BY ShiftSizes, LenProperties
<1>2. a \in Seq(S) /\ Len(a) = Kept /\ \A i \in 1 .. Kept : a[i] = q[i]
    BY <1>1, FirstOf
<1>3. /\ b \in Seq(S) /\ Len(b) = Len(q) - Discarded - Kept
      /\ \A i \in 1 .. Len(q) - Discarded - Kept : b[i] = q[Kept + Discarded + i]
    <2>1. Kept + Discarded + 1 \in 1 .. Len(q) + 1 /\ Len(q) \in Kept + Discarded + 1 - 1 .. Len(q)
        BY <1>1
    <2>2. /\ b \in Seq(S) /\ Len(b) = Len(q) - (Kept + Discarded + 1) + 1
          /\ \A i \in 1 .. Len(q) - (Kept + Discarded + 1) + 1 :
               b[i] = q[Kept + Discarded + 1 + i - 1]
        BY <2>1, PartOf
    <2>3. Len(q) - (Kept + Discarded + 1) + 1 = Len(q) - Discarded - Kept
        BY <1>1
    <2>4. \A i \in 1 .. Len(q) - Discarded - Kept : Kept + Discarded + 1 + i - 1 = Kept + Discarded + i
        BY <1>1
    <2>. HIDE DEF b
    <2>5. \A i \in 1 .. Len(q) - Discarded - Kept : b[i] = q[Kept + Discarded + 1 + i - 1]
        BY <2>2, <2>3
    <2>. QED BY <2>2, <2>3, <2>4, <2>5
<1>. HIDE DEF a, b
<1>4. /\ a \o b \in Seq(S) /\ Len(a \o b) = Len(a) + Len(b)
      /\ \A i \in 1 .. Len(a) + Len(b) : (a \o b)[i] = IF i <= Len(a) THEN a[i] ELSE b[i - Len(a)]
    <2>1. a \in Seq(S) /\ b \in Seq(S)
        BY <1>2, <1>3
    <2>. QED BY <2>1, ConcatProperties
<1>5. ASSUME NEW i \in 1 .. Len(q) - Discarded
      PROVE  (a \o b)[i] = IF i <= Kept THEN q[i] ELSE q[i + Discarded]
    <2>1. (a \o b)[i] = IF i <= Kept THEN a[i] ELSE b[i - Kept]
        BY <1>1, <1>2, <1>3, <1>4
    <2>2. CASE i <= Kept
        BY <1>1, <1>2, <2>1, <2>2
    <2>3. CASE ~(i <= Kept)
        <3>1. i - Kept \in 1 .. Len(q) - Discarded - Kept /\ Kept + Discarded + (i - Kept) = i + Discarded
              /\ ~(i <= Kept)
            BY <1>1, <2>3
        <3>2. b[i - Kept] = q[Kept + Discarded + (i - Kept)]
            BY <1>3, <3>1
        <3>. QED BY <2>1, <3>1, <3>2
    <2>. QED BY <2>2, <2>3
<1>6. Len(a \o b) = Len(q) - Discarded
    BY <1>1, <1>2, <1>3, <1>4
<1>. QED BY <1>4, <1>5, <1>6 DEF Shifted, a, b

\* Memory and mirror are shifted alike.
LEMMA ShiftedExact ==
    ASSUME NEW q \in Seq(Tokens), NEW k \in Seq(Cells), Exact(q, k, <<>>), Len(k) >= NCtx
    PROVE  Exact(Shifted(q), Shifted(k), <<>>)
<1>1. Len(<<>>) = 0 /\ Len(q) = Len(k) /\ Len(k) \in Nat
    BY LenProperties DEF Exact
<1>2. /\ Len(Shifted(k)) = Len(k) - Discarded /\ Len(Shifted(q)) = Len(k) - Discarded
      /\ \A i \in 1 .. Len(k) - Discarded :
           /\ Shifted(k)[i] = IF i <= Kept THEN k[i] ELSE k[i + Discarded]
           /\ Shifted(q)[i] = IF i <= Kept THEN q[i] ELSE q[i + Discarded]
    BY <1>1, Shifting
<1>3. ASSUME NEW i \in 1 .. Len(k) - Discarded PROVE Shifted(k)[i] \in {Shifted(q)[i], Gone}
    <2>1. i \in 1 .. Len(k) /\ (~(i <= Kept) => i + Discarded \in 1 .. Len(k))
        BY <1>1, ShiftSizes
    <2>2. CASE i <= Kept
        BY <1>2, <2>1, <2>2 DEF Exact
    <2>3. CASE ~(i <= Kept)
        <3>1. k[i + Discarded] \in {q[i + Discarded], Gone}
            BY <2>1, <2>3 DEF Exact
        <3>. QED BY <1>2, <2>3, <3>1
    <2>. QED BY <2>2, <2>3
<1>. QED BY <1>1, <1>2, <1>3, ShiftSizes DEF Exact

\* A window that is shifted has still only left behind a beginning.
LEMMA ShiftedPruned ==
    ASSUME TypeOK, NEW k \in Seq(Cells), Pruned(k), Len(k) >= NCtx
    PROVE  Pruned(Shifted(k))
<1>1. /\ Len(k) \in Nat /\ Kept \in Nat /\ Discarded \in Nat \ {0}
      /\ Kept + Discarded < Len(k)
    BY ShiftSizes, LenProperties
<1>2. PICK g \in 0 .. Len(k) :
        /\ \A i \in 1 .. Len(k) : k[i] = Gone <=> i <= g
        /\ g > 0 => conf.mem.n_swa > 0
    BY DEF Pruned
<1>3. /\ Len(Shifted(k)) = Len(k) - Discarded
      /\ \A i \in 1 .. Len(k) - Discarded :
           Shifted(k)[i] = IF i <= Kept THEN k[i] ELSE k[i + Discarded]
    BY Shifting
<1>4. \A i \in 1 .. Len(k) - Discarded :
        Shifted(k)[i] = Gone <=> IF i <= Kept THEN i <= g ELSE i + Discarded <= g
    <2>. SUFFICES ASSUME NEW i \in 1 .. Len(k) - Discarded
                  PROVE  Shifted(k)[i] = Gone <=> IF i <= Kept THEN i <= g ELSE i + Discarded <= g
        OBVIOUS
    <2>1. i \in 1 .. Len(k) /\ (~(i <= Kept) => i + Discarded \in 1 .. Len(k))
        BY <1>1
    <2>. QED BY <1>2, <1>3, <2>1
<1>. DEFINE h == IF g <= Kept THEN g ELSE IF g <= Kept + Discarded THEN Kept ELSE g - Discarded
<1>5. h \in 0 .. Len(k) - Discarded /\ (h > 0 => g > 0)
    BY <1>1
<1>6. \A i \in 1 .. Len(k) - Discarded :
        (IF i <= Kept THEN i <= g ELSE i + Discarded <= g) <=> i <= h
    BY <1>1
<1>. HIDE DEF h
<1>7. h \in 0 .. Len(Shifted(k)) /\ \A i \in 1 .. Len(Shifted(k)) : Shifted(k)[i] = Gone <=> i <= h
    BY <1>3, <1>4, <1>5, <1>6
<1>. QED BY <1>2, <1>5, <1>7 DEF Pruned

-----------------------------------------------------------------------------
(* Admission.                                                              *)

\* The tokens shared with the mirror leave one of the prompt to evaluate.
LEMMA SharedTokens ==
    ASSUME TypeOK, NEW s \in Slots, NEW p \in Prompts, NEW use \in BOOLEAN
    PROVE  /\ Lcp(s, p, use) \in Nat
           /\ Lcp(s, p, use) <= Len(cache[s]) /\ Lcp(s, p, use) < Len(p)
           /\ \A i \in 1 .. Lcp(s, p, use) : cache[s][i] = p[i]
<1>. DEFINE S == {n \in 0 .. Cap(s, p) : Agree(s, p, n)}
            m == CHOOSE n \in 0 .. Cap(s, p) :
                     Agree(s, p, n) /\ \A k \in n + 1 .. Cap(s, p) : ~Agree(s, p, k)
<1>1. /\ p \in Seq(Tokens) /\ Len(p) \in Nat \ {0}
      /\ cache[s] \in Seq(Tokens) /\ Len(cache[s]) \in Nat
    BY PromptType, SlotType
<1>2. Cap(s, p) \in Nat /\ Cap(s, p) <= Len(cache[s]) /\ Cap(s, p) < Len(p)
    <2>1. Len(p) - 1 \in Int /\ Len(cache[s]) \in Int
        BY <1>1
    <2>2. MinOf({Len(cache[s]), Len(p) - 1}) =
            IF Len(cache[s]) <= Len(p) - 1 THEN Len(cache[s]) ELSE Len(p) - 1
        BY <2>1, OfTwo
    <2>. QED BY <1>1, <2>2 DEF Cap
<1>3. m \in 0 .. Cap(s, p) /\ Agree(s, p, m)
    <2>1. Agree(s, p, 0)
        BY SubSeqEmpty DEF Agree
    <2>2. PICK n \in S : \A x \in S : x <= n
        <3>1. S \in SUBSET (0 .. Cap(s, p)) /\ 0 \in S
            BY <1>2, <2>1
        <3>. HIDE DEF S
        <3>. QED BY <1>2, <3>1, Largest
    <2>3. \A k \in n + 1 .. Cap(s, p) : ~Agree(s, p, k)
        BY <1>2, <2>2
    <2>4. n \in 0 .. Cap(s, p) /\ Agree(s, p, n)
        BY <2>2
    <2>. QED BY <2>3, <2>4, Zenon
<1>. HIDE DEF m
<1>4. ASSUME NEW i \in 1 .. m PROVE cache[s][i] = p[i]
    <2>1. m \in 0 .. Len(p) /\ m \in 0 .. Len(cache[s])
        BY <1>1, <1>2, <1>3
    <2>2. SubSeq(cache[s], 1, m)[i] = cache[s][i] /\ SubSeq(p, 1, m)[i] = p[i]
        BY <1>1, <2>1, FirstOf
    <2>. QED BY <1>3, <2>2 DEF Agree
<1>5. Lcp(s, p, use) \in {0, m}
    BY DEF Lcp, m
<1>. QED BY <1>1, <1>2, <1>3, <1>4, <1>5

\* The empty sequence was never pruned, and is its own mirror.
LEMMA Empty ==
    /\ <<>> \in Seq(Tokens) /\ <<>> \in Seq(Cells) /\ Len(<<>>) = 0
    /\ Pruned(<<>>) /\ Near(<<>>) /\ Exact(<<>>, <<>>, <<>>)
<1>1. Len(<<>>) = 0 /\ <<>> \in Seq(Tokens) /\ <<>> \in Seq(Cells)
    OBVIOUS
<1>2. 0 \in 0 .. Len(<<>>) /\ \A i \in 1 .. Len(<<>>) : FALSE
    BY <1>1
<1>. HIDE <1>2
<1>. QED BY <1>1, <1>2 DEF Pruned, Near, Exact

\* An idle slot whose sequence and mirror both are there has them alike.
LEMMA IdleMirror ==
    ASSUME TypeOK, NEW s \in Slots, Local(s), state[s] = "IDLE"
    PROVE  /\ pend[s] = <<>>
           /\ kv[s] = <<>> \/ cache[s] = <<>> \/ Exact(cache[s], kv[s], <<>>)
BY DEF Local, Working, Mirroring

\* How far back the memory goes.
LEMMA FirstPosition ==
    ASSUME TypeOK, NEW k \in Seq(Cells), Pruned(k), PosMin(k) >= 0
    PROVE  /\ k # <<>>
           /\ \A n \in Nat : conf.mem.tail /\ PosMin(k) < n =>
                \A i \in 1 .. Len(k) : i > n => k[i] # Gone
           /\ conf.mem.tail => PosMin(k) \in 0 .. Len(k)
                               /\ \A i \in 1 .. Len(k) : k[i] = Gone <=> i <= PosMin(k)
<1>1. k # <<>>
    BY DEF PosMin
<1>2. ASSUME conf.mem.tail
      PROVE  PosMin(k) \in 0 .. Len(k) /\ \A i \in 1 .. Len(k) : k[i] = Gone <=> i <= PosMin(k)
    <2>1. PICK g \in 0 .. Len(k) : \A i \in 1 .. Len(k) : k[i] = Gone <=> i <= g
        BY DEF Pruned
    <2>2. DOMAIN k = 1 .. Len(k) /\ Len(k) \in Nat
        BY LenProperties
    <2>3. {i \in DOMAIN k : k[i] = Gone} = 1 .. g
        BY <2>1, <2>2
    <2>4. Cardinality(1 .. g) = g
        <3>1. g \in Nat
            BY <2>1, <2>2
        <3>2. Cardinality(1 .. g) = IF 1 > g THEN 0 ELSE g - 1 + 1
            BY <3>1, FS_Interval
        <3>. QED BY <3>1, <3>2
    <2>5. PosMin(k) = g
        BY <1>1, <1>2, <2>3, <2>4 DEF PosMin
    <2>. QED BY <2>1, <2>5
<1>3. Len(k) \in Nat
    BY LenProperties
<1>. QED BY <1>1, <1>2, <1>3

\* What an admission cuts a slot back to.
LEMMA AdmissionCut ==
    ASSUME TypeOK, NEW s \in Slots, Local(s), state[s] = "IDLE",
           NEW p \in Prompts, NEW use \in BOOLEAN
    PROVE  LET n == Prefix(s, p, use)
               k == CutTo(kv[s], n)
           IN /\ n \in Nat /\ n < Len(p) /\ n <= Len(cache[s])
              /\ k \in Seq(Cells) /\ Len(k) = n
              /\ Pruned(k) /\ Near(k)
              /\ Exact(SubSeq(cache[s], 1, n), k, <<>>)
              /\ \A i \in 1 .. n : k[i] \in {p[i], Gone}
              /\ IsPrefix(k, kv[s])
              /\ ~conf.mem.tail => k = <<>> \/ Len(kv[s]) - n <= conf.mem.rs
<1>. DEFINE n == Prefix(s, p, use)
            k == CutTo(kv[s], n)
            w == conf.mem.n_swa
<1>1. /\ p \in Seq(Tokens) /\ Len(p) \in Nat \ {0}
      /\ cache[s] \in Seq(Tokens) /\ Len(cache[s]) \in Nat
      /\ kv[s] \in Seq(Cells) /\ Len(kv[s]) \in Nat
    BY PromptType, SlotType
<1>2. CASE n = 0
    <2>1. MinOf({0, Len(kv[s])}) = 0
        <3>1. MinOf({0, Len(kv[s])}) = IF 0 <= Len(kv[s]) THEN 0 ELSE Len(kv[s])
            <4>1. 0 \in Int /\ Len(kv[s]) \in Int
                BY <1>1
            <4>. QED BY <4>1, OfTwo
        <3>. QED BY <1>1, <3>1
    <2>2. k = <<>> /\ SubSeq(cache[s], 1, 0) = <<>> /\ SubSeq(kv[s], 1, 0) = <<>>
        BY <1>2, <2>1, SubSeqEmpty DEF CutTo
    <2>3. IsPrefix(k, kv[s])
        BY <1>1, <2>2, Empty DEF IsPrefix
    <2>. HIDE DEF n, k
    <2>4. n \in Nat /\ n < Len(p) /\ n <= Len(cache[s]) /\ \A i \in 1 .. n : k[i] \in {p[i], Gone}
        BY <1>1, <1>2
    <2>5. k \in Seq(Cells) /\ Len(k) = n /\ Pruned(k) /\ Near(k) /\ Exact(SubSeq(cache[s], 1, n), k, <<>>)
        BY <1>2, <2>2, Empty
    <2>. QED BY <2>2, <2>3, <2>4, <2>5 DEF n, k
<1>3. CASE n # 0
    <2>1. n = Lcp(s, p, use) /\ n > 0 /\ Held(s, n)
        BY <1>3 DEF Prefix
    <2>2. /\ n \in Nat /\ n <= Len(cache[s]) /\ n < Len(p)
          /\ \A i \in 1 .. n : cache[s][i] = p[i]
        BY <2>1, SharedTokens
    <2>3. PosMin(kv[s]) >= 0 /\ PosMin(kv[s]) < Threshold(n) /\ CanRemove(kv[s], n)
        BY <2>1 DEF Held
    <2>4. Pruned(kv[s])
        BY DEF Local
    <2>5. kv[s] # <<>>
        BY <1>1, <2>3, <2>4, FirstPosition
    <2>6. Exact(cache[s], kv[s], <<>>)
        BY <1>1, <2>1, <2>2, <2>5, IdleMirror, Empty
    <2>7. Len(kv[s]) = Len(cache[s]) /\ \A i \in 1 .. Len(kv[s]) : kv[s][i] \in {cache[s][i], Gone}
        BY <1>1, <2>6, Empty DEF Exact
    <2>8. k = SubSeq(kv[s], 1, n)
        <3>. HIDE DEF n
        <3>1. MinOf({n, Len(kv[s])}) = IF n <= Len(kv[s]) THEN n ELSE Len(kv[s])
            <4>1. n \in Int /\ Len(kv[s]) \in Int
                BY <1>1, <2>2
            <4>. QED BY <4>1, OfTwo
        <3>. QED BY <1>1, <2>2, <2>7, <3>1 DEF CutTo
    <2>. HIDE DEF n, k
    <2>9. k \in Seq(Cells) /\ Len(k) = n /\ \A i \in 1 .. n : k[i] = kv[s][i]
        BY <1>1, <2>2, <2>7, <2>8, FirstOf
    <2>10. /\ SubSeq(cache[s], 1, n) \in Seq(Tokens) /\ Len(SubSeq(cache[s], 1, n)) = n
           /\ \A i \in 1 .. n : SubSeq(cache[s], 1, n)[i] = cache[s][i]
        BY <1>1, <2>2, FirstOf
    <2>11. \A i \in 1 .. n : i \in 1 .. Len(kv[s])
        BY <1>1, <2>2, <2>7
    <2>12. Exact(SubSeq(cache[s], 1, n), k, <<>>)
        BY <2>2, <2>7, <2>9, <2>10, <2>11, Empty DEF Exact
    <2>13. \A i \in 1 .. n : k[i] \in {p[i], Gone}
        BY <2>2, <2>7, <2>9, <2>11
    <2>14. IsPrefix(k, kv[s])
        BY <1>1, <2>2, <2>7, <2>8, <2>9 DEF IsPrefix
    <2>15. ~conf.mem.tail => Len(kv[s]) - n <= conf.mem.rs
        BY <1>1, <2>2, <2>3, ConfType DEF CanRemove
    <2>16. Pruned(k) /\ Near(k)
        <3>1. /\ w \in Nat /\ w # 1 /\ (~conf.mem.tail => w = 0)
            BY ConfType
        <3>2. PICK g \in 0 .. Len(kv[s]) :
                /\ \A i \in 1 .. Len(kv[s]) : kv[s][i] = Gone <=> i <= g
                /\ g > 0 => w > 0
            BY <2>4 DEF Pruned
        <3>3. CASE g = 0
            <4>1. \A i \in 1 .. n : k[i] # Gone
                BY <2>2, <2>9, <2>11, <3>2, <3>3
            <4>2. 0 \in 0 .. Len(k) /\ \A i \in 1 .. Len(k) : k[i] = Gone <=> i <= 0
                BY <2>2, <2>9, <4>1
            <4>3. Near(k)
                BY <2>9, <4>1 DEF Near
            <4>. QED BY <4>2, <4>3 DEF Pruned
        <3>4. CASE g > 0
            <4>1. w > 1 /\ conf.mem.tail
                BY <3>1, <3>2, <3>4
            <4>2. /\ PosMin(kv[s]) \in 0 .. Len(kv[s])
                  /\ \A i \in 1 .. Len(kv[s]) : kv[s][i] = Gone <=> i <= PosMin(kv[s])
                BY <1>1, <2>3, <2>4, <4>1, FirstPosition
            <4>3. PosMin(kv[s]) = g
                <5>1. g \in 1 .. Len(kv[s]) /\ kv[s][g] = Gone
                    BY <1>1, <3>2, <3>4
                <5>2. g <= PosMin(kv[s]) /\ PosMin(kv[s]) \in 1 .. Len(kv[s])
                    BY <1>1, <4>2, <5>1
                <5>3. PosMin(kv[s]) <= g
                    BY <3>2, <4>2, <5>2
                <5>. QED BY <1>1, <4>2, <5>1, <5>2, <5>3
            <4>4. Threshold(n) = IF 0 >= n - w + 2 THEN 0 ELSE n - w + 2
                <5>1. MaxOf({0, n - w + 2}) = IF 0 >= n - w + 2 THEN 0 ELSE n - w + 2
                    <6>1. 0 \in Int /\ n - w + 2 \in Int
                        BY <2>2, <3>1
                    <6>. QED BY <6>1, OfTwo
                <5>2. w > 0
                    BY <3>1, <4>1
                <5>. QED BY <5>1, <5>2, Zenon DEF Threshold, w
            <4>5. g <= n - w + 1
                BY <1>1, <2>2, <2>3, <3>1, <3>4, <4>3, <4>4
            <4>6. g \in 0 .. n
                BY <2>2, <3>1, <3>4, <4>1, <4>5
            <4>7. \A i \in 1 .. n : k[i] = Gone <=> i <= g
                BY <2>9, <2>11, <3>2
            <4>8. Pruned(k)
                <5>1. g \in 0 .. Len(k) /\ \A i \in 1 .. Len(k) : k[i] = Gone <=> i <= g
                    BY <2>9, <4>6, <4>7
                <5>2. conf.mem.n_swa > 0
                    BY <3>1, <4>1
                <5>. QED BY <5>1, <5>2 DEF Pruned
            <4>9. Near(k)
                <5>. SUFFICES ASSUME NEW i \in 1 .. Len(k), k[i] = Gone PROVE i <= Len(k) - w + 1
                    BY DEF Near, w
                <5>1. i \in 1 .. n /\ i <= g
                    BY <2>9, <4>7
                <5>. HIDE DEF w
                <5>. QED BY <2>2, <2>9, <3>1, <4>5, <4>6, <5>1
            <4>. QED BY <4>8, <4>9
        <3>. QED BY <1>1, <3>2, <3>3, <3>4
    <2>. QED BY <2>2, <2>9, <2>12, <2>13, <2>14, <2>15, <2>16 DEF n, k
<1>. QED BY <1>2, <1>3

-----------------------------------------------------------------------------
(* The steps, one slot at a time.                                          *)

\* Slot s keeps what it has.
Same(s) ==
    /\ state'[s] = state[s] /\ prompt'[s] = prompt[s] /\ has_media'[s] = has_media[s]
    /\ sampled'[s] = sampled[s] /\ cache'[s] = cache[s] /\ n_past'[s] = n_past[s]
    /\ truncated'[s] = truncated[s] /\ pend'[s] = pend[s] /\ kv'[s] = kv[s]

\* So it keeps what Inv says of it.
LEMMA SameKept ==
    ASSUME NEW s \in Slots, Local(s), Same(s), conf' = conf,
           pc' # "decode" => pend[s] = <<>>
    PROVE  Local(s)'
<1>1. Pruned(kv[s])'
    BY DEF Same, Local, Pruned
<1>2. Working(s)'
    BY DEF Same, Local, Working
<1>3. Mirroring(s)'
    BY DEF Same, Local, Mirroring, Exact
<1>4. Prompted(s)'
    BY DEF Same, Local, Prompted, Near
<1>. QED BY <1>1, <1>2, <1>3, <1>4 DEF Local

\* What finish() does to each slot.
LEMMA Finishing ==
    ASSUME TypeOK, NEW S \in SUBSET Slots, Finish(S)
    PROVE  /\ state' \in [Slots -> States] /\ prompt' \in [Slots -> Seq(Tokens)]
           /\ has_media' \in [Slots -> BOOLEAN] /\ sampled' \in [Slots -> Seq(Tokens)]
           /\ n_past' \in [Slots -> Nat] /\ truncated' \in [Slots -> BOOLEAN]
           /\ \A s \in S : state'[s] = "IDLE" /\ ~has_media'[s] /\ ~truncated'[s]
           /\ \A s \in Slots \ S :
                /\ state'[s] = state[s] /\ prompt'[s] = prompt[s] /\ has_media'[s] = has_media[s]
                /\ sampled'[s] = sampled[s] /\ n_past'[s] = n_past[s]
                /\ truncated'[s] = truncated[s]
<1>1. \A f, v : /\ \A s \in S : With(f, S, v)[s] = v
                /\ \A s \in Slots \ S : With(f, S, v)[s] = f[s]
    BY DEF With
<1>2. /\ state' = With(state, S, "IDLE") /\ prompt' = With(prompt, S, <<>>)
      /\ has_media' = With(has_media, S, FALSE) /\ sampled' = With(sampled, S, <<>>)
      /\ n_past' = With(n_past, S, 0) /\ truncated' = With(truncated, S, FALSE)
    BY DEF Finish
<1>3. \A T : \A f \in [Slots -> T] : \A v \in T : With(f, S, v) \in [Slots -> T]
    BY DEF With
<1>4. "IDLE" \in States /\ <<>> \in Seq(Tokens) /\ 0 \in Nat /\ FALSE \in BOOLEAN
    BY DEF States
<1>5. /\ state' \in [Slots -> States] /\ prompt' \in [Slots -> Seq(Tokens)]
      /\ sampled' \in [Slots -> Seq(Tokens)] /\ n_past' \in [Slots -> Nat]
    BY <1>2, <1>3, <1>4 DEF TypeOK
<1>6. has_media' \in [Slots -> BOOLEAN] /\ truncated' \in [Slots -> BOOLEAN]
    BY <1>2, <1>3, <1>4 DEF TypeOK
<1>7. ASSUME NEW s \in S PROVE state'[s] = "IDLE" /\ ~has_media'[s] /\ ~truncated'[s]
    <2>1. state'[s] = "IDLE"
        BY <1>1, <1>2
    <2>2. With(has_media, S, FALSE)[s] = FALSE /\ With(truncated, S, FALSE)[s] = FALSE
        BY Zenon DEF With
    <2>3. has_media'[s] = FALSE /\ truncated'[s] = FALSE
        BY <1>2, <2>2, Zenon
    <2>. QED BY <2>1, <2>2, <2>3
<1>8. ASSUME NEW s \in Slots \ S
      PROVE  /\ state'[s] = state[s] /\ prompt'[s] = prompt[s] /\ has_media'[s] = has_media[s]
             /\ sampled'[s] = sampled[s] /\ n_past'[s] = n_past[s]
             /\ truncated'[s] = truncated[s]
    <2>1. state'[s] = state[s] /\ prompt'[s] = prompt[s] /\ sampled'[s] = sampled[s]
          /\ n_past'[s] = n_past[s]
        BY <1>1, <1>2
    <2>2. With(has_media, S, FALSE)[s] = has_media[s] /\ With(truncated, S, FALSE)[s] = truncated[s]
        BY Zenon DEF With
    <2>3. has_media'[s] = has_media[s] /\ truncated'[s] = truncated[s]
        BY <1>2, <2>2, Zenon
    <2>. QED BY <2>1, <2>2, <2>3
<1>. QED BY <1>5, <1>6, <1>7, <1>8

\* A finished slot's sequence and mirror are alike, or one of them is empty.
LEMMA FinishedKept ==
    ASSUME NEW s \in Slots, conf' = conf,
           state'[s] = "IDLE", ~has_media'[s], ~truncated'[s], pend'[s] = <<>>,
           Pruned(kv'[s]),
           kv'[s] = <<>> \/ cache'[s] = <<>> \/ Exact(cache'[s], kv'[s], <<>>)
    PROVE  Local(s)'
<1>1. Pruned(kv[s])'
    BY DEF Pruned
<1>2. Working(s)'
    BY DEF Working
<1>3. Mirroring(s)'
    BY DEF Mirroring, Exact
<1>4. Prompted(s)'
    BY DEF Prompted
<1>. QED BY <1>1, <1>2, <1>3, <1>4 DEF Local

\* Nothing is pending between two batches.
LEMMA NonePending ==
    ASSUME Inv, pc # "decode", NEW s \in Slots
    PROVE  /\ pend[s] = <<>>
           /\ kv[s] = <<>> \/ cache[s] = <<>> \/ Exact(cache[s], kv[s], <<>>)
BY DEF Inv, Local, Working, Mirroring

\* Callers that gave up: their sequences stay, mirrored.
LEMMA CancelKept == ASSUME Inv, Cancel PROVE Inv'
<1>1. PICK S \in SUBSET Busy : Finish(S)
    BY DEF Cancel
<1>2. /\ pc = "cancel" /\ pc' = "admit" /\ conf' = conf /\ cache' = cache /\ pend' = pend
      /\ kv' = kv /\ S \in SUBSET Slots /\ TypeOK
    BY <1>1 DEF Cancel, Busy, Inv
<1>3. TypeOK'
    BY <1>1, <1>2, Finishing DEF TypeOK
<1>4. ASSUME NEW s \in Slots PROVE Local(s)'
    <2>1. Local(s) /\ Pruned(kv[s])
        BY DEF Inv, Local
    <2>2. pend[s] = <<>> /\ (kv[s] = <<>> \/ cache[s] = <<>> \/ Exact(cache[s], kv[s], <<>>))
        BY <1>2, NonePending
    <2>3. CASE s \in S
        BY <1>1, <1>2, <2>1, <2>2, <2>3, Finishing, FinishedKept
    <2>4. CASE s \notin S
        BY <1>1, <1>2, <2>1, <2>2, <2>4, Finishing, SameKept DEF Same
    <2>. QED BY <2>3, <2>4
<1>. QED BY <1>3, <1>4 DEF Inv

\* An admission cuts the slot back to what it shares with the prompt.
LEMMA AdmitKept == ASSUME Inv, NEW s \in Slots, Admit(s) PROVE Inv'
<1>1. PICK p \in Prompts, use \in BOOLEAN :
        /\ Best(s, p, use)
        /\ LET n == Prefix(s, p, use) IN
             /\ kv' = [kv EXCEPT ![s] = CutTo(@, n)]
             /\ cache' = [cache EXCEPT ![s] = SubSeq(@, 1, n)]
             /\ n_past' = [n_past EXCEPT ![s] = n]
        /\ prompt' = [prompt EXCEPT ![s] = p]
    BY DEF Admit
<1>2. /\ pc = "admit" /\ pc' = pc /\ conf' = conf /\ sampled' = sampled
      /\ truncated' = truncated /\ pend' = pend
      /\ state' = [state EXCEPT ![s] = "PREFILL"]
      /\ has_media' = [has_media EXCEPT ![s] = FALSE]
    BY DEF Admit
<1>3. TypeOK /\ Local(s) /\ state[s] = "IDLE" /\ Working(s)
    BY <1>1 DEF Inv, Best, Local
<1>. DEFINE n == Prefix(s, p, use)
            k == CutTo(kv[s], n)
            q == SubSeq(cache[s], 1, n)
<1>4. /\ n \in Nat /\ n < Len(p) /\ n <= Len(cache[s])
      /\ k \in Seq(Cells) /\ Len(k) = n /\ Pruned(k) /\ Near(k) /\ Exact(q, k, <<>>)
      /\ \A i \in 1 .. n : k[i] \in {p[i], Gone}
    BY <1>3, AdmissionCut
<1>5. p \in Seq(Tokens) /\ Len(p) \in Nat /\ Len(p) < NCtx
    BY PromptType
<1>6. q \in Seq(Tokens)
    <2>1. cache[s] \in Seq(Tokens) /\ Len(cache[s]) \in Nat
        BY <1>3, SlotType
    <2>. HIDE DEF n
    <2>. QED BY <1>4, <2>1, FirstOf
<1>7. /\ kv' = [kv EXCEPT ![s] = k] /\ cache' = [cache EXCEPT ![s] = q]
      /\ n_past' = [n_past EXCEPT ![s] = n]
    BY <1>1
<1>. HIDE DEF n, k, q
<1>8. TypeOK'
    BY <1>1, <1>2, <1>3, <1>4, <1>5, <1>6, <1>7 DEF TypeOK, States
<1>9. /\ state'[s] = "PREFILL" /\ prompt'[s] = p /\ ~has_media'[s] /\ ~truncated'[s]
      /\ cache'[s] = q /\ n_past'[s] = n /\ pend'[s] = <<>> /\ kv'[s] = k
    BY <1>1, <1>2, <1>3, <1>7 DEF TypeOK, Working
<1>10. Local(s)'
    <2>1. Pruned(kv[s])'
        BY <1>2, <1>4, <1>9 DEF Pruned
    <2>2. Working(s)'
        BY <1>2, <1>4, <1>5, <1>9, Empty DEF Working
    <2>3. Mirroring(s)'
        BY <1>4, <1>9 DEF Mirroring, Exact
    <2>4. Prompted(s)'
        <3>1. Near(kv[s])'
            BY <1>2, <1>4, <1>9 DEF Near
        <3>. QED BY <1>4, <1>9, <3>1, Empty DEF Prompted
    <2>. QED BY <2>1, <2>2, <2>3, <2>4 DEF Local
<1>11. ASSUME NEW t \in Slots \ {s} PROVE Local(t)'
    <2>1. Same(t)
        BY <1>1, <1>2, <1>3, <1>7 DEF Same, TypeOK
    <2>2. Local(t) /\ pend[t] = <<>>
        BY <1>2, NonePending DEF Inv
    <2>. QED BY <1>2, <2>1, <2>2, SameKept
<1>. QED BY <1>8, <1>10, <1>11 DEF Inv

\* A media prompt fills the sequence with positions no mirror has.
LEMMA AdmitMediaKept == ASSUME Inv, NEW s \in Slots, AdmitMedia(s) PROVE Inv'
<1>1. PICK n \in 0 .. NCtx - 1 :
         /\ kv' = [kv EXCEPT ![s] = [i \in 1 .. n |-> Image]]
         /\ \/ Finish({s})
            \/ /\ n > 0
               /\ state' = [state EXCEPT ![s] = "GENERATE"]
               /\ has_media' = [has_media EXCEPT ![s] = TRUE]
               /\ n_past' = [n_past EXCEPT ![s] = n]
               /\ \E t \in Tokens : sampled' = [sampled EXCEPT ![s] = <<t>>]
               /\ UNCHANGED <<prompt, truncated, order>>
    BY DEF AdmitMedia
<1>2. /\ pc = "admit" /\ pc' = pc /\ conf' = conf /\ pend' = pend /\ conf.media
      /\ cache' = [cache EXCEPT ![s] = <<>>]
    BY DEF AdmitMedia
<1>3. TypeOK /\ Local(s) /\ pend[s] = <<>>
    BY <1>2, NonePending DEF Inv
<1>. DEFINE k == [i \in 1 .. n |-> Image]
<1>4. n \in Nat
    BY SlotCacheAssumption
<1>5. k \in Seq(Cells) /\ Len(k) = n /\ \A i \in 1 .. n : k[i] # Gone
    BY <1>4, SlotCacheAssumption DEF Cells
<1>6. kv' = [kv EXCEPT ![s] = k]
    BY <1>1
<1>. HIDE DEF k
<1>7. Pruned(k)
    <2>1. 0 \in 0 .. Len(k) /\ \A i \in 1 .. Len(k) : k[i] = Gone <=> i <= 0
        BY <1>4, <1>5
    <2>. QED BY <2>1 DEF Pruned
<1>8. /\ kv' \in [Slots -> Seq(Cells)] /\ kv'[s] = k
      /\ cache' \in [Slots -> Seq(Tokens)] /\ cache'[s] = <<>>
      /\ \A t \in Slots \ {s} : kv'[t] = kv[t] /\ cache'[t] = cache[t]
    BY <1>2, <1>3, <1>5, <1>6, Empty DEF TypeOK
<1>9. ASSUME NEW t \in Slots \ {s}, \A u \in Slots \ {s} :
                /\ state'[u] = state[u] /\ prompt'[u] = prompt[u] /\ has_media'[u] = has_media[u]
                /\ sampled'[u] = sampled[u] /\ n_past'[u] = n_past[u]
                /\ truncated'[u] = truncated[u]
      PROVE Local(t)'
    <2>1. Local(t) /\ pend[t] = <<>>
        BY <1>2, NonePending DEF Inv
    <2>2. Same(t)
        BY <1>2, <1>8, <1>9 DEF Same
    <2>. QED BY <1>2, <2>1, <2>2, SameKept
<1>10. CASE Finish({s})
    <2>1. {s} \in SUBSET Slots
        OBVIOUS
    <2>2. TypeOK'
        BY <1>2, <1>3, <1>8, <1>10, <2>1, Finishing DEF TypeOK
    <2>3. Local(s)'
        <3>1. state'[s] = "IDLE" /\ ~has_media'[s] /\ ~truncated'[s]
            BY <1>3, <1>10, <2>1, Finishing
        <3>. QED BY <1>2, <1>3, <1>7, <1>8, <3>1, FinishedKept
    <2>4. \A u \in Slots \ {s} :
                /\ state'[u] = state[u] /\ prompt'[u] = prompt[u] /\ has_media'[u] = has_media[u]
                /\ sampled'[u] = sampled[u] /\ n_past'[u] = n_past[u]
                /\ truncated'[u] = truncated[u]
        BY <1>3, <1>10, <2>1, Finishing
    <2>. QED BY <1>9, <2>2, <2>3, <2>4 DEF Inv
<1>11. CASE /\ n > 0
            /\ state' = [state EXCEPT ![s] = "GENERATE"]
            /\ has_media' = [has_media EXCEPT ![s] = TRUE]
            /\ n_past' = [n_past EXCEPT ![s] = n]
            /\ \E t \in Tokens : sampled' = [sampled EXCEPT ![s] = <<t>>]
            /\ UNCHANGED <<prompt, truncated, order>>
    <2>1. PICK t \in Tokens : sampled' = [sampled EXCEPT ![s] = <<t>>]
        BY <1>11
    <2>2. <<t>> \in Seq(Tokens) /\ Len(<<t>>) = 1
        OBVIOUS
    <2>3. TypeOK'
        BY <1>2, <1>3, <1>4, <1>8, <1>11, <2>1, <2>2 DEF TypeOK, States
    <2>4. /\ state'[s] = "GENERATE" /\ has_media'[s] /\ n_past'[s] = n /\ sampled'[s] = <<t>>
        BY <1>3, <1>11, <2>1 DEF TypeOK
    <2>5. Local(s)'
        <3>1. Pruned(kv[s])'
            BY <1>2, <1>7, <1>8 DEF Pruned
        <3>2. Working(s)'
            BY <1>2, <1>3, <1>4, <1>5, <1>8, <2>2, <2>4, Empty DEF Working
        <3>3. Mirroring(s)' /\ Prompted(s)'
            BY <1>8, <2>4 DEF Mirroring, Prompted
        <3>. QED BY <3>1, <3>2, <3>3 DEF Local
    <2>6. \A u \in Slots \ {s} :
                /\ state'[u] = state[u] /\ prompt'[u] = prompt[u] /\ has_media'[u] = has_media[u]
                /\ sampled'[u] = sampled[u] /\ n_past'[u] = n_past[u]
                /\ truncated'[u] = truncated[u]
        BY <1>3, <1>11, <2>1 DEF TypeOK
    <2>. QED BY <1>9, <2>3, <2>5, <2>6 DEF Inv
<1>. QED BY <1>1, <1>10, <1>11

\* The rows build_batch() may take for a slot.
LEMMA RowsOf ==
    ASSUME TypeOK, NEW s \in Slots, Working(s), NEW r \in Rows(s)
    PROVE  /\ r \in Seq(Tokens) /\ Len(r) \in Nat
           /\ state[s] = "IDLE" => r = <<>>
           /\ state[s] = "PREFILL" =>
                /\ n_past[s] + Len(r) <= Len(prompt[s])
                /\ \A i \in 1 .. Len(r) : r[i] = prompt[s][n_past[s] + i]
<1>1. state[s] \in States
    BY SlotType
<1>2. CASE state[s] = "GENERATE"
    <2>1. Rows(s) = {sampled[s]}
        BY <1>2, Zenon DEF Rows
    <2>. QED BY <1>2, <2>1, SlotType
<1>3. CASE state[s] = "PREFILL"
    <2>1. Rows(s) = {SubSeq(prompt[s], n_past[s] + 1, n) : n \in n_past[s] .. Len(prompt[s])}
        <3>1. state[s] # "GENERATE"
            BY <1>3
        <3>. QED BY <1>3, <3>1, Zenon DEF Rows
    <2>2. PICK n \in n_past[s] .. Len(prompt[s]) : r = SubSeq(prompt[s], n_past[s] + 1, n)
        BY <2>1
    <2>3. /\ prompt[s] \in Seq(Tokens) /\ Len(prompt[s]) \in Nat /\ n_past[s] \in Nat
          /\ n_past[s] <= Len(prompt[s])
        BY <1>3, SlotType DEF Working
    <2>4. n_past[s] + 1 \in 1 .. Len(prompt[s]) + 1 /\ n \in n_past[s] + 1 - 1 .. Len(prompt[s])
        BY <2>3
    <2>5. /\ r \in Seq(Tokens) /\ Len(r) = n - (n_past[s] + 1) + 1
          /\ \A i \in 1 .. n - (n_past[s] + 1) + 1 : r[i] = prompt[s][n_past[s] + 1 + i - 1]
        <3>. DEFINE p == prompt[s]
                    m == n_past[s] + 1
        <3>1. p \in Seq(Tokens) /\ m \in 1 .. Len(p) + 1 /\ n \in m - 1 .. Len(p)
            BY <2>3, <2>4
        <3>2. r = SubSeq(p, m, n)
            BY <2>2
        <3>. HIDE DEF p, m
        <3>3. /\ SubSeq(p, m, n) \in Seq(Tokens) /\ Len(SubSeq(p, m, n)) = n - m + 1
              /\ \A i \in 1 .. n - m + 1 : SubSeq(p, m, n)[i] = p[m + i - 1]
            BY <3>1, PartOf
        <3>. QED BY <3>2, <3>3 DEF p, m
    <2>6. n - (n_past[s] + 1) + 1 = n - n_past[s]
        BY <2>3
    <2>7. ASSUME NEW i \in 1 .. Len(r) PROVE r[i] = prompt[s][n_past[s] + i]
        <3>1. n_past[s] + 1 + i - 1 = n_past[s] + i
            BY <2>3
        <3>2. r[i] = prompt[s][n_past[s] + 1 + i - 1]
            BY <2>5
        <3>. QED BY <3>1, <3>2
    <2>8. Len(r) = n - n_past[s]
        BY <2>5, <2>6
    <2>. QED BY <1>3, <2>3, <2>5, <2>7, <2>8
<1>4. CASE state[s] = "IDLE"
    <2>1. state[s] # "GENERATE" /\ state[s] # "PREFILL"
        BY <1>4
    <2>2. Rows(s) = {<<>>}
        BY <2>1, Zenon DEF Rows
    <2>. QED BY <1>4, <2>2, Empty
<1>. QED BY <1>1, <1>2, <1>3, <1>4 DEF States

\* A batch is built: the mirrors take its rows.
LEMMA BuildKept == ASSUME Inv, Build PROVE Inv'
<1>1. /\ pc = "admit" /\ pc' = "decode" /\ conf' = conf /\ state' = state /\ prompt' = prompt
      /\ has_media' = has_media /\ sampled' = sampled /\ truncated' = truncated /\ kv' = kv
      /\ cache' = [s \in Slots |-> Mirrored(s, pend'[s])]
      /\ n_past' = [s \in Slots |-> n_past[s] + Len(pend'[s])]
      /\ \A s \in Slots : pend'[s] \in Rows(s)
    BY DEF Build
<1>2. \E S : pend' \in [Slots -> S]
    BY DEF Build
<1>3. TypeOK /\ \A s \in Slots : Local(s) /\ Working(s)
    BY DEF Inv, Local
<1>4. \A s \in Slots :
        /\ pend'[s] \in Seq(Tokens) /\ Len(pend'[s]) \in Nat
        /\ state[s] = "IDLE" => pend'[s] = <<>>
        /\ state[s] = "PREFILL" =>
             /\ n_past[s] + Len(pend'[s]) <= Len(prompt[s])
             /\ \A i \in 1 .. Len(pend'[s]) : pend'[s][i] = prompt[s][n_past[s] + i]
    BY <1>1, <1>3, RowsOf
<1>5. pend' \in [Slots -> Seq(Tokens)]
    BY <1>2, <1>4
<1>6. \A s \in Slots : cache'[s] = IF has_media[s] THEN cache[s] ELSE cache[s] \o pend'[s]
    BY <1>1, Zenon DEF Mirrored
<1>7. \A s \in Slots : n_past'[s] = n_past[s] + Len(pend'[s])
    BY <1>1
<1>8. TypeOK'
    <2>1. \A s \in Slots : cache'[s] \in Seq(Tokens)
        <3>. SUFFICES ASSUME NEW s \in Slots PROVE cache'[s] \in Seq(Tokens)
            OBVIOUS
        <3>1. cache[s] \in Seq(Tokens) /\ pend'[s] \in Seq(Tokens)
            BY <1>3, <1>4, SlotType
        <3>2. cache[s] \o pend'[s] \in Seq(Tokens)
            BY <3>1, ConcatProperties
        <3>. QED BY <1>6, <3>1, <3>2
    <2>2. cache' \in [Slots -> Seq(Tokens)]
        BY <1>1, <2>1
    <2>3. n_past' \in [Slots -> Nat]
        BY <1>1, <1>3, <1>4, SlotType
    <2>. QED BY <1>1, <1>3, <1>5, <2>2, <2>3 DEF TypeOK
<1>9. ASSUME NEW s \in Slots PROVE Local(s)'
    <2>1. /\ Working(s) /\ Mirroring(s) /\ Prompted(s) /\ Pruned(kv[s])
        BY <1>3 DEF Local
    <2>2. pend[s] = <<>> /\ Len(pend[s]) = 0
        BY <1>1, NonePending
    <2>3. /\ Len(kv[s]) \in Nat /\ n_past[s] \in Nat /\ cache[s] \in Seq(Tokens)
          /\ kv[s] \in Seq(Cells)
        BY <1>3, SlotType
    <2>4. /\ state'[s] = state[s] /\ prompt'[s] = prompt[s] /\ has_media'[s] = has_media[s]
          /\ sampled'[s] = sampled[s] /\ truncated'[s] = truncated[s] /\ kv'[s] = kv[s]
        BY <1>1
    <2>5. Pruned(kv[s])'
        BY <1>1, <2>1 DEF Pruned
    <2>6. Working(s)'
        <3>1. /\ Len(pend'[s]) \in Nat /\ (state[s] = "IDLE" => pend'[s] = <<>>)
              /\ state[s] = "PREFILL" => n_past[s] + Len(pend'[s]) <= Len(prompt[s])
            BY <1>4
        <3>2. n_past'[s] = n_past[s] + Len(pend'[s])
            BY <1>7
        <3>3. pc' = "decode" /\ conf' = conf
            BY <1>1
        <3>4. state[s] # "IDLE" => Len(kv[s]) + Len(pend'[s]) = n_past'[s]
            <4>1. state[s] # "IDLE" => Len(kv[s]) + Len(pend[s]) = n_past[s]
                BY <2>1, Zenon DEF Working
            <4>2. state[s] # "IDLE" => Len(kv[s]) = n_past[s]
                <5>1. Len(kv[s]) + 0 = Len(kv[s])
                    BY <2>3
                <5>. QED BY <2>2, <4>1, <5>1, Zenon
            <4>. QED BY <3>2, <4>2, Zenon
        <3>5. state[s] = "PREFILL" => n_past'[s] <= Len(prompt[s])
            BY <3>1, <3>2
        <3>6. /\ state[s] = "IDLE" => ~has_media[s] /\ ~truncated[s]
              /\ state[s] = "PREFILL" =>
                   ~has_media[s] /\ ~truncated[s] /\ Len(prompt[s]) < NCtx
              /\ state[s] = "GENERATE" => Len(sampled[s]) = 1
              /\ has_media[s] => conf.media
            BY <2>1 DEF Working
        <3>. QED BY <2>4, <3>1, <3>3, <3>4, <3>5, <3>6 DEF Working
    <2>7. Mirroring(s)'
        <3>1. CASE has_media[s]
            <4>1. cache[s] = <<>>
                BY <2>1, <3>1 DEF Mirroring, Working
            <4>. QED BY <1>6, <2>4, <3>1, <4>1 DEF Mirroring
        <3>2. CASE ~has_media[s] /\ Exact(cache[s], kv[s], pend[s])
            <4>1. Exact(cache[s] \o pend'[s], kv[s], pend'[s])
                BY <1>4, <2>2, <2>3, <3>2, AppendedExact
            <4>2. cache'[s] = cache[s] \o pend'[s]
                BY <1>6, <3>2
            <4>. QED BY <2>4, <3>2, <4>1, <4>2 DEF Mirroring, Exact
        <3>3. CASE ~has_media[s] /\ state[s] = "IDLE" /\ (kv[s] = <<>> \/ cache[s] = <<>>)
            <4>1. cache'[s] = cache[s] \o <<>>
                BY <1>4, <1>6, <3>3
            <4>2. cache[s] \o <<>> = cache[s]
                BY <2>3, ConcatEmptySeq
            <4>. QED BY <2>4, <3>3, <4>1, <4>2 DEF Mirroring
        <3>. QED BY <2>1, <3>1, <3>2, <3>3 DEF Mirroring
    <2>8. Prompted(s)'
        <3>1. state[s] # "IDLE" => Len(kv[s]) = n_past[s]
            BY <2>1, <2>2, <2>3 DEF Working
        <3>2. Near(kv[s])' <=> Near(kv[s])
            BY <1>1 DEF Near
        <3>. QED BY <1>4, <2>1, <2>4, <3>1, <3>2 DEF Prompted
    <2>. QED BY <2>5, <2>6, <2>7, <2>8 DEF Local
<1>. QED BY <1>8, <1>9 DEF Inv

\* An empty round.
LEMMA BuildNothingKept == ASSUME Inv, BuildNothing PROVE Inv'
<1>1. /\ pc = "admit" /\ pc' = "cancel" /\ conf' = conf /\ state' = state /\ prompt' = prompt
      /\ has_media' = has_media /\ sampled' = sampled /\ cache' = cache /\ n_past' = n_past
      /\ truncated' = truncated /\ pend' = pend /\ kv' = kv
    BY DEF BuildNothing, slotvars
<1>2. TypeOK'
    BY <1>1 DEF Inv, TypeOK
<1>3. ASSUME NEW s \in Slots PROVE Local(s)'
    <2>1. Local(s) /\ pend[s] = <<>>
        BY <1>1, NonePending DEF Inv
    <2>2. Same(s)
        BY <1>1 DEF Same
    <2>. QED BY <1>1, <2>1, <2>2, SameKept
<1>. QED BY <1>2, <1>3 DEF Inv

\* The rows that are decoded carry on the prompt, or come after it.
LEMMA ExtendedPrompted ==
    ASSUME TypeOK, NEW p \in Seq(Tokens), NEW old \in Seq(Cells), NEW new \in Seq(Tokens),
           \A i \in 1 .. Len(old) : i <= Len(p) => old[i] \in {p[i], Gone},
           Len(old) >= Len(p) \/ \A i \in 1 .. Len(new) : new[i] = p[Len(old) + i]
    PROVE  \A i \in 1 .. Len(Extended(old, new)) :
             i <= Len(p) => Extended(old, new)[i] \in {p[i], Gone}
<1>. DEFINE k == Extended(old, new)
<1>1. Len(old) \in Nat /\ Len(new) \in Nat /\ Len(p) \in Nat
    BY LenProperties
<1>2. /\ Len(k) = Len(old) + Len(new)
      /\ \A i \in 1 .. Len(old) : k[i] \in {old[i], Gone}
      /\ \A i \in 1 .. Len(new) : k[Len(old) + i] = new[i]
    BY Extending
<1>. HIDE DEF k
<1>3. ASSUME NEW i \in 1 .. Len(k), i <= Len(p) PROVE k[i] \in {p[i], Gone}
    <2>1. CASE i <= Len(old)
        <3>1. i \in 1 .. Len(old)
            BY <1>1, <1>2, <2>1
        <3>2. old[i] \in {p[i], Gone} /\ k[i] \in {old[i], Gone}
            BY <1>2, <1>3, <3>1
        <3>. QED BY <3>2
    <2>2. CASE ~(i <= Len(old))
        <3>1. i - Len(old) \in 1 .. Len(new) /\ Len(old) + (i - Len(old)) = i
            BY <1>1, <1>2, <2>2
        <3>2. ~(Len(old) >= Len(p))
            BY <1>1, <1>2, <1>3, <2>2
        <3>3. /\ new[i - Len(old)] = p[Len(old) + (i - Len(old))]
              /\ k[Len(old) + (i - Len(old))] = new[i - Len(old)]
            BY <1>2, <3>1, <3>2
        <3>. QED BY <3>1, <3>3
    <2>. QED BY <2>1, <2>2
<1>. QED BY <1>3 DEF k

\* The sequence after its rows of the batch are decoded.
LEMMA Decoded ==
    ASSUME Inv, NEW s \in Slots, pend[s] # <<>>
    PROVE  LET k == Extended(kv[s], pend[s]) IN
             /\ state[s] \in {"PREFILL", "GENERATE"}
             /\ k \in Seq(Cells) /\ Len(k) = n_past[s] /\ Pruned(k)
             /\ (has_media[s] /\ cache[s] = <<>>) \/ (~has_media[s] /\ Exact(cache[s], k, <<>>))
             /\ ~has_media[s] /\ ~truncated[s] =>
                  /\ \A i \in 1 .. Len(k) : i <= Len(prompt[s]) => k[i] \in {prompt[s][i], Gone}
                  /\ state[s] = "GENERATE" => Len(k) >= Len(prompt[s])
                  /\ Near(k)
<1>. DEFINE k == Extended(kv[s], pend[s])
<1>1. TypeOK /\ Working(s) /\ Mirroring(s) /\ Prompted(s) /\ Pruned(kv[s])
    BY DEF Inv, Local
<1>2. /\ kv[s] \in Seq(Cells) /\ pend[s] \in Seq(Tokens) /\ cache[s] \in Seq(Tokens)
      /\ prompt[s] \in Seq(Tokens)
    BY <1>1, SlotType
<1>3. state[s] \in {"PREFILL", "GENERATE"} /\ state[s] # "IDLE"
    BY <1>1, SlotType DEF Working, States
<1>4. k \in Seq(Cells) /\ Len(k) = Len(kv[s]) + Len(pend[s])
    BY <1>1, <1>2, Extending
<1>5. Len(k) = n_past[s]
    BY <1>1, <1>3, <1>4, Zenon DEF Working
<1>6. Pruned(k)
    BY <1>1, <1>2, ExtendedPruned
<1>7. \/ has_media[s] /\ cache[s] = <<>>
      \/ ~has_media[s] /\ Exact(cache[s], k, <<>>)
    <2>1. \/ has_media[s] /\ cache[s] = <<>>
          \/ ~has_media[s] /\ Exact(cache[s], kv[s], pend[s])
        BY <1>1, <1>3, Zenon DEF Mirroring
    <2>2. Exact(cache[s], kv[s], pend[s]) => Exact(cache[s], k, <<>>)
        BY <1>1, <1>2, ExtendedExact
    <2>. QED BY <2>1, <2>2, Zenon
<1>8. ASSUME ~has_media[s], ~truncated[s]
      PROVE  /\ \A i \in 1 .. Len(k) : i <= Len(prompt[s]) => k[i] \in {prompt[s][i], Gone}
             /\ state[s] = "GENERATE" => Len(k) >= Len(prompt[s])
             /\ Near(k)
    <2>1. /\ \A i \in 1 .. Len(kv[s]) : i <= Len(prompt[s]) => kv[s][i] \in {prompt[s][i], Gone}
          /\ state[s] = "PREFILL" =>
               \A i \in 1 .. Len(pend[s]) : pend[s][i] = prompt[s][Len(kv[s]) + i]
          /\ state[s] = "GENERATE" => Len(kv[s]) >= Len(prompt[s])
          /\ Near(kv[s])
        BY <1>1, <1>3, <1>8, Zenon DEF Prompted
    <2>2. \/ Len(kv[s]) >= Len(prompt[s])
          \/ \A i \in 1 .. Len(pend[s]) : pend[s][i] = prompt[s][Len(kv[s]) + i]
        BY <1>3, <2>1, Zenon
    <2>3. \A i \in 1 .. Len(k) : i <= Len(prompt[s]) => k[i] \in {prompt[s][i], Gone}
        BY <1>1, <1>2, <2>1, <2>2, ExtendedPrompted
    <2>4. \A a, b, c, d : a \in Nat /\ b \in Nat /\ c \in Nat /\ d = a + b /\ a >= c => d >= c
        OBVIOUS
    <2>5. Len(kv[s]) \in Nat /\ Len(pend[s]) \in Nat /\ Len(prompt[s]) \in Nat
        BY <1>1, SlotType
    <2>6. state[s] = "GENERATE" => Len(k) >= Len(prompt[s])
        BY <1>4, <2>1, <2>4, <2>5, Zenon
    <2>7. Near(k)
        BY <1>1, <1>2, <2>1, ExtendedNear
    <2>. QED BY <2>3, <2>6, <2>7
<1>. QED BY <1>3, <1>4, <1>5, <1>6, <1>7, <1>8

\* A slot that has room again, or never lacked it.
LEMMA RoomMade ==
    ASSUME Inv, NEW s \in Slots, pend[s] # <<>>, MakeRoom(s, Extended(kv[s], pend[s]))
    PROVE  \E k \in Seq(Cells), q \in Seq(Tokens) :
             /\ kv' = [kv EXCEPT ![s] = k] /\ cache' = [cache EXCEPT ![s] = q]
             /\ Pruned(k)
             /\ (has_media[s] /\ q = <<>>) \/ (~has_media[s] /\ Exact(q, k, <<>>))
             /\ Len(k) = IF AtLimit(s) THEN n_past[s] - Discarded ELSE n_past[s]
             /\ AtLimit(s) => state[s] = "GENERATE"
             /\ ~AtLimit(s) => k = Extended(kv[s], pend[s])
<1>. DEFINE k == Extended(kv[s], pend[s])
<1>1. TypeOK /\ Working(s)
    BY DEF Inv, Local
<1>2. /\ state[s] \in {"PREFILL", "GENERATE"}
      /\ k \in Seq(Cells) /\ Len(k) = n_past[s] /\ Pruned(k)
      /\ (has_media[s] /\ cache[s] = <<>>) \/ (~has_media[s] /\ Exact(cache[s], k, <<>>))
    BY Decoded
<1>3. cache[s] \in Seq(Tokens) /\ n_past[s] \in Nat /\ NCtx \in Nat /\ Len(prompt[s]) \in Nat
    BY <1>1, SlotType, ShiftSizes
<1>. HIDE DEF k
<1>4. CASE AtLimit(s)
    <2>1. /\ conf.shift /\ kv' = [kv EXCEPT ![s] = Shifted(k)]
          /\ cache' = [cache EXCEPT ![s] = Shifted(cache[s])]
        BY <1>4, Zenon DEF MakeRoom, CacheShifted, k
    <2>2. ~has_media[s]
        BY <1>1, <2>1, ConfType DEF Working
    <2>3. Len(k) >= NCtx
        BY <1>2, <1>4 DEF AtLimit
    <2>4. Exact(cache[s], k, <<>>) /\ Len(cache[s]) >= NCtx
        BY <1>2, <2>2, <2>3, Empty, LenProperties DEF Exact
    <2>5. Exact(Shifted(cache[s]), Shifted(k), <<>>)
        BY <1>2, <1>3, <2>3, <2>4, ShiftedExact
    <2>6. Pruned(Shifted(k))
        BY <1>1, <1>2, <2>1, <2>3, ShiftedPruned
    <2>7. /\ Shifted(k) \in Seq(Cells) /\ Len(Shifted(k)) = Len(k) - Discarded
          /\ Shifted(cache[s]) \in Seq(Tokens)
        BY <1>2, <1>3, <2>3, <2>4, Shifting
    <2>8. state[s] = "GENERATE"
        BY <1>1, <1>2, <1>3, <1>4 DEF Working, AtLimit
    <2>. QED BY <1>2, <1>4, <2>1, <2>2, <2>5, <2>6, <2>7, <2>8
<1>5. CASE ~AtLimit(s)
    <2>1. kv' = [kv EXCEPT ![s] = k] /\ cache' = cache
        BY <1>5, Zenon DEF MakeRoom, k
    <2>2. cache' = [cache EXCEPT ![s] = cache[s]]
        BY <1>1, <2>1 DEF TypeOK
    <2>. QED BY <1>2, <1>3, <1>5, <2>1, <2>2 DEF k
<1>. QED BY <1>4, <1>5

\* The slots whose rows are not decoded in this step keep what they have.
LEMMA OthersKept ==
    ASSUME Inv, NEW s \in Slots, NEW t \in Slots \ {s}, conf' = conf,
           pend' = [pend EXCEPT ![s] = <<>>],
           pc' = IF \E u \in Slots : pend'[u] # <<>> THEN "decode" ELSE "cancel",
           kv'[t] = kv[t], cache'[t] = cache[t],
           state'[t] = state[t], prompt'[t] = prompt[t], has_media'[t] = has_media[t],
           sampled'[t] = sampled[t], n_past'[t] = n_past[t], truncated'[t] = truncated[t]
    PROVE  Local(t)'
<1>1. pend'[t] = pend[t] /\ Local(t)
    BY DEF Inv, TypeOK
<1>2. pc' # "decode" => pend[t] = <<>>
    BY <1>1
<1>3. Same(t)
    BY <1>1 DEF Same
<1>. QED BY <1>1, <1>2, <1>3, SameKept

\* A slot whose rows were decoded goes on with its prompt.
LEMMA PrefillGoesOn ==
    ASSUME Inv, NEW s \in Slots, pend[s] # <<>>, ~Logits(s), conf' = conf,
           kv'[s] = Extended(kv[s], pend[s]), cache'[s] = cache[s], pend'[s] = <<>>,
           state'[s] = state[s], prompt'[s] = prompt[s], has_media'[s] = has_media[s],
           sampled'[s] = sampled[s], n_past'[s] = n_past[s], truncated'[s] = truncated[s]
    PROVE  Local(s)'
<1>. DEFINE k == Extended(kv[s], pend[s])
<1>1. TypeOK /\ Working(s)
    BY DEF Inv, Local
<1>2. /\ state[s] \in {"PREFILL", "GENERATE"}
      /\ k \in Seq(Cells) /\ Len(k) = n_past[s] /\ Pruned(k)
      /\ (has_media[s] /\ cache[s] = <<>>) \/ (~has_media[s] /\ Exact(cache[s], k, <<>>))
      /\ ~has_media[s] /\ ~truncated[s] =>
           /\ \A i \in 1 .. Len(k) : i <= Len(prompt[s]) => k[i] \in {prompt[s][i], Gone}
           /\ Near(k)
    BY Decoded
<1>3. state[s] = "PREFILL"
    BY <1>2 DEF Logits
<1>4. kv'[s] = k
    OBVIOUS
<1>5. n_past[s] \in Nat
    BY <1>1, SlotType
<1>. HIDE DEF k
<1>6. Pruned(kv[s])'
    BY <1>2, <1>4 DEF Pruned
<1>7. Working(s)'
    <2>1. ~has_media[s] /\ ~truncated[s] /\ n_past[s] <= Len(prompt[s]) /\ Len(prompt[s]) < NCtx
        BY <1>1, <1>3 DEF Working
    <2>2. Len(k) + Len(<<>>) = n_past[s]
        BY <1>2, <1>5, Empty
    <2>. QED BY <1>3, <1>4, <2>1, <2>2 DEF Working
<1>8. Mirroring(s)'
    <2>1. ~has_media[s] /\ Exact(cache[s], k, <<>>)
        BY <1>1, <1>2, <1>3 DEF Working
    <2>. QED BY <1>4, <2>1 DEF Mirroring, Exact
<1>9. Prompted(s)'
    <2>1. /\ \A i \in 1 .. Len(k) : i <= Len(prompt[s]) => k[i] \in {prompt[s][i], Gone}
          /\ Near(k)
        BY <1>1, <1>2, <1>3 DEF Working
    <2>2. state'[s] = "PREFILL" /\ Len(<<>>) = 0
        BY <1>3, Empty
    <2>3. Near(kv[s])'
        BY <1>4, <2>1 DEF Near
    <2>. QED BY <1>4, <2>1, <2>2, <2>3 DEF Prompted
<1>. QED BY <1>6, <1>7, <1>8, <1>9 DEF Local

\* A slot that sampled a token goes on with it.
LEMMA GenerationGoesOn ==
    ASSUME Inv, NEW s \in Slots, pend[s] # <<>>, Logits(s), conf' = conf,
           MakeRoom(s, Extended(kv[s], pend[s])), pend'[s] = <<>>,
           state'[s] = "GENERATE", prompt'[s] = prompt[s], has_media'[s] = has_media[s],
           Len(sampled'[s]) = 1,
           n_past'[s] = IF AtLimit(s) THEN n_past[s] - Discarded ELSE n_past[s],
           truncated'[s] <=> truncated[s] \/ AtLimit(s)
    PROVE  Local(s)'
<1>1. TypeOK /\ Working(s)
    BY DEF Inv, Local
<1>2. PICK k \in Seq(Cells), q \in Seq(Tokens) :
             /\ kv' = [kv EXCEPT ![s] = k] /\ cache' = [cache EXCEPT ![s] = q]
             /\ Pruned(k)
             /\ (has_media[s] /\ q = <<>>) \/ (~has_media[s] /\ Exact(q, k, <<>>))
             /\ Len(k) = IF AtLimit(s) THEN n_past[s] - Discarded ELSE n_past[s]
             /\ AtLimit(s) => state[s] = "GENERATE"
             /\ ~AtLimit(s) => k = Extended(kv[s], pend[s])
    BY RoomMade
<1>3. kv'[s] = k /\ cache'[s] = q
    BY <1>1, <1>2 DEF TypeOK
<1>4. n_past[s] \in Nat /\ Len(k) \in Nat /\ Len(k) = n_past'[s]
    BY <1>1, <1>2, SlotType, LenProperties
<1>5. Pruned(kv[s])'
    BY <1>2, <1>3 DEF Pruned
<1>6. Working(s)'
    <2>1. has_media[s] => conf.media
        BY <1>1 DEF Working
    <2>2. Len(k) + Len(<<>>) = n_past'[s]
        BY <1>4, Empty
    <2>. QED BY <1>3, <2>1, <2>2 DEF Working
<1>7. Mirroring(s)'
    BY <1>2, <1>3 DEF Mirroring, Exact
<1>8. ASSUME ~has_media[s], ~truncated[s], ~AtLimit(s)
      PROVE  /\ \A i \in 1 .. Len(k) : i <= Len(prompt[s]) => k[i] \in {prompt[s][i], Gone}
             /\ Len(k) >= Len(prompt[s]) /\ Near(k)
    <2>1. k = Extended(kv[s], pend[s])
        BY <1>2, <1>8
    <2>2. /\ \A i \in 1 .. Len(k) : i <= Len(prompt[s]) => k[i] \in {prompt[s][i], Gone}
          /\ state[s] = "GENERATE" => Len(k) >= Len(prompt[s])
          /\ Near(k)
        BY <1>8, <2>1, Decoded
    <2>3. state[s] # "GENERATE" => Len(k) >= Len(prompt[s])
        <3>1. state[s] # "GENERATE" => n_past[s] = Len(prompt[s])
            BY DEF Logits
        <3>2. Len(k) = n_past[s]
            BY <1>2, <1>8
        <3>. QED BY <1>4, <3>1, <3>2
    <2>. QED BY <2>2, <2>3
<1>9. Prompted(s)'
    <2>1. ~has_media'[s] /\ ~truncated'[s] => ~has_media[s] /\ ~truncated[s] /\ ~AtLimit(s)
        OBVIOUS
    <2>2. ~has_media'[s] /\ ~truncated'[s] => Near(kv[s])'
        BY <1>3, <1>8, <2>1 DEF Near
    <2>. QED BY <1>3, <1>8, <2>1, <2>2 DEF Prompted
<1>. QED BY <1>5, <1>6, <1>7, <1>9 DEF Local

\* A slot's rows are decoded: it goes on, or is finished.
LEMMA DecodeKept == ASSUME Inv, NEW s \in Slots, Decode(s) PROVE Inv'
<1>. DEFINE k == Extended(kv[s], pend[s])
<1>1. /\ pend[s] # <<>> /\ conf' = conf
      /\ pend' = [pend EXCEPT ![s] = <<>>]
      /\ pc' = IF \E t \in Slots : pend'[t] # <<>> THEN "decode" ELSE "cancel"
    BY DEF Decode
<1>2. TypeOK /\ Working(s)
    BY DEF Inv, Local
<1>3. /\ k \in Seq(Cells) /\ Len(k) = n_past[s] /\ Pruned(k)
      /\ (has_media[s] /\ cache[s] = <<>>) \/ (~has_media[s] /\ Exact(cache[s], k, <<>>))
    BY <1>1, Decoded
<1>4. pend' \in [Slots -> Seq(Tokens)] /\ pend'[s] = <<>> /\ pc' \in {"cancel", "admit", "decode"}
    BY <1>1, <1>2, Empty DEF TypeOK
<1>5. \/ kv' = [kv EXCEPT ![s] = k] /\ cache' = cache
      \/ MakeRoom(s, k)
    BY Zenon DEF Decode
<1>. HIDE DEF k
<1>6. PICK new \in Seq(Cells), q \in Seq(Tokens) :
             /\ kv' = [kv EXCEPT ![s] = new] /\ cache' = [cache EXCEPT ![s] = q]
             /\ Pruned(new)
             /\ q = <<>> \/ Exact(q, new, <<>>)
    <2>1. CASE kv' = [kv EXCEPT ![s] = k] /\ cache' = cache
        <3>1. cache' = [cache EXCEPT ![s] = cache[s]] /\ cache[s] \in Seq(Tokens)
            BY <1>2, <2>1 DEF TypeOK
        <3>. QED BY <1>3, <2>1, <3>1
    <2>2. CASE MakeRoom(s, k)
        BY <1>1, <2>2, RoomMade DEF k
    <2>. QED BY <1>5, <2>1, <2>2
<1>7. /\ kv' \in [Slots -> Seq(Cells)] /\ kv'[s] = new
      /\ cache' \in [Slots -> Seq(Tokens)] /\ cache'[s] = q
      /\ \A t \in Slots \ {s} : kv'[t] = kv[t] /\ cache'[t] = cache[t]
    BY <1>2, <1>6 DEF TypeOK
<1>8. ASSUME \A t \in Slots \ {s} :
                /\ state'[t] = state[t] /\ prompt'[t] = prompt[t] /\ has_media'[t] = has_media[t]
                /\ sampled'[t] = sampled[t] /\ n_past'[t] = n_past[t]
                /\ truncated'[t] = truncated[t],
             TypeOK', Local(s)'
      PROVE  Inv'
    <2>1. \A t \in Slots \ {s} : Local(t)'
        BY <1>1, <1>7, <1>8, OthersKept
    <2>. QED BY <1>8, <2>1 DEF Inv
<1>9. CASE Finish({s})
    <2>1. {s} \in SUBSET Slots
        OBVIOUS
    <2>2. /\ state' \in [Slots -> States] /\ prompt' \in [Slots -> Seq(Tokens)]
          /\ has_media' \in [Slots -> BOOLEAN] /\ sampled' \in [Slots -> Seq(Tokens)]
          /\ n_past' \in [Slots -> Nat] /\ truncated' \in [Slots -> BOOLEAN]
          /\ state'[s] = "IDLE" /\ ~has_media'[s] /\ ~truncated'[s]
          /\ \A t \in Slots \ {s} :
                /\ state'[t] = state[t] /\ prompt'[t] = prompt[t] /\ has_media'[t] = has_media[t]
                /\ sampled'[t] = sampled[t] /\ n_past'[t] = n_past[t]
                /\ truncated'[t] = truncated[t]
        BY <1>2, <1>9, <2>1, Finishing
    <2>3. TypeOK'
        BY <1>1, <1>2, <1>4, <1>7, <2>2 DEF TypeOK
    <2>4. Local(s)'
        BY <1>1, <1>4, <1>6, <1>7, <2>2, FinishedKept
    <2>. QED BY <1>8, <2>2, <2>3, <2>4
<1>10. CASE /\ ~Logits(s) /\ kv' = [kv EXCEPT ![s] = k] /\ cache' = cache
            /\ UNCHANGED <<state, prompt, has_media, sampled, n_past, truncated, order>>
    <2>1. TypeOK'
        BY <1>1, <1>2, <1>4, <1>7, <1>10 DEF TypeOK
    <2>2. kv'[s] = k
        BY <1>2, <1>10 DEF TypeOK
    <2>3. Local(s)'
        BY <1>1, <1>4, <1>10, <2>2, PrefillGoesOn DEF k
    <2>. QED BY <1>8, <1>10, <2>1, <2>3
<1>11. CASE /\ Logits(s) /\ MakeRoom(s, k)
            /\ \E t \in Tokens : sampled' = [sampled EXCEPT ![s] = <<t>>]
            /\ state' = [state EXCEPT ![s] = "GENERATE"]
            /\ n_past' = [n_past EXCEPT ![s] = IF AtLimit(s) THEN @ - Discarded ELSE @]
            /\ truncated' = [truncated EXCEPT ![s] = @ \/ AtLimit(s)]
            /\ UNCHANGED <<prompt, has_media, order>>
    <2>1. PICK t \in Tokens : sampled' = [sampled EXCEPT ![s] = <<t>>]
        BY <1>11
    <2>2. <<t>> \in Seq(Tokens) /\ Len(<<t>>) = 1
        OBVIOUS
    <2>3. n_past[s] \in Nat
        BY <1>2, SlotType
    <2>. DEFINE m == IF AtLimit(s) THEN n_past[s] - Discarded ELSE n_past[s]
    <2>4. m \in Nat
        BY <2>3, ShiftSizes DEF AtLimit
    <2>5. n_past' = [n_past EXCEPT ![s] = m]
        BY <1>11
    <2>. HIDE DEF m
    <2>6. n_past' \in [Slots -> Nat] /\ n_past'[s] = m /\ \A u \in Slots \ {s} : n_past'[u] = n_past[u]
        BY <1>2, <2>4, <2>5 DEF TypeOK
    <2>7. /\ truncated' \in [Slots -> BOOLEAN] /\ truncated'[s] = (truncated[s] \/ AtLimit(s))
          /\ \A u \in Slots \ {s} : truncated'[u] = truncated[u]
        BY <1>2, <1>11 DEF TypeOK
    <2>8. /\ state' \in [Slots -> States] /\ state'[s] = "GENERATE"
          /\ \A u \in Slots \ {s} : state'[u] = state[u]
        BY <1>2, <1>11 DEF TypeOK, States
    <2>9. /\ sampled' \in [Slots -> Seq(Tokens)] /\ sampled'[s] = <<t>>
          /\ \A u \in Slots \ {s} : sampled'[u] = sampled[u]
        BY <1>2, <2>1, <2>2 DEF TypeOK
    <2>10. prompt' = prompt /\ has_media' = has_media
        BY <1>11
    <2>11. TypeOK'
        BY <1>1, <1>2, <1>4, <1>7, <2>6, <2>7, <2>8, <2>9, <2>10 DEF TypeOK
    <2>12. Local(s)'
        <3>1. Len(sampled'[s]) = 1 /\ prompt'[s] = prompt[s] /\ has_media'[s] = has_media[s]
            BY <2>2, <2>9, <2>10
        <3>2. MakeRoom(s, Extended(kv[s], pend[s])) /\ Logits(s)
            BY <1>11 DEF k
        <3>3. n_past'[s] = IF AtLimit(s) THEN n_past[s] - Discarded ELSE n_past[s]
            BY <2>6 DEF m
        <3>. QED BY <1>1, <1>4, <2>7, <2>8, <3>1, <3>2, <3>3, GenerationGoesOn
    <2>. QED BY <1>8, <2>6, <2>7, <2>8, <2>9, <2>10, <2>11, <2>12
<1>12. \/ Finish({s})
       \/ /\ ~Logits(s) /\ kv' = [kv EXCEPT ![s] = k] /\ cache' = cache
          /\ UNCHANGED <<state, prompt, has_media, sampled, n_past, truncated, order>>
       \/ /\ Logits(s) /\ MakeRoom(s, k)
          /\ \E t \in Tokens : sampled' = [sampled EXCEPT ![s] = <<t>>]
          /\ state' = [state EXCEPT ![s] = "GENERATE"]
          /\ n_past' = [n_past EXCEPT ![s] = IF AtLimit(s) THEN @ - Discarded ELSE @]
          /\ truncated' = [truncated EXCEPT ![s] = @ \/ AtLimit(s)]
          /\ UNCHANGED <<prompt, has_media, order>>
    BY Zenon DEF Decode, k
<1>. QED BY <1>9, <1>10, <1>11, <1>12

\* The busy slots lose both copies; the others lose none, or their sequence only.
LEMMA AbortKept ==
    ASSUME Inv, Finish(Busy), conf' = conf, pc' = "cancel",
           pend' = With(pend, Slots, <<>>), cache' = With(cache, Busy, <<>>),
           kv' = With(kv, Slots, <<>>) \/ (kv' = With(kv, Busy, <<>>))
    PROVE  Inv'
<1>1. TypeOK /\ Busy \in SUBSET Slots
    BY DEF Inv, Busy
<1>2. \A s \in Slots : pend'[s] = <<>>
    BY Zenon DEF With
<1>3. pend' \in [Slots -> Seq(Tokens)]
    BY <1>2, Empty DEF With
<1>4. \A s \in Slots : cache'[s] = IF s \in Busy THEN <<>> ELSE cache[s]
    BY Zenon DEF With
<1>5. cache' \in [Slots -> Seq(Tokens)]
    BY <1>1, Empty DEF With, TypeOK
<1>6. \A s \in Slots : kv'[s] = <<>> \/ (s \notin Busy /\ kv'[s] = kv[s])
    <2>1. CASE kv' = With(kv, Slots, <<>>)
        BY <2>1, Zenon DEF With
    <2>2. CASE kv' = With(kv, Busy, <<>>)
        <3>1. \A s \in Slots : kv'[s] = IF s \in Busy THEN <<>> ELSE kv[s]
            BY <2>2, Zenon DEF With
        <3>. QED BY <3>1
    <2>. QED BY <2>1, <2>2
<1>7. kv' \in [Slots -> Seq(Cells)]
    <2>1. \A s \in Slots : kv'[s] \in Seq(Cells)
        BY <1>1, <1>6, Empty, SlotType
    <2>. QED BY <2>1 DEF With
<1>8. TypeOK'
    BY <1>1, <1>3, <1>5, <1>7, Finishing DEF TypeOK
<1>9. ASSUME NEW s \in Slots PROVE Local(s)'
    <2>1. state'[s] = "IDLE" /\ ~has_media'[s] /\ ~truncated'[s]
        <3>1. CASE s \in Busy
            BY <1>1, <3>1, Finishing
        <3>2. CASE s \notin Busy
            <4>1. state[s] = "IDLE" /\ ~has_media[s] /\ ~truncated[s]
                BY <3>2 DEF Busy, In, Inv, Local, Working
            <4>2. state'[s] = state[s] /\ has_media'[s] = has_media[s] /\ truncated'[s] = truncated[s]
                BY <1>1, <3>2, Finishing
            <4>. QED BY <4>1, <4>2
        <3>. QED BY <3>1, <3>2
    <2>2. CASE kv'[s] = <<>>
        BY <1>2, <2>1, <2>2, Empty, FinishedKept
    <2>3. CASE s \notin Busy /\ kv'[s] = kv[s]
        <3>1. state[s] = "IDLE" /\ cache'[s] = cache[s]
            BY <1>4, <2>3 DEF Busy, In
        <3>2. Local(s) /\ Pruned(kv[s])
            BY DEF Inv, Local
        <3>3. kv[s] = <<>> \/ cache[s] = <<>> \/ Exact(cache[s], kv[s], <<>>)
            BY <1>1, <3>1, <3>2, IdleMirror
        <3>. QED BY <1>2, <2>1, <2>3, <3>1, <3>2, <3>3, FinishedKept
    <2>. QED BY <1>6, <2>2, <2>3
<1>. QED BY <1>8, <1>9 DEF Inv

\* A decode that fails, a tick that throws.
LEMMA DecodeFailsKept == ASSUME Inv, DecodeFails PROVE Inv'
BY AbortKept DEF DecodeFails

LEMMA TickThrowsKept == ASSUME Inv, TickThrows PROVE Inv'
BY AbortKept DEF TickThrows

LEMMA InvInit == ASSUME Init PROVE Inv
<1>1. TypeOK
    BY Empty DEF Init, TypeOK, States
<1>2. ASSUME NEW s \in Slots PROVE Local(s)
    <2>1. /\ pc = "cancel" /\ state[s] = "IDLE" /\ ~has_media[s] /\ ~truncated[s]
          /\ pend[s] = <<>> /\ kv[s] = <<>> /\ cache[s] = <<>>
        BY DEF Init
    <2>2. Working(s) /\ Mirroring(s) /\ Prompted(s)
        BY <2>1 DEF Working, Mirroring, Prompted
    <2>. QED BY <2>1, <2>2, Empty DEF Local
<1>. QED BY <1>1, <1>2 DEF Inv

LEMMA InvNext == ASSUME Inv, [Next]_vars PROVE Inv'
<1>1. CASE UNCHANGED vars
    <2>1. /\ pc' = pc /\ conf' = conf /\ state' = state /\ prompt' = prompt
          /\ has_media' = has_media /\ sampled' = sampled /\ cache' = cache /\ n_past' = n_past
          /\ truncated' = truncated /\ pend' = pend /\ kv' = kv
        BY <1>1 DEF vars, slotvars
    <2>2. TypeOK'
        BY <2>1 DEF Inv, TypeOK
    <2>3. ASSUME NEW s \in Slots PROVE Local(s)'
        <3>1. Same(s) /\ Local(s)
            BY <2>1 DEF Same, Inv
        <3>2. pc' # "decode" => pend[s] = <<>>
            BY <2>1, <3>1 DEF Local, Working
        <3>. QED BY <2>1, <3>1, <3>2, SameKept
    <2>. QED BY <2>2, <2>3 DEF Inv
<1>2. CASE Cancel
    BY <1>2, CancelKept
<1>3. CASE Build
    BY <1>3, BuildKept
<1>4. CASE BuildNothing
    BY <1>4, BuildNothingKept
<1>5. CASE DecodeFails
    BY <1>5, DecodeFailsKept
<1>6. CASE TickThrows
    BY <1>6, TickThrowsKept
<1>7. ASSUME NEW s \in Slots, Admit(s) PROVE Inv'
    BY <1>7, AdmitKept
<1>8. ASSUME NEW s \in Slots, AdmitMedia(s) PROVE Inv'
    BY <1>8, AdmitMediaKept
<1>9. ASSUME NEW s \in Slots, Decode(s) PROVE Inv'
    BY <1>9, DecodeKept
<1>. QED BY <1>1, <1>2, <1>3, <1>4, <1>5, <1>6, <1>7, <1>8, <1>9, Zenon DEF Next

-----------------------------------------------------------------------------
(* The theorems.                                                           *)

\* The three copies of every sequence, memory, mirror and prompt, stay as Inv relates
\* them, whatever is admitted, cut, pruned, shifted, failed or thrown in between
\* (Engine::tick, admit, abort and context_shift in src/engine.cpp).
THEOREM Invariance == Spec => []Inv
<1>1. Init => Inv
    BY InvInit
<1>2. Inv /\ [Next]_vars => Inv'
    BY InvNext
<1>. QED BY <1>1, <1>2, PTL DEF Spec

\* The logits of a text request come from its own prompt (admit, sample_slot).
THEOREM PromptServed == Spec => []ServesPrompt
<1>1. ASSUME Inv, NEW s \in Busy
      PROVE  /\ Len(kv[s]) + Len(pend[s]) = n_past[s]
             /\ ~has_media[s] /\ ~truncated[s] =>
                  /\ \A i \in Seen(kv[s]) : i <= Len(prompt[s]) => kv[s][i] = prompt[s][i]
                  /\ \A i \in DOMAIN kv[s] \cap DOMAIN prompt[s] : kv[s][i] \in {prompt[s][i], Gone}
    <2>1. s \in Slots /\ state[s] # "IDLE"
        BY DEF Busy, In
    <2>2. TypeOK /\ Working(s) /\ Prompted(s) /\ Pruned(kv[s])
        BY <1>1, <2>1 DEF Inv, Local
    <2>3. Len(kv[s]) + Len(pend[s]) = n_past[s]
        BY <2>1, <2>2, Zenon DEF Working
    <2>4. /\ DOMAIN kv[s] = 1 .. Len(kv[s]) /\ DOMAIN prompt[s] = 1 .. Len(prompt[s])
          /\ Len(kv[s]) \in Nat /\ Len(prompt[s]) \in Nat
        BY <2>1, <2>2, SlotType, LenProperties
    <2>5. ASSUME ~has_media[s], ~truncated[s], NEW i \in DOMAIN kv[s], i <= Len(prompt[s])
          PROVE  kv[s][i] \in {prompt[s][i], Gone}
        BY <2>1, <2>2, <2>4, <2>5, Zenon DEF Prompted
    <2>6. ASSUME ~has_media[s], ~truncated[s], NEW i \in Seen(kv[s])
          PROVE  i \in DOMAIN kv[s] /\ kv[s][i] # Gone
        <3>1. conf.mem.n_swa \in Nat
            BY <2>2, ConfType
        <3>2. i \in DOMAIN kv[s] /\ (conf.mem.n_swa > 0 => i - 1 > Len(kv[s]) - conf.mem.n_swa)
            BY DEF Seen
        <3>3. Near(kv[s])
            BY <2>1, <2>2, <2>6, Zenon DEF Prompted
        <3>4. CASE conf.mem.n_swa > 0
            BY <2>4, <3>1, <3>2, <3>3, <3>4 DEF Near
        <3>5. CASE ~(conf.mem.n_swa > 0)
            <4>1. \A j \in 1 .. Len(kv[s]) : kv[s][j] # Gone
                BY <2>2, <3>5 DEF Pruned
            <4>. QED BY <2>4, <3>2, <4>1
        <3>. QED BY <3>4, <3>5
    <2>7. ASSUME ~has_media[s], ~truncated[s], NEW i \in Seen(kv[s]), i <= Len(prompt[s])
          PROVE  kv[s][i] = prompt[s][i]
        <3>1. i \in DOMAIN kv[s] /\ kv[s][i] # Gone
            BY <2>6, <2>7
        <3>. QED BY <2>5, <2>7, <3>1
    <2>8. ASSUME NEW i \in DOMAIN kv[s] \cap DOMAIN prompt[s]
          PROVE  i \in DOMAIN kv[s] /\ i <= Len(prompt[s])
        BY <2>4
    <2>. QED BY <2>3, <2>5, <2>7, <2>8
<1>2. Inv => ServesPrompt
    BY <1>1 DEF ServesPrompt
<1>. QED BY <1>2, Invariance, PTL

\* A mirror that has the tokens of the memory and of the batch copies the two.
LEMMA ExactCopies ==
    ASSUME NEW q \in Seq(Tokens), NEW k \in Seq(Cells), NEW new \in Seq(Tokens),
           Exact(q, k, new)
    PROVE  Copies(q, k \o new)
<1>. DEFINE h == k \o new
<1>1. new \in Seq(Cells)
    BY SeqMonotonic DEF Cells
<1>2. /\ h \in Seq(Cells) /\ Len(h) = Len(k) + Len(new)
      /\ \A i \in 1 .. Len(k) + Len(new) : h[i] = IF i <= Len(k) THEN k[i] ELSE new[i - Len(k)]
    BY <1>1, ConcatProperties
<1>. HIDE DEF h
<1>3. Len(k) \in Nat /\ Len(new) \in Nat /\ DOMAIN h = 1 .. Len(k) + Len(new)
    BY <1>1, <1>2, LenProperties
<1>4. ASSUME NEW i \in 1 .. Len(k) + Len(new) PROVE h[i] \in {q[i], Gone}
    <2>1. CASE i <= Len(k)
        <3>1. i \in 1 .. Len(k) /\ h[i] = k[i]
            BY <1>2, <1>3, <2>1
        <3>. QED BY <3>1 DEF Exact
    <2>2. CASE ~(i <= Len(k))
        <3>1. i - Len(k) \in 1 .. Len(new) /\ Len(k) + (i - Len(k)) = i /\ h[i] = new[i - Len(k)]
            BY <1>2, <1>3, <2>2
        <3>2. new[i - Len(k)] = q[Len(k) + (i - Len(k))]
            BY <3>1 DEF Exact
        <3>. QED BY <3>1, <3>2
    <2>. QED BY <2>1, <2>2
<1>5. Len(q) = Len(h)
    BY <1>2 DEF Exact
<1>. QED BY <1>3, <1>4, <1>5 DEF Copies, h

\* The mirror an admission compares a prompt with has every token of the memory and of the
\* batch, and no other: a text request never runs with a mirror that claims more or less.
\* A media request has none; an idle slot may have lost the sequence (Engine::abort after a
\* tick that threw) or the mirror (prefill_media), each as a whole.
THEOREM MirrorHonest == Spec => []MirrorSound
<1>1. ASSUME Inv, NEW s \in Slots
      PROVE  \/ has_media[s] /\ cache[s] = <<>>
             \/ ~has_media[s] /\ Copies(cache[s], kv[s] \o pend[s])
             \/ state[s] = "IDLE" /\ (kv[s] = <<>> \/ cache[s] = <<>>)
    <2>1. TypeOK /\ Mirroring(s)
        BY <1>1 DEF Inv, Local
    <2>2. kv[s] \in Seq(Cells) /\ pend[s] \in Seq(Tokens) /\ cache[s] \in Seq(Tokens)
        BY <2>1, SlotType
    <2>3. Exact(cache[s], kv[s], pend[s]) => Copies(cache[s], kv[s] \o pend[s])
        BY <2>2, ExactCopies
    <2>. QED BY <2>1, <2>3, Zenon DEF Mirroring
<1>2. Inv => MirrorSound
    BY <1>1 DEF MirrorSound
<1>. QED BY <1>2, Invariance, PTL

\* An admission reuses a proper prefix of the prompt that the sequence held, and leaves
\* nothing else of it (admit, and the cut llama_memory_seq_rm makes).
THEOREM ReuseKept == Spec => ReuseHonest
<1>1. ASSUME Inv, [Next]_vars, NEW s \in Slots, state[s] = "IDLE", state'[s] = "PREFILL"
      PROVE  Admit(s)
    <2>1. TypeOK
        BY <1>1 DEF Inv
    <2>2. ASSUME NEW S \in SUBSET Slots, Finish(S) PROVE FALSE
        <3>1. CASE s \in S
            BY <1>1, <2>1, <2>2, <3>1, Finishing
        <3>2. CASE s \notin S
            BY <1>1, <2>1, <2>2, <3>2, Finishing
        <3>. QED BY <3>1, <3>2
    <2>3. ~(state' = state)
        BY <1>1
    <2>4. ~UNCHANGED vars /\ ~Build /\ ~BuildNothing
        BY <2>3 DEF vars, slotvars, Build, BuildNothing
    <2>5. ~Cancel
        <3>1. SUBSET Busy \subseteq SUBSET Slots
            BY DEF Busy
        <3>. QED BY <2>2, <3>1 DEF Cancel
    <2>6. ~DecodeFails /\ ~TickThrows
        <3>1. Busy \in SUBSET Slots
            BY DEF Busy
        <3>. QED BY <2>2, <3>1 DEF DecodeFails, TickThrows
    <2>7. ASSUME NEW t \in Slots, AdmitMedia(t) \/ Decode(t) PROVE FALSE
        <3>1. {t} \in SUBSET Slots
            OBVIOUS
        <3>2. ~Finish({t})
            BY <2>2, <3>1
        <3>3. state' = [state EXCEPT ![t] = "GENERATE"]
            BY <2>3, <2>7, <3>2, Zenon DEF AdmitMedia, Decode
        <3>4. state'[s] \in {state[s], "GENERATE"}
            BY <2>1, <3>3 DEF TypeOK
        <3>. QED BY <1>1, <3>4
    <2>8. ASSUME NEW t \in Slots \ {s}, Admit(t) PROVE FALSE
        BY <1>1, <2>1, <2>8 DEF Admit, TypeOK
    <2>. QED BY <1>1, <2>4, <2>5, <2>6, <2>7, <2>8, Zenon DEF Next
<1>2. ASSUME Inv, NEW s \in Slots, Admit(s)
      PROVE  /\ IsPrefix(kv'[s], kv[s])
             /\ n_past'[s] = Len(kv'[s]) /\ n_past'[s] < Len(prompt'[s])
             /\ Holds(prompt'[s], kv'[s])
             /\ ~conf.mem.tail => kv'[s] = <<>> \/ Len(kv[s]) - Len(kv'[s]) <= conf.mem.rs
    <2>1. PICK p \in Prompts, use \in BOOLEAN :
            /\ Best(s, p, use)
            /\ LET n == Prefix(s, p, use) IN
                 /\ kv' = [kv EXCEPT ![s] = CutTo(@, n)]
                 /\ cache' = [cache EXCEPT ![s] = SubSeq(@, 1, n)]
                 /\ n_past' = [n_past EXCEPT ![s] = n]
            /\ prompt' = [prompt EXCEPT ![s] = p]
        BY <1>2 DEF Admit
    <2>2. TypeOK /\ Local(s) /\ state[s] = "IDLE"
        BY <1>2, <2>1 DEF Inv, Best
    <2>. DEFINE n == Prefix(s, p, use)
                k == CutTo(kv[s], n)
    <2>3. /\ n \in Nat /\ n < Len(p)
          /\ k \in Seq(Cells) /\ Len(k) = n
          /\ \A i \in 1 .. n : k[i] \in {p[i], Gone}
          /\ IsPrefix(k, kv[s])
          /\ ~conf.mem.tail => k = <<>> \/ Len(kv[s]) - n <= conf.mem.rs
        BY <2>2, AdmissionCut
    <2>4. kv' = [kv EXCEPT ![s] = k] /\ n_past' = [n_past EXCEPT ![s] = n]
        BY <2>1
    <2>. HIDE DEF n, k
    <2>5. kv'[s] = k /\ n_past'[s] = n /\ prompt'[s] = p
        BY <2>1, <2>2, <2>4 DEF TypeOK
    <2>6. DOMAIN k = 1 .. n /\ Len(p) \in Nat
        BY <2>3, LenProperties, PromptType
    <2>7. Holds(p, k)
        BY <2>3, <2>6 DEF Holds
    <2>. QED BY <2>3, <2>5, <2>7
<1>3. Inv /\ [Next]_vars =>
        [\A s \in Slots :
           state[s] = "IDLE" /\ state'[s] = "PREFILL" =>
             /\ IsPrefix(kv'[s], kv[s])
             /\ n_past'[s] = Len(kv'[s]) /\ n_past'[s] < Len(prompt'[s])
             /\ Holds(prompt'[s], kv'[s])
             /\ ~conf.mem.tail => kv'[s] = <<>> \/ Len(kv[s]) - Len(kv'[s]) <= conf.mem.rs]_vars
    BY <1>1, <1>2
<1>. QED BY <1>3, Invariance, PTL DEF Spec, ReuseHonest
=============================================================================
