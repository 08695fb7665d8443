-------------------------- MODULE Generation_proofs --------------------------
(***************************************************************************)
(* What becomes of the tokens of a request, for every vocabulary and every *)
(* number of tokens.                                                       *)
(*                                                                         *)
(* First its text (StopStream), for every set of pieces and every list of  *)
(* stop sequences.  The inductive invariant is Inv: while a request runs   *)
(* nothing but the text held back for a stop sequence is missing from what *)
(* was handed over, and the entries handed over are those whose text was;  *)
(* once it ended, the properties themselves.                               *)
(*                                                                         *)
(* Then its reasoning budget and its grammar (ReasoningBudget), for all    *)
(* tags, messages, budgets and sentences.  The first inductive invariant,  *)
(* SlotInv, says where the forced tokens are, whatever the tags, and that  *)
(* the grammar was fed the tokens sampled since it woke.  The second,      *)
(* Exactly, says what the machine's state tells of the tags: the rolling   *)
(* match is the longest end of the tokens that begins the tag.             *)
(***************************************************************************)
EXTENDS StopStream, ReasoningBudget, SequenceTheorems, WellFoundedInduction, TLAPS

-----------------------------------------------------------------------------
(* The text of a request.                                                  *)

TypeOK ==
    /\ conf \in Requests /\ busy \in BOOLEAN
    /\ toks \in Seq(Pieces) /\ probs \in Seq(Pieces)
    /\ text \in Seq(Byte) /\ word \in Seq(Byte)
    /\ finish \in {"none", "stop", "length", "cancel", "error"}
    /\ out \in [text : Seq(Byte), probs : Seq(Pieces)]
    /\ n_sent \in Nat /\ n_probs_sent \in Nat /\ covered \in Nat

\* The bytes of the first k entries.
Cover(ps, k) == Bytes(SubSeq(ps, 1, k))

\* What was handed over of a text and its entries is their beginning, and no entry is
\* missing of which it has all the bytes, but one without any.
Handing(t, ps) ==
    /\ n_sent <= Len(t) /\ out.text = SubSeq(t, 1, n_sent)
    /\ n_probs_sent <= Len(ps) /\ out.probs = SubSeq(ps, 1, n_probs_sent)
    /\ covered = Cover(ps, n_probs_sent) /\ covered <= n_sent
    /\ \A k \in 0 .. Len(ps) : Cover(ps, k) <= n_sent => Cover(ps, k) <= covered

\* While a request runs, all of its text but the held back end is handed over.
Working ==
    /\ finish = "none"
    /\ n_sent = IF conf.wants_pieces THEN Len(text) - Hold(text) ELSE 0
    /\ probs = IF conf.want_logprobs THEN toks ELSE <<>>
    /\ Handing(text, probs)

Inv ==
    /\ TypeOK /\ SameAnswer
    /\ busy => Working
    /\ ~busy => NeverTakenBack /\ ProbsFollowText

-----------------------------------------------------------------------------
(* Numbers and sequences.                                                  *)

\* Induction up to n, over a set.
LEMMA Upto ==
    ASSUME NEW n \in Nat, NEW T, 0 \in T, \A k \in 0 .. n - 1 : k \in T => k + 1 \in T
    PROVE  0 .. n \subseteq T
<1>. DEFINE U == {k \in 0 .. n : k \notin T}
            R == {ss \in Nat \X Nat : ss[1] < ss[2]}
<1>. SUFFICES ASSUME U # {} PROVE FALSE
    OBVIOUS
<1>1. PICK k \in U : \A e \in U : ~(<<e, k>> \in R)
    <2>1. IsWellFoundedOn(R, Nat)
        BY NatLessThanWellFounded DEF OpToRel
    <2>2. U \subseteq Nat
        OBVIOUS
    <2>. HIDE DEF U, R
    <2>. QED BY <2>1, <2>2, WFMin
<1>2. k \in 1 .. n /\ k - 1 \in 0 .. n - 1 /\ (k - 1) + 1 = k
    <2>1. k \in 0 .. n /\ k # 0
        BY <1>1
    <2>. QED BY <2>1
<1>3. k - 1 \in T
    <2>1. k - 1 \notin U
        <3>1. <<k - 1, k>> \in R
            BY <1>2
        <3>. QED BY <1>1, <3>1
    <2>. QED BY <1>2, <2>1
<1>. QED BY <1>2, <1>3

\* A set of numbers has its minimum.
LEMMA MinIn ==
    ASSUME NEW S \in SUBSET Nat, S # {}
    PROVE  Min(S) \in S /\ \A x \in S : Min(S) <= x
<1>. DEFINE R == {ss \in Nat \X Nat : ss[1] < ss[2]}
<1>1. PICK m \in S : \A e \in S : ~(<<e, m>> \in R)
    <2>1. IsWellFoundedOn(R, Nat)
        BY NatLessThanWellFounded DEF OpToRel
    <2>. HIDE DEF R
    <2>. QED BY <2>1, WFMin
<1>2. \A x \in S : m <= x
    <2>. TAKE x \in S
    <2>1. x \in Nat /\ m \in Nat /\ ~(x < m)
        BY <1>1
    <2>. QED BY <2>1
<1>. QED BY <1>2 DEF Min

\* Below a bound, also its maximum.
LEMMA MaxIn ==
    ASSUME NEW n \in Nat, NEW S \in SUBSET (0 .. n), S # {}
    PROVE  Max(S) \in S /\ \A x \in S : x <= Max(S)
<1>. DEFINE T == {n - x : x \in S}
<1>1. T \subseteq Nat /\ T # {} /\ \A x \in S : n - x \in T
    <2>1. \A x \in S : n - x \in Nat /\ n - x \in T
        OBVIOUS
    <2>. QED BY <2>1
<1>2. Min(T) \in T /\ \A x \in T : Min(T) <= x
    <2>. HIDE DEF T
    <2>. QED BY <1>1, MinIn
<1>3. PICK m \in S : Min(T) = n - m
    BY <1>2
<1>4. \A x \in S : x <= m
    <2>. SUFFICES ASSUME NEW x \in S PROVE x <= m
        OBVIOUS
    <2>1. n - m <= n - x
        BY <1>1, <1>2, <1>3
    <2>. QED BY <2>1
<1>. QED BY <1>4 DEF Max

\* Part of a sequence, place by place.
LEMMA PartOf ==
    ASSUME NEW S, NEW q \in Seq(S), NEW m \in 1 .. Len(q) + 1, NEW n \in m - 1 .. Len(q)
    PROVE  /\ SubSeq(q, m, n) \in Seq(S) /\ Len(SubSeq(q, m, n)) = n - m + 1
           /\ \A i \in 1 .. n - m + 1 : SubSeq(q, m, n)[i] = q[m + i - 1]
<1>1. Len(q) \in Nat /\ \A i \in m .. n : q[i] \in S
    BY LenProperties
<1>. QED BY <1>1, SubSeqProperties

\* Its first n places.
LEMMA FirstOf ==
    ASSUME NEW S, NEW q \in Seq(S), NEW n \in 0 .. Len(q)
    PROVE  /\ SubSeq(q, 1, n) \in Seq(S) /\ Len(SubSeq(q, 1, n)) = n
           /\ \A i \in 1 .. n : SubSeq(q, 1, n)[i] = q[i]
<1>1. 1 \in 1 .. Len(q) + 1 /\ n \in 1 - 1 .. Len(q) /\ n \in Nat
    BY LenProperties
<1>. QED BY <1>1, PartOf

LEMMA SameStart ==
    ASSUME NEW S, NEW q \in Seq(S), NEW r \in Seq(S), NEW n \in 0 .. Len(q), n <= Len(r),
           \A i \in 1 .. n : q[i] = r[i]
    PROVE  SubSeq(q, 1, n) = SubSeq(r, 1, n)
<1>1. n \in 0 .. Len(r)
    BY LenProperties
<1>2. /\ SubSeq(q, 1, n) \in Seq(S) /\ Len(SubSeq(q, 1, n)) = n
      /\ \A i \in 1 .. n : SubSeq(q, 1, n)[i] = q[i]
    BY FirstOf
<1>3. /\ SubSeq(r, 1, n) \in Seq(S) /\ Len(SubSeq(r, 1, n)) = n
      /\ \A i \in 1 .. n : SubSeq(r, 1, n)[i] = r[i]
    BY <1>1, FirstOf
<1>4. \A i \in 1 .. n : SubSeq(q, 1, n)[i] = SubSeq(r, 1, n)[i]
    BY <1>2, <1>3
<1>. QED BY <1>2, <1>3, <1>4, SeqEqual

LEMMA PrefixIs ==
    ASSUME NEW S, NEW s \in Seq(S), NEW t \in Seq(S)
    PROVE  IsPrefix(s, t) <=> Len(s) <= Len(t) /\ \A k \in 1 .. Len(s) : s[k] = t[k]
<1>0. Len(s) \in Nat /\ Len(t) \in Nat
    BY LenProperties
<1>. SUFFICES ASSUME Len(s) <= Len(t)
     PROVE  SubSeq(s, 1, Len(s)) = SubSeq(t, 1, Len(s)) <=> \A k \in 1 .. Len(s) : s[k] = t[k]
    BY DEF IsPrefix
<1>1. SubSeq(s, 1, Len(s)) = s
    BY SubSeqFull
<1>2. /\ SubSeq(t, 1, Len(s)) \in Seq(S) /\ Len(SubSeq(t, 1, Len(s))) = Len(s)
      /\ \A i \in 1 .. Len(s) : SubSeq(t, 1, Len(s))[i] = t[i]
    BY <1>0, PartOf
<1>3. ASSUME \A k \in 1 .. Len(s) : s[k] = t[k]
      PROVE  s = SubSeq(t, 1, Len(s))
    BY <1>2, <1>3, SeqEqual
<1>. QED BY <1>1, <1>2, <1>3

\* The same, as one fact to cite of two sequences.
PrefixTold(s, t) ==
    IsPrefix(s, t) <=> Len(s) <= Len(t) /\ \A k \in 1 .. Len(s) : s[k] = t[k]

LEMMA PrefixTells ==
    ASSUME NEW S, NEW s \in Seq(S), NEW t \in Seq(S)
    PROVE  PrefixTold(s, t)
BY PrefixIs DEF PrefixTold

LEMMA SuffixIs ==
    ASSUME NEW S, NEW s \in Seq(S), NEW t \in Seq(S)
    PROVE  IsSuffix(s, t) <=>
             Len(s) <= Len(t) /\ \A k \in 1 .. Len(s) : s[k] = t[Len(t) - Len(s) + k]
<1>0. Len(s) \in Nat /\ Len(t) \in Nat
    BY LenProperties
<1>1. ASSUME NEW q \in Seq(S)
      PROVE  /\ Reverse(q) \in Seq(S) /\ Len(Reverse(q)) = Len(q)
             /\ \A k \in 1 .. Len(q) : Reverse(q)[k] = q[Len(q) - k + 1]
    <2>1. Len(q) \in Nat /\ \A i \in 1 .. Len(q) : q[Len(q) - i + 1] \in S
        BY LenProperties
    <2>. QED BY <2>1 DEF Reverse
<1>2. IsSuffix(s, t) <=>
        Len(s) <= Len(t) /\ \A k \in 1 .. Len(s) : Reverse(s)[k] = Reverse(t)[k]
    BY <1>1, PrefixIs DEF IsSuffix
<1>3. ASSUME Len(s) <= Len(t)
      PROVE  (\A k \in 1 .. Len(s) : Reverse(s)[k] = Reverse(t)[k])
               <=> \A k \in 1 .. Len(s) : s[k] = t[Len(t) - Len(s) + k]
    <2>1. \A k \in 1 .. Len(s) : Len(s) - k + 1 \in 1 .. Len(s) /\ k \in 1 .. Len(t)
                                 /\ Len(s) - (Len(s) - k + 1) + 1 = k
                                 /\ Len(t) - (Len(s) - k + 1) + 1 = Len(t) - Len(s) + k
                                 /\ Len(t) - Len(s) + (Len(s) - k + 1) = Len(t) - k + 1
        BY <1>0, <1>3
    <2>2. \A k \in 1 .. Len(s) : /\ Reverse(s)[k] = s[Len(s) - k + 1]
                                 /\ Reverse(t)[k] = t[Len(t) - k + 1]
        BY <1>1, <2>1
    <2>3. ASSUME \A k \in 1 .. Len(s) : Reverse(s)[k] = Reverse(t)[k], NEW k \in 1 .. Len(s)
          PROVE  s[k] = t[Len(t) - Len(s) + k]
        <3>. DEFINE l == Len(s) - k + 1
        <3>1. l \in 1 .. Len(s) /\ Len(s) - l + 1 = k /\ Len(t) - l + 1 = Len(t) - Len(s) + k
            BY <2>1
        <3>. HIDE DEF l
        <3>2. s[Len(s) - l + 1] = t[Len(t) - l + 1]
            BY <2>2, <2>3, <3>1
        <3>. QED BY <3>1, <3>2
    <2>4. ASSUME \A k \in 1 .. Len(s) : s[k] = t[Len(t) - Len(s) + k], NEW k \in 1 .. Len(s)
          PROVE  Reverse(s)[k] = Reverse(t)[k]
        <3>. DEFINE l == Len(s) - k + 1
        <3>1. l \in 1 .. Len(s) /\ Len(t) - Len(s) + l = Len(t) - k + 1
            BY <2>1
        <3>2. Reverse(s)[k] = s[l] /\ Reverse(t)[k] = t[Len(t) - k + 1]
            BY <2>2
        <3>. HIDE DEF l
        <3>. QED BY <2>4, <3>1, <3>2
    <2>. QED BY <2>3, <2>4
<1>. QED BY <1>2, <1>3

\* Where w stands in t.
LEMMA Standing ==
    ASSUME NEW S, NEW t \in Seq(S), NEW w \in Seq(S), NEW i \in 0 .. Len(t)
    PROVE  At(t, w, i) <=> i + Len(w) <= Len(t) /\ \A k \in 1 .. Len(w) : w[k] = t[i + k]
<1>0. Len(w) \in Nat /\ Len(t) \in Nat
    BY LenProperties
<1>. DEFINE u == SubSeq(t, i + 1, Len(t))
<1>1. /\ u \in Seq(S) /\ Len(u) = Len(t) - i
      /\ \A k \in 1 .. Len(t) - i : u[k] = t[i + k]
    <2>1. /\ u \in Seq(S) /\ Len(u) = Len(t) - (i + 1) + 1
          /\ \A k \in 1 .. Len(t) - (i + 1) + 1 : u[k] = t[(i + 1) + k - 1]
        BY <1>0, PartOf
    <2>. HIDE DEF u
    <2>2. Len(t) - (i + 1) + 1 = Len(t) - i /\ \A k \in Int : (i + 1) + k - 1 = i + k
        BY <1>0
    <2>. QED BY <2>1, <2>2
<1>. HIDE DEF u
<1>2. At(t, w, i) <=> Len(w) <= Len(u) /\ \A k \in 1 .. Len(w) : w[k] = u[k]
    <2>1. At(t, w, i) <=> IsPrefix(w, u)
        BY DEF At, u
    <2>2. IsPrefix(w, u) <=> Len(w) <= Len(u) /\ \A k \in 1 .. Len(w) : w[k] = u[k]
        <3>1. w \in Seq(S) /\ u \in Seq(S)
            BY <1>1
        <3>2. PrefixTold(w, u)
            BY <3>1, PrefixTells
        <3>. QED BY <3>2 DEF PrefixTold
    <2>. QED BY <2>1, <2>2
<1>. QED BY <1>0, <1>1, <1>2

-----------------------------------------------------------------------------
(* Pieces put together.                                                    *)

\* What FlattenSeq says of place i, given what it says of the place before.
Flat(q, f, i) == IF i = 1 THEN q[i] ELSE f[i - 1] \o q[i]

Flattens(q, f) == \A i \in 1 .. Len(q) : f[i] = Flat(q, f, i)

LEMMA FlattenIs ==
    ASSUME NEW S, NEW q \in Seq(Seq(S)), q # <<>>
    PROVE  \E f : FlattenSeq(q) = f[Len(q)] /\ Flattens(q, f)
<1>. DEFINE N == 1 .. Len(q)
            T == {n \in 0 .. Len(q) : \E g : /\ g = [i \in N |-> g[i]]
                                             /\ \A i \in 1 .. n : g[i] = Flat(q, g, i)}
            F == CHOOSE f : f = [i \in N |-> Flat(q, f, i)]
<1>0. Len(q) \in Nat \ {0}
    BY EmptySeq
<1>1. 0 \in T
    <2>. DEFINE g == [i \in N |-> q]
    <2>1. g = [i \in N |-> g[i]] /\ \A i \in 1 .. 0 : g[i] = Flat(q, g, i)
        BY <1>0
    <2>. HIDE DEF g
    <2>. QED BY <1>0, <2>1
<1>2. ASSUME NEW n \in 0 .. Len(q) - 1, n \in T
      PROVE  n + 1 \in T
    <2>1. PICK g : g = [i \in N |-> g[i]] /\ \A i \in 1 .. n : g[i] = Flat(q, g, i)
        BY <1>2
    <2>. DEFINE h == [i \in N |-> IF i = n + 1 THEN Flat(q, g, n + 1) ELSE g[i]]
    <2>2. \A i \in N : h[i] = IF i = n + 1 THEN Flat(q, g, n + 1) ELSE g[i]
        OBVIOUS
    <2>3. h = [i \in N |-> h[i]]
        OBVIOUS
    <2>. HIDE DEF h
    <2>4. \A i \in 1 .. n + 1 : h[i] = Flat(q, h, i)
        <3>. TAKE i \in 1 .. n + 1
        <3>1. i \in N /\ n + 1 \in N /\ (i # 1 => i - 1 \in N /\ i - 1 # n + 1)
            BY <1>0
        <3>2. i # 1 => h[i - 1] = g[i - 1]
            BY <2>2, <3>1
        <3>3. Flat(q, h, i) = Flat(q, g, i)
            BY <3>2 DEF Flat
        <3>4. CASE i = n + 1
            BY <2>2, <3>1, <3>3, <3>4
        <3>5. CASE i # n + 1
            <4>1. i \in 1 .. n
                BY <3>5
            <4>2. g[i] = Flat(q, g, i) /\ h[i] = g[i]
                BY <2>1, <2>2, <3>1, <3>5, <4>1
            <4>. QED BY <3>3, <4>2
        <3>. QED BY <3>4, <3>5
    <2>5. n + 1 \in 0 .. Len(q)
        BY <1>0
    <2>. QED BY <2>3, <2>4, <2>5
<1>3. Len(q) \in T
    <2>. HIDE DEF T
    <2>1. 0 .. Len(q) \subseteq T
        BY <1>0, <1>1, <1>2, Upto
    <2>. QED BY <1>0, <2>1
<1>4. PICK g : g = [i \in N |-> g[i]] /\ \A i \in N : g[i] = Flat(q, g, i)
    BY <1>3
<1>5. g = [i \in N |-> Flat(q, g, i)]
    BY <1>4
<1>6. F = [i \in N |-> Flat(q, F, i)]
    BY <1>5, Zenon
<1>7. FlattenSeq(q) = F[Len(q)]
    BY <1>0 DEF FlattenSeq, Flat
<1>8. \A i \in N : F[i] = Flat(q, F, i)
    BY <1>6, Zenon
<1>. HIDE DEF F
<1>. QED BY <1>7, <1>8 DEF Flattens

\* The places up to n depend on the pieces up to n only.
LEMMA FlattenOnce ==
    ASSUME NEW S, NEW q \in Seq(Seq(S)), NEW r \in Seq(Seq(S)), NEW f, NEW g, NEW n \in Nat,
           n <= Len(q), n <= Len(r), \A i \in 1 .. n : q[i] = r[i],
           Flattens(q, f), Flattens(r, g)
    PROVE  \A i \in 1 .. n : f[i] = g[i] /\ f[i] \in Seq(S)
<1>. DEFINE T == {i \in 0 .. n : i >= 1 => f[i] = g[i] /\ f[i] \in Seq(S)}
<1>0. Len(q) \in Nat /\ Len(r) \in Nat /\ \A i \in 1 .. Len(q) : q[i] \in Seq(S)
    BY LenProperties
<1>1. 0 \in T
    OBVIOUS
<1>2. ASSUME NEW i \in 0 .. n - 1, i \in T
      PROVE  i + 1 \in T
    <2>1. i + 1 \in 1 .. Len(q) /\ i + 1 \in 1 .. Len(r) /\ i + 1 \in 1 .. n /\ (i + 1) - 1 = i
        BY <1>0
    <2>2. q[i + 1] = r[i + 1] /\ q[i + 1] \in Seq(S)
        BY <1>0, <2>1
    <2>3. f[i + 1] = IF i + 1 = 1 THEN q[i + 1] ELSE f[i] \o q[i + 1]
        BY <2>1 DEF Flat, Flattens
    <2>4. g[i + 1] = IF i + 1 = 1 THEN r[i + 1] ELSE g[i] \o r[i + 1]
        BY <2>1 DEF Flat, Flattens
    <2>5. CASE i = 0
        BY <2>1, <2>2, <2>3, <2>4, <2>5
    <2>6. CASE i # 0
        <3>1. f[i] = g[i] /\ f[i] \in Seq(S) /\ i + 1 # 1
            BY <1>2, <2>6
        <3>2. f[i] \o q[i + 1] \in Seq(S)
            BY <2>2, <3>1, ConcatProperties
        <3>3. f[i + 1] = f[i] \o q[i + 1]
            BY <2>3, <3>1
        <3>4. g[i + 1] = f[i] \o q[i + 1]
            BY <2>2, <2>4, <3>1
        <3>5. i + 1 \in 0 .. n
            BY <2>1
        <3>. QED BY <3>2, <3>3, <3>4, <3>5
    <2>. QED BY <2>5, <2>6
<1>3. 0 .. n \subseteq T
    <2>. HIDE DEF T
    <2>. QED BY <1>1, <1>2, Upto
<1>. QED BY <1>3

\* What one more piece adds.
LEMMA FlattenAppend ==
    ASSUME NEW S, NEW q \in Seq(Seq(S)), NEW p \in Seq(S)
    PROVE  /\ FlattenSeq(q) \in Seq(S)
           /\ FlattenSeq(Append(q, p)) = FlattenSeq(q) \o p
<1>. DEFINE r == Append(q, p)
            n == Len(q)
<1>1. /\ r \in Seq(Seq(S)) /\ r # <<>> /\ Len(r) = n + 1 /\ n \in Nat
      /\ r[n + 1] = p /\ \A i \in 1 .. n : q[i] = r[i]
    BY AppendProperties, LenProperties
<1>. HIDE DEF r
<1>2. PICK g : FlattenSeq(r) = g[n + 1] /\ Flattens(r, g)
    BY <1>1, FlattenIs
<1>3. g[n + 1] = IF n = 0 THEN p ELSE g[n] \o p
    <2>1. n + 1 \in 1 .. Len(r) /\ (n + 1) - 1 = n /\ (n + 1 = 1 <=> n = 0)
        BY <1>1
    <2>. QED BY <1>1, <1>2, <2>1 DEF Flat, Flattens
<1>4. CASE n = 0
    <2>1. FlattenSeq(q) = q /\ q = <<>>
        BY <1>4, EmptySeq DEF FlattenSeq
    <2>. QED BY <1>2, <1>3, <1>4, <2>1, ConcatEmptySeq DEF r
<1>5. CASE n # 0
    <2>0. q # <<>>
        BY <1>5, EmptySeq
    <2>1. PICK f : FlattenSeq(q) = f[n] /\ Flattens(q, f)
        BY <2>0, FlattenIs
    <2>2. \A i \in 1 .. n : f[i] = g[i] /\ f[i] \in Seq(S)
        <3>1. n <= Len(q) /\ n <= Len(r) /\ n \in Nat /\ r \in Seq(Seq(S))
            BY <1>1
        <3>2. \A i \in 1 .. n : q[i] = r[i]
            BY <1>1
        <3>. HIDE DEF n
        <3>3. Flattens(q, f) /\ Flattens(r, g)
            BY <1>2, <2>1
        <3>. QED BY <3>1, <3>2, <3>3, FlattenOnce, Zenon
    <2>3. n \in 1 .. n
        BY <1>1, <1>5
    <2>. QED BY <1>2, <1>3, <1>5, <2>1, <2>2, <2>3 DEF r
<1>. QED BY <1>4, <1>5

LEMMA FlattenEmpty == FlattenSeq(<<>>) = <<>>
BY EmptySeq DEF FlattenSeq

-----------------------------------------------------------------------------
(* The bytes of the entries.                                               *)

LEMMA BytesOf ==
    ASSUME NEW ps \in Seq(Pieces)
    PROVE  /\ ps \in Seq(Seq(Byte)) /\ FlattenSeq(ps) \in Seq(Byte) /\ Bytes(ps) \in Nat
           /\ \A p \in Pieces : /\ p \in Seq(Byte) /\ Len(p) \in Nat
                                /\ FlattenSeq(Append(ps, p)) = FlattenSeq(ps) \o p
                                /\ Bytes(Append(ps, p)) = Bytes(ps) + Len(p)
<1>1. Pieces \subseteq Seq(Byte)
    BY StopStreamAssumption
<1>2. ps \in Seq(Seq(Byte))
    BY <1>1, SeqMonotonic
<1>3. <<>> \in Seq(Byte)
    BY EmptySeq
<1>4. FlattenSeq(ps) \in Seq(Byte)
    BY <1>2, <1>3, FlattenAppend
<1>5. ASSUME NEW p \in Pieces
      PROVE  /\ p \in Seq(Byte) /\ Len(p) \in Nat
             /\ FlattenSeq(Append(ps, p)) = FlattenSeq(ps) \o p
             /\ Bytes(Append(ps, p)) = Bytes(ps) + Len(p)
    <2>1. p \in Seq(Byte)
        BY <1>1
    <2>2. FlattenSeq(Append(ps, p)) = FlattenSeq(ps) \o p
        BY <1>2, <2>1, FlattenAppend
    <2>3. Len(FlattenSeq(ps) \o p) = Len(FlattenSeq(ps)) + Len(p)
        BY <1>4, <2>1, ConcatProperties
    <2>. QED BY <2>1, <2>2, <2>3, LenProperties DEF Bytes
<1>. QED BY <1>2, <1>4, <1>5, LenProperties DEF Bytes

\* The bytes after entry i and up to entry k.
LEMMA Between ==
    ASSUME NEW ps \in Seq(Pieces), NEW i \in 0 .. Len(ps), NEW k \in i .. Len(ps)
    PROVE  /\ SubSeq(ps, i + 1, k) \in Seq(Pieces)
           /\ Cover(ps, i) \in Nat /\ Cover(ps, k) \in Nat
           /\ Bytes(SubSeq(ps, i + 1, k)) \in Nat
           /\ Cover(ps, k) = Cover(ps, i) + Bytes(SubSeq(ps, i + 1, k))
<1>. DEFINE Part(a, b) == SubSeq(ps, a + 1, b)
            T == {n \in 0 .. Len(ps) :
                    n >= i => Bytes(Part(0, n)) = Bytes(Part(0, i)) + Bytes(Part(i, n))}
<1>0. Len(ps) \in Nat /\ \A n \in 1 .. Len(ps) : ps[n] \in Pieces
    BY LenProperties
<1>1. ASSUME NEW a \in 0 .. Len(ps), NEW b \in a .. Len(ps)
      PROVE  /\ Part(a, b) \in Seq(Pieces) /\ Bytes(Part(a, b)) \in Nat
             /\ a = b => Part(a, b) = <<>>
             /\ a < b => Part(a, b) = Append(Part(a, b - 1), ps[b])
    <2>0. a + 1 \in 1 .. Len(ps) + 1 /\ b \in (a + 1) - 1 .. Len(ps)
        BY <1>0
    <2>1. Part(a, b) \in Seq(Pieces)
        BY <2>0, PartOf
    <2>2. a = b => Part(a, b) = <<>>
        BY <1>0, SubSeqEmpty
    <2>3. ASSUME a < b PROVE Part(a, b) = Append(Part(a, b - 1), ps[b])
        <3>1. a + 1 \in 1 .. Len(ps) /\ b \in a + 1 .. Len(ps) /\ b - 1 \in (a + 1) - 1 .. Len(ps)
            BY <1>0, <2>3
        <3>2. Part(a, b) = Part(a, b - 1) \o <<ps[b]>>
            BY <3>1, SubSeqRecursiveSecond
        <3>3. Part(a, b - 1) \in Seq(Pieces) /\ ps[b] \in Pieces
            BY <1>0, <2>0, <3>1, PartOf
        <3>. HIDE DEF Part
        <3>. QED BY <3>2, <3>3, AppendIsConcat
    <2>. QED BY <2>1, <2>2, <2>3, BytesOf
<1>2. Bytes(<<>>) = 0
    BY FlattenEmpty, EmptySeq DEF Bytes
<1>3. ASSUME NEW a \in 0 .. Len(ps), NEW b \in a .. Len(ps), a < b
      PROVE  Bytes(Part(a, b)) = Bytes(Part(a, b - 1)) + Len(ps[b])
    <2>1. b - 1 \in a .. Len(ps) /\ b \in 1 .. Len(ps)
        BY <1>0, <1>3
    <2>2. Part(a, b - 1) \in Seq(Pieces) /\ ps[b] \in Pieces
        BY <1>0, <1>1, <2>1
    <2>3. Part(a, b) = Append(Part(a, b - 1), ps[b])
        BY <1>1, <1>3
    <2>. HIDE DEF Part
    <2>. QED BY <2>2, <2>3, BytesOf
<1>. HIDE DEF Part
<1>4. 0 \in T
    <2>. SUFFICES ASSUME 0 >= i PROVE Bytes(Part(0, 0)) = Bytes(Part(0, i)) + Bytes(Part(i, 0))
        BY <1>0
    <2>1. i = 0
        OBVIOUS
    <2>. QED BY <1>0, <1>1, <1>2, <2>1
<1>5. ASSUME NEW n \in 0 .. Len(ps) - 1, n \in T
      PROVE  n + 1 \in T
    <2>1. n + 1 \in 0 .. Len(ps) /\ 0 < n + 1 /\ (n + 1) - 1 = n /\ n \in 0 .. Len(ps)
          /\ 0 \in 0 .. Len(ps)
        BY <1>0
    <2>. SUFFICES ASSUME n + 1 >= i
         PROVE  Bytes(Part(0, n + 1)) = Bytes(Part(0, i)) + Bytes(Part(i, n + 1))
        BY <2>1
    <2>2. CASE n + 1 = i
        <3>1. i \in i .. Len(ps) /\ i \in 0 .. Len(ps)
            BY <1>0
        <3>2. Part(i, i) = <<>> /\ Bytes(Part(0, i)) \in Nat
            BY <1>1, <2>1, <3>1
        <3>. QED BY <1>2, <2>2, <3>2
    <2>3. CASE n >= i
        <3>1. n + 1 \in i .. Len(ps) /\ n \in i .. Len(ps) /\ i < n + 1 /\ n + 1 \in 1 .. Len(ps)
            BY <1>0, <2>1, <2>3
        <3>2. Bytes(Part(0, n + 1)) = Bytes(Part(0, n)) + Len(ps[n + 1])
            BY <1>3, <2>1
        <3>3. Bytes(Part(i, n + 1)) = Bytes(Part(i, n)) + Len(ps[n + 1])
            BY <1>3, <2>1, <3>1
        <3>4. Bytes(Part(0, n)) \in Nat /\ Bytes(Part(i, n)) \in Nat /\ Bytes(Part(0, i)) \in Nat
            BY <1>1, <2>1, <3>1
        <3>5. Len(ps[n + 1]) \in Nat
            BY <1>0, <3>1, BytesOf
        <3>6. Bytes(Part(0, n)) = Bytes(Part(0, i)) + Bytes(Part(i, n))
            BY <1>5, <2>3
        <3>. QED BY <3>2, <3>3, <3>4, <3>5, <3>6
    <2>. QED BY <2>1, <2>2, <2>3
<1>6. k \in T
    <2>. HIDE DEF T
    <2>1. 0 .. Len(ps) \subseteq T
        BY <1>0, <1>4, <1>5, Upto
    <2>. QED BY <1>0, <2>1
<1>7. Bytes(Part(0, k)) = Bytes(Part(0, i)) + Bytes(Part(i, k))
    BY <1>0, <1>6
<1>8. /\ Bytes(Part(0, k)) \in Nat /\ Bytes(Part(0, i)) \in Nat
      /\ Bytes(Part(i, k)) \in Nat /\ Part(i, k) \in Seq(Pieces)
    <2>. DEFINE l == Len(ps)
    <2>1. l \in Nat /\ i \in 0 .. l /\ k \in i .. l
        BY <1>0
    <2>. HIDE DEF l
    <2>2. 0 \in 0 .. l /\ k \in 0 .. l /\ i \in 0 .. l
        BY <2>1
    <2>. QED BY <1>1, <2>1, <2>2 DEF l
<1>9. Cover(ps, k) = Bytes(Part(0, k)) /\ Cover(ps, i) = Bytes(Part(0, i))
    BY DEF Cover, Part
<1>. QED BY <1>7, <1>8, <1>9 DEF Part

LEMMA Covers ==
    ASSUME NEW ps \in Seq(Pieces)
    PROVE  /\ Len(ps) \in Nat /\ Cover(ps, 0) = 0 /\ Cover(ps, Len(ps)) = Bytes(ps)
           /\ \A k \in 0 .. Len(ps) : Cover(ps, k) \in Nat
           /\ \A i, k \in 0 .. Len(ps) : i <= k => Cover(ps, i) <= Cover(ps, k)
<1>1. Len(ps) \in Nat
    BY LenProperties
<1>2. Cover(ps, 0) = 0
    <2>1. SubSeq(ps, 1, 0) = <<>>
        BY SubSeqEmpty
    <2>2. Cover(ps, 0) = Len(FlattenSeq(<<>>))
        BY <2>1 DEF Cover, Bytes
    <2>. QED BY <2>2, FlattenEmpty, EmptySeq
<1>3. Cover(ps, Len(ps)) = Bytes(ps)
    BY SubSeqFull DEF Cover
<1>4. ASSUME NEW i \in 0 .. Len(ps), NEW k \in 0 .. Len(ps), i <= k
      PROVE  Cover(ps, i) <= Cover(ps, k)
    <2>1. k \in i .. Len(ps)
        BY <1>4
    <2>2. /\ Cover(ps, i) \in Nat /\ Cover(ps, k) \in Nat /\ Bytes(SubSeq(ps, i + 1, k)) \in Nat
          /\ Cover(ps, k) = Cover(ps, i) + Bytes(SubSeq(ps, i + 1, k))
        BY <2>1, Between
    <2>. QED BY <2>2
<1>5. ASSUME NEW k \in 0 .. Len(ps) PROVE Cover(ps, k) \in Nat
    <2>1. k \in k .. Len(ps)
        BY <1>1
    <2>. QED BY <2>1, Between
<1>. QED BY <1>1, <1>2, <1>3, <1>4, <1>5

\* The bytes of the first entries do not depend on the later ones.
LEMMA CoverSame ==
    ASSUME NEW ps \in Seq(Pieces), NEW n \in 0 .. Len(ps), NEW k \in 0 .. n
    PROVE  Cover(SubSeq(ps, 1, n), k) = Cover(ps, k)
<1>1. /\ SubSeq(ps, 1, n) \in Seq(Pieces) /\ Len(SubSeq(ps, 1, n)) = n
      /\ \A i \in 1 .. n : SubSeq(ps, 1, n)[i] = ps[i]
    BY PartOf
<1>. DEFINE q == SubSeq(ps, 1, n)
<1>. HIDE DEF q
<1>2. /\ SubSeq(q, 1, k) \in Seq(Pieces) /\ Len(SubSeq(q, 1, k)) = k
      /\ \A i \in 1 .. k : SubSeq(q, 1, k)[i] = q[i]
    BY <1>1, PartOf DEF q
<1>3. /\ SubSeq(ps, 1, k) \in Seq(Pieces) /\ Len(SubSeq(ps, 1, k)) = k
      /\ \A i \in 1 .. k : SubSeq(ps, 1, k)[i] = ps[i]
    <2>1. k \in 0 .. Len(ps)
        BY LenProperties
    <2>. QED BY <2>1, PartOf
<1>4. \A i \in 1 .. k : q[i] = ps[i]
    BY <1>1 DEF q
<1>5. SubSeq(q, 1, k) = SubSeq(ps, 1, k)
    BY <1>2, <1>3, <1>4, SeqEqual
<1>. QED BY <1>5 DEF Cover, q

-----------------------------------------------------------------------------
(* What is handed over, and what is cut.                                   *)

LEMMA CoveredIs ==
    ASSUME TypeOK, NEW t, NEW ps \in Seq(Pieces), Handing(t, ps), NEW n \in Nat, n_sent <= n
    PROVE  LET c == Covered(ps, n) IN
             /\ c \in n_probs_sent .. Len(ps) /\ Cover(ps, c) <= n
             /\ \A k \in 0 .. Len(ps) : Cover(ps, k) <= n => k <= c
             /\ covered + Bytes(SubSeq(ps, n_probs_sent + 1, c)) = Cover(ps, c)
<1>0. /\ n_probs_sent \in 0 .. Len(ps) /\ Len(ps) \in Nat /\ covered \in Nat /\ n_sent \in Nat
      /\ covered = Cover(ps, n_probs_sent) /\ covered <= n
    BY LenProperties DEF TypeOK, Handing
<1>1. \A k \in n_probs_sent .. Len(ps) :
        covered + Bytes(SubSeq(ps, n_probs_sent + 1, k)) = Cover(ps, k) /\ Cover(ps, k) \in Nat
    BY <1>0, Between
<1>. DEFINE K == {k \in n_probs_sent .. Len(ps) :
                    covered + Bytes(SubSeq(ps, n_probs_sent + 1, k)) <= n}
<1>2. K \in SUBSET (0 .. Len(ps))
    BY <1>0
<1>3. n_probs_sent \in K
    BY <1>0, <1>1
<1>4. Max(K) \in K /\ \A k \in K : k <= Max(K)
    <2>. HIDE DEF K
    <2>. QED BY <1>0, <1>2, <1>3, MaxIn
<1>5. Covered(ps, n) = Max(K)
    BY DEF Covered
<1>6. ASSUME NEW k \in 0 .. Len(ps), Cover(ps, k) <= n
      PROVE  k <= Max(K)
    <2>1. CASE k < n_probs_sent
        BY <1>0, <1>4, <2>1
    <2>2. CASE k >= n_probs_sent
        <3>1. k \in n_probs_sent .. Len(ps)
            BY <1>0, <2>2
        <3>2. k \in K
            BY <1>1, <1>6, <3>1
        <3>. QED BY <1>4, <3>2
    <2>. QED BY <1>0, <2>1, <2>2
<1>. DEFINE c == Covered(ps, n)
<1>7. c \in n_probs_sent .. Len(ps) /\ covered + Bytes(SubSeq(ps, n_probs_sent + 1, c)) <= n
    BY <1>4, <1>5
<1>8. \A k \in 0 .. Len(ps) : Cover(ps, k) <= n => k <= c
    BY <1>5, <1>6
<1>. HIDE DEF c, K
<1>9. covered + Bytes(SubSeq(ps, n_probs_sent + 1, c)) = Cover(ps, c)
    BY <1>1, <1>7
<1>. QED BY <1>7, <1>8, <1>9 DEF c

\* emit() makes of the beginning that was handed over a longer one.
LEMMA HandedIs ==
    ASSUME TypeOK, NEW t \in Seq(Byte), NEW ps \in Seq(Pieces), Handing(t, ps),
           NEW n \in n_sent .. Len(t)
    PROVE  /\ Covered(ps, n) \in 0 .. Len(ps)
           /\ Handed(t, ps, n).text = SubSeq(t, 1, n)
           /\ Handed(t, ps, n).probs = SubSeq(ps, 1, Covered(ps, n))
           /\ Handed(t, ps, n) \in [text : Seq(Byte), probs : Seq(Pieces)]
<1>0. /\ n_probs_sent \in 0 .. Len(ps) /\ n_sent \in 0 .. Len(t)
      /\ Len(ps) \in Nat /\ Len(t) \in Nat /\ n \in Nat /\ n \in 0 .. Len(t)
      /\ out.text = SubSeq(t, 1, n_sent) /\ out.probs = SubSeq(ps, 1, n_probs_sent)
    BY LenProperties DEF TypeOK, Handing
<1>. DEFINE c == Covered(ps, n)
<1>1. c \in n_probs_sent .. Len(ps)
    BY <1>0, CoveredIs
<1>. HIDE DEF c
<1>2. SubSeq(t, 1, n_sent) \o SubSeq(t, n_sent + 1, n) = SubSeq(t, 1, n)
    <2>1. 1 \in 1 .. Len(t) + 1 /\ n_sent \in 1 - 1 .. Len(t)
        BY <1>0
    <2>. QED BY <1>0, <2>1, ConcatAdjacentSubSeq
<1>3. SubSeq(ps, 1, n_probs_sent) \o SubSeq(ps, n_probs_sent + 1, c) = SubSeq(ps, 1, c)
    <2>1. 1 \in 1 .. Len(ps) + 1 /\ n_probs_sent \in 1 - 1 .. Len(ps)
        BY <1>0
    <2>. QED BY <1>0, <1>1, <2>1, ConcatAdjacentSubSeq
<1>4. SubSeq(t, 1, n) \in Seq(Byte) /\ SubSeq(ps, 1, c) \in Seq(Pieces)
    <2>1. c \in 1 - 1 .. Len(ps) /\ 1 \in 1 .. Len(ps) + 1
        BY <1>0, <1>1
    <2>2. n \in 1 - 1 .. Len(t) /\ 1 \in 1 .. Len(t) + 1
        BY <1>0
    <2>. QED BY <2>1, <2>2, PartOf
<1>5. Handed(t, ps, n) = [text |-> SubSeq(t, 1, n), probs |-> SubSeq(ps, 1, c)]
    BY <1>0, <1>2, <1>3 DEF Handed, c
<1>. QED BY <1>0, <1>1, <1>4, <1>5 DEF c

LEMMA TrimmedIs ==
    ASSUME NEW ps \in Seq(Pieces), NEW pos \in Nat
    PROVE  \E m \in 0 .. Len(ps) :
             /\ Trimmed(ps, pos) = SubSeq(ps, 1, m) /\ Cover(ps, m) <= pos
             /\ \A k \in 0 .. Len(ps) : Cover(ps, k) <= pos => k <= m
<1>. DEFINE K == {k \in 0 .. Len(ps) : Bytes(SubSeq(ps, 1, k)) <= pos}
<1>1. K \in SUBSET (0 .. Len(ps)) /\ \A k \in K : Cover(ps, k) <= pos
    BY DEF Cover
<1>2. 0 \in K
    <2>1. 0 \in 0 .. Len(ps) /\ Cover(ps, 0) = 0
        BY Covers
    <2>. QED BY <2>1 DEF Cover
<1>3. \A k \in 0 .. Len(ps) : Cover(ps, k) <= pos => k \in K
    BY DEF Cover
<1>4. Trimmed(ps, pos) = SubSeq(ps, 1, Max(K))
    BY DEF Trimmed
<1>. HIDE DEF K
<1>5. Max(K) \in K /\ \A k \in K : k <= Max(K)
    BY <1>1, <1>2, Covers, MaxIn
<1>. QED BY <1>1, <1>3, <1>4, <1>5

LEMMA FinishKeeps ==
    ASSUME TypeOK, NEW t \in Seq(Byte), NEW ps \in Seq(Pieces), Handing(t, ps),
           Bytes(ps) <= Len(t),
           NEW kind \in {"stop", "length", "cancel", "error"}, Finish(t, ps, kind),
           toks' \in Seq(Pieces), word' \in Seq(Byte),
           conf.want_logprobs =>
             /\ IsPrefix(ps, toks')
             /\ Len(ps) < Len(toks') => Bytes(SubSeq(toks', 1, Len(ps) + 1)) > Len(t)
    PROVE  TypeOK' /\ busy' = FALSE /\ NeverTakenBack' /\ ProbsFollowText'
<1>0. /\ n_probs_sent \in 0 .. Len(ps) /\ n_sent \in 0 .. Len(t)
      /\ Len(ps) \in Nat /\ Len(t) \in Nat /\ Bytes(ps) \in Nat
      /\ out.text = SubSeq(t, 1, n_sent) /\ out.probs = SubSeq(ps, 1, n_probs_sent)
      /\ covered = Cover(ps, n_probs_sent) /\ covered <= n_sent
    BY BytesOf, LenProperties DEF TypeOK, Handing
<1>1. /\ text' = t /\ probs' = ps /\ finish' = kind /\ busy' = FALSE /\ conf' = conf
      /\ n_sent' = 0 /\ n_probs_sent' = 0 /\ covered' = 0
    BY DEF Finish, ResetCursor
<1>2. conf \in Requests /\ conf.wants_pieces \in BOOLEAN
    BY DEF TypeOK, Requests
<1>3. ASSUME NEW n \in 0 .. Len(t), NEW c \in 0 .. Len(ps),
             out' \in [text : Seq(Byte), probs : Seq(Pieces)],
             out'.text = SubSeq(t, 1, n), out'.probs = SubSeq(ps, 1, c), Cover(ps, c) <= n,
             conf.wants_pieces /\ kind \in {"stop", "length"} =>
               n = Len(t) /\ Bytes(ps) <= Cover(ps, c)
      PROVE  TypeOK' /\ NeverTakenBack' /\ ProbsFollowText'
    <2>1. SubSeq(t, 1, n) \in Seq(Byte) /\ Len(SubSeq(t, 1, n)) = n
          /\ \A i \in 1 .. n : SubSeq(t, 1, n)[i] = t[i]
        <3>1. 1 \in 1 .. Len(t) + 1 /\ n \in 1 - 1 .. Len(t)
            BY <1>0
        <3>. QED BY <3>1, PartOf
    <2>2. SubSeq(ps, 1, c) \in Seq(Pieces) /\ Len(SubSeq(ps, 1, c)) = c
          /\ \A i \in 1 .. c : SubSeq(ps, 1, c)[i] = ps[i]
        <3>1. 1 \in 1 .. Len(ps) + 1 /\ c \in 1 - 1 .. Len(ps)
            BY <1>0
        <3>. QED BY <3>1, PartOf
    <2>3. IsPrefix(out'.text, t)
        <3>1. Len(out'.text) <= Len(t) /\ \A i \in 1 .. Len(out'.text) : out'.text[i] = t[i]
            BY <1>0, <1>3, <2>1
        <3>2. out'.text \in Seq(Byte)
            BY <1>3
        <3>. QED BY <3>1, <3>2, PrefixIs
    <2>4. IsPrefix(out'.probs, ps)
        <3>1. Len(out'.probs) <= Len(ps) /\ \A i \in 1 .. Len(out'.probs) : out'.probs[i] = ps[i]
            BY <1>0, <1>3, <2>2
        <3>2. out'.probs \in Seq(Pieces)
            BY <1>3
        <3>. QED BY <3>1, <3>2, PrefixIs
    <2>5. conf.wants_pieces /\ kind \in {"stop", "length"} => out'.text = t
        BY <1>3, SubSeqFull
    <2>6. Bytes(out'.probs) = Cover(ps, c) /\ Len(out'.text) = n
        BY <1>3, <2>1 DEF Cover
    <2>7. Cover(ps, c) <= Bytes(ps)
        BY <1>0, Covers
    <2>8. Cover(ps, c) \in Nat
        BY Covers
    <2>9. TypeOK'
        BY <1>1, <1>2, <1>3 DEF TypeOK
    <2>10. NeverTakenBack'
        BY <1>1, <2>3, <2>5 DEF NeverTakenBack
    <2>11. Bytes(out'.probs) <= Len(out'.text)
        BY <1>3, <2>6
    <2>12. conf.wants_pieces /\ kind \in {"stop", "length"} => Bytes(out'.probs) = Bytes(ps)
        BY <1>0, <1>3, <2>6, <2>7, <2>8
    <2>13. ProbsFollowText'
        BY <1>1, <2>4, <2>11, <2>12 DEF ProbsFollowText
    <2>. QED BY <2>9, <2>10, <2>13
<1>4. CASE Flushes(t, kind)
    <2>1. out' = Handed(t, ps, Len(t)) /\ Len(t) \in n_sent .. Len(t) /\ Len(t) \in 0 .. Len(t)
        BY <1>0, <1>4 DEF Finish
    <2>. DEFINE c == Covered(ps, Len(t))
    <2>2. /\ c \in 0 .. Len(ps)
          /\ out'.text = SubSeq(t, 1, Len(t)) /\ out'.probs = SubSeq(ps, 1, c)
          /\ out' \in [text : Seq(Byte), probs : Seq(Pieces)]
        BY <2>1, HandedIs
    <2>3. Cover(ps, c) <= Len(t) /\ \A k \in 0 .. Len(ps) : Cover(ps, k) <= Len(t) => k <= c
        BY <1>0, CoveredIs
    <2>. HIDE DEF c
    <2>4. Len(ps) <= c
        BY <1>0, <2>3, Covers
    <2>5. Bytes(ps) <= Cover(ps, c)
        <3>1. c = Len(ps)
            BY <1>0, <2>2, <2>4
        <3>. QED BY <1>0, <3>1, Covers
    <2>6. TypeOK' /\ NeverTakenBack' /\ ProbsFollowText'
        BY <1>3, <2>1, <2>2, <2>3, <2>5
    <2>. QED BY <1>1, <2>6
<1>5. CASE ~Flushes(t, kind)
    <2>1. out' = out
        BY <1>5 DEF Finish
    <2>2. ASSUME conf.wants_pieces /\ kind \in {"stop", "length"}
          PROVE  n_sent = Len(t) /\ Bytes(ps) <= Cover(ps, n_probs_sent)
        <3>1. n_sent = Len(t)
            BY <1>0, <1>5, <2>2 DEF Flushes
        <3>2. Len(ps) \in 0 .. Len(ps) /\ Cover(ps, Len(ps)) = Bytes(ps)
            BY Covers
        <3>3. Cover(ps, Len(ps)) <= n_sent => Cover(ps, Len(ps)) <= covered
            BY <3>2 DEF Handing
        <3>. QED BY <1>0, <3>1, <3>2, <3>3
    <2>3. out \in [text : Seq(Byte), probs : Seq(Pieces)]
        BY DEF TypeOK
    <2>4. TypeOK' /\ NeverTakenBack' /\ ProbsFollowText'
        BY <1>0, <1>3, <2>1, <2>2, <2>3
    <2>. QED BY <1>1, <2>4
<1>. QED BY <1>4, <1>5

-----------------------------------------------------------------------------
(* Stop sequences.                                                         *)

LEMMA StopTypes ==
    ASSUME NEW c \in Requests
    PROVE  /\ c.wants_pieces \in BOOLEAN /\ c.want_logprobs \in BOOLEAN
           /\ DOMAIN c.stop \in SUBSET Nat
           /\ \A i \in DOMAIN c.stop : c.stop[i] \in Seq(Byte) /\ Len(c.stop[i]) \in Nat \ {0}
<1>1. c.stop \in Seq(Seq(Byte) \ {<<>>})
      /\ c.wants_pieces \in BOOLEAN /\ c.want_logprobs \in BOOLEAN
    BY StopStreamAssumption DEF Requests
<1>2. DOMAIN c.stop = 1 .. Len(c.stop) /\ Len(c.stop) \in Nat
    BY <1>1, LenProperties
<1>3. \A i \in DOMAIN c.stop : c.stop[i] \in Seq(Byte) \ {<<>>}
    BY <1>1, <1>2, ElementOfSeq
<1>. QED BY <1>1, <1>2, <1>3, EmptySeq

\* The last k bytes of t begin a stop sequence.
Begun(t, k) == \E i \in DOMAIN conf.stop :
    k < Len(conf.stop[i]) /\ \A j \in 1 .. k : conf.stop[i][j] = t[Len(t) - k + j]

LEMMA Holding ==
    ASSUME conf \in Requests, NEW t \in Seq(Byte)
    PROVE  /\ Hold(t) \in 0 .. Len(t) /\ (Hold(t) # 0 => Begun(t, Hold(t)))
           /\ \A k \in 0 .. Len(t) : Begun(t, k) => k <= Hold(t)
<1>. DEFINE K == {k \in 0 .. Len(t) : \E i \in DOMAIN conf.stop :
                    k < Len(conf.stop[i]) /\ IsSuffix(SubSeq(conf.stop[i], 1, k), t)}
<1>0. Len(t) \in Nat
    BY LenProperties
<1>1. ASSUME NEW k \in 0 .. Len(t)
      PROVE  k \in K <=> Begun(t, k)
    <2>1. ASSUME NEW i \in DOMAIN conf.stop, k < Len(conf.stop[i])
          PROVE  IsSuffix(SubSeq(conf.stop[i], 1, k), t)
                   <=> \A j \in 1 .. k : conf.stop[i][j] = t[Len(t) - k + j]
        <3>. DEFINE w == conf.stop[i]
                    u == SubSeq(w, 1, k)
        <3>1. w \in Seq(Byte) /\ k \in 1 - 1 .. Len(w) /\ 1 \in 1 .. Len(w) + 1
            BY <1>0, <2>1, StopTypes
        <3>. HIDE DEF w
        <3>2. u \in Seq(Byte) /\ Len(u) = k /\ \A j \in 1 .. k : u[j] = w[j]
            <4>1. /\ u \in Seq(Byte) /\ Len(u) = k - 1 + 1
                  /\ \A j \in 1 .. k - 1 + 1 : u[j] = w[1 + j - 1]
                BY <3>1, PartOf
            <4>. QED BY <1>0, <4>1
        <3>. HIDE DEF u
        <3>3. IsSuffix(u, t) <=> Len(u) <= Len(t) /\ \A j \in 1 .. Len(u) : u[j] = t[Len(t) - Len(u) + j]
            BY <3>2, SuffixIs
        <3>4. IsSuffix(u, t) <=> \A j \in 1 .. k : w[j] = t[Len(t) - k + j]
            BY <1>0, <3>2, <3>3
        <3>. QED BY <3>4 DEF u, w
    <2>. QED BY <2>1 DEF Begun
<1>2. Hold(t) = Max(K \cup {0}) /\ K \cup {0} \in SUBSET (0 .. Len(t))
    BY <1>0 DEF Hold
<1>. HIDE DEF K
<1>3. Max(K \cup {0}) \in K \cup {0} /\ \A k \in K \cup {0} : k <= Max(K \cup {0})
    BY <1>0, <1>2, MaxIn
<1>. QED BY <1>1, <1>2, <1>3

\* A piece more, and no more is held back than before, and that piece.
LEMMA HoldGrows ==
    ASSUME conf \in Requests, NEW t \in Seq(Byte), NEW p \in Seq(Byte)
    PROVE  Hold(t \o p) <= Hold(t) + Len(p)
<1>. DEFINE u == t \o p
            h == Hold(u)
<1>1. /\ u \in Seq(Byte) /\ Len(u) = Len(t) + Len(p) /\ Len(t) \in Nat /\ Len(p) \in Nat
      /\ \A i \in 1 .. Len(t) : u[i] = t[i]
    <2>1. /\ u \in Seq(Byte) /\ Len(u) = Len(t) + Len(p)
          /\ \A i \in 1 .. Len(t) + Len(p) : u[i] = IF i <= Len(t) THEN t[i] ELSE p[i - Len(t)]
        BY ConcatProperties
    <2>2. Len(t) \in Nat /\ Len(p) \in Nat
        BY LenProperties
    <2>. QED BY <2>1, <2>2
<1>. HIDE DEF u
<1>2. h \in 0 .. Len(u) /\ (h # 0 => Begun(u, h)) /\ Hold(t) \in 0 .. Len(t)
      /\ \A k \in 0 .. Len(t) : Begun(t, k) => k <= Hold(t)
    BY <1>1, Holding
<1>. HIDE DEF h
<1>. SUFFICES ASSUME h > Len(p) PROVE h - Len(p) <= Hold(t)
    BY <1>1, <1>2 DEF h, u
<1>3. PICK i \in DOMAIN conf.stop :
        h < Len(conf.stop[i]) /\ \A j \in 1 .. h : conf.stop[i][j] = u[Len(u) - h + j]
    BY <1>1, <1>2 DEF Begun
<1>. DEFINE k == h - Len(p)
<1>4. k \in 0 .. Len(t) /\ k <= h /\ Len(u) - h = Len(t) - k
    BY <1>1, <1>2
<1>5. Len(conf.stop[i]) \in Nat
    BY StopTypes
<1>6. k < Len(conf.stop[i])
    BY <1>1, <1>2, <1>3, <1>4, <1>5
<1>. HIDE DEF k
<1>7. ASSUME NEW j \in 1 .. k
      PROVE  conf.stop[i][j] = t[Len(t) - k + j]
    <2>1. j \in 1 .. h /\ Len(t) - k + j \in 1 .. Len(t)
        BY <1>1, <1>2, <1>4
    <2>2. conf.stop[i][j] = u[Len(u) - h + j] /\ u[Len(t) - k + j] = t[Len(t) - k + j]
        BY <1>1, <1>3, <2>1
    <2>. QED BY <1>4, <2>2
<1>8. Begun(t, k)
    BY <1>6, <1>7 DEF Begun
<1>. QED BY <1>2, <1>4, <1>8 DEF k

\* A stop sequence that is complete only now does not begin before the text that is held back.
LEMMA StopInHeld ==
    ASSUME conf \in Requests, NEW t \in Seq(Byte), NEW p \in Seq(Byte), ~Complete(t),
           NEW i \in DOMAIN conf.stop, NEW pos \in 0 .. Len(t \o p),
           At(t \o p, conf.stop[i], pos)
    PROVE  pos + Len(conf.stop[i]) > Len(t) /\ pos >= Len(t) - Hold(t)
<1>. DEFINE u == t \o p
            w == conf.stop[i]
<1>1. /\ u \in Seq(Byte) /\ Len(u) = Len(t) + Len(p) /\ Len(t) \in Nat /\ Len(p) \in Nat
      /\ \A j \in 1 .. Len(t) : u[j] = t[j]
    <2>1. /\ u \in Seq(Byte) /\ Len(u) = Len(t) + Len(p)
          /\ \A j \in 1 .. Len(t) + Len(p) : u[j] = IF j <= Len(t) THEN t[j] ELSE p[j - Len(t)]
        BY ConcatProperties
    <2>2. Len(t) \in Nat /\ Len(p) \in Nat
        BY LenProperties
    <2>. QED BY <2>1, <2>2
<1>2. w \in Seq(Byte) /\ Len(w) \in Nat \ {0}
    BY StopTypes
<1>. HIDE DEF u, w
<1>3. /\ pos \in 0 .. Len(u) /\ pos + Len(w) <= Len(u)
      /\ \A k \in 1 .. Len(w) : w[k] = u[pos + k]
    <2>1. At(u, w, pos) /\ pos \in 0 .. Len(u)
        BY DEF u, w
    <2>2. At(u, w, pos) <=> pos + Len(w) <= Len(u) /\ \A k \in 1 .. Len(w) : w[k] = u[pos + k]
        BY <1>1, <1>2, <2>1, Standing
    <2>. QED BY <2>1, <2>2
<1>4. pos + Len(w) > Len(t)
    <2>. SUFFICES ASSUME pos + Len(w) <= Len(t) PROVE FALSE
        BY <1>1, <1>2
    <2>1. pos \in 0 .. Len(t) - Len(w) /\ pos \in 0 .. Len(t)
        BY <1>1, <1>2, <1>3
    <2>2. \A k \in 1 .. Len(w) : w[k] = t[pos + k]
        <3>. TAKE k \in 1 .. Len(w)
        <3>1. pos + k \in 1 .. Len(t)
            BY <1>1, <1>2, <2>1
        <3>. QED BY <1>1, <1>3, <3>1
    <2>3. At(t, w, pos)
        BY <1>2, <2>1, <2>2, Standing
    <2>. QED BY <2>1, <2>3 DEF Complete, Occurs, w
<1>5. pos >= Len(t) - Hold(t)
    <2>0. Hold(t) \in 0 .. Len(t) /\ \A k \in 0 .. Len(t) : Begun(t, k) => k <= Hold(t)
        BY Holding
    <2>. SUFFICES ASSUME pos < Len(t) PROVE Len(t) - pos <= Hold(t)
        BY <1>1, <1>3, <2>0
    <2>. DEFINE k == Len(t) - pos
    <2>1. k \in 0 .. Len(t) /\ k < Len(w) /\ Len(t) - k = pos
        BY <1>1, <1>2, <1>3, <1>4
    <2>. HIDE DEF k
    <2>2. \A j \in 1 .. k : w[j] = t[Len(t) - k + j]
        <3>. TAKE j \in 1 .. k
        <3>1. j \in 1 .. Len(w) /\ pos + j \in 1 .. Len(t)
            BY <1>1, <1>2, <1>3, <2>1
        <3>2. w[j] = t[pos + j]
            BY <1>1, <1>3, <3>1
        <3>. QED BY <2>1, <3>2
    <2>3. Begun(t, k)
        BY <2>1, <2>2 DEF Begun, w
    <2>. QED BY <2>0, <2>1, <2>3 DEF k
<1>. QED BY <1>4, <1>5 DEF w

\* The search from what was sent finds what a search from the start finds.
LEMMA SearchIs ==
    ASSUME conf \in Requests, text \in Seq(Byte), ~Complete(text), NEW p \in Seq(Byte),
           n_sent \in 0 .. Len(text)
    PROVE  \A i \in DOMAIN conf.stop :
             /\ Found(text \o p, conf.stop[i])
                  = {k \in 0 .. Len(text \o p) : At(text \o p, conf.stop[i], k)}
             /\ Occurs(text \o p, conf.stop[i]) <=> Found(text \o p, conf.stop[i]) # {}
<1>. TAKE i \in DOMAIN conf.stop
<1>. DEFINE t == text \o p
            w == conf.stop[i]
<1>1. t \in Seq(Byte) /\ Len(t) \in Nat /\ Len(text) \in Nat
    BY ConcatProperties, LenProperties
<1>2. w \in Seq(Byte) /\ Len(w) \in Nat \ {0}
    BY StopTypes
<1>3. ASSUME NEW k \in 0 .. Len(t), At(t, w, k)
      PROVE  k + Len(w) <= Len(t) /\ k + Len(w) > Len(text)
    <2>1. k + Len(w) > Len(text)
        BY <1>3, StopInHeld
    <2>. HIDE DEF t, w
    <2>2. k + Len(w) <= Len(t)
        BY <1>1, <1>2, <1>3, Standing
    <2>. QED BY <2>1, <2>2
<1>4. From(w) \in Nat /\ (From(w) = 0 \/ From(w) = n_sent - Len(w))
    <2>. DEFINE x == n_sent - Len(w)
    <2>1. x \in Int
        BY <1>1, <1>2
    <2>2. From(w) = Max({0, x})
        BY DEF From
    <2>. HIDE DEF x
    <2>3. Max({0, x}) = IF 0 >= x THEN 0 ELSE x
        BY <2>1 DEF Max
    <2>4. From(w) \in Nat /\ (From(w) = 0 \/ From(w) = x)
        BY <2>1, <2>2, <2>3
    <2>. QED BY <2>4 DEF x
<1>. HIDE DEF t, w
<1>5. \A k \in 0 .. Len(t) : At(t, w, k) => k \in From(w) .. Len(t) - Len(w)
    BY <1>1, <1>2, <1>3, <1>4
<1>6. From(w) .. Len(t) - Len(w) \subseteq 0 .. Len(t)
    BY <1>1, <1>2, <1>4
<1>7. Found(t, w) = {k \in 0 .. Len(t) : At(t, w, k)}
    BY <1>5, <1>6 DEF Found
<1>8. Occurs(t, w) <=> Found(t, w) # {}
    <2>1. \A k \in 0 .. Len(t) : At(t, w, k) => k \in 0 .. Len(t) - Len(w)
        BY <1>1, <1>2, <1>3
    <2>2. 0 .. Len(t) - Len(w) \subseteq 0 .. Len(t)
        BY <1>1, <1>2
    <2>. QED BY <1>7, <2>1, <2>2 DEF Occurs
<1>. QED BY <1>7, <1>8 DEF t, w

LEMMA StopFound ==
    ASSUME conf \in Requests, text \in Seq(Byte), ~Complete(text), NEW p \in Seq(Byte),
           n_sent \in 0 .. Len(text), Complete(text \o p)
    PROVE  LET t == text \o p
               i == Min({j \in DOMAIN conf.stop : Found(t, conf.stop[j]) # {}})
               pos == Min(Found(t, conf.stop[i]))
           IN  /\ i \in DOMAIN conf.stop /\ pos \in 0 .. Len(t)
               /\ At(t, conf.stop[i], pos) /\ Before(t) = SubSeq(t, 1, pos)
<1>. DEFINE t == text \o p
            I == {j \in DOMAIN conf.stop : Found(t, conf.stop[j]) # {}}
            i == Min(I)
            P == Found(t, conf.stop[i])
            pos == Min(P)
<1>1. \A j \in DOMAIN conf.stop :
        /\ Found(t, conf.stop[j]) = {k \in 0 .. Len(t) : At(t, conf.stop[j], k)}
        /\ Occurs(t, conf.stop[j]) <=> Found(t, conf.stop[j]) # {}
    BY SearchIs
<1>2. I \in SUBSET Nat /\ I # {}
    <2>1. PICK j \in DOMAIN conf.stop : Occurs(t, conf.stop[j])
        BY DEF Complete
    <2>2. DOMAIN conf.stop \in SUBSET Nat
        BY StopTypes
    <2>. QED BY <1>1, <2>1, <2>2
<1>3. i \in I
    <2>. HIDE DEF I
    <2>. QED BY <1>2, MinIn
<1>4. I = {j \in DOMAIN conf.stop : Occurs(t, conf.stop[j])}
    BY <1>1
<1>5. i \in DOMAIN conf.stop /\ P # {} /\ P = {k \in 0 .. Len(t) : At(t, conf.stop[i], k)}
    BY <1>1, <1>3
<1>6. P \in SUBSET Nat
    <2>1. Len(t) \in Nat
        BY ConcatProperties, LenProperties
    <2>. HIDE DEF P, t
    <2>. QED BY <1>5, <2>1
<1>7. pos \in P
    <2>. HIDE DEF P
    <2>. QED BY <1>5, <1>6, MinIn
<1>8. pos \in 0 .. Len(t) /\ At(t, conf.stop[i], pos)
    <2>. HIDE DEF P, t, pos
    <2>. QED BY <1>5, <1>7
<1>9. Before(t) = SubSeq(t, 1, Min({k \in 0 .. Len(t) : At(t, conf.stop[i], k)}))
    <2>. HIDE DEF I, t
    <2>. QED BY <1>4 DEF Before
<1>10. Before(t) = SubSeq(t, 1, pos)
    <2>. HIDE DEF P, t, i
    <2>. QED BY <1>5, <1>9
<1>. QED BY <1>5, <1>8, <1>10

-----------------------------------------------------------------------------
(* The steps.                                                              *)

LEMMA EmptyText ==
    ASSUME NEW c \in Requests
    PROVE  \A i \in DOMAIN c.stop : ~Occurs(<<>>, c.stop[i])
<1>. TAKE i \in DOMAIN c.stop
<1>1. Len(c.stop[i]) \in Nat \ {0} /\ Len(<<>>) = 0
    BY StopTypes, EmptySeq
<1>. QED BY <1>1 DEF Occurs

LEMMA EmptyBegins == ASSUME NEW S PROVE IsPrefix(<<>>, <<>>)
<1>1. <<>> \in Seq(S) /\ Len(<<>>) = 0
    BY EmptySeq
<1>2. IsPrefix(<<>>, <<>>) <=> Len(<<>>) <= Len(<<>>) /\ \A k \in 1 .. Len(<<>>) : <<>>[k] = <<>>[k]
    BY <1>1, PrefixIs, Zenon
<1>. QED BY <1>1, <1>2

LEMMA InitKeeps == Init => Inv
<1>. SUFFICES ASSUME Init PROVE Inv
    OBVIOUS
<1>1. /\ conf \in Requests /\ busy = FALSE /\ toks = <<>> /\ text = <<>> /\ probs = <<>>
      /\ word = <<>> /\ finish = "none" /\ out = [text |-> <<>>, probs |-> <<>>]
      /\ n_sent = 0 /\ n_probs_sent = 0 /\ covered = 0
    BY DEF Init
<1>2. <<>> \in Seq(Pieces) /\ <<>> \in Seq(Byte) /\ Len(<<>>) = 0
    BY EmptySeq
<1>3. TypeOK
    BY <1>1, <1>2 DEF TypeOK
<1>4. All = <<>> /\ ~Complete(All)
    BY <1>1, FlattenEmpty, EmptyText DEF All, Complete
<1>5. SameAnswer
    BY <1>1, <1>4 DEF SameAnswer, Answer
<1>6. IsPrefix(<<>>, <<>>) /\ Bytes(<<>>) = 0
    <2>1. IsPrefix(<<>>, <<>>)
        BY EmptyBegins
    <2>. QED BY <1>2, <2>1, FlattenEmpty DEF Bytes
<1>7. NeverTakenBack
    BY <1>1, <1>6 DEF NeverTakenBack
<1>8. ProbsFollowText
    BY <1>1, <1>2, <1>6 DEF ProbsFollowText
<1>. QED BY <1>1, <1>3, <1>5, <1>7, <1>8 DEF Inv

LEMMA AdmitKeeps == Inv /\ Admit => Inv'
<1>. SUFFICES ASSUME Inv, Admit PROVE Inv'
    OBVIOUS
<1>1. /\ conf' \in Requests /\ busy' = TRUE /\ toks' = <<>> /\ text' = <<>> /\ probs' = <<>>
      /\ word' = <<>> /\ finish' = "none" /\ out' = [text |-> <<>>, probs |-> <<>>]
      /\ n_sent' = 0 /\ n_probs_sent' = 0 /\ covered' = 0
    BY DEF Admit, Fresh, ResetCursor
<1>2. <<>> \in Seq(Pieces) /\ <<>> \in Seq(Byte) /\ Len(<<>>) = 0
    BY EmptySeq
<1>3. TypeOK'
    BY <1>1, <1>2 DEF TypeOK
<1>4. All' = <<>>
    BY <1>1, FlattenEmpty DEF All
<1>5. \A i \in DOMAIN conf'.stop : ~Occurs(<<>>, conf'.stop[i])
    BY <1>1, EmptyText
<1>6. ~Complete(All)'
    BY <1>4, <1>5 DEF Complete
<1>7. SameAnswer'
    BY <1>1, <1>4, <1>6 DEF SameAnswer, Answer
<1>9. Hold(text)' = 0
    <2>. DEFINE K == {k \in 0 .. Len(<<>>) : \E i \in DOMAIN conf'.stop :
                        k < Len(conf'.stop[i]) /\ IsSuffix(SubSeq(conf'.stop[i], 1, k), <<>>)}
    <2>1. Hold(text)' = Max(K \cup {0})
        BY <1>1 DEF Hold
    <2>2. K \cup {0} = {0}
        BY <1>2
    <2>. HIDE DEF K
    <2>. QED BY <2>1, <2>2 DEF Max
<1>10. Cover(<<>>, 0) = 0
    BY <1>2, Covers
<1>11. SubSeq(<<>>, 1, 0) = <<>>
    BY SubSeqEmpty
<1>12. Handing(text, probs)'
    BY <1>1, <1>2, <1>10, <1>11 DEF Handing, Cover
<1>13. Working'
    BY <1>1, <1>2, <1>9, <1>12 DEF Working
<1>. QED BY <1>1, <1>3, <1>7, <1>13 DEF Inv

\* What a request that runs knows of itself.
LEMMA AtWork ==
    ASSUME Inv, busy
    PROVE  /\ text = All /\ ~Complete(text) /\ conf \in Requests
           /\ text \in Seq(Byte) /\ n_sent \in 0 .. Len(text)
           /\ Handing(text, probs) /\ Bytes(probs) <= Len(text)
           /\ Bytes(toks) = Len(text)
<1>1. TypeOK /\ SameAnswer /\ Working
    BY DEF Inv
<1>2. text = All /\ ~Complete(text)
    BY <1>1 DEF SameAnswer, Answer
<1>3. Bytes(toks) = Len(text) /\ Len(text) \in Nat
    BY <1>1, <1>2, LenProperties DEF Bytes, All, TypeOK
<1>4. Bytes(probs) <= Len(text)
    <2>1. CASE conf.want_logprobs
        BY <1>1, <1>3, <2>1 DEF Working
    <2>2. CASE ~conf.want_logprobs
        <3>1. Bytes(probs) = 0
            BY <1>1, <2>2, FlattenEmpty, EmptySeq DEF Working, Bytes
        <3>. QED BY <1>3, <3>1
    <2>. QED BY <2>1, <2>2
<1>. QED BY <1>1, <1>2, <1>3, <1>4 DEF TypeOK, Working, Handing

\* finish() with the text as it is.
LEMMA EndKeeps ==
    ASSUME Inv, busy, NEW kind \in {"stop", "length", "cancel", "error"},
           Finish(text, probs, kind), UNCHANGED <<toks, word>>
    PROVE  Inv'
<1>1. TypeOK /\ SameAnswer /\ Working
    BY DEF Inv
<1>2. /\ text = All /\ ~Complete(text) /\ Handing(text, probs) /\ Bytes(probs) <= Len(text)
    BY AtWork
<1>3. text \in Seq(Byte) /\ probs \in Seq(Pieces) /\ toks \in Seq(Pieces) /\ word \in Seq(Byte)
    BY <1>1 DEF TypeOK
<1>4. ASSUME conf.want_logprobs
      PROVE  IsPrefix(probs, toks') /\ ~(Len(probs) < Len(toks'))
    <2>1. probs = toks /\ toks' = toks /\ Len(toks) \in Nat
        BY <1>1, <1>3, <1>4, LenProperties DEF Working
    <2>2. IsPrefix(toks, toks)
        BY <1>3, <2>1, PrefixIs
    <2>. QED BY <2>1, <2>2
<1>5. TypeOK' /\ busy' = FALSE /\ NeverTakenBack' /\ ProbsFollowText'
    BY <1>1, <1>2, <1>3, <1>4, FinishKeeps
<1>6. text' = text /\ All' = All /\ conf' = conf
    BY DEF Finish, All
<1>7. SameAnswer'
    BY <1>2, <1>5, <1>6 DEF SameAnswer, Answer, Complete
<1>. QED BY <1>5, <1>7 DEF Inv

\* on_sampled(): the text is longer by a piece, the entries by one if they are wanted.
LEMMA Longer ==
    ASSUME Inv, busy, NEW p \in Pieces, NEW ps,
           ps = IF conf.want_logprobs THEN Append(probs, p) ELSE probs
    PROVE  /\ p \in Seq(Byte) /\ text \o p \in Seq(Byte) /\ Len(text \o p) = Len(text) + Len(p)
           /\ Append(toks, p) \in Seq(Pieces) /\ ps \in Seq(Pieces)
           /\ Len(p) \in Nat /\ Len(text) \in Nat
           /\ FlattenSeq(Append(toks, p)) = text \o p
           /\ ps = IF conf.want_logprobs THEN Append(toks, p) ELSE <<>>
           /\ Handing(text \o p, ps) /\ Bytes(ps) <= Len(text \o p)
           /\ conf.want_logprobs => Bytes(ps) = Len(text \o p)
<1>. DEFINE t == text \o p
<1>0. /\ toks \in Seq(Pieces) /\ probs \in Seq(Pieces) /\ text \in Seq(Byte)
      /\ n_sent \in Nat /\ n_probs_sent \in Nat /\ covered \in Nat
      /\ probs = IF conf.want_logprobs THEN toks ELSE <<>>
    BY DEF Inv, TypeOK, Working
<1>1. /\ text = All /\ n_sent \in 0 .. Len(text) /\ Handing(text, probs)
      /\ Bytes(probs) <= Len(text) /\ Bytes(toks) = Len(text)
    BY AtWork
<1>2. /\ p \in Seq(Byte) /\ Len(p) \in Nat /\ FlattenSeq(Append(toks, p)) = FlattenSeq(toks) \o p
      /\ Bytes(Append(toks, p)) = Bytes(toks) + Len(p)
    BY <1>0, BytesOf
<1>3. /\ t \in Seq(Byte) /\ Len(t) = Len(text) + Len(p) /\ Len(text) \in Nat
      /\ \A i \in 1 .. Len(text) + Len(p) : t[i] = IF i <= Len(text) THEN text[i] ELSE p[i - Len(text)]
    BY <1>0, <1>2, ConcatProperties, LenProperties
<1>. HIDE DEF t
<1>4. FlattenSeq(Append(toks, p)) = t
    BY <1>1, <1>2 DEF All, t
<1>5. Append(toks, p) \in Seq(Pieces) /\ ps \in Seq(Pieces)
      /\ ps = IF conf.want_logprobs THEN Append(toks, p) ELSE <<>>
    BY <1>0, AppendProperties
<1>6. Bytes(ps) <= Len(t) /\ (conf.want_logprobs => Bytes(ps) = Len(t))
    <2>1. CASE conf.want_logprobs
        <3>1. Bytes(ps) = Len(t)
            BY <1>1, <1>2, <1>3, <1>5, <2>1
        <3>. QED BY <1>3, <3>1
    <2>2. CASE ~conf.want_logprobs
        <3>1. ps = probs
            BY <1>0, <1>5, <2>2
        <3>2. Bytes(probs) \in Nat
            BY <1>0, BytesOf
        <3>. QED BY <1>1, <1>2, <1>3, <2>2, <3>1, <3>2
    <2>. QED BY <2>1, <2>2
<1>7. SubSeq(t, 1, n_sent) = SubSeq(text, 1, n_sent) /\ n_sent <= Len(t)
    <2>1. n_sent \in 0 .. Len(t) /\ n_sent <= Len(text) /\ \A i \in 1 .. n_sent : t[i] = text[i]
        BY <1>1, <1>2, <1>3
    <2>. QED BY <1>0, <1>3, <2>1, SameStart
<1>8. Handing(t, ps)
    <2>1. CASE ps = probs
        BY <1>1, <1>7, <2>1 DEF Handing
    <2>2. CASE ps = Append(probs, p) /\ conf.want_logprobs
        <3>1. probs = toks /\ Bytes(probs) = Len(text) /\ Len(probs) \in Nat
            BY <1>0, <1>1, <2>2, LenProperties
        <3>2. /\ Len(ps) = Len(probs) + 1
              /\ \A i \in 1 .. Len(probs) : ps[i] = probs[i]
            BY <1>0, <2>2, AppendProperties
        <3>3. SubSeq(ps, 1, Len(probs)) = probs
            <4>1. Len(probs) \in 0 .. Len(probs) /\ Len(probs) <= Len(ps)
                BY <3>1, <3>2
            <4>2. SubSeq(probs, 1, Len(probs)) = SubSeq(ps, 1, Len(probs))
                BY <1>0, <1>5, <3>2, <4>1, SameStart
            <4>. QED BY <1>0, <4>2, SubSeqFull
        <3>4. \A k \in 0 .. Len(probs) : Cover(ps, k) = Cover(probs, k)
            <4>. TAKE k \in 0 .. Len(probs)
            <4>1. Len(probs) \in 0 .. Len(ps)
                BY <3>1, <3>2
            <4>2. Cover(SubSeq(ps, 1, Len(probs)), k) = Cover(ps, k)
                BY <1>5, <4>1, CoverSame
            <4>. QED BY <3>3, <4>2
        <3>5. /\ n_probs_sent \in 0 .. Len(probs) /\ out.probs = SubSeq(probs, 1, n_probs_sent)
              /\ out.text = SubSeq(text, 1, n_sent)
              /\ covered = Cover(probs, n_probs_sent) /\ covered <= n_sent
              /\ \A k \in 0 .. Len(probs) : Cover(probs, k) <= n_sent => Cover(probs, k) <= covered
            BY <1>0, <1>1, <3>1 DEF Handing
        <3>6. SubSeq(ps, 1, n_probs_sent) = SubSeq(probs, 1, n_probs_sent)
            <4>1. n_probs_sent \in 0 .. Len(ps) /\ n_probs_sent <= Len(probs)
                BY <3>1, <3>2, <3>5
            <4>2. \A i \in 1 .. n_probs_sent : ps[i] = probs[i]
                BY <3>1, <3>2, <3>5
            <4>. QED BY <1>0, <1>5, <4>1, <4>2, SameStart
        <3>7. ASSUME NEW k \in 0 .. Len(ps), Cover(ps, k) <= n_sent
              PROVE  Cover(ps, k) <= covered
            <4>1. CASE k \in 0 .. Len(probs)
                BY <3>4, <3>5, <3>7, <4>1
            <4>2. CASE k = Len(ps)
                <5>1. Cover(ps, k) = Len(t)
                    BY <1>5, <1>6, <2>2, <4>2, Covers
                <5>2. Len(text) <= n_sent /\ Len(t) = Len(text)
                    BY <1>1, <1>2, <1>3, <3>7, <5>1
                <5>3. Len(probs) \in 0 .. Len(probs) /\ Cover(probs, Len(probs)) = Len(text)
                    BY <1>0, <3>1, Covers
                <5>. QED BY <3>5, <5>1, <5>2, <5>3
            <4>. QED BY <3>1, <3>2, <4>1, <4>2
        <3>8. n_probs_sent <= Len(ps) /\ n_sent <= Len(t)
            BY <1>1, <1>2, <1>3, <3>1, <3>2, <3>5
        <3>9. covered = Cover(ps, n_probs_sent)
            BY <3>4, <3>5
        <3>. QED BY <1>7, <3>5, <3>6, <3>7, <3>8, <3>9 DEF Handing
    <2>. QED BY <2>1, <2>2
<1>. QED BY <1>2, <1>3, <1>4, <1>5, <1>6, <1>8 DEF t

LEMMA StoppedKeeps ==
    ASSUME Inv, busy, NEW p \in Pieces, toks' = Append(toks, p), Complete(text \o p), NEW ps,
           ps = IF conf.want_logprobs THEN Append(probs, p) ELSE probs, Stopped(text \o p, ps)
    PROVE  Inv'
<1>. DEFINE t == text \o p
            i == Min({j \in DOMAIN conf.stop : Found(t, conf.stop[j]) # {}})
            pos == Min(Found(t, conf.stop[i]))
<1>0. /\ text = All /\ ~Complete(text) /\ conf \in Requests /\ text \in Seq(Byte)
      /\ n_sent \in 0 .. Len(text) /\ TypeOK
      /\ n_sent = IF conf.wants_pieces THEN Len(text) - Hold(text) ELSE 0
    BY AtWork DEF Inv, Working
<1>1. /\ p \in Seq(Byte) /\ t \in Seq(Byte) /\ Len(t) = Len(text) + Len(p)
      /\ Append(toks, p) \in Seq(Pieces) /\ ps \in Seq(Pieces)
      /\ Len(p) \in Nat /\ Len(text) \in Nat
      /\ FlattenSeq(Append(toks, p)) = t
      /\ ps = IF conf.want_logprobs THEN Append(toks, p) ELSE <<>>
      /\ Handing(t, ps)
    BY Longer
<1>2. /\ i \in DOMAIN conf.stop /\ pos \in 0 .. Len(t)
      /\ At(t, conf.stop[i], pos) /\ Before(t) = SubSeq(t, 1, pos)
    BY <1>0, <1>1, StopFound
<1>3. word' = conf.stop[i] /\ Finish(SubSeq(t, 1, pos), Trimmed(ps, pos), "stop")
    BY DEF Stopped
<1>. HIDE DEF i, pos
<1>4. n_sent <= pos
    <2>1. pos >= Len(text) - Hold(text)
        BY <1>0, <1>1, <1>2, StopInHeld
    <2>. QED BY <1>0, <1>1, <1>2, <2>1
<1>. HIDE DEF t
<1>5. /\ SubSeq(t, 1, pos) \in Seq(Byte) /\ Len(SubSeq(t, 1, pos)) = pos
      /\ \A j \in 1 .. pos : SubSeq(t, 1, pos)[j] = t[j]
    BY <1>1, <1>2, FirstOf
<1>6. pos \in Nat /\ n_sent \in Nat /\ n_probs_sent \in Nat
    BY <1>0, <1>2 DEF TypeOK
<1>7. PICK m \in 0 .. Len(ps) :
        /\ Trimmed(ps, pos) = SubSeq(ps, 1, m) /\ Cover(ps, m) <= pos
        /\ \A k \in 0 .. Len(ps) : Cover(ps, k) <= pos => k <= m
    BY <1>1, <1>6, TrimmedIs
<1>. DEFINE u == SubSeq(t, 1, pos)
            qs == SubSeq(ps, 1, m)
<1>8. /\ qs \in Seq(Pieces) /\ Len(qs) = m /\ \A j \in 1 .. m : qs[j] = ps[j]
    BY <1>1, <1>7, FirstOf
<1>9. /\ \A k \in 0 .. m : Cover(qs, k) = Cover(ps, k)
      /\ \A k \in 0 .. Len(ps) : Cover(ps, k) \in Nat
      /\ Len(ps) \in Nat
    BY <1>1, <1>7, CoverSame, Covers
<1>10. /\ n_probs_sent \in 0 .. Len(ps) /\ out.probs = SubSeq(ps, 1, n_probs_sent)
       /\ out.text = SubSeq(t, 1, n_sent) /\ n_sent <= Len(t)
       /\ covered = Cover(ps, n_probs_sent) /\ covered <= n_sent
       /\ \A k \in 0 .. Len(ps) : Cover(ps, k) <= n_sent => Cover(ps, k) <= covered
    <2>1. Handing(t, ps)
        BY <1>1
    <2>2. n_probs_sent <= Len(ps)
        BY <2>1 DEF Handing
    <2>3. n_probs_sent \in 0 .. Len(ps)
        BY <1>6, <1>9, <2>2
    <2>. QED BY <2>1, <2>3 DEF Handing
<1>11. n_probs_sent <= m
    BY <1>4, <1>6, <1>7, <1>9, <1>10
<1>12. SubSeq(u, 1, n_sent) = SubSeq(t, 1, n_sent)
    <2>1. n_sent \in 0 .. Len(t) /\ n_sent \in 0 .. pos
        BY <1>4, <1>6, <1>10
    <2>2. \A j \in 1 .. n_sent : u[j] = t[j]
        BY <1>5, <2>1
    <2>3. u \in Seq(Byte) /\ n_sent \in 0 .. Len(u) /\ n_sent <= Len(t)
        BY <1>5, <1>10, <2>1
    <2>. HIDE DEF u
    <2>. QED BY <1>1, <2>2, <2>3, SameStart
<1>13. SubSeq(qs, 1, n_probs_sent) = SubSeq(ps, 1, n_probs_sent)
    <2>1. n_probs_sent \in 0 .. Len(qs) /\ n_probs_sent <= Len(ps)
        BY <1>6, <1>8, <1>10, <1>11
    <2>2. \A j \in 1 .. n_probs_sent : qs[j] = ps[j]
        BY <1>8, <2>1
    <2>3. qs \in Seq(Pieces)
        BY <1>8
    <2>. HIDE DEF qs
    <2>. QED BY <1>1, <2>1, <2>2, <2>3, SameStart
<1>. HIDE DEF u, qs
<1>14. Len(u) = pos /\ u \in Seq(Byte)
    BY <1>5 DEF u
<1>15. Handing(u, qs)
    <2>1. n_probs_sent \in 0 .. m
        BY <1>6, <1>11
    <2>2. covered = Cover(qs, n_probs_sent)
        BY <1>9, <1>10, <2>1
    <2>3. \A k \in 0 .. m : Cover(qs, k) <= n_sent => Cover(qs, k) <= covered
        BY <1>9, <1>10
    <2>. QED BY <1>4, <1>8, <1>10, <1>11, <1>12, <1>13, <1>14, <2>2, <2>3 DEF Handing
<1>16. Bytes(qs) <= Len(u)
    <2>1. Cover(qs, m) = Bytes(qs)
        BY <1>8, Covers
    <2>2. m \in 0 .. m
        BY <1>9
    <2>. QED BY <1>7, <1>9, <1>14, <2>1, <2>2
<1>17. ASSUME conf.want_logprobs
       PROVE  /\ IsPrefix(qs, toks')
              /\ Len(qs) < Len(toks') => Bytes(SubSeq(toks', 1, Len(qs) + 1)) > Len(u)
    <2>1. ps = toks'
        BY <1>1, <1>17
    <2>2. IsPrefix(qs, ps)
        <3>1. Len(qs) <= Len(ps) /\ \A k \in 1 .. Len(qs) : qs[k] = ps[k]
            BY <1>7, <1>8, <1>9
        <3>. QED BY <1>1, <1>8, <3>1, PrefixIs
    <2>3. ASSUME m < Len(ps)
          PROVE  Cover(ps, m + 1) > pos
        <3>1. m + 1 \in 0 .. Len(ps) /\ ~(m + 1 <= m)
            BY <1>7, <1>9, <2>3
        <3>2. Cover(ps, m + 1) \in Nat /\ ~(Cover(ps, m + 1) <= pos)
            BY <1>7, <1>9, <3>1
        <3>. QED BY <1>6, <3>2
    <2>. QED BY <1>8, <1>14, <2>1, <2>2, <2>3 DEF Cover
<1>18. toks' \in Seq(Pieces) /\ word' \in Seq(Byte)
    BY <1>0, <1>1, <1>2, <1>3, StopTypes
<1>19. Finish(u, qs, "stop")
    BY <1>3, <1>7 DEF u, qs
<1>20. TypeOK' /\ busy' = FALSE /\ NeverTakenBack' /\ ProbsFollowText'
    BY <1>0, <1>8, <1>14, <1>15, <1>16, <1>17, <1>18, <1>19, FinishKeeps
<1>21. text' = u /\ All' = t /\ conf' = conf
    BY <1>1, <1>19 DEF Finish, All
<1>22. Complete(t)
    BY DEF t
<1>23. SameAnswer'
    BY <1>2, <1>20, <1>21, <1>22 DEF SameAnswer, Answer, Complete, Before, u
<1>. QED BY <1>20, <1>23 DEF Inv

LEMMA GoOnKeeps ==
    ASSUME Inv, busy, NEW p \in Pieces, toks' = Append(toks, p), ~Complete(text \o p), NEW ps,
           ps = IF conf.want_logprobs THEN Append(probs, p) ELSE probs, GoOn(text \o p, ps)
    PROVE  Inv'
<1>. DEFINE t == text \o p
            n == Len(t) - Hold(t)
<1>0. /\ text = All /\ conf \in Requests /\ text \in Seq(Byte)
      /\ n_sent \in 0 .. Len(text) /\ TypeOK /\ finish = "none"
      /\ n_sent = IF conf.wants_pieces THEN Len(text) - Hold(text) ELSE 0
    BY AtWork DEF Inv, Working
<1>1. /\ p \in Seq(Byte) /\ t \in Seq(Byte) /\ Len(t) = Len(text) + Len(p)
      /\ Append(toks, p) \in Seq(Pieces) /\ ps \in Seq(Pieces)
      /\ Len(p) \in Nat /\ Len(text) \in Nat
      /\ FlattenSeq(Append(toks, p)) = t
      /\ ps = IF conf.want_logprobs THEN Append(toks, p) ELSE <<>>
      /\ Handing(t, ps)
    BY Longer
<1>2. Hold(t) <= Hold(text) + Len(p)
    BY <1>0, <1>1, HoldGrows
<1>3. /\ text' = t /\ probs' = ps /\ UNCHANGED <<conf, busy, word, finish>>
      /\ IF conf.wants_pieces /\ n > n_sent
         THEN /\ out' = Handed(t, ps, n) /\ n_sent' = n /\ n_probs_sent' = Covered(ps, n)
              /\ covered' = covered + Bytes(SubSeq(ps, n_probs_sent + 1, Covered(ps, n)))
         ELSE UNCHANGED <<out, n_sent, n_probs_sent, covered>>
    BY DEF GoOn, cursor
<1>. HIDE DEF t
<1>4. Hold(t) \in 0 .. Len(t) /\ Hold(text) \in 0 .. Len(text) /\ conf.wants_pieces \in BOOLEAN
    BY <1>0, <1>1, Holding, StopTypes
<1>5. n \in 0 .. Len(t) /\ (conf.wants_pieces => n_sent <= n) /\ n \in Nat
    <2>. DEFINE h == Hold(t)
                g == Hold(text)
                l == Len(t)
                m == Len(text)
                x == Len(p)
    <2>1. /\ h \in 0 .. l /\ g \in 0 .. m /\ x \in Nat /\ m \in Nat /\ l = m + x /\ h <= g + x
          /\ n = l - h
        BY <1>1, <1>2, <1>4
    <2>2. conf.wants_pieces => n_sent = m - g
        BY <1>0
    <2>. HIDE DEF h, g, l, m, x, n
    <2>3. n \in 0 .. l /\ n \in Nat /\ m - g <= n
        BY <2>1
    <2>4. conf.wants_pieces => n_sent <= n
        BY <2>2, <2>3
    <2>. QED BY <2>3, <2>4 DEF l
<1>6. toks' \in Seq(Pieces) /\ probs' \in Seq(Pieces) /\ text' \in Seq(Byte)
      /\ finish' = "none" /\ conf' = conf /\ All' = t
      /\ probs' = IF conf'.want_logprobs THEN toks' ELSE <<>>
    BY <1>0, <1>1, <1>3 DEF All
<1>7. ~Complete(t)
    BY DEF t
<1>8. SameAnswer'
    BY <1>3, <1>6, <1>7 DEF SameAnswer, Answer, Complete
<1>9. Hold(text)' = Hold(t)
    BY <1>3 DEF Hold
<1>10. CASE conf.wants_pieces /\ n > n_sent
    <2>. DEFINE c == Covered(ps, n)
    <2>1. n \in n_sent .. Len(t) /\ n_sent <= n
        BY <1>0, <1>1, <1>5
    <2>2. /\ c \in 0 .. Len(ps)
          /\ Handed(t, ps, n).text = SubSeq(t, 1, n) /\ Handed(t, ps, n).probs = SubSeq(ps, 1, c)
          /\ Handed(t, ps, n) \in [text : Seq(Byte), probs : Seq(Pieces)]
        BY <1>0, <1>1, <2>1, HandedIs
    <2>3. /\ c \in n_probs_sent .. Len(ps) /\ Cover(ps, c) <= n
          /\ \A k \in 0 .. Len(ps) : Cover(ps, k) <= n => k <= c
          /\ covered + Bytes(SubSeq(ps, n_probs_sent + 1, c)) = Cover(ps, c)
        BY <1>0, <1>1, <1>5, <2>1, CoveredIs
    <2>4. /\ out' = Handed(t, ps, n) /\ n_sent' = n /\ n_probs_sent' = c
          /\ covered' = Cover(ps, c)
        BY <1>3, <1>10, <2>3
    <2>. HIDE DEF c, n
    <2>5. Len(ps) \in Nat /\ Cover(ps, c) \in Nat
          /\ \A i, k \in 0 .. Len(ps) : i <= k => Cover(ps, i) <= Cover(ps, k)
        BY <1>1, <2>2, Covers
    <2>6. \A k \in 0 .. Len(ps) : Cover(ps, k) <= n => Cover(ps, k) <= Cover(ps, c)
        BY <2>2, <2>3, <2>5
    <2>7. TypeOK'
        BY <1>0, <1>3, <1>5, <1>6, <2>2, <2>4, <2>5 DEF TypeOK
    <2>8. Handing(text, probs)'
        BY <1>3, <1>5, <2>2, <2>3, <2>4, <2>6 DEF Handing, Cover
    <2>9. Working'
        BY <1>3, <1>6, <1>9, <1>10, <2>4, <2>8 DEF Working, n
    <2>. QED BY <1>3, <1>8, <2>7, <2>9 DEF Inv
<1>11. CASE ~(conf.wants_pieces /\ n > n_sent)
    <2>1. UNCHANGED <<out, n_sent, n_probs_sent, covered>>
        BY <1>3, <1>11
    <2>2. TypeOK'
        BY <1>0, <1>3, <1>6, <2>1 DEF TypeOK
    <2>3. Handing(text, probs)'
        BY <1>1, <1>3, <2>1 DEF Handing, Cover
    <2>4. conf.wants_pieces => n_sent = n
        BY <1>0, <1>5, <1>11
    <2>5. Working'
        BY <1>0, <1>3, <1>6, <1>9, <2>1, <2>3, <2>4 DEF Working
    <2>. QED BY <1>3, <1>8, <2>2, <2>5 DEF Inv
<1>. QED BY <1>10, <1>11

LEMMA SampledKeeps ==
    ASSUME Inv, NEW p \in Pieces, Sampled(p)
    PROVE  Inv'
<1>. DEFINE ps == IF conf.want_logprobs THEN Append(probs, p) ELSE probs
            t == text \o p
<1>1. /\ busy /\ toks' = Append(toks, p)
      /\ IF \E i \in DOMAIN conf.stop : Found(t, conf.stop[i]) # {}
         THEN Stopped(t, ps) ELSE GoOn(t, ps)
    BY DEF Sampled
<1>2. /\ conf \in Requests /\ text \in Seq(Byte) /\ ~Complete(text) /\ n_sent \in 0 .. Len(text)
      /\ p \in Seq(Byte)
    BY <1>1, AtWork, StopStreamAssumption
<1>3. Complete(t) <=> \E i \in DOMAIN conf.stop : Found(t, conf.stop[i]) # {}
    <2>1. \A i \in DOMAIN conf.stop : Occurs(t, conf.stop[i]) <=> Found(t, conf.stop[i]) # {}
        BY <1>2, SearchIs
    <2>. HIDE DEF t
    <2>. QED BY <2>1 DEF Complete
<1>4. CASE Complete(t)
    <2>1. Stopped(t, ps)
        BY <1>1, <1>3, <1>4
    <2>. QED BY <1>1, <1>4, <2>1, StoppedKeeps
<1>5. CASE ~Complete(t)
    <2>1. GoOn(t, ps)
        BY <1>1, <1>3, <1>5
    <2>. QED BY <1>1, <1>5, <2>1, GoOnKeeps
<1>. QED BY <1>4, <1>5

LEMMA InvNext == Inv /\ [Next]_vars => Inv'
<1>. SUFFICES ASSUME Inv, [Next]_vars PROVE Inv'
    OBVIOUS
<1>1. CASE Admit
    BY <1>1, AdmitKeeps
<1>2. ASSUME NEW p \in Pieces, Sampled(p) PROVE Inv'
    BY <1>2, SampledKeeps
<1>3. ASSUME NEW kind \in {"stop", "length"}, Ends(kind) PROVE Inv'
    BY <1>3, EndKeeps DEF Ends
<1>4. ASSUME NEW kind \in {"cancel", "error"}, Aborts(kind) PROVE Inv'
    BY <1>4, EndKeeps DEF Aborts
<1>5. CASE UNCHANGED vars
    BY <1>5 DEF Inv, TypeOK, SameAnswer, Answer, Complete, All, Before, Working, Handing, Hold,
                NeverTakenBack, ProbsFollowText, vars, result, cursor
<1>. QED BY <1>1, <1>2, <1>3, <1>4, <1>5 DEF Next

-----------------------------------------------------------------------------
(* Results.                                                                *)

\* While a request runs, what was not handed over of its text is what a stop sequence may
\* begin in, and its entries go with its text.
THEOREM Invariance == Spec => []Inv
<1>. QED BY InitKeeps, InvNext, PTL DEF Spec

\* A search from what was sent finds what a search from the start finds: no stop sequence is
\* missed, however its pieces fall (on_sampled).
THEOREM AnswersSame == Spec => []SameAnswer
<1>1. Inv => SameAnswer
    BY DEF Inv
<1>. QED BY <1>1, Invariance, PTL

\* What was handed over is the beginning of the text, all of it when the request ends well:
\* a stop sequence never begins in text that is out (stop_holdback, finish).
THEOREM SentStays == Spec => []NeverTakenBack
<1>1. ASSUME Inv PROVE NeverTakenBack
    <2>1. CASE ~busy
        BY <1>1, <2>1 DEF Inv
    <2>2. CASE busy
        <3>1. text \in Seq(Byte) /\ n_sent \in 0 .. Len(text) /\ out.text = SubSeq(text, 1, n_sent)
              /\ finish = "none"
            BY <1>1, <2>2, AtWork DEF Inv, Working, Handing
        <3>2. /\ SubSeq(text, 1, n_sent) \in Seq(Byte) /\ Len(SubSeq(text, 1, n_sent)) = n_sent
              /\ \A i \in 1 .. n_sent : SubSeq(text, 1, n_sent)[i] = text[i]
            BY <3>1, FirstOf
        <3>3. IsPrefix(out.text, text)
            <4>1. Len(out.text) <= Len(text) /\ \A i \in 1 .. Len(out.text) : out.text[i] = text[i]
                BY <3>1, <3>2
            <4>2. out.text \in Seq(Byte)
                BY <3>1, <3>2
            <4>. QED BY <3>1, <4>1, <4>2, PrefixIs
        <3>. QED BY <3>1, <3>3 DEF NeverTakenBack
    <2>. QED BY <1>1, <2>1, <2>2 DEF Inv, TypeOK
<1>. QED BY <1>1, Invariance, PTL

\* No more is held back than may be the start of a stop sequence (stop_holdback).
THEOREM HeldForStop == Spec => []WithheldForStop
<1>1. ASSUME Inv PROVE WithheldForStop
    <2>. SUFFICES ASSUME busy, conf.wants_pieces,
                         SubSeq(text, Len(out.text) + 1, Len(text)) # <<>>
                  PROVE  \E i \in DOMAIN conf.stop :
                           IsStrictPrefix(SubSeq(text, Len(out.text) + 1, Len(text)), conf.stop[i])
        BY DEF WithheldForStop
    <2>. DEFINE h == Hold(text)
                rest == SubSeq(text, n_sent + 1, Len(text))
    <2>1. /\ text \in Seq(Byte) /\ n_sent \in 0 .. Len(text) /\ out.text = SubSeq(text, 1, n_sent)
          /\ n_sent = Len(text) - h /\ conf \in Requests
        BY <1>1, AtWork DEF Inv, Working, Handing
    <2>2. Len(out.text) = n_sent /\ Len(text) \in Nat
        BY <2>1, FirstOf, LenProperties
    <2>3. h \in 0 .. Len(text) /\ (h # 0 => Begun(text, h))
        BY <2>1, Holding
    <2>. HIDE DEF h
    <2>4. /\ rest \in Seq(Byte) /\ Len(rest) = h
          /\ \A j \in 1 .. h : rest[j] = text[Len(text) - h + j]
        <3>1. n_sent + 1 \in 1 .. Len(text) + 1 /\ Len(text) \in (n_sent + 1) - 1 .. Len(text)
            BY <2>1, <2>2
        <3>2. /\ rest \in Seq(Byte) /\ Len(rest) = Len(text) - (n_sent + 1) + 1
              /\ \A j \in 1 .. Len(text) - (n_sent + 1) + 1 : rest[j] = text[(n_sent + 1) + j - 1]
            BY <2>1, <3>1, PartOf
        <3>. HIDE DEF rest
        <3>. QED BY <2>1, <2>2, <2>3, <3>2
    <2>5. rest # <<>>
        BY <2>2
    <2>. HIDE DEF rest
    <2>6. h # 0
        BY <2>4, <2>5, EmptySeq
    <2>7. PICK i \in DOMAIN conf.stop : h < Len(conf.stop[i])
            /\ \A j \in 1 .. h : conf.stop[i][j] = text[Len(text) - h + j]
        BY <2>3, <2>6 DEF Begun
    <2>8. conf.stop[i] \in Seq(Byte) /\ Len(conf.stop[i]) \in Nat
        BY <2>1, StopTypes
    <2>9. IsPrefix(rest, conf.stop[i])
        <3>1. Len(rest) <= Len(conf.stop[i])
            BY <2>3, <2>4, <2>7, <2>8
        <3>2. \A j \in 1 .. Len(rest) : rest[j] = conf.stop[i][j]
            BY <2>4, <2>7
        <3>. QED BY <2>4, <2>8, <3>1, <3>2, PrefixIs
    <2>10. rest # conf.stop[i]
        BY <2>3, <2>4, <2>7, <2>8
    <2>. QED BY <2>2, <2>9, <2>10 DEF IsStrictPrefix, rest
<1>. QED BY <1>1, Invariance, PTL

\* Every logprob entry goes with the text of its token: none before it, none that is cut,
\* none lost (collect_delivered_probs, finish).
THEOREM EntriesFollow == Spec => []ProbsFollowText
<1>1. ASSUME Inv PROVE ProbsFollowText
    <2>1. CASE ~busy
        BY <1>1, <2>1 DEF Inv
    <2>2. CASE busy
        <3>1. /\ TypeOK /\ Working /\ Handing(text, probs)
              /\ Bytes(probs) <= Len(text) /\ Bytes(toks) = Len(text)
            BY <1>1, <2>2, AtWork DEF Inv
        <3>2. probs \in Seq(Pieces) /\ n_probs_sent \in 0 .. Len(probs) /\ Len(probs) \in Nat
              /\ out.probs = SubSeq(probs, 1, n_probs_sent) /\ finish = "none"
              /\ n_sent \in 0 .. Len(text) /\ text \in Seq(Byte) /\ out.text = SubSeq(text, 1, n_sent)
            BY <3>1, LenProperties DEF TypeOK, Working, Handing
        <3>3. /\ SubSeq(probs, 1, n_probs_sent) \in Seq(Pieces)
              /\ Len(SubSeq(probs, 1, n_probs_sent)) = n_probs_sent
              /\ \A i \in 1 .. n_probs_sent : SubSeq(probs, 1, n_probs_sent)[i] = probs[i]
            BY <3>2, FirstOf
        <3>4. IsPrefix(out.probs, probs)
            <4>1. Len(out.probs) <= Len(probs)
                  /\ \A i \in 1 .. Len(out.probs) : out.probs[i] = probs[i]
                BY <3>2, <3>3
            <4>2. out.probs \in Seq(Pieces)
                BY <3>2, <3>3
            <4>. QED BY <3>2, <4>1, <4>2, PrefixIs
        <3>5. Len(out.text) = n_sent
            BY <3>2, FirstOf
        <3>6. Bytes(out.probs) <= Len(out.text)
            BY <3>1, <3>2, <3>5 DEF Handing, Cover
        <3>7. ASSUME conf.want_logprobs
              PROVE  probs = toks /\ IsPrefix(probs, toks) /\ ~(Len(probs) < Len(toks))
            <4>1. probs = toks
                BY <3>1, <3>7 DEF Working
            <4>2. IsPrefix(probs, probs)
                BY <3>2, PrefixIs
            <4>. QED BY <3>2, <4>1, <4>2
        <3>. QED BY <3>1, <3>2, <3>4, <3>6, <3>7 DEF ProbsFollowText
    <2>. QED BY <1>1, <2>1, <2>2 DEF Inv, TypeOK
<1>. QED BY <1>1, Invariance, PTL

-----------------------------------------------------------------------------
(* The reasoning budget: tags among the tokens.  t stands for the tokens   *)
(* generated, c for the request's budget, f for the places forced.         *)

\* The last l tokens up to place i are the first l of tag.
Stands(t, tag, l, i) == \A k \in 1 .. l : t[i - l + k] = tag[k]

TagEnds(t, tag, from, i) == i \in from + Len(tag) .. Len(t) /\ Stands(t, tag, Len(tag), i)

Opens(c, t, i) ==
    /\ c.enabled
    /\ IF c.start_in_prompt THEN i = 0
       ELSE TagEnds(t, StartTag, 0, i) /\ \A j \in 1 .. i - 1 : ~TagEnds(t, StartTag, 0, j)

Closed(c, t, i) == \E j \in i .. i + c.budget : TagEnds(t, EndTag, i, j)

\* m tokens of tag were just seen behind place from, and no more.
Rolling(t, tag, from, m) ==
    /\ m \in 0 .. Len(tag) - 1 /\ from + m <= Len(t) /\ Stands(t, tag, m, Len(t))
    /\ \A l \in m + 1 .. Len(tag) - 1 : from + l <= Len(t) => ~Stands(t, tag, l, Len(t))

\* The first m of the forced tokens follow the budget of a block that begins after place i,
\* and they alone were forced.
Written(c, t, f, i, m) ==
    /\ f = i + c.budget + 1 .. i + c.budget + m
    /\ i + c.budget + m <= Len(t)
    /\ \A k \in 1 .. m : t[i + c.budget + k] = c.forced[k]

\* A tag of which the rolling match loses nothing: if after m of its tokens the last r of
\* them begin it too, they go on as the m do.  (<<a, a, b>> is none: the match starts again
\* with the third token of a, a, a, b, and the tag is missed.)
Plain(tag) ==
    \A m \in 1 .. Len(tag) - 1 : \A r \in 1 .. m - 1 :
        Stands(tag, tag, r, m) => tag[r + 1] = tag[m + 1]

IsTag(tag) == tag \in Seq(Tokens) /\ Len(tag) \in Nat \ {0}

LEMMA TagsAre == IsTag(StartTag) /\ IsTag(EndTag)
BY BudgetAssumption, LenProperties, EmptySeq DEF IsTag

\* A block that is counted has a budget, and something to force.
LEMMA ConfigIs ==
    ASSUME NEW c \in Configs
    PROVE  /\ c.enabled \in BOOLEAN /\ c.start_in_prompt \in BOOLEAN
           /\ c.start_in_prompt => c.enabled
           /\ c.enabled => c.budget \in Nat
           /\ c.forced \in Seq(Tokens) /\ Len(c.forced) \in Nat \ {0}
<1>1. PICK b \in Budgets, in \in BOOLEAN :
        c = [enabled |-> b >= 0, budget |-> b, start_in_prompt |-> in /\ b >= 0,
             forced |-> IF b > 0 THEN Message \o EndTag ELSE EndTag]
    BY DEF Configs
<1>2. b \in Int
    BY BudgetAssumption
<1>3. Message \in Seq(Tokens) /\ EndTag \in Seq(Tokens) /\ Len(EndTag) \in Nat \ {0}
    BY BudgetAssumption, TagsAre DEF IsTag
<1>4. Message \o EndTag \in Seq(Tokens) /\ Len(Message \o EndTag) = Len(Message) + Len(EndTag)
      /\ Len(Message) \in Nat
    BY <1>3, ConcatProperties, LenProperties
<1>5. c.forced \in Seq(Tokens) /\ Len(c.forced) \in Nat \ {0}
    <2>1. c.forced = Message \o EndTag \/ c.forced = EndTag
        BY <1>1
    <2>2. CASE c.forced = EndTag
        BY <1>3, <2>2
    <2>3. CASE c.forced = Message \o EndTag
        BY <1>3, <1>4, <2>3
    <2>. QED BY <2>1, <2>2, <2>3
<1>6. c.enabled = (b >= 0) /\ c.budget = b /\ c.start_in_prompt = (in /\ b >= 0)
    BY <1>1
<1>7. (b >= 0) \in BOOLEAN /\ (in /\ b >= 0) \in BOOLEAN
    OBVIOUS
<1>8. c.enabled \in BOOLEAN /\ c.start_in_prompt \in BOOLEAN
    BY <1>6, <1>7, Zenon
<1>9. (c.start_in_prompt => c.enabled) /\ (c.enabled => b >= 0)
    BY <1>6
<1>10. c.enabled => c.budget \in Nat
    BY <1>2, <1>6, <1>9
<1>. QED BY <1>5, <1>8, <1>9, <1>10

LEMMA Appended ==
    ASSUME NEW S, NEW t \in Seq(S), NEW x \in S
    PROVE  /\ Append(t, x) \in Seq(S) /\ Len(Append(t, x)) = Len(t) + 1
           /\ Append(t, x)[Len(t) + 1] = x
           /\ \A i \in 1 .. Len(t) : Append(t, x)[i] = t[i]
           /\ Len(t) \in Nat
BY LenProperties, AppendProperties

\* A token more, and what stood before it stands as it did.
LEMMA StandsSame ==
    ASSUME NEW t \in Seq(Tokens), NEW x \in Tokens, NEW tag, NEW l \in Nat, NEW i \in l .. Len(t)
    PROVE  Stands(Append(t, x), tag, l, i) <=> Stands(t, tag, l, i)
<1>1. Len(t) \in Nat /\ \A k \in 1 .. Len(t) : Append(t, x)[k] = t[k]
    BY Appended
<1>2. \A k \in 1 .. l : i - l + k \in 1 .. Len(t)
    BY <1>1
<1>3. \A k \in 1 .. l : Append(t, x)[i - l + k] = t[i - l + k]
    BY <1>1, <1>2
<1>. QED BY <1>3 DEF Stands

LEMMA EndsSame ==
    ASSUME NEW t \in Seq(Tokens), NEW x \in Tokens, NEW tag, IsTag(tag),
           NEW from \in Nat, NEW i \in 0 .. Len(t)
    PROVE  TagEnds(Append(t, x), tag, from, i) <=> TagEnds(t, tag, from, i)
<1>1. Len(t) \in Nat /\ Len(Append(t, x)) = Len(t) + 1
    BY Appended
<1>2. Len(tag) \in Nat
    BY DEF IsTag
<1>3. i \in from + Len(tag) .. Len(Append(t, x)) <=> i \in from + Len(tag) .. Len(t)
    BY <1>1, <1>2
<1>4. i \in from + Len(tag) .. Len(t) => i \in Len(tag) .. Len(t)
    BY <1>1, <1>2
<1>. QED BY <1>2, <1>3, <1>4, StandsSame DEF TagEnds

LEMMA OpensSame ==
    ASSUME NEW c \in Configs,
           NEW t \in Seq(Tokens), NEW x \in Tokens, NEW i \in 0 .. Len(t)
    PROVE  Opens(c, Append(t, x), i) <=> Opens(c, t, i)
<1>1. Len(t) \in Nat /\ IsTag(StartTag)
    BY TagsAre, LenProperties
<1>2. \A j \in 0 .. Len(t) : TagEnds(Append(t, x), StartTag, 0, j) <=> TagEnds(t, StartTag, 0, j)
    BY <1>1, EndsSame
<1>3. \A j \in 1 .. i - 1 : j \in 0 .. Len(t)
    BY <1>1
<1>. QED BY <1>2, <1>3 DEF Opens

LEMMA ClosedSame ==
    ASSUME NEW c \in Configs, c.enabled,
           NEW t \in Seq(Tokens), NEW x \in Tokens, NEW i \in Nat, i + c.budget <= Len(t)
    PROVE  Closed(c, Append(t, x), i) <=> Closed(c, t, i)
<1>1. Len(t) \in Nat /\ IsTag(EndTag) /\ c.budget \in Nat
    BY TagsAre, LenProperties, ConfigIs
<1>2. \A j \in 0 .. Len(t) : TagEnds(Append(t, x), EndTag, i, j) <=> TagEnds(t, EndTag, i, j)
    BY <1>1, EndsSame
<1>3. \A j \in i .. i + c.budget : j \in 0 .. Len(t)
    BY <1>1
<1>. QED BY <1>2, <1>3 DEF Closed

\* A block begins once.
LEMMA OpensOnce ==
    ASSUME NEW c \in Configs, NEW t \in Seq(Tokens),
           NEW i \in Nat, NEW j \in Nat, Opens(c, t, i), Opens(c, t, j)
    PROVE  i = j /\ i \in 0 .. Len(t)
<1>1. Len(t) \in Nat /\ Len(StartTag) \in Nat \ {0}
    BY TagsAre, LenProperties DEF IsTag
<1>2. CASE c.start_in_prompt
    BY <1>1, <1>2 DEF Opens
<1>3. CASE ~c.start_in_prompt
    <2>1. /\ i \in 0 + Len(StartTag) .. Len(t) /\ j \in 0 + Len(StartTag) .. Len(t)
          /\ ~(j \in 1 .. i - 1) /\ ~(i \in 1 .. j - 1)
        BY <1>3 DEF Opens, TagEnds
    <2>. QED BY <1>1, <2>1
<1>. QED BY <1>2, <1>3

\* The last of the tokens and those before it.
Splits(t, tag, l, i) == Stands(t, tag, l, i) <=> Stands(t, tag, l - 1, i - 1) /\ t[i] = tag[l]

LEMMA StandsAt ==
    ASSUME NEW t, NEW tag, NEW l \in Nat \ {0}, NEW i \in Int
    PROVE  Splits(t, tag, l, i)
<1>1. \A k \in 1 .. l : k = l \/ k \in 1 .. l - 1
    OBVIOUS
<1>2. \A k \in 1 .. l - 1 : k \in 1 .. l /\ i - l + k = i - 1 - (l - 1) + k
    OBVIOUS
<1>3. l \in 1 .. l /\ i - l + l = i
    OBVIOUS
<1>4. ASSUME Stands(t, tag, l, i)
      PROVE  Stands(t, tag, l - 1, i - 1) /\ t[i] = tag[l]
    BY <1>2, <1>3, <1>4 DEF Stands
<1>5. ASSUME Stands(t, tag, l - 1, i - 1), t[i] = tag[l]
      PROVE  Stands(t, tag, l, i)
    BY <1>1, <1>2, <1>3, <1>5 DEF Stands
<1>. QED BY <1>4, <1>5 DEF Splits

\* One more token: the match goes on, starts again or is lost, and no tag ends unseen.
LEMMA RollingStep ==
    ASSUME NEW t \in Seq(Tokens), NEW x \in Tokens, NEW tag, IsTag(tag), Plain(tag),
           NEW from \in Nat, NEW m \in Nat, Rolling(t, tag, from, m)
    PROVE  LET n == Matched(tag, m, x)
               u == Append(t, x)
           IN  /\ n >= Len(tag) => n = Len(tag) /\ TagEnds(u, tag, from, Len(u))
               /\ n < Len(tag) => Rolling(u, tag, from, n) /\ ~TagEnds(u, tag, from, Len(u))
               /\ n \in Nat
<1>. DEFINE n == Matched(tag, m, x)
            u == Append(t, x)
            N == Len(t)
            L == Len(tag)
<1>1. /\ N \in Nat /\ Len(u) = N + 1 /\ u[N + 1] = x /\ \A k \in 1 .. N : u[k] = t[k]
    BY Appended
<1>2. L \in Nat \ {0}
    BY DEF IsTag
<1>3. /\ m \in 0 .. L - 1 /\ from + m <= N /\ Stands(t, tag, m, N)
      /\ \A l \in m + 1 .. L - 1 : from + l <= N => ~Stands(t, tag, l, N)
    BY DEF Rolling
<1>. HIDE DEF u, N, L
\* What the longer sequence ends in, the shorter one ended in but for the last token.
<1>4. ASSUME NEW l \in 1 .. L, from + l <= N + 1
      PROVE  Stands(u, tag, l, N + 1) <=> Stands(t, tag, l - 1, N) /\ x = tag[l]
    <2>1. l \in Nat \ {0} /\ N + 1 \in Int /\ (N + 1) - 1 = N /\ l - 1 \in Nat /\ N \in l - 1 .. N
        BY <1>1, <1>2, <1>4
    <2>2. Splits(u, tag, l, N + 1)
        BY <2>1, StandsAt
    <2>3. Stands(u, tag, l - 1, N) <=> Stands(t, tag, l - 1, N)
        BY <2>1, StandsSame DEF u, N
    <2>. QED BY <1>1, <2>1, <2>2, <2>3 DEF Splits
\* So its longest match is the one that went on, or a token.
<1>5. ASSUME NEW l \in 1 .. L, from + l <= N + 1, Stands(u, tag, l, N + 1)
      PROVE  /\ x = tag[m + 1] => l <= m + 1
             /\ x # tag[m + 1] => l = 1 /\ x = tag[1]
    <2>1. Stands(t, tag, l - 1, N) /\ x = tag[l]
        BY <1>4, <1>5
    <2>2. l - 1 <= m
        <3>1. CASE l - 1 > m
            <4>1. l - 1 \in m + 1 .. L - 1 /\ from + (l - 1) <= N
                BY <1>1, <1>2, <1>3, <1>5, <3>1
            <4>. QED BY <1>3, <2>1, <4>1
        <3>. QED BY <1>2, <1>3, <3>1
    <2>3. ASSUME x # tag[m + 1]
          PROVE  l = 1
        <3>1. l # m + 1
            BY <2>1, <2>3
        <3>2. CASE l > 1
            <4>1. /\ m \in 1 .. L - 1 /\ l - 1 \in 1 .. m - 1 /\ (l - 1) + 1 = l
                  /\ \A k \in 1 .. l - 1 : m - (l - 1) + k \in 1 .. m
                                          /\ N - m + (m - (l - 1) + k) = N - (l - 1) + k
                BY <1>1, <1>2, <1>3, <2>2, <3>1, <3>2
            <4>2. \A k \in 1 .. l - 1 : t[N - (l - 1) + k] = tag[k]
                BY <2>1 DEF Stands
            <4>3. \A k \in 1 .. m : t[N - m + k] = tag[k]
                BY <1>3 DEF Stands
            <4>4. Stands(tag, tag, l - 1, m)
                BY <4>1, <4>2, <4>3 DEF Stands
            <4>5. tag[l] = tag[m + 1]
                BY <4>1, <4>4 DEF Plain, L
            <4>. QED BY <2>1, <2>3, <4>5
        <3>. QED BY <1>2, <3>2
    <2>. QED BY <1>2, <1>3, <2>1, <2>2, <2>3
<1>6. n = IF x = tag[m + 1] THEN m + 1 ELSE IF x = tag[1] THEN 1 ELSE 0
    BY DEF Matched
<1>. HIDE DEF n
<1>7. n \in 0 .. L /\ from + n <= N + 1 /\ Stands(u, tag, n, N + 1)
    <2>1. Stands(u, tag, 0, N + 1) /\ Stands(t, tag, 0, N)
        BY DEF Stands
    <2>2. CASE x = tag[m + 1]
        <3>1. n = m + 1 /\ m + 1 \in 1 .. L /\ from + (m + 1) <= N + 1 /\ (m + 1) - 1 = m
            BY <1>1, <1>2, <1>3, <1>6, <2>2
        <3>2. Stands(u, tag, m + 1, N + 1)
            BY <1>3, <1>4, <2>2, <3>1
        <3>. QED BY <1>2, <3>1, <3>2
    <2>3. CASE x # tag[m + 1] /\ x = tag[1]
        <3>1. n = 1 /\ m # 0 /\ 1 \in 1 .. L /\ from + 1 <= N + 1 /\ 1 - 1 = 0
            BY <1>1, <1>2, <1>3, <1>6, <2>3
        <3>2. Stands(u, tag, 1, N + 1)
            BY <1>4, <2>1, <2>3, <3>1
        <3>. QED BY <1>2, <3>1, <3>2
    <2>4. CASE x # tag[m + 1] /\ x # tag[1]
        BY <1>1, <1>2, <1>3, <1>6, <2>1, <2>4
    <2>. QED BY <2>2, <2>3, <2>4
<1>8. ASSUME NEW l \in n + 1 .. L, from + l <= N + 1
      PROVE  ~Stands(u, tag, l, N + 1)
    <2>1. l \in 1 .. L /\ l > n
        BY <1>2, <1>7
    <2>. QED BY <1>3, <1>5, <1>6, <1>8, <2>1
<1>9. TagEnds(u, tag, from, N + 1) <=> from + L <= N + 1 /\ Stands(u, tag, L, N + 1)
    BY <1>1, <1>2 DEF TagEnds, L
<1>10. CASE n >= L
    <2>1. n = L
        BY <1>2, <1>7, <1>10
    <2>. QED BY <1>1, <1>2, <1>7, <1>9, <2>1 DEF n, u, L, N
<1>11. CASE n < L
    <2>1. ~TagEnds(u, tag, from, N + 1)
        BY <1>2, <1>7, <1>8, <1>9, <1>11
    <2>2. \A l \in n + 1 .. L - 1 : from + l <= N + 1 => ~Stands(u, tag, l, N + 1)
        BY <1>2, <1>8
    <2>3. Rolling(u, tag, from, n)
        BY <1>1, <1>2, <1>7, <1>11, <2>2 DEF Rolling, L
    <2>. QED BY <1>1, <1>2, <1>7, <1>11, <2>1, <2>3 DEF n, u, L, N
<1>. QED BY <1>2, <1>7, <1>10, <1>11 DEF n, u, L, N

\* BudgetExact in these terms.
Exact(c, t, f) ==
    /\ f = {k \in 1 .. Len(t) : \E i \in 0 .. Len(t) :
              /\ Opens(c, t, i) /\ ~Closed(c, t, i)
              /\ k \in i + c.budget + 1 .. i + c.budget + Len(c.forced)}
    /\ \A i \in 0 .. Len(t) : Opens(c, t, i) /\ ~Closed(c, t, i) =>
          \A k \in 1 .. Len(c.forced) :
              i + c.budget + k <= Len(t) => t[i + c.budget + k] = c.forced[k]

\* Nothing is forced while no budget was spent in full.
LEMMA ExactNothing ==
    ASSUME NEW c \in Configs, NEW t \in Seq(Tokens),
           \A i \in 0 .. Len(t) : Opens(c, t, i) /\ ~Closed(c, t, i) => Len(t) <= i + c.budget
    PROVE  Exact(c, t, {})
<1>1. Len(t) \in Nat /\ (c.enabled => c.budget \in Nat)
    BY ConfigIs, LenProperties
<1>2. ASSUME NEW i \in 0 .. Len(t), Opens(c, t, i), ~Closed(c, t, i), NEW k \in Nat \ {0}
      PROVE  ~(i + c.budget + k <= Len(t))
    <2>1. Len(t) <= i + c.budget /\ c.budget \in Nat
        BY <1>1, <1>2 DEF Opens
    <2>. QED BY <1>1, <2>1
<1>3. ASSUME NEW j \in 1 .. Len(t), NEW i \in 0 .. Len(t), Opens(c, t, i), ~Closed(c, t, i),
             j \in i + c.budget + 1 .. i + c.budget + Len(c.forced)
      PROVE  FALSE
    <2>1. Len(t) <= i + c.budget /\ c.budget \in Nat
        BY <1>1, <1>3 DEF Opens
    <2>. QED BY <1>1, <1>3, <2>1
<1>. QED BY <1>2, <1>3 DEF Exact

LEMMA RunsOn ==
    ASSUME NEW a \in Nat, NEW l \in Nat, NEW m \in 0 .. l, NEW n \in Nat, NEW k \in 1 .. n,
           m = l \/ a + m = n
    PROVE  k \in a + 1 .. a + l <=> k \in a + 1 .. a + m
OBVIOUS

LEMMA RunWithin ==
    ASSUME NEW a \in Nat, NEW m \in Nat, NEW n \in Nat, a + m <= n
    PROVE  \A k \in a + 1 .. a + m : k \in 1 .. n
OBVIOUS

LEMMA RunMore ==
    ASSUME NEW a \in Nat, NEW m \in Nat, NEW n \in Nat, a + m = n
    PROVE  a + (m + 1) = n + 1
OBVIOUS

\* Behind a budget spent in full the sequence is, as far as it goes.
LEMMA ExactRun ==
    ASSUME NEW c \in Configs, NEW t \in Seq(Tokens), NEW f,
           NEW i \in Nat, Opens(c, t, i), ~Closed(c, t, i),
           NEW m \in 0 .. Len(c.forced), Written(c, t, f, i, m),
           m = Len(c.forced) \/ i + c.budget + m = Len(t)
    PROVE  Exact(c, t, f)
<1>1. /\ Len(t) \in Nat /\ Len(c.forced) \in Nat \ {0} /\ c.budget \in Nat
      /\ i \in 0 .. Len(t)
    BY ConfigIs, LenProperties, OpensOnce DEF Opens
<1>2. \A j \in 0 .. Len(t) : Opens(c, t, j) => j = i
    BY OpensOnce
<1>3. f = i + c.budget + 1 .. i + c.budget + m /\ i + c.budget + m <= Len(t)
    BY DEF Written
<1>4. ASSUME NEW k \in 1 .. Len(t)
      PROVE  k \in i + c.budget + 1 .. i + c.budget + Len(c.forced) <=> k \in f
    <2>1. PICK a \in Nat : a = i + c.budget
        BY <1>1
    <2>2. PICK l \in Nat : l = Len(c.forced)
        BY <1>1
    <2>3. m \in 0 .. l /\ (m = l \/ a + m = Len(t))
        BY <2>1, <2>2
    <2>4. k \in a + 1 .. a + l <=> k \in a + 1 .. a + m
        BY <1>1, <2>3, RunsOn
    <2>. QED BY <1>3, <2>1, <2>2, <2>4
<1>5. \A k \in f : k \in 1 .. Len(t)
    <2>1. i + c.budget \in Nat /\ m \in Nat
        BY <1>1
    <2>. QED BY <1>1, <1>3, <2>1, RunWithin
<1>6. ASSUME NEW k \in 1 .. Len(c.forced), i + c.budget + k <= Len(t)
      PROVE  t[i + c.budget + k] = c.forced[k]
    <2>1. k \in 1 .. m
        BY <1>1, <1>6
    <2>. QED BY <2>1 DEF Written
<1>7. f = {k \in 1 .. Len(t) : \E j \in 0 .. Len(t) :
              /\ Opens(c, t, j) /\ ~Closed(c, t, j)
              /\ k \in j + c.budget + 1 .. j + c.budget + Len(c.forced)}
    <2>1. ASSUME NEW k \in 1 .. Len(t)
          PROVE  k \in f <=> \E j \in 0 .. Len(t) :
                    /\ Opens(c, t, j) /\ ~Closed(c, t, j)
                    /\ k \in j + c.budget + 1 .. j + c.budget + Len(c.forced)
        BY <1>1, <1>2, <1>4
    <2>. QED BY <1>5, <2>1
<1>. QED BY <1>2, <1>6, <1>7 DEF Exact

LEMMA OneMore ==
    ASSUME NEW a \in Int, NEW m \in Nat, NEW n \in Int, a + m = n
    PROVE  (a + 1 .. a + m) \cup {n + 1} = a + 1 .. a + (m + 1)
OBVIOUS

\* A token more, forced or not.
LEMMA WrittenSame ==
    ASSUME NEW c \in Configs, c.enabled,
           NEW t \in Seq(Tokens), NEW x \in Tokens, NEW f, NEW i \in Nat, NEW m \in Nat,
           Written(c, t, f, i, m)
    PROVE  /\ Written(c, Append(t, x), f, i, m)
           /\ i + c.budget + m = Len(t) /\ x = c.forced[m + 1] =>
                Written(c, Append(t, x), f \cup {Len(t) + 1}, i, m + 1)
<1>1. /\ Len(t) \in Nat /\ Len(Append(t, x)) = Len(t) + 1 /\ Append(t, x)[Len(t) + 1] = x
      /\ \A k \in 1 .. Len(t) : Append(t, x)[k] = t[k]
      /\ c.budget \in Nat
    BY Appended, ConfigIs
<1>2. /\ f = i + c.budget + 1 .. i + c.budget + m /\ i + c.budget + m <= Len(t)
      /\ \A k \in 1 .. m : t[i + c.budget + k] = c.forced[k]
    BY DEF Written
<1>3. \A k \in 1 .. m : i + c.budget + k \in 1 .. Len(t)
    <2>1. PICK a \in Nat : a = i + c.budget
        BY <1>1
    <2>2. a + m <= Len(t)
        BY <1>2, <2>1
    <2>3. \A k \in 1 .. m : a + k \in 1 .. Len(t)
        BY <1>1, <2>2
    <2>. QED BY <2>1, <2>3
<1>4. \A k \in 1 .. m : Append(t, x)[i + c.budget + k] = c.forced[k]
    <2>. TAKE k \in 1 .. m
    <2>1. Append(t, x)[i + c.budget + k] = t[i + c.budget + k]
        BY <1>1, <1>3
    <2>. QED BY <1>2, <2>1
<1>5. Written(c, Append(t, x), f, i, m)
    <2>1. PICK a \in Nat : a = i + c.budget
        BY <1>1
    <2>2. a + m <= Len(t)
        BY <1>2, <2>1
    <2>3. Len(t) \in Nat /\ Len(Append(t, x)) = Len(t) + 1
        BY <1>1
    <2>4. a + m <= Len(Append(t, x))
        BY <2>2, <2>3
    <2>5. i + c.budget + m <= Len(Append(t, x))
        BY <2>1, <2>4
    <2>. QED BY <1>2, <1>4, <2>5 DEF Written
<1>6. ASSUME i + c.budget + m = Len(t), x = c.forced[m + 1]
      PROVE  Written(c, Append(t, x), f \cup {Len(t) + 1}, i, m + 1)
    <2>1. f \cup {Len(t) + 1} = i + c.budget + 1 .. i + c.budget + (m + 1)
        <3>1. i + c.budget \in Int /\ Len(t) \in Int
            BY <1>1
        <3>. QED BY <1>2, <1>6, <3>1, OneMore
    <2>2. i + c.budget + (m + 1) = Len(t) + 1
        BY <1>1, <1>6
    <2>3. \A k \in 1 .. m + 1 : k \in 1 .. m \/ k = m + 1
        OBVIOUS
    <2>4. Append(t, x)[i + c.budget + (m + 1)] = c.forced[m + 1]
        BY <1>1, <1>6, <2>2
    <2>5. \A k \in 1 .. m + 1 : Append(t, x)[i + c.budget + k] = c.forced[k]
        BY <1>4, <2>3, <2>4
    <2>6. i + c.budget + (m + 1) <= Len(Append(t, x))
        BY <1>1, <2>2
    <2>. QED BY <2>1, <2>5, <2>6 DEF Written
<1>. QED BY <1>5, <1>6

\* It is BudgetExact.
LEMMA ExactIs ==
    ASSUME rb \in Configs, generated \in Seq(Tokens),
           Exact(rb, generated, forced)
    PROVE  BudgetExact
<1>1. /\ DOMAIN StartTag = 1 .. Len(StartTag) /\ DOMAIN EndTag = 1 .. Len(EndTag)
      /\ DOMAIN generated = 1 .. Len(generated) /\ DOMAIN rb.forced = 1 .. Len(rb.forced)
    BY TagsAre, ConfigIs, LenProperties DEF IsTag
<1>2. \A from, i : EndsAt(StartTag, from, i) <=> TagEnds(generated, StartTag, from, i)
    BY <1>1 DEF EndsAt, TagEnds, Stands
<1>3. \A from, i : EndsAt(EndTag, from, i) <=> TagEnds(generated, EndTag, from, i)
    BY <1>1 DEF EndsAt, TagEnds, Stands
<1>4. \A i : OpensAfter(i) <=> Opens(rb, generated, i)
    BY <1>2 DEF OpensAfter, Opens
<1>5. \A i : ClosedInTime(i) <=> Closed(rb, generated, i)
    BY <1>3 DEF ClosedInTime, Closed
<1>6. forced = Window
    BY <1>1, <1>4, <1>5 DEF Window, Exact
<1>7. ASSUME NEW i \in 0 .. Len(generated), OpensAfter(i), ~ClosedInTime(i),
             NEW k \in DOMAIN rb.forced, i + rb.budget + k <= Len(generated)
      PROVE  generated[i + rb.budget + k] = rb.forced[k]
    BY <1>1, <1>4, <1>5, <1>7 DEF Exact
<1>. QED BY <1>6, <1>7 DEF BudgetExact

-----------------------------------------------------------------------------
(* What the grammar was fed: the tokens sampled, those forced left out.    *)

\* What SampledIn says of place n, given what it says of the place before.
Keeping(t, f, i, g, n) ==
    IF n < i THEN <<>> ELSE IF n \in f THEN g[n - 1] ELSE Append(g[n - 1], t[n])

Keeps(t, f, i, g) == \A n \in 0 .. Len(t) : g[n] = Keeping(t, f, i, g, n)

Kept(t, f, i) == CHOOSE g : g = [n \in 0 .. Len(t) |-> Keeping(t, f, i, g, n)]

LEMMA KeptIs ==
    ASSUME NEW t \in Seq(Tokens), NEW f, NEW i \in Nat \ {0}
    PROVE  Keeps(t, f, i, Kept(t, f, i))
<1>. DEFINE N == 0 .. Len(t)
            T == {n \in N : \E g : /\ g = [k \in N |-> g[k]]
                                   /\ \A k \in 0 .. n : g[k] = Keeping(t, f, i, g, k)}
<1>0. Len(t) \in Nat
    BY LenProperties
<1>1. 0 \in T
    <2>. DEFINE g == [k \in N |-> <<>>]
    <2>1. g = [k \in N |-> g[k]] /\ \A k \in 0 .. 0 : g[k] = Keeping(t, f, i, g, k)
        BY <1>0 DEF Keeping
    <2>. HIDE DEF g
    <2>. QED BY <1>0, <2>1
<1>2. ASSUME NEW n \in 0 .. Len(t) - 1, n \in T
      PROVE  n + 1 \in T
    <2>1. PICK g : g = [k \in N |-> g[k]] /\ \A k \in 0 .. n : g[k] = Keeping(t, f, i, g, k)
        BY <1>2
    <2>. DEFINE h == [k \in N |-> IF k = n + 1 THEN Keeping(t, f, i, g, n + 1) ELSE g[k]]
    <2>2. \A k \in N : h[k] = IF k = n + 1 THEN Keeping(t, f, i, g, n + 1) ELSE g[k]
        OBVIOUS
    <2>3. h = [k \in N |-> h[k]]
        OBVIOUS
    <2>. HIDE DEF h
    <2>4. \A k \in 0 .. n + 1 : h[k] = Keeping(t, f, i, h, k)
        <3>. TAKE k \in 0 .. n + 1
        <3>1. k \in N /\ n + 1 \in N /\ (k >= i => k - 1 \in N /\ k - 1 # n + 1)
            BY <1>0
        <3>2. k >= i => h[k - 1] = g[k - 1]
            BY <2>2, <3>1
        <3>3. Keeping(t, f, i, h, k) = Keeping(t, f, i, g, k)
            <4>1. CASE k < i
                BY <4>1 DEF Keeping
            <4>2. CASE k >= i
                BY <3>2, <4>2 DEF Keeping
            <4>. QED BY <3>1, <4>1, <4>2
        <3>4. CASE k = n + 1
            BY <2>2, <3>1, <3>3, <3>4
        <3>5. CASE k # n + 1
            <4>1. k \in 0 .. n
                BY <3>5
            <4>2. g[k] = Keeping(t, f, i, g, k) /\ h[k] = g[k]
                BY <2>1, <2>2, <3>1, <3>5, <4>1
            <4>. QED BY <3>3, <4>2
        <3>. QED BY <3>4, <3>5
    <2>5. n + 1 \in N
        BY <1>0
    <2>. QED BY <2>3, <2>4, <2>5
<1>3. Len(t) \in T
    <2>. HIDE DEF T
    <2>1. 0 .. Len(t) \subseteq T
        BY <1>0, <1>1, <1>2, Upto
    <2>. QED BY <1>0, <2>1
<1>4. \E g : g = [n \in 0 .. Len(t) |-> Keeping(t, f, i, g, n)]
    <2>1. PICK g : g = [k \in N |-> g[k]] /\ \A k \in 0 .. Len(t) : g[k] = Keeping(t, f, i, g, k)
        BY <1>3
    <2>2. g = [n \in 0 .. Len(t) |-> Keeping(t, f, i, g, n)]
        BY <2>1
    <2>. QED BY <2>2
<1>5. Kept(t, f, i) = [n \in 0 .. Len(t) |-> Keeping(t, f, i, Kept(t, f, i), n)]
    BY <1>4 DEF Kept
<1>. HIDE DEF N, T
<1>. QED BY <1>5 DEF Keeps

\* Tokens and forced places beyond n do not matter to it.
LEMMA KeptSame ==
    ASSUME NEW t \in Seq(Tokens), NEW u \in Seq(Tokens), NEW f, NEW g, NEW i \in Nat \ {0},
           NEW n \in Nat, n <= Len(t), n <= Len(u),
           \A k \in 1 .. n : t[k] = u[k] /\ (k \in f <=> k \in g)
    PROVE  Kept(t, f, i)[n] = Kept(u, g, i)[n]
<1>. DEFINE a == Kept(t, f, i)
            b == Kept(u, g, i)
            T == {k \in 0 .. n : a[k] = b[k]}
<1>0. Len(t) \in Nat /\ Len(u) \in Nat
    BY LenProperties
<1>1. Keeps(t, f, i, a) /\ Keeps(u, g, i, b)
    BY KeptIs
<1>. HIDE DEF a, b
<1>2. \A k \in 0 .. n : a[k] = Keeping(t, f, i, a, k) /\ b[k] = Keeping(u, g, i, b, k)
    BY <1>0, <1>1 DEF Keeps
<1>3. 0 \in T
    <2>1. a[0] = b[0]
        BY <1>2 DEF Keeping
    <2>. QED BY <2>1
<1>4. ASSUME NEW k \in 0 .. n - 1, k \in T
      PROVE  k + 1 \in T
    <2>1. k + 1 \in 0 .. n /\ k + 1 \in 1 .. n /\ (k + 1) - 1 = k /\ a[k] = b[k]
        BY <1>4
    <2>2. Keeping(t, f, i, a, k + 1) = Keeping(u, g, i, b, k + 1)
        BY <2>1 DEF Keeping
    <2>3. a[k + 1] = b[k + 1]
        BY <1>2, <2>1, <2>2
    <2>. QED BY <2>1, <2>3
<1>5. n \in T
    <2>. HIDE DEF T
    <2>1. 0 .. n \subseteq T
        BY <1>3, <1>4, Upto
    <2>. QED BY <2>1
<1>. QED BY <1>5 DEF a, b

\* A token more: kept if it was sampled, and alone if i is its place.
LEMMA KeptMore ==
    ASSUME NEW t \in Seq(Tokens), NEW x \in Tokens, NEW f \in SUBSET (1 .. Len(t)),
           NEW i \in 1 .. Len(t) + 1
    PROVE  /\ Kept(Append(t, x), f, i)[Len(t) + 1]
                = Append(IF i = Len(t) + 1 THEN <<>> ELSE Kept(t, f, i)[Len(t)], x)
           /\ i # Len(t) + 1 =>
                Kept(Append(t, x), f \cup {Len(t) + 1}, i)[Len(t) + 1] = Kept(t, f, i)[Len(t)]
<1>. DEFINE u == Append(t, x)
            n == Len(t)
<1>1. /\ n \in Nat /\ u \in Seq(Tokens) /\ Len(u) = n + 1 /\ u[n + 1] = x
      /\ \A k \in 1 .. n : u[k] = t[k]
    BY Appended
<1>2. i \in Nat \ {0} /\ n + 1 \in 0 .. Len(u) /\ n \in 0 .. Len(u) /\ (n + 1) - 1 = n
      /\ n <= Len(u) /\ ~(n + 1 < i) /\ n + 1 \notin f /\ n \in 0 .. Len(t)
    BY <1>1
<1>. HIDE DEF u, n
<1>3. ASSUME NEW g, \A k \in 1 .. n : k \in f <=> k \in g
      PROVE  /\ Kept(u, g, i)[n + 1]
                  = IF n + 1 \in g THEN Kept(u, g, i)[n] ELSE Append(Kept(u, g, i)[n], x)
             /\ Kept(u, g, i)[n] = Kept(t, f, i)[n]
    <2>1. Keeps(u, g, i, Kept(u, g, i))
        BY <1>1, <1>2, KeptIs
    <2>2. Kept(u, g, i)[n + 1] = Keeping(u, g, i, Kept(u, g, i), n + 1)
        BY <1>2, <2>1 DEF Keeps
    <2>3. Kept(u, g, i)[n] = Kept(t, f, i)[n]
        <3>1. n <= Len(t) /\ \A k \in 1 .. n : u[k] = t[k] /\ (k \in g <=> k \in f)
            BY <1>1, <1>3 DEF n
        <3>. QED BY <1>1, <1>2, <3>1, KeptSame
    <2>. QED BY <1>1, <1>2, <2>2, <2>3 DEF Keeping
<1>4. i = n + 1 => Kept(t, f, i)[n] = <<>>
    <2>1. Keeps(t, f, i, Kept(t, f, i))
        BY <1>2, KeptIs
    <2>2. Kept(t, f, i)[n] = Keeping(t, f, i, Kept(t, f, i), n)
        BY <1>2, <2>1 DEF Keeps
    <2>. QED BY <1>1, <2>2 DEF Keeping
<1>5. Kept(u, f, i)[n + 1] = Append(Kept(t, f, i)[n], x)
    BY <1>2, <1>3
<1>6. Kept(u, f \cup {n + 1}, i)[n + 1] = Kept(t, f, i)[n]
    <2>1. \A k \in 1 .. n : k \in f <=> k \in f \cup {n + 1}
        BY <1>1
    <2>. QED BY <1>3, <2>1
<1>. QED BY <1>4, <1>5, <1>6 DEF u, n

LEMMA KeptPast ==
    ASSUME NEW t \in Seq(Tokens), NEW x \in Tokens, NEW f \in SUBSET (1 .. Len(t)),
           NEW i \in 1 .. Len(t)
    PROVE  Kept(Append(t, x), f \cup {Len(t) + 1}, i)[Len(t) + 1] = Kept(t, f, i)[Len(t)]
<1>1. i \in 1 .. Len(t) + 1 /\ i # Len(t) + 1
    BY LenProperties
<1>. QED BY <1>1, KeptMore

-----------------------------------------------------------------------------
(* The invariant of sample_slot().                                         *)

States == {"OFF", "IDLE", "COUNTING", "FORCING", "DONE"}

SlotTypes ==
    /\ rb \in Configs /\ gram \in Grammars /\ ~Refused(rb, gram)
    /\ smpl \in [awake : BOOLEAN, fed : Seq(Tokens)]
    /\ in_use \in BOOLEAN /\ generated \in Seq(Tokens)
    /\ forced \subseteq 1 .. Len(generated)
    /\ rb_state \in States
    /\ rb_count \in Nat /\ rb_forced_idx \in Nat
    /\ rb_start_match \in Nat /\ rb_end_match \in Nat

\* What was forced, whatever the tags: one run of the forced sequence behind as many tokens
\* as the budget has, whole or still the last that was generated.
ForcedRun(c, t, f) ==
    f # {} =>
      /\ c.enabled
      /\ \E i \in Nat : \E m \in 1 .. Len(c.forced) :
            Written(c, t, f, i, m) /\ (m = Len(c.forced) \/ i + c.budget + m = Len(t))

\* How the machine's state goes with what was forced.
Steady ==
    /\ ForcedRun(rb, generated, forced)
    /\ rb_state # "OFF" => in_use /\ rb.enabled
    /\ in_use /\ rb_state = "OFF" => ~rb.enabled
    /\ rb_state \in {"IDLE", "COUNTING"} => forced = {}
    /\ rb_state = "COUNTING" => rb_count <= Len(generated)
    /\ rb_state = "FORCING" =>
          /\ rb_forced_idx \in 1 .. Len(rb.forced) - 1
          /\ \E i \in Nat : /\ i + rb.budget + rb_forced_idx = Len(generated)
                            /\ Written(rb, generated, forced, i, rb_forced_idx)
    /\ rb_state = "DONE" /\ forced # {} =>
          \E i \in Nat : Written(rb, generated, forced, i, Len(rb.forced))

Woken(t, f) == {k \in 1 .. Len(t) : k \notin f /\ t[k] \in Triggers}

Prompted(g) == IF Prefilled(g) THEN g.generation_prompt ELSE <<>>

\* How the grammar goes with the tokens: fed all of them, or those sampled since it woke.
Fed(g, s, t, f) ==
    /\ g.kind # "NONE" /\ ~g.lazy => s.awake /\ s.fed = Prompted(g) \o t
    /\ g.lazy => IF s.awake
                 THEN \E w \in Woken(t, f) : /\ \A k \in Woken(t, f) : w <= k
                                             /\ s.fed = Kept(t, f, w)[Len(t)]
                 ELSE Woken(t, f) = {}
    /\ s.awake => Fits(g, s.fed)

SlotInv == SlotTypes /\ Steady /\ Fed(gram, smpl, generated, forced)

LEMMA BeginsConcat ==
    ASSUME NEW S, NEW s \in Seq(S), NEW t \in Seq(S)
    PROVE  IsPrefix(s, s \o t)
<1>1. /\ s \o t \in Seq(S) /\ Len(s \o t) = Len(s) + Len(t)
      /\ Len(s) \in Nat /\ Len(t) \in Nat
      /\ \A k \in 1 .. Len(s) + Len(t) : (s \o t)[k] = IF k <= Len(s) THEN s[k] ELSE t[k - Len(s)]
    BY ConcatProperties, LenProperties
<1>2. Len(s) <= Len(s \o t) /\ \A k \in 1 .. Len(s) : s[k] = (s \o t)[k]
    BY <1>1
<1>3. PrefixTold(s, s \o t)
    BY <1>1, PrefixTells
<1>. QED BY <1>2, <1>3 DEF PrefixTold

LEMMA ConcatAppend ==
    ASSUME NEW p \in Seq(Tokens), NEW t \in Seq(Tokens), NEW x \in Tokens
    PROVE  Append(p \o t, x) = p \o Append(t, x)
<1>1. p \o t \in Seq(Tokens) /\ <<x>> \in Seq(Tokens)
    BY ConcatProperties
<1>2. Append(p \o t, x) = (p \o t) \o <<x>> /\ Append(t, x) = t \o <<x>>
    BY <1>1, AppendIsConcat
<1>3. (p \o t) \o <<x>> = p \o (t \o <<x>>)
    BY <1>1, ConcatAssociative
<1>. QED BY <1>2, <1>3

LEMMA GrammarIs ==
    ASSUME NEW g \in Grammars
    PROVE  /\ g.lazy \in BOOLEAN /\ g.generation_prompt \in Seq(Tokens)
           /\ g.lazy => g.kind # "NONE"
<1>1. <<>> \in Seq(Tokens) /\ GenerationPrompt \in Seq(Tokens)
    BY SamplerAssumption
<1>. QED BY <1>1 DEF Grammars

\* Before the first token.
LEMMA BuiltIs ==
    ASSUME NEW g \in Grammars
    PROVE  /\ Built(g) \in [awake : BOOLEAN, fed : Seq(Tokens)]
           /\ Fed(g, Built(g), <<>>, {})
<1>1. g.lazy \in BOOLEAN /\ g.generation_prompt \in Seq(Tokens) /\ (g.lazy => g.kind # "NONE")
    BY GrammarIs
<1>2. <<>> \in Seq(Tokens) /\ Len(<<>>) = 0
    BY EmptySeq
<1>3. Built(g).awake = (g.kind # "NONE" /\ ~g.lazy) /\ Built(g).fed = Prompted(g)
    BY DEF Built, Prompted
<1>4. Prompted(g) \in Seq(Tokens)
    BY <1>1, <1>2 DEF Prompted
<1>5. Built(g) \in [awake : BOOLEAN, fed : Seq(Tokens)]
    <2>1. (g.kind # "NONE" /\ ~g.lazy) \in BOOLEAN
        OBVIOUS
    <2>. QED BY <1>4, <2>1 DEF Built, Prompted
<1>6. Fits(g, Prompted(g))
    <2>1. PICK s \in Sentences : s \in Seq(Tokens)
        BY SamplerAssumption
    <2>2. CASE Prefilled(g)
        <3>. DEFINE p == g.generation_prompt
        <3>4. IsPrefix(p, p \o s)
            BY <1>1, <2>1, BeginsConcat
        <3>5. p \o s \in Language(g)
            BY <2>1, <2>2 DEF Language, p
        <3>6. Prompted(g) = p
            BY <2>2 DEF Prompted, p
        <3>. QED BY <3>4, <3>5, <3>6 DEF Fits
    <2>3. CASE ~Prefilled(g)
        <3>1. PrefixTold(<<>>, s)
            BY <1>2, <2>1, PrefixTells
        <3>2. Len(<<>>) <= Len(s) /\ \A k \in 1 .. Len(<<>>) : <<>>[k] = s[k]
            BY <1>2, <2>1, LenProperties
        <3>3. IsPrefix(<<>>, s)
            BY <3>1, <3>2 DEF PrefixTold
        <3>4. s \in Language(g) /\ Prompted(g) = <<>>
            BY <2>1, <2>3 DEF Language, Prompted
        <3>. QED BY <3>3, <3>4 DEF Fits
    <2>. QED BY <2>2, <2>3
<1>7. Prompted(g) \o <<>> = Prompted(g)
    BY <1>4, ConcatEmptySeq
<1>8. Woken(<<>>, {}) = {}
    BY <1>2 DEF Woken
<1>9. g.lazy => ~Built(g).awake
    BY <1>3
<1>10. g.kind # "NONE" /\ ~g.lazy => Built(g).awake
    BY <1>3
<1>. QED BY <1>3, <1>5, <1>6, <1>7, <1>8, <1>9, <1>10 DEF Fed

\* A token is sampled: what it does to the sampler.
LEMMA FedSampled ==
    ASSUME NEW g \in Grammars, NEW s \in [awake : BOOLEAN, fed : Seq(Tokens)],
           NEW t \in Seq(Tokens), NEW f \in SUBSET (1 .. Len(t)),
           NEW x \in Tokens, Fed(g, s, t, f), ~Throws(g, s, x)
    PROVE  /\ Accepted(g, s, x) \in [awake : BOOLEAN, fed : Seq(Tokens)]
           /\ Fed(g, Accepted(g, s, x), Append(t, x), f)
<1>. DEFINE a == Accepted(g, s, x)
            u == Append(t, x)
            n == Len(t)
<1>0. /\ n \in Nat /\ u \in Seq(Tokens) /\ Len(u) = n + 1 /\ u[n + 1] = x
      /\ \A k \in 1 .. n : u[k] = t[k]
    BY Appended
<1>1. s.awake \in BOOLEAN /\ s.fed \in Seq(Tokens) /\ Append(s.fed, x) \in Seq(Tokens)
      /\ <<x>> \in Seq(Tokens)
    BY Appended
<1>2. s.awake => a.awake /\ a.fed = Append(s.fed, x)
    BY DEF Accepted
<1>3. ~s.awake /\ g.lazy /\ x \in Triggers => a.awake /\ a.fed = <<x>>
    BY DEF Accepted
<1>4. ~s.awake /\ ~(g.lazy /\ x \in Triggers) => a = s
    BY DEF Accepted
<1>5. a \in [awake : BOOLEAN, fed : Seq(Tokens)]
    BY <1>1 DEF Accepted
<1>6. a.awake => Fits(g, a.fed)
    BY DEF Throws
<1>7. Woken(u, f) = Woken(t, f) \cup (IF x \in Triggers THEN {n + 1} ELSE {})
    <2>1. ASSUME NEW k
          PROVE  k \in Woken(u, f) <=> k \in Woken(t, f) \/ (k = n + 1 /\ x \in Triggers)
        <3>1. CASE k \in 1 .. n
            BY <1>0, <3>1 DEF Woken
        <3>2. CASE k = n + 1
            BY <1>0, <3>2 DEF Woken
        <3>3. CASE ~(k \in 1 .. n) /\ k # n + 1
            <4>1. ~(k \in 1 .. n + 1)
                BY <1>0, <3>3
            <4>. QED BY <1>0, <3>3, <4>1 DEF Woken
        <3>. QED BY <3>1, <3>2, <3>3
    <2>. QED BY <2>1
<1>8. \A k \in Woken(t, f) : k \in 1 .. n
    BY DEF Woken
<1>9. g.kind # "NONE" /\ ~g.lazy => a.awake /\ a.fed = Prompted(g) \o u
    <2>. SUFFICES ASSUME g.kind # "NONE", ~g.lazy PROVE a.awake /\ a.fed = Prompted(g) \o u
        OBVIOUS
    <2>1. s.awake /\ s.fed = Prompted(g) \o t
        BY DEF Fed
    <2>2. PICK p \in Seq(Tokens) : p = Prompted(g)
        BY GrammarIs, EmptySeq DEF Prompted
    <2>3. Append(p \o t, x) = p \o Append(t, x)
        BY <2>2, ConcatAppend
    <2>. QED BY <1>2, <2>1, <2>2, <2>3
<1>10. ASSUME g.lazy, a.awake
       PROVE  \E w \in Woken(u, f) : /\ \A k \in Woken(u, f) : w <= k
                                     /\ a.fed = Kept(u, f, w)[n + 1]
    <2>1. CASE s.awake
        <3>1. PICK w \in Woken(t, f) : /\ \A k \in Woken(t, f) : w <= k
                                       /\ s.fed = Kept(t, f, w)[n]
            BY <1>10, <2>1 DEF Fed
        <3>2. w \in 1 .. n /\ w \in 1 .. n + 1 /\ w # n + 1 /\ w <= n + 1
            BY <1>0, <1>8, <3>1
        <3>3. Kept(u, f, w)[n + 1] = Append(Kept(t, f, w)[n], x)
            BY <3>2, KeptMore
        <3>4. w \in Woken(u, f) /\ \A k \in Woken(u, f) : w <= k
            BY <1>7, <3>1, <3>2
        <3>. QED BY <1>2, <2>1, <3>1, <3>3, <3>4
    <2>2. CASE ~s.awake
        <3>1. x \in Triggers /\ a.fed = <<x>> /\ Woken(t, f) = {}
            <4>1. x \in Triggers
                BY <1>4, <1>10, <2>2
            <4>2. Woken(t, f) = {}
                BY <1>10, <2>2 DEF Fed
            <4>. QED BY <1>3, <1>10, <2>2, <4>1, <4>2
        <3>2. Woken(u, f) = {n + 1} /\ n + 1 \in 1 .. n + 1 /\ n + 1 <= n + 1
            BY <1>0, <1>7, <3>1
        <3>3. Kept(u, f, n + 1)[n + 1] = Append(<<>>, x)
            BY <3>2, KeptMore
        <3>4. Append(<<>>, x) = <<x>>
            OBVIOUS
        <3>. QED BY <3>1, <3>2, <3>3, <3>4
    <2>. QED BY <1>1, <2>1, <2>2
<1>11. ASSUME g.lazy, ~a.awake
       PROVE  Woken(u, f) = {}
    <2>1. ~s.awake
        BY <1>2, <1>11
    <2>2. Woken(t, f) = {} /\ x \notin Triggers
        BY <1>3, <1>11, <2>1 DEF Fed
    <2>. QED BY <1>7, <2>2
<1>. HIDE DEF a, u
<1>12. Fed(g, a, u, f)
    BY <1>0, <1>6, <1>9, <1>10, <1>11 DEF Fed
<1>. QED BY <1>5, <1>12 DEF a, u

\* A token is forced: the grammar is not fed it, which it must not miss.
LEMMA FedForced ==
    ASSUME NEW g, NEW s, NEW t \in Seq(Tokens), NEW f \in SUBSET (1 .. Len(t)),
           NEW x \in Tokens, Fed(g, s, t, f), g.kind = "NONE" \/ g.lazy
    PROVE  Fed(g, s, Append(t, x), f \cup {Len(t) + 1})
<1>. DEFINE u == Append(t, x)
            n == Len(t)
<1>0. /\ n \in Nat /\ u \in Seq(Tokens) /\ Len(u) = n + 1
      /\ \A k \in 1 .. n : u[k] = t[k]
    BY Appended
<1>1. Woken(u, f \cup {n + 1}) = Woken(t, f)
    <2>1. ASSUME NEW k
          PROVE  k \in Woken(u, f \cup {n + 1}) <=> k \in Woken(t, f)
        <3>1. CASE k \in 1 .. n
            BY <1>0, <3>1 DEF Woken
        <3>2. CASE ~(k \in 1 .. n)
            <4>1. k \in 1 .. n + 1 => k = n + 1
                BY <1>0, <3>2
            <4>. QED BY <1>0, <3>2, <4>1 DEF Woken
        <3>. QED BY <3>1, <3>2
    <2>. QED BY <2>1
<1>2. ASSUME NEW w \in Woken(t, f)
      PROVE  Kept(u, f \cup {n + 1}, w)[n + 1] = Kept(t, f, w)[n]
    <2>1. w \in 1 .. n
        BY <1>2 DEF Woken
    <2>. QED BY <2>1, KeptPast
<1>. HIDE DEF u
<1>3. Fed(g, s, u, f \cup {n + 1})
    BY <1>0, <1>1, <1>2 DEF Fed
<1>. QED BY <1>3 DEF u

\* The steps of the invariant of the slot.
LEMMA InitSlot ==
    ASSUME BudgetInit
    PROVE  SlotInv
<1>1. /\ rb \in Configs /\ gram \in Grammars /\ ~Refused(rb, gram) /\ smpl = Built(gram)
      /\ in_use = FALSE /\ generated = <<>> /\ forced = {}
      /\ rb_state = "OFF" /\ rb_count = 0 /\ rb_forced_idx = 0
      /\ rb_start_match = 0 /\ rb_end_match = 0
    BY DEF BudgetInit
<1>2. generated \in Seq(Tokens) /\ forced \subseteq 1 .. Len(generated)
    BY <1>1, EmptySeq
<1>3. smpl \in [awake : BOOLEAN, fed : Seq(Tokens)] /\ Fed(gram, smpl, <<>>, {})
    BY <1>1, BuiltIs
<1>4. SlotTypes
    BY <1>1, <1>2, <1>3 DEF SlotTypes, States
<1>5. Steady
    BY <1>1 DEF Steady, ForcedRun
<1>. QED BY <1>1, <1>3, <1>4, <1>5 DEF SlotInv

LEMMA AdmitSlot ==
    ASSUME SlotInv, AdmitQueued
    PROVE  SlotInv'
<1>1. /\ rb' \in Configs /\ gram' \in Grammars /\ ~Refused(rb', gram')
      /\ smpl' = Built(gram')
      /\ in_use' = TRUE /\ generated' = <<>> /\ forced' = {}
      /\ rb_state' = (IF ~rb'.enabled THEN "OFF"
                      ELSE IF rb'.start_in_prompt THEN "COUNTING" ELSE "IDLE")
      /\ rb_count' = 0 /\ rb_forced_idx' = 0 /\ rb_start_match' = 0 /\ rb_end_match' = 0
    BY DEF AdmitQueued, Reset
<1>2. generated' \in Seq(Tokens) /\ forced' \subseteq 1 .. Len(generated') /\ Len(generated') = 0
    BY <1>1, EmptySeq
<1>3. smpl' \in [awake : BOOLEAN, fed : Seq(Tokens)] /\ Fed(gram', smpl', <<>>, {})
    BY <1>1, BuiltIs
<1>4. SlotTypes'
    BY <1>1, <1>2, <1>3 DEF SlotTypes, States
<1>5. Steady'
    BY <1>1, <1>2 DEF Steady, ForcedRun
<1>. QED BY <1>1, <1>3, <1>4, <1>5 DEF SlotInv

\* finish(), and accept() throwing.
LEMMA EndSlot ==
    ASSUME SlotInv, in_use' = FALSE, Reset("OFF"), UNCHANGED <<rb, gram, smpl, generated, forced>>
    PROVE  SlotInv'
<1>1. /\ rb_state' = "OFF" /\ rb_count' = 0 /\ rb_forced_idx' = 0
      /\ rb_start_match' = 0 /\ rb_end_match' = 0
    BY DEF Reset
<1>2. SlotTypes'
    BY <1>1 DEF SlotInv, SlotTypes, States
<1>3. Steady'
    BY <1>1 DEF SlotInv, Steady
<1>. QED BY <1>2, <1>3 DEF SlotInv

\* What each token sampled leaves behind, whatever the machine makes of it.
LEMMA SampledSlot ==
    ASSUME SlotInv, NEW x \in Tokens, SampledToken(x),
           UNCHANGED <<rb, gram, in_use, forced>>
    PROVE  /\ in_use /\ ~Forcing
           /\ generated' = Append(generated, x) /\ generated' \in Seq(Tokens)
           /\ Len(generated) \in Nat /\ Len(generated') = Len(generated) + 1
           /\ forced' \subseteq 1 .. Len(generated')
           /\ smpl' \in [awake : BOOLEAN, fed : Seq(Tokens)]
           /\ Fed(gram, smpl, generated, forced)'
<1>1. /\ ~Forcing /\ ~Throws(gram, smpl, x) /\ in_use /\ generated' = Append(generated, x)
      /\ smpl' = Accepted(gram, smpl, x)
    BY DEF SampledToken, Generated
<1>2. /\ gram \in Grammars /\ smpl \in [awake : BOOLEAN, fed : Seq(Tokens)]
      /\ generated \in Seq(Tokens) /\ forced \in SUBSET (1 .. Len(generated))
      /\ Fed(gram, smpl, generated, forced)
    BY DEF SlotInv, SlotTypes
<1>3. /\ Accepted(gram, smpl, x) \in [awake : BOOLEAN, fed : Seq(Tokens)]
      /\ Fed(gram, Accepted(gram, smpl, x), Append(generated, x), forced)
    BY <1>1, <1>2, FedSampled
<1>4. /\ Append(generated, x) \in Seq(Tokens) /\ Len(generated) \in Nat
      /\ Len(Append(generated, x)) = Len(generated) + 1
    BY <1>2, Appended
<1>5. forced' \subseteq 1 .. Len(generated')
    BY <1>1, <1>2, <1>4
<1>. QED BY <1>1, <1>3, <1>4, <1>5

LEMMA MatchedIs ==
    ASSUME NEW tag, NEW n \in Nat, NEW x
    PROVE  Matched(tag, n, x) \in Nat
BY DEF Matched

LEMMA ScanSlot ==
    ASSUME SlotInv, NEW x \in Tokens, Scan(x)
    PROVE  SlotInv'
<1>1. /\ rb_state = "IDLE" /\ SampledToken(x) /\ UNCHANGED <<rb, gram, in_use, forced>>
    BY DEF Scan, request
<1>2. /\ in_use /\ generated' \in Seq(Tokens) /\ Len(generated') \in Nat
      /\ forced' \subseteq 1 .. Len(generated')
      /\ smpl' \in [awake : BOOLEAN, fed : Seq(Tokens)] /\ Fed(gram, smpl, generated, forced)'
    BY <1>1, SampledSlot
<1>3. /\ rb_state' \in {"IDLE", "COUNTING"} /\ rb_count' \in Nat /\ rb_forced_idx' \in Nat
      /\ rb_start_match' \in Nat /\ rb_end_match' \in Nat
      /\ rb_state' = "COUNTING" => rb_count' = 0
    BY <1>1, MatchedIs DEF Scan, Reset, SlotInv, SlotTypes
<1>4. SlotTypes'
    BY <1>1, <1>2, <1>3 DEF SlotInv, SlotTypes, States
<1>5. rb.enabled /\ forced = {}
    BY <1>1 DEF SlotInv, Steady
<1>6. Steady'
    BY <1>1, <1>2, <1>3, <1>5 DEF Steady, ForcedRun
<1>. QED BY <1>2, <1>4, <1>6 DEF SlotInv

LEMMA CountSlot ==
    ASSUME SlotInv, NEW x \in Tokens, Count(x)
    PROVE  SlotInv'
<1>1. /\ rb_state = "COUNTING" /\ SampledToken(x) /\ UNCHANGED <<rb, gram, in_use, forced>>
      /\ rb_count' = rb_count + 1 /\ rb_end_match' = Matched(EndTag, rb_end_match, x)
      /\ rb_state' \in {"COUNTING", "DONE"} /\ UNCHANGED <<rb_forced_idx, rb_start_match>>
    BY DEF Count, request
<1>2. /\ in_use /\ generated' \in Seq(Tokens) /\ Len(generated) \in Nat
      /\ Len(generated') = Len(generated) + 1 /\ forced' \subseteq 1 .. Len(generated')
      /\ smpl' \in [awake : BOOLEAN, fed : Seq(Tokens)] /\ Fed(gram, smpl, generated, forced)'
    BY <1>1, SampledSlot
<1>3. SlotTypes'
    BY <1>1, <1>2, MatchedIs DEF SlotInv, SlotTypes, States
<1>4. rb.enabled /\ forced = {} /\ rb_count <= Len(generated) /\ rb_count \in Nat
    BY <1>1 DEF SlotInv, SlotTypes, Steady
<1>5. Steady'
    BY <1>1, <1>2, <1>4 DEF Steady, ForcedRun
<1>. QED BY <1>2, <1>3, <1>5 DEF SlotInv

LEMMA PassSlot ==
    ASSUME SlotInv, NEW x \in Tokens, Pass(x)
    PROVE  SlotInv'
<1>1. /\ rb_state \in {"OFF", "DONE"} /\ SampledToken(x) /\ UNCHANGED <<rb, gram, in_use, forced>>
      /\ UNCHANGED <<rb_state, rb_count, rb_forced_idx, rb_start_match, rb_end_match>>
    BY DEF Pass, request, matching
<1>2. /\ in_use /\ generated' \in Seq(Tokens) /\ generated' = Append(generated, x)
      /\ forced' \subseteq 1 .. Len(generated')
      /\ smpl' \in [awake : BOOLEAN, fed : Seq(Tokens)] /\ Fed(gram, smpl, generated, forced)'
    BY <1>1, SampledSlot
<1>3. SlotTypes'
    BY <1>1, <1>2 DEF SlotInv, SlotTypes
<1>4. CASE forced = {}
    BY <1>1, <1>2, <1>3, <1>4 DEF SlotInv, Steady, ForcedRun
<1>5. CASE forced # {}
    <2>1. rb.enabled /\ rb_state = "DONE"
        BY <1>1, <1>2, <1>5 DEF SlotInv, Steady, ForcedRun
    <2>2. PICK i \in Nat : Written(rb, generated, forced, i, Len(rb.forced))
        BY <1>5, <2>1 DEF SlotInv, Steady
    <2>3. rb \in Configs /\ generated \in Seq(Tokens) /\ Len(rb.forced) \in Nat \ {0}
        BY ConfigIs DEF SlotInv, SlotTypes
    <2>4. Written(rb, Append(generated, x), forced, i, Len(rb.forced))
        BY <2>1, <2>2, <2>3, WrittenSame
    <2>5. /\ Written(rb', generated', forced', i, Len(rb'.forced))
          /\ Len(rb'.forced) \in 1 .. Len(rb'.forced)
        BY <1>1, <1>2, <2>3, <2>4
    <2>6. ForcedRun(rb', generated', forced')
        BY <1>1, <2>1, <2>5 DEF ForcedRun
    <2>7. Steady'
        BY <1>1, <1>2, <1>5, <2>1, <2>5, <2>6 DEF Steady
    <2>. QED BY <1>2, <1>3, <2>7 DEF SlotInv
<1>. QED BY <1>4, <1>5

\* Where forcing stands with its next token.
LEMMA ForcesFrom ==
    ASSUME SlotInv, ForceToken
    PROVE  /\ in_use /\ rb.enabled
           /\ ForcedIdx \in 0 .. Len(rb.forced) - 1
           /\ \E i \in Nat : /\ i + rb.budget + ForcedIdx = Len(generated)
                             /\ Written(rb, generated, forced, i, ForcedIdx)
                             /\ Spent => i = Len(generated) - rb.budget
<1>1. /\ rb \in Configs /\ generated \in Seq(Tokens) /\ Len(generated) \in Nat
      /\ rb_state # "OFF" => in_use /\ rb.enabled
      /\ rb_count \in Nat /\ rb_state \in States
    BY LenProperties DEF SlotInv, SlotTypes, Steady
<1>2. Len(rb.forced) \in Nat \ {0}
    BY <1>1, ConfigIs
<1>3. CASE Spent
    <2>1. /\ ForcedIdx = 0 /\ rb_state = "COUNTING" /\ rb.budget <= rb_count
          /\ rb_count <= Len(generated) /\ forced = {}
        BY <1>3 DEF ForcedIdx, Spent, SlotInv, Steady
    <2>2. rb.budget \in Nat
        BY <1>1, <2>1, ConfigIs
    <2>. DEFINE i == Len(generated) - rb.budget
    <2>3. i \in Nat /\ i + rb.budget + 0 = Len(generated)
        BY <1>1, <2>1, <2>2
    <2>4. Written(rb, generated, forced, i, 0)
        BY <2>1, <2>2, <2>3 DEF Written
    <2>. QED BY <1>1, <1>2, <2>1, <2>3, <2>4
<1>4. CASE ~Spent
    <2>1. ForcedIdx = rb_forced_idx /\ rb_state = "FORCING"
        BY <1>4 DEF ForcedIdx, ForceToken, Forcing
    <2>2. /\ rb_forced_idx \in 1 .. Len(rb.forced) - 1
          /\ \E i \in Nat : /\ i + rb.budget + rb_forced_idx = Len(generated)
                            /\ Written(rb, generated, forced, i, rb_forced_idx)
        BY <2>1 DEF SlotInv, Steady
    <2>. QED BY <1>1, <1>2, <1>4, <2>1, <2>2
<1>. QED BY <1>3, <1>4

LEMMA ForceSlot ==
    ASSUME SlotInv, ForceToken
    PROVE  SlotInv'
<1>. DEFINE m == ForcedIdx
            x == rb.forced[m + 1]
            n == Len(generated)
<1>1. /\ UNCHANGED <<rb, gram, smpl, in_use, rb_count, rb_start_match, rb_end_match>>
      /\ generated' = Append(generated, x) /\ forced' = forced \cup {Len(generated')}
      /\ rb_forced_idx' = m + 1
      /\ rb_state' = IF m + 1 >= Len(rb.forced) THEN "DONE" ELSE "FORCING"
    BY DEF ForceToken, Generated, request, matching
<1>2. in_use /\ rb.enabled /\ m \in 0 .. Len(rb.forced) - 1
    BY ForcesFrom
<1>3. PICK i \in Nat : i + rb.budget + m = n /\ Written(rb, generated, forced, i, m)
    BY ForcesFrom
<1>4. /\ rb \in Configs /\ gram \in Grammars /\ generated \in Seq(Tokens) /\ n \in Nat
      /\ forced \in SUBSET (1 .. n) /\ Fed(gram, smpl, generated, forced)
    BY LenProperties DEF SlotInv, SlotTypes
<1>5. rb.forced \in Seq(Tokens) /\ Len(rb.forced) \in Nat \ {0}
    BY <1>4, ConfigIs
<1>. HIDE DEF m
<1>6. x \in Tokens
    BY <1>2, <1>5, LenProperties
<1>. HIDE DEF x, n
<1>7. generated' \in Seq(Tokens) /\ Len(generated') = n + 1
    BY <1>1, <1>4, <1>6, Appended DEF n
<1>8. gram.kind = "NONE" \/ gram.lazy
    BY <1>2 DEF Refused, SlotInv, SlotTypes
<1>9. Fed(gram, smpl, generated, forced)'
    <2>1. Fed(gram, smpl, Append(generated, x), forced \cup {n + 1})
        BY <1>4, <1>6, <1>8, FedForced DEF n
    <2>. QED BY <1>1, <1>7, <2>1
<1>10. Written(rb, generated', forced', i, m + 1) /\ i + rb.budget + (m + 1) = n + 1
    <2>1. m \in Nat /\ x = rb.forced[m + 1]
        BY <1>2, <1>5 DEF x
    <2>2. Written(rb, Append(generated, x), forced \cup {n + 1}, i, m + 1)
        BY <1>2, <1>3, <1>4, <1>6, <2>1, WrittenSame DEF n
    <2>3. rb.budget \in Nat
        BY <1>2, <1>4, ConfigIs
    <2>4. generated' = Append(generated, x) /\ forced' = forced \cup {n + 1}
        BY <1>1, <1>7
    <2>5. i + rb.budget + (m + 1) = n + 1
        BY <1>3, <2>1, <2>3
    <2>. QED BY <2>2, <2>4, <2>5
<1>11. forced' \subseteq 1 .. Len(generated')
    BY <1>1, <1>4, <1>7
<1>12. SlotTypes'
    BY <1>1, <1>2, <1>5, <1>7, <1>11 DEF SlotInv, SlotTypes, States
<1>13. m + 1 \in 1 .. Len(rb.forced)
    BY <1>2, <1>5
<1>14. ForcedRun(rb', generated', forced')
    BY <1>1, <1>2, <1>7, <1>10, <1>13 DEF ForcedRun
<1>15. CASE m + 1 >= Len(rb.forced)
    <2>1. m + 1 = Len(rb.forced) /\ rb_state' = "DONE"
        BY <1>1, <1>5, <1>13, <1>15
    <2>2. Written(rb', generated', forced', i, Len(rb'.forced))
        BY <1>1, <1>10, <2>1
    <2>3. Steady'
        BY <1>1, <1>2, <1>14, <2>1, <2>2 DEF Steady
    <2>. QED BY <1>9, <1>12, <2>3 DEF SlotInv
<1>16. CASE ~(m + 1 >= Len(rb.forced))
    <2>1. m + 1 \in 1 .. Len(rb.forced) - 1 /\ rb_state' = "FORCING"
        BY <1>1, <1>5, <1>13, <1>16
    <2>2. /\ i + rb'.budget + rb_forced_idx' = Len(generated')
          /\ Written(rb', generated', forced', i, rb_forced_idx')
        BY <1>1, <1>7, <1>10
    <2>3. rb_forced_idx' \in 1 .. Len(rb'.forced) - 1
        BY <1>1, <2>1
    <2>4. Steady'
        BY <1>1, <1>2, <1>14, <2>1, <2>2, <2>3 DEF Steady
    <2>. QED BY <1>9, <1>12, <2>4 DEF SlotInv
<1>. QED BY <1>15, <1>16

LEMMA SlotStep ==
    ASSUME SlotInv, [BudgetNext]_budget_vars
    PROVE  SlotInv'
<1>1. CASE AdmitQueued
    BY <1>1, AdmitSlot
<1>2. CASE FinishSlot
    BY <1>2, EndSlot DEF FinishSlot, request
<1>3. CASE ForceToken
    BY <1>3, ForceSlot
<1>4. CASE SamplingFails
    BY <1>4, EndSlot DEF SamplingFails, request
<1>5. ASSUME NEW x \in Tokens, Scan(x) \/ Count(x) \/ Pass(x)
      PROVE  SlotInv'
    BY <1>5, ScanSlot, CountSlot, PassSlot
<1>6. CASE UNCHANGED budget_vars
    BY <1>6 DEF budget_vars, request, matching, SlotInv, SlotTypes, Steady
<1>. QED BY <1>1, <1>2, <1>3, <1>4, <1>5, <1>6 DEF BudgetNext

\* The slot's part of the machine, what was forced and what the grammar was fed go together
\* at every token sample_slot() draws, and from one request to the next.
THEOREM SlotKept == BudgetSpec => []SlotInv
<1>1. BudgetInit => SlotInv
    BY InitSlot
<1>2. SlotInv /\ [BudgetNext]_budget_vars => SlotInv'
    BY SlotStep
<1>. QED BY <1>1, <1>2, PTL DEF BudgetSpec

\* Whatever the tags: the budget forces once in a request, behind a budget's worth of tokens,
\* a beginning of the forced sequence without a gap, and only the end of the request cuts it
\* short (RB_FORCING of sample_slot).
THEOREM ForcedOnce == BudgetSpec => []ForcedRun(rb, generated, forced)
<1>1. SlotInv => ForcedRun(rb, generated, forced)
    BY DEF SlotInv, Steady
<1>. QED BY <1>1, SlotKept, PTL

\* The invariant says GrammarKept: B's recursive function is Kept.
LEMMA GrammarFits ==
    ASSUME SlotInv
    PROVE  GrammarKept
<1>1. generated \in Seq(Tokens) /\ DOMAIN generated = 1 .. Len(generated)
      /\ Fed(gram, smpl, generated, forced)
    BY LenProperties DEF SlotInv, SlotTypes
<1>2. ASSUME gram.kind # "NONE", ~gram.lazy
      PROVE  Fits(gram, (IF Prefilled(gram) THEN gram.generation_prompt ELSE <<>>) \o generated)
    BY <1>1, <1>2 DEF Fed, Prompted
<1>3. Wakes = Woken(generated, forced)
    BY <1>1 DEF Wakes, Woken
<1>4. ASSUME gram.lazy, Wakes # {}
      PROVE  Fits(gram, SampledFrom(CHOOSE k \in Wakes : \A l \in Wakes : k <= l))
    <2>1. smpl.awake /\ Fits(gram, smpl.fed)
        BY <1>1, <1>3, <1>4 DEF Fed
    <2>2. PICK w \in Wakes : /\ \A k \in Wakes : w <= k
                               /\ smpl.fed = Kept(generated, forced, w)[Len(generated)]
        BY <1>1, <1>3, <1>4, <2>1 DEF Fed
    <2>3. \A k \in Wakes : k \in Nat
        BY <1>3 DEF Woken
    <2>4. w = CHOOSE k \in Wakes : \A l \in Wakes : k <= l
        <3>. DEFINE v == CHOOSE k \in Wakes : \A l \in Wakes : k <= l
        <3>1. v \in Wakes /\ \A l \in Wakes : v <= l
            BY <2>2
        <3>. HIDE DEF v
        <3>2. w <= v /\ v <= w /\ w \in Nat /\ v \in Nat
            BY <2>2, <2>3, <3>1
        <3>3. w = v
            BY <3>2
        <3>. QED BY <3>3 DEF v
    <2>5. SampledFrom(w) = Kept(generated, forced, w)[Len(generated)]
        BY DEF SampledFrom, SampledIn, Kept, Keeping
    <2>. QED BY <2>1, <2>2, <2>4, <2>5
<1>. QED BY <1>2, <1>4 DEF GrammarKept

\* What a client asked the output to look like, it looks like: forced tokens never pass a
\* grammar that is awake from the start, and one that wakes follows what is sampled from then
\* on (sample_slot, onyx_sampler::accept, and the 400 of the chat route).
THEOREM GrammarHolds == BudgetSpec => []GrammarKept
BY SlotKept, GrammarFits, PTL

-----------------------------------------------------------------------------
(* The invariant of the budget: what the machine's state says of the tags  *)
(* among the tokens, if its rolling match misses none of them.             *)

Never(t, tag, from) == \A j \in from .. Len(t) : ~TagEnds(t, tag, from, j)

Idle(c, t, m) ==
    /\ c.enabled /\ ~c.start_in_prompt
    /\ Never(t, StartTag, 0) /\ Rolling(t, StartTag, 0, m)

Counting(c, t, n, m) ==
    \E i \in Nat : /\ Opens(c, t, i) /\ i + n = Len(t) /\ n <= c.budget
                   /\ Never(t, EndTag, i) /\ Rolling(t, EndTag, i, m)

ForcingAt(c, t, f, m) ==
    \E i \in Nat : /\ Opens(c, t, i) /\ ~Closed(c, t, i)
                   /\ i + c.budget + m = Len(t) /\ Written(c, t, f, i, m)

Done(c, t, f) ==
    \E i \in Nat : /\ Opens(c, t, i)
                   /\ IF Closed(c, t, i) THEN f = {} ELSE Written(c, t, f, i, Len(c.forced))

Exactly ==
    /\ Exact(rb, generated, forced)
    /\ rb_state = "IDLE" => Idle(rb, generated, rb_start_match)
    /\ rb_state = "COUNTING" => Counting(rb, generated, rb_count, rb_end_match)
    /\ rb_state = "FORCING" => ForcingAt(rb, generated, forced, rb_forced_idx)
    /\ rb_state = "DONE" => Done(rb, generated, forced)

\* Nothing was seen yet of a tag that would begin here.
LEMMA RollsFrom ==
    ASSUME NEW t \in Seq(Tokens), NEW tag, IsTag(tag)
    PROVE  Rolling(t, tag, Len(t), 0) /\ Never(t, tag, Len(t))
<1>1. Len(t) \in Nat /\ Len(tag) \in Nat \ {0}
    BY LenProperties DEF IsTag
<1>2. Rolling(t, tag, Len(t), 0)
    BY <1>1 DEF Rolling, Stands
<1>3. Never(t, tag, Len(t))
    BY <1>1 DEF Never, TagEnds
<1>. QED BY <1>2, <1>3

\* A token more, with which no tag ends.
LEMMA NeverMore ==
    ASSUME NEW t \in Seq(Tokens), NEW x \in Tokens, NEW tag, IsTag(tag), NEW from \in Nat,
           Never(t, tag, from), ~TagEnds(Append(t, x), tag, from, Len(t) + 1)
    PROVE  Never(Append(t, x), tag, from)
<1>1. Len(t) \in Nat /\ Len(Append(t, x)) = Len(t) + 1
    BY Appended
<1>2. ASSUME NEW j \in from .. Len(t)
      PROVE  ~TagEnds(Append(t, x), tag, from, j)
    <2>1. j \in 0 .. Len(t)
        BY <1>1
    <2>. QED BY <2>1, EndsSame DEF Never
<1>3. \A j \in from .. Len(t) + 1 : j \in from .. Len(t) \/ j = Len(t) + 1
    BY <1>1
<1>. QED BY <1>1, <1>2, <1>3 DEF Never

\* A block that was closed in time stays so.
LEMMA ClosedStays ==
    ASSUME NEW c, NEW t \in Seq(Tokens), NEW x \in Tokens,
           NEW i \in Nat, Closed(c, t, i)
    PROVE  Closed(c, Append(t, x), i)
<1>1. Len(t) \in Nat /\ IsTag(EndTag) /\ Len(EndTag) \in Nat
    BY TagsAre, LenProperties DEF IsTag
<1>2. PICK j \in i .. i + c.budget : TagEnds(t, EndTag, i, j)
    BY DEF Closed
<1>3. j \in 0 .. Len(t)
    BY <1>1, <1>2 DEF TagEnds
<1>4. TagEnds(Append(t, x), EndTag, i, j)
    BY <1>1, <1>2, <1>3, EndsSame
<1>. QED BY <1>4 DEF Closed

LEMMA IdleExact ==
    ASSUME NEW c \in Configs, NEW t \in Seq(Tokens), NEW m, Idle(c, t, m)
    PROVE  Exact(c, t, {})
<1>1. \A i \in 0 .. Len(t) : ~Opens(c, t, i)
    BY DEF Idle, Opens, Never
<1>. QED BY <1>1, ExactNothing

LEMMA CountingExact ==
    ASSUME NEW c \in Configs, NEW t \in Seq(Tokens), NEW n \in Nat, NEW m,
           Counting(c, t, n, m)
    PROVE  Exact(c, t, {})
<1>1. PICK i \in Nat : Opens(c, t, i) /\ i + n = Len(t) /\ n <= c.budget
    BY DEF Counting
<1>2. c.budget \in Nat
    BY <1>1, ConfigIs DEF Opens
<1>3. \A j \in 0 .. Len(t) : Opens(c, t, j) => Len(t) <= j + c.budget
    <2>. TAKE j \in 0 .. Len(t)
    <2>. HAVE Opens(c, t, j)
    <2>1. j = i
        BY <1>1, OpensOnce
    <2>. QED BY <1>1, <1>2, <2>1
<1>. QED BY <1>3, ExactNothing

LEMMA DoneExact ==
    ASSUME NEW c \in Configs, NEW t \in Seq(Tokens), NEW f, Done(c, t, f)
    PROVE  Exact(c, t, f)
<1>1. PICK i \in Nat : /\ Opens(c, t, i)
                       /\ IF Closed(c, t, i) THEN f = {} ELSE Written(c, t, f, i, Len(c.forced))
    BY DEF Done
<1>2. CASE Closed(c, t, i)
    <2>1. \A j \in 0 .. Len(t) : Opens(c, t, j) => Closed(c, t, j)
        BY <1>1, <1>2, OpensOnce
    <2>2. Exact(c, t, {})
        BY <2>1, ExactNothing
    <2>. QED BY <1>1, <1>2, <2>2
<1>3. CASE ~Closed(c, t, i)
    <2>1. Len(c.forced) \in 0 .. Len(c.forced)
        BY ConfigIs
    <2>. QED BY <1>1, <1>3, <2>1, ExactRun
<1>. QED BY <1>2, <1>3

LEMMA OffExact ==
    ASSUME NEW c \in Configs, NEW t \in Seq(Tokens), ~c.enabled
    PROVE  Exact(c, t, {})
<1>1. \A i \in 0 .. Len(t) : ~Opens(c, t, i)
    BY DEF Opens
<1>. QED BY <1>1, ExactNothing

\* A request starts.
LEMMA StartExact ==
    ASSUME NEW c \in Configs, c.enabled
    PROVE  IF c.start_in_prompt THEN Counting(c, <<>>, 0, 0) ELSE Idle(c, <<>>, 0)
<1>1. <<>> \in Seq(Tokens) /\ Len(<<>>) = 0
    BY EmptySeq
<1>2. IsTag(StartTag) /\ IsTag(EndTag)
    BY TagsAre
<1>3. /\ Rolling(<<>>, StartTag, 0, 0) /\ Never(<<>>, StartTag, 0)
      /\ Rolling(<<>>, EndTag, 0, 0) /\ Never(<<>>, EndTag, 0)
    BY <1>1, <1>2, RollsFrom
<1>4. CASE c.start_in_prompt
    <2>1. Opens(c, <<>>, 0) /\ 0 + 0 = Len(<<>>) /\ 0 <= c.budget /\ 0 \in Nat
        BY <1>1, <1>4, ConfigIs DEF Opens
    <2>. QED BY <1>3, <1>4, <2>1 DEF Counting
<1>5. CASE ~c.start_in_prompt
    BY <1>3, <1>5 DEF Idle
<1>. QED BY <1>4, <1>5

\* A token while the start tag is looked for.
LEMMA IdleMore ==
    ASSUME Plain(StartTag), NEW c \in Configs, NEW t \in Seq(Tokens),
           NEW x \in Tokens, NEW m \in Nat, Idle(c, t, m)
    PROVE  IF Matched(StartTag, m, x) >= Len(StartTag) THEN Counting(c, Append(t, x), 0, 0)
           ELSE Idle(c, Append(t, x), Matched(StartTag, m, x))
<1>. DEFINE n == Matched(StartTag, m, x)
            u == Append(t, x)
<1>1. /\ Len(t) \in Nat /\ u \in Seq(Tokens) /\ Len(u) = Len(t) + 1
      /\ IsTag(StartTag) /\ IsTag(EndTag) /\ Len(StartTag) \in Nat
    BY Appended, TagsAre DEF IsTag
<1>2. /\ n \in Nat
      /\ n >= Len(StartTag) => TagEnds(u, StartTag, 0, Len(u))
      /\ n < Len(StartTag) => Rolling(u, StartTag, 0, n) /\ ~TagEnds(u, StartTag, 0, Len(u))
    BY <1>1, RollingStep DEF Idle
<1>. HIDE DEF n, u
<1>3. CASE n >= Len(StartTag)
    <2>1. \A j \in 0 .. Len(t) : ~TagEnds(u, StartTag, 0, j)
        BY <1>1, EndsSame DEF u, Idle, Never
    <2>2. \A j \in 1 .. Len(u) - 1 : j \in 0 .. Len(t)
        BY <1>1
    <2>3. Opens(c, u, Len(u))
        BY <1>2, <1>3, <2>1, <2>2 DEF Opens, Idle
    <2>4. Rolling(u, EndTag, Len(u), 0) /\ Never(u, EndTag, Len(u))
        BY <1>1, RollsFrom
    <2>5. Len(u) \in Nat /\ Len(u) + 0 = Len(u) /\ 0 <= c.budget
        BY <1>1, ConfigIs DEF Idle
    <2>6. Counting(c, u, 0, 0)
        BY <2>3, <2>4, <2>5 DEF Counting
    <2>. QED BY <1>3, <2>6 DEF n, u
<1>4. CASE n < Len(StartTag)
    <2>1. Never(u, StartTag, 0)
        <3>1. ~TagEnds(Append(t, x), StartTag, 0, Len(t) + 1) /\ Never(t, StartTag, 0)
            BY <1>1, <1>2, <1>4 DEF u, Idle
        <3>. QED BY <1>1, <3>1, NeverMore DEF u
    <2>2. Idle(c, u, n)
        BY <1>2, <1>4, <2>1 DEF Idle
    <2>. QED BY <1>1, <1>2, <1>4, <2>2 DEF n, u
<1>. QED BY <1>1, <1>2, <1>3, <1>4

\* A token charged to the budget.
LEMMA CountingMore ==
    ASSUME Plain(EndTag), NEW c \in Configs, NEW t \in Seq(Tokens),
           NEW x \in Tokens, NEW k \in Nat, NEW m \in Nat, Counting(c, t, k, m), k < c.budget
    PROVE  IF Matched(EndTag, m, x) >= Len(EndTag) THEN Done(c, Append(t, x), {})
           ELSE Counting(c, Append(t, x), k + 1, Matched(EndTag, m, x))
<1>. DEFINE n == Matched(EndTag, m, x)
            u == Append(t, x)
<1>1. /\ Len(t) \in Nat /\ u \in Seq(Tokens) /\ Len(u) = Len(t) + 1
      /\ IsTag(EndTag) /\ Len(EndTag) \in Nat
    BY Appended, TagsAre DEF IsTag
<1>2. PICK i \in Nat : /\ Opens(c, t, i) /\ i + k = Len(t) /\ k <= c.budget
                       /\ Never(t, EndTag, i) /\ Rolling(t, EndTag, i, m)
    BY DEF Counting
<1>3. /\ n \in Nat
      /\ n >= Len(EndTag) => TagEnds(u, EndTag, i, Len(u))
      /\ n < Len(EndTag) => Rolling(u, EndTag, i, n) /\ ~TagEnds(u, EndTag, i, Len(u))
    BY <1>1, <1>2, RollingStep
<1>4. c.budget \in Nat
    BY <1>2, ConfigIs DEF Opens
<1>5. Opens(c, u, i)
    BY <1>1, <1>2, OpensSame, OpensOnce
<1>. HIDE DEF n, u
<1>6. i + (k + 1) = Len(u) /\ k + 1 <= c.budget /\ Len(u) \in i .. i + c.budget
    BY <1>1, <1>2, <1>4
<1>7. CASE n >= Len(EndTag)
    <2>1. Closed(c, u, i)
        BY <1>3, <1>6, <1>7 DEF Closed
    <2>2. Done(c, u, {})
        BY <1>5, <2>1 DEF Done
    <2>. QED BY <1>7, <2>2 DEF n, u
<1>8. CASE n < Len(EndTag)
    <2>1. Never(u, EndTag, i)
        <3>1. ~TagEnds(Append(t, x), EndTag, i, Len(t) + 1)
            BY <1>1, <1>3, <1>8 DEF u
        <3>. QED BY <1>1, <1>2, <3>1, NeverMore DEF u
    <2>2. Counting(c, u, k + 1, n)
        BY <1>3, <1>5, <1>6, <1>8, <2>1 DEF Counting
    <2>. QED BY <1>1, <1>3, <1>8, <2>2 DEF n, u
<1>. QED BY <1>1, <1>3, <1>7, <1>8

\* The budget is spent, and not one forced token is out.
LEMMA CountingSpent ==
    ASSUME NEW c \in Configs, NEW t \in Seq(Tokens), NEW k \in Nat, NEW m,
           Counting(c, t, k, m), k >= c.budget
    PROVE  ForcingAt(c, t, {}, 0)
<1>1. PICK i \in Nat : /\ Opens(c, t, i) /\ i + k = Len(t) /\ k <= c.budget
                       /\ Never(t, EndTag, i)
    BY DEF Counting
<1>2. c.budget \in Nat /\ Len(t) \in Nat
    BY <1>1, ConfigIs, LenProperties DEF Opens
<1>3. i + c.budget + 0 = Len(t) /\ i + c.budget = Len(t)
    BY <1>1, <1>2
<1>4. ~Closed(c, t, i)
    BY <1>1, <1>3 DEF Closed, Never
<1>5. Written(c, t, {}, i, 0)
    BY <1>2, <1>3 DEF Written
<1>. QED BY <1>1, <1>3, <1>4, <1>5 DEF ForcingAt

\* A token is forced.
LEMMA ForcingMore ==
    ASSUME NEW c \in Configs, NEW t \in Seq(Tokens), NEW f,
           NEW m \in 0 .. Len(c.forced) - 1, ForcingAt(c, t, f, m), c.forced[m + 1] \in Tokens
    PROVE  LET u == Append(t, c.forced[m + 1])
               g == f \cup {Len(t) + 1}
           IN  IF m + 1 >= Len(c.forced) THEN Done(c, u, g)
               ELSE ForcingAt(c, u, g, m + 1) /\ Exact(c, u, g)
<1>. DEFINE x == c.forced[m + 1]
            u == Append(t, x)
            g == f \cup {Len(t) + 1}
<1>1. Len(t) \in Nat /\ u \in Seq(Tokens) /\ Len(u) = Len(t) + 1 /\ Len(c.forced) \in Nat \ {0}
    BY Appended, ConfigIs
<1>2. PICK i \in Nat : /\ Opens(c, t, i) /\ ~Closed(c, t, i)
                       /\ i + c.budget + m = Len(t) /\ Written(c, t, f, i, m)
    BY DEF ForcingAt
<1>3. c.enabled /\ c.budget \in Nat /\ m \in Nat /\ m + 1 \in 0 .. Len(c.forced)
    BY <1>1, <1>2, ConfigIs DEF Opens
<1>4. i \in 0 .. Len(t) /\ i + c.budget <= Len(t)
    <2>1. PICK a \in Nat : a = i + c.budget
        BY <1>3
    <2>2. a + m = Len(t)
        BY <1>2, <2>1
    <2>3. m \in Nat /\ Len(t) \in Nat /\ i <= a
        BY <1>1, <1>3, <2>1
    <2>4. a <= Len(t) /\ i <= Len(t)
        BY <2>2, <2>3
    <2>. QED BY <2>1, <2>4
<1>5. Opens(c, u, i) /\ ~Closed(c, u, i)
    BY <1>2, <1>3, <1>4, OpensSame, ClosedSame
<1>6. Written(c, u, g, i, m + 1)
    BY <1>2, <1>3, WrittenSame
<1>. HIDE DEF x, u, g
<1>7. i + c.budget + (m + 1) = Len(u)
    <2>1. PICK a \in Nat : a = i + c.budget
        BY <1>3
    <2>2. a + m = Len(t)
        BY <1>2, <2>1
    <2>3. m \in Nat /\ Len(t) \in Nat
        BY <1>1, <1>3
    <2>4. a + (m + 1) = Len(t) + 1
        BY <2>2, <2>3, RunMore
    <2>. QED BY <1>1, <2>1, <2>4
<1>8. CASE m + 1 >= Len(c.forced)
    <2>1. m + 1 = Len(c.forced)
        BY <1>1, <1>3, <1>8
    <2>2. Done(c, u, g)
        BY <1>5, <1>6, <2>1 DEF Done
    <2>. QED BY <1>8, <2>2 DEF x, u, g
<1>9. CASE ~(m + 1 >= Len(c.forced))
    <2>1. ForcingAt(c, u, g, m + 1)
        BY <1>5, <1>6, <1>7 DEF ForcingAt
    <2>2. Exact(c, u, g)
        BY <1>1, <1>3, <1>5, <1>6, <1>7, ExactRun
    <2>. QED BY <1>9, <2>1, <2>2 DEF x, u, g
<1>. QED BY <1>8, <1>9

\* A token after the block.
LEMMA DoneMore ==
    ASSUME NEW c \in Configs, NEW t \in Seq(Tokens), NEW f,
           NEW x \in Tokens, Done(c, t, f)
    PROVE  Done(c, Append(t, x), f)
<1>1. PICK i \in Nat : /\ Opens(c, t, i)
                       /\ IF Closed(c, t, i) THEN f = {} ELSE Written(c, t, f, i, Len(c.forced))
    BY DEF Done
<1>2. c.enabled /\ c.budget \in Nat /\ Len(c.forced) \in Nat /\ Len(t) \in Nat
    BY <1>1, ConfigIs, LenProperties DEF Opens
<1>3. Opens(c, Append(t, x), i)
    BY <1>1, OpensSame, OpensOnce
<1>4. CASE Closed(c, t, i)
    BY <1>1, <1>3, <1>4, ClosedStays DEF Done
<1>5. CASE ~Closed(c, t, i)
    <2>1. Written(c, t, f, i, Len(c.forced)) /\ i + c.budget <= Len(t)
        BY <1>1, <1>2, <1>5 DEF Written
    <2>2. ~Closed(c, Append(t, x), i) /\ Written(c, Append(t, x), f, i, Len(c.forced))
        BY <1>2, <1>5, <2>1, ClosedSame, WrittenSame
    <2>. QED BY <1>3, <2>2 DEF Done
<1>. QED BY <1>4, <1>5

\* The steps of the invariant of the budget.
LEMMA InitExactly ==
    ASSUME BudgetInit
    PROVE  Exactly
<1>1. /\ rb \in Configs /\ generated = <<>> /\ forced = {} /\ rb_state = "OFF"
    BY DEF BudgetInit
<1>2. <<>> \in Seq(Tokens) /\ Len(<<>>) = 0
    BY EmptySeq
<1>3. Exact(rb, <<>>, {})
    <2>1. \A i \in 0 .. Len(<<>>) : Opens(rb, <<>>, i) => Len(<<>>) <= i + rb.budget
        <3>. TAKE i \in 0 .. Len(<<>>)
        <3>. HAVE Opens(rb, <<>>, i)
        <3>1. rb.budget \in Nat /\ i = 0
            BY <1>1, <1>2, ConfigIs DEF Opens
        <3>. QED BY <1>2, <3>1
    <2>. QED BY <1>1, <1>2, <2>1, ExactNothing
<1>. QED BY <1>1, <1>3 DEF Exactly

LEMMA AdmitExactly ==
    ASSUME AdmitQueued
    PROVE  Exactly'
<1>1. /\ rb' \in Configs /\ generated' = <<>> /\ forced' = {}
      /\ rb_state' = (IF ~rb'.enabled THEN "OFF"
                      ELSE IF rb'.start_in_prompt THEN "COUNTING" ELSE "IDLE")
      /\ rb_count' = 0 /\ rb_forced_idx' = 0 /\ rb_start_match' = 0 /\ rb_end_match' = 0
    BY DEF AdmitQueued, Reset
<1>2. PICK c \in Configs : c = rb'
    BY <1>1
<1>3. <<>> \in Seq(Tokens) /\ 0 \in Nat
    BY EmptySeq
<1>4. CASE ~c.enabled
    <2>1. Exact(c, <<>>, {})
        BY <1>3, <1>4, OffExact
    <2>. QED BY <1>1, <1>2, <1>4, <2>1 DEF Exactly
<1>5. CASE c.enabled /\ c.start_in_prompt
    <2>1. Counting(c, <<>>, 0, 0)
        BY <1>5, StartExact
    <2>2. Exact(c, <<>>, {})
        BY <1>3, <2>1, CountingExact
    <2>. QED BY <1>1, <1>2, <1>5, <2>1, <2>2 DEF Exactly
<1>6. CASE c.enabled /\ ~c.start_in_prompt
    <2>1. Idle(c, <<>>, 0)
        BY <1>6, StartExact
    <2>2. Exact(c, <<>>, {})
        BY <1>3, <2>1, IdleExact
    <2>. QED BY <1>1, <1>2, <1>6, <2>1, <2>2 DEF Exactly
<1>. QED BY <1>4, <1>5, <1>6

LEMMA ScanExactly ==
    ASSUME Plain(StartTag),
           SlotInv, Exactly, NEW x \in Tokens, Scan(x)
    PROVE  Exactly'
<1>. DEFINE n == Matched(StartTag, rb_start_match, x)
<1>1. /\ rb_state = "IDLE" /\ SampledToken(x) /\ UNCHANGED <<rb, gram, in_use, forced>>
      /\ n >= Len(StartTag) => rb_state' = "COUNTING" /\ rb_count' = 0 /\ rb_end_match' = 0
      /\ ~(n >= Len(StartTag)) => rb_state' = "IDLE" /\ rb_start_match' = n
    BY DEF Scan, Reset, request
<1>2. /\ rb \in Configs /\ generated \in Seq(Tokens) /\ rb_start_match \in Nat /\ forced = {}
    BY <1>1 DEF SlotInv, SlotTypes, Steady
<1>3. generated' = Append(generated, x) /\ generated' \in Seq(Tokens)
    BY <1>1, SampledSlot
<1>4. IF n >= Len(StartTag) THEN Counting(rb, Append(generated, x), 0, 0)
      ELSE Idle(rb, Append(generated, x), n)
    BY <1>1, <1>2, IdleMore DEF Exactly
<1>. HIDE DEF n
<1>5. CASE n >= Len(StartTag)
    <2>1. Counting(rb, generated', 0, 0) /\ 0 \in Nat
        BY <1>3, <1>4, <1>5
    <2>2. Exact(rb, generated', {})
        BY <1>2, <1>3, <2>1, CountingExact
    <2>. QED BY <1>1, <1>2, <1>5, <2>1, <2>2 DEF Exactly
<1>6. CASE ~(n >= Len(StartTag))
    <2>1. Idle(rb, generated', n)
        BY <1>3, <1>4, <1>6
    <2>2. Exact(rb, generated', {})
        BY <1>2, <1>3, <2>1, IdleExact
    <2>. QED BY <1>1, <1>2, <1>6, <2>1, <2>2 DEF Exactly
<1>. QED BY <1>5, <1>6

LEMMA CountExactly ==
    ASSUME Plain(EndTag),
           SlotInv, Exactly, NEW x \in Tokens, Count(x)
    PROVE  Exactly'
<1>. DEFINE n == Matched(EndTag, rb_end_match, x)
<1>1. /\ rb_state = "COUNTING" /\ SampledToken(x) /\ UNCHANGED <<rb, gram, in_use, forced>>
      /\ rb_count' = rb_count + 1 /\ rb_end_match' = n
      /\ rb_state' = IF n >= Len(EndTag) THEN "DONE" ELSE "COUNTING"
    BY DEF Count, request
<1>2. /\ rb \in Configs /\ generated \in Seq(Tokens) /\ rb_count \in Nat /\ rb_end_match \in Nat
      /\ rb.enabled /\ forced = {}
    BY <1>1 DEF SlotInv, SlotTypes, Steady
<1>3. generated' = Append(generated, x) /\ generated' \in Seq(Tokens) /\ ~Forcing
    BY <1>1, SampledSlot
<1>4. rb_count < rb.budget
    <2>1. rb.budget \in Nat
        BY <1>2, ConfigIs
    <2>. QED BY <1>1, <1>2, <1>3, <2>1 DEF Forcing, Spent
<1>5. IF n >= Len(EndTag) THEN Done(rb, Append(generated, x), {})
      ELSE Counting(rb, Append(generated, x), rb_count + 1, n)
    BY <1>1, <1>2, <1>4, CountingMore DEF Exactly
<1>. HIDE DEF n
<1>6. CASE n >= Len(EndTag)
    <2>1. Done(rb, generated', {})
        BY <1>3, <1>5, <1>6
    <2>2. Exact(rb, generated', {})
        BY <1>2, <1>3, <2>1, DoneExact
    <2>. QED BY <1>1, <1>2, <1>6, <2>1, <2>2 DEF Exactly
<1>7. CASE ~(n >= Len(EndTag))
    <2>1. Counting(rb, generated', rb_count + 1, n) /\ rb_count + 1 \in Nat
        BY <1>2, <1>3, <1>5, <1>7
    <2>2. Exact(rb, generated', {})
        BY <1>2, <1>3, <2>1, CountingExact
    <2>. QED BY <1>1, <1>2, <1>7, <2>1, <2>2 DEF Exactly
<1>. QED BY <1>6, <1>7

LEMMA PassExactly ==
    ASSUME SlotInv, Exactly, NEW x \in Tokens, Pass(x)
    PROVE  Exactly'
<1>1. /\ rb_state \in {"OFF", "DONE"} /\ SampledToken(x) /\ UNCHANGED <<rb, gram, in_use, forced>>
      /\ UNCHANGED <<rb_state, rb_count, rb_forced_idx, rb_start_match, rb_end_match>>
    BY DEF Pass, request, matching
<1>2. rb \in Configs /\ generated \in Seq(Tokens)
    BY DEF SlotInv, SlotTypes
<1>3. generated' = Append(generated, x) /\ generated' \in Seq(Tokens) /\ in_use
    BY <1>1, SampledSlot
<1>4. CASE rb_state = "OFF"
    <2>1. ~rb.enabled /\ forced = {}
        BY <1>3, <1>4 DEF SlotInv, Steady, ForcedRun
    <2>2. Exact(rb, generated', {})
        BY <1>2, <1>3, <2>1, OffExact
    <2>. QED BY <1>1, <1>4, <2>1, <2>2 DEF Exactly
<1>5. CASE rb_state = "DONE"
    <2>1. Done(rb, Append(generated, x), forced)
        BY <1>2, <1>5, DoneMore DEF Exactly
    <2>2. Done(rb, generated', forced)
        BY <1>3, <2>1
    <2>3. Exact(rb, generated', forced)
        BY <1>2, <1>3, <2>2, DoneExact
    <2>. QED BY <1>1, <1>5, <2>2, <2>3 DEF Exactly
<1>. QED BY <1>1, <1>4, <1>5

LEMMA ForceExactly ==
    ASSUME SlotInv, Exactly, ForceToken
    PROVE  Exactly'
<1>. DEFINE m == ForcedIdx
            x == rb.forced[m + 1]
<1>1. /\ UNCHANGED <<rb, gram, smpl, in_use, rb_count, rb_start_match, rb_end_match>>
      /\ generated' = Append(generated, x) /\ forced' = forced \cup {Len(generated')}
      /\ rb_forced_idx' = m + 1
      /\ rb_state' = IF m + 1 >= Len(rb.forced) THEN "DONE" ELSE "FORCING"
    BY DEF ForceToken, Generated, request, matching
<1>2. m \in 0 .. Len(rb.forced) - 1
    BY ForcesFrom
<1>3. rb \in Configs /\ generated \in Seq(Tokens) /\ rb_count \in Nat
    BY DEF SlotInv, SlotTypes
<1>4. ForcingAt(rb, generated, forced, m)
    <2>1. CASE Spent
        <3>1. m = 0 /\ rb_state = "COUNTING" /\ rb_count >= rb.budget /\ forced = {}
            BY <2>1 DEF ForcedIdx, Spent, SlotInv, Steady
        <3>2. Counting(rb, generated, rb_count, rb_end_match)
            BY <3>1 DEF Exactly
        <3>3. ForcingAt(rb, generated, {}, 0)
            BY <1>3, <3>1, <3>2, CountingSpent
        <3>. QED BY <3>1, <3>3
    <2>2. CASE ~Spent
        <3>1. m = rb_forced_idx /\ rb_state = "FORCING"
            BY <2>2 DEF ForcedIdx, ForceToken, Forcing
        <3>. QED BY <3>1 DEF Exactly
    <2>. QED BY <2>1, <2>2
<1>. HIDE DEF m
<1>5. rb.forced[m + 1] \in Tokens
    BY <1>2, <1>3, ConfigIs, LenProperties
<1>. DEFINE u == Append(generated, x)
            g == forced \cup {Len(generated) + 1}
<1>6. IF m + 1 >= Len(rb.forced) THEN Done(rb, u, g)
      ELSE ForcingAt(rb, u, g, m + 1) /\ Exact(rb, u, g)
    BY <1>2, <1>3, <1>4, <1>5, ForcingMore
<1>. HIDE DEF x
<1>7. generated' = u /\ forced' = g /\ u \in Seq(Tokens)
    BY <1>1, <1>3, <1>5, Appended DEF x
<1>. HIDE DEF u, g
<1>8. CASE m + 1 >= Len(rb.forced)
    <2>1. Exact(rb, u, g)
        BY <1>3, <1>6, <1>7, <1>8, DoneExact
    <2>. QED BY <1>1, <1>6, <1>7, <1>8, <2>1 DEF Exactly
<1>9. CASE ~(m + 1 >= Len(rb.forced))
    BY <1>1, <1>6, <1>7, <1>9 DEF Exactly
<1>. QED BY <1>8, <1>9

LEMMA ExactlyStep ==
    ASSUME Plain(StartTag), Plain(EndTag),
           SlotInv, Exactly, [BudgetNext]_budget_vars
    PROVE  Exactly'
<1>1. CASE AdmitQueued
    BY <1>1, AdmitExactly
<1>2. CASE FinishSlot \/ SamplingFails
    BY <1>2 DEF FinishSlot, SamplingFails, Reset, request, Exactly
<1>3. CASE ForceToken
    BY <1>3, ForceExactly
<1>4. ASSUME NEW x \in Tokens, Scan(x) \/ Count(x) \/ Pass(x)
      PROVE  Exactly'
    BY <1>4, ScanExactly, CountExactly, PassExactly
<1>5. CASE UNCHANGED budget_vars
    BY <1>5 DEF budget_vars, request, matching, Exactly
<1>. QED BY <1>1, <1>2, <1>3, <1>4, <1>5 DEF BudgetNext

\* Nothing is forced but the whole sequence, right behind a budget spent in full, if the
\* rolling match misses none of the tags (sample_slot).
THEOREM BudgetSpent ==
    ASSUME Plain(StartTag), Plain(EndTag)
    PROVE  BudgetSpec => []BudgetExact
<1>1. BudgetInit => SlotInv /\ Exactly
    BY InitSlot, InitExactly
<1>2. SlotInv /\ Exactly /\ [BudgetNext]_budget_vars => (SlotInv /\ Exactly)'
    BY SlotStep, ExactlyStep
<1>3. SlotInv /\ Exactly => BudgetExact
    BY ExactIs DEF SlotInv, SlotTypes, Exactly
<1>. QED BY <1>1, <1>2, <1>3, PTL DEF BudgetSpec
=============================================================================
