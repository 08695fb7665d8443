-------------------------- MODULE SystemOne_proofs --------------------------
(***************************************************************************)
(* /v1/systemone, for every number of questions and options and every      *)
(* length.  A prompt reads every option where the model answers it         *)
(* (Reads), whatever the family; the route then takes the scores by        *)
(* running indices that stay in step with the questions (Inv).             *)
(***************************************************************************)
EXTENDS SystemOne, SequenceTheorems, WellFoundedInduction, TLAPS

-----------------------------------------------------------------------------
(* Numbers and sequences.                                                  *)

\* Induction up to n, over a set.
LEMMA Upto ==
    ASSUME NEW n \in Nat, NEW T, 0 \in T, \A k \in 0 .. n - 1 : k \in T => k + 1 \in T
    PROVE  0 .. n \subseteq T
<1>. DEFINE U == {k \in 0 .. n : k \notin T}
            R == {ss \in Nat \X Nat : ss[1] < ss[2]}
<1>. SUFFICES ASSUME U # {} PROVE FALSE
    OBVIOUS
<1>1. PICK k \in U : \A e \in U : ~(<<e, k>> \in R)
    <2>1. IsWellFoundedOn(R, Nat)
        BY NatLessThanWellFounded DEF OpToRel
    <2>2. U \subseteq Nat
        OBVIOUS
    <2>. HIDE DEF U, R
    <2>. QED BY <2>1, <2>2, WFMin
<1>2. k \in 1 .. n /\ k - 1 \in 0 .. n - 1 /\ (k - 1) + 1 = k
    <2>1. k \in 0 .. n /\ k # 0
        BY <1>1
    <2>. QED BY <2>1
<1>3. k - 1 \in T
    <2>1. k - 1 \notin U
        <3>1. <<k - 1, k>> \in R
            BY <1>2
        <3>. QED BY <1>1, <3>1
    <2>. QED BY <1>2, <2>1
<1>. QED BY <1>2, <1>3

\* The first n places of a sequence.
LEMMA FirstOf ==
    ASSUME NEW S, NEW q \in Seq(S), NEW n \in 0 .. Len(q)
    PROVE  /\ SubSeq(q, 1, n) \in Seq(S) /\ Len(SubSeq(q, 1, n)) = n
           /\ \A i \in 1 .. n : SubSeq(q, 1, n)[i] = q[i]
<1>1. Len(q) \in Nat /\ \A i \in 1 .. n : q[i] \in S
    BY LenProperties
<1>. QED BY <1>1, SubSeqProperties

\* A sequence given place by place.
LEMMA Listed ==
    ASSUME NEW S, NEW n \in Nat, NEW f \in [1 .. n -> S]
    PROVE  f \in Seq(S) /\ Len(f) = n /\ DOMAIN f = 1 .. n
OBVIOUS

\* The sum of the first k numbers.
SumTo(lens, k) == Total(SubSeq(lens, 1, k))

\* What Total says of place i, given what it says of the place before.
Adding(lens, f, i) == IF i = 0 THEN 0 ELSE f[i - 1] + lens[i]
Adds(lens, f) == \A i \in 0 .. Len(lens) : f[i] = Adding(lens, f, i)

LEMMA TotalIs ==
    ASSUME NEW lens \in Seq(Nat)
    PROVE  \E f : Total(lens) = f[Len(lens)] /\ Adds(lens, f)
<1>. DEFINE N == 0 .. Len(lens)
            T == {n \in N : \E g : /\ g = [i \in N |-> g[i]]
                                   /\ \A i \in 0 .. n : g[i] = Adding(lens, g, i)}
            F == CHOOSE f : f = [i \in N |-> Adding(lens, f, i)]
<1>0. Len(lens) \in Nat
    BY LenProperties
<1>1. 0 \in T
    <2>. DEFINE g == [i \in N |-> 0]
    <2>1. g = [i \in N |-> g[i]] /\ \A i \in 0 .. 0 : g[i] = Adding(lens, g, i)
        BY <1>0 DEF Adding
    <2>. HIDE DEF g
    <2>. QED BY <1>0, <2>1
<1>2. ASSUME NEW n \in 0 .. Len(lens) - 1, n \in T
      PROVE  n + 1 \in T
    <2>1. PICK g : g = [i \in N |-> g[i]] /\ \A i \in 0 .. n : g[i] = Adding(lens, g, i)
        BY <1>2
    <2>. DEFINE h == [i \in N |-> IF i = n + 1 THEN Adding(lens, g, n + 1) ELSE g[i]]
    <2>2. \A i \in N : h[i] = IF i = n + 1 THEN Adding(lens, g, n + 1) ELSE g[i]
        OBVIOUS
    <2>3. h = [i \in N |-> h[i]]
        OBVIOUS
    <2>. HIDE DEF h
    <2>4. \A i \in 0 .. n + 1 : h[i] = Adding(lens, h, i)
        <3>. TAKE i \in 0 .. n + 1
        <3>1. i \in N /\ n + 1 \in N /\ (i # 0 => i - 1 \in N /\ i - 1 # n + 1)
            BY <1>0
        <3>2. i # 0 => h[i - 1] = g[i - 1]
            BY <2>2, <3>1
        <3>3. Adding(lens, h, i) = Adding(lens, g, i)
            BY <3>2 DEF Adding
        <3>4. CASE i = n + 1
            BY <2>2, <3>1, <3>3, <3>4
        <3>5. CASE i # n + 1
            <4>1. i \in 0 .. n
                BY <3>5
            <4>2. g[i] = Adding(lens, g, i) /\ h[i] = g[i]
                BY <2>1, <2>2, <3>1, <3>5, <4>1
            <4>. QED BY <3>3, <4>2
        <3>. QED BY <3>4, <3>5
    <2>5. n + 1 \in N
        BY <1>0
    <2>. QED BY <2>3, <2>4, <2>5
<1>3. Len(lens) \in T
    <2>. HIDE DEF T
    <2>1. 0 .. Len(lens) \subseteq T
        BY <1>0, <1>1, <1>2, Upto
    <2>. QED BY <1>0, <2>1
<1>4. PICK g : g = [i \in N |-> g[i]] /\ \A i \in N : g[i] = Adding(lens, g, i)
    BY <1>3
<1>5. g = [i \in N |-> Adding(lens, g, i)]
    BY <1>4
<1>6. F = [i \in N |-> Adding(lens, F, i)]
    BY <1>5, Zenon
<1>7. Total(lens) = F[Len(lens)]
    BY <1>0 DEF Total, Adding
<1>8. \A i \in N : F[i] = Adding(lens, F, i)
    BY <1>6, Zenon
<1>. HIDE DEF F
<1>. QED BY <1>7, <1>8 DEF Adds

\* The sums up to n depend on the numbers up to n only.
LEMMA AddsOnce ==
    ASSUME NEW q \in Seq(Nat), NEW r \in Seq(Nat), NEW f, NEW g, NEW n \in Nat,
           n <= Len(q), n <= Len(r), \A i \in 1 .. n : q[i] = r[i], Adds(q, f), Adds(r, g)
    PROVE  \A i \in 0 .. n : f[i] = g[i] /\ f[i] \in Nat
<1>. DEFINE T == {i \in 0 .. n : f[i] = g[i] /\ f[i] \in Nat}
<1>0. Len(q) \in Nat /\ Len(r) \in Nat /\ \A i \in 1 .. Len(q) : q[i] \in Nat
    BY LenProperties
<1>1. 0 \in T
    <2>1. f[0] = Adding(q, f, 0) /\ g[0] = Adding(r, g, 0)
        BY <1>0 DEF Adds
    <2>. QED BY <2>1 DEF Adding
<1>2. ASSUME NEW i \in 0 .. n - 1, i \in T
      PROVE  i + 1 \in T
    <2>1. i + 1 \in 0 .. Len(q) /\ i + 1 \in 0 .. Len(r) /\ i + 1 \in 1 .. n /\ (i + 1) - 1 = i
          /\ i + 1 \in 1 .. Len(q) /\ i + 1 # 0
        BY <1>0
    <2>2. q[i + 1] = r[i + 1] /\ q[i + 1] \in Nat
        BY <1>0, <2>1
    <2>3. f[i + 1] = f[i] + q[i + 1]
        BY <2>1 DEF Adds, Adding
    <2>4. g[i + 1] = g[i] + r[i + 1]
        BY <2>1 DEF Adds, Adding
    <2>5. f[i] = g[i] /\ f[i] \in Nat
        BY <1>2
    <2>6. f[i + 1] = g[i + 1] /\ f[i + 1] \in Nat
        <3>. DEFINE x == f[i]
                    y == q[i + 1]
        <3>1. x \in Nat /\ y \in Nat /\ f[i + 1] = x + y /\ g[i + 1] = x + y
            BY <2>2, <2>3, <2>4, <2>5
        <3>. HIDE DEF x, y
        <3>. QED BY <3>1
    <2>7. i + 1 \in 0 .. n
        BY <2>1
    <2>. QED BY <2>6, <2>7
<1>3. 0 .. n \subseteq T
    <2>. HIDE DEF T
    <2>. QED BY <1>1, <1>2, Upto
<1>. QED BY <1>3

LEMMA Sums ==
    ASSUME NEW lens \in Seq(Nat)
    PROVE  /\ Len(lens) \in Nat /\ SumTo(lens, 0) = 0 /\ Total(lens) = SumTo(lens, Len(lens))
           /\ \A k \in 0 .. Len(lens) : SumTo(lens, k) \in Nat
           /\ \A k \in 1 .. Len(lens) : SumTo(lens, k) = SumTo(lens, k - 1) + lens[k]
<1>0. Len(lens) \in Nat
    BY LenProperties
<1>1. PICK f : Total(lens) = f[Len(lens)] /\ Adds(lens, f)
    BY TotalIs
<1>2. ASSUME NEW k \in 0 .. Len(lens)
      PROVE  SumTo(lens, k) = f[k] /\ f[k] \in Nat
    <2>. DEFINE q == SubSeq(lens, 1, k)
    <2>1. q \in Seq(Nat) /\ Len(q) = k /\ \A i \in 1 .. k : q[i] = lens[i]
        BY FirstOf
    <2>. HIDE DEF q
    <2>2. PICK g : Total(q) = g[k] /\ Adds(q, g)
        <3>1. \E g : Total(q) = g[Len(q)] /\ Adds(q, g)
            BY <2>1, TotalIs, Zenon
        <3>. QED BY <2>1, <3>1
    <2>3. k \in Nat /\ k <= Len(q) /\ k <= Len(lens)
        BY <1>0, <2>1
    <2>4. \A i \in 0 .. k : g[i] = f[i] /\ g[i] \in Nat
        <3>1. q \in Seq(Nat) /\ lens \in Seq(Nat)
            BY <2>1
        <3>2. \A i \in 1 .. k : q[i] = lens[i]
            BY <2>1
        <3>3. Adds(q, g) /\ Adds(lens, f)
            BY <1>1, <2>2
        <3>. QED BY <2>3, <3>1, <3>2, <3>3, AddsOnce, Zenon
    <2>5. k \in 0 .. k
        BY <2>3
    <2>. QED BY <2>2, <2>4, <2>5 DEF SumTo, q
<1>3. ASSUME NEW k \in 1 .. Len(lens)
      PROVE  SumTo(lens, k) = SumTo(lens, k - 1) + lens[k]
    <2>1. k \in 0 .. Len(lens) /\ k - 1 \in 0 .. Len(lens) /\ k # 0
        BY <1>0
    <2>2. f[k] = f[k - 1] + lens[k]
        BY <1>1, <2>1 DEF Adds, Adding
    <2>. QED BY <1>2, <2>1, <2>2
<1>4. SumTo(lens, 0) = 0
    <2>1. 0 \in 0 .. Len(lens) /\ f[0] = Adding(lens, f, 0)
        BY <1>0, <1>1 DEF Adds
    <2>. QED BY <1>2, <2>1 DEF Adding
<1>5. Total(lens) = SumTo(lens, Len(lens))
    BY SubSeqFull DEF SumTo
<1>. QED BY <1>0, <1>2, <1>3, <1>4, <1>5

\* A total of the first numbers, however they are written.
LEMMA SumOf ==
    ASSUME NEW lens \in Seq(Nat), NEW r \in Seq(Nat), Len(r) <= Len(lens),
           \A i \in 1 .. Len(r) : r[i] = lens[i]
    PROVE  Total(r) = SumTo(lens, Len(r))
<1>1. Len(r) \in 0 .. Len(lens)
    BY LenProperties
<1>2. /\ SubSeq(lens, 1, Len(r)) \in Seq(Nat) /\ Len(SubSeq(lens, 1, Len(r))) = Len(r)
      /\ \A i \in 1 .. Len(r) : SubSeq(lens, 1, Len(r))[i] = lens[i]
    BY <1>1, FirstOf
<1>3. SubSeq(lens, 1, Len(r)) = r
    BY <1>2, SeqEqual
<1>. QED BY <1>3 DEF SumTo

LEMMA SumsGrow ==
    ASSUME NEW lens \in Seq(Nat), NEW i \in 0 .. Len(lens), NEW k \in i .. Len(lens)
    PROVE  SumTo(lens, i) <= SumTo(lens, k)
<1>. DEFINE T == {n \in 0 .. Len(lens) : n >= i => SumTo(lens, i) <= SumTo(lens, n)}
<1>0. /\ Len(lens) \in Nat /\ \A n \in 1 .. Len(lens) : lens[n] \in Nat
      /\ \A n \in 0 .. Len(lens) : SumTo(lens, n) \in Nat
      /\ \A n \in 1 .. Len(lens) : SumTo(lens, n) = SumTo(lens, n - 1) + lens[n]
    BY Sums, LenProperties
<1>1. 0 \in T
    BY <1>0
<1>2. ASSUME NEW n \in 0 .. Len(lens) - 1, n \in T
      PROVE  n + 1 \in T
    <2>1. n + 1 \in 1 .. Len(lens) /\ n + 1 \in 0 .. Len(lens) /\ n \in 0 .. Len(lens)
          /\ (n + 1) - 1 = n
        BY <1>0
    <2>2. SumTo(lens, n + 1) = SumTo(lens, n) + lens[n + 1] /\ lens[n + 1] \in Nat
        BY <1>0, <2>1
    <2>3. SumTo(lens, n) \in Nat /\ SumTo(lens, i) \in Nat /\ SumTo(lens, n + 1) \in Nat
        BY <1>0, <2>1
    <2>. QED BY <1>2, <2>1, <2>2, <2>3
<1>3. k \in T
    <2>. HIDE DEF T
    <2>1. 0 .. Len(lens) \subseteq T
        BY <1>0, <1>1, <1>2, Upto
    <2>2. k \in 0 .. Len(lens)
        <3>. DEFINE l == Len(lens)
        <3>1. l \in Nat /\ i \in 0 .. l /\ k \in i .. l
            BY <1>0
        <3>. HIDE DEF l
        <3>2. k \in 0 .. l
            BY <3>1
        <3>. QED BY <3>2 DEF l
    <2>. QED BY <2>1, <2>2
<1>. QED BY <1>0, <1>3

-----------------------------------------------------------------------------
(* Pieces put together.                                                    *)

\* What FlattenSeq says of place i, given what it says of the place before.
Flat(q, f, i) == IF i = 1 THEN q[i] ELSE f[i - 1] \o q[i]

Flattens(q, f) == \A i \in 1 .. Len(q) : f[i] = Flat(q, f, i)

LEMMA FlattenIs ==
    ASSUME NEW S, NEW q \in Seq(Seq(S)), q # <<>>
    PROVE  \E f : FlattenSeq(q) = f[Len(q)] /\ Flattens(q, f)
<1>. DEFINE N == 1 .. Len(q)
            T == {n \in 0 .. Len(q) : \E g : /\ g = [i \in N |-> g[i]]
                                             /\ \A i \in 1 .. n : g[i] = Flat(q, g, i)}
            F == CHOOSE f : f = [i \in N |-> Flat(q, f, i)]
<1>0. Len(q) \in Nat \ {0}
    BY EmptySeq
<1>1. 0 \in T
    <2>. DEFINE g == [i \in N |-> q]
    <2>1. g = [i \in N |-> g[i]] /\ \A i \in 1 .. 0 : g[i] = Flat(q, g, i)
        BY <1>0
    <2>. HIDE DEF g
    <2>. QED BY <1>0, <2>1
<1>2. ASSUME NEW n \in 0 .. Len(q) - 1, n \in T
      PROVE  n + 1 \in T
    <2>1. PICK g : g = [i \in N |-> g[i]] /\ \A i \in 1 .. n : g[i] = Flat(q, g, i)
        BY <1>2
    <2>. DEFINE h == [i \in N |-> IF i = n + 1 THEN Flat(q, g, n + 1) ELSE g[i]]
    <2>2. \A i \in N : h[i] = IF i = n + 1 THEN Flat(q, g, n + 1) ELSE g[i]
        OBVIOUS
    <2>3. h = [i \in N |-> h[i]]
        OBVIOUS
    <2>. HIDE DEF h
    <2>4. \A i \in 1 .. n + 1 : h[i] = Flat(q, h, i)
        <3>. TAKE i \in 1 .. n + 1
        <3>1. i \in N /\ n + 1 \in N /\ (i # 1 => i - 1 \in N /\ i - 1 # n + 1)
            BY <1>0
        <3>2. i # 1 => h[i - 1] = g[i - 1]
            BY <2>2, <3>1
        <3>3. Flat(q, h, i) = Flat(q, g, i)
            BY <3>2 DEF Flat
        <3>4. CASE i = n + 1
            BY <2>2, <3>1, <3>3, <3>4
        <3>5. CASE i # n + 1
            <4>1. i \in 1 .. n
                BY <3>5
            <4>2. g[i] = Flat(q, g, i) /\ h[i] = g[i]
                BY <2>1, <2>2, <3>1, <3>5, <4>1
            <4>. QED BY <3>3, <4>2
        <3>. QED BY <3>4, <3>5
    <2>5. n + 1 \in 0 .. Len(q)
        BY <1>0
    <2>. QED BY <2>3, <2>4, <2>5
<1>3. Len(q) \in T
    <2>. HIDE DEF T
    <2>1. 0 .. Len(q) \subseteq T
        BY <1>0, <1>1, <1>2, Upto
    <2>. QED BY <1>0, <2>1
<1>4. PICK g : g = [i \in N |-> g[i]] /\ \A i \in N : g[i] = Flat(q, g, i)
    BY <1>3
<1>5. g = [i \in N |-> Flat(q, g, i)]
    BY <1>4
<1>6. F = [i \in N |-> Flat(q, F, i)]
    BY <1>5, Zenon
<1>7. FlattenSeq(q) = F[Len(q)]
    BY <1>0 DEF FlattenSeq, Flat
<1>8. \A i \in N : F[i] = Flat(q, F, i)
    BY <1>6, Zenon
<1>. HIDE DEF F
<1>. QED BY <1>7, <1>8 DEF Flattens

\* The places of two sequences, one after the other.
LEMMA ConcatAt ==
    ASSUME NEW S, NEW b \in Seq(S), NEW p \in Seq(S)
    PROVE  /\ b \o p \in Seq(S) /\ Len(b \o p) = Len(b) + Len(p)
           /\ \A y \in 1 .. Len(b) : (b \o p)[y] = b[y]
           /\ \A y \in 1 .. Len(p) : (b \o p)[Len(b) + y] = p[y]
<1>1. Len(b) \in Nat /\ Len(p) \in Nat
    BY LenProperties
<1>2. \A y \in 1 .. Len(b) + Len(p) : (b \o p)[y] = IF y <= Len(b) THEN b[y] ELSE p[y - Len(b)]
    BY ConcatProperties
<1>3. \A y \in 1 .. Len(b) : (b \o p)[y] = b[y]
    BY <1>1, <1>2
<1>4. \A y \in 1 .. Len(p) : (b \o p)[Len(b) + y] = p[y]
    <2>. TAKE y \in 1 .. Len(p)
    <2>1. /\ Len(b) + y \in 1 .. Len(b) + Len(p) /\ ~(Len(b) + y <= Len(b))
          /\ (Len(b) + y) - Len(b) = y
        BY <1>1
    <2>. QED BY <1>2, <2>1
<1>. QED BY <1>3, <1>4, ConcatProperties

\* Where the places of piece k are.
Placing(ss, lens, r, n) ==
  \A k \in 1 .. n : \A x \in 1 .. lens[k] : r[SumTo(lens, k - 1) + x] = ss[k][x]

LEMMA FlattenAt ==
    ASSUME NEW S, NEW ss \in Seq(Seq(S)), NEW lens \in Seq(Nat), Len(lens) = Len(ss),
           \A k \in 1 .. Len(ss) : Len(ss[k]) = lens[k]
    PROVE  /\ FlattenSeq(ss) \in Seq(S) /\ Len(FlattenSeq(ss)) = Total(lens)
           /\ Placing(ss, lens, FlattenSeq(ss), Len(ss))
<1>0. /\ Len(ss) \in Nat /\ \A k \in 1 .. Len(ss) : ss[k] \in Seq(S) /\ lens[k] \in Nat
      /\ SumTo(lens, 0) = 0 /\ Total(lens) = SumTo(lens, Len(ss))
      /\ \A k \in 0 .. Len(ss) : SumTo(lens, k) \in Nat
      /\ \A k \in 1 .. Len(ss) : SumTo(lens, k) = SumTo(lens, k - 1) + lens[k]
    BY LenProperties, Sums
<1>1. CASE ss = <<>>
    <2>1. Len(ss) = 0 /\ FlattenSeq(ss) = <<>>
        BY <1>1 DEF FlattenSeq
    <2>. QED BY <1>0, <2>1, EmptySeq DEF Placing
<1>2. CASE ss # <<>>
    <2>1. PICK f : FlattenSeq(ss) = f[Len(ss)] /\ Flattens(ss, f)
        BY <1>2, FlattenIs
    <2>. DEFINE Good(n) == /\ f[n] \in Seq(S) /\ Len(f[n]) = SumTo(lens, n)
                           /\ Placing(ss, lens, f[n], n)
                T == {n \in 0 .. Len(ss) : n >= 1 => Good(n)}
    <2>2. 0 \in T
        BY <1>0
    <2>3. ASSUME NEW n \in 0 .. Len(ss) - 1, n \in T
          PROVE  n + 1 \in T
        <3>1. /\ n + 1 \in 1 .. Len(ss) /\ (n + 1) - 1 = n /\ n \in Nat /\ n \in 0 .. Len(ss)
              /\ n + 1 \in 0 .. Len(ss)
            BY <1>0
        <3>2. f[n + 1] = IF n + 1 = 1 THEN ss[n + 1] ELSE f[n] \o ss[n + 1]
            BY <2>1, <3>1 DEF Flattens, Flat
        <3>3. /\ ss[n + 1] \in Seq(S) /\ Len(ss[n + 1]) = lens[n + 1] /\ lens[n + 1] \in Nat
              /\ SumTo(lens, n + 1) = SumTo(lens, n) + lens[n + 1] /\ SumTo(lens, n) \in Nat
              /\ \A x \in 1 .. Len(ss[n + 1]) : ss[n + 1][x] \in S
            <4>1. /\ ss[n + 1] \in Seq(S) /\ Len(ss[n + 1]) = lens[n + 1]
                  /\ \A x \in 1 .. Len(ss[n + 1]) : ss[n + 1][x] \in S
                <5>. DEFINE p == ss[n + 1]
                <5>1. p \in Seq(S) /\ Len(p) = lens[n + 1]
                    BY <1>0, <3>1
                <5>. HIDE DEF p
                <5>2. \A x \in 1 .. Len(p) : p[x] \in S
                    BY <5>1, LenProperties
                <5>. QED BY <5>1, <5>2 DEF p
            <4>2. lens[n + 1] \in Nat /\ SumTo(lens, n) \in Nat
                BY <1>0, <3>1
            <4>3. SumTo(lens, n + 1) = SumTo(lens, (n + 1) - 1) + lens[n + 1]
                BY <1>0, <3>1
            <4>4. (n + 1) - 1 = n
                BY <3>1
            <4>. QED BY <4>1, <4>2, <4>3, <4>4
        <3>4. CASE n = 0
            <4>1. f[n + 1] = ss[n + 1] /\ SumTo(lens, n) = 0
                BY <1>0, <3>2, <3>4
            <4>2. Placing(ss, lens, f[n + 1], n + 1)
                <5>1. ASSUME NEW k \in 1 .. n + 1, NEW x \in 1 .. lens[k]
                      PROVE  f[n + 1][SumTo(lens, k - 1) + x] = ss[k][x]
                    <6>1. k = n + 1 /\ k - 1 = n
                        BY <3>4
                    <6>2. SumTo(lens, k - 1) + x = x
                        BY <3>3, <4>1, <6>1
                    <6>. QED BY <4>1, <6>1, <6>2
                <5>. QED BY <5>1 DEF Placing
            <4>. QED BY <3>1, <3>3, <4>1, <4>2
        <3>5. CASE n # 0
            <4>. DEFINE b == f[n]
                        p == ss[n + 1]
            <4>1. b \in Seq(S) /\ Len(b) = SumTo(lens, n) /\ Placing(ss, lens, b, n)
                BY <2>3, <3>1, <3>5
            <4>2. f[n + 1] = b \o p
                <5>1. n + 1 # 1
                    BY <3>1, <3>5
                <5>. HIDE DEF Good, T
                <5>. QED BY <3>2, <5>1, Zenon
            <4>3. p \in Seq(S) /\ Len(p) = lens[n + 1]
                BY <3>3
            <4>. HIDE DEF b, p
            <4>4. /\ b \o p \in Seq(S) /\ Len(b \o p) = Len(b) + Len(p)
                  /\ \A y \in 1 .. Len(b) : (b \o p)[y] = b[y]
                  /\ \A y \in 1 .. Len(p) : (b \o p)[Len(b) + y] = p[y]
                <5>1. b \in Seq(S) /\ p \in Seq(S)
                    BY <4>1, <4>3
                <5>. HIDE DEF T, Good
                <5>. QED BY <5>1, ConcatAt
            <4>5. Placing(ss, lens, b \o p, n + 1)
                <5>1. ASSUME NEW k \in 1 .. n + 1, NEW x \in 1 .. lens[k]
                      PROVE  (b \o p)[SumTo(lens, k - 1) + x] = ss[k][x]
                    <6>1. CASE k = n + 1
                        <7>1. k - 1 = n /\ x \in 1 .. Len(p)
                            BY <3>1, <4>3, <6>1
                        <7>. QED BY <4>1, <4>4, <6>1, <7>1 DEF p
                    <6>2. CASE k # n + 1
                        <7>1. k \in 1 .. n /\ k \in 1 .. Len(ss) /\ k - 1 \in 0 .. Len(ss)
                              /\ k \in 0 .. Len(ss) /\ k \in 0 .. Len(lens) /\ n \in k .. Len(lens)
                            <8>. DEFINE l == Len(ss)
                            <8>1. Len(lens) = l /\ l \in Nat /\ n \in Nat /\ n + 1 <= l
                                BY <1>0, <3>1
                            <8>2. k \in 1 .. n + 1 /\ k # n + 1
                                BY <6>2
                            <8>. HIDE DEF l
                            <8>3. k \in 1 .. n
                                BY <8>1, <8>2
                            <8>4. /\ k \in 1 .. l /\ k - 1 \in 0 .. l /\ k \in 0 .. l
                                  /\ n \in k .. l
                                BY <8>1, <8>3
                            <8>. QED BY <8>1, <8>3, <8>4 DEF l
                        <7>2. SumTo(lens, k) <= SumTo(lens, n)
                            BY <7>1, SumsGrow
                        <7>3. SumTo(lens, k) = SumTo(lens, k - 1) + lens[k]
                            BY <1>0, <7>1
                        <7>4. SumTo(lens, k - 1) + x \in 1 .. Len(b)
                            <8>1. /\ SumTo(lens, k - 1) \in Nat /\ lens[k] \in Nat
                                  /\ SumTo(lens, n) \in Nat /\ SumTo(lens, k) \in Nat
                                BY <1>0, <3>1, <7>1
                            <8>. DEFINE y == SumTo(lens, k - 1)
                                        z == lens[k]
                            <8>2. /\ y \in Nat /\ z \in Nat /\ Len(b) \in Nat /\ y + z <= Len(b)
                                  /\ x \in 1 .. z
                                BY <4>1, <7>2, <7>3, <8>1
                            <8>. HIDE DEF y, z
                            <8>3. y + x \in 1 .. Len(b)
                                BY <8>2
                            <8>. QED BY <8>3 DEF y
                        <7>5. b[SumTo(lens, k - 1) + x] = ss[k][x]
                            BY <4>1, <7>1 DEF Placing
                        <7>. QED BY <4>4, <7>4, <7>5
                    <6>. QED BY <6>1, <6>2
                <5>. QED BY <5>1 DEF Placing
            <4>6. Good(n + 1)
                BY <3>3, <4>1, <4>2, <4>3, <4>4, <4>5
            <4>. QED BY <3>1, <4>6
        <3>. QED BY <3>4, <3>5
    <2>4. Len(ss) \in T
        <3>. HIDE DEF T
        <3>1. 0 .. Len(ss) \subseteq T
            BY <1>0, <2>2, <2>3, Upto
        <3>. QED BY <1>0, <3>1
    <2>5. Len(ss) >= 1
        BY <1>0, <1>2, EmptySeq
    <2>. QED BY <1>0, <2>1, <2>4, <2>5
<1>. QED BY <1>1, <1>2

\* The sums of two lists, one after the other.
LEMMA SumsConcat ==
    ASSUME NEW a \in Seq(Nat), NEW b \in Seq(Nat)
    PROVE  /\ a \o b \in Seq(Nat) /\ Len(a \o b) = Len(a) + Len(b)
           /\ \A k \in 0 .. Len(a) : SumTo(a \o b, k) = SumTo(a, k)
           /\ \A k \in 0 .. Len(b) : SumTo(a \o b, Len(a) + k) = Total(a) + SumTo(b, k)
<1>. DEFINE c == a \o b
<1>0. Len(a) \in Nat /\ Len(b) \in Nat
    BY LenProperties
<1>1. /\ c \in Seq(Nat) /\ Len(c) = Len(a) + Len(b)
      /\ \A i \in 1 .. Len(a) + Len(b) : c[i] = IF i <= Len(a) THEN a[i] ELSE b[i - Len(a)]
    BY ConcatProperties
<1>. HIDE DEF c
<1>2. ASSUME NEW k \in 0 .. Len(a)
      PROVE  SumTo(c, k) = SumTo(a, k)
    <2>1. k \in 0 .. Len(c) /\ k <= Len(c)
        BY <1>0, <1>1
    <2>2. SubSeq(a, 1, k) \in Seq(Nat) /\ Len(SubSeq(a, 1, k)) = k
          /\ \A i \in 1 .. k : SubSeq(a, 1, k)[i] = a[i]
        BY FirstOf
    <2>3. ASSUME NEW i \in 1 .. k
          PROVE  a[i] = c[i]
        <3>1. i \in 1 .. Len(a) + Len(b) /\ i <= Len(a)
            <4>. DEFINE m == Len(a)
                        n == Len(b)
            <4>1. m \in Nat /\ n \in Nat /\ k \in 0 .. m
                BY <1>0
            <4>. HIDE DEF m, n
            <4>2. i \in 1 .. m + n /\ i <= m
                BY <4>1
            <4>. QED BY <4>2 DEF m, n
        <3>2. c[i] = IF i <= Len(a) THEN a[i] ELSE b[i - Len(a)]
            BY <1>1, <3>1
        <3>. QED BY <3>1, <3>2
    <2>. DEFINE r == SubSeq(a, 1, k)
    <2>4. r \in Seq(Nat) /\ Len(r) <= Len(c) /\ \A i \in 1 .. Len(r) : r[i] = c[i]
        BY <2>1, <2>2, <2>3
    <2>5. Len(r) = k /\ Total(r) = SumTo(a, k)
        BY <2>2 DEF SumTo
    <2>. HIDE DEF r
    <2>6. Total(r) = SumTo(c, Len(r))
        BY <1>1, <2>4, SumOf
    <2>. QED BY <2>5, <2>6
<1>3. /\ \A k \in 0 .. Len(b) : SumTo(b, k) \in Nat
      /\ \A k \in 1 .. Len(b) : SumTo(b, k) = SumTo(b, k - 1) + b[k]
      /\ \A k \in 1 .. Len(c) : SumTo(c, k) = SumTo(c, k - 1) + c[k]
      /\ \A k \in 0 .. Len(c) : SumTo(c, k) \in Nat
      /\ SumTo(b, 0) = 0 /\ Total(a) = SumTo(a, Len(a))
      /\ SumTo(a, Len(a)) \in Nat
    <2>1. /\ \A k \in 0 .. Len(b) : SumTo(b, k) \in Nat
          /\ \A k \in 1 .. Len(b) : SumTo(b, k) = SumTo(b, k - 1) + b[k] /\ SumTo(b, 0) = 0
        BY Sums
    <2>2. /\ \A k \in 0 .. Len(a) : SumTo(a, k) \in Nat
          /\ Total(a) = SumTo(a, Len(a))
        BY Sums
    <2>3. /\ \A k \in 1 .. Len(c) : SumTo(c, k) = SumTo(c, k - 1) + c[k]
          /\ \A k \in 0 .. Len(c) : SumTo(c, k) \in Nat
        BY <1>1, Sums
    <2>4. Len(a) \in 0 .. Len(a)
        BY <1>0
    <2>5. SumTo(b, 0) = 0
        BY Sums
    <2>. QED BY <2>1, <2>2, <2>3, <2>4, <2>5
<1>. DEFINE T == {k \in 0 .. Len(b) : SumTo(c, Len(a) + k) = Total(a) + SumTo(b, k)}
<1>4. 0 \in T
    <2>1. Len(a) \in 0 .. Len(a) /\ Len(a) + 0 = Len(a)
        BY <1>0
    <2>2. SumTo(c, Len(a)) = SumTo(a, Len(a))
        BY <1>2, <2>1
    <2>. QED BY <1>0, <1>3, <2>1, <2>2
<1>5. ASSUME NEW k \in 0 .. Len(b) - 1, k \in T
      PROVE  k + 1 \in T
    <2>1. /\ k + 1 \in 1 .. Len(b) /\ (k + 1) - 1 = k /\ k \in 0 .. Len(b) /\ k + 1 \in 0 .. Len(b)
          /\ Len(a) + (k + 1) \in 1 .. Len(c) /\ (Len(a) + (k + 1)) - 1 = Len(a) + k
          /\ Len(a) + (k + 1) \in 1 .. Len(a) + Len(b)
          /\ ~(Len(a) + (k + 1) <= Len(a)) /\ (Len(a) + (k + 1)) - Len(a) = k + 1
        BY <1>0, <1>1
    <2>2. c[Len(a) + (k + 1)] = b[k + 1] /\ b[k + 1] \in Nat
        BY <1>1, <2>1, LenProperties
    <2>3. SumTo(c, Len(a) + (k + 1)) = SumTo(c, Len(a) + k) + b[k + 1]
        BY <1>3, <2>1, <2>2
    <2>4. SumTo(b, k + 1) = SumTo(b, k) + b[k + 1] /\ SumTo(b, k) \in Nat
        BY <1>3, <2>1
    <2>5. SumTo(c, Len(a) + k) = Total(a) + SumTo(b, k)
        BY <1>5
    <2>6. Total(a) \in Nat
        BY <1>3
    <2>7. SumTo(c, Len(a) + (k + 1)) = Total(a) + SumTo(b, k + 1)
        BY <2>2, <2>3, <2>4, <2>5, <2>6
    <2>. QED BY <2>1, <2>7
<1>6. 0 .. Len(b) \subseteq T
    <2>. HIDE DEF T
    <2>. QED BY <1>0, <1>4, <1>5, Upto
<1>. QED BY <1>1, <1>2, <1>6 DEF c

\* Numbers that are no larger have no larger sums; with the same total they are the same.
LEMMA SumsBelow ==
    ASSUME NEW a \in Seq(Nat), NEW b \in Seq(Nat), Len(a) = Len(b),
           \A i \in 1 .. Len(a) : a[i] <= b[i]
    PROVE  /\ Total(a) <= Total(b)
           /\ Total(a) = Total(b) => \A i \in 1 .. Len(a) : a[i] = b[i]
<1>. DEFINE Less(n) == SumTo(b, n) - SumTo(a, n)
            T == {n \in 0 .. Len(a) : Less(n) >= 0 /\ \A i \in 1 .. n : Less(n) >= b[i] - a[i]}
<1>0. /\ Len(a) \in Nat /\ SumTo(a, 0) = 0 /\ Total(a) = SumTo(a, Len(a))
      /\ \A k \in 0 .. Len(a) : SumTo(a, k) \in Nat
      /\ \A k \in 1 .. Len(a) : SumTo(a, k) = SumTo(a, k - 1) + a[k] /\ a[k] \in Nat
    BY Sums, LenProperties
<1>1. /\ SumTo(b, 0) = 0 /\ Total(b) = SumTo(b, Len(a))
      /\ \A k \in 0 .. Len(a) : SumTo(b, k) \in Nat
      /\ \A k \in 1 .. Len(a) : SumTo(b, k) = SumTo(b, k - 1) + b[k] /\ b[k] \in Nat
    BY Sums, LenProperties
<1>2. 0 \in T
    BY <1>0, <1>1
<1>3. ASSUME NEW n \in 0 .. Len(a) - 1, n \in T
      PROVE  n + 1 \in T
    <2>1. n + 1 \in 1 .. Len(a) /\ (n + 1) - 1 = n /\ n \in 0 .. Len(a) /\ n + 1 \in 0 .. Len(a)
        BY <1>0
    <2>2. /\ SumTo(a, n + 1) = SumTo(a, n) + a[n + 1] /\ SumTo(b, n + 1) = SumTo(b, n) + b[n + 1]
          /\ a[n + 1] \in Nat /\ b[n + 1] \in Nat /\ a[n + 1] <= b[n + 1]
          /\ SumTo(a, n) \in Nat /\ SumTo(b, n) \in Nat
        BY <1>0, <1>1, <2>1
    <2>. DEFINE more == b[n + 1] - a[n + 1]
    <2>3. Less(n + 1) = Less(n) + more /\ Less(n) \in Int /\ more \in Nat
        <3>1. Less(n + 1) = SumTo(b, n + 1) - SumTo(a, n + 1)
            OBVIOUS
        <3>2. Less(n) = SumTo(b, n) - SumTo(a, n)
            OBVIOUS
        <3>. HIDE DEF Less
        <3>3. more \in Nat
            <4>. DEFINE x == a[n + 1]
                        y == b[n + 1]
            <4>1. x \in Nat /\ y \in Nat /\ x <= y
                BY <2>2
            <4>. HIDE DEF x, y
            <4>2. y - x \in Nat
                BY <4>1
            <4>. QED BY <4>2 DEF x, y
        <3>. DEFINE sa == SumTo(a, n)
                    sb == SumTo(b, n)
                    x == a[n + 1]
                    y == b[n + 1]
        <3>4. Less(n + 1) = (sb + y) - (sa + x)
            BY <2>2, <3>1
        <3>5. sa \in Nat /\ sb \in Nat /\ x \in Nat /\ y \in Nat
            BY <2>2
        <3>6. Less(n) = sb - sa
            BY <3>2
        <3>7. more = y - x
            OBVIOUS
        <3>. HIDE DEF sa, sb, x, y, more
        <3>. QED BY <3>3, <3>4, <3>5, <3>6, <3>7
    <2>4. Less(n) >= 0 /\ \A i \in 1 .. n : Less(n) >= b[i] - a[i]
        BY <1>3
    <2>5. \A i \in 1 .. n + 1 : Less(n + 1) >= b[i] - a[i]
        <3>. HIDE DEF Less
        <3>. TAKE i \in 1 .. n + 1
        <3>1. CASE i = n + 1
            <4>1. b[i] - a[i] = more /\ Less(n) >= 0
                BY <2>4, <3>1
            <4>. HIDE DEF more
            <4>. QED BY <2>3, <4>1
        <3>2. CASE i # n + 1
            <4>1. i \in 1 .. n /\ i \in 1 .. Len(a)
                BY <2>1, <3>2
            <4>2. Less(n) >= b[i] - a[i] /\ a[i] \in Nat /\ b[i] \in Nat
                BY <1>0, <1>1, <2>4, <4>1
            <4>. DEFINE d == Less(n)
                        e == Less(n + 1)
                        x == a[i]
                        y == b[i]
            <4>3. e = d + more /\ d \in Int /\ more \in Nat /\ d >= y - x /\ x \in Nat /\ y \in Nat
                BY <2>3, <4>2
            <4>. HIDE DEF more, d, e, x, y
            <4>4. e >= y - x
                BY <4>3
            <4>. QED BY <4>4 DEF d, e, x, y
        <3>. QED BY <3>1, <3>2
    <2>. HIDE DEF Less, more
    <2>6. Less(n + 1) >= 0
        BY <2>3, <2>4
    <2>. QED BY <2>1, <2>5, <2>6
<1>4. Len(a) \in T
    <2>. HIDE DEF T
    <2>1. 0 .. Len(a) \subseteq T
        BY <1>0, <1>2, <1>3, Upto
    <2>. QED BY <1>0, <2>1
<1>5. Total(a) \in Nat /\ Total(b) \in Nat
    BY <1>0, <1>1
<1>6. Less(Len(a)) = Total(b) - Total(a)
    BY <1>0, <1>1
<1>7. Total(b) - Total(a) >= 0 /\ \A i \in 1 .. Len(a) : Total(b) - Total(a) >= b[i] - a[i]
    <2>. DEFINE d == Less(Len(a))
                e == Total(b) - Total(a)
    <2>1. d >= 0 /\ \A i \in 1 .. Len(a) : d >= b[i] - a[i]
        BY <1>4
    <2>2. d = e
        BY <1>6
    <2>. HIDE DEF d, e
    <2>3. e >= 0 /\ \A i \in 1 .. Len(a) : e >= b[i] - a[i]
        BY <2>1, <2>2
    <2>. QED BY <2>3 DEF e
<1>. DEFINE ta == Total(a)
            tb == Total(b)
<1>8. /\ ta \in Nat /\ tb \in Nat /\ tb - ta >= 0
      /\ \A i \in 1 .. Len(a) : tb - ta >= b[i] - a[i]
    BY <1>5, <1>7
<1>. HIDE DEF ta, tb
<1>9. ta <= tb
    BY <1>8
<1>10. ASSUME ta = tb, NEW i \in 1 .. Len(a)
       PROVE  a[i] = b[i]
    <2>. DEFINE x == a[i]
                y == b[i]
    <2>1. x \in Nat /\ y \in Nat /\ x <= y
        BY <1>0, <1>1
    <2>2. tb - ta >= y - x
        BY <1>8
    <2>. HIDE DEF x, y
    <2>3. x = y
        BY <1>8, <1>10, <2>1, <2>2
    <2>. QED BY <2>3 DEF x, y
<1>. QED BY <1>9, <1>10 DEF ta, tb

-----------------------------------------------------------------------------
(* Rows, marks and what is read at them.                                   *)

Piece == [of : Int \X Int \X Int, len : Nat, mark : Int]

Lens(rows) == [k \in DOMAIN rows |-> rows[k].len]

LEMMA Starts ==
    ASSUME NEW rows \in Seq(Piece)
    PROVE  /\ Lens(rows) \in Seq(Nat) /\ Len(Lens(rows)) = Len(rows) /\ Len(rows) \in Nat
           /\ DOMAIN rows = 1 .. Len(rows) /\ RowsOf(rows) = Total(Lens(rows))
           /\ \A k \in 1 .. Len(rows) :
                /\ rows[k] \in Piece /\ Lens(rows)[k] = rows[k].len /\ rows[k].len \in Nat
                /\ Start(rows, k) = SumTo(Lens(rows), k - 1)
                /\ Start(rows, k) \in Nat
<1>. DEFINE lens == Lens(rows)
<1>1. Len(rows) \in Nat /\ DOMAIN rows = 1 .. Len(rows)
    BY LenProperties
<1>2. \A k \in 1 .. Len(rows) : rows[k] \in Piece /\ rows[k].len \in Nat
    <2>1. \A k \in 1 .. Len(rows) : rows[k] \in Piece
        BY LenProperties
    <2>2. \A p \in Piece : p.len \in Nat
        BY DEF Piece
    <2>. QED BY <2>1, <2>2
<1>3. lens \in [1 .. Len(rows) -> Nat] /\ \A k \in 1 .. Len(rows) : lens[k] = rows[k].len
    BY <1>1, <1>2 DEF Lens
<1>. HIDE DEF lens
<1>4. lens \in Seq(Nat) /\ Len(lens) = Len(rows)
    BY <1>1, <1>3, Listed
<1>5. ASSUME NEW k \in 1 .. Len(rows)
      PROVE  Start(rows, k) = SumTo(lens, k - 1) /\ Start(rows, k) \in Nat
    <2>. DEFINE r == [j \in 1 .. k - 1 |-> rows[j].len]
    <2>1. k - 1 \in Nat /\ k - 1 <= Len(lens) /\ k - 1 \in 0 .. Len(lens)
        BY <1>1, <1>4
    <2>2. r \in [1 .. k - 1 -> Nat] /\ \A j \in 1 .. k - 1 : r[j] = lens[j]
        BY <1>1, <1>2, <1>3
    <2>3. Start(rows, k) = Total(r)
        BY DEF Start
    <2>. HIDE DEF r
    <2>4. r \in Seq(Nat) /\ Len(r) = k - 1
        BY <2>1, <2>2, Listed
    <2>5. Len(r) <= Len(lens) /\ \A j \in 1 .. Len(r) : r[j] = lens[j]
        BY <2>1, <2>2, <2>4
    <2>6. Total(r) = SumTo(lens, Len(r))
        BY <1>4, <2>4, <2>5, SumOf
    <2>7. SumTo(lens, k - 1) \in Nat
        BY <1>4, <2>1, Sums
    <2>. QED BY <2>3, <2>4, <2>6, <2>7
<1>. QED BY <1>1, <1>2, <1>3, <1>4, <1>5 DEF lens, RowsOf, Lens

\* A piece starts where the pieces before it end, or later.
LEMMA StartsGrow ==
    ASSUME NEW rows \in Seq(Piece), NEW k \in 1 .. Len(rows), NEW j \in k + 1 .. Len(rows)
    PROVE  Start(rows, k) + rows[k].len <= Start(rows, j)
<1>. DEFINE lens == Lens(rows)
<1>1. /\ lens \in Seq(Nat) /\ Len(lens) = Len(rows) /\ Len(rows) \in Nat
      /\ \A i \in 1 .. Len(rows) : lens[i] = rows[i].len /\ Start(rows, i) = SumTo(lens, i - 1)
    BY Starts
<1>. HIDE DEF lens
<1>2. k \in 0 .. Len(lens) /\ j - 1 \in k .. Len(lens) /\ j \in 1 .. Len(rows) /\ k \in 1 .. Len(lens)
    BY <1>1
<1>3. SumTo(lens, k) <= SumTo(lens, j - 1)
    BY <1>1, <1>2, SumsGrow
<1>4. SumTo(lens, k) = SumTo(lens, k - 1) + lens[k]
    BY <1>1, <1>2, Sums
<1>. QED BY <1>1, <1>2, <1>3, <1>4

\* The mark of piece k is one of its rows.
Marked(rows, k) == rows[k].mark \in 0 .. rows[k].len - 1

\* The pieces o + 1 .. o + n are the options of question q, and the only ones with marks.
Shows(rows, q, o, n) ==
  /\ rows \in Seq(Piece) /\ o \in Nat /\ n \in Nat /\ o + n <= Len(rows)
  /\ \A i \in 1 .. n : rows[o + i].of = <<q, 0, i>>
  /\ \A k \in 1 .. Len(rows) : k \in o + 1 .. o + n \/ rows[k].mark = -1

\* An output is read at the row of its own mark and nowhere else.
LEMMA ReadAtMark ==
    ASSUME NEW rows, NEW q, NEW o, NEW n, Shows(rows, q, o, n),
           \A k \in o + 1 .. o + n : Marked(rows, k),
           NEW i \in 1 .. n
    PROVE  AtRow(rows, Start(rows, o + i) + rows[o + i].mark) = {<<q, 0, i>>}
<1>. DEFINE r == Start(rows, o + i) + rows[o + i].mark
            at_r == {j \in DOMAIN rows : rows[j].mark >= 0 /\ Start(rows, j) + rows[j].mark = r}
<1>1. /\ rows \in Seq(Piece) /\ o \in Nat /\ n \in Nat /\ o + n <= Len(rows)
      /\ rows[o + i].of = <<q, 0, i>> /\ Marked(rows, o + i)
      /\ \A k \in 1 .. Len(rows) : k \in o + 1 .. o + n \/ rows[k].mark = -1
      /\ Len(rows) \in Nat /\ o + i \in 1 .. Len(rows) /\ DOMAIN rows = 1 .. Len(rows)
      /\ o + i \in o + 1 .. o + n
    <2>1. /\ rows \in Seq(Piece) /\ o \in Nat /\ n \in Nat /\ o + n <= Len(rows)
          /\ rows[o + i].of = <<q, 0, i>>
          /\ \A k \in 1 .. Len(rows) : k \in o + 1 .. o + n \/ rows[k].mark = -1
        BY DEF Shows
    <2>2. Len(rows) \in Nat /\ DOMAIN rows = 1 .. Len(rows)
        BY <2>1, LenProperties
    <2>. HIDE DEF r, at_r
    <2>3. o + i \in o + 1 .. o + n /\ o + i \in 1 .. Len(rows)
        BY <2>1, <2>2
    <2>. QED BY <2>1, <2>2, <2>3
<1>2. \A k \in 1 .. Len(rows) : Start(rows, k) \in Nat /\ rows[k].len \in Nat
    BY <1>1, Starts
<1>3. r \in Nat /\ Start(rows, o + i) <= r /\ r < Start(rows, o + i) + rows[o + i].len
    <2>. DEFINE s == Start(rows, o + i)
                x == rows[o + i].mark
                y == rows[o + i].len
    <2>1. s \in Nat /\ y \in Nat
        BY <1>1, <1>2
    <2>2. x \in 0 .. y - 1
        BY <1>1 DEF Marked
    <2>3. r = s + x
        OBVIOUS
    <2>. HIDE DEF s, x, y, r
    <2>4. r \in Nat /\ s <= r /\ r < s + y
        BY <2>1, <2>2, <2>3
    <2>. QED BY <2>4 DEF s, y
<1>4. o + i \in at_r
    BY <1>1, <1>2 DEF Marked
<1>5. ASSUME NEW k \in at_r
      PROVE  k = o + i
    <2>1. k \in 1 .. Len(rows) /\ rows[k].mark >= 0 /\ Start(rows, k) + rows[k].mark = r
        BY <1>1
    <2>2. Marked(rows, k)
        BY <1>1, <2>1
    <2>3. /\ Start(rows, k) \in Nat /\ rows[k].len \in Nat
          /\ Start(rows, k) <= r /\ r < Start(rows, k) + rows[k].len
        BY <1>2, <2>1, <2>2 DEF Marked
    <2>. HIDE DEF r, at_r
    <2>4. CASE k < o + i
        <3>1. o + i \in k + 1 .. Len(rows)
            BY <1>1, <2>1, <2>4
        <3>2. Start(rows, k) + rows[k].len <= Start(rows, o + i)
            BY <1>1, <2>1, <3>1, StartsGrow
        <3>3. Start(rows, o + i) \in Nat
            BY <1>1, <1>2
        <3>. QED BY <1>3, <2>3, <3>2, <3>3
    <2>5. CASE k > o + i
        <3>1. k \in (o + i) + 1 .. Len(rows)
            BY <1>1, <2>1, <2>5
        <3>2. Start(rows, o + i) + rows[o + i].len <= Start(rows, k)
            BY <1>1, <3>1, StartsGrow
        <3>3. Start(rows, o + i) \in Nat /\ rows[o + i].len \in Nat
            BY <1>1, <1>2
        <3>. QED BY <1>3, <2>3, <3>2, <3>3
    <2>. QED BY <1>1, <2>1, <2>4, <2>5
<1>6. at_r = {o + i}
    BY <1>4, <1>5
<1>7. AtRow(rows, r) = {rows[k].of : k \in at_r}
    BY DEF AtRow
<1>. HIDE DEF r, at_r
<1>8. AtRow(rows, r) = {<<q, 0, i>>}
    BY <1>1, <1>6, <1>7
<1>. QED BY <1>8 DEF r

\* One for each of the numbers o + 1 .. o + n, and nothing else.
Window(m, o, n) == [k \in 1 .. m |-> IF k \in o + 1 .. o + n THEN 1 ELSE 0]

LEMMA Windows ==
    ASSUME NEW m \in Nat, NEW o \in Nat, NEW n \in Nat, o + n <= m
    PROVE  /\ Window(m, o, n) \in Seq(Nat) /\ Len(Window(m, o, n)) = m
           /\ Total(Window(m, o, n)) = n
           /\ \A i \in 0 .. n : SumTo(Window(m, o, n), o + i) = i
<1>. DEFINE w == Window(m, o, n)
            Seen(k) == IF k <= o THEN 0 ELSE IF k <= o + n THEN k - o ELSE n
            T == {k \in 0 .. m : SumTo(w, k) = Seen(k)}
<1>1. w \in [1 .. m -> Nat] /\ \A k \in 1 .. m : w[k] = IF k \in o + 1 .. o + n THEN 1 ELSE 0
    BY DEF Window
<1>2. w \in Seq(Nat) /\ Len(w) = m
    BY <1>1, Listed
<1>. HIDE DEF w
<1>3. /\ SumTo(w, 0) = 0 /\ Total(w) = SumTo(w, m)
      /\ \A k \in 0 .. m : SumTo(w, k) \in Nat
      /\ \A k \in 1 .. m : SumTo(w, k) = SumTo(w, k - 1) + w[k]
    BY <1>2, Sums
<1>4. 0 \in T
    BY <1>3
<1>5. ASSUME NEW k \in 0 .. m - 1, k \in T
      PROVE  k + 1 \in T
    <2>1. k + 1 \in 1 .. m /\ k + 1 \in 0 .. m /\ (k + 1) - 1 = k
        OBVIOUS
    <2>2. SumTo(w, k + 1) = Seen(k) + w[k + 1]
        BY <1>3, <1>5, <2>1
    <2>3. w[k + 1] = IF k + 1 \in o + 1 .. o + n THEN 1 ELSE 0
        BY <1>1, <2>1
    <2>4. Seen(k) + (IF k + 1 \in o + 1 .. o + n THEN 1 ELSE 0) = Seen(k + 1)
        OBVIOUS
    <2>. QED BY <2>1, <2>2, <2>3, <2>4
<1>6. 0 .. m \subseteq T
    <2>. HIDE DEF T
    <2>. QED BY <1>4, <1>5, Upto
<1>7. Seen(m) = n /\ \A i \in 0 .. n : Seen(o + i) = i /\ o + i \in 0 .. m
    OBVIOUS
<1>8. SumTo(w, m) = Seen(m) /\ \A i \in 0 .. n : SumTo(w, o + i) = Seen(o + i)
    <2>. HIDE DEF Seen
    <2>. QED BY <1>6, <1>7
<1>. QED BY <1>2, <1>3, <1>7, <1>8 DEF w

\* The marker rows of each piece, one or none.
MarkOf(rows, k) ==
  IF rows[k].mark \in 0 .. rows[k].len - 1 THEN <<Start(rows, k) + rows[k].mark>> ELSE <<>>

\* There are as many marker rows as options exactly if every option has kept its own, and
\* then they are in the order of the options.
LEMMA MarksFound ==
    ASSUME NEW rows, NEW q, NEW o, NEW n, Shows(rows, q, o, n)
    PROVE  /\ Marks(rows) \in Seq(Int)
           /\ Len(Marks(rows)) = n <=> \A k \in o + 1 .. o + n : Marked(rows, k)
           /\ Len(Marks(rows)) = n =>
                \A i \in 1 .. n : Marks(rows)[i] = Start(rows, o + i) + rows[o + i].mark
<1>. DEFINE m == Len(rows)
            w == Window(m, o, n)
            ss == [k \in DOMAIN rows |-> MarkOf(rows, k)]
            lens == [k \in 1 .. m |-> IF Marked(rows, k) THEN 1 ELSE 0]
<1>1. /\ rows \in Seq(Piece) /\ o \in Nat /\ n \in Nat /\ o + n <= m
      /\ \A k \in 1 .. m : k \in o + 1 .. o + n \/ rows[k].mark = -1
    BY DEF Shows
<1>2. /\ m \in Nat /\ DOMAIN rows = 1 .. m
      /\ \A k \in 1 .. m : /\ Start(rows, k) \in Nat /\ rows[k].len \in Nat /\ rows[k].mark \in Int
    <2>1. /\ m \in Nat /\ DOMAIN rows = 1 .. m
          /\ \A k \in 1 .. m : Start(rows, k) \in Nat /\ rows[k].len \in Nat /\ rows[k] \in Piece
        BY <1>1, Starts
    <2>2. \A p \in Piece : p.mark \in Int
        BY DEF Piece
    <2>. QED BY <2>1, <2>2
<1>3. /\ w \in Seq(Nat) /\ Len(w) = m /\ Total(w) = n /\ \A i \in 0 .. n : SumTo(w, o + i) = i
      /\ \A k \in 1 .. m : w[k] = IF k \in o + 1 .. o + n THEN 1 ELSE 0
    <2>1. \A k \in 1 .. m : w[k] = IF k \in o + 1 .. o + n THEN 1 ELSE 0
        BY DEF Window
    <2>. HIDE DEF m
    <2>. QED BY <1>1, <1>2, <2>1, Windows
<1>4. Marks(rows) = FlattenSeq(ss)
    BY DEF Marks, MarkOf
<1>5. ss \in Seq(Seq(Int)) /\ Len(ss) = m /\ \A k \in 1 .. m : ss[k] = MarkOf(rows, k)
    <2>1. \A k \in 1 .. m : MarkOf(rows, k) \in Seq(Int)
        BY <1>2 DEF MarkOf
    <2>2. ss \in [1 .. m -> Seq(Int)] /\ \A k \in 1 .. m : ss[k] = MarkOf(rows, k)
        BY <1>2, <2>1
    <2>. HIDE DEF ss, m
    <2>. QED BY <1>2, <2>2, Listed
<1>6. /\ lens \in Seq(Nat) /\ Len(lens) = m
      /\ \A k \in 1 .. m : lens[k] = IF Marked(rows, k) THEN 1 ELSE 0
    <2>1. lens \in [1 .. m -> Nat] /\ \A k \in 1 .. m : lens[k] = IF Marked(rows, k) THEN 1 ELSE 0
        OBVIOUS
    <2>. HIDE DEF lens, m
    <2>. QED BY <1>2, <2>1, Listed
<1>. HIDE DEF m, w, ss, lens
<1>7. \A k \in 1 .. m : Len(ss[k]) = lens[k]
    <2>. TAKE k \in 1 .. m
    <2>1. ss[k] = MarkOf(rows, k) /\ lens[k] = IF Marked(rows, k) THEN 1 ELSE 0
        BY <1>5, <1>6
    <2>2. CASE Marked(rows, k)
        <3>1. ss[k] = <<Start(rows, k) + rows[k].mark>> /\ lens[k] = 1
            BY <2>1, <2>2 DEF MarkOf, Marked
        <3>. QED BY <3>1
    <2>3. CASE ~Marked(rows, k)
        <3>1. ss[k] = <<>> /\ lens[k] = 0
            BY <2>1, <2>3 DEF MarkOf, Marked
        <3>. QED BY <3>1
    <2>. QED BY <2>2, <2>3
<1>8. /\ FlattenSeq(ss) \in Seq(Int) /\ Len(FlattenSeq(ss)) = Total(lens)
      /\ Placing(ss, lens, FlattenSeq(ss), m)
    BY <1>5, <1>6, <1>7, FlattenAt
<1>0. \A k \in 1 .. m : Marked(rows, k) => k \in o + 1 .. o + n
    <2>. TAKE k \in 1 .. m
    <2>1. rows[k].mark = -1 => ~Marked(rows, k)
        BY <1>2 DEF Marked
    <2>. QED BY <1>1, <2>1
<1>9. \A k \in 1 .. m : lens[k] <= w[k]
    <2>. TAKE k \in 1 .. m
    <2>1. /\ lens[k] = IF Marked(rows, k) THEN 1 ELSE 0
          /\ w[k] = IF k \in o + 1 .. o + n THEN 1 ELSE 0
          /\ Marked(rows, k) => k \in o + 1 .. o + n
        BY <1>0, <1>3, <1>6
    <2>. QED BY <2>1
<1>10. Total(lens) = Total(w) => \A k \in 1 .. m : lens[k] = w[k]
    <2>1. /\ lens \in Seq(Nat) /\ w \in Seq(Nat) /\ Len(lens) = m /\ Len(w) = m
        BY <1>3, <1>6
    <2>2. Len(lens) = Len(w) /\ \A k \in 1 .. Len(lens) : lens[k] <= w[k]
        BY <1>9, <2>1
    <2>3. Total(lens) = Total(w) => \A k \in 1 .. Len(lens) : lens[k] = w[k]
        BY <2>1, <2>2, SumsBelow
    <2>. QED BY <2>1, <2>3
<1>11. ASSUME \A k \in o + 1 .. o + n : Marked(rows, k)
       PROVE  lens = w
    <2>1. \A k \in 1 .. m : lens[k] = w[k]
        <3>. TAKE k \in 1 .. m
        <3>1. /\ lens[k] = IF Marked(rows, k) THEN 1 ELSE 0
              /\ w[k] = IF k \in o + 1 .. o + n THEN 1 ELSE 0
              /\ Marked(rows, k) <=> k \in o + 1 .. o + n
            BY <1>0, <1>3, <1>6, <1>11
        <3>. QED BY <3>1
    <2>. QED BY <1>3, <1>6, <2>1, SeqEqual
<1>12. ASSUME Total(lens) = n
       PROVE  \A k \in o + 1 .. o + n : Marked(rows, k)
    <2>. TAKE k \in o + 1 .. o + n
    <2>1. k \in 1 .. m
        BY <1>1, <1>2
    <2>2. lens[k] = 1
        BY <1>3, <1>10, <1>12, <2>1
    <2>. QED BY <1>6, <2>1, <2>2
<1>13. ASSUME Total(lens) = n, NEW i \in 1 .. n
       PROVE  Marks(rows)[i] = Start(rows, o + i) + rows[o + i].mark
    <2>1. o + i \in 1 .. m /\ o + i \in o + 1 .. o + n /\ (o + i) - 1 = o + (i - 1) /\ i - 1 \in 0 .. n
        BY <1>1, <1>2
    <2>2. Marked(rows, o + i)
        BY <1>12, <1>13, <2>1
    <2>3. lens = w /\ lens[o + i] = 1
        BY <1>6, <1>11, <1>12, <1>13, <2>1, <2>2
    <2>4. SumTo(lens, (o + i) - 1) = i - 1
        BY <1>3, <2>1, <2>3
    <2>5. FlattenSeq(ss)[SumTo(lens, (o + i) - 1) + 1] = ss[o + i][1]
        <3>1. 1 \in 1 .. lens[o + i]
            BY <2>3
        <3>. QED BY <1>8, <2>1, <3>1 DEF Placing
    <2>6. (i - 1) + 1 = i
        OBVIOUS
    <2>7. ss[o + i][1] = Start(rows, o + i) + rows[o + i].mark
        BY <1>5, <2>1, <2>2 DEF MarkOf, Marked
    <2>. QED BY <1>4, <2>4, <2>5, <2>6, <2>7
<1>14. Len(Marks(rows)) = Total(lens) /\ Marks(rows) \in Seq(Int)
    BY <1>4, <1>8
<1>15. ASSUME \A k \in o + 1 .. o + n : Marked(rows, k)
       PROVE  Total(lens) = n
    BY <1>3, <1>11, <1>15
<1>. QED BY <1>12, <1>13, <1>14, <1>15

\* The markers are the rows of the options that the rows show, in their order.
Points(rows, markers, q, o, n) ==
  /\ Shows(rows, q, o, n) /\ \A k \in o + 1 .. o + n : Marked(rows, k)
  /\ markers \in Seq(Int) /\ Len(markers) = n
  /\ \A i \in 1 .. n : markers[i] = Start(rows, o + i) + rows[o + i].mark

\* An output for each option, in their order.
Row(q, n) == [i \in 1 .. n |-> {<<q, 0, i>>}]

\* What the model says at the markers.
Said(rows, markers) == [i \in DOMAIN markers |-> AtRow(rows, markers[i])]

\* What a prompt's markers say, when there is one for each option.
LEMMA MarkersRead ==
    ASSUME NEW rows, NEW markers, NEW q, NEW o, NEW n, Points(rows, markers, q, o, n)
    PROVE  Said(rows, markers) = Row(q, n)
<1>0. /\ Shows(rows, q, o, n) /\ \A k \in o + 1 .. o + n : Marked(rows, k)
      /\ markers \in Seq(Int) /\ Len(markers) = n
      /\ \A i \in 1 .. n : markers[i] = Start(rows, o + i) + rows[o + i].mark
    BY DEF Points
<1>1. DOMAIN markers = 1 .. n
    BY <1>0, LenProperties
<1>2. \A i \in 1 .. n : AtRow(rows, markers[i]) = {<<q, 0, i>>}
    BY <1>0, ReadAtMark
<1>. QED BY <1>1, <1>2 DEF Said, Row

-----------------------------------------------------------------------------
(* Rows put together.                                                      *)

\* Pieces without outputs.
Quiet(rows) == rows \in Seq(Piece) /\ \A k \in 1 .. Len(rows) : rows[k].mark = -1

\* After o pieces come these, and all others are quiet.
Holds(rows, pieces, o) ==
  /\ rows \in Seq(Piece) /\ pieces \in Seq(Piece) /\ o \in Nat
  /\ o + Len(pieces) <= Len(rows)
  /\ \A i \in 1 .. Len(pieces) : rows[o + i] = pieces[i]
  /\ \A k \in 1 .. Len(rows) : k \in o + 1 .. o + Len(pieces) \/ rows[k].mark = -1

LEMMA HoldsSelf ==
    ASSUME NEW pieces \in Seq(Piece)
    PROVE  Holds(pieces, pieces, 0)
<1>1. Len(pieces) \in Nat
    BY LenProperties
<1>2. \A i \in 1 .. Len(pieces) : 0 + i = i
    OBVIOUS
<1>3. \A k \in 1 .. Len(pieces) : k \in 0 + 1 .. 0 + Len(pieces)
    BY <1>1
<1>4. 0 + Len(pieces) <= Len(pieces) /\ 0 \in Nat
    BY <1>1
<1>. QED BY <1>2, <1>3, <1>4 DEF Holds

\* More quiet pieces before them.
LEMMA HoldsAfter ==
    ASSUME NEW rows, NEW pieces, NEW o, Holds(rows, pieces, o), NEW head, Quiet(head)
    PROVE  Holds(head \o rows, pieces, Len(head) + o)
<1>1. /\ rows \in Seq(Piece) /\ pieces \in Seq(Piece) /\ o \in Nat
      /\ o + Len(pieces) <= Len(rows)
      /\ \A i \in 1 .. Len(pieces) : rows[o + i] = pieces[i]
      /\ \A k \in 1 .. Len(rows) : k \in o + 1 .. o + Len(pieces) \/ rows[k].mark = -1
    BY DEF Holds
<1>2. head \in Seq(Piece) /\ \A k \in 1 .. Len(head) : head[k].mark = -1
    BY DEF Quiet
<1>3. Len(rows) \in Nat /\ Len(pieces) \in Nat /\ Len(head) \in Nat
    BY <1>1, <1>2, LenProperties
<1>. DEFINE all == head \o rows
<1>4. /\ all \in Seq(Piece) /\ Len(all) = Len(head) + Len(rows)
      /\ \A y \in 1 .. Len(head) : all[y] = head[y]
      /\ \A y \in 1 .. Len(rows) : all[Len(head) + y] = rows[y]
    BY <1>1, <1>2, ConcatAt
<1>. HIDE DEF all
<1>5. ASSUME NEW i \in 1 .. Len(pieces)
      PROVE  all[(Len(head) + o) + i] = pieces[i]
    <2>1. o + i \in 1 .. Len(rows) /\ (Len(head) + o) + i = Len(head) + (o + i)
        BY <1>1, <1>3
    <2>. QED BY <1>1, <1>4, <2>1
<1>6. ASSUME NEW k \in 1 .. Len(all)
      PROVE  k \in (Len(head) + o) + 1 .. (Len(head) + o) + Len(pieces) \/ all[k].mark = -1
    <2>1. CASE k <= Len(head)
        <3>1. k \in 1 .. Len(head)
            BY <1>3, <2>1
        <3>. QED BY <1>2, <1>4, <3>1
    <2>2. CASE ~(k <= Len(head))
        <3>. DEFINE y == k - Len(head)
        <3>1. y \in 1 .. Len(rows) /\ k = Len(head) + y
            BY <1>3, <1>4, <2>2
        <3>2. all[k] = rows[y]
            BY <1>4, <3>1
        <3>3. y \in o + 1 .. o + Len(pieces) =>
                k \in (Len(head) + o) + 1 .. (Len(head) + o) + Len(pieces)
            BY <1>1, <1>3, <3>1
        <3>. HIDE DEF y
        <3>. QED BY <1>1, <3>1, <3>2, <3>3
    <2>. QED BY <2>1, <2>2
<1>7. Len(head) + o \in Nat /\ (Len(head) + o) + Len(pieces) <= Len(all)
    BY <1>1, <1>3, <1>4
<1>8. Holds(all, pieces, Len(head) + o)
    BY <1>1, <1>4, <1>5, <1>6, <1>7 DEF Holds
<1>. QED BY <1>8 DEF all

\* More quiet pieces behind them.
LEMMA HoldsBefore ==
    ASSUME NEW rows, NEW pieces, NEW o, Holds(rows, pieces, o), NEW tail, Quiet(tail)
    PROVE  Holds(rows \o tail, pieces, o)
<1>1. /\ rows \in Seq(Piece) /\ pieces \in Seq(Piece) /\ o \in Nat
      /\ o + Len(pieces) <= Len(rows)
      /\ \A i \in 1 .. Len(pieces) : rows[o + i] = pieces[i]
      /\ \A k \in 1 .. Len(rows) : k \in o + 1 .. o + Len(pieces) \/ rows[k].mark = -1
    BY DEF Holds
<1>2. tail \in Seq(Piece) /\ \A k \in 1 .. Len(tail) : tail[k].mark = -1
    BY DEF Quiet
<1>3. Len(rows) \in Nat /\ Len(pieces) \in Nat /\ Len(tail) \in Nat
    BY <1>1, <1>2, LenProperties
<1>. DEFINE all == rows \o tail
<1>4. /\ all \in Seq(Piece) /\ Len(all) = Len(rows) + Len(tail)
      /\ \A y \in 1 .. Len(rows) : all[y] = rows[y]
      /\ \A y \in 1 .. Len(tail) : all[Len(rows) + y] = tail[y]
    BY <1>1, <1>2, ConcatAt
<1>. HIDE DEF all
<1>5. ASSUME NEW i \in 1 .. Len(pieces)
      PROVE  all[o + i] = pieces[i]
    <2>1. o + i \in 1 .. Len(rows)
        BY <1>1, <1>3
    <2>. QED BY <1>1, <1>4, <2>1
<1>6. ASSUME NEW k \in 1 .. Len(all)
      PROVE  k \in o + 1 .. o + Len(pieces) \/ all[k].mark = -1
    <2>1. CASE k <= Len(rows)
        <3>1. k \in 1 .. Len(rows)
            BY <1>3, <2>1
        <3>. QED BY <1>1, <1>4, <3>1
    <2>2. CASE ~(k <= Len(rows))
        <3>. DEFINE y == k - Len(rows)
        <3>1. y \in 1 .. Len(tail) /\ k = Len(rows) + y
            BY <1>3, <1>4, <2>2
        <3>2. all[k] = tail[y]
            BY <1>4, <3>1
        <3>. HIDE DEF y
        <3>. QED BY <1>2, <3>1, <3>2
    <2>. QED BY <2>1, <2>2
<1>7. o + Len(pieces) <= Len(all)
    BY <1>1, <1>3, <1>4
<1>8. Holds(all, pieces, o)
    BY <1>1, <1>4, <1>5, <1>6, <1>7 DEF Holds
<1>. QED BY <1>8 DEF all

LEMMA RowsConcat ==
    ASSUME NEW a \in Seq(Piece), NEW b \in Seq(Piece)
    PROVE  /\ a \o b \in Seq(Piece) /\ Lens(a \o b) = Lens(a) \o Lens(b)
           /\ RowsOf(a) \in Nat /\ RowsOf(b) \in Nat
           /\ RowsOf(a \o b) = RowsOf(a) + RowsOf(b)
<1>1. /\ Lens(a) \in Seq(Nat) /\ Len(Lens(a)) = Len(a) /\ Len(a) \in Nat
      /\ RowsOf(a) = Total(Lens(a)) /\ \A k \in 1 .. Len(a) : Lens(a)[k] = a[k].len
    BY Starts
<1>2. /\ Lens(b) \in Seq(Nat) /\ Len(Lens(b)) = Len(b) /\ Len(b) \in Nat
      /\ RowsOf(b) = Total(Lens(b)) /\ \A k \in 1 .. Len(b) : Lens(b)[k] = b[k].len
    BY Starts
<1>. DEFINE c == a \o b
            d == Lens(a) \o Lens(b)
<1>3. /\ c \in Seq(Piece) /\ Len(c) = Len(a) + Len(b)
      /\ \A y \in 1 .. Len(a) : c[y] = a[y]
      /\ \A y \in 1 .. Len(b) : c[Len(a) + y] = b[y]
    BY ConcatAt
<1>4. /\ d \in Seq(Nat) /\ Len(d) = Len(Lens(a)) + Len(Lens(b))
      /\ \A y \in 1 .. Len(Lens(a)) : d[y] = Lens(a)[y]
      /\ \A y \in 1 .. Len(Lens(b)) : d[Len(Lens(a)) + y] = Lens(b)[y]
    <2>. DEFINE la == Lens(a)
                lb == Lens(b)
    <2>1. la \in Seq(Nat) /\ lb \in Seq(Nat)
        BY <1>1, <1>2
    <2>. HIDE DEF c, la, lb
    <2>2. /\ la \o lb \in Seq(Nat) /\ Len(la \o lb) = Len(la) + Len(lb)
          /\ \A y \in 1 .. Len(la) : (la \o lb)[y] = la[y]
          /\ \A y \in 1 .. Len(lb) : (la \o lb)[Len(la) + y] = lb[y]
        BY <2>1, ConcatAt
    <2>. QED BY <2>2 DEF la, lb
<1>5. /\ Total(d) = SumTo(d, Len(d)) /\ Total(Lens(b)) = SumTo(Lens(b), Len(Lens(b)))
      /\ Total(Lens(a)) \in Nat /\ Total(Lens(b)) \in Nat
    <2>1. Total(d) = SumTo(d, Len(d))
        BY <1>4, Sums
    <2>2. Total(Lens(b)) = SumTo(Lens(b), Len(Lens(b))) /\ SumTo(Lens(b), Len(b)) \in Nat
        BY <1>2, Sums
    <2>3. Total(Lens(a)) = SumTo(Lens(a), Len(Lens(a))) /\ SumTo(Lens(a), Len(a)) \in Nat
        BY <1>1, Sums
    <2>. QED BY <1>1, <1>2, <2>1, <2>2, <2>3
<1>6. SumTo(d, Len(Lens(a)) + Len(Lens(b))) = Total(Lens(a)) + SumTo(Lens(b), Len(Lens(b)))
    <2>1. Len(Lens(b)) \in 0 .. Len(Lens(b))
        BY <1>2
    <2>. QED BY <1>1, <1>2, <2>1, SumsConcat
<1>. HIDE DEF c, d
<1>7. /\ Lens(c) \in Seq(Nat) /\ Len(Lens(c)) = Len(c)
      /\ RowsOf(c) = Total(Lens(c)) /\ \A k \in 1 .. Len(c) : Lens(c)[k] = c[k].len
    BY <1>3, Starts
<1>8. Lens(c) = d
    <2>1. Len(Lens(c)) = Len(d)
        BY <1>1, <1>2, <1>3, <1>4, <1>7
    <2>2. ASSUME NEW k \in 1 .. Len(d)
          PROVE  Lens(c)[k] = d[k]
        <3>1. CASE k <= Len(a)
            <4>1. k \in 1 .. Len(a)
                BY <1>1, <3>1
            <4>2. c[k] = a[k] /\ d[k] = Lens(a)[k] /\ Lens(a)[k] = a[k].len
                BY <1>1, <1>3, <1>4, <4>1
            <4>3. Lens(c)[k] = c[k].len
                BY <1>7, <2>1
            <4>. QED BY <4>2, <4>3
        <3>2. CASE ~(k <= Len(a))
            <4>. DEFINE y == k - Len(a)
            <4>1. y \in 1 .. Len(b) /\ k = Len(a) + y
                BY <1>1, <1>2, <1>4, <3>2
            <4>. HIDE DEF y
            <4>2. c[k] = b[y] /\ d[k] = Lens(b)[y] /\ Lens(b)[y] = b[y].len
                BY <1>1, <1>2, <1>3, <1>4, <4>1
            <4>3. Lens(c)[k] = c[k].len
                BY <1>7, <2>1
            <4>. QED BY <4>2, <4>3
        <3>. QED BY <3>1, <3>2
    <2>. QED BY <1>4, <1>7, <2>1, <2>2, SeqEqual
<1>. QED BY <1>1, <1>2, <1>3, <1>4, <1>5, <1>6, <1>7, <1>8 DEF c, d

AddsUp(x, y, z) == Total(<<x, y, z>>) = x + y + z

LEMMA Totals ==
    ASSUME NEW x \in Nat, NEW y \in Nat, NEW z \in Nat
    PROVE  /\ Total(<<>>) = 0 /\ Total(<<x>>) = x
           /\ Total(<<x, y>>) = x + y /\ AddsUp(x, y, z)
<1>1. /\ <<>> \in Seq(Nat) /\ <<x>> \in Seq(Nat) /\ <<x, y>> \in Seq(Nat) /\ <<x, y, z>> \in Seq(Nat)
      /\ Len(<<>>) = 0 /\ Len(<<x>>) = 1 /\ Len(<<x, y>>) = 2 /\ Len(<<x, y, z>>) = 3
    OBVIOUS
<1>2. Total(<<>>) = 0
    BY <1>1, Sums
<1>3. Total(<<x>>) = x
    <2>. DEFINE s == <<x>>
    <2>1. s \in Seq(Nat) /\ Len(s) = 1 /\ s[1] = x
        BY <1>1
    <2>. HIDE DEF s
    <2>2. Total(s) = SumTo(s, 1) /\ SumTo(s, 0) = 0 /\ SumTo(s, 1) = SumTo(s, 1 - 1) + s[1]
        BY <2>1, Sums
    <2>3. Total(s) = x
        BY <2>1, <2>2
    <2>. QED BY <2>3 DEF s
<1>4. Total(<<x, y>>) = x + y
    <2>. DEFINE s == <<x, y>>
    <2>1. s \in Seq(Nat) /\ Len(s) = 2 /\ s[1] = x /\ s[2] = y
        BY <1>1
    <2>. HIDE DEF s
    <2>. DEFINE Follows(k) == SumTo(s, k) = SumTo(s, k - 1) + s[k]
    <2>0. Total(s) = SumTo(s, 2) /\ SumTo(s, 0) = 0 /\ \A k \in 1 .. 2 : Follows(k)
        BY <2>1, Sums
    <2>2. Follows(1) /\ Follows(2)
        <3>. HIDE DEF Follows
        <3>. QED BY <2>0
    <2>3. SumTo(s, 1) = SumTo(s, 0) + s[1] /\ SumTo(s, 2) = SumTo(s, 1) + s[2]
        <3>1. 1 - 1 = 0 /\ 2 - 1 = 1
            OBVIOUS
        <3>. QED BY <2>2, <3>1, Zenon
    <2>. HIDE DEF Follows
    <2>4. Total(s) = x + y
        BY <2>0, <2>1, <2>3
    <2>. QED BY <2>4 DEF s
<1>5. Total(<<x, y, z>>) = x + y + z
    <2>. DEFINE s == <<x, y, z>>
    <2>1. s \in Seq(Nat) /\ Len(s) = 3 /\ s[1] = x /\ s[2] = y /\ s[3] = z
        BY <1>1
    <2>. HIDE DEF s
    <2>. DEFINE Follows(k) == SumTo(s, k) = SumTo(s, k - 1) + s[k]
    <2>0. Total(s) = SumTo(s, 3) /\ SumTo(s, 0) = 0 /\ \A k \in 1 .. 3 : Follows(k)
        BY <2>1, Sums
    <2>2. Follows(1) /\ Follows(2) /\ Follows(3)
        <3>. HIDE DEF Follows
        <3>. QED BY <2>0
    <2>3. /\ SumTo(s, 1) = SumTo(s, 0) + s[1] /\ SumTo(s, 2) = SumTo(s, 1) + s[2]
          /\ SumTo(s, 3) = SumTo(s, 2) + s[3]
        <3>1. 1 - 1 = 0 /\ 2 - 1 = 1 /\ 3 - 1 = 2
            OBVIOUS
        <3>. QED BY <2>2, <3>1, Zenon
    <2>. HIDE DEF Follows
    <2>4. Total(s) = x + y + z
        BY <2>0, <2>1, <2>3
    <2>. QED BY <2>4 DEF s
<1>. QED BY <1>2, <1>3, <1>4, <1>5 DEF AddsUp

\* A text is quiet.
LEMMA TextQuiet ==
    ASSUME NEW x \in Nat, NEW y \in Nat, NEW z \in Nat
    PROVE  /\ Quiet(<<>>) /\ RowsOf(<<>>) = 0
           /\ Quiet(<<Text(x)>>) /\ RowsOf(<<Text(x)>>) = x
           /\ Quiet(<<Text(x), Text(y)>>) /\ RowsOf(<<Text(x), Text(y)>>) = x + y
           /\ Quiet(<<Text(x), Text(y), Text(z)>>)
           /\ RowsOf(<<Text(x), Text(y), Text(z)>>) = x + y + z
<1>1. \A n \in Nat : Text(n) \in Piece /\ Text(n).mark = -1 /\ Text(n).len = n
    BY DEF Text, Piece
<1>2. Quiet(<<>>) /\ RowsOf(<<>>) = 0
    <2>1. <<>> \in Seq(Piece) /\ Len(<<>>) = 0
        OBVIOUS
    <2>2. [k \in DOMAIN <<>> |-> <<>>[k].len] = <<>>
        OBVIOUS
    <2>3. Total(<<>>) = 0
        BY Totals
    <2>4. RowsOf(<<>>) = 0
        BY <2>2, <2>3 DEF RowsOf
    <2>. QED BY <2>1, <2>4 DEF Quiet
<1>3. Quiet(<<Text(x)>>) /\ RowsOf(<<Text(x)>>) = x
    <2>. DEFINE r == <<Text(x)>>
    <2>1. r \in Seq(Piece) /\ Len(r) = 1 /\ r[1] = Text(x) /\ DOMAIN r = 1 .. 1
        BY <1>1
    <2>. HIDE DEF r
    <2>2. [k \in DOMAIN r |-> r[k].len] = <<x>>
        BY <1>1, <2>1
    <2>3. \A k \in 1 .. Len(r) : r[k].mark = -1
        BY <1>1, <2>1
    <2>4. Quiet(r) /\ RowsOf(r) = x
        <3>1. Total(<<x>>) = x
            BY Totals
        <3>2. RowsOf(r) = x
            BY <2>2, <3>1 DEF RowsOf
        <3>. QED BY <2>1, <2>3, <3>2 DEF Quiet
    <2>. QED BY <2>4 DEF r
<1>4. Quiet(<<Text(x), Text(y)>>) /\ RowsOf(<<Text(x), Text(y)>>) = x + y
    <2>. DEFINE r == <<Text(x), Text(y)>>
    <2>1. r \in Seq(Piece) /\ Len(r) = 2 /\ r[1] = Text(x) /\ r[2] = Text(y) /\ DOMAIN r = 1 .. 2
        BY <1>1
    <2>. HIDE DEF r
    <2>2. [k \in DOMAIN r |-> r[k].len] = <<x, y>>
        BY <1>1, <2>1
    <2>3. \A k \in 1 .. Len(r) : r[k].mark = -1
        BY <1>1, <2>1
    <2>4. Quiet(r) /\ RowsOf(r) = x + y
        <3>1. Total(<<x, y>>) = x + y
            BY Totals
        <3>2. RowsOf(r) = x + y
            BY <2>2, <3>1 DEF RowsOf
        <3>. QED BY <2>1, <2>3, <3>2 DEF Quiet
    <2>. QED BY <2>4 DEF r
<1>5. Quiet(<<Text(x), Text(y), Text(z)>>) /\ RowsOf(<<Text(x), Text(y), Text(z)>>) = x + y + z
    <2>. DEFINE r == <<Text(x), Text(y), Text(z)>>
    <2>1. /\ r \in Seq(Piece) /\ Len(r) = 3 /\ r[1] = Text(x) /\ r[2] = Text(y) /\ r[3] = Text(z)
          /\ DOMAIN r = 1 .. 3
        BY <1>1
    <2>. HIDE DEF r
    <2>2. [k \in DOMAIN r |-> r[k].len] = <<x, y, z>>
        BY <1>1, <2>1
    <2>3. \A k \in 1 .. Len(r) : r[k].mark = -1
        BY <1>1, <2>1
    <2>4. Quiet(r) /\ RowsOf(r) = x + y + z
        <3>1. Total(<<x, y, z>>) = x + y + z
            <4>1. AddsUp(x, y, z)
                BY Totals
            <4>. QED BY <4>1 DEF AddsUp
        <3>2. RowsOf(r) = x + y + z
            BY <2>2, <3>1 DEF RowsOf
        <3>. QED BY <2>1, <2>3, <3>2 DEF Quiet
    <2>. QED BY <2>4 DEF r
<1>. QED BY <1>2, <1>3, <1>4, <1>5

LEMMA OptionRows ==
    ASSUME NEW q \in Int, NEW lens \in Seq(Nat), NEW where
    PROVE  /\ OptionPieces(q, lens, where) \in Seq(Piece)
           /\ Len(OptionPieces(q, lens, where)) = Len(lens) /\ Len(lens) \in Nat
           /\ Lens(OptionPieces(q, lens, where)) = lens
           /\ RowsOf(OptionPieces(q, lens, where)) = Total(lens)
           /\ \A i \in 1 .. Len(lens) :
                OptionPieces(q, lens, where)[i] =
                  [of |-> <<q, 0, i>>, len |-> lens[i], mark |-> IF where = "first" THEN 0 ELSE lens[i] - 1]
<1>. DEFINE p(i) == [of |-> <<q, 0, i>>, len |-> lens[i],
                     mark |-> IF where = "first" THEN 0 ELSE lens[i] - 1]
            pieces == OptionPieces(q, lens, where)
            n == Len(lens)
<1>1. n \in Nat /\ DOMAIN lens = 1 .. n /\ \A i \in 1 .. n : lens[i] \in Nat
    BY LenProperties
<1>2. \A i \in 1 .. n : p(i) \in Piece /\ p(i).len = lens[i]
    BY <1>1 DEF Piece
<1>3. pieces = [i \in 1 .. n |-> p(i)]
    BY <1>1 DEF OptionPieces
<1>. HIDE DEF p, pieces, n
<1>4. pieces \in [1 .. n -> Piece] /\ DOMAIN pieces = 1 .. n /\ \A i \in 1 .. n : pieces[i] = p(i)
    BY <1>2, <1>3
<1>5. pieces \in Seq(Piece) /\ Len(pieces) = n
    BY <1>1, <1>4, Listed
<1>6. \A i \in 1 .. n : pieces[i].len = lens[i]
    BY <1>2, <1>4
<1>7. Lens(pieces) = lens
    <2>1. lens = [i \in 1 .. n |-> lens[i]]
        BY <1>1
    <2>. QED BY <1>4, <1>6, <2>1 DEF Lens
<1>8. RowsOf(pieces) = Total(lens)
    BY <1>5, <1>7, Starts
<1>. QED BY <1>1, <1>4, <1>5, <1>7, <1>8 DEF p, pieces, n

\* Where the options are, the prompt shows them; and each has its mark if none is empty.
LEMMA HoldsShows ==
    ASSUME NEW q \in Int, NEW lens \in Seq(Nat), NEW where, NEW rows, NEW o,
           Holds(rows, OptionPieces(q, lens, where), o)
    PROVE  /\ Shows(rows, q, o, Len(lens))
           /\ \A i \in 1 .. Len(lens) :
                rows[o + i].mark = IF where = "first" THEN 0 ELSE lens[i] - 1
           /\ (\A i \in 1 .. Len(lens) : lens[i] >= 1) =>
                \A k \in o + 1 .. o + Len(lens) : Marked(rows, k)
<1>. DEFINE pieces == OptionPieces(q, lens, where)
            n == Len(lens)
<1>1. /\ Len(pieces) = n /\ n \in Nat
      /\ \A i \in 1 .. n :
            /\ pieces[i].of = <<q, 0, i>> /\ pieces[i].len = lens[i]
            /\ pieces[i].mark = IF where = "first" THEN 0 ELSE lens[i] - 1
    <2>1. /\ Len(pieces) = n /\ n \in Nat
          /\ \A i \in 1 .. n : pieces[i] = [of |-> <<q, 0, i>>, len |-> lens[i],
                                         mark |-> IF where = "first" THEN 0 ELSE lens[i] - 1]
        BY OptionRows
    <2>. HIDE DEF pieces, n
    <2>. QED BY <2>1
<1>. HIDE DEF pieces, n
<1>2. /\ rows \in Seq(Piece) /\ o \in Nat /\ o + n <= Len(rows)
      /\ \A i \in 1 .. n : rows[o + i] = pieces[i]
      /\ \A k \in 1 .. Len(rows) : k \in o + 1 .. o + n \/ rows[k].mark = -1
    BY <1>1 DEF Holds, pieces
<1>3. Shows(rows, q, o, n)
    BY <1>1, <1>2 DEF Shows
<1>4. ASSUME \A i \in 1 .. n : lens[i] >= 1, NEW k \in o + 1 .. o + n
      PROVE  Marked(rows, k)
    <2>. DEFINE i == k - o
    <2>1. i \in 1 .. n /\ k = o + i
        BY <1>1, <1>2
    <2>. HIDE DEF i
    <2>2. lens[i] \in Nat /\ lens[i] >= 1
        BY <1>4, <2>1, LenProperties DEF n
    <2>3. rows[k].len = lens[i] /\ rows[k].mark = IF where = "first" THEN 0 ELSE lens[i] - 1
        BY <1>1, <1>2, <2>1
    <2>. QED BY <2>2, <2>3 DEF Marked
<1>. QED BY <1>1, <1>2, <1>3, <1>4 DEF n

\* Cut to n rows, the pieces have n rows or what they had, and lose nothing if they fit.
LEMMA CutRows ==
    ASSUME NEW pieces \in Seq(Piece), NEW n \in Nat
    PROVE  /\ CutTo(pieces, n) \in Seq(Piece) /\ Len(CutTo(pieces, n)) = Len(pieces)
           /\ \A k \in 1 .. Len(pieces) : /\ CutTo(pieces, n)[k].of = pieces[k].of
                                          /\ CutTo(pieces, n)[k].mark = pieces[k].mark
           /\ RowsOf(CutTo(pieces, n)) = Least(n, RowsOf(pieces))
           /\ RowsOf(pieces) <= n => CutTo(pieces, n) = pieces
<1>. DEFINE cut == CutTo(pieces, n)
            m == Len(pieces)
            lens == Lens(pieces)
            left(k) == Most(0, Least(pieces[k].len, n - Start(pieces, k)))
<1>1. /\ lens \in Seq(Nat) /\ Len(lens) = m /\ m \in Nat /\ RowsOf(pieces) = Total(lens)
      /\ DOMAIN pieces = 1 .. m
      /\ \A k \in 1 .. m : /\ pieces[k] \in Piece /\ lens[k] = pieces[k].len /\ pieces[k].len \in Nat
                           /\ Start(pieces, k) = SumTo(lens, k - 1) /\ Start(pieces, k) \in Nat
    BY Starts
<1>2. cut = [k \in 1 .. m |-> [pieces[k] EXCEPT !.len = left(k)]]
    BY <1>1 DEF CutTo
<1>3. \A k \in 1 .. m : left(k) \in Nat
    BY <1>1 DEF Most, Least
<1>. HIDE DEF cut, m, lens, left
<1>4. \A k \in 1 .. m : /\ cut[k] \in Piece /\ cut[k].len = left(k)
                        /\ cut[k].of = pieces[k].of /\ cut[k].mark = pieces[k].mark
    <2>. TAKE k \in 1 .. m
    <2>1. cut[k] = [pieces[k] EXCEPT !.len = left(k)]
        BY <1>2
    <2>2. pieces[k] \in Piece /\ left(k) \in Nat
        BY <1>1, <1>3
    <2>. QED BY <2>1, <2>2 DEF Piece
<1>5. cut \in Seq(Piece) /\ Len(cut) = m
    <2>1. cut \in [1 .. m -> Piece]
        BY <1>2, <1>4
    <2>. QED BY <1>1, <2>1, Listed
<1>. DEFINE cuts == Lens(cut)
<1>6. /\ cuts \in Seq(Nat) /\ Len(cuts) = m /\ RowsOf(cut) = Total(cuts)
      /\ \A k \in 1 .. m : cuts[k] = left(k)
    BY <1>4, <1>5, Starts
<1>. HIDE DEF cuts
<1>7. /\ SumTo(lens, 0) = 0 /\ Total(lens) = SumTo(lens, m)
      /\ \A k \in 0 .. m : SumTo(lens, k) \in Nat
      /\ \A k \in 1 .. m : SumTo(lens, k) = SumTo(lens, k - 1) + lens[k]
    BY <1>1, Sums
<1>8. /\ SumTo(cuts, 0) = 0 /\ Total(cuts) = SumTo(cuts, m)
      /\ \A k \in 1 .. m : SumTo(cuts, k) = SumTo(cuts, k - 1) + cuts[k]
    BY <1>6, Sums
<1>. DEFINE T == {k \in 0 .. m : SumTo(cuts, k) = Least(n, SumTo(lens, k))}
<1>9. 0 \in T
    BY <1>1, <1>7, <1>8 DEF Least
<1>10. ASSUME NEW k \in 0 .. m - 1, k \in T
       PROVE  k + 1 \in T
    <2>. DEFINE s == SumTo(lens, k)
                x == pieces[k + 1].len
    <2>1. k + 1 \in 1 .. m /\ k + 1 \in 0 .. m /\ (k + 1) - 1 = k /\ k \in 0 .. m
        BY <1>1
    <2>2. SumTo(cuts, k + 1) = Least(n, s) + Most(0, Least(x, n - s))
        BY <1>1, <1>6, <1>8, <1>10, <2>1 DEF left
    <2>3. SumTo(lens, k + 1) = s + x /\ s \in Nat /\ x \in Nat
        BY <1>1, <1>7, <2>1
    <2>. HIDE DEF s, x
    <2>4. Least(n, s) + Most(0, Least(x, n - s)) = Least(n, s + x)
        BY <2>3 DEF Least, Most
    <2>. QED BY <2>1, <2>2, <2>3, <2>4
<1>11. SumTo(cuts, m) = Least(n, SumTo(lens, m))
    <2>. HIDE DEF T
    <2>1. 0 .. m \subseteq T
        BY <1>1, <1>9, <1>10, Upto
    <2>2. m \in T
        BY <1>1, <2>1
    <2>. QED BY <2>2 DEF T
<1>12. ASSUME RowsOf(pieces) <= n
       PROVE  cut = pieces
    <2>1. ASSUME NEW k \in 1 .. m
          PROVE  cut[k] = pieces[k]
        <3>1. SumTo(lens, k) <= SumTo(lens, m)
            <4>1. k \in 0 .. Len(lens) /\ m \in k .. Len(lens)
                BY <1>1
            <4>. QED BY <1>1, <4>1, SumsGrow
        <3>. DEFINE s == SumTo(lens, k - 1)
                    x == pieces[k].len
        <3>2. /\ SumTo(lens, k) = s + x /\ s \in Nat /\ x \in Nat /\ s + x <= n
              /\ left(k) = Most(0, Least(x, n - s))
            <4>1. k - 1 \in 0 .. m /\ k \in 0 .. m /\ m \in 0 .. m
                BY <1>1
            <4>2. SumTo(lens, k) = s + x /\ s \in Nat /\ x \in Nat
                BY <1>1, <1>7, <4>1
            <4>3. SumTo(lens, k) \in Nat /\ SumTo(lens, m) \in Nat /\ SumTo(lens, m) <= n
                BY <1>1, <1>7, <1>12, <4>1
            <4>4. left(k) = Most(0, Least(x, n - s))
                BY <1>1 DEF left
            <4>. HIDE DEF s, x
            <4>. QED BY <3>1, <4>2, <4>3, <4>4
        <3>3. left(k) = x
            <4>. HIDE DEF s, x
            <4>. QED BY <3>2 DEF Least, Most
        <3>4. cut[k] = [pieces[k] EXCEPT !.len = pieces[k].len] /\ pieces[k] \in Piece
            BY <1>1, <1>2, <3>3
        <3>. QED BY <3>4 DEF Piece
    <2>. QED BY <1>1, <1>5, <2>1, SeqEqual DEF m
<1>. QED BY <1>1, <1>4, <1>5, <1>6, <1>7, <1>8, <1>11, <1>12 DEF cut, m

\* Pieces that are cut show what they showed.
LEMMA CutShows ==
    ASSUME NEW rows, NEW q, NEW o, NEW m, Shows(rows, q, o, m), NEW n \in Nat
    PROVE  Shows(CutTo(rows, n), q, o, m)
<1>1. /\ rows \in Seq(Piece) /\ o \in Nat /\ m \in Nat /\ o + m <= Len(rows)
      /\ \A i \in 1 .. m : rows[o + i].of = <<q, 0, i>>
      /\ \A k \in 1 .. Len(rows) : k \in o + 1 .. o + m \/ rows[k].mark = -1
    BY DEF Shows
<1>. DEFINE cut == CutTo(rows, n)
<1>2. /\ cut \in Seq(Piece) /\ Len(cut) = Len(rows) /\ Len(rows) \in Nat
      /\ \A k \in 1 .. Len(rows) : cut[k].of = rows[k].of /\ cut[k].mark = rows[k].mark
    BY <1>1, CutRows, LenProperties
<1>. HIDE DEF cut
<1>3. \A i \in 1 .. m : o + i \in 1 .. Len(rows)
    BY <1>1, <1>2
<1>4. Shows(cut, q, o, m)
    BY <1>1, <1>2, <1>3 DEF Shows
<1>. QED BY <1>4 DEF cut

LEMMA ShowsAfter ==
    ASSUME NEW rows, NEW q, NEW o, NEW m, Shows(rows, q, o, m), NEW head, Quiet(head)
    PROVE  Shows(head \o rows, q, Len(head) + o, m)
<1>1. /\ rows \in Seq(Piece) /\ o \in Nat /\ m \in Nat /\ o + m <= Len(rows) /\ Len(rows) \in Nat
      /\ \A i \in 1 .. m : rows[o + i].of = <<q, 0, i>>
      /\ \A k \in 1 .. Len(rows) : k \in o + 1 .. o + m \/ rows[k].mark = -1
    BY LenProperties DEF Shows
<1>. DEFINE pieces == [i \in 1 .. m |-> rows[o + i]]
<1>2. pieces \in Seq(Piece) /\ Len(pieces) = m /\ \A i \in 1 .. m : rows[o + i] = pieces[i]
    <2>1. \A i \in 1 .. m : o + i \in 1 .. Len(rows)
        BY <1>1
    <2>2. pieces \in [1 .. m -> Piece] /\ \A i \in 1 .. m : rows[o + i] = pieces[i]
        BY <1>1, <2>1, LenProperties
    <2>. HIDE DEF pieces
    <2>. QED BY <1>1, <2>2, Listed
<1>. HIDE DEF pieces
<1>3. Holds(rows, pieces, o)
    BY <1>1, <1>2 DEF Holds
<1>4. Holds(head \o rows, pieces, Len(head) + o)
    BY <1>3, HoldsAfter
<1>. QED BY <1>1, <1>2, <1>4 DEF Holds, Shows

-----------------------------------------------------------------------------
(* What is read from a prompt.                                             *)

LEMMA ReadMarkers ==
    ASSUME NEW q \in Int, NEW n \in Nat, NEW o, NEW p, p.labels = <<>>, p.spans = <<>>,
           Points(p.rows, p.markers, q, o, n)
    PROVE  Read(p) = Row(q, n)
<1>1. Said(p.rows, p.markers) = Row(q, n)
    BY MarkersRead
<1>2. [i \in DOMAIN p.spans |-> {p.spans[i]}] = <<>>
    OBVIOUS
<1>3. Row(q, n) \in Seq(SUBSET (Int \X Int \X Int))
    <2>. DEFINE r == Row(q, n)
    <2>1. r \in [1 .. n -> SUBSET (Int \X Int \X Int)]
        BY DEF Row
    <2>. HIDE DEF r
    <2>2. r \in Seq(SUBSET (Int \X Int \X Int))
        BY <2>1, Listed
    <2>. QED BY <2>2 DEF r
<1>4. <<>> \o Row(q, n) = Row(q, n)
    BY <1>3, ConcatEmptySeq
<1>5. Read(p) = [i \in DOMAIN p.spans |-> {p.spans[i]}] \o Said(p.rows, p.markers)
    BY DEF Read, Said
<1>. QED BY <1>1, <1>2, <1>4, <1>5, Zenon

\* What the request is made of.
Asking == /\ conf \in [family : Families, stateFirst : BOOLEAN]
          /\ req \in Requests(Family)

LEMMA Requested ==
    ASSUME Asking
    PROVE  /\ Len(req.questions) \in Nat \ {0}
           /\ DOMAIN req.questions = 1 .. Len(req.questions)
           /\ \A q \in 1 .. Len(req.questions) : req.questions[q] \in Questions(Family)
           /\ req.questions \in Seq(Questions(Family))
           /\ req.state \in Nat /\ req.media.rows \in Nat /\ req.media.files \in Nat
<1>1. PICK n \in 1 .. MaxQuestions : req.questions \in [1 .. n -> Questions(Family)]
    BY DEF Asking, Requests
<1>2. n \in Nat \ {0}
    BY SystemOneAssumption
<1>3. Len(req.questions) = n /\ req.questions \in Seq(Questions(Family))
    BY <1>1, <1>2, Listed
<1>4. req.state \in Nat
    <2>1. StateLensOf(Family) \subseteq Nat
        BY SystemOneAssumption DEF StateLensOf
    <2>. QED BY <2>1 DEF Asking, Requests
<1>5. req.media.rows \in Nat /\ req.media.files \in Nat
    <2>1. req.media \in MediaOf(Family)
        BY DEF Asking, Requests
    <2>2. \A m \in MediaOf(Family) : m.rows \in Nat /\ m.files \in Nat
        <3>1. NoMedia.rows \in Nat /\ NoMedia.files \in Nat
            BY DEF NoMedia
        <3>2. \A m \in [files : 1 .. 2, audio : BOOLEAN, rows : MediaRows] :
                m.rows \in Nat /\ m.files \in Nat
            <4>1. MediaRows \subseteq Nat
                BY SystemOneAssumption
            <4>. TAKE m \in [files : 1 .. 2, audio : BOOLEAN, rows : MediaRows]
            <4>2. m.rows \in MediaRows /\ m.files \in 1 .. 2
                OBVIOUS
            <4>3. m.rows \in Nat
                BY <4>1, <4>2, Zenon
            <4>4. \A x \in 1 .. 2 : x \in Nat
                OBVIOUS
            <4>5. m.files \in Nat
                BY <4>2, <4>4, Zenon
            <4>. QED BY <4>3, <4>5
        <3>. QED BY <3>1, <3>2 DEF MediaOf
    <2>. QED BY <2>1, <2>2
<1>. QED BY <1>1, <1>2, <1>3, <1>4, <1>5

LEMMA Asked ==
    ASSUME Asking, NEW q \in 1 .. Len(req.questions)
    PROVE  LET asked == req.questions[q]
               n == Len(asked.options)
           IN  /\ q \in Int /\ n \in Nat \ {0} /\ DOMAIN asked.options = 1 .. n
               /\ asked.text \in Nat
               /\ asked.type = "noul" => n = 2
               /\ LensOf(q) \in Seq(Nat) /\ Len(LensOf(q)) = n
               /\ \A i \in 1 .. n : /\ LensOf(q)[i] \in Nat /\ LensOf(q)[i] >= 1
                                    /\ asked.options[i].forms \in 1 .. 2
<1>. DEFINE asked == req.questions[q]
            options == asked.options
            n == Len(options)
<1>1. asked \in Questions(Family) /\ q \in Int
    BY Requested
<1>2. /\ asked \in [type : {"choice", "score", "noul"}, text : TextLensOf(Family),
                    options : UNION {[1 .. m -> Options(Family)] : m \in 1 .. MaxOptions}]
      /\ asked.type = "noul" => Len(asked.options) = 2
    BY <1>1 DEF Questions
<1>3. asked.text \in Nat
    <2>1. TextLensOf(Family) \subseteq Nat
        BY SystemOneAssumption DEF TextLensOf
    <2>. QED BY <1>2, <2>1
<1>4. PICK m \in 1 .. MaxOptions : options \in [1 .. m -> Options(Family)]
    BY <1>2
<1>5. m \in Nat \ {0}
    BY SystemOneAssumption
<1>6. n = m /\ DOMAIN options = 1 .. m
    <2>. HIDE DEF options
    <2>. QED BY <1>4, <1>5, Listed
<1>7. \A x \in Options(Family) : x.len \in Nat /\ x.len >= 1 /\ x.forms \in 1 .. 2
    <2>1. OptionLensOf(Family) \subseteq Nat \ {0}
        BY SystemOneAssumption DEF OptionLensOf
    <2>2. (IF Family = "groups" THEN 1 .. 2 ELSE {1}) \subseteq 1 .. 2
        OBVIOUS
    <2>3. \A x \in Options(Family) : x.len \in OptionLensOf(Family)
                                     /\ x.forms \in IF Family = "groups" THEN 1 .. 2 ELSE {1}
        BY DEF Options
    <2>. QED BY <2>1, <2>2, <2>3
<1>8. \A i \in 1 .. n : options[i] \in Options(Family)
    BY <1>4, <1>6
<1>. DEFINE lens == LensOf(q)
<1>9. lens = [i \in 1 .. n |-> options[i].len]
    BY <1>6 DEF LensOf
<1>. HIDE DEF lens, n, options
<1>10. /\ lens \in [1 .. n -> Nat] /\ n \in Nat
       /\ \A i \in 1 .. n : lens[i] \in Nat /\ lens[i] >= 1 /\ options[i].forms \in 1 .. 2
    BY <1>5, <1>6, <1>7, <1>8, <1>9
<1>11. lens \in Seq(Nat) /\ Len(lens) = n
    BY <1>10, Listed
<1>. QED BY <1>1, <1>2, <1>3, <1>5, <1>6, <1>10, <1>11 DEF lens, n, options

\* kev: each option is read at its end.
LEMMA KevReads ==
    ASSUME Asking, NEW q \in 1 .. Len(req.questions)
    PROVE  Read(FillKev(q)) = Row(q, Len(req.questions[q].options))
<1>. DEFINE n == Len(req.questions[q].options)
            lens == LensOf(q)
            pieces == OptionPieces(q, lens, "last")
            rows == <<Text(1)>> \o pieces \o <<Text(1)>>
            p == FillKev(q)
<1>1. /\ q \in Int /\ n \in Nat /\ lens \in Seq(Nat) /\ Len(lens) = n
      /\ \A i \in 1 .. n : lens[i] >= 1
    BY Asked
<1>2. p.labels = <<>> /\ p.spans = <<>> /\ p.rows = rows /\ p.markers = Marks(rows)
    BY DEF FillKev, Empty
<1>. HIDE DEF n, lens
<1>3. Holds(rows, pieces, 1)
    <2>0. pieces \in Seq(Piece)
        BY <1>1, OptionRows
    <2>. HIDE DEF pieces
    <2>1. Holds(pieces, pieces, 0)
        BY <2>0, HoldsSelf
    <2>2. Quiet(<<Text(1)>>) /\ Len(<<Text(1)>>) + 0 = 1
        <3>1. Quiet(<<Text(1)>>)
            BY TextQuiet
        <3>. HIDE DEF rows, p
        <3>2. \A t : Len(<<t>>) + 0 = 1
            OBVIOUS
        <3>. QED BY <3>1, <3>2
    <2>3. Holds(<<Text(1)>> \o pieces, pieces, Len(<<Text(1)>>) + 0)
        BY <2>1, <2>2, HoldsAfter, Zenon
    <2>4. Holds(<<Text(1)>> \o pieces, pieces, 1)
        BY <2>2, <2>3, Zenon
    <2>. QED BY <2>2, <2>4, HoldsBefore, Zenon
<1>. HIDE DEF rows, p
<1>4. Shows(rows, q, 1, n) /\ \A k \in 1 + 1 .. 1 + n : Marked(rows, k)
    <2>1. \A i \in 1 .. Len(lens) : lens[i] >= 1
        BY <1>1
    <2>. QED BY <1>1, <1>3, <2>1, HoldsShows
<1>5. /\ Marks(rows) \in Seq(Int) /\ Len(Marks(rows)) = n
      /\ \A i \in 1 .. n : Marks(rows)[i] = Start(rows, 1 + i) + rows[1 + i].mark
    BY <1>4, MarksFound
<1>6. Points(p.rows, p.markers, q, 1, n)
    <2>1. Points(rows, Marks(rows), q, 1, n)
        BY <1>4, <1>5 DEF Points
    <2>. QED BY <1>2, <2>1
<1>7. Read(p) = Row(q, n)
    BY <1>1, <1>2, <1>6, ReadMarkers
<1>. QED BY <1>7 DEF n, p

\* Options that are cut keep a row.
LEMMA CappedLens ==
    ASSUME NEW lens \in Seq(Nat), \A i \in 1 .. Len(lens) : lens[i] >= 1, NEW x \in Int, x >= 1
    PROVE  /\ Capped(lens, x) \in Seq(Nat) /\ Len(Capped(lens, x)) = Len(lens)
           /\ \A i \in 1 .. Len(lens) : Capped(lens, x)[i] >= 1
<1>. DEFINE n == Len(lens)
            cut == Capped(lens, x)
<1>1. n \in Nat /\ DOMAIN lens = 1 .. n /\ \A i \in 1 .. n : lens[i] \in Nat
    BY LenProperties
<1>2. cut = [i \in 1 .. n |-> Least(lens[i], x)]
    BY <1>1 DEF Capped
<1>3. \A i \in 1 .. n : Least(lens[i], x) \in Nat /\ Least(lens[i], x) >= 1
    BY <1>1 DEF Least
<1>. HIDE DEF n, cut
<1>4. cut \in [1 .. n -> Nat] /\ \A i \in 1 .. n : cut[i] >= 1
    BY <1>2, <1>3
<1>5. cut \in Seq(Nat) /\ Len(cut) = n
    BY <1>1, <1>4, Listed
<1>. QED BY <1>4, <1>5 DEF n, cut

LEMMA LayaCut ==
    ASSUME NEW lens \in Seq(Nat), Len(lens) >= 1, \A i \in 1 .. Len(lens) : lens[i] >= 1
    PROVE  /\ LayaOptions(lens) \in Seq(Nat) /\ Len(LayaOptions(lens)) = Len(lens)
           /\ \A i \in 1 .. Len(lens) : LayaOptions(lens)[i] >= 1
<1>. DEFINE x == Most(4, (MaxHead - Least(MaxHead, 16)) \div Len(lens))
<1>1. x \in Int /\ x >= 1
    <2>1. Len(lens) \in Nat /\ Len(lens) > 0 /\ MaxHead \in Nat
        BY SystemOneAssumption, LenProperties
    <2>2. MaxHead - Least(MaxHead, 16) \in Int
        BY <2>1 DEF Least
    <2>. DEFINE y == MaxHead - Least(MaxHead, 16)
                z == Len(lens)
    <2>3. y \in Int /\ z \in Int /\ z > 0
        BY <2>1, <2>2
    <2>. HIDE DEF y, z
    <2>4. y \div z \in Int
        BY <2>3
    <2>. DEFINE d == y \div z
    <2>. HIDE DEF d
    <2>5. Most(4, d) \in Int /\ Most(4, d) >= 1
        BY <2>4 DEF Most, d
    <2>. QED BY <2>5 DEF d, y, z
<1>. HIDE DEF x
<1>2. LayaOptions(lens) \in {Capped(lens, 49), Capped(Capped(lens, 49), x)}
    BY DEF LayaOptions, x
<1>3. 49 \in Int /\ 49 >= 1
    OBVIOUS
<1>4. /\ Capped(lens, 49) \in Seq(Nat) /\ Len(Capped(lens, 49)) = Len(lens)
      /\ \A i \in 1 .. Len(lens) : Capped(lens, 49)[i] >= 1
    BY <1>3, CappedLens
<1>. DEFINE c == Capped(lens, 49)
<1>5. c \in Seq(Nat) /\ Len(c) = Len(lens) /\ \A i \in 1 .. Len(c) : c[i] >= 1
    BY <1>4
<1>. HIDE DEF c
<1>6. /\ Capped(c, x) \in Seq(Nat) /\ Len(Capped(c, x)) = Len(c)
      /\ \A i \in 1 .. Len(c) : Capped(c, x)[i] >= 1
    BY <1>1, <1>5, CappedLens
<1>. QED BY <1>2, <1>4, <1>5, <1>6 DEF c

\* laya: the marker rows counted by hand are the rows of the markers.
LEMMA LayaReads ==
    ASSUME Asking, NEW q \in 1 .. Len(req.questions)
    PROVE  Read(FillLaya(q)) = Row(q, Len(req.questions[q].options))
<1>. DEFINE n == Len(req.questions[q].options)
            lens == LensOf(q)
            cut == LayaOptions(lens)
            text == Least(req.questions[q].text, Most(8, MaxHead - Least(MaxHead, Total(cut))))
            pieces == OptionPieces(q, cut, "first")
            head == <<Text(1), Text(text), Text(1)>>
            tail == <<Text(2 + req.state)>>
            rows == head \o pieces \o tail
            markers == LayaMarkers(lens, cut, text + 2)
            p == FillLaya(q)
<1>1. /\ q \in Int /\ n \in Nat \ {0} /\ lens \in Seq(Nat) /\ Len(lens) = n
      /\ req.questions[q].text \in Nat /\ \A i \in 1 .. n : lens[i] >= 1
    BY Asked
<1>2. p.labels = <<>> /\ p.spans = <<>> /\ p.rows = rows /\ p.markers = markers
    BY DEF FillLaya, Empty
<1>. HIDE DEF n, lens, p
<1>3. cut \in Seq(Nat) /\ Len(cut) = n /\ \A i \in 1 .. n : cut[i] >= 1
    <2>1. Len(lens) >= 1 /\ \A i \in 1 .. Len(lens) : lens[i] >= 1
        BY <1>1
    <2>. QED BY <1>1, <2>1, LayaCut
<1>. HIDE DEF cut
<1>4. text \in Nat /\ text + 2 = (1 + text) + 1
    <2>1. Total(cut) \in Nat /\ MaxHead \in Nat
        <3>1. Len(cut) \in 0 .. Len(cut)
            BY <1>1, <1>3
        <3>. QED BY <1>3, <3>1, Sums, SystemOneAssumption
    <2>2. Most(8, MaxHead - Least(MaxHead, Total(cut))) \in Nat
        BY <2>1 DEF Most, Least
    <2>3. text \in Nat
        BY <1>1, <2>2 DEF Least
    <2>. HIDE DEF text
    <2>. QED BY <2>3
<1>5. 2 + req.state \in Nat
    BY Requested
<1>. HIDE DEF text
<1>6. Quiet(head) /\ RowsOf(head) = 1 + text + 1 /\ Len(head) = 3
    <2>1. Quiet(head) /\ RowsOf(head) = 1 + text + 1
        <3>1. 1 \in Nat /\ text \in Nat
            BY <1>4
        <3>. QED BY <3>1, TextQuiet, Zenon
    <2>2. \A x, y, z : Len(<<x, y, z>>) = 3
        OBVIOUS
    <2>. QED BY <2>1, <2>2
<1>7. Quiet(tail)
    BY <1>5, TextQuiet
<1>8. /\ pieces \in Seq(Piece) /\ Len(pieces) = n /\ Lens(pieces) = cut
      /\ Holds(pieces, pieces, 0)
    BY <1>1, <1>3, OptionRows, HoldsSelf
<1>. HIDE DEF head, tail, pieces
<1>9. Holds(rows, pieces, 3)
    <2>1. Holds(head \o pieces, pieces, Len(head) + 0)
        BY <1>6, <1>8, HoldsAfter, Zenon
    <2>2. Len(head) + 0 = 3
        BY <1>6
    <2>3. Holds(head \o pieces, pieces, 3)
        BY <2>1, <2>2, Zenon
    <2>. QED BY <1>7, <2>3, HoldsBefore, Zenon
<1>10. /\ Shows(rows, q, 3, n) /\ \A k \in 3 + 1 .. 3 + n : Marked(rows, k)
       /\ \A i \in 1 .. n : rows[3 + i].mark = 0
    <2>1. \A i \in 1 .. Len(cut) : cut[i] >= 1
        BY <1>3
    <2>2. Holds(rows, OptionPieces(q, cut, "first"), 3)
        BY <1>9 DEF pieces
    <2>. HIDE DEF rows, markers
    <2>3. /\ Shows(rows, q, 3, Len(cut))
          /\ \A i \in 1 .. Len(cut) : rows[3 + i].mark = IF "first" = "first" THEN 0 ELSE cut[i] - 1
          /\ (\A i \in 1 .. Len(cut) : cut[i] >= 1) =>
               \A k \in 3 + 1 .. 3 + Len(cut) : Marked(rows, k)
        BY <1>1, <1>3, <2>2, HoldsShows, Zenon
    <2>. QED BY <1>3, <2>1, <2>3
<1>11. /\ head \in Seq(Piece) /\ tail \in Seq(Piece)
       /\ head \o pieces \in Seq(Piece) /\ Lens(head \o pieces) = Lens(head) \o cut
       /\ Lens(rows) = Lens(head \o pieces) \o Lens(tail)
    <2>1. head \in Seq(Piece) /\ tail \in Seq(Piece)
        BY <1>6, <1>7 DEF Quiet
    <2>2. head \o pieces \in Seq(Piece) /\ Lens(head \o pieces) = Lens(head) \o Lens(pieces)
        BY <1>8, <2>1, RowsConcat
    <2>3. Lens((head \o pieces) \o tail) = Lens(head \o pieces) \o Lens(tail)
        BY <2>1, <2>2, RowsConcat
    <2>. QED BY <1>8, <2>1, <2>2, <2>3
<1>12. ASSUME NEW i \in 1 .. n
       PROVE  Start(rows, 3 + i) = (text + 2) + SumTo(cut, i - 1)
    <2>. DEFINE lh == Lens(head)
                lt == Lens(tail)
                k == i - 1
    <2>1. /\ lh \in Seq(Nat) /\ Len(lh) = 3 /\ Total(lh) = text + 2 /\ lt \in Seq(Nat)
        BY <1>4, <1>6, <1>11, Starts
    <2>. HIDE DEF lh, lt
    <2>2. k \in 0 .. Len(cut) /\ 3 + k \in 0 .. 3 + n /\ (3 + i) - 1 = 3 + k
        BY <1>1, <1>3
    <2>. HIDE DEF k
    <2>3. /\ lh \o cut \in Seq(Nat) /\ Len(lh \o cut) = 3 + n
          /\ SumTo(lh \o cut, Len(lh) + k) = Total(lh) + SumTo(cut, k)
        <3>. HIDE DEF rows, markers
        <3>1. /\ lh \o cut \in Seq(Nat) /\ Len(lh \o cut) = Len(lh) + Len(cut)
              /\ \A j \in 0 .. Len(cut) : SumTo(lh \o cut, Len(lh) + j) = Total(lh) + SumTo(cut, j)
            BY <1>3, <2>1, SumsConcat
        <3>2. Len(lh) + Len(cut) = 3 + n
            BY <1>3, <2>1
        <3>. QED BY <2>2, <3>1, <3>2, Zenon
    <2>4. SumTo((lh \o cut) \o lt, 3 + k) = SumTo(lh \o cut, 3 + k)
        <3>1. 3 + k \in 0 .. Len(lh \o cut)
            BY <2>2, <2>3
        <3>. DEFINE a == lh \o cut
        <3>2. a \in Seq(Nat) /\ 3 + k \in 0 .. Len(a)
            BY <2>3, <3>1
        <3>. HIDE DEF a
        <3>3. SumTo(a \o lt, 3 + k) = SumTo(a, 3 + k)
            BY <2>1, <3>2, SumsConcat
        <3>. QED BY <3>3 DEF a
    <2>5. Start(rows, 3 + i) = SumTo(Lens(rows), (3 + i) - 1)
        <3>1. rows \in Seq(Piece) /\ 3 + i \in 1 .. Len(rows)
            <4>1. rows \in Seq(Piece) /\ 3 + n <= Len(rows)
                BY <1>8, <1>9 DEF Holds
            <4>2. Len(rows) \in Nat
                BY <4>1, LenProperties
            <4>. HIDE DEF rows
            <4>. QED BY <1>1, <4>1, <4>2
        <3>. HIDE DEF rows
        <3>. QED BY <3>1, Starts
    <2>6. Lens(rows) = (lh \o cut) \o lt
        BY <1>11 DEF lh, lt
    <2>7. Start(rows, 3 + i) = SumTo((lh \o cut) \o lt, 3 + k)
        BY <2>2, <2>5, <2>6
    <2>8. Len(lh) + k = 3 + k
        BY <2>1
    <2>. QED BY <2>1, <2>3, <2>4, <2>7, <2>8 DEF k
<1>13. /\ markers \in Seq(Int) /\ Len(markers) = n
       /\ \A i \in 1 .. n : markers[i] = Start(rows, 3 + i) + rows[3 + i].mark
    <2>1. DOMAIN cut = 1 .. n
        BY <1>3, LenProperties
    <2>2. markers = [i \in 1 .. n |-> (text + 2) + SumTo(cut, i - 1)]
        BY <2>1 DEF LayaMarkers, SumTo
    <2>3. \A i \in 1 .. n : (text + 2) + SumTo(cut, i - 1) \in Int
        <3>1. \A i \in 1 .. n : i - 1 \in 0 .. Len(cut)
            BY <1>1, <1>3
        <3>2. \A i \in 1 .. n : SumTo(cut, i - 1) \in Nat
            BY <1>3, <3>1, Sums
        <3>. QED BY <1>4, <3>2
    <2>. HIDE DEF markers, rows
    <2>4. markers \in [1 .. n -> Int]
        BY <2>2, <2>3
    <2>5. markers \in Seq(Int) /\ Len(markers) = n
        BY <1>1, <2>4, Listed
    <2>6. ASSUME NEW i \in 1 .. n
          PROVE  markers[i] = Start(rows, 3 + i) + rows[3 + i].mark
        <3>1. markers[i] = (text + 2) + SumTo(cut, i - 1) /\ (text + 2) + SumTo(cut, i - 1) \in Int
            BY <2>2, <2>3
        <3>2. Start(rows, 3 + i) = (text + 2) + SumTo(cut, i - 1) /\ rows[3 + i].mark = 0
            BY <1>10, <1>12
        <3>. QED BY <3>1, <3>2
    <2>. QED BY <2>5, <2>6
<1>14. Points(p.rows, p.markers, q, 3, n)
    <2>1. Points(rows, markers, q, 3, n)
        BY <1>10, <1>13 DEF Points
    <2>. QED BY <1>2, <2>1
<1>15. Read(p) = Row(q, n)
    BY <1>1, <1>2, <1>14, ReadMarkers
<1>. QED BY <1>15 DEF n, p

LEMMA OmniMaxNat ==
    ASSUME Asking
    PROVE  OmniMax \in Nat
<1>1. req.media.rows \in Nat
    BY Requested
<1>2. 16384 - Least(16384, req.media.rows) \in Nat
    BY <1>1 DEF Least
<1>. DEFINE x == 16384 - Least(16384, req.media.rows)
            y == IF req.media.audio THEN 15360 ELSE 896
<1>3. y \in Nat
    OBVIOUS
<1>4. OmniMax = IF req.media.files = 0 THEN 16384 ELSE Least(y, x)
    BY DEF OmniMax
<1>. HIDE DEF x, y
<1>5. Least(y, x) \in Nat
    BY <1>2, <1>3 DEF Least, x
<1>. QED BY <1>4, <1>5

\* The lengths of the options that lfm2-d1-omni shows.
OmniLens(q) ==
  LET n == Len(req.questions[q].options)
      budget == Most(96, Least(24 * n + 32, OmniMax \div 2))
  IN  Capped(LensOf(q), Most(2, (budget - 3 * n) \div n))

\* The pieces around the state: a text of two pieces, then the options, none of them empty.
LEMMA OmniPieces ==
    ASSUME Asking, NEW q \in 1 .. Len(req.questions)
    PROVE  LET n == Len(req.questions[q].options)
               lens == OmniLens(q)
               pieces == OptionPieces(q, lens, "first")
               around == OmniAround(q)
           IN  /\ q \in Int /\ n \in Nat
               /\ lens \in Seq(Nat) /\ Len(lens) = n /\ \A i \in 1 .. n : lens[i] >= 1
               /\ Holds(around, pieces, 2) /\ RowsOf(around) \in Nat
<1>. DEFINE n == Len(req.questions[q].options)
            lens == OmniLens(q)
            pieces == OptionPieces(q, lens, "first")
            around == OmniAround(q)
            budget == Most(96, Least(24 * n + 32, OmniMax \div 2))
            text == Least(req.questions[q].text, Most(16, budget))
            x == Most(2, (budget - 3 * n) \div n)
            head == <<Text(1), Text(text)>>
<1>1. /\ q \in Int /\ n \in Nat \ {0} /\ LensOf(q) \in Seq(Nat) /\ Len(LensOf(q)) = n
      /\ req.questions[q].text \in Nat /\ \A i \in 1 .. n : LensOf(q)[i] >= 1
    BY Asked
<1>2. around = head \o pieces /\ lens = Capped(LensOf(q), x)
    BY DEF OmniAround, OmniLens
<1>. HIDE DEF n
<1>3. budget \in Nat
    <2>1. OmniMax \in Nat
        BY OmniMaxNat
    <2>. DEFINE y == 24 * n + 32
                z == OmniMax \div 2
    <2>2. y \in Nat /\ z \in Nat
        BY <1>1, <2>1
    <2>. HIDE DEF y, z
    <2>3. Most(96, Least(y, z)) \in Nat
        BY <2>2 DEF Most, Least
    <2>. QED BY <2>3 DEF y, z
<1>. HIDE DEF budget
<1>4. text \in Nat
    BY <1>1, <1>3 DEF Most, Least
<1>5. x \in Int /\ x >= 1
    <2>. DEFINE y == budget - 3 * n
                d == y \div n
    <2>1. y \in Int /\ n \in Int /\ n > 0
        BY <1>1, <1>3
    <2>. HIDE DEF y
    <2>2. d \in Int
        BY <2>1
    <2>. HIDE DEF d
    <2>3. Most(2, d) \in Int /\ Most(2, d) >= 1
        BY <2>2 DEF Most
    <2>. QED BY <2>3 DEF d, y
<1>. HIDE DEF text, x
<1>6. lens \in Seq(Nat) /\ Len(lens) = n /\ \A i \in 1 .. n : lens[i] >= 1
    <2>1. \A i \in 1 .. Len(LensOf(q)) : LensOf(q)[i] >= 1
        BY <1>1
    <2>. HIDE DEF lens
    <2>. QED BY <1>1, <1>2, <1>5, <2>1, CappedLens
<1>7. Quiet(head) /\ Len(head) + 0 = 2
    <2>1. 1 \in Nat /\ text \in Nat
        BY <1>4
    <2>2. Quiet(head)
        BY <2>1, TextQuiet, Zenon
    <2>3. \A a, b : Len(<<a, b>>) + 0 = 2
        OBVIOUS
    <2>. QED BY <2>2, <2>3
<1>. HIDE DEF head, lens
<1>8. pieces \in Seq(Piece) /\ Holds(pieces, pieces, 0)
    BY <1>1, <1>6, OptionRows, HoldsSelf
<1>. HIDE DEF pieces
<1>9. Holds(head \o pieces, pieces, 2)
    <2>1. Holds(head \o pieces, pieces, Len(head) + 0)
        BY <1>7, <1>8, HoldsAfter, Zenon
    <2>. QED BY <1>7, <2>1, Zenon
<1>10. RowsOf(head \o pieces) \in Nat
    <2>1. head \o pieces \in Seq(Piece) /\ <<>> \in Seq(Piece)
        BY <1>9 DEF Holds
    <2>. DEFINE r == head \o pieces
    <2>. HIDE DEF r
    <2>2. r \in Seq(Piece) /\ <<>> \in Seq(Piece)
        BY <2>1 DEF r
    <2>3. RowsOf(r) \in Nat
        BY <2>2, RowsConcat, Zenon
    <2>. QED BY <2>3 DEF r
<1>. HIDE DEF around
<1>11. Holds(around, pieces, 2) /\ RowsOf(around) \in Nat
    BY <1>2, <1>9, <1>10
<1>. QED BY <1>1, <1>6, <1>11 DEF n, lens, pieces, around

\* The prompt after its media: what it shows, and how many rows it wants.
LEMMA OmniWanted ==
    ASSUME Asking, NEW q \in 1 .. Len(req.questions)
    PROVE  \E all, o :
             /\ FillOmni(q) = [Empty EXCEPT !.rows = <<Text(req.media.rows)>> \o CutTo(all, OmniMax),
                                            !.markers = Marks(<<Text(req.media.rows)>> \o CutTo(all, OmniMax))]
             /\ Holds(all, OptionPieces(q, OmniLens(q), "first"), o)
             /\ RowsOf(all) = RowsOf(OmniAround(q))
                                + Least(req.state, OmniMax - Least(OmniMax, RowsOf(OmniAround(q))))
<1>. DEFINE around == OmniAround(q)
            pieces == OptionPieces(q, OmniLens(q), "first")
            size == Least(req.state, OmniMax - Least(OmniMax, RowsOf(around)))
            body == <<Text(size)>>
            before == <<>> \o body \o around
            after == around \o body \o <<>>
            all == IF conf.stateFirst THEN before ELSE after
            rows == <<Text(req.media.rows)>> \o CutTo(all, OmniMax)
<1>1. Holds(around, pieces, 2) /\ RowsOf(around) \in Nat
    BY OmniPieces
<1>2. OmniMax \in Nat /\ req.state \in Nat
    BY OmniMaxNat, Requested
<1>. HIDE DEF around, pieces
<1>3. size \in Nat
    <2>1. OmniMax - Least(OmniMax, RowsOf(around)) \in Nat
        BY <1>1, <1>2 DEF Least
    <2>. DEFINE y == OmniMax - Least(OmniMax, RowsOf(around))
    <2>. HIDE DEF y
    <2>2. Least(req.state, y) \in Nat
        BY <1>2, <2>1 DEF Least, y
    <2>. QED BY <2>2 DEF y
<1>4. RowsOf(<<>>) = 0 /\ Quiet(<<>>)
    <2>1. 1 \in Nat
        OBVIOUS
    <2>. QED BY <2>1, TextQuiet, Zenon
<1>5. FillOmni(q) = [Empty EXCEPT !.rows = rows, !.markers = Marks(rows)]
    <2>1. CASE conf.stateFirst
        <3>1. Room(<<>>, around) = OmniMax - Least(OmniMax, RowsOf(around))
            <4>1. RowsOf(<<>>) + RowsOf(around) = RowsOf(around)
                BY <1>1, <1>4
            <4>. QED BY <4>1 DEF Room
        <3>. QED BY <2>1, <3>1 DEF FillOmni, around
    <2>2. CASE ~conf.stateFirst
        <3>1. Room(around, <<>>) = OmniMax - Least(OmniMax, RowsOf(around))
            <4>1. RowsOf(around) + RowsOf(<<>>) = RowsOf(around)
                BY <1>1, <1>4
            <4>. QED BY <4>1 DEF Room
        <3>. QED BY <2>2, <3>1 DEF FillOmni, around
    <2>. QED BY <2>1, <2>2
<1>. HIDE DEF size
<1>6. Quiet(body) /\ RowsOf(body) = size
    BY <1>3, TextQuiet, Zenon
<1>. HIDE DEF body, rows
<1>7. around \in Seq(Piece) /\ body \in Seq(Piece) /\ <<>> \in Seq(Piece)
    BY <1>1, <1>6 DEF Holds, Quiet
<1>8. <<>> \o body = body
    BY <1>7, ConcatEmptySeq
<1>9. around \o body \in Seq(Piece) /\ (around \o body) \o <<>> = around \o body
    <2>1. around \o body \in Seq(Piece)
        BY <1>7, ConcatProperties
    <2>. QED BY <2>1, ConcatEmptySeq
<1>10. \E o : Holds(all, pieces, o)
    <2>1. Holds(body \o around, pieces, Len(body) + 2)
        BY <1>1, <1>6, HoldsAfter, Zenon
    <2>2. Holds(around \o body, pieces, 2)
        BY <1>1, <1>6, HoldsBefore, Zenon
    <2>3. all = body \o around \/ all = around \o body
        BY <1>8, <1>9
    <2>. HIDE DEF all
    <2>. QED BY <2>1, <2>2, <2>3
<1>11. RowsOf(all) = RowsOf(around) + size
    <2>1. RowsOf(body \o around) = RowsOf(body) + RowsOf(around)
        BY <1>7, RowsConcat, Zenon
    <2>2. RowsOf(around \o body) = RowsOf(around) + RowsOf(body)
        BY <1>7, RowsConcat, Zenon
    <2>3. all = body \o around \/ all = around \o body
        BY <1>8, <1>9
    <2>4. size + RowsOf(around) = RowsOf(around) + size
        BY <1>1, <1>3
    <2>. HIDE DEF all
    <2>. QED BY <1>6, <2>1, <2>2, <2>3, <2>4
<1>. HIDE DEF all
<1>. QED BY <1>5, <1>10, <1>11 DEF rows, around, pieces, size

\* lfm2-d1-omni: if the markers found are as many as the options, they are the options'; if
\* they are fewer, the options do not fit without a state; and the prompt is filled.
LEMMA OmniReads ==
    ASSUME Asking, NEW q \in 1 .. Len(req.questions)
    PROVE  LET n == Len(req.questions[q].options)
           IN  /\ Len(FillOmni(q).markers) = n => Read(FillOmni(q)) = Row(q, n)
               /\ Len(FillOmni(q).markers) # n => RowsOf(OmniAround(q)) > OmniMax
               /\ RowsOf(FillOmni(q).rows)
                    = req.media.rows + Least(OmniMax, RowsOf(OmniAround(q)) + req.state)
<1>. DEFINE n == Len(req.questions[q].options)
            lens == OmniLens(q)
            pieces == OptionPieces(q, lens, "first")
            around == RowsOf(OmniAround(q))
            media == <<Text(req.media.rows)>>
            p == FillOmni(q)
<1>1. /\ q \in Int /\ n \in Nat /\ lens \in Seq(Nat) /\ Len(lens) = n
      /\ \A i \in 1 .. n : lens[i] >= 1
      /\ around \in Nat
    BY OmniPieces
<1>2. PICK all, o :
        /\ p = [Empty EXCEPT !.rows = media \o CutTo(all, OmniMax),
                             !.markers = Marks(media \o CutTo(all, OmniMax))]
        /\ Holds(all, pieces, o)
        /\ RowsOf(all) = around + Least(req.state, OmniMax - Least(OmniMax, around))
    BY OmniWanted
<1>. DEFINE cut == CutTo(all, OmniMax)
            rows == media \o cut
<1>3. p.labels = <<>> /\ p.spans = <<>> /\ p.rows = rows /\ p.markers = Marks(rows)
    BY <1>2 DEF Empty
<1>. HIDE DEF p, n, lens, around
<1>4. OmniMax \in Nat /\ req.state \in Nat /\ req.media.rows \in Nat
    BY OmniMaxNat, Requested
<1>5. Quiet(media) /\ RowsOf(media) = req.media.rows /\ media \in Seq(Piece) /\ Len(media) = 1
    <2>1. Quiet(media) /\ RowsOf(media) = req.media.rows
        BY <1>4, TextQuiet, Zenon
    <2>2. \A t : Len(<<t>>) = 1
        OBVIOUS
    <2>. QED BY <2>1, <2>2 DEF Quiet
<1>. HIDE DEF media
<1>6. all \in Seq(Piece)
    BY <1>2 DEF Holds
<1>7. /\ cut \in Seq(Piece) /\ RowsOf(cut) = Least(OmniMax, RowsOf(all))
      /\ RowsOf(all) <= OmniMax => cut = all
    BY <1>4, <1>6, CutRows
<1>8. Shows(all, q, o, n)
    <2>1. Shows(all, q, o, Len(lens))
        BY <1>1, <1>2, HoldsShows, Zenon
    <2>. QED BY <1>1, <2>1
<1>9. Shows(rows, q, 1 + o, n)
    <2>1. Shows(cut, q, o, n)
        BY <1>4, <1>8, CutShows, Zenon
    <2>. HIDE DEF cut
    <2>2. Shows(media \o cut, q, Len(media) + o, n)
        BY <1>5, <2>1, ShowsAfter, Zenon
    <2>. QED BY <1>5, <2>2, Zenon
<1>10. /\ Marks(rows) \in Seq(Int)
       /\ Len(Marks(rows)) = n <=> \A k \in (1 + o) + 1 .. (1 + o) + n : Marked(rows, k)
       /\ Len(Marks(rows)) = n =>
            \A i \in 1 .. n : Marks(rows)[i] = Start(rows, (1 + o) + i) + rows[(1 + o) + i].mark
    <2>. DEFINE from == 1 + o
    <2>1. Shows(rows, q, from, n)
        BY <1>9
    <2>. HIDE DEF rows, from
    <2>2. /\ Marks(rows) \in Seq(Int)
          /\ Len(Marks(rows)) = n <=> \A k \in from + 1 .. from + n : Marked(rows, k)
          /\ Len(Marks(rows)) = n =>
               \A i \in 1 .. n : Marks(rows)[i] = Start(rows, from + i) + rows[from + i].mark
        BY <2>1, MarksFound
    <2>. QED BY <2>2 DEF from
<1>11. ASSUME Len(p.markers) = n
       PROVE  Read(p) = Row(q, n)
    <2>1. Points(rows, Marks(rows), q, 1 + o, n)
        <3>. HIDE DEF rows
        <3>. QED BY <1>3, <1>9, <1>10, <1>11 DEF Points
    <2>2. Points(p.rows, p.markers, q, 1 + o, n)
        <3>. HIDE DEF rows
        <3>. QED BY <1>3, <2>1
    <2>. QED BY <1>1, <1>3, <2>2, ReadMarkers
<1>12. ASSUME around <= OmniMax
       PROVE  Len(p.markers) = n
    <2>1. RowsOf(all) <= OmniMax
        BY <1>1, <1>2, <1>4, <1>12 DEF Least
    <2>2. rows = media \o all
        BY <1>7, <2>1
    <2>3. Holds(media \o all, pieces, Len(media) + o)
        BY <1>2, <1>5, HoldsAfter, Zenon
    <2>4. Holds(rows, pieces, 1 + o)
        BY <1>5, <2>2, <2>3, Zenon
    <2>. HIDE DEF rows
    <2>5. (\A i \in 1 .. Len(lens) : lens[i] >= 1) =>
             \A k \in (1 + o) + 1 .. (1 + o) + Len(lens) : Marked(rows, k)
        BY <1>1, <2>4, HoldsShows, Zenon
    <2>6. \A k \in (1 + o) + 1 .. (1 + o) + n : Marked(rows, k)
        BY <1>1, <2>5
    <2>7. Len(Marks(rows)) = n
        BY <1>10, <2>6, Zenon
    <2>. QED BY <1>3, <2>7
<1>13. RowsOf(p.rows) = req.media.rows + Least(OmniMax, around + req.state)
    <2>1. RowsOf(p.rows) = RowsOf(media) + RowsOf(cut)
        <3>. HIDE DEF cut
        <3>1. RowsOf(media \o cut) = RowsOf(media) + RowsOf(cut)
            BY <1>5, <1>7, RowsConcat, Zenon
        <3>. QED BY <1>3, <3>1
    <2>2. Least(OmniMax, RowsOf(all)) = Least(OmniMax, around + req.state)
        BY <1>1, <1>2, <1>4 DEF Least
    <2>. QED BY <1>5, <1>7, <2>1, <2>2
<1>14. Len(p.markers) # n => around > OmniMax
    BY <1>1, <1>4, <1>12
<1>. QED BY <1>11, <1>13, <1>14 DEF p, n, around

\* The outputs in the order they are shown in.
Shown(q, n, v) == [i \in 1 .. n |-> {Label(q, n, v, i)}]

LEMMA ShownFirst ==
    ASSUME NEW q, NEW n
    PROVE  Shown(q, n, 0) = Row(q, n)
BY DEF Shown, Row, Label

LEMMA LabelsRead ==
    ASSUME NEW q, NEW v, NOutputs(req.questions[q]) \in Nat \ {0}
    PROVE  Read(FillLabels(q, v)) = Shown(q, NOutputs(req.questions[q]), v)
<1>. DEFINE n == NOutputs(req.questions[q])
            labels == [i \in 1 .. n |-> Label(q, n, v, i)]
            p == FillLabels(q, v)
<1>1. p.labels = labels /\ p.groups = <<>>
    BY DEF FillLabels, Empty
<1>0. n \in Nat \ {0}
    OBVIOUS
<1>. HIDE DEF p
<1>2. DOMAIN labels = 1 .. n /\ 1 \in 1 .. n /\ \A i \in 1 .. n : labels[i] = Label(q, n, v, i)
    <2>. HIDE DEF n
    <2>. QED BY <1>0
<1>. HIDE DEF labels, n
<1>3. labels # <<>>
    <2>1. DOMAIN <<>> = {}
        OBVIOUS
    <2>. QED BY <1>2, <2>1
<1>4. Read(p) = [i \in DOMAIN labels |-> {labels[i]}]
    BY <1>1, <1>3 DEF Read, Regrouped
<1>5. [i \in DOMAIN labels |-> {labels[i]}] = [i \in 1 .. n |-> {Label(q, n, v, i)}]
    BY <1>2
<1>. QED BY <1>4, <1>5 DEF Shown, n, p

\* lfm2-d1: a group is all the labels of its option, and no others.
LEMMA GroupsRead ==
    ASSUME Asking, NEW q \in 1 .. Len(req.questions)
    PROVE  Read(FillGroups(q)) = Row(q, Len(req.questions[q].options))
<1>. DEFINE options == req.questions[q].options
            n == Len(options)
            forms == [i \in DOMAIN options |-> options[i].forms]
            ss == [i \in DOMAIN forms |-> [f \in 1 .. forms[i] |-> <<q, 0, i>>]]
            labels == FlattenSeq(ss)
            Out == Int \X Int \X Int
            p == FillGroups(q)
<1>1. /\ q \in Int /\ n \in Nat \ {0} /\ DOMAIN options = 1 .. n
      /\ \A i \in 1 .. n : options[i].forms \in 1 .. 2
    BY Asked
<1>2. p.labels = labels /\ p.groups = forms
    BY DEF FillGroups, Empty
<1>. HIDE DEF p, n, options
<1>3. /\ forms \in [1 .. n -> Nat] /\ DOMAIN forms = 1 .. n
      /\ \A i \in 1 .. n : forms[i] \in Nat /\ forms[i] >= 1
    BY <1>1
<1>4. forms \in Seq(Nat) /\ Len(forms) = n
    <2>. HIDE DEF forms
    <2>. QED BY <1>1, <1>3, Listed
<1>. HIDE DEF forms
<1>5. \A i \in 1 .. n : /\ ss[i] = [f \in 1 .. forms[i] |-> <<q, 0, i>>]
                        /\ ss[i] \in Seq(Out) /\ Len(ss[i]) = forms[i]
                        /\ \A f \in 1 .. forms[i] : ss[i][f] = <<q, 0, i>>
    <2>. TAKE i \in 1 .. n
    <2>1. ss[i] = [f \in 1 .. forms[i] |-> <<q, 0, i>>]
        BY <1>3
    <2>. HIDE DEF ss
    <2>2. forms[i] \in Nat /\ ss[i] \in [1 .. forms[i] -> Out]
        BY <1>1, <1>3, <2>1
    <2>. HIDE DEF Out
    <2>3. ss[i] \in Seq(Out) /\ Len(ss[i]) = forms[i]
        BY <2>2, Listed
    <2>. QED BY <2>1, <2>3
<1>. HIDE DEF Out
<1>6. ss \in Seq(Seq(Out)) /\ Len(ss) = n
    <2>1. ss \in [1 .. n -> Seq(Out)]
        <3>1. DOMAIN ss = 1 .. n /\ ss = [i \in 1 .. n |-> ss[i]]
            BY <1>3
        <3>. HIDE DEF ss
        <3>. QED BY <1>5, <3>1
    <2>. HIDE DEF ss
    <2>. QED BY <1>1, <2>1, Listed
<1>. HIDE DEF ss
<1>7. Len(labels) = Total(forms) /\ Placing(ss, forms, labels, n) /\ labels \in Seq(Out)
    BY <1>4, <1>5, <1>6, FlattenAt
<1>. HIDE DEF labels
<1>8. ASSUME NEW g \in 1 .. n, NEW f \in 1 .. forms[g]
      PROVE  labels[SumTo(forms, g - 1) + f] = <<q, 0, g>>
    <2>1. labels[SumTo(forms, g - 1) + f] = ss[g][f]
        BY <1>7 DEF Placing
    <2>2. ss[g][f] = <<q, 0, g>>
        BY <1>5
    <2>. QED BY <2>1, <2>2
<1>9. labels # <<>> /\ forms # <<>>
    <2>1. 1 \in 0 .. Len(forms) /\ n \in 1 .. Len(forms) /\ 1 \in 1 .. Len(forms) /\ 1 - 1 = 0
        BY <1>1, <1>4
    <2>2. SumTo(forms, 1) <= SumTo(forms, n)
        BY <1>4, <2>1, SumsGrow
    <2>3. /\ SumTo(forms, 1) = SumTo(forms, 1 - 1) + forms[1] /\ SumTo(forms, 0) = 0
          /\ Total(forms) = SumTo(forms, n) /\ SumTo(forms, n) \in Nat
        <3>1. n \in 0 .. Len(forms)
            BY <1>1, <1>4
        <3>. QED BY <1>4, <2>1, <3>1, Sums
    <2>4. forms[1] \in Nat /\ forms[1] >= 1
        BY <1>3, <1>4, <2>1
    <2>5. Total(forms) >= 1
        BY <2>1, <2>2, <2>3, <2>4
    <2>. QED BY <1>1, <1>4, <1>7, <2>5, EmptySeq
<1>10. Regrouped(labels, forms) =
         [g \in 1 .. n |-> {labels[j] : j \in SumTo(forms, g - 1) + 1 .. SumTo(forms, g - 1) + forms[g]}]
    BY <1>3, <1>9 DEF Regrouped, SumTo
<1>11. ASSUME NEW g \in 1 .. n
       PROVE  {labels[j] : j \in SumTo(forms, g - 1) + 1 .. SumTo(forms, g - 1) + forms[g]} = {<<q, 0, g>>}
    <2>. DEFINE s == SumTo(forms, g - 1)
                x == forms[g]
                L(j) == labels[j]
    <2>1. s \in Nat /\ x \in Nat /\ x >= 1
        <3>1. g - 1 \in 0 .. Len(forms)
            BY <1>1, <1>4
        <3>. QED BY <1>3, <1>4, <3>1, Sums
    <2>2. \A f \in 1 .. x : L(s + f) = <<q, 0, g>>
        BY <1>8
    <2>. HIDE DEF s, x, L
    <2>3. \A j \in s + 1 .. s + x : j - s \in 1 .. x /\ s + (j - s) = j
        BY <2>1
    <2>4. \A j \in s + 1 .. s + x : L(j) = <<q, 0, g>>
        BY <2>2, <2>3
    <2>5. s + 1 \in s + 1 .. s + x
        BY <2>1
    <2>6. {L(j) : j \in s + 1 .. s + x} = {<<q, 0, g>>}
        BY <2>4, <2>5
    <2>. QED BY <2>6 DEF s, x, L
<1>12. Regrouped(labels, forms) = Row(q, n)
    BY <1>10, <1>11 DEF Row
<1>13. Read(p) = Row(q, n)
    BY <1>2, <1>9, <1>12 DEF Read
<1>. QED BY <1>13 DEF p, n, options

\* The joint heads: the spans of each question, one question after the other.
LEMMA JointReads ==
    ASSUME Asking, NEW questions \in Seq(1 .. Len(req.questions)), NEW lens \in Seq(Nat),
           Len(lens) = Len(questions),
           \A k \in 1 .. Len(questions) : lens[k] = Len(req.questions[questions[k]].options)
    PROVE  /\ Len(Read(FillJoint(questions))) = Total(lens)
           /\ Read(FillJoint(questions)) \in Seq(SUBSET (Int \X Int \X Int))
           /\ \A k \in 1 .. Len(questions) : \A i \in 1 .. lens[k] :
                Read(FillJoint(questions))[SumTo(lens, k - 1) + i] = {<<questions[k], 0, i>>}
<1>. DEFINE m == Len(questions)
            Options_(k) == req.questions[questions[k]].options
            ss == [k \in DOMAIN questions |-> [i \in DOMAIN Options_(k) |-> <<questions[k], 0, i>>]]
            spans == FlattenSeq(ss)
            Out == Int \X Int \X Int
            p == FillJoint(questions)
            r == [i \in DOMAIN spans |-> {spans[i]}]
<1>1. m \in Nat /\ DOMAIN questions = 1 .. m /\ \A k \in 1 .. m : questions[k] \in 1 .. Len(req.questions)
    BY LenProperties
<1>2. \A k \in 1 .. m : /\ questions[k] \in Int /\ lens[k] \in Nat
                        /\ DOMAIN Options_(k) = 1 .. lens[k]
    <2>. TAKE k \in 1 .. m
    <2>. DEFINE q == questions[k]
    <2>1. q \in 1 .. Len(req.questions) /\ lens[k] = Len(req.questions[q].options)
        BY <1>1
    <2>. HIDE DEF q
    <2>2. /\ q \in Int /\ Len(req.questions[q].options) \in Nat
          /\ DOMAIN req.questions[q].options = 1 .. Len(req.questions[q].options)
        BY <2>1, Asked
    <2>. QED BY <2>1, <2>2 DEF q
<1>3. p.labels = <<>> /\ p.spans = spans /\ p.markers = <<>>
    BY DEF FillJoint, Empty
<1>. HIDE DEF p, m
<1>4. DOMAIN ss = 1 .. m /\ \A k \in 1 .. m : ss[k] = [i \in 1 .. lens[k] |-> <<questions[k], 0, i>>]
    BY <1>1, <1>2
<1>. HIDE DEF Options_
<1>5. \A k \in 1 .. m : /\ ss[k] \in Seq(Out) /\ Len(ss[k]) = lens[k]
                        /\ \A i \in 1 .. lens[k] : ss[k][i] = <<questions[k], 0, i>>
    <2>. TAKE k \in 1 .. m
    <2>. HIDE DEF ss
    <2>1. lens[k] \in Nat /\ ss[k] \in [1 .. lens[k] -> Out]
        BY <1>2, <1>4
    <2>. HIDE DEF Out
    <2>2. ss[k] \in Seq(Out) /\ Len(ss[k]) = lens[k]
        BY <2>1, Listed
    <2>. QED BY <1>4, <2>2
<1>. HIDE DEF Out
<1>6. ss \in Seq(Seq(Out)) /\ Len(ss) = m
    <2>1. ss = [k \in 1 .. m |-> ss[k]]
        BY <1>1
    <2>. HIDE DEF ss
    <2>2. ss \in [1 .. m -> Seq(Out)]
        BY <1>5, <2>1
    <2>. QED BY <1>1, <2>2, Listed
<1>. HIDE DEF ss
<1>7. spans \in Seq(Out) /\ Len(spans) = Total(lens) /\ Placing(ss, lens, spans, m)
    <2>1. Len(lens) = Len(ss) /\ \A k \in 1 .. Len(ss) : Len(ss[k]) = lens[k]
        BY <1>5, <1>6 DEF m
    <2>. QED BY <1>6, <2>1, FlattenAt
<1>. HIDE DEF spans
<1>8. /\ Len(spans) \in Nat /\ DOMAIN spans = 1 .. Len(spans)
      /\ \A i \in 1 .. Len(spans) : spans[i] \in Out
    BY <1>7, LenProperties
<1>9. r \in [1 .. Len(spans) -> SUBSET Out] /\ \A i \in 1 .. Len(spans) : r[i] = {spans[i]}
    BY <1>8
<1>10. r \in Seq(SUBSET Out) /\ Len(r) = Len(spans)
    <2>. HIDE DEF r
    <2>. QED BY <1>8, <1>9, Listed
<1>11. Read(p) = r
    <2>1. [i \in DOMAIN p.markers |-> AtRow(p.rows, p.markers[i])] = <<>>
        BY <1>3
    <2>2. r \o <<>> = r
        <3>. HIDE DEF r
        <3>. QED BY <1>10, ConcatEmptySeq
    <2>3. Read(p) = [i \in DOMAIN p.spans |-> {p.spans[i]}]
                    \o [i \in DOMAIN p.markers |-> AtRow(p.rows, p.markers[i])]
        BY <1>3 DEF Read
    <2>. QED BY <1>3, <2>1, <2>2, <2>3
<1>. HIDE DEF r
<1>12. ASSUME NEW k \in 1 .. m, NEW i \in 1 .. lens[k]
       PROVE  r[SumTo(lens, k - 1) + i] = {<<questions[k], 0, i>>}
    <2>1. spans[SumTo(lens, k - 1) + i] = <<questions[k], 0, i>>
        BY <1>5, <1>7 DEF Placing
    <2>2. SumTo(lens, k - 1) + i \in 1 .. Len(spans)
        <3>1. k \in 1 .. Len(lens) /\ k \in 0 .. Len(lens) /\ k - 1 \in 0 .. Len(lens)
              /\ Len(lens) \in k .. Len(lens)
            BY <1>1 DEF m
        <3>2. SumTo(lens, k) <= SumTo(lens, Len(lens))
            BY <3>1, SumsGrow
        <3>3. /\ SumTo(lens, k) = SumTo(lens, k - 1) + lens[k] /\ Total(lens) = SumTo(lens, Len(lens))
              /\ SumTo(lens, k - 1) \in Nat
            BY <3>1, Sums
        <3>. DEFINE s == SumTo(lens, k - 1)
                    x == lens[k]
        <3>4. s \in Nat /\ x \in Nat /\ i \in 1 .. x /\ s + x <= Len(spans)
            BY <1>2, <1>7, <3>2, <3>3
        <3>. HIDE DEF s, x
        <3>5. s + i \in 1 .. Len(spans)
            BY <1>8, <3>4
        <3>. QED BY <3>5 DEF s
    <2>. QED BY <1>9, <2>1, <2>2
<1>. QED BY <1>7, <1>10, <1>11, <1>12 DEF p, m, Out

LEMMA OneRead ==
    ASSUME Asking, NEW q \in 1 .. Len(req.questions)
    PROVE  Read(FillJoint(<<q>>)) = Row(q, Len(req.questions[q].options))
<1>. DEFINE n == Len(req.questions[q].options)
            qs == <<q>>
            lens == <<n>>
            r == Read(FillJoint(qs))
<1>1. n \in Nat
    BY Asked
<1>. HIDE DEF n
<1>2. /\ qs \in Seq(1 .. Len(req.questions)) /\ lens \in Seq(Nat) /\ Len(lens) = 1 /\ Len(qs) = 1
      /\ qs[1] = q /\ lens[1] = n /\ \A k \in 1 .. 1 : k = 1
    BY <1>1
<1>3. Total(lens) = n
    BY <1>1, Totals
<1>. HIDE DEF qs, lens
<1>4. \A k \in 1 .. Len(qs) : lens[k] = Len(req.questions[qs[k]].options)
    BY <1>2 DEF n
<1>5. /\ Len(r) = n /\ r \in Seq(SUBSET (Int \X Int \X Int))
      /\ \A k \in 1 .. Len(qs) : \A i \in 1 .. lens[k] : r[SumTo(lens, k - 1) + i] = {<<qs[k], 0, i>>}
    BY <1>2, <1>3, <1>4, JointReads
<1>. HIDE DEF r
<1>6. \A i \in 1 .. n : r[i] = {<<q, 0, i>>}
    <2>. TAKE i \in 1 .. n
    <2>1. SumTo(lens, 0) = 0
        BY <1>2, Sums
    <2>2. 1 \in 1 .. Len(qs) /\ 1 - 1 = 0 /\ 0 + i = i
        BY <1>2
    <2>3. r[SumTo(lens, 1 - 1) + i] = {<<qs[1], 0, i>>}
        BY <1>2, <1>5, <2>2
    <2>. QED BY <1>2, <2>1, <2>2, <2>3
<1>7. r = [i \in 1 .. n |-> r[i]]
    BY <1>5, LenProperties
<1>8. r = Row(q, n)
    BY <1>6, <1>7 DEF Row
<1>. QED BY <1>8 DEF r, qs, n

-----------------------------------------------------------------------------
(* The route.                                                              *)

Elements(s) == {s[i] : i \in DOMAIN s}

\* A sequence, of whatever it holds.
IsSeq(s) == s \in Seq(Elements(s))

VariantsOf(family, asked) ==
  IF family = "lev" /\ asked.type = "choice" /\ Len(asked.options) > 1 THEN 2 ELSE 1

OutputsOf(family, asked) ==
  IF family = "lev" /\ asked.type = "noul" THEN 9 ELSE Len(asked.options)

\* The prompts and the options of each question.
Rounds(family, questions) == [k \in 1 .. Len(questions) |-> VariantsOf(family, questions[k])]
Sizes(questions) == [k \in 1 .. Len(questions) |-> Len(questions[k].options)]

\* Where the prompt of variant v of question q is among the prompts.
Place(family, questions, q, v) == SumTo(Rounds(family, questions), q - 1) + v + 1

\* Each row has the outputs of its question and variant, as far as there are rows.
InOrder(family, questions, rows) ==
  \A q \in 1 .. Len(questions) : \A v \in 0 .. VariantsOf(family, questions[q]) - 1 :
    Place(family, questions, q, v) <= Len(rows) =>
      rows[Place(family, questions, q, v)] = Shown(q, OutputsOf(family, questions[q]), v)

\* The one row of a joint head: each question's part follows the one before.
InParts(questions, row) ==
  /\ row \in Seq(SUBSET (Int \X Int \X Int)) /\ Len(row) = Total(Sizes(questions))
  /\ \A k \in 1 .. Len(questions) : \A i \in 1 .. Sizes(questions)[k] :
       row[SumTo(Sizes(questions), k - 1) + i] = {<<k, 0, i>>}

AllRead(family, questions, rows) ==
  IF family = "clef" THEN Len(rows) = 1 /\ InParts(questions, rows[1])
  ELSE Len(rows) = Total(Rounds(family, questions)) /\ InOrder(family, questions, rows)

Readings(ps) == [i \in DOMAIN ps |-> Read(ps[i])]

\* While prompts are made: those of the questions and variants before this one are there.
Filling ==
  /\ at.question \in 1 .. Len(req.questions)
  /\ at.variant \in 0 .. VariantsOf(Family, req.questions[at.question]) - 1
  /\ answers = <<>> /\ i_prompt = 1 /\ i_score = 0
  /\ IF IsJoint THEN at = First /\ prompts = <<>>
     ELSE /\ Len(prompts) = SumTo(Rounds(Family, req.questions), at.question - 1) + at.variant
          /\ InOrder(Family, req.questions, Readings(prompts))
  /\ Family = "omni" => at.variant = 0 /\ Len(prompts) = at.question - 1

\* While answers are made: the running indices are where this question's scores begin.
Answering ==
  /\ at.question \in 1 .. Len(req.questions)
  /\ IsSeq(scores) /\ AllRead(Family, req.questions, scores)
  /\ Len(answers) = at.question - 1
  /\ ~IsJoint => i_prompt = 1 + SumTo(Rounds(Family, req.questions), at.question - 1)
  /\ IsJoint => i_score = SumTo(Sizes(req.questions), at.question - 1)

Inv ==
  /\ conf \in [family : Families, stateFirst : BOOLEAN]
  /\ pc \in {"parse", "fill", "decide", "answer", "done", "refused"}
  /\ at \in [question : Nat, variant : Nat]
  /\ IsSeq(prompts) /\ answers \in Seq(Seq(SUBSET (Int \X Int \X Int)))
  /\ pc # "refused" => refused = ""
  /\ pc = "parse" => /\ at = First /\ prompts = <<>> /\ answers = <<>>
                     /\ i_prompt = 1 /\ i_score = 0
  /\ pc \in {"fill", "decide", "answer"} => req \in Requests(Family)
  /\ pc = "fill" => Filling
  /\ pc = "decide" => /\ at = First /\ answers = <<>> /\ i_prompt = 1 /\ i_score = 0
                      /\ AllRead(Family, req.questions, Readings(prompts))
  /\ pc = "answer" => Answering
  /\ OwnScores /\ CountsAgree /\ StateGivesWay

\* What a question has prompts and outputs for.
LEMMA Counted ==
    ASSUME Asking, NEW q \in 1 .. Len(req.questions)
    PROVE  LET asked == req.questions[q]
           IN  /\ NVariants(asked) = VariantsOf(Family, asked)
               /\ NOutputs(asked) = OutputsOf(Family, asked)
               /\ VariantsOf(Family, asked) \in 1 .. 2 /\ OutputsOf(Family, asked) \in Nat \ {0}
               /\ Family # "lev" => /\ VariantsOf(Family, asked) = 1
                                    /\ OutputsOf(Family, asked) = Len(asked.options)
<1>1. Len(req.questions[q].options) \in Nat \ {0}
    BY Asked
<1>. QED BY <1>1 DEF NVariants, NOutputs, VariantsOf, OutputsOf

\* Whatever the family, a prompt is read as its options are shown.
LEMMA Reads ==
    ASSUME Asking, NEW q \in 1 .. Len(req.questions), ~IsJoint,
           NEW v \in 0 .. VariantsOf(Family, req.questions[q]) - 1,
           ~OptionsLost(q, FillPrompt(q, v))
    PROVE  Read(FillPrompt(q, v)) = Shown(q, OutputsOf(Family, req.questions[q]), v)
<1>. DEFINE n == OutputsOf(Family, req.questions[q])
<1>1. /\ NOutputs(req.questions[q]) = n /\ n \in Nat \ {0}
      /\ Family # "lev" => v = 0 /\ n = Len(req.questions[q].options)
    BY Counted
<1>. HIDE DEF n
<1>2. Shown(q, n, 0) = Row(q, n)
    BY ShownFirst
<1>3. Family \in Families
    BY DEF Asking, Family
<1>4. CASE Family \in {"labels", "lev"}
    <2>1. FillPrompt(q, v) = FillLabels(q, v)
        BY <1>4 DEF FillPrompt
    <2>2. Read(FillLabels(q, v)) = Shown(q, n, v)
        BY <1>1, LabelsRead
    <2>. QED BY <2>1, <2>2 DEF n
<1>5. CASE Family = "groups"
    <2>1. FillPrompt(q, v) = FillGroups(q)
        BY <1>5 DEF FillPrompt
    <2>2. Read(FillGroups(q)) = Row(q, n)
        BY <1>1, <1>5, GroupsRead
    <2>. QED BY <1>1, <1>2, <1>5, <2>1, <2>2 DEF n
<1>6. CASE Family = "kev"
    <2>1. FillPrompt(q, v) = FillKev(q)
        BY <1>6 DEF FillPrompt
    <2>2. Read(FillKev(q)) = Row(q, n)
        BY <1>1, <1>6, KevReads
    <2>. QED BY <1>1, <1>2, <1>6, <2>1, <2>2 DEF n
<1>7. CASE Family = "laya"
    <2>1. FillPrompt(q, v) = FillLaya(q)
        BY <1>7 DEF FillPrompt
    <2>2. Read(FillLaya(q)) = Row(q, n)
        BY <1>1, <1>7, LayaReads
    <2>. QED BY <1>1, <1>2, <1>7, <2>1, <2>2 DEF n
<1>8. CASE Family = "omni"
    <2>1. FillPrompt(q, v) = FillOmni(q)
        BY <1>8 DEF FillPrompt
    <2>2. Len(FillOmni(q).markers) = n
        BY <1>1, <1>8, <2>1 DEF OptionsLost
    <2>3. Read(FillOmni(q)) = Row(q, n)
        BY <1>1, <1>8, <2>2, OmniReads
    <2>. QED BY <1>1, <1>2, <1>8, <2>1, <2>3 DEF n
<1>9. CASE Family = "decision2"
    <2>1. FillPrompt(q, v) = FillJoint(<<q>>)
        BY <1>9 DEF FillPrompt
    <2>2. Read(FillJoint(<<q>>)) = Row(q, n)
        BY <1>1, <1>9, OneRead
    <2>. QED BY <1>1, <1>2, <1>9, <2>1, <2>2 DEF n
<1>. QED BY <1>3, <1>4, <1>5, <1>6, <1>7, <1>8, <1>9 DEF Families, IsJoint

\* The prompts of the questions follow each other.
LEMMA RoundsAre ==
    ASSUME Asking
    PROVE  LET rounds == Rounds(Family, req.questions)
               m == Len(req.questions)
           IN  /\ m \in Nat \ {0} /\ rounds \in Seq(Nat) /\ Len(rounds) = m
               /\ SumTo(rounds, 0) = 0 /\ Total(rounds) = SumTo(rounds, m)
               /\ \A k \in 0 .. m : SumTo(rounds, k) \in Nat
               /\ \A q \in 1 .. m :
                    SumTo(rounds, q) = SumTo(rounds, q - 1) + VariantsOf(Family, req.questions[q])
               /\ \A i, k \in 0 .. m : i <= k => SumTo(rounds, i) <= SumTo(rounds, k)
<1>. DEFINE rounds == Rounds(Family, req.questions)
            m == Len(req.questions)
<1>1. m \in Nat \ {0}
    BY Requested
<1>2. \A q \in 1 .. m : VariantsOf(Family, req.questions[q]) \in Nat
    <2>. TAKE q \in 1 .. m
    <2>1. VariantsOf(Family, req.questions[q]) \in 1 .. 2
        BY Counted
    <2>. QED BY <2>1
<1>3. rounds \in [1 .. m -> Nat] /\ \A q \in 1 .. m : rounds[q] = VariantsOf(Family, req.questions[q])
    BY <1>2 DEF Rounds
<1>. HIDE DEF rounds, m
<1>4. rounds \in Seq(Nat) /\ Len(rounds) = m
    BY <1>1, <1>3, Listed
<1>5. /\ SumTo(rounds, 0) = 0 /\ Total(rounds) = SumTo(rounds, m)
      /\ \A k \in 0 .. m : SumTo(rounds, k) \in Nat
      /\ \A q \in 1 .. m : SumTo(rounds, q) = SumTo(rounds, q - 1) + rounds[q]
    BY <1>4, Sums
<1>6. ASSUME NEW i \in 0 .. m, NEW k \in 0 .. m, i <= k
      PROVE  SumTo(rounds, i) <= SumTo(rounds, k)
    <2>1. i \in 0 .. Len(rounds) /\ k \in i .. Len(rounds)
        BY <1>1, <1>4, <1>6
    <2>. QED BY <1>4, <2>1, SumsGrow
<1>. QED BY <1>1, <1>3, <1>4, <1>5, <1>6 DEF rounds, m

LEMMA SizesAre ==
    ASSUME Asking
    PROVE  LET sizes == Sizes(req.questions)
               m == Len(req.questions)
           IN  /\ sizes \in Seq(Nat) /\ Len(sizes) = m
               /\ SumTo(sizes, 0) = 0 /\ Total(sizes) = SumTo(sizes, m)
               /\ \A k \in 0 .. m : SumTo(sizes, k) \in Nat /\ SumTo(sizes, k) <= Total(sizes)
               /\ \A q \in 1 .. m : /\ SumTo(sizes, q) = SumTo(sizes, q - 1) + Len(req.questions[q].options)
                                    /\ sizes[q] = Len(req.questions[q].options)
<1>. DEFINE sizes == Sizes(req.questions)
            m == Len(req.questions)
<1>1. m \in Nat \ {0}
    BY Requested
<1>2. \A q \in 1 .. m : Len(req.questions[q].options) \in Nat
    BY Asked
<1>3. sizes \in [1 .. m -> Nat] /\ \A q \in 1 .. m : sizes[q] = Len(req.questions[q].options)
    BY <1>2 DEF Sizes
<1>. HIDE DEF sizes, m
<1>4. sizes \in Seq(Nat) /\ Len(sizes) = m
    BY <1>1, <1>3, Listed
<1>5. /\ SumTo(sizes, 0) = 0 /\ Total(sizes) = SumTo(sizes, m)
      /\ \A k \in 0 .. m : SumTo(sizes, k) \in Nat
      /\ \A q \in 1 .. m : SumTo(sizes, q) = SumTo(sizes, q - 1) + sizes[q]
    BY <1>4, Sums
<1>6. ASSUME NEW i \in 0 .. m
      PROVE  SumTo(sizes, i) <= SumTo(sizes, m)
    <2>1. i \in 0 .. Len(sizes) /\ m \in i .. Len(sizes)
        BY <1>1, <1>4
    <2>. QED BY <1>4, <2>1, SumsGrow
<1>. QED BY <1>1, <1>3, <1>4, <1>5, <1>6 DEF sizes, m

\* A row where the next one belongs.
LEMMA InOrderNext ==
    ASSUME Asking, NEW q \in 1 .. Len(req.questions),
           NEW v \in 0 .. VariantsOf(Family, req.questions[q]) - 1,
           NEW rows, NEW more, Len(rows) = SumTo(Rounds(Family, req.questions), q - 1) + v,
           InOrder(Family, req.questions, rows),
           Len(more) = Len(rows) + 1, \A i \in 1 .. Len(rows) : more[i] = rows[i],
           more[Len(rows) + 1] = Shown(q, OutputsOf(Family, req.questions[q]), v)
    PROVE  InOrder(Family, req.questions, more)
<1>. DEFINE m == Len(req.questions)
            S(k) == SumTo(Rounds(Family, req.questions), k)
            V(k) == VariantsOf(Family, req.questions[k])
            P(k, w) == Place(Family, req.questions, k, w)
            R(k, w) == Shown(k, OutputsOf(Family, req.questions[k]), w)
<1>1. /\ m \in Nat /\ \A k \in 0 .. m : S(k) \in Nat
      /\ \A k \in 1 .. m : S(k) = S(k - 1) + V(k)
      /\ \A i, k \in 0 .. m : i <= k => S(i) <= S(k)
    BY RoundsAre
<1>2. \A k \in 1 .. m : V(k) \in Nat
    <2>. TAKE k \in 1 .. m
    <2>1. V(k) \in 1 .. 2
        BY Counted
    <2>. QED BY <2>1
<1>3. \A k, w : P(k, w) = S(k - 1) + w + 1
    BY DEF Place
<1>4. \A k \in 1 .. m : \A w \in 0 .. V(k) - 1 : P(k, w) <= Len(rows) => rows[P(k, w)] = R(k, w)
    BY DEF InOrder
<1>5. Len(rows) = S(q - 1) + v /\ v \in 0 .. V(q) - 1 /\ q \in 1 .. m
    OBVIOUS
<1>6. more[Len(rows) + 1] = R(q, v)
    OBVIOUS
<1>7. ASSUME NEW k \in 1 .. m, NEW w \in 0 .. V(k) - 1, P(k, w) <= Len(more)
      PROVE  more[P(k, w)] = R(k, w)
    <2>. HIDE DEF m, S, V, P, R
    <2>1. /\ k - 1 \in 0 .. m /\ q - 1 \in 0 .. m /\ k \in 0 .. m /\ q \in 0 .. m
          /\ w \in Nat /\ v \in Nat
        BY <1>1, <1>2, <1>5
    <2>2. /\ S(k - 1) \in Nat /\ S(q - 1) \in Nat /\ S(k) \in Nat /\ S(q) \in Nat
          /\ V(k) \in Nat /\ V(q) \in Nat
          /\ S(k) = S(k - 1) + V(k) /\ S(q) = S(q - 1) + V(q) /\ P(k, w) = S(k - 1) + w + 1
        BY <1>1, <1>2, <1>3, <1>5, <2>1
    <2>. DEFINE sk == S(k - 1)
                sq == S(q - 1)
                ek == S(k)
                eq == S(q)
                p == P(k, w)
                n == Len(rows)
    <2>3. /\ sk \in Nat /\ sq \in Nat /\ w \in Nat /\ v \in Nat
          /\ p = sk + w + 1 /\ n = sq + v /\ sk + w < ek /\ sq + v < eq
          /\ ek \in Nat /\ eq \in Nat
        <3>. DEFINE vk == V(k)
                    vq == V(q)
        <3>1. /\ sk \in Nat /\ sq \in Nat /\ w \in Nat /\ v \in Nat
              /\ p = sk + w + 1 /\ n = sq + v /\ ek \in Nat /\ eq \in Nat
            BY <1>5, <2>1, <2>2
        <3>2. /\ ek = sk + vk /\ eq = sq + vq /\ vk \in Nat /\ vq \in Nat
              /\ w \in 0 .. vk - 1 /\ v \in 0 .. vq - 1
            BY <1>5, <2>2
        <3>. HIDE DEF sk, sq, ek, eq, p, n, vk, vq
        <3>. QED BY <3>1, <3>2
    <2>4. k < q => ek <= sq
        <3>1. k < q => k <= q - 1
            BY <1>5
        <3>. QED BY <1>1, <2>1, <3>1
    <2>5. k > q => eq <= sk
        <3>1. k > q => q <= k - 1
            BY <1>5
        <3>. QED BY <1>1, <2>1, <3>1
    <2>6. p <= n + 1
        BY <1>7
    <2>. HIDE DEF sk, sq, ek, eq, p, n
    <2>7. CASE p <= n
        <3>1. p \in 1 .. n
            BY <2>3, <2>7
        <3>2. more[p] = rows[p]
            BY <3>1 DEF n
        <3>3. rows[p] = R(k, w)
            BY <1>4, <2>7 DEF n, p
        <3>. QED BY <3>2, <3>3 DEF p
    <2>8. CASE ~(p <= n)
        <3>1. p = n + 1 /\ sk + w = sq + v
            BY <2>3, <2>6, <2>8
        <3>2. ~(k < q) /\ ~(k > q)
            BY <2>3, <2>4, <2>5, <3>1
        <3>3. k = q
            BY <1>1, <1>5, <3>2
        <3>4. sk = sq
            BY <3>3 DEF sk, sq
        <3>5. w = v
            BY <2>3, <3>1, <3>4
        <3>. QED BY <1>6, <3>1, <3>3, <3>5 DEF n, p
    <2>. QED BY <2>7, <2>8
<1>. QED BY <1>7 DEF InOrder

\* t is the part of s from place m on.
IsPart(t, s, m, n, S) ==
  t \in Seq(S) /\ Len(t) = n /\ \A i \in 1 .. n : t[i] = s[m + i - 1]

\* n places from place m.
LEMMA PartOf ==
    ASSUME NEW S, NEW s \in Seq(S), NEW m \in Nat \ {0}, NEW n \in Nat, m + n - 1 <= Len(s)
    PROVE  IsPart(SubSeq(s, m, m + n - 1), s, m, n, S)
<1>. DEFINE e == m + n - 1
<1>1. Len(s) \in Nat /\ \A i \in 1 .. Len(s) : s[i] \in S
    BY LenProperties
<1>2. e \in Int /\ e - m + 1 = n /\ m \in Int /\ (n > 0 <=> m <= e) /\ \A i \in m .. e : i \in 1 .. Len(s)
    BY <1>1
<1>3. \A i \in m .. e : s[i] \in S
    BY <1>1, <1>2
<1>. HIDE DEF e
<1>4. /\ SubSeq(s, m, e) \in Seq(S) /\ Len(SubSeq(s, m, e)) = IF m <= e THEN e - m + 1 ELSE 0
      /\ \A i \in 1 .. e - m + 1 : SubSeq(s, m, e)[i] = s[m + i - 1]
    BY <1>2, <1>3, SubSeqProperties
<1>5. Len(SubSeq(s, m, e)) = n
    BY <1>2, <1>4
<1>. QED BY <1>2, <1>4, <1>5 DEF e, IsPart

LEMMA MoreElements ==
    ASSUME NEW s, IsSeq(s), NEW x
    PROVE  /\ IsSeq(Append(s, x)) /\ Len(s) \in Nat /\ Len(Append(s, x)) = Len(s) + 1
           /\ DOMAIN s = 1 .. Len(s) /\ DOMAIN Append(s, x) = 1 .. Len(s) + 1
           /\ \A i \in 1 .. Len(s) : Append(s, x)[i] = s[i]
           /\ Append(s, x)[Len(s) + 1] = x
<1>. DEFINE E == Elements(s) \cup {x}
            a == Append(s, x)
            n == Len(s)
<1>1. s \in Seq(E) /\ x \in E
    <2>1. s \in Seq(Elements(s))
        BY DEF IsSeq
    <2>. DEFINE D == Elements(s)
    <2>. HIDE DEF D
    <2>2. s \in Seq(D) /\ D \subseteq E
        BY <2>1 DEF D
    <2>. HIDE DEF E
    <2>3. s \in Seq(E)
        BY <2>2
    <2>. QED BY <2>3 DEF E
<1>. HIDE DEF E
<1>2. /\ a \in Seq(E) /\ Len(a) = n + 1
      /\ \A i \in 1 .. n : a[i] = s[i]
      /\ a[n + 1] = x
    BY <1>1, AppendProperties
<1>3. n \in Nat /\ DOMAIN s = 1 .. n
    BY <1>1, LenProperties
<1>. HIDE DEF a
<1>4. DOMAIN a = 1 .. n + 1
    BY <1>2, LenProperties
<1>5. a \in Seq(Elements(a))
    <2>1. a \in [1 .. n + 1 -> Elements(a)]
        <3>1. a = [i \in 1 .. n + 1 |-> a[i]]
            BY <1>2, <1>4, LenProperties
        <3>2. \A i \in 1 .. n + 1 : a[i] \in Elements(a)
            BY <1>4 DEF Elements
        <3>. QED BY <3>1, <3>2
    <2>. DEFINE D == Elements(a)
    <2>. HIDE DEF D
    <2>2. a \in [1 .. n + 1 -> D] /\ n + 1 \in Nat
        BY <1>3, <2>1 DEF D
    <2>3. a \in Seq(D)
        BY <2>2, Listed
    <2>. QED BY <2>3 DEF D
<1>. QED BY <1>2, <1>3, <1>4, <1>5 DEF a, n, IsSeq

\* A function on 1 .. n is a sequence.
LEMMA PlacesInSeq ==
    ASSUME NEW n \in Nat, NEW S, NEW f \in [1 .. n -> S]
    PROVE  IsSeq(f) /\ Len(f) = n
<1>. DEFINE D == Elements(f)
<1>1. DOMAIN f = 1 .. n /\ f = [i \in 1 .. n |-> f[i]]
    OBVIOUS
<1>2. \A i \in 1 .. n : f[i] \in D
    BY <1>1 DEF Elements
<1>. HIDE DEF D
<1>3. f \in [1 .. n -> D]
    BY <1>1, <1>2
<1>4. f \in Seq(D) /\ Len(f) = n
    BY <1>3, Listed
<1>. QED BY <1>4 DEF D, IsSeq

\* What the answer to a question is to be.
Due(q, n, m) == [i \in 1 .. n |-> {<<q, v, i>> : v \in 0 .. m - 1}]

\* The scores of each option, wherever it was shown.
Gathered(n, taken) == [i \in 1 .. n |-> UNION {taken[v][Placed(v, n, i)] : v \in DOMAIN taken}]

\* Scores shown in either order are placed at their options.
LEMMA PlacedRight ==
    ASSUME NEW q, NEW n \in Nat, NEW m \in 1 .. 2, NEW taken, DOMAIN taken = 1 .. m,
           \A v \in 1 .. m : taken[v] = Shown(q, n, v - 1)
    PROVE  Gathered(n, taken) = Due(q, n, m)
<1>1. ASSUME NEW i \in 1 .. n, NEW v \in 1 .. m
      PROVE  taken[v][Placed(v, n, i)] = {<<q, v - 1, i>>}
    <2>. DEFINE p == Placed(v, n, i)
    <2>1. p \in 1 .. n /\ Label(q, n, v - 1, p) = <<q, v - 1, i>>
        <3>1. CASE v = 1
            BY <3>1 DEF Placed, Label
        <3>2. CASE v = 2
            <4>1. p = n + 1 - i /\ n + 1 - p = i
                BY <3>2 DEF Placed
            <4>2. Label(q, n, v - 1, p) = <<q, v - 1, n + 1 - p>>
                BY <3>2 DEF Label
            <4>. QED BY <4>1, <4>2
        <3>. QED BY <3>1, <3>2
    <2>. HIDE DEF p
    <2>2. Shown(q, n, v - 1)[p] = {Label(q, n, v - 1, p)}
        BY <2>1 DEF Shown
    <2>. QED BY <2>1, <2>2 DEF p
<1>2. ASSUME NEW i \in 1 .. n
      PROVE  UNION {taken[v][Placed(v, n, i)] : v \in DOMAIN taken} = {<<q, v, i>> : v \in 0 .. m - 1}
    <2>. DEFINE F(v) == taken[v][Placed(v, n, i)]
                T(v) == <<q, v, i>>
    <2>1. \A v \in 1 .. m : F(v) = {T(v - 1)}
        BY <1>1
    <2>2. \A v \in 1 .. m : v - 1 \in 0 .. m - 1
        OBVIOUS
    <2>3. \A w \in 0 .. m - 1 : w + 1 \in 1 .. m /\ (w + 1) - 1 = w
        OBVIOUS
    <2>. HIDE DEF F, T
    <2>4. \A w \in 0 .. m - 1 : F(w + 1) = {T(w)}
        BY <2>1, <2>3
    <2>5. UNION {F(v) : v \in 1 .. m} \subseteq {T(w) : w \in 0 .. m - 1}
        <3>1. ASSUME NEW x \in UNION {F(v) : v \in 1 .. m}
              PROVE  x \in {T(w) : w \in 0 .. m - 1}
            <4>1. PICK v \in 1 .. m : x \in F(v)
                BY Zenon
            <4>2. x = T(v - 1)
                BY <2>1, <4>1, Zenon
            <4>. QED BY <2>2, <4>2, Zenon
        <3>. QED BY <3>1, Zenon
    <2>6. {T(w) : w \in 0 .. m - 1} \subseteq UNION {F(v) : v \in 1 .. m}
        <3>1. ASSUME NEW x \in {T(w) : w \in 0 .. m - 1}
              PROVE  x \in UNION {F(v) : v \in 1 .. m}
            <4>1. PICK w \in 0 .. m - 1 : x = T(w)
                BY Zenon
            <4>2. x \in F(w + 1)
                BY <2>4, <4>1, Zenon
            <4>3. w + 1 \in 1 .. m
                BY <2>3, Zenon
            <4>. QED BY <4>2, <4>3, Zenon
        <3>. QED BY <3>1, Zenon
    <2>7. UNION {F(v) : v \in 1 .. m} = {T(w) : w \in 0 .. m - 1}
        BY <2>5, <2>6, Zenon
    <2>. QED BY <2>7, Zenon DEF F, T
<1>. QED BY <1>2, Zenon DEF Due, Gathered

\* The running indices are where the scores of the question are.
LEMMA TakenRight ==
    ASSUME Asking, NEW q \in 1 .. Len(req.questions),
           IsSeq(scores), AllRead(Family, req.questions, scores),
           ~IsJoint => i_prompt = 1 + SumTo(Rounds(Family, req.questions), q - 1),
           IsJoint => i_score = SumTo(Sizes(req.questions), q - 1)
    PROVE  LET asked == req.questions[q]
           IN  /\ DOMAIN Taken(asked) = 1 .. VariantsOf(Family, asked)
               /\ \A v \in 1 .. VariantsOf(Family, asked) :
                    Taken(asked)[v] = Shown(q, OutputsOf(Family, asked), v - 1)
               /\ IsJoint => i_score + Len(asked.options) <= Len(scores[1])
<1>. DEFINE asked == req.questions[q]
            n == OutputsOf(Family, asked)
            V == VariantsOf(Family, asked)
<1>1. /\ V \in 1 .. 2 /\ n \in Nat /\ NVariants(asked) = V
      /\ Family # "lev" => V = 1 /\ n = Len(asked.options)
    BY Counted
<1>. HIDE DEF n, V
<1>2. CASE IsJoint
    <2>1. Family = "clef"
        BY <1>2 DEF IsJoint
    <2>2. V = 1 /\ n = Len(asked.options)
        BY <1>1, <2>1
    <2>. DEFINE r == scores[1]
                s == i_score
                t == SubSeq(r, s + 1, s + n)
    <2>3. InParts(req.questions, r)
        BY <2>1 DEF AllRead
    <2>. HIDE DEF r
    <2>4. /\ r \in Seq(SUBSET (Int \X Int \X Int)) /\ Len(r) = Total(Sizes(req.questions))
          /\ \A i \in 1 .. Sizes(req.questions)[q] :
               r[SumTo(Sizes(req.questions), q - 1) + i] = {<<q, 0, i>>}
        BY <2>3 DEF InParts
    <2>5. /\ Sizes(req.questions)[q] = n
          /\ SumTo(Sizes(req.questions), q) = SumTo(Sizes(req.questions), q - 1) + n
          /\ SumTo(Sizes(req.questions), q) <= Total(Sizes(req.questions))
          /\ SumTo(Sizes(req.questions), q - 1) \in Nat
        <3>1. Len(req.questions) \in Nat
            BY Requested
        <3>2. q \in 0 .. Len(req.questions) /\ q - 1 \in 0 .. Len(req.questions)
            BY <3>1
        <3>3. Len(asked.options) = n
            BY <2>2
        <3>. QED BY <3>2, <3>3, SizesAre
    <2>6. s \in Nat /\ s + n <= Len(r) /\ \A i \in 1 .. n : r[s + i] = {<<q, 0, i>>}
        BY <1>2, <2>4, <2>5
    <2>. HIDE DEF s
    <2>7. t \in Seq(SUBSET (Int \X Int \X Int)) /\ Len(t) = n /\ \A i \in 1 .. n : t[i] = {<<q, 0, i>>}
        <3>. DEFINE k == s + 1
        <3>1. k \in Nat \ {0} /\ k + n - 1 = s + n /\ k + n - 1 <= Len(r)
            BY <1>1, <2>6
        <3>. DEFINE Sets == SUBSET (Int \X Int \X Int)
        <3>2. r \in Seq(Sets)
            BY <2>4
        <3>3. \A i \in 1 .. n : k + i - 1 = s + i
            BY <2>6
        <3>. HIDE DEF k, Sets
        <3>4. IsPart(SubSeq(r, k, k + n - 1), r, k, n, Sets)
            BY <1>1, <3>1, <3>2, PartOf
        <3>5. SubSeq(r, k, k + n - 1) = t
            BY <3>1 DEF k
        <3>. HIDE DEF t
        <3>6. t \in Seq(Sets) /\ Len(t) = n /\ \A i \in 1 .. n : t[i] = r[k + i - 1]
            BY <3>4, <3>5 DEF IsPart
        <3>7. \A i \in 1 .. n : t[i] = {<<q, 0, i>>}
            BY <2>6, <3>3, <3>6
        <3>. QED BY <3>6, <3>7 DEF Sets
    <2>8. Taken(asked) = <<t>>
        BY <1>2, <2>2 DEF Taken, r, s
    <2>. HIDE DEF t
    <2>9. t = Shown(q, n, 0)
        <3>1. t = [i \in 1 .. n |-> t[i]]
            BY <2>7, LenProperties
        <3>2. t = Row(q, n)
            BY <2>7, <3>1 DEF Row
        <3>. QED BY <3>2, ShownFirst
    <2>10. DOMAIN <<t>> = 1 .. 1 /\ <<t>>[1] = t /\ 1 - 1 = 0 /\ \A v \in 1 .. 1 : v = 1
        OBVIOUS
    <2>11. \A v \in 1 .. 1 : Taken(asked)[v] = Shown(q, n, v - 1)
        BY <2>8, <2>9, <2>10
    <2>12. i_score + Len(asked.options) <= Len(scores[1])
        BY <2>2, <2>6 DEF r, s
    <2>. QED BY <2>2, <2>8, <2>10, <2>11, <2>12 DEF n, V
<1>3. CASE ~IsJoint
    <2>. DEFINE S(k) == SumTo(Rounds(Family, req.questions), k)
                t == SubSeq(scores, i_prompt, i_prompt + V - 1)
    <2>1. Len(scores) = Total(Rounds(Family, req.questions)) /\ InOrder(Family, req.questions, scores)
        BY <1>3 DEF AllRead, IsJoint
    <2>2. /\ S(q) = S(q - 1) + V /\ S(q - 1) \in Nat /\ S(q) <= Len(scores) /\ Len(scores) \in Nat
          /\ S(q) \in Nat
        <3>1. Len(req.questions) \in Nat
            BY Requested
        <3>2. /\ q \in 0 .. Len(req.questions) /\ q - 1 \in 0 .. Len(req.questions)
              /\ Len(req.questions) \in 0 .. Len(req.questions) /\ q <= Len(req.questions)
            BY <3>1
        <3>3. /\ Total(Rounds(Family, req.questions)) = S(Len(req.questions))
              /\ \A k \in 0 .. Len(req.questions) : S(k) \in Nat
              /\ S(q) = S(q - 1) + V
              /\ \A i, k \in 0 .. Len(req.questions) : i <= k => S(i) <= S(k)
            BY RoundsAre DEF V
        <3>. HIDE DEF S
        <3>. QED BY <2>1, <3>2, <3>3
    <2>3. \A v \in 0 .. V - 1 :
            Place(Family, req.questions, q, v) <= Len(scores) =>
              scores[Place(Family, req.questions, q, v)] = Shown(q, n, v)
        BY <2>1 DEF InOrder, V, n
    <2>4. \A v \in 0 .. V - 1 : Place(Family, req.questions, q, v) = S(q - 1) + v + 1
        BY DEF Place
    <2>5. i_prompt = S(q - 1) + 1 /\ i_prompt \in Nat \ {0} /\ i_prompt + V - 1 <= Len(scores) /\ V \in Nat
        <3>1. i_prompt = 1 + S(q - 1)
            BY <1>3
        <3>. DEFINE s == S(q - 1)
                    e == S(q)
        <3>2. s \in Nat /\ e = s + V /\ e <= Len(scores) /\ i_prompt = 1 + s
            BY <2>2, <3>1
        <3>. HIDE DEF s, e
        <3>3. i_prompt = s + 1 /\ i_prompt \in Nat \ {0} /\ i_prompt + V - 1 <= Len(scores) /\ V \in Nat
            BY <1>1, <2>2, <3>2
        <3>. QED BY <3>3 DEF s
    <2>6. IsSeq(t) /\ Len(t) = V /\ DOMAIN t = 1 .. V /\ \A v \in 1 .. V : t[v] = scores[i_prompt + v - 1]
        <3>. DEFINE D == Elements(scores)
        <3>1. scores \in Seq(D)
            BY DEF IsSeq
        <3>. HIDE DEF D, S
        <3>2. /\ i_prompt \in Nat \ {0} /\ V \in Nat /\ i_prompt + V - 1 <= Len(scores)
            BY <2>5
        <3>3. t \in Seq(D) /\ Len(t) = V /\ \A v \in 1 .. V : t[v] = scores[i_prompt + v - 1]
            <4>1. IsPart(t, scores, i_prompt, V, D)
                BY <3>1, <3>2, PartOf
            <4>. HIDE DEF t
            <4>. QED BY <4>1 DEF IsPart
        <3>. HIDE DEF t
        <3>4. t \in [1 .. V -> D]
            BY <3>3, LenProperties
        <3>5. DOMAIN t = 1 .. V
            BY <3>4
        <3>6. IsSeq(t)
            BY <2>5, <3>4, PlacesInSeq
        <3>. QED BY <3>3, <3>5, <3>6
    <2>7. \A v \in 1 .. V : t[v] = Shown(q, n, v - 1)
        <3>. HIDE DEF t
        <3>. TAKE v \in 1 .. V
        <3>. DEFINE s == S(q - 1)
                    e == S(q)
                    p == Place(Family, req.questions, q, v - 1)
        <3>1. v - 1 \in 0 .. V - 1 /\ p = s + (v - 1) + 1 /\ s \in Nat /\ e = s + V /\ e <= Len(scores)
              /\ i_prompt = s + 1 /\ V \in Nat /\ Len(scores) \in Nat /\ v \in Int /\ v <= V
            <4>1. v - 1 \in 0 .. V - 1
                BY <2>5
            <4>2. v \in Int /\ v <= V
                BY <2>5
            <4>. HIDE DEF S
            <4>3. p = S(q - 1) + (v - 1) + 1
                BY <2>4, <4>1
            <4>. QED BY <2>2, <2>5, <4>1, <4>2, <4>3
        <3>2. p <= Len(scores) => scores[p] = Shown(q, n, v - 1)
            BY <2>3, <3>1
        <3>. HIDE DEF s, e, p
        <3>3. p <= Len(scores) /\ p = i_prompt + v - 1
            BY <3>1
        <3>. QED BY <2>6, <3>2, <3>3
    <2>8. Taken(asked) = t
        BY <1>1, <1>3 DEF Taken
    <2>. HIDE DEF t
    <2>. QED BY <1>3, <2>6, <2>7, <2>8 DEF n, V
<1>. QED BY <1>2, <1>3

\* The question is answered, and from its own scores.
LEMMA AnswerRight ==
    ASSUME Asking, NEW q \in 1 .. Len(req.questions),
           IsSeq(scores), AllRead(Family, req.questions, scores),
           ~IsJoint => i_prompt = 1 + SumTo(Rounds(Family, req.questions), q - 1),
           IsJoint => i_score = SumTo(Sizes(req.questions), q - 1)
    PROVE  LET asked == req.questions[q]
           IN  /\ ~Mismatch(asked)
               /\ Formatted(asked) = Due(q, NOutputs(asked), NVariants(asked))
<1>. DEFINE asked == req.questions[q]
            n == OutputsOf(Family, asked)
            V == VariantsOf(Family, asked)
            taken == Taken(asked)
<1>1. /\ V \in 1 .. 2 /\ n \in Nat /\ NVariants(asked) = V /\ NOutputs(asked) = n
      /\ Len(asked.options) \in Nat
    BY Counted, Asked
<1>2. /\ DOMAIN taken = 1 .. V
      /\ \A v \in 1 .. V : taken[v] = Shown(q, n, v - 1)
      /\ IsJoint => i_score + Len(asked.options) <= Len(scores[1])
    BY TakenRight
<1>. HIDE DEF n, V, taken
<1>3. \A v \in 1 .. V : Len(taken[v]) = n
    <2>. TAKE v \in 1 .. V
    <2>. DEFINE r == Shown(q, n, v - 1)
    <2>1. r \in [1 .. n -> {r[i] : i \in 1 .. n}]
        BY DEF Shown
    <2>. HIDE DEF r
    <2>2. Len(r) = n
        BY <1>1, <2>1, PlacesInSeq
    <2>. QED BY <1>2, <2>2 DEF r
<1>4. IsJoint => ~(i_score + Len(asked.options) > Len(scores[1]))
    <2>. HAVE IsJoint
    <2>1. i_score \in Nat
        <3>1. q - 1 \in 0 .. Len(req.questions)
            BY Requested
        <3>2. SumTo(Sizes(req.questions), q - 1) \in Nat
            BY <3>1, SizesAre
        <3>. QED BY <3>2
    <2>2. Len(scores[1]) \in Nat
        <3>1. InParts(req.questions, scores[1])
            BY DEF AllRead, IsJoint
        <3>2. scores[1] \in Seq(SUBSET (Int \X Int \X Int))
            BY <3>1 DEF InParts
        <3>. QED BY <3>2, LenProperties
    <2>. DEFINE a == i_score
                b == Len(asked.options)
                c == Len(scores[1])
    <2>3. a \in Nat /\ b \in Nat /\ c \in Nat /\ a + b <= c
        BY <1>1, <1>2, <2>1, <2>2
    <2>. HIDE DEF a, b, c
    <2>4. ~(a + b > c)
        BY <2>3
    <2>. QED BY <2>4 DEF a, b, c
<1>5. ~Mismatch(asked)
    BY <1>1, <1>2, <1>3, <1>4 DEF Mismatch, taken
<1>6. Gathered(n, taken) = Due(q, n, V)
    BY <1>1, <1>2, PlacedRight
<1>7. Formatted(asked) = Due(q, n, V)
    BY <1>1, <1>6 DEF Formatted, Gathered, taken
<1>. QED BY <1>1, <1>5, <1>7

-----------------------------------------------------------------------------
(* The steps of the route.                                                 *)

\* What depends on the request alone stays while the request stays.
LEMMA Kept ==
    ASSUME conf' = conf, req' = req
    PROVE  /\ Family' = Family /\ IsJoint' = IsJoint /\ OmniMax' = OmniMax
           /\ \A k : (OmniAround(k))' = OmniAround(k)
<1>1. Family' = Family
    BY DEF Family
<1>2. OmniMax' = OmniMax
    BY DEF OmniMax
<1>3. \A k : (OmniAround(k))' = OmniAround(k)
    BY <1>2 DEF OmniAround, LensOf
<1>. QED BY <1>1, <1>2, <1>3 DEF IsJoint

\* Each answer has what is due, of the questions asked.
Told(family, questions, told) ==
  \A q \in DOMAIN told :
    told[q] = Due(q, OutputsOf(family, questions[q]), VariantsOf(family, questions[q]))

LEMMA OwnIsTold == OwnScores <=> Told(Family, req.questions, answers)
BY DEF OwnScores, Told, Due, OutputsOf, VariantsOf, NOutputs, NVariants

LEMMA OwnIsToldNext == OwnScores' <=> Told(Family', req'.questions, answers')
BY DEF OwnScores, Told, Due, OutputsOf, VariantsOf, NOutputs, NVariants

\* What is read in prompts, one reading for each.
LEMMA ReadingsOf ==
    ASSUME NEW ps, IsSeq(ps)
    PROVE  /\ Len(ps) \in Nat /\ IsSeq(Readings(ps)) /\ Len(Readings(ps)) = Len(ps)
           /\ DOMAIN ps = 1 .. Len(ps)
           /\ \A i \in 1 .. Len(ps) : Readings(ps)[i] = Read(ps[i])
<1>. DEFINE n == Len(ps)
            r == Readings(ps)
            T == {Read(ps[i]) : i \in 1 .. n}
<1>1. n \in Nat /\ DOMAIN ps = 1 .. n
    <2>. DEFINE D == Elements(ps)
    <2>1. ps \in Seq(D)
        BY DEF IsSeq
    <2>. HIDE DEF D
    <2>. QED BY <2>1, LenProperties
<1>2. r \in [1 .. n -> T] /\ \A i \in 1 .. n : r[i] = Read(ps[i])
    <2>1. r = [i \in 1 .. n |-> Read(ps[i])]
        BY <1>1 DEF Readings
    <2>. QED BY <2>1
<1>. HIDE DEF n, r, T
<1>3. IsSeq(r) /\ Len(r) = n
    BY <1>1, <1>2, PlacesInSeq
<1>. QED BY <1>1, <1>2, <1>3 DEF n, r

\* A request refused for another reason than the counts, or for room that is not there.
LEMMA RefuseKeeps ==
    ASSUME Inv, pc # "refused", NEW why, Refuse(why), why # "mismatch",
           why = "room" => (Family = "omni" => RowsOf(OmniAround(at.question)) > OmniMax)
    PROVE  Inv'
<1>1. /\ conf' = conf /\ req' = req /\ at' = at /\ prompts' = prompts /\ scores' = scores
      /\ i_prompt' = i_prompt /\ i_score' = i_score /\ answers' = answers
      /\ pc' = "refused" /\ refused' = why
    BY DEF Refuse
<1>2. /\ Family' = Family /\ OmniMax' = OmniMax /\ \A k : (OmniAround(k))' = OmniAround(k)
    BY <1>1, Kept
<1>3. OwnScores'
    BY <1>1, <1>2, OwnIsTold, OwnIsToldNext DEF Inv
<1>4. StateGivesWay'
    <2>1. ASSUME NEW k
          PROVE  (RowsOf(OmniAround(k)))' = RowsOf(OmniAround(k))
        <3>1. (OmniAround(k))' = OmniAround(k)
            BY <1>2
        <3>. QED BY <3>1
    <2>2. (RowsOf(OmniAround(at.question)))' = RowsOf(OmniAround(at.question))
        <3>1. (OmniAround(at.question))' = OmniAround(at.question)
            <4>1. (LensOf(at.question))' = LensOf(at.question)
                BY <1>1 DEF LensOf
            <4>. QED BY <1>1, <1>2, <4>1 DEF OmniAround
        <3>. QED BY <3>1
    <2>3. StateGivesWay
        BY DEF Inv
    <2>. QED BY <1>1, <1>2, <2>1, <2>2, <2>3 DEF StateGivesWay
<1>5. CountsAgree'
    BY <1>1 DEF CountsAgree
<1>6. /\ (conf \in [family : Families, stateFirst : BOOLEAN])'
      /\ (at \in [question : Nat, variant : Nat])'
      /\ IsSeq(prompts)' /\ (answers \in Seq(Seq(SUBSET (Int \X Int \X Int))))'
    BY <1>1 DEF Inv, IsSeq, Elements
<1>. QED BY <1>1, <1>3, <1>4, <1>5, <1>6 DEF Inv

\* Before the first prompt.
LEMMA NoneYet ==
    ASSUME NEW family, NEW n \in Nat \ {0}, NEW S, NEW questions \in [1 .. n -> S]
    PROVE  /\ SumTo(Rounds(family, questions), 0) = 0 /\ InOrder(family, questions, <<>>)
           /\ 1 \in 1 .. Len(questions) /\ 0 \in 0 .. VariantsOf(family, questions[1]) - 1
<1>. DEFINE lens == Rounds(family, questions)
<1>1. Len(questions) = n /\ 1 \in 1 .. n
    BY Listed
<1>2. \A asked : VariantsOf(family, asked) \in Nat /\ 0 \in 0 .. VariantsOf(family, asked) - 1
    BY DEF VariantsOf
<1>3. lens \in [1 .. n -> Nat]
    BY <1>1, <1>2 DEF Rounds
<1>. HIDE DEF lens
<1>4. lens \in Seq(Nat) /\ Len(lens) = n
    BY <1>3, Listed
<1>5. SumTo(lens, 0) = 0 /\ \A k \in 0 .. n : SumTo(lens, k) \in Nat
    BY <1>4, Sums
<1>6. ASSUME NEW q \in 1 .. n, NEW v \in 0 .. VariantsOf(family, questions[q]) - 1
      PROVE  ~(Place(family, questions, q, v) <= Len(<<>>))
    <2>. DEFINE s == SumTo(lens, q - 1)
    <2>1. q - 1 \in 0 .. n
        OBVIOUS
    <2>2. s \in Nat /\ v \in Nat
        BY <1>2, <1>5, <2>1
    <2>3. Place(family, questions, q, v) = s + v + 1
        BY DEF Place, lens
    <2>4. Len(<<>>) = 0
        OBVIOUS
    <2>. HIDE DEF s
    <2>. QED BY <2>2, <2>3, <2>4
<1>7. InOrder(family, questions, <<>>)
    BY <1>1, <1>6 DEF InOrder
<1>. QED BY <1>1, <1>2, <1>5, <1>7 DEF lens

LEMMA ParseKeeps ==
    ASSUME Inv, Parse
    PROVE  Inv'
<1>1. pc = "parse" /\ pc # "refused"
    BY DEF Parse
<1>2. CASE Refuse("body")
    BY <1>1, <1>2, RefuseKeeps
<1>3. CASE /\ req' \in Requests(Family)
           /\ pc' = "fill"
           /\ UNCHANGED <<conf, at, prompts, scores, i_prompt, i_score, answers, refused>>
    <2>1. Family' = Family /\ req' \in Requests(Family')
        BY <1>3 DEF Family
    <2>2. /\ at = First /\ prompts = <<>> /\ answers = <<>> /\ i_prompt = 1 /\ i_score = 0
          /\ refused = "" /\ conf \in [family : Families, stateFirst : BOOLEAN]
          /\ at \in [question : Nat, variant : Nat] /\ IsSeq(prompts)
          /\ answers \in Seq(Seq(SUBSET (Int \X Int \X Int)))
        BY <1>1 DEF Inv
    <2>3. /\ conf' = conf /\ at' = First /\ prompts' = <<>> /\ answers' = <<>> /\ i_prompt' = 1
          /\ i_score' = 0 /\ refused' = "" /\ pc' = "fill"
        BY <1>3, <2>2
    <2>4. PICK n \in 1 .. MaxQuestions : req'.questions \in [1 .. n -> Questions(Family')]
        BY <2>1 DEF Requests
    <2>5. n \in Nat \ {0}
        BY SystemOneAssumption
    <2>6. /\ SumTo(Rounds(Family', req'.questions), 0) = 0 /\ InOrder(Family', req'.questions, <<>>)
          /\ 1 \in 1 .. Len(req'.questions) /\ 0 \in 0 .. VariantsOf(Family', req'.questions[1]) - 1
        BY <2>4, <2>5, NoneYet
    <2>7. Readings(<<>>) = <<>> /\ Len(<<>>) = 0 /\ DOMAIN <<>> = {}
        BY DEF Readings
    <2>8. at'.question = 1 /\ at'.variant = 0
        BY <2>3 DEF First
    <2>9. Readings(prompts') = <<>> /\ Len(prompts') = 0
        BY <2>3, <2>7
    <2>10. Filling'
        <3>1. /\ at'.question \in 1 .. Len(req'.questions)
              /\ at'.variant \in 0 .. VariantsOf(Family', req'.questions[at'.question]) - 1
            BY <2>6, <2>8
        <3>2. /\ Len(prompts') = SumTo(Rounds(Family', req'.questions), at'.question - 1) + at'.variant
              /\ InOrder(Family', req'.questions, Readings(prompts'))
            <4>1. at'.question - 1 = 0 /\ 0 + 0 = 0
                BY <2>8
            <4>. QED BY <2>6, <2>8, <2>9, <4>1
        <3>3. at'.variant = 0 /\ Len(prompts') = at'.question - 1
            BY <2>8, <2>9
        <3>. QED BY <2>3, <3>1, <3>2, <3>3 DEF Filling
    <2>11. OwnScores' /\ StateGivesWay' /\ CountsAgree'
        BY <2>3, <2>7 DEF OwnScores, StateGivesWay, CountsAgree
    <2>12. /\ (conf \in [family : Families, stateFirst : BOOLEAN])'
           /\ (at \in [question : Nat, variant : Nat])'
           /\ IsSeq(prompts)' /\ (answers \in Seq(Seq(SUBSET (Int \X Int \X Int))))'
        BY <2>2, <2>3 DEF IsSeq, Elements
    <2>. QED BY <2>1, <2>3, <2>10, <2>11, <2>12 DEF Inv
<1>. QED BY <1>2, <1>3 DEF Parse

\* A request that has been parsed.
LEMMA Parsed ==
    ASSUME Inv, pc \in {"fill", "decide", "answer"}
    PROVE  /\ Asking /\ refused = "" /\ pc # "refused"
           /\ IsSeq(prompts) /\ answers \in Seq(Seq(SUBSET (Int \X Int \X Int)))
BY DEF Inv, Asking

\* The parts of the invariant that a step for the same request leaves to show.
LEMMA StepKeeps ==
    ASSUME Inv, pc \in {"fill", "decide", "answer"}, conf' = conf, req' = req, refused' = refused,
           pc' \in {"fill", "decide", "answer", "done"},
           (at \in [question : Nat, variant : Nat])', IsSeq(prompts)',
           (answers \in Seq(Seq(SUBSET (Int \X Int \X Int))))',
           pc' = "fill" => Filling', pc' = "answer" => Answering',
           pc' = "decide" => /\ at' = First /\ answers' = <<>> /\ i_prompt' = 1 /\ i_score' = 0
                             /\ AllRead(Family, req.questions, Readings(prompts')),
           Told(Family, req.questions, answers'),
           Family = "omni" => \A k \in DOMAIN prompts' :
             RowsOf(prompts'[k].rows)
               = req.media.rows + Least(OmniMax, RowsOf(OmniAround(k)) + req.state)
    PROVE  Inv'
<1>1. Asking /\ refused = ""
    BY Parsed
<1>2. /\ Family' = Family /\ OmniMax' = OmniMax /\ \A k : (OmniAround(k))' = OmniAround(k)
    BY Kept
<1>3. OwnScores'
    BY <1>2, OwnIsToldNext
<1>4. StateGivesWay'
    <2>1. ASSUME NEW k
          PROVE  (RowsOf(OmniAround(k)))' = RowsOf(OmniAround(k))
        <3>1. (OmniAround(k))' = OmniAround(k)
            BY <1>2
        <3>. QED BY <3>1
    <2>2. refused' # "room"
        BY <1>1
    <2>3. ASSUME Family' = "omni", NEW k \in DOMAIN prompts'
          PROVE  RowsOf(prompts'[k].rows)
                   = req'.media.rows + Least(OmniMax', (RowsOf(OmniAround(k)))' + req'.state)
        BY <1>2, <2>1, <2>3
    <2>. QED BY <2>2, <2>3 DEF StateGivesWay
<1>5. CountsAgree'
    BY <1>1 DEF CountsAgree
<1>6. (conf \in [family : Families, stateFirst : BOOLEAN])' /\ req' \in Requests(Family')
    BY <1>1, <1>2 DEF Asking
<1>7. pc' = "decide" => AllRead(Family', req'.questions, Readings(prompts'))
    BY <1>2
<1>8. /\ pc' \in {"parse", "fill", "decide", "answer", "done", "refused"} /\ pc' # "parse"
      /\ refused' = ""
    BY <1>1
<1>. QED BY <1>3, <1>4, <1>5, <1>6, <1>7, <1>8 DEF Inv

\* What Inv says of the answers and the prompts so far.
LEMMA SoFar ==
    ASSUME Inv
    PROVE  /\ Told(Family, req.questions, answers)
           /\ Family = "omni" => \A k \in DOMAIN prompts :
                RowsOf(prompts[k].rows)
                  = req.media.rows + Least(OmniMax, RowsOf(OmniAround(k)) + req.state)
           /\ at \in [question : Nat, variant : Nat]
BY OwnIsTold DEF Inv, StateGivesWay

LEMMA DecideKeeps ==
    ASSUME Inv, Decide
    PROVE  Inv'
<1>1. pc = "decide" /\ Asking /\ pc # "refused"
    BY Parsed DEF Decide
<1>2. CASE Refuse("decide")
    BY <1>1, <1>2, RefuseKeeps
<1>3. CASE /\ scores' = [i \in DOMAIN prompts |-> Read(prompts[i])]
           /\ pc' = "answer"
           /\ UNCHANGED <<conf, req, at, prompts, i_prompt, i_score, answers, refused>>
    <2>1. /\ at = First /\ answers = <<>> /\ i_prompt = 1 /\ i_score = 0
          /\ AllRead(Family, req.questions, Readings(prompts)) /\ IsSeq(prompts)
        BY <1>1 DEF Inv
    <2>2. scores' = Readings(prompts)
        BY <1>3 DEF Readings
    <2>3. IsSeq(scores') /\ AllRead(Family, req.questions, scores')
        BY <2>1, <2>2, ReadingsOf
    <2>4. Family' = Family /\ IsJoint' = IsJoint /\ req' = req
        BY <1>3, Kept
    <2>5. /\ 1 \in 1 .. Len(req.questions)
          /\ SumTo(Rounds(Family, req.questions), 0) = 0 /\ SumTo(Sizes(req.questions), 0) = 0
        <3>1. Len(req.questions) \in Nat \ {0}
            BY <1>1, Requested
        <3>. QED BY <1>1, <3>1, RoundsAre, SizesAre
    <2>6. /\ at'.question = 1 /\ i_prompt' = 1 /\ i_score' = 0 /\ answers' = <<>> /\ Len(<<>>) = 0
          /\ at'.question - 1 = 0
        BY <1>3, <2>1 DEF First
    <2>7. Answering'
        <3>1. at'.question \in 1 .. Len(req'.questions) /\ Len(answers') = at'.question - 1
            BY <2>4, <2>5, <2>6
        <3>2. i_prompt' = 1 + SumTo(Rounds(Family', req'.questions), at'.question - 1)
            BY <2>4, <2>5, <2>6
        <3>3. i_score' = SumTo(Sizes(req'.questions), at'.question - 1)
            BY <2>4, <2>5, <2>6
        <3>4. IsSeq(scores') /\ AllRead(Family', req'.questions, scores')
            BY <2>3, <2>4
        <3>. QED BY <3>1, <3>2, <3>3, <3>4 DEF Answering
    <2>8. /\ (at \in [question : Nat, variant : Nat])' /\ IsSeq(prompts)'
          /\ (answers \in Seq(Seq(SUBSET (Int \X Int \X Int))))'
        BY <1>1, <1>3, Parsed, SoFar DEF IsSeq, Elements
    <2>9. /\ Told(Family, req.questions, answers')
          /\ Family = "omni" => \A k \in DOMAIN prompts' :
               RowsOf(prompts'[k].rows)
                 = req.media.rows + Least(OmniMax, RowsOf(OmniAround(k)) + req.state)
        BY <1>3, SoFar
    <2>. QED BY <1>1, <1>3, <2>7, <2>8, <2>9, StepKeeps
<1>. QED BY <1>2, <1>3 DEF Decide

\* The answer to a question is made of its scores.
LEMMA AnswerKeeps ==
    ASSUME Inv, Answer
    PROVE  Inv'
<1>. DEFINE q == at.question
            m == Len(req.questions)
            asked == req.questions[q]
            V == VariantsOf(Family, asked)
            n == OutputsOf(Family, asked)
            S(k) == SumTo(Rounds(Family, req.questions), k)
            Z(k) == SumTo(Sizes(req.questions), k)
<1>1. pc = "answer" /\ Asking /\ pc # "refused"
    BY Parsed DEF Answer
<1>2. Answering
    BY <1>1 DEF Inv
<1>3. /\ q \in 1 .. m /\ IsSeq(scores) /\ AllRead(Family, req.questions, scores)
      /\ Len(answers) = q - 1
      /\ ~IsJoint => i_prompt = 1 + S(q - 1)
      /\ IsJoint => i_score = Z(q - 1)
    BY <1>2 DEF Answering
<1>4. ~Mismatch(asked) /\ Formatted(asked) = Due(q, NOutputs(asked), NVariants(asked))
    BY <1>1, <1>3, AnswerRight
<1>5. NOutputs(asked) = n /\ NVariants(asked) = V /\ V \in 1 .. 2 /\ n \in Nat
    BY <1>1, <1>3, Counted
<1>6. CASE Refuse("nan")
    BY <1>1, <1>6, RefuseKeeps
<1>7. CASE /\ answers' = Append(answers, Formatted(asked))
           /\ i_prompt' = (IF IsJoint THEN i_prompt ELSE i_prompt + NVariants(asked))
           /\ i_score' = (IF IsJoint THEN i_score + Len(asked.options) ELSE i_score)
           /\ at' = IF q = m THEN First ELSE [at EXCEPT !.question = @ + 1]
           /\ pc' = IF q = m THEN "done" ELSE "answer"
           /\ UNCHANGED <<conf, req, prompts, scores, refused>>
    <2>. DEFINE Outs == SUBSET (Int \X Int \X Int)
                due == Due(q, n, V)
    <2>1. Family' = Family /\ IsJoint' = IsJoint /\ req' = req /\ conf' = conf
        BY <1>7, Kept
    <2>2. answers' = Append(answers, due) /\ answers \in Seq(Seq(Outs)) /\ due \in Seq(Outs)
        <3>1. due \in [1 .. n -> Outs]
            <4>1. q \in Int
                BY <1>3
            <4>2. \A i \in 1 .. n : {<<q, v, i>> : v \in 0 .. V - 1} \in Outs
                BY <1>5, <4>1
            <4>. HIDE DEF n, V, Outs
            <4>. QED BY <4>2 DEF Due
        <3>2. answers \in Seq(Seq(Outs))
            BY <1>1, Parsed
        <3>. HIDE DEF Outs, due, n, V
        <3>3. due \in Seq(Outs)
            BY <1>5, <3>1, Listed
        <3>. QED BY <1>4, <1>5, <1>7, <3>2, <3>3 DEF due
    <2>. DEFINE Rows == Seq(Outs)
    <2>3. /\ answers' \in Seq(Rows) /\ Len(answers') = q /\ DOMAIN answers' = 1 .. q
          /\ \A k \in 1 .. q - 1 : answers'[k] = answers[k]
          /\ answers'[q] = due /\ DOMAIN answers = 1 .. q - 1
        <3>. HIDE DEF Rows, due
        <3>1. answers \in Seq(Rows) /\ due \in Rows
            BY <2>2 DEF Rows
        <3>2. /\ answers' \in Seq(Rows) /\ Len(answers') = Len(answers) + 1
              /\ \A k \in 1 .. Len(answers) : answers'[k] = answers[k]
              /\ answers'[Len(answers) + 1] = due
            BY <2>2, <3>1, AppendProperties
        <3>3. Len(answers) + 1 = q
            BY <1>3
        <3>. QED BY <1>3, <3>1, <3>2, <3>3, LenProperties
    <2>4. Told(Family, req.questions, answers')
        <3>1. Told(Family, req.questions, answers)
            BY SoFar
        <3>2. ASSUME NEW k \in 1 .. q
              PROVE  answers'[k] = Due(k, OutputsOf(Family, req.questions[k]), VariantsOf(Family, req.questions[k]))
            <4>1. CASE k = q
                BY <2>3, <4>1
            <4>2. CASE k # q
                <5>1. k \in 1 .. q - 1
                    BY <1>3, <4>2
                <5>. QED BY <2>3, <3>1, <5>1 DEF Told
            <4>. QED BY <4>1, <4>2
        <3>. HIDE DEF q
        <3>. QED BY <2>3, <3>2 DEF Told
    <2>5. /\ (at \in [question : Nat, variant : Nat])' /\ IsSeq(prompts)'
          /\ (answers \in Seq(Seq(Outs)))'
        <3>1. at \in [question : Nat, variant : Nat]
            BY SoFar
        <3>2. at' \in [question : Nat, variant : Nat]
            BY <1>7, <3>1 DEF First
        <3>3. IsSeq(prompts)'
            BY <1>1, <1>7, Parsed DEF IsSeq, Elements
        <3>. QED BY <2>3, <3>2, <3>3
    <2>6. Family = "omni" => \A k \in DOMAIN prompts' :
             RowsOf(prompts'[k].rows)
               = req.media.rows + Least(OmniMax, RowsOf(OmniAround(k)) + req.state)
        BY <1>7, SoFar
    <2>7. ASSUME pc' = "answer"
          PROVE  Answering'
        <3>1. q # m /\ at' = [at EXCEPT !.question = @ + 1] /\ at'.question = q + 1
            <4>1. at \in [question : Nat, variant : Nat]
                BY SoFar
            <4>. QED BY <1>7, <2>7, <4>1
        <3>2. m \in Nat /\ q + 1 \in 1 .. m /\ (q + 1) - 1 = q /\ q \in 0 .. m /\ q - 1 \in 0 .. m
            <4>1. m \in Nat
                BY <1>1, Requested
            <4>. QED BY <1>3, <3>1, <4>1
        <3>3. S(q) = S(q - 1) + V /\ S(q - 1) \in Nat /\ S(q) \in Nat
            BY <1>1, <1>3, <3>2, RoundsAre
        <3>4. Z(q) = Z(q - 1) + Len(asked.options)
            BY <1>1, <1>3, <3>2, SizesAre
        <3>5. ~IsJoint => i_prompt' = 1 + S(q)
            <4>. DEFINE s == S(q - 1)
                        e == S(q)
            <4>1. s \in Nat /\ e \in Nat /\ e = s + V
                BY <3>3
            <4>. HIDE DEF s, e, V
            <4>2. ~IsJoint => i_prompt = 1 + s /\ i_prompt' = i_prompt + V
                BY <1>3, <1>5, <1>7 DEF s
            <4>3. ~IsJoint => i_prompt' = 1 + e
                BY <1>5, <4>1, <4>2
            <4>. QED BY <4>3 DEF e
        <3>6. IsJoint => i_score' = Z(q)
            BY <1>3, <1>7, <3>4
        <3>7. /\ at'.question \in 1 .. Len(req'.questions) /\ Len(answers') = at'.question - 1
              /\ at'.question - 1 = q
            BY <2>1, <2>3, <3>1, <3>2
        <3>8. ~IsJoint' => i_prompt' = 1 + SumTo(Rounds(Family', req'.questions), at'.question - 1)
            BY <2>1, <3>5, <3>7
        <3>9. IsJoint' => i_score' = SumTo(Sizes(req'.questions), at'.question - 1)
            BY <2>1, <3>6, <3>7
        <3>10. IsSeq(scores') /\ AllRead(Family', req'.questions, scores')
            BY <1>3, <1>7, <2>1
        <3>. QED BY <3>7, <3>8, <3>9, <3>10 DEF Answering
    <2>8. pc' \in {"answer", "done"} /\ pc' # "fill" /\ pc' # "decide" /\ refused' = refused
        BY <1>7
    <2>. QED BY <1>1, <2>1, <2>4, <2>5, <2>6, <2>7, <2>8, StepKeeps
<1>. QED
    <2>1. ~(Mismatch(asked) /\ Refuse("mismatch"))
        BY <1>4
    <2>. QED BY <1>6, <1>7, <2>1 DEF Answer

\* The one prompt of a joint head reads the questions one after the other.
LEMMA JointFilled ==
    ASSUME Asking, IsJoint
    PROVE  AllRead(Family, req.questions, Readings(<<FillPrompt(1, 0)>>))
<1>. DEFINE m == Len(req.questions)
            qs == [k \in DOMAIN req.questions |-> k]
            lens == Sizes(req.questions)
            r == Read(FillJoint(qs))
<1>1. m \in Nat \ {0} /\ DOMAIN req.questions = 1 .. m
    BY Requested
<1>2. qs \in [1 .. m -> 1 .. m] /\ \A k \in 1 .. m : qs[k] = k
    BY <1>1
<1>. HIDE DEF m, qs
<1>3. qs \in Seq(1 .. m) /\ Len(qs) = m
    BY <1>1, <1>2, Listed
<1>4. lens \in Seq(Nat) /\ Len(lens) = m /\ \A k \in 1 .. m : lens[k] = Len(req.questions[k].options)
    BY SizesAre DEF m
<1>. HIDE DEF lens
<1>5. \A k \in 1 .. Len(qs) : lens[k] = Len(req.questions[qs[k]].options)
    BY <1>2, <1>3, <1>4
<1>6. /\ Len(r) = Total(lens) /\ r \in Seq(SUBSET (Int \X Int \X Int))
      /\ \A k \in 1 .. Len(qs) : \A i \in 1 .. lens[k] : r[SumTo(lens, k - 1) + i] = {<<qs[k], 0, i>>}
    <2>1. qs \in Seq(1 .. Len(req.questions)) /\ lens \in Seq(Nat) /\ Len(lens) = Len(qs)
        BY <1>3, <1>4 DEF m
    <2>. HIDE DEF r
    <2>2. /\ Len(Read(FillJoint(qs))) = Total(lens)
          /\ Read(FillJoint(qs)) \in Seq(SUBSET (Int \X Int \X Int))
          /\ \A k \in 1 .. Len(qs) : \A i \in 1 .. lens[k] :
               Read(FillJoint(qs))[SumTo(lens, k - 1) + i] = {<<qs[k], 0, i>>}
        BY <1>5, <2>1, JointReads
    <2>. QED BY <2>2 DEF r
<1>. HIDE DEF r
<1>7. InParts(req.questions, r)
    <2>1. \A k \in 1 .. m : \A i \in 1 .. lens[k] : r[SumTo(lens, k - 1) + i] = {<<k, 0, i>>}
        BY <1>2, <1>3, <1>6
    <2>. QED BY <1>6, <2>1 DEF InParts, lens, m
<1>8. FillPrompt(1, 0) = FillJoint(qs)
    BY DEF FillPrompt, IsJoint, qs
<1>9. Readings(<<FillPrompt(1, 0)>>) = <<r>>
    BY <1>8 DEF Readings, r
<1>10. Len(<<r>>) = 1 /\ <<r>>[1] = r
    OBVIOUS
<1>. QED BY <1>7, <1>9, <1>10 DEF AllRead, IsJoint

\* The next prompt is read where its question and variant belong.
LEMMA NextFilled ==
    ASSUME Asking, ~IsJoint, IsSeq(prompts), NEW q \in 1 .. Len(req.questions),
           NEW v \in 0 .. VariantsOf(Family, req.questions[q]) - 1,
           Len(prompts) = SumTo(Rounds(Family, req.questions), q - 1) + v,
           InOrder(Family, req.questions, Readings(prompts)),
           ~OptionsLost(q, FillPrompt(q, v))
    PROVE  LET more == Append(prompts, FillPrompt(q, v))
           IN  /\ IsSeq(more) /\ Len(more) = SumTo(Rounds(Family, req.questions), q - 1) + v + 1
               /\ InOrder(Family, req.questions, Readings(more))
<1>. DEFINE p == FillPrompt(q, v)
            more == Append(prompts, p)
            rows == Readings(prompts)
            new == Readings(more)
            s == SumTo(Rounds(Family, req.questions), q - 1)
            n == Len(prompts)
<1>1. Read(p) = Shown(q, OutputsOf(Family, req.questions[q]), v)
    BY Reads
<1>. HIDE DEF p
<1>2. /\ IsSeq(more) /\ n \in Nat /\ Len(more) = n + 1
      /\ \A i \in 1 .. n : more[i] = prompts[i]
      /\ more[n + 1] = p
    BY MoreElements
<1>. HIDE DEF more
<1>3. /\ Len(rows) = n /\ \A i \in 1 .. n : rows[i] = Read(prompts[i])
    BY ReadingsOf
<1>4. /\ Len(new) = n + 1 /\ \A i \in 1 .. n + 1 : new[i] = Read(more[i])
    BY <1>2, ReadingsOf
<1>. HIDE DEF rows, new
<1>5. \A i \in 1 .. n : new[i] = rows[i]
    BY <1>2, <1>3, <1>4
<1>6. new[n + 1] = Read(p)
    BY <1>2, <1>4
<1>7. InOrder(Family, req.questions, rows)
    BY DEF rows
<1>8. Len(rows) = SumTo(Rounds(Family, req.questions), q - 1) + v /\ Len(new) = Len(rows) + 1
    BY <1>3, <1>4
<1>9. new[Len(rows) + 1] = Shown(q, OutputsOf(Family, req.questions[q]), v)
    BY <1>1, <1>3, <1>6
<1>10. \A i \in 1 .. Len(rows) : new[i] = rows[i]
    BY <1>3, <1>5
<1>11. InOrder(Family, req.questions, new)
    BY <1>7, <1>8, <1>9, <1>10, InOrderNext
<1>. QED BY <1>2, <1>11 DEF new, more, p

\* A prompt is made, or what it is for does not fit.
LEMMA FillKeeps ==
    ASSUME Inv, Fill
    PROVE  Inv'
<1>. DEFINE q == at.question
            v == at.variant
            m == Len(req.questions)
            asked == req.questions[q]
            V == VariantsOf(Family, asked)
            S(k) == SumTo(Rounds(Family, req.questions), k)
            p == FillPrompt(q, v)
            lastVariant == v + 1 = NVariants(asked)
            last == IsJoint \/ (lastVariant /\ q = m)
<1>1. pc = "fill" /\ Asking /\ pc # "refused" /\ IsSeq(prompts)
    BY Parsed DEF Fill
<1>2. Filling
    BY <1>1 DEF Inv
<1>3. /\ q \in 1 .. m /\ v \in 0 .. V - 1 /\ answers = <<>> /\ i_prompt = 1 /\ i_score = 0
      /\ IsJoint => at = First /\ prompts = <<>>
      /\ ~IsJoint => /\ Len(prompts) = S(q - 1) + v
                     /\ InOrder(Family, req.questions, Readings(prompts))
      /\ Family = "omni" => v = 0 /\ Len(prompts) = q - 1
    BY <1>2 DEF Filling
<1>4. /\ NVariants(asked) = V /\ V \in 1 .. 2
      /\ Family # "lev" => V = 1
    BY <1>1, <1>3, Counted
<1>8. v \in Nat /\ V \in Nat /\ (V = 1 => v = 0) /\ (v + 1 = V \/ v + 1 \in 0 .. V - 1)
    <2>1. V \in 1 .. 2 /\ v \in 0 .. V - 1
        BY <1>3, <1>4
    <2>. HIDE DEF V, v
    <2>. QED BY <2>1
<1>5. CASE MediaRefused /\ Refuse("media")
    BY <1>1, <1>5, RefuseKeeps
<1>6. CASE OptionsLost(q, p) /\ Refuse("room")
    <2>1. Family = "omni" /\ p = FillOmni(q)
        BY <1>6 DEF OptionsLost, FillPrompt
    <2>2. Len(FillOmni(q).markers) # Len(req.questions[q].options)
        BY <1>6, <2>1 DEF OptionsLost
    <2>. HIDE DEF p
    <2>3. RowsOf(OmniAround(q)) > OmniMax
        BY <1>1, <1>3, <2>2, OmniReads
    <2>. QED BY <1>1, <1>6, <2>3, RefuseKeeps
<1>7. CASE /\ ~OptionsLost(q, p)
           /\ prompts' = Append(prompts, p)
           /\ at' = IF last THEN First
                    ELSE IF lastVariant THEN [question |-> q + 1, variant |-> 0]
                    ELSE [at EXCEPT !.variant = @ + 1]
           /\ pc' = IF last THEN "decide" ELSE "fill"
           /\ UNCHANGED <<conf, req, scores, i_prompt, i_score, answers, refused>>
    <2>. DEFINE n == Len(prompts)
    <2>1. Family' = Family /\ IsJoint' = IsJoint /\ req' = req /\ conf' = conf
        BY <1>7, Kept
    <2>2. at \in [question : Nat, variant : Nat] /\ m \in Nat \ {0}
        BY <1>1, Requested, SoFar
    <2>3. /\ IsSeq(prompts') /\ n \in Nat /\ DOMAIN prompts' = 1 .. n + 1
          /\ DOMAIN prompts = 1 .. n
          /\ \A k \in 1 .. n : prompts'[k] = prompts[k]
          /\ prompts'[n + 1] = p
        BY <1>1, <1>7, MoreElements
    <2>4. Family = "omni" => \A k \in DOMAIN prompts' :
             RowsOf(prompts'[k].rows)
               = req.media.rows + Least(OmniMax, RowsOf(OmniAround(k)) + req.state)
        <3>. SUFFICES ASSUME Family = "omni", NEW k \in DOMAIN prompts'
                      PROVE  RowsOf(prompts'[k].rows)
                               = req.media.rows + Least(OmniMax, RowsOf(OmniAround(k)) + req.state)
            OBVIOUS
        <3>1. CASE k \in 1 .. n
            <4>1. prompts'[k] = prompts[k] /\ k \in DOMAIN prompts
                BY <2>3, <3>1
            <4>. QED BY <4>1, SoFar
        <3>2. CASE k = n + 1
            <4>1. k = q
                BY <1>3, <3>2
            <4>2. p = FillOmni(q)
                BY DEF FillPrompt
            <4>. HIDE DEF p, q
            <4>3. RowsOf(FillOmni(q).rows)
                    = req.media.rows + Least(OmniMax, RowsOf(OmniAround(q)) + req.state)
                BY <1>1, <1>3, OmniReads
            <4>. QED BY <2>3, <3>2, <4>1, <4>2, <4>3
        <3>. QED BY <2>3, <3>1, <3>2
    <2>5. Told(Family, req.questions, answers')
        BY <1>7, SoFar
    <2>6. CASE IsJoint
        <3>1. q = 1 /\ v = 0 /\ prompts' = <<p>> /\ at' = First /\ pc' = "decide"
            BY <1>3, <1>7, <2>6 DEF First
        <3>2. AllRead(Family, req.questions, Readings(prompts'))
            BY <1>1, <2>6, <3>1, JointFilled
        <3>3. (at \in [question : Nat, variant : Nat])'
            BY <3>1 DEF First
        <3>5. (answers \in Seq(Seq(SUBSET (Int \X Int \X Int))))' /\ IsSeq(prompts)'
            BY <1>1, <1>7, <2>3, Parsed
        <3>4. answers' = <<>> /\ i_prompt' = 1 /\ i_score' = 0 /\ refused' = refused
            BY <1>3, <1>7
        <3>. QED BY <1>1, <2>1, <2>4, <2>5, <3>1, <3>2, <3>3, <3>4, <3>5, StepKeeps
    <2>7. CASE ~IsJoint
        <3>1. /\ Len(prompts') = S(q - 1) + v + 1 /\ InOrder(Family, req.questions, Readings(prompts'))
            BY <1>1, <1>3, <1>7, <2>7, NextFilled
        <3>2. /\ q - 1 \in 0 .. m /\ q \in 0 .. m /\ S(q) = S(q - 1) + V /\ S(q - 1) \in Nat /\ S(q) \in Nat
              /\ Total(Rounds(Family, req.questions)) = S(m)
            <4>1. q - 1 \in 0 .. m /\ q \in 0 .. m
                BY <1>3, <2>2
            <4>. QED BY <1>1, <1>3, <4>1, RoundsAre
        <3>3. lastVariant => Len(prompts') = S(q)
            <4>. DEFINE s == S(q - 1)
                        e == S(q)
            <4>1. s \in Nat /\ e = s + V /\ V \in Nat /\ Len(prompts') = s + v + 1 /\ v \in Nat
                BY <1>8, <3>1, <3>2
            <4>2. lastVariant => v + 1 = V
                BY <1>4
            <4>. HIDE DEF s, e, V, v, lastVariant
            <4>3. lastVariant => Len(prompts') = e
                BY <4>1, <4>2
            <4>. QED BY <4>3 DEF e
        <3>4. answers' = <<>> /\ i_prompt' = 1 /\ i_score' = 0 /\ refused' = refused
            BY <1>3, <1>7
        <3>5. (answers \in Seq(Seq(SUBSET (Int \X Int \X Int))))' /\ IsSeq(prompts)'
            BY <1>1, <1>7, <2>3, Parsed
        <3>6. CASE last
            <4>1. at' = First /\ pc' = "decide" /\ lastVariant /\ q = m
                BY <1>7, <2>7, <3>6
            <4>2. Len(Readings(prompts')) = Len(prompts')
                BY <2>3, ReadingsOf
            <4>3. Len(Readings(prompts')) = Total(Rounds(Family, req.questions))
                BY <3>2, <3>3, <4>1, <4>2
            <4>4. AllRead(Family, req.questions, Readings(prompts'))
                BY <2>7, <3>1, <4>3 DEF AllRead, IsJoint
            <4>5. (at \in [question : Nat, variant : Nat])'
                BY <4>1 DEF First
            <4>6. /\ pc' \in {"fill", "decide", "answer", "done"}
                  /\ pc' = "fill" => Filling'
                  /\ pc' = "answer" => Answering'
                BY <4>1
            <4>7. pc \in {"fill", "decide", "answer"}
                BY <1>1
            <4>8. pc' = "decide" => /\ at' = First /\ answers' = <<>> /\ i_prompt' = 1 /\ i_score' = 0
                                    /\ AllRead(Family, req.questions, Readings(prompts'))
                BY <3>4, <4>1, <4>4
            <4>9. conf' = conf /\ req' = req /\ refused' = refused
                BY <2>1, <3>4
            <4>. QED BY <2>4, <2>5, <3>5, <4>5, <4>6, <4>7, <4>8, <4>9, StepKeeps, Zenon
        <3>7. CASE ~last
            <4>1. pc' = "fill" /\ at' \in [question : Nat, variant : Nat]
                <5>. HIDE DEF lastVariant, last, V
                <5>1. /\ pc' = "fill"
                      /\ at' = IF lastVariant THEN [question |-> q + 1, variant |-> 0]
                               ELSE [at EXCEPT !.variant = @ + 1]
                    BY <1>7, <3>7, Zenon
                <5>2. q + 1 \in Nat /\ [at EXCEPT !.variant = @ + 1] \in [question : Nat, variant : Nat]
                    BY <2>2
                <5>. QED BY <5>1, <5>2
            <4>2. /\ at'.question \in 1 .. m
                  /\ at'.variant \in 0 .. VariantsOf(Family, req.questions[at'.question]) - 1
                  /\ Len(prompts') = S(at'.question - 1) + at'.variant
                  /\ Family = "omni" => at'.variant = 0 /\ Len(prompts') = at'.question - 1
                <5>1. CASE lastVariant
                    <6>1. at'.question = q + 1 /\ at'.variant = 0 /\ q # m
                        BY <1>7, <3>7, <5>1
                    <6>2. q + 1 \in 1 .. m /\ (q + 1) - 1 = q
                        BY <1>3, <2>2, <6>1
                    <6>3. VariantsOf(Family, req.questions[q + 1]) \in 1 .. 2
                        BY <1>1, <6>2, Counted
                    <6>4. 0 \in 0 .. VariantsOf(Family, req.questions[q + 1]) - 1
                        BY <6>3
                    <6>5. Len(prompts') = S(q) + 0
                        <7>1. S(q) \in Nat
                            BY <3>2
                        <7>. HIDE DEF S
                        <7>. QED BY <3>3, <5>1, <7>1
                    <6>6. Family = "omni" => Len(prompts') = q
                        <7>1. Len(prompts') = n + 1
                            BY <1>1, <1>7, MoreElements
                        <7>. QED BY <1>3, <7>1
                    <6>. QED BY <6>1, <6>2, <6>4, <6>5, <6>6
                <5>2. CASE ~lastVariant
                    <6>1. at'.question = q /\ at'.variant = v + 1
                        BY <1>7, <2>2, <3>7, <5>2
                    <6>2. v + 1 \in 0 .. V - 1 /\ V # 1
                        <7>1. ~(v + 1 = V)
                            BY <1>4, <5>2
                        <7>. HIDE DEF V, v
                        <7>. QED BY <1>8, <7>1
                    <6>3. Family # "omni"
                        <7>1. Family # "lev" => V = 1
                            BY <1>4
                        <7>. HIDE DEF V
                        <7>. QED BY <6>2, <7>1
                    <6>4. Len(prompts') = S(q - 1) + (v + 1)
                        <7>1. v \in Nat
                            BY <1>8
                        <7>. HIDE DEF S, v
                        <7>. QED BY <3>1, <3>2, <7>1
                    <6>. QED BY <1>3, <6>1, <6>2, <6>3, <6>4
                <5>. QED BY <5>1, <5>2
            <4>3. Filling'
                <5>1. /\ at'.question \in 1 .. Len(req'.questions)
                      /\ at'.variant \in 0 .. VariantsOf(Family', req'.questions[at'.question]) - 1
                    BY <2>1, <4>2
                <5>2. /\ Len(prompts') = SumTo(Rounds(Family', req'.questions), at'.question - 1) + at'.variant
                      /\ InOrder(Family', req'.questions, Readings(prompts'))
                    BY <2>1, <3>1, <4>2
                <5>3. Family' = "omni" => at'.variant = 0 /\ Len(prompts') = at'.question - 1
                    BY <2>1, <4>2
                <5>. QED BY <2>1, <2>7, <3>4, <5>1, <5>2, <5>3 DEF Filling
            <4>. QED BY <1>1, <2>1, <2>4, <2>5, <3>4, <3>5, <4>1, <4>3, StepKeeps
        <3>. QED BY <3>6, <3>7
    <2>. QED BY <2>6, <2>7
<1>. QED BY <1>5, <1>6, <1>7 DEF Fill

-----------------------------------------------------------------------------

LEMMA InitInv ==
    ASSUME Init
    PROVE  Inv
<1>1. /\ conf \in [family : Families, stateFirst : BOOLEAN]
      /\ pc = "parse" /\ at = First /\ prompts = <<>> /\ answers = <<>>
      /\ i_prompt = 1 /\ i_score = 0 /\ refused = ""
    BY DEF Init, First
<1>2. at \in [question : Nat, variant : Nat]
    BY <1>1 DEF First
<1>3. IsSeq(prompts) /\ answers \in Seq(Seq(SUBSET (Int \X Int \X Int))) /\ DOMAIN <<>> = {}
    <2>. DEFINE D == Elements(prompts)
                Rows == Seq(SUBSET (Int \X Int \X Int))
    <2>. HIDE DEF D, Rows
    <2>1. prompts \in Seq(D) /\ answers \in Seq(Rows)
        BY <1>1, EmptySeq
    <2>2. DOMAIN <<>> = {}
        OBVIOUS
    <2>. QED BY <2>1, <2>2 DEF IsSeq, D, Rows
<1>4. OwnScores /\ StateGivesWay /\ CountsAgree
    BY <1>1, <1>3 DEF OwnScores, StateGivesWay, CountsAgree
<1>. QED BY <1>1, <1>2, <1>3, <1>4 DEF Inv

LEMMA NextInv ==
    ASSUME Inv, [Next]_vars
    PROVE  Inv'
<1>1. CASE Parse
    BY <1>1, ParseKeeps
<1>2. CASE Fill
    BY <1>2, FillKeeps
<1>3. CASE Decide
    BY <1>3, DecideKeeps
<1>4. CASE Answer
    BY <1>4, AnswerKeeps
<1>5. CASE UNCHANGED vars
    <2>1. /\ conf' = conf /\ pc' = pc /\ req' = req /\ at' = at /\ prompts' = prompts
          /\ scores' = scores /\ i_prompt' = i_prompt /\ i_score' = i_score
          /\ answers' = answers /\ refused' = refused
        BY <1>5 DEF vars
    <2>2. /\ Family' = Family /\ IsJoint' = IsJoint /\ OmniMax' = OmniMax
          /\ \A k : (OmniAround(k))' = OmniAround(k)
        BY <2>1, Kept
    <2>3. OwnScores'
        BY <2>1, <2>2, OwnIsTold, OwnIsToldNext DEF Inv
    <2>4. StateGivesWay'
        <3>1. ASSUME NEW k
              PROVE  (RowsOf(OmniAround(k)))' = RowsOf(OmniAround(k))
            <4>1. (OmniAround(k))' = OmniAround(k)
                BY <2>2
            <4>. QED BY <4>1
        <3>2. (RowsOf(OmniAround(at.question)))' = RowsOf(OmniAround(at.question))
            <4>1. (OmniAround(at.question))' = OmniAround(at.question)
                <5>1. (LensOf(at.question))' = LensOf(at.question)
                    BY <2>1 DEF LensOf
                <5>. QED BY <2>1, <2>2, <5>1 DEF OmniAround
            <4>. QED BY <4>1
        <3>3. StateGivesWay
            BY DEF Inv
        <3>. QED BY <2>1, <2>2, <3>1, <3>2, <3>3 DEF StateGivesWay
    <2>5. Filling => Filling'
        BY <2>1, <2>2 DEF Filling, First
    <2>6. Answering => Answering'
        BY <2>1, <2>2 DEF Answering, IsSeq, Elements
    <2>7. /\ IsSeq(prompts)' <=> IsSeq(prompts)
          /\ CountsAgree' <=> CountsAgree
        BY <2>1 DEF IsSeq, Elements, CountsAgree
    <2>. QED BY <2>1, <2>2, <2>3, <2>4, <2>5, <2>6, <2>7 DEF Inv
<1>. QED BY <1>1, <1>2, <1>3, <1>4, <1>5 DEF Next

\* Whatever a request asks, the prompts made so far are read where the route will look for their
\* scores, and the running indices are where the scores of the next question begin.
THEOREM Invariance == Spec => []Inv
<1>1. Init => Inv
    BY InitInv
<1>2. Inv /\ [Next]_vars => Inv'
    BY NextInv
<1>. QED BY <1>1, <1>2, PTL DEF Spec

\* The probability of an option is made from what the model said of that option of that question,
\* once in each variant, and of nothing else, whatever the family and however many questions and
\* options of whatever length (format_answer()).
THEOREM ScoresOwned == Spec => []OwnScores
<1>1. Inv => OwnScores
    BY DEF Inv
<1>. QED BY <1>1, Invariance, PTL

\* No request ends in "decision result does not match": the prompt maker, decide() and
\* format_answer() count the outputs of a question alike.
THEOREM NoMismatch == Spec => []CountsAgree
<1>1. Inv => CountsAgree
    BY DEF Inv
<1>. QED BY <1>1, Invariance, PTL

\* lfm2-d1-omni refuses a request for its options only if they do not fit without any state, and
\* cuts a state only when the prompt is full.
THEOREM StateCutLast == Spec => []StateGivesWay
<1>1. Inv => StateGivesWay
    BY DEF Inv
<1>. QED BY <1>1, Invariance, PTL
=============================================================================
