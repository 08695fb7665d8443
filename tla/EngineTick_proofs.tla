-------------------------- MODULE EngineTick_proofs --------------------------
(***************************************************************************)
(* Proofs about EngineTick, for any number of slots, batch, context, keep, *)
(* tick budget, prompts and quotas.  Inv relates a slot's position to its  *)
(* memory through the batch: what n_past counts and kv does not have yet   *)
(* is exactly the slot's rows at and past off (Local), and the rows of a   *)
(* batch are shared out without gap or overlap (Batch).                    *)
(***************************************************************************)
EXTENDS EngineTick, FiniteSetTheorems, WellFoundedInduction, TLAPS

Rows == [first : Nat, count : Nat]

TypeOK ==
    /\ conf \in Configs
    /\ pc \in {"cancel", "admit", "decode"}
    /\ state \in [Slots -> {"IDLE", "PREFILL", "GENERATE"}]
    /\ n_prompt \in [Slots -> Nat]
    /\ n_past \in [Slots -> Nat]
    /\ i_batch \in [Slots -> Nat \cup {None}]
    /\ quota \in [Slots -> Nat \cup {-1}]
    /\ kv \in [Slots -> Nat]
    /\ truncated \in [Slots -> BOOLEAN]
    /\ n_tokens_max \in 0 .. NCtx
    /\ rows \in [Slots -> Rows]
    /\ n_tokens \in Nat /\ off \in Nat /\ n_view \in Nat \ {0}

\* How many of the rows r are row o of the batch or a later one.
Left(r, o) ==
    IF r.first + r.count <= o THEN 0
    ELSE IF o <= r.first THEN r.count
    ELSE r.first + r.count - o

\* Where a slot is: positions, memory and the rows still to be decoded.
Local(s) ==
    /\ kv[s] + Left(rows[s], off) = n_past[s]
    /\ state[s] = "IDLE" => n_past[s] = 0 /\ i_batch[s] = None
    /\ state[s] = "PREFILL" =>
         /\ n_past[s] <= n_prompt[s] /\ n_prompt[s] <= MaxPrompt
         /\ i_batch[s] = None <=> n_past[s] < n_prompt[s]
    /\ state[s] = "GENERATE" =>
         /\ n_past[s] <= NCtx
         /\ i_batch[s] = None => n_past[s] < NCtx /\ Left(rows[s], off) = 0
    /\ i_batch[s] # None =>
         /\ rows[s].count > 0 /\ i_batch[s] = rows[s].first + rows[s].count - 1
         /\ off <= i_batch[s]

\* Row i is one of the rows r.
Owns(r, i) == r.first <= i /\ i < r.first + r.count

\* How the rows f share out the first n rows of a batch.
Shared(f, n) ==
    /\ \A s \in Slots : f[s].count > 0 => f[s].first + f[s].count <= n
    /\ \A i \in 0 .. n - 1 : \E s \in Slots : Owns(f[s], i)
    /\ \A i \in 0 .. n - 1 : \A s, t \in Slots : Owns(f[s], i) /\ Owns(f[t], i) => s = t

Batch ==
    IF pc = "decode"
    THEN /\ n_tokens <= NBatch /\ off < n_tokens
         /\ Shared(rows, n_tokens)
         /\ off = 0 => /\ \A s \in In("GENERATE") : rows[s].count = 1 /\ i_batch[s] # None
                       /\ conf.tick > 0 => n_tokens <= MaxOf({conf.tick, NDecode + 1})
    ELSE \A s \in Slots : rows[s].count = 0

Inv == TypeOK /\ Batch /\ \A s \in Slots : Local(s)

-----------------------------------------------------------------------------
(* Numbers.                                                                *)

\* Induction up to n, over a set.
LEMMA Upto ==
    ASSUME NEW n \in Nat, NEW T, 0 \in T, \A k \in 0 .. n - 1 : k \in T => k + 1 \in T
    PROVE  0 .. n \subseteq T
<1>. DEFINE U == {k \in 0 .. n : k \notin T}
            R == {ss \in Nat \X Nat : ss[1] < ss[2]}
<1>. SUFFICES ASSUME U # {} PROVE FALSE
    OBVIOUS
<1>1. PICK k \in U : \A e \in U : ~(<<e, k>> \in R)
    <2>1. IsWellFoundedOn(R, Nat)
        BY NatLessThanWellFounded DEF OpToRel
    <2>2. U \subseteq Nat
        OBVIOUS
    <2>. HIDE DEF U, R
    <2>. QED BY <2>1, <2>2, WFMin
<1>2. k \in 1 .. n /\ k - 1 \in 0 .. n - 1 /\ (k - 1) + 1 = k
    <2>1. k \in 0 .. n /\ k # 0
        BY <1>1
    <2>. QED BY <2>1
<1>3. k - 1 \in T
    <2>1. k - 1 \notin U
        <3>1. <<k - 1, k>> \in R
            BY <1>2
        <3>. QED BY <1>1, <3>1
    <2>. QED BY <1>2, <2>1
<1>. QED BY <1>2, <1>3

\* A set of numbers below a bound has its maximum.
LEMMA MaxIn ==
    ASSUME NEW n \in Nat, NEW S \in SUBSET (0 .. n), S # {}
    PROVE  MaxOf(S) \in S /\ \A x \in S : x <= MaxOf(S)
<1>. DEFINE T == {n - x : x \in S}
            R == {ss \in Nat \X Nat : ss[1] < ss[2]}
<1>1. T \subseteq Nat /\ T # {}
    <2>1. \A x \in S : n - x \in Nat /\ n - x \in T
        OBVIOUS
    <2>. QED BY <2>1
<1>2. PICK d \in T : \A e \in T : ~(<<e, d>> \in R)
    <2>1. IsWellFoundedOn(R, Nat)
        BY NatLessThanWellFounded DEF OpToRel
    <2>. HIDE DEF T, R
    <2>. QED BY <1>1, <2>1, WFMin
<1>3. PICK m \in S : d = n - m
    BY <1>2
<1>4. \A x \in S : x <= m
    <2>. SUFFICES ASSUME NEW x \in S PROVE x <= m
        OBVIOUS
    <2>1. n - x \in T /\ n - x \in Nat /\ d \in Nat
        BY <1>3
    <2>2. ~(n - x < d)
        BY <1>2, <2>1
    <2>. QED BY <1>3, <2>2
<1>. QED BY <1>4 DEF MaxOf

\* The larger, the smaller of two numbers.
LEMMA OfTwo ==
    ASSUME NEW i \in Int, NEW j \in Int
    PROVE  /\ MaxOf({i, j}) = IF i >= j THEN i ELSE j
           /\ MinOf({i, j}) = IF i <= j THEN i ELSE j
<1>. DEFINE big == IF i >= j THEN i ELSE j
            small == IF i <= j THEN i ELSE j
<1>1. \A m \in {i, j} : (\A y \in {i, j} : m >= y) <=> m = big
    OBVIOUS
<1>2. big \in {i, j} /\ small \in {i, j}
    OBVIOUS
<1>3. \A m \in {i, j} : (\A y \in {i, j} : m <= y) <=> m = small
    OBVIOUS
<1>. HIDE DEF big, small
<1>4. MaxOf({i, j}) = big
    BY <1>1, <1>2 DEF MaxOf
<1>5. MinOf({i, j}) = small
    BY <1>2, <1>3 DEF MinOf
<1>. QED BY <1>4, <1>5 DEF big, small

\* The smallest of three numbers.
LEMMA OfThree ==
    ASSUME NEW i \in Int, NEW j \in Int, NEW k \in Int
    PROVE  LET m == MinOf({i, j, k}) IN m \in {i, j, k} /\ m <= i /\ m <= j /\ m <= k
<1>1. \E m \in {i, j, k} : \A y \in {i, j, k} : m <= y
    <2>1. CASE i <= j /\ i <= k
        BY <2>1
    <2>2. CASE j <= i /\ j <= k
        BY <2>2
    <2>3. CASE k <= i /\ k <= j
        BY <2>3
    <2>. QED BY <2>1, <2>2, <2>3
<1>. QED BY <1>1 DEF MinOf

\* A sequence of numbers that never falls.
LEMMA Grows ==
    ASSUME NEW f \in [0 .. NSlots -> Int], \A s \in Slots : f[s - 1] <= f[s],
           NEW a \in 0 .. NSlots, NEW b \in 0 .. NSlots, a <= b
    PROVE  f[a] <= f[b]
<1>. DEFINE T == {k \in 0 .. NSlots : a <= k => f[a] <= f[k]}
<1>0. NSlots \in Nat
    BY TickAssumption
<1>1. 0 \in T
    BY <1>0
<1>2. ASSUME NEW k \in 0 .. NSlots - 1, k \in T
      PROVE  k + 1 \in T
    <2>1. k + 1 \in Slots /\ k \in 0 .. NSlots /\ (k + 1) - 1 = k /\ k + 1 \in 0 .. NSlots
        BY <1>0 DEF Slots
    <2>2. f[k] <= f[k + 1] /\ f[k] \in Int /\ f[k + 1] \in Int /\ f[a] \in Int
        BY <2>1
    <2>. QED BY <1>2, <2>1, <2>2
<1>. HIDE DEF T
<1>3. b \in T
    BY <1>0, <1>1, <1>2, Upto
<1>. QED BY <1>3 DEF T

\* Between its first and its last number it takes every step.
LEMMA Crosses ==
    ASSUME NEW f \in [0 .. NSlots -> Int], NEW i \in Int, f[0] <= i, i < f[NSlots]
    PROVE  \E s \in Slots : f[s - 1] <= i /\ i < f[s]
<1>. DEFINE T == {k \in 0 .. NSlots : f[k] <= i}
<1>. SUFFICES ASSUME \A s \in Slots : ~(f[s - 1] <= i /\ i < f[s]) PROVE FALSE
    OBVIOUS
<1>0. NSlots \in Nat
    BY TickAssumption
<1>1. 0 \in T
    BY <1>0
<1>2. ASSUME NEW k \in 0 .. NSlots - 1, k \in T
      PROVE  k + 1 \in T
    <2>1. k + 1 \in Slots /\ (k + 1) - 1 = k /\ k + 1 \in 0 .. NSlots
        BY <1>0 DEF Slots
    <2>2. f[k + 1] \in Int /\ f[k] <= i
        BY <1>2, <2>1
    <2>. QED BY <2>1, <2>2
<1>. HIDE DEF T
<1>3. NSlots \in T
    <2>1. 0 .. NSlots \subseteq T
        BY <1>0, <1>1, <1>2, Upto
    <2>. QED BY <1>0, <2>1
<1>. QED BY <1>0, <1>3 DEF T

-----------------------------------------------------------------------------
(* Types, views and the counter.                                           *)

LEMMA ConfTypes ==
    ASSUME conf \in Configs
    PROVE  conf.tick \in Nat /\ conf.tick <= NBatch
           /\ conf.shift \in BOOLEAN /\ conf.media \in BOOLEAN
<1>1. PICK t \in TickChoices : conf.tick = MinOf({t, NBatch})
    BY DEF Configs
<1>2. t \in Nat /\ NBatch \in Nat
    BY TickAssumption
<1>3. MinOf({t, NBatch}) = IF t <= NBatch THEN t ELSE NBatch
    BY <1>2, OfTwo
<1>. QED BY <1>1, <1>2, <1>3 DEF Configs

LEMMA SlotTypes ==
    ASSUME TypeOK, NEW s \in Slots
    PROVE  /\ state[s] \in {"IDLE", "PREFILL", "GENERATE"}
           /\ n_prompt[s] \in Nat /\ n_past[s] \in Nat /\ kv[s] \in Nat
           /\ i_batch[s] \in Nat \cup {None} /\ quota[s] \in Nat \cup {-1}
           /\ rows[s].first \in Nat /\ rows[s].count \in Nat
           /\ Left(rows[s], off) \in Nat
<1>1. rows[s].first \in Nat /\ rows[s].count \in Nat /\ off \in Nat
    BY DEF TypeOK, Rows
<1>. QED BY <1>1 DEF TypeOK, Left

\* No slot is past its context.
LEMMA Fits ==
    ASSUME Inv, NEW s \in Slots
    PROVE  n_past[s] \in 0 .. NCtx
<1>1. TypeOK /\ Local(s)
    BY DEF Inv
<1>. QED BY <1>1, SlotTypes, TickAssumption DEF Local

\* Both ends of a view cut a slot's rows: those inside it are decoded.
LEMMA InView ==
    ASSUME TypeOK, NEW s \in Slots, NEW n \in Nat
    PROVE  RowsIn(s, n) = Left(rows[s], off) - Left(rows[s], off + n)
<1>. DEFINE a == rows[s].first
            c == rows[s].count
            lo == IF off <= a THEN a ELSE off
            hi == (IF off + n <= a + c THEN off + n ELSE a + c) - 1
            V == {i \in off .. off + n - 1 : a <= i /\ i < a + c}
<1>1. a \in Nat /\ c \in Nat /\ off \in Nat
    BY SlotTypes DEF TypeOK
<1>. HIDE DEF a, c
<1>2. lo \in Int /\ hi \in Int
    BY <1>1
<1>3. V = lo .. hi
    BY <1>1
<1>4. Cardinality(V) = IF lo > hi THEN 0 ELSE hi - lo + 1
    BY <1>2, <1>3, FS_Interval
<1>5. RowsIn(s, n) = Cardinality(V)
    BY DEF RowsIn, a, c
<1>6. Left(rows[s], off) = IF a + c <= off THEN 0 ELSE IF off <= a THEN c ELSE a + c - off
    BY DEF Left, a, c
<1>7. Left(rows[s], off + n) =
        IF a + c <= off + n THEN 0 ELSE IF off + n <= a THEN c ELSE a + c - (off + n)
    BY DEF Left, a, c
<1>. HIDE DEF V
<1>. QED BY <1>1, <1>4, <1>5, <1>6, <1>7

\* The counter takes the largest of what it is shown.
LEMMA Counting ==
    ASSUME TypeOK, NEW S \in SUBSET Slots, NEW past,
           \A s \in S : past[s] \in 0 .. NCtx
    PROVE  /\ Counted(S, past) \in 0 .. NCtx
           /\ \A s \in S : past[s] <= Counted(S, past)
<1>. DEFINE T == {n_tokens_max} \cup {past[s] : s \in S}
<1>1. T \in SUBSET (0 .. NCtx) /\ T # {} /\ \A s \in S : past[s] \in T
    BY DEF TypeOK
<1>2. NCtx \in Nat
    BY TickAssumption
<1>. HIDE DEF T
<1>3. MaxOf(T) \in T /\ \A x \in T : x <= MaxOf(T)
    BY <1>1, <1>2, MaxIn
<1>. QED BY <1>1, <1>3 DEF Counted, T

\* finish() on some slots keeps the types.
LEMMA Finishing ==
    ASSUME TypeOK, NEW S \in SUBSET Slots,
           NEW st \in [Slots -> {"IDLE", "PREFILL", "GENERATE"}],
           NEW q \in [Slots -> Nat \cup {-1}], NEW past,
           \A s \in S : past[s] \in 0 .. NCtx,
           NEW cut \in [Slots -> BOOLEAN],
           Finish(S, st, q, past, cut)
    PROVE  /\ state' \in [Slots -> {"IDLE", "PREFILL", "GENERATE"}]
           /\ n_prompt' \in [Slots -> Nat]
           /\ quota' \in [Slots -> Nat \cup {-1}]
           /\ truncated' \in [Slots -> BOOLEAN]
           /\ n_tokens_max' \in 0 .. NCtx
           /\ \A s \in S : past[s] <= n_tokens_max'
           /\ \A s \in Slots : /\ state'[s] = IF s \in S THEN "IDLE" ELSE st[s]
                               /\ n_prompt'[s] = IF s \in S THEN 0 ELSE n_prompt[s]
<1>1. n_tokens_max' = Counted(S, past)
    BY DEF Finish
<1>2. n_tokens_max' \in 0 .. NCtx /\ \A s \in S : past[s] <= n_tokens_max'
    BY <1>1, Counting
<1>3. state' = [s \in Slots |-> IF s \in S THEN "IDLE" ELSE st[s]]
    BY DEF Finish, With
<1>4. n_prompt' = [s \in Slots |-> IF s \in S THEN 0 ELSE n_prompt[s]]
    BY DEF Finish, With
<1>5. quota' = [s \in Slots |-> IF s \in S THEN 0 ELSE q[s]]
    BY DEF Finish, With
<1>6. truncated' = [s \in Slots |-> IF s \in S THEN FALSE ELSE cut[s]]
    BY DEF Finish, With
<1>7. n_prompt' \in [Slots -> Nat]
    BY <1>4 DEF TypeOK
<1>. QED BY <1>2, <1>3, <1>4, <1>5, <1>6, <1>7

\* An empty batch leaves nothing to decode.
LEMMA Emptied ==
    ASSUME NoBatch
    PROVE  /\ rows' \in [Slots -> Rows] /\ n_tokens' = 0 /\ off' = 0 /\ n_view' \in Nat \ {0}
           /\ \A s \in Slots : rows'[s].count = 0 /\ Left(rows'[s], off') = 0
BY TickAssumption DEF NoBatch, NoRows, Rows, Left

LEMMA InvInit == Init => Inv
<1>. SUFFICES ASSUME Init PROVE Inv
    OBVIOUS
<1>1. TypeOK
    BY TickAssumption DEF Init, TypeOK, NoRows, Rows, None
<1>2. Batch
    BY DEF Init, Batch, NoRows
<1>3. ASSUME NEW s \in Slots PROVE Local(s)
    BY <1>3 DEF Init, Local, NoRows, Left, None
<1>. QED BY <1>1, <1>2, <1>3 DEF Inv

-----------------------------------------------------------------------------
(* The steps outside a batch.                                              *)

\* What a slot without rows in the batch needs.
LEMMA Resting ==
    ASSUME Inv, pc # "decode", NEW s \in Slots
    PROVE  /\ kv[s] = n_past[s] /\ i_batch[s] = None /\ rows[s].count = 0
           /\ Left(rows[s], off) = 0
<1>1. TypeOK /\ Local(s) /\ rows[s].count = 0
    BY DEF Inv, Batch
<1>2. Left(rows[s], off) = 0
    BY <1>1, SlotTypes DEF Left, TypeOK
<1>. QED BY <1>1, <1>2, SlotTypes DEF Local

LEMMA CancelKeeps == ASSUME Inv, Cancel PROVE Inv'
<1>0. TypeOK /\ pc = "cancel"
    BY DEF Inv, Cancel
<1>1. PICK S \in SUBSET Busy :
        /\ Finish(S, state, quota, n_past, truncated)
        /\ n_past' = With(n_past, S, 0)
        /\ kv' = With(kv, S, 0)
    BY DEF Cancel
<1>2. S \in SUBSET Slots
    BY DEF Busy
<1>3. \A s \in S : n_past[s] \in 0 .. NCtx
    BY <1>2, Fits
<1>4. /\ state' \in [Slots -> {"IDLE", "PREFILL", "GENERATE"}]
      /\ n_prompt' \in [Slots -> Nat]
      /\ quota' \in [Slots -> Nat \cup {-1}]
      /\ truncated' \in [Slots -> BOOLEAN]
      /\ n_tokens_max' \in 0 .. NCtx
      /\ \A s \in Slots : /\ state'[s] = IF s \in S THEN "IDLE" ELSE state[s]
                          /\ n_prompt'[s] = IF s \in S THEN 0 ELSE n_prompt[s]
    BY <1>0, <1>1, <1>2, <1>3, Finishing DEF TypeOK
<1>5. /\ n_past' = [s \in Slots |-> IF s \in S THEN 0 ELSE n_past[s]]
      /\ kv' = [s \in Slots |-> IF s \in S THEN 0 ELSE kv[s]]
    BY <1>1 DEF With
<1>6. /\ pc' = "admit" /\ UNCHANGED <<conf, i_batch, rows, n_tokens, off, n_view>>
    BY DEF Cancel, batch
<1>7. TypeOK'
    BY <1>0, <1>4, <1>5, <1>6 DEF TypeOK
<1>8. Batch'
    BY <1>0, <1>6 DEF Inv, Batch
<1>9. ASSUME NEW s \in Slots PROVE Local(s)'
    <2>1. kv[s] = n_past[s] /\ i_batch[s] = None /\ Left(rows[s], off) = 0 /\ Local(s)
        BY <1>0, Resting DEF Inv
    <2>2. i_batch'[s] = None /\ Left(rows'[s], off') = 0
        BY <1>6, <2>1
    <2>3. kv[s] \in Nat
        BY <1>0, SlotTypes
    <2>. QED BY <1>4, <1>5, <2>1, <2>2, <2>3 DEF Local
<1>. QED BY <1>7, <1>8, <1>9 DEF Inv

LEMMA AdmitKeeps == ASSUME Inv, NEW t \in Slots, Admit(t) PROVE Inv'
<1>0. TypeOK /\ pc = "admit" /\ state[t] = "IDLE"
    BY DEF Inv, Admit
<1>1. PICK n \in 1 .. MaxPrompt, q \in Quotas : \E cached \in 0 .. n - 1 :
        /\ n_prompt' = [n_prompt EXCEPT ![t] = n]
        /\ n_past' = [n_past EXCEPT ![t] = cached]
        /\ kv' = [kv EXCEPT ![t] = cached]
        /\ quota' = [quota EXCEPT ![t] = q]
    BY DEF Admit
<1>2. PICK cached \in 0 .. n - 1 :
        /\ n_prompt' = [n_prompt EXCEPT ![t] = n]
        /\ n_past' = [n_past EXCEPT ![t] = cached]
        /\ kv' = [kv EXCEPT ![t] = cached]
        /\ quota' = [quota EXCEPT ![t] = q]
    BY <1>1
<1>3. /\ state' = [state EXCEPT ![t] = "PREFILL"]
      /\ UNCHANGED <<conf, pc, i_batch, truncated, n_tokens_max, rows, n_tokens, off, n_view>>
    BY DEF Admit, batch
<1>4. n \in Nat /\ n <= MaxPrompt /\ cached \in Nat /\ cached < n /\ q \in Nat \cup {-1}
    BY TickAssumption
<1>5. TypeOK'
    BY <1>0, <1>2, <1>3, <1>4 DEF TypeOK
<1>6. Batch'
    BY <1>0, <1>3 DEF Inv, Batch
<1>7. ASSUME NEW s \in Slots PROVE Local(s)'
    <2>1. kv[s] = n_past[s] /\ i_batch[s] = None /\ Left(rows[s], off) = 0 /\ Local(s)
        BY <1>0, Resting DEF Inv
    <2>2. i_batch'[s] = None /\ Left(rows'[s], off') = 0
        BY <1>3, <2>1
    <2>3. kv[s] \in Nat
        BY <1>0, SlotTypes
    <2>4. CASE s = t
        <3>1. /\ n_prompt'[s] = n /\ n_past'[s] = cached /\ kv'[s] = cached
              /\ state'[s] = "PREFILL"
            BY <1>0, <1>2, <1>3, <2>4 DEF TypeOK
        <3>. QED BY <1>4, <2>2, <3>1 DEF Local
    <2>5. CASE s # t
        <3>1. /\ n_prompt'[s] = n_prompt[s] /\ n_past'[s] = n_past[s] /\ kv'[s] = kv[s]
              /\ state'[s] = state[s]
            BY <1>0, <1>2, <1>3, <2>5 DEF TypeOK
        <3>. QED BY <2>1, <2>2, <2>3, <3>1 DEF Local
    <2>. QED BY <2>4, <2>5
<1>. QED BY <1>5, <1>6, <1>7 DEF Inv

LEMMA MediaKeeps == ASSUME Inv, NEW t \in Slots, AdmitMedia(t) PROVE Inv'
<1>0. TypeOK /\ pc = "admit" /\ state[t] = "IDLE"
    BY DEF Inv, AdmitMedia
<1>1. PICK n \in 1 .. NCtx - 1 :
         \/ /\ n_tokens_max' = Counted({t}, [n_past EXCEPT ![t] = n])
            /\ UNCHANGED slotvars
         \/ /\ n_past' = [n_past EXCEPT ![t] = n]
            /\ kv' = [kv EXCEPT ![t] = n]
            /\ \E q \in Quotas \ {0} : quota' = [quota EXCEPT ![t] = Spend(q)]
            /\ state' = [state EXCEPT ![t] = "GENERATE"]
            /\ UNCHANGED <<n_prompt, i_batch, n_tokens_max>>
    BY DEF AdmitMedia
<1>2. UNCHANGED <<conf, pc, truncated, rows, n_tokens, off, n_view>>
    BY DEF AdmitMedia, batch
<1>3. n \in Nat /\ n < NCtx /\ NCtx \in Nat
    BY TickAssumption
<1>4. CASE n_tokens_max' = Counted({t}, [n_past EXCEPT ![t] = n]) /\ UNCHANGED slotvars
    <2>1. [n_past EXCEPT ![t] = n][t] \in 0 .. NCtx
        BY <1>0, <1>3 DEF TypeOK
    <2>2. n_tokens_max' \in 0 .. NCtx
        BY <1>0, <1>4, <2>1, Counting
    <2>3. UNCHANGED <<state, n_prompt, n_past, i_batch, quota, kv>>
        BY <1>4 DEF slotvars
    <2>4. TypeOK'
        BY <1>0, <1>2, <2>2, <2>3 DEF TypeOK
    <2>5. Batch'
        BY <1>0, <1>2 DEF Inv, Batch
    <2>6. ASSUME NEW s \in Slots PROVE Local(s)'
        BY <1>2, <2>3 DEF Inv, Local
    <2>. QED BY <2>4, <2>5, <2>6 DEF Inv
<1>5. CASE /\ n_past' = [n_past EXCEPT ![t] = n]
           /\ kv' = [kv EXCEPT ![t] = n]
           /\ \E q \in Quotas \ {0} : quota' = [quota EXCEPT ![t] = Spend(q)]
           /\ state' = [state EXCEPT ![t] = "GENERATE"]
           /\ UNCHANGED <<n_prompt, i_batch, n_tokens_max>>
    <2>1. PICK q \in Quotas \ {0} : quota' = [quota EXCEPT ![t] = Spend(q)]
        BY <1>5
    <2>2. Spend(q) \in Nat \cup {-1}
        BY TickAssumption DEF Spend
    <2>3. TypeOK'
        BY <1>0, <1>2, <1>3, <1>5, <2>1, <2>2 DEF TypeOK
    <2>4. Batch'
        BY <1>0, <1>2 DEF Inv, Batch
    <2>5. ASSUME NEW s \in Slots PROVE Local(s)'
        <3>1. kv[s] = n_past[s] /\ i_batch[s] = None /\ Left(rows[s], off) = 0 /\ Local(s)
            BY <1>0, Resting DEF Inv
        <3>2. i_batch'[s] = None /\ Left(rows'[s], off') = 0 /\ n_prompt'[s] = n_prompt[s]
            BY <1>2, <1>5, <3>1
        <3>3. kv[s] \in Nat
            BY <1>0, SlotTypes
        <3>4. CASE s = t
            <4>1. n_past'[s] = n /\ kv'[s] = n /\ state'[s] = "GENERATE"
                BY <1>0, <1>5, <3>4 DEF TypeOK
            <4>. QED BY <1>3, <3>2, <4>1 DEF Local
        <3>5. CASE s # t
            <4>1. n_past'[s] = n_past[s] /\ kv'[s] = kv[s] /\ state'[s] = state[s]
                BY <1>0, <1>5, <3>5 DEF TypeOK
            <4>. QED BY <3>1, <3>2, <3>3, <4>1 DEF Local
        <3>. QED BY <3>4, <3>5
    <2>. QED BY <2>3, <2>4, <2>5 DEF Inv
<1>. QED BY <1>1, <1>4, <1>5

\* A tick that fails leaves every slot idle, with nothing in its memory.
LEMMA FailKeeps == ASSUME Inv, TickFails PROVE Inv'
<1>0. TypeOK
    BY DEF Inv
<1>1. Busy \in SUBSET Slots /\ \A s \in Slots \ Busy : state[s] = "IDLE"
    BY DEF Busy, In
<1>2. \A s \in Busy : With(n_past, Busy, 0)[s] \in 0 .. NCtx
    BY <1>1, TickAssumption DEF With
<1>3. Finish(Busy, state, quota, With(n_past, Busy, 0), truncated)
    BY DEF TickFails
<1>4. /\ state' \in [Slots -> {"IDLE", "PREFILL", "GENERATE"}]
      /\ n_prompt' \in [Slots -> Nat]
      /\ quota' \in [Slots -> Nat \cup {-1}]
      /\ truncated' \in [Slots -> BOOLEAN]
      /\ n_tokens_max' \in 0 .. NCtx
      /\ \A s \in Slots : state'[s] = IF s \in Busy THEN "IDLE" ELSE state[s]
    <2>. DEFINE past == With(n_past, Busy, 0)
    <2>1. /\ state \in [Slots -> {"IDLE", "PREFILL", "GENERATE"}]
          /\ quota \in [Slots -> Nat \cup {-1}]
          /\ truncated \in [Slots -> BOOLEAN]
        BY <1>0 DEF TypeOK
    <2>2. Finish(Busy, state, quota, past, truncated) /\ \A s \in Busy : past[s] \in 0 .. NCtx
        BY <1>2, <1>3
    <2>3. Busy \in SUBSET Slots
        BY <1>1
    <2>. HIDE DEF past
    <2>4. /\ state' \in [Slots -> {"IDLE", "PREFILL", "GENERATE"}]
          /\ n_prompt' \in [Slots -> Nat]
          /\ quota' \in [Slots -> Nat \cup {-1}]
          /\ truncated' \in [Slots -> BOOLEAN]
          /\ n_tokens_max' \in 0 .. NCtx
          /\ \A s \in Busy : past[s] <= n_tokens_max'
          /\ \A s \in Slots : /\ state'[s] = IF s \in Busy THEN "IDLE" ELSE state[s]
                              /\ n_prompt'[s] = IF s \in Busy THEN 0 ELSE n_prompt[s]
        BY <1>0, <2>1, <2>2, <2>3, Finishing, Zenon
    <2>. QED BY <2>4
<1>5. /\ n_past' = [s \in Slots |-> IF s \in Busy THEN 0 ELSE n_past[s]]
      /\ kv' = [s \in Slots |-> IF s \in Busy THEN 0 ELSE kv[s]]
      /\ i_batch' = [s \in Slots |-> IF s \in Busy THEN None ELSE i_batch[s]]
    BY DEF TickFails, With
<1>6. pc' = "cancel" /\ NoBatch /\ conf' = conf
    BY DEF TickFails
<1>7. /\ rows' \in [Slots -> Rows] /\ n_tokens' = 0 /\ off' = 0 /\ n_view' \in Nat \ {0}
      /\ \A s \in Slots : rows'[s].count = 0 /\ Left(rows'[s], off') = 0
    BY <1>6, Emptied
<1>8. TypeOK'
    BY <1>0, <1>4, <1>5, <1>6, <1>7 DEF TypeOK
<1>9. Batch'
    BY <1>6, <1>7 DEF Batch
<1>10. ASSUME NEW s \in Slots PROVE Local(s)'
    <2>1. state'[s] = "IDLE"
        BY <1>1, <1>4
    <2>2. n_past'[s] = 0 /\ kv'[s] = 0 /\ i_batch'[s] = None
        <3>1. CASE s \in Busy
            BY <1>5, <3>1
        <3>2. CASE s \notin Busy
            <4>1. state[s] = "IDLE" /\ Local(s)
                BY <1>1, <3>2 DEF Inv
            <4>2. n_past[s] = 0 /\ kv[s] = 0 /\ i_batch[s] = None
                BY <1>0, <4>1, SlotTypes DEF Local
            <4>. QED BY <1>5, <3>2, <4>2
        <3>. QED BY <3>1, <3>2
    <2>. QED BY <1>7, <2>1, <2>2 DEF Local
<1>. QED BY <1>8, <1>9, <1>10 DEF Inv

LEMMA RetryKeeps == ASSUME Inv, RetrySmaller PROVE Inv'
<1>1. /\ pc = "decode" /\ ViewSize > 1 /\ n_view' = ViewSize \div 2
      /\ UNCHANGED <<conf, pc, state, n_prompt, n_past, i_batch, quota, kv, truncated,
                     n_tokens_max, rows, n_tokens, off>>
    BY DEF RetrySmaller, slotvars
<1>2. TypeOK /\ Batch
    BY DEF Inv
<1>3. ViewSize \in Nat
    <2>1. n_view \in Int /\ n_tokens - off \in Int
        BY <1>2 DEF TypeOK
    <2>2. ViewSize = IF n_view <= n_tokens - off THEN n_view ELSE n_tokens - off
        BY <2>1, OfTwo DEF ViewSize
    <2>. QED BY <1>1, <2>1, <2>2
<1>4. n_view' \in Nat \ {0}
    BY <1>1, <1>3
<1>5. TypeOK'
    BY <1>1, <1>2, <1>4 DEF TypeOK
<1>6. Batch'
    <2>1. In("GENERATE")' = In("GENERATE") /\ NDecode' = NDecode
        BY <1>1 DEF In, NDecode
    <2>2. /\ n_tokens <= NBatch /\ off < n_tokens
          /\ Shared(rows, n_tokens)
          /\ off = 0 => /\ \A s \in In("GENERATE") : rows[s].count = 1 /\ i_batch[s] # None
                        /\ conf.tick > 0 => n_tokens <= MaxOf({conf.tick, NDecode + 1})
        BY <1>1, <1>2 DEF Batch
    <2>. QED BY <1>1, <2>1, <2>2 DEF Batch
<1>7. ASSUME NEW s \in Slots PROVE Local(s)'
    BY <1>1 DEF Inv, Local
<1>. QED BY <1>5, <1>6, <1>7 DEF Inv

-----------------------------------------------------------------------------
(* A view that decodes.                                                    *)

\* A shift leaves at least a token, and drops at least one if it drops any.
LEMMA Discarding ==
    ASSUME TypeOK, NEW s \in Slots
    PROVE  Discard(s) \in Nat /\ (Discard(s) > 0 => Discard(s) < n_past[s])
<1>. DEFINE wanted == (IF NKeep < 0 THEN n_prompt[s] ELSE NKeep) + AddBos
            keep == MaxOf({0, MinOf({NCtx - 4, wanted})})
            left == n_past[s] - keep
<1>1. wanted \in Int /\ NCtx - 4 \in Int /\ n_past[s] \in Nat
    BY TickAssumption, SlotTypes
<1>. HIDE DEF wanted
<1>2. MinOf({NCtx - 4, wanted}) \in Int
    BY <1>1, OfTwo
<1>3. keep \in Nat
    BY <1>2, OfTwo
<1>. HIDE DEF keep
<1>4. left \in Int /\ left <= n_past[s]
    BY <1>1, <1>3
<1>. HIDE DEF left
<1>. DEFINE half == left \div 2
            rest == left - 1
<1>5. half \in Int /\ rest \in Int /\ rest = left - 1
    BY <1>4
<1>. HIDE DEF half, rest
<1>6. MinOf({half, rest}) \in Int /\ MinOf({half, rest}) <= rest
    <2>1. MinOf({half, rest}) = IF half <= rest THEN half ELSE rest
        BY <1>5, OfTwo
    <2>. QED BY <1>5, <2>1
<1>7. Discard(s) = MaxOf({0, MinOf({half, rest})})
    BY DEF Discard, half, rest, left, keep, wanted
<1>. HIDE DEF Discard
<1>8. Discard(s) \in Nat /\ (Discard(s) > 0 => Discard(s) <= rest)
    BY <1>5, <1>6, <1>7, OfTwo
<1>. QED BY <1>1, <1>4, <1>5, <1>8

\* What sample_slot() drops, and what it leaves of a request that goes on.
LEMMA Dropping ==
    ASSUME Inv, NEW s \in Slots
    PROVE  /\ Dropped(s) \in Nat
           /\ Dropped(s) <= n_past[s]
           /\ ~MustEnd(s) => n_past[s] - Dropped(s) < NCtx
<1>1. n_past[s] \in 0 .. NCtx /\ NCtx \in Nat
    BY Fits, TickAssumption
<1>2. Discard(s) \in Nat /\ (Discard(s) > 0 => Discard(s) < n_past[s])
    BY Discarding DEF Inv
<1>. QED BY <1>1, <1>2 DEF Dropped, Shifted, MustEnd, AtLimit

\* A view has rows, and ends in the batch.
LEMMA Viewing ==
    ASSUME Inv, pc = "decode"
    PROVE  ViewSize \in Nat \ {0} /\ off + ViewSize <= n_tokens
<1>1. /\ n_view \in Nat \ {0} /\ n_tokens \in Nat /\ off \in Nat /\ off < n_tokens
    BY DEF Inv, TypeOK, Batch
<1>2. n_view \in Int /\ n_tokens - off \in Int
    BY <1>1
<1>3. ViewSize = IF n_view <= n_tokens - off THEN n_view ELSE n_tokens - off
    BY <1>2, OfTwo DEF ViewSize
<1>. QED BY <1>1, <1>3

\* A slot that is sampled has had all of its rows; the memory of any slot grows by the
\* rows of the view.
LEMMA Decoding ==
    ASSUME Inv, pc = "decode", NEW s \in Slots
    PROVE  LET after == Left(rows[s], off + ViewSize) IN
           /\ after \in Nat
           /\ kv[s] + RowsIn(s, ViewSize) + after = n_past[s]
           /\ Hit(s, ViewSize) => after = 0 /\ i_batch[s] # None
           /\ Left(rows[s], off) = 0 => after = 0
           /\ i_batch[s] # None /\ ~Hit(s, ViewSize) => off + ViewSize <= i_batch[s]
           /\ off + ViewSize = n_tokens =>
                after = 0 /\ (i_batch[s] # None => Hit(s, ViewSize))
<1>. DEFINE n == ViewSize
            after == Left(rows[s], off + n)
<1>1. TypeOK /\ Local(s) /\ n \in Nat \ {0} /\ off + n <= n_tokens
    BY Viewing DEF Inv
<1>. HIDE DEF n
<1>2. /\ rows[s].first \in Nat /\ rows[s].count \in Nat /\ off \in Nat /\ n_tokens \in Nat
      /\ i_batch[s] \in Nat \cup {None} /\ kv[s] \in Nat /\ n_past[s] \in Nat
    BY <1>1, SlotTypes DEF TypeOK
<1>3. after \in Nat /\ Left(rows[s], off) \in Nat
    BY <1>1, <1>2 DEF Left
<1>4. RowsIn(s, n) = Left(rows[s], off) - after
    BY <1>1, InView
<1>5. kv[s] + Left(rows[s], off) = n_past[s]
    BY <1>1 DEF Local
<1>6. i_batch[s] # None =>
         /\ rows[s].count > 0 /\ i_batch[s] = rows[s].first + rows[s].count - 1
         /\ off <= i_batch[s]
    BY <1>1 DEF Local
<1>7. Hit(s, n) => after = 0 /\ i_batch[s] # None
    BY <1>1, <1>2, <1>6 DEF Hit, Left, None
<1>8. i_batch[s] # None /\ ~Hit(s, n) => off + n <= i_batch[s]
    BY <1>1, <1>2, <1>6 DEF Hit, None
<1>9. Left(rows[s], off) = 0 => after = 0
    BY <1>1, <1>2 DEF Left
<1>10. ASSUME off + n = n_tokens
       PROVE  after = 0 /\ (i_batch[s] # None => Hit(s, n))
    <2>1. rows[s].count > 0 => rows[s].first + rows[s].count <= n_tokens
        BY DEF Inv, Batch, Shared
    <2>2. after = 0
        BY <1>2, <1>10, <2>1 DEF Left
    <2>3. i_batch[s] # None => Hit(s, n)
        BY <1>2, <1>6, <1>8, <1>10, <2>1
    <2>. QED BY <2>2, <2>3
<1>. QED BY <1>2, <1>3, <1>4, <1>5, <1>7, <1>8, <1>9, <1>10 DEF n

\* What DecodeView does to each slot.
Sampling(S, over) ==
    /\ S = {s \in Busy : Hit(s, ViewSize)} /\ over \subseteq S
    /\ \A s \in S \ over : ~MustEnd(s)
    /\ \A s \in Slots :
         /\ state'[s] = IF s \in over THEN "IDLE" ELSE IF s \in S THEN "GENERATE" ELSE state[s]
         /\ n_prompt'[s] = IF s \in over THEN 0 ELSE n_prompt[s]
         /\ n_past'[s] = IF s \in over THEN 0 ELSE IF s \in S THEN n_past[s] - Dropped(s) ELSE n_past[s]
         /\ kv'[s] = IF s \in over THEN 0
                     ELSE kv[s] + RowsIn(s, ViewSize) - IF s \in S THEN Dropped(s) ELSE 0
         /\ i_batch'[s] = IF s \in S THEN None ELSE i_batch[s]
    /\ \A s \in over : n_past[s] - Dropped(s) <= n_tokens_max'
    /\ state' \in [Slots -> {"IDLE", "PREFILL", "GENERATE"}]
    /\ n_prompt' \in [Slots -> Nat]
    /\ n_past' \in [Slots -> Nat]
    /\ kv' \in [Slots -> Nat]
    /\ i_batch' \in [Slots -> Nat \cup {None}]
    /\ quota' \in [Slots -> Nat \cup {-1}]
    /\ truncated' \in [Slots -> BOOLEAN]
    /\ n_tokens_max' \in 0 .. NCtx

LEMMA Sampled ==
    ASSUME Inv, DecodeView
    PROVE  \E S, over \in SUBSET Slots : Sampling(S, over)
<1>. DEFINE n == ViewSize
            hit == {s \in Busy : Hit(s, n)}
            kept(s) == IF s \in hit THEN Dropped(s) ELSE 0
            st == With(state, hit, "GENERATE")
            q == [s \in Slots |-> IF s \in hit THEN Spend(quota[s]) ELSE quota[s]]
            past == [s \in Slots |-> n_past[s] - kept(s)]
            cut == [s \in Slots |-> truncated[s] \/ kept(s) > 0]
<1>0. TypeOK /\ pc = "decode" /\ n \in Nat \ {0}
    BY Viewing DEF Inv, DecodeView
<1>1. PICK stops \in SUBSET hit :
         LET over == stops \cup {s \in hit : MustEnd(s)} IN
         /\ Finish(over, st, q, past, cut)
         /\ n_past' = [s \in Slots |-> IF s \in over THEN 0 ELSE n_past[s] - kept(s)]
         /\ kv' = [s \in Slots |-> IF s \in over THEN 0 ELSE kv[s] + RowsIn(s, n) - kept(s)]
    BY DEF DecodeView
<1>. DEFINE over == stops \cup {s \in hit : MustEnd(s)}
<1>2. hit \in SUBSET Slots /\ over \in SUBSET Slots /\ over \subseteq hit
      /\ \A s \in hit \ over : ~MustEnd(s)
    BY <1>1 DEF Busy
<1>3. \A s \in Slots : kept(s) \in Nat /\ kept(s) <= n_past[s] /\ n_past[s] \in 0 .. NCtx
    <2>. TAKE s \in Slots
    <2>1. Dropped(s) \in Nat /\ Dropped(s) <= n_past[s] /\ n_past[s] \in 0 .. NCtx
        BY Dropping, Fits
    <2>. QED BY <2>1
<1>4. /\ Finish(over, st, q, past, cut)
      /\ n_past' = [s \in Slots |-> IF s \in over THEN 0 ELSE n_past[s] - kept(s)]
      /\ kv' = [s \in Slots |-> IF s \in over THEN 0 ELSE kv[s] + RowsIn(s, n) - kept(s)]
    BY <1>1
<1>5. /\ st = [s \in Slots |-> IF s \in hit THEN "GENERATE" ELSE state[s]]
      /\ i_batch' = [s \in Slots |-> IF s \in hit THEN None ELSE i_batch[s]]
    BY DEF DecodeView, With
<1>6. st \in [Slots -> {"IDLE", "PREFILL", "GENERATE"}]
    BY <1>0, <1>5 DEF TypeOK
<1>7. q \in [Slots -> Nat \cup {-1}]
    BY <1>0 DEF TypeOK, Spend
<1>8. \A s \in Slots : past[s] \in 0 .. NCtx /\ past[s] = n_past[s] - kept(s)
    BY <1>3, TickAssumption
<1>9. cut \in [Slots -> BOOLEAN]
    BY <1>0, <1>3 DEF TypeOK
<1>10. \A s \in Slots : kv[s] + RowsIn(s, n) - kept(s) \in Nat
    <2>. TAKE s \in Slots
    <2>1. kv[s] + RowsIn(s, n) + Left(rows[s], off + n) = n_past[s]
          /\ Left(rows[s], off + n) \in Nat
          /\ (Hit(s, n) => Left(rows[s], off + n) = 0)
        BY <1>0, Decoding
    <2>2. RowsIn(s, n) \in Int /\ kv[s] \in Nat /\ n_past[s] \in Nat
        <3>1. Left(rows[s], off) \in Nat
            BY <1>0, SlotTypes
        <3>2. RowsIn(s, n) = Left(rows[s], off) - Left(rows[s], off + n)
            BY <1>0, InView
        <3>. QED BY <1>0, <2>1, <3>1, <3>2, SlotTypes
    <2>3. kv[s] + RowsIn(s, n) >= 0
        <3>1. Left(rows[s], off) >= Left(rows[s], off + n)
            BY <1>0, SlotTypes DEF Left, TypeOK
        <3>2. RowsIn(s, n) = Left(rows[s], off) - Left(rows[s], off + n)
            BY <1>0, InView
        <3>. QED BY <1>0, <2>1, <2>2, <3>1, <3>2, SlotTypes
    <2>4. CASE s \in hit
        BY <1>3, <2>1, <2>2, <2>4
    <2>5. CASE s \notin hit
        BY <2>2, <2>3, <2>5
    <2>. QED BY <2>4, <2>5
<1>11. \A s \in Slots : RowsIn(s, n) \in Int
    BY <1>0, InView, SlotTypes, Decoding
<1>. HIDE DEF n, hit, over, st, q, past, cut
<1>12. /\ state' \in [Slots -> {"IDLE", "PREFILL", "GENERATE"}]
       /\ n_prompt' \in [Slots -> Nat]
       /\ quota' \in [Slots -> Nat \cup {-1}]
       /\ truncated' \in [Slots -> BOOLEAN]
       /\ n_tokens_max' \in 0 .. NCtx
       /\ \A s \in over : past[s] <= n_tokens_max'
       /\ \A s \in Slots : /\ state'[s] = IF s \in over THEN "IDLE" ELSE st[s]
                           /\ n_prompt'[s] = IF s \in over THEN 0 ELSE n_prompt[s]
    <2>1. \A s \in over : past[s] \in 0 .. NCtx
        BY <1>2, <1>8
    <2>. QED BY <1>0, <1>2, <1>4, <1>6, <1>7, <1>9, <2>1, Finishing, Zenon
<1>13. \A s \in over : n_past[s] - Dropped(s) <= n_tokens_max'
    BY <1>2, <1>8, <1>12
<1>14. n_past' \in [Slots -> Nat] /\ kv' \in [Slots -> Nat]
    BY <1>3, <1>4, <1>10
<1>15. i_batch' \in [Slots -> Nat \cup {None}]
    BY <1>0, <1>5 DEF TypeOK
<1>16. \A s \in Slots :
         /\ state'[s] = IF s \in over THEN "IDLE" ELSE IF s \in hit THEN "GENERATE" ELSE state[s]
         /\ n_prompt'[s] = IF s \in over THEN 0 ELSE n_prompt[s]
         /\ i_batch'[s] = IF s \in hit THEN None ELSE i_batch[s]
    BY <1>5, <1>12
<1>17. \A s \in Slots :
         /\ n_past'[s] = IF s \in over THEN 0 ELSE IF s \in hit THEN n_past[s] - Dropped(s) ELSE n_past[s]
         /\ kv'[s] = IF s \in over THEN 0
                     ELSE kv[s] + RowsIn(s, n) - IF s \in hit THEN Dropped(s) ELSE 0
    BY <1>3, <1>4
<1>18. hit = {s \in Busy : Hit(s, ViewSize)} /\ n = ViewSize
    BY DEF hit, n
<1>19. Sampling(hit, over)
    BY <1>2, <1>12, <1>13, <1>14, <1>15, <1>16, <1>17, <1>18 DEF Sampling
<1>. QED BY <1>2, <1>19

LEMMA ViewKeeps == ASSUME Inv, DecodeView PROVE Inv'
<1>. DEFINE n == ViewSize
<1>0. TypeOK /\ pc = "decode" /\ n \in Nat \ {0} /\ off + n <= n_tokens /\ conf' = conf
    BY Viewing DEF Inv, DecodeView
<1>1. PICK S, over \in SUBSET Slots : Sampling(S, over)
    BY Sampled
<1>2. off \in Nat /\ n_tokens \in Nat
    BY <1>0 DEF TypeOK
<1>3. IF off + n < n_tokens
      THEN off' = off + n /\ n_view' = NBatch /\ UNCHANGED <<pc, rows, n_tokens>>
      ELSE pc' = "cancel" /\ NoBatch
    BY DEF DecodeView
<1>4. TypeOK' /\ Batch'
    <2>1. CASE off + n < n_tokens
        <3>1. /\ pc' = "decode" /\ rows' = rows /\ n_tokens' = n_tokens /\ off' = off + n
              /\ n_view' \in Nat \ {0}
            BY <1>0, <1>3, <2>1, TickAssumption
        <3>2. TypeOK'
            BY <1>0, <1>1, <1>2, <3>1 DEF TypeOK, Sampling
        <3>3. n_tokens <= NBatch /\ Shared(rows, n_tokens)
            BY <1>0 DEF Inv, Batch
        <3>4. off' > 0 /\ off' < n_tokens
            BY <1>0, <1>2, <2>1, <3>1
        <3>5. Shared(rows, n_tokens)'
            BY <3>1, <3>3 DEF Shared, Owns
        <3>. QED BY <3>1, <3>2, <3>3, <3>4, <3>5 DEF Batch
    <2>2. CASE ~(off + n < n_tokens)
        <3>1. pc' = "cancel" /\ NoBatch
            BY <1>3, <2>2
        <3>2. /\ rows' \in [Slots -> Rows] /\ n_tokens' = 0 /\ off' = 0 /\ n_view' \in Nat \ {0}
              /\ \A s \in Slots : rows'[s].count = 0
            BY <3>1, Emptied
        <3>3. TypeOK'
            BY <1>0, <1>1, <3>1, <3>2 DEF TypeOK, Sampling
        <3>. QED BY <3>1, <3>2, <3>3 DEF Batch
    <2>. QED BY <2>1, <2>2
<1>5. ASSUME NEW s \in Slots PROVE Local(s)'
    <2>. DEFINE after == Left(rows[s], off + n)
                in == RowsIn(s, n)
    <2>1. /\ after \in Nat
          /\ kv[s] + in + after = n_past[s]
          /\ Hit(s, n) => after = 0 /\ i_batch[s] # None
          /\ Left(rows[s], off) = 0 => after = 0
          /\ i_batch[s] # None /\ ~Hit(s, n) => off + n <= i_batch[s]
          /\ off + n = n_tokens => after = 0 /\ (i_batch[s] # None => Hit(s, n))
        BY <1>0, Decoding
    <2>2. /\ Left(rows'[s], off') = after
          /\ i_batch[s] # None /\ ~Hit(s, n) => rows'[s] = rows[s] /\ off' = off + n
        <3>1. CASE off + n < n_tokens
            BY <1>3, <3>1
        <3>2. CASE ~(off + n < n_tokens)
            <4>1. off + n = n_tokens
                BY <1>0, <1>2, <3>2
            <4>2. NoBatch
                BY <1>3, <3>2
            <4>3. Left(rows'[s], off') = 0
                BY <4>2, Emptied
            <4>. QED BY <2>1, <4>1, <4>3
        <3>. QED BY <3>1, <3>2
    <2>3. /\ kv[s] \in Nat /\ n_past[s] \in Nat /\ in \in Int /\ i_batch[s] \in Nat \cup {None}
          /\ state[s] \in {"IDLE", "PREFILL", "GENERATE"}
        BY <1>0, InView, SlotTypes, <2>1
    <2>. HIDE DEF after, in
    <2>4. Local(s) /\ (s \in S <=> s \in Busy /\ Hit(s, n))
        BY <1>1 DEF Inv, Sampling
    <2>5. CASE s \in over
        <3>1. state'[s] = "IDLE" /\ n_past'[s] = 0 /\ kv'[s] = 0 /\ i_batch'[s] = None /\ after = 0
            BY <1>1, <2>1, <2>4, <2>5 DEF Sampling
        <3>. QED BY <2>2, <3>1 DEF Local
    <2>6. CASE s \in S \ over
        <3>1. /\ state'[s] = "GENERATE" /\ i_batch'[s] = None /\ after = 0 /\ ~MustEnd(s)
              /\ n_past'[s] = n_past[s] - Dropped(s) /\ kv'[s] = kv[s] + in - Dropped(s)
            BY <1>1, <2>1, <2>4, <2>6 DEF Sampling, in
        <3>2. Dropped(s) \in Nat /\ n_past[s] - Dropped(s) < NCtx
            BY <3>1, Dropping
        <3>3. kv'[s] + after = n_past'[s] /\ n_past'[s] <= NCtx /\ n_past'[s] < NCtx
            BY <2>1, <2>3, <3>1, <3>2, TickAssumption
        <3>. QED BY <2>2, <3>1, <3>3 DEF Local
    <2>7. CASE s \notin S /\ s \notin over
        <3>1. /\ state'[s] = state[s] /\ i_batch'[s] = i_batch[s] /\ n_prompt'[s] = n_prompt[s]
              /\ n_past'[s] = n_past[s] /\ kv'[s] = kv[s] + in - 0
            BY <1>1, <2>7 DEF Sampling, in
        <3>2. kv'[s] + Left(rows'[s], off') = n_past'[s]
            BY <2>1, <2>2, <2>3, <3>1
        <3>3. i_batch[s] # None => ~Hit(s, n)
            <4>1. i_batch[s] # None => s \in Busy
                BY <2>4 DEF Local, Busy, In
            <4>. QED BY <2>4, <2>7, <4>1
        <3>. QED BY <2>1, <2>2, <2>4, <3>1, <3>2, <3>3 DEF Local
    <2>. QED BY <2>5, <2>6, <2>7
<1>. QED BY <1>4, <1>5 DEF Inv

-----------------------------------------------------------------------------
(* Sharing out a batch.                                                    *)

LEMMA SetsFinite ==
    ASSUME NEW S \in SUBSET Slots
    PROVE  IsFiniteSet(S) /\ Cardinality(S) \in 0 .. NSlots
<1>1. NSlots \in Nat /\ IsFiniteSet(Slots) /\ Cardinality(Slots) = NSlots
    <2>1. NSlots \in Nat \ {0}
        BY TickAssumption
    <2>2. Cardinality(1 .. NSlots) = IF 1 > NSlots THEN 0 ELSE NSlots - 1 + 1
        BY <2>1, FS_Interval
    <2>. QED BY <2>1, <2>2, FS_Interval DEF Slots
<1>2. IsFiniteSet(S) /\ Cardinality(S) <= Cardinality(Slots)
    BY <1>1, FS_Subset
<1>. QED BY <1>1, <1>2, FS_CardinalityType

\* The slots up to s that are generating.
Deciding(s) == Cardinality({t \in In("GENERATE") : t <= s})

LEMMA DecodeRows ==
    ASSUME TypeOK
    PROVE  /\ Deciding(0) = 0 /\ Deciding(NSlots) = NDecode
           /\ NDecode \in 0 .. NSlots
           /\ \A s \in 0 .. NSlots : Deciding(s) \in Nat
           /\ \A s \in Slots :
                /\ DecodeRow(s) = Deciding(s - 1)
                /\ Deciding(s) = Deciding(s - 1) + IF state[s] = "GENERATE" THEN 1 ELSE 0
<1>. DEFINE G == In("GENERATE")
            D(s) == {t \in G : t <= s}
<1>1. G \in SUBSET Slots /\ \A s \in Int : D(s) \in SUBSET Slots
    BY DEF In
<1>2. NSlots \in Nat
    BY TickAssumption
<1>3. D(0) = {} /\ D(NSlots) = G
    BY <1>1, <1>2 DEF Slots
<1>4. \A s \in 0 .. NSlots : Deciding(s) \in Nat
    <2>. TAKE s \in 0 .. NSlots
    <2>1. D(s) \in SUBSET Slots
        BY <1>1, <1>2
    <2>. QED BY <2>1, SetsFinite DEF Deciding
<1>5. ASSUME NEW s \in Slots
      PROVE  /\ DecodeRow(s) = Deciding(s - 1)
             /\ Deciding(s) = Deciding(s - 1) + IF state[s] = "GENERATE" THEN 1 ELSE 0
    <2>1. s \in Int /\ s - 1 \in Int
        BY DEF Slots
    <2>2. {t \in G : t < s} = D(s - 1)
        BY <1>1, <2>1 DEF Slots
    <2>3. IsFiniteSet(D(s - 1))
        BY <1>1, <2>1, SetsFinite
    <2>4. CASE state[s] = "GENERATE"
        <3>1. D(s) = D(s - 1) \cup {s} /\ s \notin D(s - 1)
            BY <1>1, <2>1, <2>4 DEF Slots, In
        <3>. HIDE DEF D
        <3>2. Cardinality(D(s)) = Cardinality(D(s - 1)) + 1
            BY <2>3, <3>1, FS_AddElement
        <3>. QED BY <2>2, <2>4, <3>2 DEF Deciding, DecodeRow, D
    <2>5. CASE state[s] # "GENERATE"
        <3>1. D(s) = D(s - 1)
            BY <1>1, <2>1, <2>5 DEF Slots, In
        <3>2. Cardinality(D(s - 1)) \in Nat
            BY <1>1, <2>1, SetsFinite
        <3>3. /\ Deciding(s) = Cardinality(D(s)) /\ Deciding(s - 1) = Cardinality(D(s - 1))
              /\ DecodeRow(s) = Cardinality(D(s - 1))
            BY <2>2 DEF Deciding, DecodeRow
        <3>. HIDE DEF D
        <3>. QED BY <2>5, <3>1, <3>2, <3>3
    <2>. QED BY <2>4, <2>5
<1>6. NDecode \in 0 .. NSlots
    BY <1>1, SetsFinite DEF NDecode
<1>. QED BY <1>3, <1>4, <1>5, <1>6, FS_EmptySet DEF Deciding, NDecode

\* There is room for a prompt row beside the decode rows, and --tick-tokens is exceeded for
\* one at most.
LEMMA Budgeting ==
    ASSUME TypeOK
    PROVE  /\ Budget \in Nat \ {0} /\ NDecode + Budget <= NBatch
           /\ conf.tick > 0 => NDecode + Budget <= MaxOf({conf.tick, NDecode + 1})
<1>. DEFINE room == NBatch - NDecode
            beside == MaxOf({1, conf.tick - NDecode})
<1>1. NBatch \in Nat /\ NSlots \in Nat /\ NBatch >= NSlots + 1 /\ NDecode \in 0 .. NSlots
      /\ conf.tick \in Nat
    BY TickAssumption, DecodeRows, ConfTypes DEF TypeOK
<1>2. room \in Nat \ {0} /\ conf.tick - NDecode \in Int /\ NDecode + 1 \in Int
    BY <1>1
<1>3. beside = IF 1 >= conf.tick - NDecode THEN 1 ELSE conf.tick - NDecode
    BY <1>2, OfTwo
<1>4. beside \in Nat \ {0}
    BY <1>1, <1>3
<1>5. MaxOf({conf.tick, NDecode + 1}) = IF conf.tick >= NDecode + 1 THEN conf.tick ELSE NDecode + 1
    BY <1>1, <1>2, OfTwo
<1>6. Budget = IF conf.tick > 0 THEN MinOf({room, beside}) ELSE room
    BY DEF Budget
<1>7. room = NBatch - NDecode
    OBVIOUS
<1>. HIDE DEF room, beside
<1>8. MinOf({room, beside}) = IF room <= beside THEN room ELSE beside
    <2>1. room \in Int /\ beside \in Int
        BY <1>2, <1>4
    <2>. QED BY <2>1, OfTwo
<1>9. Budget \in Nat \ {0} /\ Budget <= room /\ (conf.tick > 0 => Budget <= beside)
    <2>1. CASE conf.tick > 0
        <3>1. Budget = IF room <= beside THEN room ELSE beside
            BY <1>6, <1>8, <2>1
        <3>. QED BY <1>2, <1>4, <3>1
    <2>2. CASE ~(conf.tick > 0)
        <3>1. Budget = room
            BY <1>6, <2>2
        <3>. QED BY <1>2, <2>2, <3>1
    <2>. QED BY <2>1, <2>2
<1>10. NDecode + Budget <= NBatch
    BY <1>1, <1>7, <1>9
<1>11. ASSUME conf.tick > 0
       PROVE  NDecode + Budget <= MaxOf({conf.tick, NDecode + 1})
    <2>1. beside <= 1 \/ beside <= conf.tick - NDecode
        BY <1>1, <1>3
    <2>. QED BY <1>1, <1>4, <1>5, <1>9, <1>11, <2>1
<1>. QED BY <1>9, <1>10, <1>11

LEMMA Slicing ==
    ASSUME TypeOK, NEW s \in Slots, state[s] = "PREFILL"
    PROVE  PerSlot \in Nat \ {0}
<1>. DEFINE share == Budget \div NPrefilling
<1>1. In("PREFILL") \in SUBSET Slots /\ In("PREFILL") # {}
    BY DEF In
<1>2. NPrefilling \in Nat
    BY <1>1, SetsFinite DEF NPrefilling
<1>3. NPrefilling # 0
    BY <1>1, SetsFinite, FS_EmptySet DEF NPrefilling
<1>4. share \in Int
    BY <1>2, <1>3, Budgeting
<1>. HIDE DEF share
<1>5. MaxOf({1, share}) = IF 1 >= share THEN 1 ELSE share
    BY <1>4, OfTwo
<1>6. PerSlot = MaxOf({1, share})
    BY DEF PerSlot, share
<1>. QED BY <1>4, <1>5, <1>6

\* What Filled says of slot s, given what it says of the slot before.
Filling(f, s) ==
    IF s = 0 THEN NDecode
    ELSE IF state[s] = "PREFILL"
         THEN f[s - 1] + MinOf({n_prompt[s] - n_past[s], PerSlot, NDecode + Budget - f[s - 1]})
         ELSE f[s - 1]

LEMMA FilledUnfolds == \A s \in 0 .. NSlots : Filled[s] = Filling(Filled, s)
<1>. DEFINE N == 0 .. NSlots
            T == {n \in N : \E g : /\ g = [s \in N |-> g[s]]
                                   /\ \A s \in 0 .. n : g[s] = Filling(g, s)}
<1>0. NSlots \in Nat
    BY TickAssumption
<1>1. 0 \in T
    <2>. DEFINE g == [s \in N |-> NDecode]
    <2>1. g = [s \in N |-> g[s]] /\ \A s \in 0 .. 0 : g[s] = Filling(g, s)
        BY <1>0 DEF Filling
    <2>. HIDE DEF g
    <2>. QED BY <1>0, <2>1
<1>2. ASSUME NEW n \in 0 .. NSlots - 1, n \in T
      PROVE  n + 1 \in T
    <2>1. PICK g : g = [s \in N |-> g[s]] /\ \A s \in 0 .. n : g[s] = Filling(g, s)
        BY <1>2
    <2>. DEFINE h == [s \in N |-> IF s = n + 1 THEN Filling(g, n + 1) ELSE g[s]]
    <2>2. \A s \in N : h[s] = IF s = n + 1 THEN Filling(g, n + 1) ELSE g[s]
        OBVIOUS
    <2>3. h = [s \in N |-> h[s]]
        OBVIOUS
    <2>. HIDE DEF h
    <2>4. \A s \in 0 .. n + 1 : h[s] = Filling(h, s)
        <3>. TAKE s \in 0 .. n + 1
        <3>1. s \in N /\ n + 1 \in N /\ (s # 0 => s - 1 \in N /\ s - 1 # n + 1)
            BY <1>0
        <3>2. s # 0 => h[s - 1] = g[s - 1]
            BY <2>2, <3>1
        <3>3. Filling(h, s) = Filling(g, s)
            BY <3>2 DEF Filling
        <3>4. CASE s = n + 1
            BY <2>2, <3>1, <3>3, <3>4
        <3>5. CASE s # n + 1
            BY <2>1, <2>2, <3>1, <3>3, <3>5
        <3>. QED BY <3>4, <3>5
    <2>5. n + 1 \in N
        BY <1>0
    <2>. QED BY <2>3, <2>4, <2>5
<1>3. NSlots \in T
    <2>. HIDE DEF T
    <2>1. 0 .. NSlots \subseteq T
        BY <1>0, <1>1, <1>2, Upto
    <2>. QED BY <1>0, <2>1
<1>4. PICK g : g = [s \in N |-> g[s]] /\ \A s \in 0 .. NSlots : g[s] = Filling(g, s)
    BY <1>3
<1>5. g = [s \in N |-> Filling(g, s)]
    BY <1>4
<1>6. Filled = CHOOSE f : f = [s \in N |-> Filling(f, s)]
    BY DEF Filled, Filling
<1>7. Filled = [s \in N |-> Filling(Filled, s)]
    BY <1>5, <1>6, Zenon
<1>. QED BY <1>7, Zenon

LEMMA Places ==
    /\ NSlots \in Nat /\ 0 \in 0 .. NSlots /\ NSlots \in 0 .. NSlots
    /\ \A s \in Slots : /\ s \in Nat \ {0} /\ s <= NSlots
                        /\ s \in 0 .. NSlots /\ s - 1 \in 0 .. NSlots
BY TickAssumption DEF Slots

\* Every share is a slot's own need at most, and all of them what the tick has for prompts.
LEMMA FilledBounds ==
    ASSUME Inv, pc = "admit"
    PROVE  /\ Filled[0] = NDecode
           /\ \A s \in 0 .. NSlots : Filled[s] \in Nat /\ NDecode <= Filled[s]
                                     /\ Filled[s] <= NDecode + Budget
           /\ \A s \in Slots :
                IF state[s] = "PREFILL"
                THEN /\ Filled[s - 1] <= Filled[s]
                     /\ Filled[s] - Filled[s - 1] <= n_prompt[s] - n_past[s]
                     /\ Filled[s - 1] < NDecode + Budget => Filled[s - 1] < Filled[s]
                ELSE Filled[s] = Filled[s - 1]
<1>. DEFINE Bounded(k) == k \in Nat /\ NDecode <= k /\ k <= NDecode + Budget
            T == {s \in 0 .. NSlots : Bounded(Filled[s])}
<1>0. NSlots \in Nat /\ NDecode \in Nat /\ Budget \in Nat \ {0} /\ TypeOK
    BY TickAssumption, DecodeRows, Budgeting DEF Inv
<1>1. Filled[0] = NDecode
    <2>1. Filled[0] = Filling(Filled, 0)
        BY FilledUnfolds, Places
    <2>. QED BY <2>1 DEF Filling
<1>2. ASSUME NEW s \in Slots, Bounded(Filled[s - 1])
      PROVE  /\ Bounded(Filled[s])
             /\ IF state[s] = "PREFILL"
                THEN /\ Filled[s - 1] <= Filled[s]
                     /\ Filled[s] - Filled[s - 1] <= n_prompt[s] - n_past[s]
                     /\ Filled[s - 1] < NDecode + Budget => Filled[s - 1] < Filled[s]
                ELSE Filled[s] = Filled[s - 1]
    <2>1. s \in 0 .. NSlots /\ s # 0
        BY DEF Slots
    <2>2. Filled[s] = Filling(Filled, s)
        BY <2>1, FilledUnfolds
    <2>3. CASE state[s] = "PREFILL"
        <3>. DEFINE need == n_prompt[s] - n_past[s]
                    rest == NDecode + Budget - Filled[s - 1]
                    m == MinOf({need, PerSlot, rest})
        <3>1. Filled[s] = Filled[s - 1] + m
            BY <2>1, <2>2, <2>3 DEF Filling
        <3>2. need \in Nat \ {0}
            <4>1. n_past[s] < n_prompt[s]
                BY <1>0, <2>3, Resting DEF Inv, Local
            <4>. QED BY <1>0, <4>1, SlotTypes
        <3>3. PerSlot \in Nat \ {0}
            BY <1>0, <2>3, Slicing
        <3>4. rest \in Nat /\ (Filled[s - 1] < NDecode + Budget => rest # 0)
              /\ Filled[s - 1] + rest = NDecode + Budget
            BY <1>0, <1>2
        <3>. HIDE DEF need, rest
        <3>5. m \in {need, PerSlot, rest} /\ m <= need /\ m <= rest
            <4>1. need \in Int /\ PerSlot \in Int /\ rest \in Int
                BY <3>2, <3>3, <3>4
            <4>. QED BY <4>1, OfThree
        <3>. HIDE DEF m
        <3>6. m \in Nat /\ (Filled[s - 1] < NDecode + Budget => m # 0)
            BY <3>2, <3>3, <3>4, <3>5
        <3>7. Filled[s] \in Nat /\ Filled[s - 1] \in Nat /\ Filled[s] - Filled[s - 1] = m
            BY <1>2, <3>1, <3>6
        <3>. QED BY <1>0, <1>2, <2>3, <3>1, <3>2, <3>4, <3>5, <3>6, <3>7 DEF need
    <2>4. CASE state[s] # "PREFILL"
        BY <1>2, <2>1, <2>2, <2>4 DEF Filling
    <2>. QED BY <2>3, <2>4
<1>3. 0 .. NSlots \subseteq T
    <2>1. 0 \in T
        BY <1>0, <1>1
    <2>2. ASSUME NEW k \in 0 .. NSlots - 1, k \in T
          PROVE  k + 1 \in T
        <3>1. k + 1 \in Slots /\ (k + 1) - 1 = k /\ k + 1 \in 0 .. NSlots
            BY <1>0 DEF Slots
        <3>2. Bounded(Filled[(k + 1) - 1])
            BY <2>2, <3>1
        <3>. HIDE DEF Bounded
        <3>3. Bounded(Filled[k + 1])
            BY <1>2, <3>1, <3>2
        <3>. QED BY <3>1, <3>3
    <2>. HIDE DEF T
    <2>. QED BY <1>0, <2>1, <2>2, Upto
<1>4. \A s \in 0 .. NSlots : Bounded(Filled[s])
    BY <1>3
<1>5. \A s \in Slots : s - 1 \in 0 .. NSlots
    BY Places
<1>. QED BY <1>1, <1>2, <1>4, <1>5

\* The same row cannot lie between two steps of a sequence that never falls.
LEMMA Alone ==
    ASSUME NEW f \in [0 .. NSlots -> Int], \A s \in Slots : f[s - 1] <= f[s],
           NEW i \in Int, NEW s \in Slots, NEW t \in Slots,
           f[s - 1] <= i, i < f[s], f[t - 1] <= i, i < f[t]
    PROVE  s = t
<1>0. \A a, b \in 0 .. NSlots : a <= b => f[a] <= f[b]
    BY Grows
<1>1. ASSUME NEW a \in Slots, NEW b \in Slots, a < b, i < f[a], f[b - 1] <= i
      PROVE  FALSE
    <2>1. a \in 0 .. NSlots /\ b - 1 \in 0 .. NSlots /\ a <= b - 1
        BY <1>1, Places
    <2>2. f[a] <= f[b - 1]
        BY <1>0, <2>1
    <2>3. f[a] \in Int /\ f[b - 1] \in Int
        BY <2>1
    <2>. DEFINE x == f[a]
                y == f[b - 1]
    <2>4. x \in Int /\ y \in Int /\ x <= y /\ i < x /\ y <= i
        BY <1>1, <2>2, <2>3
    <2>. HIDE DEF x, y
    <2>. QED BY <2>4
<1>2. s \in Int /\ t \in Int
    BY DEF Slots
<1>. QED BY <1>1, <1>2

LEMMA BuiltIs ==
    ASSUME Inv, pc = "admit", NEW s \in Slots
    PROVE  /\ BuiltRows[s] \in Rows
           /\ state[s] = "GENERATE" =>
                /\ BuiltRows[s] = [first |-> Deciding(s - 1), count |-> 1]
                /\ Deciding(s) = Deciding(s - 1) + 1
                /\ Deciding(s - 1) \in Nat /\ Deciding(s) <= NDecode
           /\ state[s] = "PREFILL" =>
                /\ BuiltRows[s] = [first |-> Filled[s - 1], count |-> Filled[s] - Filled[s - 1]]
                /\ Filled[s - 1] \in Nat /\ Filled[s] \in Nat /\ Filled[s - 1] <= Filled[s]
                /\ NDecode <= Filled[s - 1]
                /\ BuiltRows[s].count <= n_prompt[s] - n_past[s]
           /\ state[s] = "IDLE" => BuiltRows[s] = [first |-> 0, count |-> 0]
<1>0. TypeOK /\ s \in 0 .. NSlots /\ s - 1 \in 0 .. NSlots /\ NSlots \in 0 .. NSlots
    BY TickAssumption DEF Inv, Slots
<1>1. state[s] \in {"IDLE", "PREFILL", "GENERATE"}
    BY <1>0, SlotTypes
<1>2. CASE state[s] = "GENERATE"
    <2>1. BuiltRows[s] = [first |-> DecodeRow(s), count |-> 1]
        BY <1>2 DEF BuiltRows
    <2>2. /\ DecodeRow(s) = Deciding(s - 1) /\ Deciding(s) = Deciding(s - 1) + 1
          /\ Deciding(s - 1) \in Nat /\ Deciding(NSlots) = NDecode
        BY <1>0, <1>2, DecodeRows
    <2>3. Deciding(s) <= Deciding(NSlots)
        <3>. DEFINE d == [r \in 0 .. NSlots |-> Deciding(r)]
        <3>1. d \in [0 .. NSlots -> Int]
            BY <1>0, DecodeRows
        <3>2. \A r \in Slots : d[r - 1] <= d[r]
            <4>. TAKE r \in Slots
            <4>1. r \in 0 .. NSlots /\ r - 1 \in 0 .. NSlots
                BY Places
            <4>2. Deciding(r - 1) \in Nat /\ Deciding(r) \in Nat /\ Deciding(r - 1) <= Deciding(r)
                BY <1>0, <4>1, DecodeRows
            <4>. QED BY <4>1, <4>2
        <3>3. s <= NSlots
            BY DEF Slots
        <3>4. d[s] = Deciding(s) /\ d[NSlots] = Deciding(NSlots)
            BY <1>0
        <3>. HIDE DEF d
        <3>5. d[s] <= d[NSlots]
            BY <1>0, <3>1, <3>2, <3>3, Grows
        <3>. QED BY <3>4, <3>5
    <2>. QED BY <1>2, <2>1, <2>2, <2>3 DEF Rows
<1>3. CASE state[s] = "PREFILL"
    <2>1. BuiltRows[s] = [first |-> Filled[s - 1], count |-> Filled[s] - Filled[s - 1]]
        BY <1>3 DEF BuiltRows
    <2>2. /\ Filled[s - 1] \in Nat /\ Filled[s] \in Nat /\ NDecode <= Filled[s - 1]
          /\ Filled[s - 1] <= Filled[s] /\ Filled[s] - Filled[s - 1] <= n_prompt[s] - n_past[s]
        BY <1>0, <1>3, FilledBounds
    <2>3. Filled[s] - Filled[s - 1] \in Nat
        BY <2>2
    <2>. QED BY <1>3, <2>1, <2>2, <2>3 DEF Rows
<1>4. CASE state[s] = "IDLE"
    <2>1. BuiltRows[s] = [first |-> 0, count |-> 0]
        BY <1>4 DEF BuiltRows
    <2>. QED BY <1>4, <2>1 DEF Rows
<1>. QED BY <1>1, <1>2, <1>3, <1>4

\* Every row of a batch that is built belongs to one slot: decode rows first, in slot order,
\* then the prompts' chunks.
LEMMA RowsShared ==
    ASSUME Inv, pc = "admit"
    PROVE  Shared(BuiltRows, Filled[NSlots])
<1>. DEFINE d == [s \in 0 .. NSlots |-> Deciding(s)]
            f == [s \in 0 .. NSlots |-> Filled[s]]
            n == Filled[NSlots]
            own(s) == BuiltRows[s]
<1>0. TypeOK /\ NSlots \in Nat /\ NDecode \in Nat
    BY Places, DecodeRows DEF Inv
<1>1. d \in [0 .. NSlots -> Int] /\ d[0] = 0 /\ d[NSlots] = NDecode
      /\ \A s \in Slots : d[s - 1] = Deciding(s - 1) /\ d[s] = Deciding(s)
    BY <1>0, Places, DecodeRows
<1>2. f \in [0 .. NSlots -> Int] /\ f[0] = NDecode /\ f[NSlots] = n
      /\ \A s \in Slots : f[s - 1] = Filled[s - 1] /\ f[s] = Filled[s]
    BY <1>0, Places, FilledBounds
<1>3. \A s \in Slots : d[s - 1] <= d[s]
    <2>. TAKE s \in Slots
    <2>1. s \in 0 .. NSlots /\ s - 1 \in 0 .. NSlots
        BY Places
    <2>2. Deciding(s - 1) \in Nat /\ Deciding(s) \in Nat /\ Deciding(s - 1) <= Deciding(s)
        BY <1>0, <2>1, DecodeRows
    <2>. QED BY <1>1, <2>2
<1>4. \A s \in Slots : f[s - 1] <= f[s]
    <2>. TAKE s \in Slots
    <2>1. s \in 0 .. NSlots /\ s - 1 \in 0 .. NSlots
        BY Places
    <2>2. Filled[s - 1] \in Nat /\ Filled[s] \in Nat /\ Filled[s - 1] <= Filled[s]
        BY <2>1, FilledBounds
    <2>. QED BY <1>2, <2>2
<1>. HIDE DEF d, f
<1>5. \A s \in Slots : f[s] <= n /\ n \in Int /\ NDecode <= n
    <2>. TAKE s \in Slots
    <2>1. f[s] <= f[NSlots]
        BY <1>2, <1>4, Places, Grows
    <2>2. Filled[NSlots] \in Nat /\ NDecode <= Filled[NSlots]
        BY Places, FilledBounds
    <2>. QED BY <1>2, <2>1, <2>2
<1>6. ASSUME NEW s \in Slots, NEW i \in Int, Owns(own(s), i)
      PROVE  \/ i < NDecode /\ d[s - 1] <= i /\ i < d[s]
             \/ NDecode <= i /\ f[s - 1] <= i /\ i < f[s]
    <2>1. state[s] \in {"IDLE", "PREFILL", "GENERATE"}
        BY <1>0, SlotTypes
    <2>2. CASE state[s] = "GENERATE"
        <3>1. /\ own(s) = [first |-> Deciding(s - 1), count |-> 1]
              /\ Deciding(s) = Deciding(s - 1) + 1
              /\ Deciding(s - 1) \in Nat /\ Deciding(s) <= NDecode
            BY <2>2, BuiltIs
        <3>2. Deciding(s - 1) <= i /\ i < Deciding(s - 1) + 1
            BY <1>6, <3>1 DEF Owns
        <3>. QED BY <1>0, <1>1, <3>1, <3>2
    <2>3. CASE state[s] = "PREFILL"
        <3>1. /\ own(s) = [first |-> Filled[s - 1], count |-> Filled[s] - Filled[s - 1]]
              /\ Filled[s - 1] \in Nat /\ Filled[s] \in Nat /\ Filled[s - 1] <= Filled[s]
              /\ NDecode <= Filled[s - 1]
            BY <2>3, BuiltIs
        <3>2. Filled[s - 1] <= i /\ i < Filled[s - 1] + (Filled[s] - Filled[s - 1])
            BY <1>6, <3>1 DEF Owns
        <3>. QED BY <1>0, <1>2, <3>1, <3>2
    <2>4. CASE state[s] = "IDLE"
        <3>1. own(s) = [first |-> 0, count |-> 0]
            BY <2>4, BuiltIs
        <3>2. 0 <= i /\ i < 0 + 0
            BY <1>6, <3>1 DEF Owns
        <3>. QED BY <3>2
    <2>. QED BY <2>1, <2>2, <2>3, <2>4
<1>7. ASSUME NEW s \in Slots, own(s).count > 0 PROVE own(s).first + own(s).count <= n
    <2>1. state[s] \in {"IDLE", "PREFILL", "GENERATE"}
        BY <1>0, SlotTypes
    <2>2. CASE state[s] = "GENERATE"
        <3>1. /\ own(s) = [first |-> Deciding(s - 1), count |-> 1]
              /\ Deciding(s) = Deciding(s - 1) + 1
              /\ Deciding(s - 1) \in Nat /\ Deciding(s) <= NDecode
            BY <2>2, BuiltIs
        <3>2. own(s).first + own(s).count = Deciding(s)
            BY <3>1
        <3>. QED BY <1>0, <1>5, <3>1, <3>2
    <2>3. CASE state[s] = "PREFILL"
        <3>1. /\ own(s) = [first |-> Filled[s - 1], count |-> Filled[s] - Filled[s - 1]]
              /\ Filled[s - 1] \in Nat /\ Filled[s] \in Nat
            BY <2>3, BuiltIs
        <3>2. own(s).first + own(s).count = Filled[s]
            BY <3>1
        <3>. QED BY <1>2, <1>5, <3>2
    <2>4. CASE state[s] = "IDLE"
        <3>1. own(s) = [first |-> 0, count |-> 0]
            BY <2>4, BuiltIs
        <3>. QED BY <1>7, <3>1
    <2>. QED BY <2>1, <2>2, <2>3, <2>4
<1>8. ASSUME NEW i \in 0 .. n - 1 PROVE \E s \in Slots : Owns(own(s), i)
    <2>0. i \in Int /\ 0 <= i /\ i < n
        <3>1. n \in Int
            BY Places, FilledBounds
        <3>. HIDE DEF n
        <3>. QED BY <1>8, <3>1
    <2>1. CASE i < NDecode
        <3>1. PICK s \in Slots : d[s - 1] <= i /\ i < d[s]
            BY <1>1, <2>0, <2>1, Crosses
        <3>2. Deciding(s - 1) \in Nat
            BY <1>0, Places, DecodeRows
        <3>3. state[s] = "GENERATE"
            <4>1. Deciding(s) = Deciding(s - 1) + IF state[s] = "GENERATE" THEN 1 ELSE 0
                BY <1>0, DecodeRows
            <4>. QED BY <1>1, <2>0, <3>1, <3>2, <4>1
        <3>4. own(s) = [first |-> Deciding(s - 1), count |-> 1] /\ Deciding(s) = Deciding(s - 1) + 1
            BY <3>3, BuiltIs
        <3>5. Deciding(s - 1) <= i /\ i < Deciding(s - 1) + 1
            BY <1>1, <3>1, <3>4
        <3>. QED BY <3>4, <3>5 DEF Owns
    <2>2. CASE NDecode <= i
        <3>1. PICK s \in Slots : f[s - 1] <= i /\ i < f[s]
            BY <1>2, <2>0, <2>2, Crosses
        <3>2. Filled[s - 1] \in Nat /\ Filled[s] \in Nat /\ Filled[s - 1] <= i /\ i < Filled[s]
            BY <1>2, <3>1, Places, FilledBounds
        <3>3. state[s] = "PREFILL"
            <4>1. state[s] # "PREFILL" => Filled[s] = Filled[s - 1]
                BY FilledBounds
            <4>. QED BY <2>0, <3>2, <4>1
        <3>4. own(s) = [first |-> Filled[s - 1], count |-> Filled[s] - Filled[s - 1]]
            BY <3>3, BuiltIs
        <3>5. i < Filled[s - 1] + (Filled[s] - Filled[s - 1])
            BY <2>0, <3>2
        <3>. QED BY <3>2, <3>4, <3>5 DEF Owns
    <2>. QED BY <1>0, <2>0, <2>1, <2>2
<1>9. ASSUME NEW i \in 0 .. n - 1, NEW s \in Slots, NEW t \in Slots,
             Owns(own(s), i), Owns(own(t), i)
      PROVE  s = t
    <2>1. i \in Int
        BY <1>9
    <2>2. CASE i < NDecode
        <3>1. d[s - 1] <= i /\ i < d[s] /\ d[t - 1] <= i /\ i < d[t]
            BY <1>0, <1>6, <1>9, <2>1, <2>2
        <3>. QED BY <1>1, <1>3, <2>1, <3>1, Alone
    <2>3. CASE ~(i < NDecode)
        <3>1. f[s - 1] <= i /\ i < f[s] /\ f[t - 1] <= i /\ i < f[t]
            BY <1>0, <1>6, <1>9, <2>1, <2>3
        <3>. QED BY <1>2, <1>4, <2>1, <3>1, Alone
    <2>. QED BY <2>2, <2>3
<1>. QED BY <1>7, <1>8, <1>9 DEF Shared

\* While a slot is prefilling, some slot gets prompt rows.
LEMMA PromptRows ==
    ASSUME Inv, pc = "admit", In("PREFILL") # {}
    PROVE  \E s \in In("PREFILL") : BuiltRows[s].count > 0
<1>. SUFFICES ASSUME \A s \in In("PREFILL") : ~(BuiltRows[s].count > 0) PROVE FALSE
    OBVIOUS
<1>. DEFINE T == {s \in 0 .. NSlots : Filled[s] = NDecode}
<1>0. TypeOK /\ NDecode \in Nat /\ Budget \in Nat \ {0}
    BY DecodeRows, Budgeting DEF Inv
<1>1. ASSUME NEW s \in Slots, Filled[s - 1] = NDecode
      PROVE  Filled[s] = NDecode /\ state[s] # "PREFILL"
    <2>1. CASE state[s] = "PREFILL"
        <3>1. BuiltRows[s] = [first |-> Filled[s - 1], count |-> Filled[s] - Filled[s - 1]]
            BY <2>1, BuiltIs
        <3>2. ~(Filled[s] - Filled[s - 1] > 0)
            BY <2>1, <3>1 DEF In
        <3>3. Filled[s - 1] \in Nat /\ Filled[s] \in Nat /\ Filled[s - 1] < Filled[s]
            BY <1>0, <1>1, <2>1, Places, FilledBounds
        <3>. QED BY <3>2, <3>3
    <2>2. CASE state[s] # "PREFILL"
        BY <1>1, <2>2, FilledBounds
    <2>. QED BY <2>1, <2>2
<1>2. 0 .. NSlots \subseteq T
    <2>1. 0 \in T
        BY Places, FilledBounds
    <2>2. ASSUME NEW k \in 0 .. NSlots - 1, k \in T
          PROVE  k + 1 \in T
        <3>1. k + 1 \in Slots /\ (k + 1) - 1 = k /\ k + 1 \in 0 .. NSlots
            BY Places DEF Slots
        <3>. QED BY <1>1, <2>2, <3>1
    <2>. HIDE DEF T
    <2>. QED BY <2>1, <2>2, Places, Upto
<1>3. PICK s \in Slots : state[s] = "PREFILL"
    BY DEF In
<1>4. Filled[s - 1] = NDecode
    BY <1>2, Places
<1>. QED BY <1>1, <1>3, <1>4

LEMMA BuildKeeps == ASSUME Inv, Build PROVE Inv'
<1>0. TypeOK /\ pc = "admit"
    BY DEF Inv, Build
<1>1. /\ rows' = BuiltRows /\ n_tokens' = Filled[NSlots]
      /\ n_past' = [s \in Slots |-> n_past[s] + rows'[s].count]
      /\ i_batch' = [s \in Slots |-> LogitsRow(s, rows'[s])]
      /\ off' = 0 /\ n_view' = NBatch
      /\ pc' = IF n_tokens' = 0 THEN "cancel" ELSE "decode"
      /\ UNCHANGED <<conf, state, n_prompt, quota, kv, truncated, n_tokens_max>>
    BY DEF Build
<1>2. BuiltRows = [s \in Slots |-> BuiltRows[s]] /\ BuiltRows \in [Slots -> Rows]
    <2>1. BuiltRows = [s \in Slots |-> BuiltRows[s]]
        BY DEF BuiltRows
    <2>2. \A s \in Slots : BuiltRows[s] \in Rows
        BY <1>0, BuiltIs
    <2>. HIDE DEF BuiltRows
    <2>. QED BY <2>1, <2>2
<1>3. /\ n_tokens' \in Nat /\ n_tokens' <= NBatch
      /\ conf.tick > 0 => n_tokens' <= MaxOf({conf.tick, NDecode + 1})
    <2>1. /\ Filled[NSlots] \in Nat /\ Filled[NSlots] <= NDecode + Budget
        BY <1>0, Places, FilledBounds
    <2>2. /\ NDecode \in Nat /\ Budget \in Nat \ {0} /\ NDecode + Budget <= NBatch /\ NBatch \in Nat
          /\ conf.tick > 0 => NDecode + Budget <= MaxOf({conf.tick, NDecode + 1})
        BY <1>0, Budgeting, DecodeRows, TickAssumption
    <2>3. MaxOf({conf.tick, NDecode + 1}) \in Int
        <3>1. conf.tick \in Int /\ NDecode + 1 \in Int
            BY <1>0, <2>2, ConfTypes DEF TypeOK
        <3>. QED BY <3>1, OfTwo
    <2>. QED BY <1>1, <2>1, <2>2, <2>3
<1>4. ASSUME NEW s \in Slots
      PROVE  /\ i_batch'[s] \in Nat \cup {None} /\ n_past'[s] \in Nat
             /\ rows'[s].count \in Nat /\ rows'[s].first \in Nat
             /\ n_past'[s] = n_past[s] + rows'[s].count
             /\ state[s] = "IDLE" => rows'[s].count = 0 /\ i_batch'[s] = None
             /\ state[s] = "PREFILL" =>
                  /\ n_past'[s] <= n_prompt[s] /\ (i_batch'[s] = None <=> n_past'[s] < n_prompt[s])
             /\ state[s] = "GENERATE" => rows'[s].count = 1 /\ i_batch'[s] # None
             /\ i_batch'[s] # None =>
                  rows'[s].count > 0 /\ i_batch'[s] = rows'[s].first + rows'[s].count - 1
    <2>. DEFINE r == BuiltRows[s]
    <2>1. /\ r \in Rows
          /\ state[s] = "GENERATE" => r.count = 1
          /\ state[s] = "PREFILL" => r.count <= n_prompt[s] - n_past[s]
          /\ state[s] = "IDLE" => r.count = 0
        <3>1. r \in Rows
            BY <1>0, BuiltIs
        <3>2. state[s] = "GENERATE" => r = [first |-> Deciding(s - 1), count |-> 1]
            BY <1>0, BuiltIs
        <3>3. state[s] = "PREFILL" => r.count <= n_prompt[s] - n_past[s]
            BY <1>0, BuiltIs
        <3>4. state[s] = "IDLE" => r = [first |-> 0, count |-> 0]
            BY <1>0, BuiltIs
        <3>. HIDE DEF r
        <3>. QED BY <3>1, <3>2, <3>3, <3>4
    <2>2. rows'[s] = r /\ i_batch'[s] = LogitsRow(s, r) /\ n_past'[s] = n_past[s] + r.count
        BY <1>1
    <2>3. /\ state[s] \in {"IDLE", "PREFILL", "GENERATE"}
          /\ n_prompt[s] \in Nat /\ n_past[s] \in Nat
        BY <1>0, SlotTypes
    <2>4. state[s] = "PREFILL" => n_past[s] < n_prompt[s]
        BY <1>0, Resting DEF Inv, Local
    <2>5. r.first \in Nat /\ r.count \in Nat
        BY <2>1 DEF Rows
    <2>. HIDE DEF r
    <2>6. LogitsRow(s, r) =
            IF state[s] = "GENERATE" \/ (state[s] = "PREFILL" /\ r.count > 0 /\ n_past[s] + r.count = n_prompt[s])
            THEN r.first + r.count - 1 ELSE None
        BY DEF LogitsRow
    <2>7. CASE state[s] = "IDLE"
        BY <2>1, <2>2, <2>3, <2>5, <2>6, <2>7
    <2>8. CASE state[s] = "GENERATE"
        BY <2>1, <2>2, <2>3, <2>5, <2>6, <2>8 DEF None
    <2>9. CASE state[s] = "PREFILL"
        BY <2>1, <2>2, <2>3, <2>4, <2>5, <2>6, <2>9 DEF None
    <2>. QED BY <2>3, <2>7, <2>8, <2>9
<1>5. TypeOK'
    <2>1. n_view' \in Nat \ {0}
        BY <1>1, TickAssumption
    <2>2. n_past' \in [Slots -> Nat] /\ i_batch' \in [Slots -> Nat \cup {None}]
        BY <1>1, <1>4
    <2>. QED BY <1>0, <1>1, <1>2, <1>3, <2>1, <2>2 DEF TypeOK
<1>6. Shared(rows', n_tokens')
    BY <1>0, <1>1, RowsShared
<1>7. Batch'
    <2>1. CASE n_tokens' = 0
        <3>1. pc' = "cancel"
            BY <1>1, <2>1
        <3>2. \A s \in Slots : rows'[s].count = 0
            <4>. TAKE s \in Slots
            <4>1. rows'[s].count > 0 => rows'[s].first + rows'[s].count <= 0
                BY <1>6, <2>1 DEF Shared
            <4>. QED BY <1>4, <4>1
        <3>. QED BY <3>1, <3>2 DEF Batch
    <2>2. CASE n_tokens' # 0
        <3>1. pc' = "decode" /\ off' < n_tokens'
            BY <1>1, <1>3, <2>2
        <3>2. In("GENERATE")' = In("GENERATE") /\ NDecode' = NDecode
            BY <1>1 DEF In, NDecode
        <3>3. \A s \in In("GENERATE") : rows'[s].count = 1 /\ i_batch'[s] # None
            BY <1>4 DEF In
        <3>4. Shared(rows, n_tokens)'
            BY <1>6 DEF Shared, Owns
        <3>. QED BY <1>1, <1>3, <3>1, <3>2, <3>3, <3>4 DEF Batch
    <2>. QED BY <2>1, <2>2
<1>8. ASSUME NEW s \in Slots PROVE Local(s)'
    <2>1. /\ kv[s] = n_past[s] /\ i_batch[s] = None /\ Left(rows[s], off) = 0 /\ Local(s)
        BY <1>0, Resting DEF Inv
    <2>2. /\ state[s] \in {"IDLE", "PREFILL", "GENERATE"}
          /\ n_prompt[s] \in Nat /\ n_past[s] \in Nat /\ NCtx \in Nat
        BY <1>0, SlotTypes, TickAssumption
    <2>3. Left(rows'[s], 0) = rows'[s].count
        BY <1>4 DEF Left
    <2>4. kv'[s] + Left(rows'[s], off') = n_past'[s]
        BY <1>1, <1>4, <2>1, <2>3
    <2>5. i_batch'[s] # None =>
            /\ rows'[s].count > 0 /\ i_batch'[s] = rows'[s].first + rows'[s].count - 1
            /\ off' <= i_batch'[s]
        BY <1>1, <1>4
    <2>6. state'[s] = state[s] /\ n_prompt'[s] = n_prompt[s]
        BY <1>1
    <2>7. CASE state[s] = "IDLE"
        <3>1. n_past'[s] = 0 /\ i_batch'[s] = None
            BY <1>4, <2>1, <2>2, <2>7 DEF Local
        <3>. QED BY <2>4, <2>5, <2>6, <2>7, <3>1 DEF Local
    <2>8. CASE state[s] = "PREFILL"
        <3>1. n_prompt[s] <= MaxPrompt
            BY <2>1, <2>8 DEF Local
        <3>2. n_past'[s] <= n_prompt[s] /\ (i_batch'[s] = None <=> n_past'[s] < n_prompt[s])
            BY <1>4, <2>8
        <3>. QED BY <2>4, <2>5, <2>6, <2>8, <3>1, <3>2 DEF Local
    <2>9. CASE state[s] = "GENERATE"
        <3>1. n_past[s] < NCtx
            BY <2>1, <2>9 DEF Local
        <3>2. n_past'[s] <= NCtx /\ i_batch'[s] # None
            BY <1>4, <2>2, <2>9, <3>1
        <3>. QED BY <2>4, <2>5, <2>6, <2>9, <3>2 DEF Local
    <2>. QED BY <2>2, <2>7, <2>8, <2>9
<1>. QED BY <1>5, <1>7, <1>8 DEF Inv

-----------------------------------------------------------------------------
(* Results.                                                                *)

LEMMA StutterKeeps == ASSUME Inv, UNCHANGED vars PROVE Inv'
<1>1. UNCHANGED <<conf, pc, state, n_prompt, n_past, i_batch, quota, kv, truncated, n_tokens_max,
                  rows, n_tokens, off, n_view>>
    BY DEF vars, slotvars, batch
<1>2. TypeOK'
    BY <1>1 DEF Inv, TypeOK
<1>3. Batch'
    <2>1. In("GENERATE")' = In("GENERATE") /\ NDecode' = NDecode
        BY <1>1 DEF In, NDecode
    <2>2. Batch
        BY DEF Inv
    <2>. QED BY <1>1, <2>1, <2>2 DEF Batch
<1>4. ASSUME NEW s \in Slots PROVE Local(s)'
    BY <1>1 DEF Inv, Local
<1>. QED BY <1>2, <1>3, <1>4 DEF Inv

LEMMA InvNext == ASSUME Inv, [Next]_vars PROVE Inv'
BY CancelKeeps, AdmitKeeps, MediaKeeps, BuildKeeps, RetryKeeps, ViewKeeps, FailKeeps, StutterKeeps
   DEF Next

\* Through admissions, batches, split and retried views, shifts and failed ticks, what a slot
\* counts and its memory does not hold yet are the slot's rows still to be decoded, and a
\* batch's rows are shared out exactly (build_batch, decode_batch and sample_slot in
\* src/engine.cpp).
THEOREM Invariance == Spec => []Inv
<1>1. Init => Inv
    BY InvInit
<1>2. Inv /\ [Next]_vars => Inv'
    BY InvNext
<1>. QED BY <1>1, <1>2, PTL DEF Spec

\* No token gets a position at or past the slot's context: a slot at the limit is shifted
\* by a token at least, or ended (sample_slot, context_shift).
THEOREM PositionsBounded == Spec => []PositionsFit
<1>1. Inv => PositionsFit
    <2>. SUFFICES ASSUME Inv, NEW s \in Slots PROVE n_past[s] <= NCtx
        BY DEF PositionsFit
    <2>. QED BY Fits, TickAssumption
<1>. QED BY <1>1, Invariance, PTL

\* Each slot's logits are read once, when all of its rows are in its memory and none
\* before (decode_batch).
THEOREM LogitsOnce == Spec => []SampledOnce
<1>1. ASSUME Inv, NEW s \in Busy
      PROVE  /\ pc # "decode" => i_batch[s] = None /\ kv[s] = n_past[s]
             /\ i_batch[s] = None =>
                  IF state[s] = "PREFILL" THEN n_past[s] < n_prompt[s] ELSE kv[s] = n_past[s]
    <2>1. s \in Slots /\ state[s] # "IDLE" /\ TypeOK /\ Local(s)
        BY <1>1 DEF Inv, Busy, In
    <2>2. pc # "decode" => i_batch[s] = None /\ kv[s] = n_past[s]
        BY <1>1, <2>1, Resting
    <2>3. /\ state[s] \in {"PREFILL", "GENERATE"}
          /\ kv[s] \in Nat /\ n_past[s] \in Nat
        BY <2>1, SlotTypes
    <2>4. CASE state[s] = "PREFILL"
        BY <2>1, <2>2, <2>4 DEF Local
    <2>5. CASE state[s] = "GENERATE"
        BY <2>1, <2>2, <2>3, <2>5 DEF Local
    <2>. QED BY <2>2, <2>3, <2>4, <2>5
<1>2. Inv => SampledOnce
    BY <1>1 DEF SampledOnce
<1>. QED BY <1>2, Invariance, PTL

\* The batch holds its n_batch_ rows at most, each of them one slot's, a decode row for
\* every generating slot, and no more than --tick-tokens allows (build_batch;
\* onyx_batch_add does not check).
THEOREM BatchSound == Spec => []BatchWellFormed
<1>1. ASSUME Inv, pc = "decode"
      PROVE  /\ n_tokens <= NBatch /\ off < n_tokens
             /\ \A i \in 0 .. n_tokens - 1 : Cardinality({s \in Slots : i \in RowsOf(s)}) = 1
             /\ \A s \in Slots : RowsOf(s) \subseteq 0 .. n_tokens - 1
             /\ \A s \in Busy : i_batch[s] # None =>
                    rows[s].count > 0 /\ i_batch[s] = rows[s].first + rows[s].count - 1
             /\ off = 0 => \A s \in In("GENERATE") : rows[s].count = 1 /\ i_batch[s] # None
             /\ off = 0 /\ conf.tick > 0 => n_tokens <= MaxOf({conf.tick, NDecode + 1})
    <2>1. /\ n_tokens <= NBatch /\ off < n_tokens
          /\ Shared(rows, n_tokens)
          /\ off = 0 => /\ \A s \in In("GENERATE") : rows[s].count = 1 /\ i_batch[s] # None
                        /\ conf.tick > 0 => n_tokens <= MaxOf({conf.tick, NDecode + 1})
        BY <1>1 DEF Inv, Batch
    <2>2. TypeOK /\ n_tokens \in Nat
        BY <1>1 DEF Inv, TypeOK
    <2>3. \A s \in Slots, i \in Int : i \in RowsOf(s) <=> Owns(rows[s], i)
        <3>. TAKE s \in Slots, i \in Int
        <3>1. rows[s].first \in Nat /\ rows[s].count \in Nat
            BY <2>2, SlotTypes
        <3>. QED BY <3>1 DEF RowsOf, Owns
    <2>4. ASSUME NEW i \in 0 .. n_tokens - 1
          PROVE  Cardinality({s \in Slots : i \in RowsOf(s)}) = 1
        <3>1. i \in Int
            BY <2>2
        <3>2. PICK s \in Slots : Owns(rows[s], i)
            BY <2>1 DEF Shared
        <3>3. {t \in Slots : i \in RowsOf(t)} = {s}
            BY <2>1, <2>3, <3>1, <3>2 DEF Shared
        <3>. QED BY <3>3, FS_Singleton
    <2>5. ASSUME NEW s \in Slots PROVE RowsOf(s) \subseteq 0 .. n_tokens - 1
        <3>1. rows[s].first \in Nat /\ rows[s].count \in Nat
            BY <2>2, SlotTypes
        <3>2. rows[s].count > 0 => rows[s].first + rows[s].count <= n_tokens
            BY <2>1 DEF Shared
        <3>. QED BY <2>2, <3>1, <3>2 DEF RowsOf
    <2>6. ASSUME NEW s \in Busy, i_batch[s] # None
          PROVE  rows[s].count > 0 /\ i_batch[s] = rows[s].first + rows[s].count - 1
        BY <1>1, <2>6 DEF Inv, Local, Busy
    <2>. QED BY <2>1, <2>4, <2>5, <2>6
<1>2. Inv => BatchWellFormed
    BY <1>1 DEF BatchWellFormed
<1>. QED BY <1>2, Invariance, PTL

\* No tick starves the prompts: one that is built while a slot is prefilling carries a prompt
\* token, however many decode rows there are (build_batch).
THEOREM PromptsAdvance == Spec => PrefillProgress
<1>1. ASSUME Inv, pc = "admit", In("PREFILL") # {}, Build
      PROVE  \E s \in In("PREFILL") : rows'[s].count > 0
    <2>1. PICK s \in In("PREFILL") : BuiltRows[s].count > 0
        BY <1>1, PromptRows
    <2>2. rows' = BuiltRows
        BY <1>1 DEF Build
    <2>. QED BY <2>1, <2>2
<1>2. Inv /\ [Next]_vars =>
        [(pc = "admit" /\ In("PREFILL") # {} /\ Build) =>
            \E s \in In("PREFILL") : rows'[s].count > 0]_vars
    BY <1>1
<1>. QED BY <1>2, Invariance, PTL DEF Spec, PrefillProgress

\* n_tokens_max has seen the fill of every request that ends of its own or is cancelled,
\* if its context was never shifted (finish, collect in src/engine.cpp).
THEOREM FillSeen == Spec => FillCounted
<1>1. ASSUME Inv, Next, NEW s \in Busy, state'[s] = "IDLE", ~TickFails, ~truncated[s],
             pc = "decode" => Dropped(s) = 0
      PROVE  n_tokens_max' >= kv[s] + IF pc = "decode" THEN RowsIn(s, ViewSize) ELSE 0
    <2>0. s \in Slots /\ state[s] # "IDLE" /\ TypeOK
        BY <1>1 DEF Inv, Busy, In
    <2>1. CASE Cancel
        <3>1. pc = "cancel"
            BY <2>1 DEF Cancel
        <3>2. PICK S \in SUBSET Busy : Finish(S, state, quota, n_past, truncated)
            BY <2>1 DEF Cancel
        <3>3. S \in SUBSET Slots /\ \A t \in S : n_past[t] \in 0 .. NCtx
            BY <1>1, Fits DEF Busy
        <3>4. /\ \A t \in S : n_past[t] <= n_tokens_max'
              /\ \A t \in Slots : state'[t] = IF t \in S THEN "IDLE" ELSE state[t]
              /\ n_tokens_max' \in 0 .. NCtx
            <4>1. /\ state \in [Slots -> {"IDLE", "PREFILL", "GENERATE"}]
                  /\ quota \in [Slots -> Nat \cup {-1}]
                  /\ truncated \in [Slots -> BOOLEAN]
                BY <2>0 DEF TypeOK
            <4>2. S \in SUBSET Slots /\ \A t \in S : n_past[t] \in 0 .. NCtx
                BY <3>3
            <4>3. TypeOK
                BY <2>0
            <4>4. /\ n_tokens_max' \in 0 .. NCtx
                  /\ \A t \in S : n_past[t] <= n_tokens_max'
                  /\ \A t \in Slots : /\ state'[t] = IF t \in S THEN "IDLE" ELSE state[t]
                                      /\ n_prompt'[t] = IF t \in S THEN 0 ELSE n_prompt[t]
                <5>. HIDE DEF TypeOK
                <5>. QED BY <3>2, <4>1, <4>2, <4>3, Finishing, Zenon
            <4>. QED BY <4>4, Zenon
        <3>5. n_past[s] <= n_tokens_max'
            BY <1>1, <2>0, <3>4
        <3>6. kv[s] = n_past[s] /\ kv[s] \in Nat
            BY <1>1, <2>0, <3>1, Resting, SlotTypes
        <3>. QED BY <3>1, <3>4, <3>5, <3>6
    <2>2. CASE DecodeView
        <3>0. pc = "decode"
            BY <2>2 DEF DecodeView
        <3>1. PICK S, over \in SUBSET Slots : Sampling(S, over)
            BY <1>1, <2>2, Sampled
        <3>2. s \in over
            BY <1>1, <2>0, <3>1 DEF Sampling
        <3>3. n_past[s] - Dropped(s) <= n_tokens_max' /\ n_tokens_max' \in 0 .. NCtx
            BY <3>1, <3>2 DEF Sampling
        <3>4. Hit(s, ViewSize)
            BY <3>1, <3>2 DEF Sampling
        <3>5. /\ kv[s] + RowsIn(s, ViewSize) + Left(rows[s], off + ViewSize) = n_past[s]
              /\ Left(rows[s], off + ViewSize) = 0
            BY <1>1, <2>0, <3>0, <3>4, Decoding
        <3>6. n_past[s] \in Nat /\ kv[s] \in Nat /\ RowsIn(s, ViewSize) \in Int
            <4>1. ViewSize \in Nat
                BY <1>1, <3>0, Viewing
            <4>2. RowsIn(s, ViewSize) = Left(rows[s], off) - Left(rows[s], off + ViewSize)
                BY <2>0, <4>1, InView
            <4>. QED BY <2>0, <3>5, <4>2, SlotTypes
        <3>. QED BY <1>1, <3>0, <3>3, <3>5, <3>6
    <2>3. ASSUME state' = state PROVE FALSE
        BY <1>1, <2>0, <2>3
    <2>4. CASE Build \/ RetrySmaller
        BY <2>3, <2>4 DEF Build, RetrySmaller, slotvars
    <2>5. ASSUME NEW t \in Slots, Admit(t) PROVE FALSE
        <3>1. state[t] = "IDLE" /\ state' = [state EXCEPT ![t] = "PREFILL"]
            BY <2>5 DEF Admit
        <3>. QED BY <1>1, <2>0, <3>1 DEF TypeOK
    <2>6. ASSUME NEW t \in Slots, AdmitMedia(t) PROVE FALSE
        <3>1. state[t] = "IDLE"
              /\ (state' = [state EXCEPT ![t] = "GENERATE"] \/ UNCHANGED slotvars)
            BY <2>6 DEF AdmitMedia
        <3>2. CASE state' = [state EXCEPT ![t] = "GENERATE"]
            BY <1>1, <2>0, <3>1, <3>2 DEF TypeOK
        <3>3. CASE UNCHANGED slotvars
            BY <2>3, <3>3 DEF slotvars
        <3>. QED BY <3>1, <3>2, <3>3
    <2>. QED BY <1>1, <2>1, <2>2, <2>4, <2>5, <2>6 DEF Next
<1>2. Inv /\ [Next]_vars =>
        [\A s \in Busy :
            /\ state'[s] = "IDLE" /\ ~TickFails
            /\ ~truncated[s] /\ (pc = "decode" => Dropped(s) = 0)
            => n_tokens_max' >= kv[s] + IF pc = "decode" THEN RowsIn(s, ViewSize) ELSE 0]_vars
    BY <1>1
<1>. QED BY <1>2, Invariance, PTL DEF Spec, FillCounted
=============================================================================
