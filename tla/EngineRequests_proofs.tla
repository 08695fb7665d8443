----------------------- MODULE EngineRequests_proofs -----------------------
(***************************************************************************)
(* Proofs about EngineRequests, for every number of requests, slots and    *)
(* queue places.                                                           *)
(***************************************************************************)
EXTENDS EngineRequests, FiniteSetTheorems, SequenceTheorems, TLAPS

-----------------------------------------------------------------------------
(* What queue operations do to the elements of a queue.                    *)

\* Joining at the end adds the newcomer and keeps a queue without repetitions so.
LEMMA AppendElements ==
    ASSUME NEW S, NEW q \in Seq(S), NEW e \in S
    PROVE  /\ Append(q, e) \in Seq(S)
           /\ \A x : Among(x, Append(q, e)) <=> Among(x, q) \/ x = e
           /\ Distinct(q) /\ ~Among(e, q) => Distinct(Append(q, e))
<1>1. /\ Append(q, e) \in Seq(S)
      /\ Len(Append(q, e)) = Len(q) + 1
      /\ \A i \in 1 .. Len(q) : Append(q, e)[i] = q[i]
      /\ Append(q, e)[Len(q) + 1] = e
  BY AppendProperties
<1>2. /\ Len(q) \in Nat
      /\ DOMAIN q = 1 .. Len(q)
      /\ DOMAIN Append(q, e) = 1 .. Len(q) + 1
  BY <1>1, LenProperties
<1>3. \A x : Among(x, Append(q, e)) <=> Among(x, q) \/ x = e
  BY <1>1, <1>2 DEF Among
<1>4. Distinct(q) /\ ~Among(e, q) => Distinct(Append(q, e))
  BY <1>1, <1>2 DEF Among, Distinct
<1> QED  BY <1>1, <1>3, <1>4

\* Taking the head off a queue without repetitions removes it and nothing else.
LEMMA TailElements ==
    ASSUME NEW S, NEW q \in Seq(S), q # <<>>
    PROVE  /\ Head(q) \in S /\ Tail(q) \in Seq(S)
           /\ Among(Head(q), q)
           /\ \A x : Among(x, q) <=> Among(x, Tail(q)) \/ x = Head(q)
           /\ Distinct(q) => Distinct(Tail(q)) /\ ~Among(Head(q), Tail(q))
           /\ Len(q) = 1 <=> Tail(q) = <<>>
<1>1. /\ Head(q) \in S /\ Tail(q) \in Seq(S)
      /\ Len(Tail(q)) = Len(q) - 1
      /\ \A i \in 1 .. Len(Tail(q)) : Tail(q)[i] = q[i + 1]
  BY HeadTailProperties
<1>2. /\ Len(q) \in Nat \ {0}
      /\ DOMAIN q = 1 .. Len(q)
      /\ DOMAIN Tail(q) = 1 .. Len(q) - 1
      /\ Head(q) = q[1]
  BY <1>1, LenProperties, EmptySeq
<1>3. Among(Head(q), q)
  BY <1>2 DEF Among
<1>4. ASSUME NEW x  PROVE Among(x, q) <=> Among(x, Tail(q)) \/ x = Head(q)
  <2>1. ASSUME NEW i \in DOMAIN q, q[i] = x, x # Head(q)  PROVE Among(x, Tail(q))
    <3>1. i - 1 \in DOMAIN Tail(q) /\ Tail(q)[i - 1] = q[i]
      BY <1>1, <1>2, <2>1
    <3> QED  BY <3>1, <2>1 DEF Among
  <2>2. ASSUME NEW i \in DOMAIN Tail(q), Tail(q)[i] = x  PROVE Among(x, q)
    BY <1>1, <1>2, <2>2 DEF Among
  <2> QED  BY <2>1, <2>2, <1>3 DEF Among
<1>5. Distinct(q) => Distinct(Tail(q)) /\ ~Among(Head(q), Tail(q))
  BY SMTT(20), <1>1, <1>2 DEF Among, Distinct
<1>6. Len(q) = 1 <=> Tail(q) = <<>>
  BY SMTT(20), <1>1, <1>2, EmptySeq
<1> QED  BY <1>1, <1>3, <1>4, <1>5, <1>6

\* Erasing one place of a queue without repetitions removes its element only.
LEMMA CutElements ==
    ASSUME NEW S, NEW q \in Seq(S), NEW i \in DOMAIN q
    PROVE  /\ Cut(q, i) \in Seq(S)
           /\ \A x : Among(x, q) <=> Among(x, Cut(q, i)) \/ x = q[i]
           /\ Distinct(q) => Distinct(Cut(q, i)) /\ ~Among(q[i], Cut(q, i))
<1> DEFINE l == SubSeq(q, 1, i - 1)
           r == SubSeq(q, i + 1, Len(q))
<1>1. Len(q) \in Nat /\ DOMAIN q = 1 .. Len(q) /\ i \in 1 .. Len(q)
  BY LenProperties
<1>2. \A j \in 1 .. Len(q) : q[j] \in S
  BY ElementOfSeq
<1>3. /\ l \in Seq(S) /\ Len(l) = i - 1
      /\ \A j \in 1 .. i - 1 : l[j] = q[j]
  <2>1. \A j \in 1 .. i - 1 : q[j] \in S
    BY <1>1, <1>2
  <2>2. /\ SubSeq(q, 1, i - 1) \in Seq(S)
        /\ Len(SubSeq(q, 1, i - 1)) = IF 1 <= i - 1 THEN i - 1 - 1 + 1 ELSE 0
        /\ \A j \in 1 .. i - 1 - 1 + 1 : SubSeq(q, 1, i - 1)[j] = q[1 + j - 1]
    BY <1>1, <2>1, SubSeqProperties
  <2> QED  BY <1>1, <2>2
<1>4. /\ r \in Seq(S) /\ Len(r) = Len(q) - i
      /\ \A j \in 1 .. Len(q) - i : r[j] = q[i + j]
  <2>1. \A j \in i + 1 .. Len(q) : q[j] \in S
    BY <1>1, <1>2
  <2>2. /\ SubSeq(q, i + 1, Len(q)) \in Seq(S)
        /\ Len(SubSeq(q, i + 1, Len(q))) = IF i + 1 <= Len(q) THEN Len(q) - (i + 1) + 1 ELSE 0
        /\ \A j \in 1 .. Len(q) - (i + 1) + 1 : SubSeq(q, i + 1, Len(q))[j] = q[i + 1 + j - 1]
    BY <1>1, <2>1, SubSeqProperties
  <2> QED  BY SMTT(20), <1>1, <2>2
<1> HIDE DEF l, r
<1>5. Cut(q, i) = l \o r
  BY DEF Cut, l, r
<1>6. /\ Cut(q, i) \in Seq(S)
      /\ DOMAIN Cut(q, i) = 1 .. Len(q) - 1
      /\ \A j \in 1 .. Len(q) - 1 : Cut(q, i)[j] = IF j < i THEN q[j] ELSE q[j + 1]
  <2>1. /\ l \o r \in Seq(S)
        /\ Len(l \o r) = Len(l) + Len(r)
        /\ \A j \in 1 .. Len(l) + Len(r) : (l \o r)[j] = IF j <= Len(l) THEN l[j] ELSE r[j - Len(l)]
    BY <1>3, <1>4, ConcatProperties
  <2>2. DOMAIN (l \o r) = 1 .. Len(l \o r)
    BY <2>1, LenProperties
  <2>3. Len(l) + Len(r) = Len(q) - 1
    BY <1>1, <1>3, <1>4
  <2>4. ASSUME NEW j \in 1 .. Len(q) - 1
        PROVE  (l \o r)[j] = IF j < i THEN q[j] ELSE q[j + 1]
    <3>1. (l \o r)[j] = IF j <= Len(l) THEN l[j] ELSE r[j - Len(l)]
      BY <2>1, <2>3
    <3>2. CASE j < i
      <4>1. j <= Len(l) /\ l[j] = q[j]
        BY <1>1, <1>3, <3>2
      <4> QED  BY <3>1, <3>2, <4>1
    <3>3. CASE j >= i
      <4>1. j - (i - 1) \in 1 .. Len(q) - i /\ i + (j - (i - 1)) = j + 1
        BY <1>1, <3>3
      <4>2. r[j - (i - 1)] = q[j + 1]
        BY <1>4, <4>1
      <4>3. ~(j <= Len(l)) /\ j - Len(l) = j - (i - 1) /\ ~(j < i)
        BY <1>1, <1>3, <3>3
      <4>4. (l \o r)[j] = r[j - Len(l)]
        BY <3>1, <4>3
      <4>5. (l \o r)[j] = r[j - (i - 1)]
        BY <4>3, <4>4, Zenon
      <4>6. (l \o r)[j] = q[j + 1]
        BY <4>2, <4>5, Zenon
      <4> QED  BY <4>3, <4>6, Zenon
    <3>4. j < i \/ j >= i
      BY <1>1
    <3> QED  BY <3>2, <3>3, <3>4, Zenon
  <2> QED  BY <1>5, <2>1, <2>2, <2>3, <2>4
<1>7. ASSUME NEW x  PROVE Among(x, q) <=> Among(x, Cut(q, i)) \/ x = q[i]
  <2>1. ASSUME NEW j \in DOMAIN q, q[j] = x, x # q[i]  PROVE Among(x, Cut(q, i))
    <3>1. CASE j < i
      <4>1. j \in 1 .. Len(q) - 1 /\ Cut(q, i)[j] = x
        BY <1>1, <1>6, <2>1, <3>1
      <4> QED  BY <4>1, <1>6 DEF Among
    <3>2. CASE j > i
      <4>1. j - 1 \in 1 .. Len(q) - 1 /\ Cut(q, i)[j - 1] = x
        BY <1>1, <1>6, <2>1, <3>2
      <4> QED  BY <4>1, <1>6 DEF Among
    <3> QED  BY <1>1, <2>1, <3>1, <3>2
  <2>2. ASSUME NEW j \in DOMAIN Cut(q, i), Cut(q, i)[j] = x  PROVE Among(x, q)
    BY <1>1, <1>6, <2>2 DEF Among
  <2> QED  BY <2>1, <2>2 DEF Among
<1>8. Distinct(q) => Distinct(Cut(q, i)) /\ ~Among(q[i], Cut(q, i))
  <2> SUFFICES ASSUME Distinct(q)  PROVE Distinct(Cut(q, i)) /\ ~Among(q[i], Cut(q, i))
    OBVIOUS
  <2> DEFINE pos(j) == IF j < i THEN j ELSE j + 1
  <2>1. \A j \in 1 .. Len(q) - 1 :
          pos(j) \in DOMAIN q /\ pos(j) # i /\ Cut(q, i)[j] = q[pos(j)]
    BY <1>1, <1>6
  <2>2. \A j, k \in 1 .. Len(q) - 1 : pos(j) = pos(k) => j = k
    BY <1>1
  <2> HIDE DEF pos
  <2>3. ASSUME NEW j \in DOMAIN Cut(q, i), NEW k \in DOMAIN Cut(q, i), Cut(q, i)[j] = Cut(q, i)[k]
        PROVE  j = k
    <3>1. q[pos(j)] = q[pos(k)] /\ pos(j) \in DOMAIN q /\ pos(k) \in DOMAIN q
      BY <1>6, <2>1, <2>3
    <3>2. pos(j) = pos(k)
      BY <3>1 DEF Distinct
    <3> QED  BY <1>6, <2>2, <3>2
  <2>4. ~Among(q[i], Cut(q, i))
    BY <1>6, <2>1 DEF Distinct, Among
  <2> QED  BY <2>3, <2>4 DEF Distinct
<1> QED  BY <1>6, <1>7, <1>8

\* Nothing is in an empty queue.
LEMMA EmptyElements == Distinct(<<>>) /\ \A x : ~Among(x, <<>>)
BY DEF Distinct, Among
-----------------------------------------------------------------------------
(* The inductive invariant.                                                *)

\* Where loop() stands, or will stand once the flag it is about to set is set.
Stage == IF pc = "publish" THEN ret ELSE pc

\* The stages that visit slots one by one.
Passes == {"cancel", "media", "sample", "fail", "drain_slots"}

\* The gauge behind /metrics is the number of busy slots (so it never goes below 0).
Gauge == metrics.processing = Cardinality(Busy)

\* What each stage of loop() can rely on.
Control ==
    /\ pc = "publish" <=> pub # NoRequest
    /\ pc = "publish" => ret \notin {"publish", "check", "erase", "settle", "settle_pending"}
    /\ IF Stage \in Passes THEN todo # {} /\ todo \subseteq Busy ELSE todo = {}
    /\ Stage \in {"fail", "drain_slots"} => todo = Busy
    /\ Stage \in {"drain_slots", "drain_queue", "settle_pending", "exited"} => stop
    /\ Stage \in {"drain_queue", "settle_pending", "exited"} => Busy = {}
    /\ Stage \in {"settle_pending", "exited"} => queue = <<>>
    /\ pc \in {"check", "erase"} \/ scan = <<>>
    /\ pc = "erase" => scan # <<>>
    /\ pc \in {"check", "erase", "settle", "settle_pending"} \/ gone = <<>>
    /\ pc \in {"settle", "settle_pending"} => gone # <<>>

\* What the sweep has copied and dropped, and what is left in the queue of it.
Sweeping ==
    /\ Distinct(scan) /\ Distinct(gone)
    /\ pc = "check" => \A r \in Requests :
         /\ Among(r, scan) => InQueue(r) /\ ~Among(r, gone)
         /\ Among(r, gone) => InQueue(r)
    /\ pc = "erase" => \A r \in Requests :
         /\ Among(r, scan) => Among(r, gone)
         /\ Among(r, gone) => (InQueue(r) <=> Among(r, scan))
    /\ pc \in {"settle", "settle_pending"} =>
         \A r \in Requests : Among(r, gone) => ~InQueue(r)

\* The engine only knows requests that were submitted.
Submitted ==
    \A r \in Requests :
        InQueue(r) \/ Among(r, gone) \/ pub = r \/ finished[r] \/ (\E s \in Slots : slot[s] = r)
            => caller[r] # "new"

Inv == TypeOK /\ Gauge /\ Control /\ Exclusive /\ Sweeping /\ Submitted /\ NotLost

USE RequestsAssumption

LEMMA InitInv == Init => Inv
<1> SUFFICES ASSUME Init  PROVE Inv
  OBVIOUS
<1>1. TypeOK
  <2>1. <<>> \in Seq(Requests) /\ <<>> \in Seq(Nat)
    BY EmptySeq
  <2>2. queue \in Seq(Requests) /\ scan \in Seq(Requests) /\ gone \in Seq(Requests)
    BY <2>1 DEF Init
  <2>3. pieces \in [Requests -> Seq(Nat)] /\ delivered \in [Requests -> Seq(Nat)]
    BY <2>1 DEF Init
  <2>4. metrics \in [processing : Nat, rejected : Nat, timed_out : Nat]
    BY DEF Init
  <2>5. need \in [Slots -> 0 .. MaxChunks] /\ sampled \in [Requests -> 0 .. MaxTokens]
    BY DEF Init
  <2> QED  BY <2>2, <2>3, <2>4, <2>5 DEF Init, TypeOK, Outcomes, Callers, PCs
<1>2. Busy = {}
  BY DEF Init, Busy
<1>3. Gauge
  BY <1>2, FS_EmptySet DEF Init, Gauge
<1>4. Control
  BY DEF Init, Control, Stage, Passes
<1>5. Exclusive /\ Sweeping
  BY <1>2, EmptyElements DEF Init, Exclusive, Sweeping, InQueue, Slots
<1>6. Submitted /\ NotLost
  BY EmptyElements DEF Init, Submitted, NotLost, InQueue, Accepted, Slots
<1> QED  BY <1>1, <1>3, <1>4, <1>5, <1>6 DEF Inv

-----------------------------------------------------------------------------
(* The HTTP threads keep it.                                               *)

\* Refused at once: only the call itself moves.
LEMMA RefuseStep == ASSUME Inv, NEW r \in Requests, Refuse(r)  PROVE Inv'
<1> USE DEF Inv, Refuse, engine
<1>1. TypeOK'
  BY DEF TypeOK, Outcomes, Callers
<1>2. Gauge' /\ Control'
  BY DEF Gauge, Control, Stage, Busy, Passes
<1>3. Exclusive' /\ Sweeping' /\ Submitted'
  BY DEF TypeOK, Exclusive, Sweeping, Submitted, InQueue, Busy
<1>4. NotLost'
  BY DEF TypeOK, NotLost, InQueue, Accepted
<1> QED  BY <1>1, <1>2, <1>3, <1>4

\* Counters stay counters.
LEMMA CounterTypes ==
    ASSUME NEW m \in [processing : Nat, rejected : Nat, timed_out : Nat], NEW n \in Nat
    PROVE  /\ [m EXCEPT !.rejected = @ + 1] \in [processing : Nat, rejected : Nat, timed_out : Nat]
           /\ [m EXCEPT !.timed_out = @ + 1] \in [processing : Nat, rejected : Nat, timed_out : Nat]
           /\ [m EXCEPT !.timed_out = @] = m
           /\ [m EXCEPT !.processing = n] \in [processing : Nat, rejected : Nat, timed_out : Nat]
           /\ [m EXCEPT !.processing = n].processing = n
<1>1. m.processing \in Nat /\ m.rejected \in Nat /\ m.timed_out \in Nat
  OBVIOUS
<1>2. [m EXCEPT !.rejected = @ + 1] \in [processing : Nat, rejected : Nat, timed_out : Nat]
  BY <1>1
<1>3. [m EXCEPT !.timed_out = @ + 1] \in [processing : Nat, rejected : Nat, timed_out : Nat]
  BY <1>1
<1>4. [m EXCEPT !.timed_out = @] = m
  OBVIOUS
<1>5. [m EXCEPT !.processing = n] \in [processing : Nat, rejected : Nat, timed_out : Nat]
  OBVIOUS
<1>6. [m EXCEPT !.processing = n].processing = n
  OBVIOUS
<1> QED  BY <1>2, <1>3, <1>4, <1>5, <1>6

LEMMA RejectStep == ASSUME Inv, NEW r \in Requests, Reject(r)  PROVE Inv'
<1> USE DEF Inv, Reject, engine
<1>1. TypeOK'
  <2>1. metrics' \in [processing : Nat, rejected : Nat, timed_out : Nat]
    BY CounterTypes DEF TypeOK
  <2> QED  BY <2>1 DEF TypeOK, Outcomes, Callers
<1>2. Gauge' /\ Control'
  BY DEF TypeOK, Gauge, Control, Stage, Busy, Passes
<1>3. Exclusive' /\ Sweeping' /\ Submitted'
  BY DEF TypeOK, Exclusive, Sweeping, Submitted, InQueue, Busy
<1>4. NotLost'
  BY DEF TypeOK, NotLost, InQueue, Accepted
<1> QED  BY <1>1, <1>2, <1>3, <1>4

\* A newcomer is nowhere in the engine, so it joins without being there twice.
LEMMA EnqueueStep == ASSUME Inv, NEW r \in Requests, Enqueue(r)  PROVE Inv'
<1> USE DEF Inv, Enqueue, engine
<1>1. /\ queue' \in Seq(Requests)
      /\ \A x : Among(x, queue') <=> Among(x, queue) \/ x = r
      /\ Distinct(queue) /\ ~Among(r, queue) => Distinct(queue')
  BY AppendElements DEF TypeOK, Joined
<1>2. /\ ~InQueue(r) /\ ~Among(r, gone) /\ pub # r /\ ~finished[r]
      /\ \A s \in Slots : slot[s] # r
  BY DEF Submitted
<1>3. TypeOK'
  BY <1>1 DEF TypeOK, Callers
<1>4. Gauge'
  BY DEF Gauge, Busy
<1>5. Control'
  BY DEF Control, Stage, Busy, Passes
<1>6. Exclusive'
  BY SMTT(20), <1>1, <1>2 DEF TypeOK, Exclusive, InQueue, Busy
<1>7. Sweeping'
  BY <1>1, <1>2 DEF TypeOK, Sweeping, InQueue, QueueUnlocked
<1>8. Submitted'
  BY <1>1, <1>2 DEF TypeOK, Submitted, InQueue
<1>9. NotLost'
  BY <1>1, <1>2 DEF TypeOK, NotLost, InQueue, Accepted
<1> QED  BY <1>3, <1>4, <1>5, <1>6, <1>7, <1>8, <1>9

\* A step of the call changes its own pieces and where it stands, never the engine.
LEMMA TakeStep ==
    ASSUME Inv, NEW r \in Requests, caller[r] \in {"wait", "callback"}, Take(r),
           cancelled' \in [Requests -> BOOLEAN],
           UNCHANGED <<queue, stop, finished, outcome, engine, metrics>>
    PROVE  Inv'
<1> USE DEF Inv, engine
<1>1. pieces' \in [Requests -> Seq(Nat)] /\ delivered' \in [Requests -> Seq(Nat)]
  <2>1. CASE pieces[r] # <<>>
    <3>1. Head(pieces[r]) \in Nat /\ Tail(pieces[r]) \in Seq(Nat)
      BY <2>1, HeadTailProperties DEF TypeOK
    <3>2. Append(delivered[r], Head(pieces[r])) \in Seq(Nat)
      BY <3>1, AppendProperties DEF TypeOK
    <3>3. /\ pieces' = [pieces EXCEPT ![r] = Tail(pieces[r])]
          /\ delivered' = [delivered EXCEPT ![r] = Append(delivered[r], Head(pieces[r]))]
      BY <2>1 DEF Take
    <3>4. pieces \in [Requests -> Seq(Nat)] /\ delivered \in [Requests -> Seq(Nat)]
      BY DEF TypeOK
    <3> HIDE DEF Inv, engine
    <3> QED  BY <3>1, <3>2, <3>3, <3>4
  <2>2. CASE pieces[r] = <<>>
    BY <2>2 DEF TypeOK, Take
  <2> QED  BY <2>1, <2>2
<1>2. /\ caller' \in [Requests -> Callers]
      /\ \A x \in Requests : caller'[x] = "new" <=> caller[x] = "new"
  <2>1. PICK to \in {"callback", "returned", "wait"} : caller' = [caller EXCEPT ![r] = to]
    BY DEF Take
  <2>2. caller \in [Requests -> Callers]
    BY DEF TypeOK
  <2> HIDE DEF Inv, engine
  <2> QED  BY <2>1, <2>2 DEF Callers
<1>3. TypeOK'
  BY <1>1, <1>2 DEF TypeOK
<1>4. Gauge' /\ Control'
  BY DEF Gauge, Control, Stage, Busy, Passes
<1>5. Exclusive' /\ Sweeping' /\ Submitted'
  BY <1>2 DEF TypeOK, Exclusive, Sweeping, Submitted, InQueue, Busy
<1>6. NotLost'
  BY <1>2 DEF TypeOK, NotLost, InQueue, Accepted
<1> QED  BY <1>3, <1>4, <1>5, <1>6

LEMMA WakeStep == ASSUME Inv, NEW r \in Requests, Wake(r)  PROVE Inv'
BY TakeStep DEF Wake, Inv, TypeOK

LEMMA CallbackReturnsStep == ASSUME Inv, NEW r \in Requests, CallbackReturns(r)  PROVE Inv'
<1>1. cancelled' \in [Requests -> BOOLEAN]
  BY DEF CallbackReturns, Inv, TypeOK
<1> QED  BY <1>1, TakeStep DEF CallbackReturns

LEMMA HeartbeatStep == ASSUME Inv, NEW r \in Requests, Heartbeat(r)  PROVE Inv'
<1> USE DEF Inv, Heartbeat, engine, shared
<1>1. TypeOK'
  BY DEF TypeOK, Callers
<1>2. Gauge' /\ Control'
  BY DEF Gauge, Control, Stage, Busy, Passes
<1>3. Exclusive' /\ Sweeping' /\ Submitted'
  BY DEF TypeOK, Exclusive, Sweeping, Submitted, InQueue, Busy
<1>4. NotLost'
  BY DEF TypeOK, NotLost, InQueue, Accepted
<1> QED  BY <1>1, <1>2, <1>3, <1>4

LEMMA ShutdownStep == ASSUME Inv, Shutdown  PROVE Inv'
<1> USE DEF Inv, Shutdown, engine, http
<1>1. TypeOK'
  BY DEF TypeOK
<1>2. Gauge' /\ Control'
  BY DEF Gauge, Control, Stage, Busy, Passes
<1>3. Exclusive' /\ Sweeping' /\ Submitted'
  BY DEF Exclusive, Sweeping, Submitted, InQueue, Busy
<1>4. NotLost'
  BY DEF NotLost, InQueue, Accepted
<1> QED  BY <1>1, <1>2, <1>3, <1>4

LEMMA StutterStep == ASSUME Inv, UNCHANGED vars  PROVE Inv'
<1> USE DEF Inv, vars, engine, http, shared
<1>1. TypeOK'
  BY DEF TypeOK
<1>2. Gauge' /\ Control'
  BY DEF Gauge, Control, Stage, Busy, Passes
<1>3. Exclusive' /\ Sweeping' /\ Submitted'
  BY DEF Exclusive, Sweeping, Submitted, InQueue, Busy
<1>4. NotLost'
  BY DEF NotLost, InQueue, Accepted
<1> QED  BY <1>1, <1>2, <1>3, <1>4

-----------------------------------------------------------------------------
(* The engine thread keeps it.                                             *)

\* A stage that only moves on: nothing the HTTP threads see changes.
LEMMA TickStep == ASSUME Inv, Tick  PROVE Inv'
<1> USE DEF Inv, Tick, shared, http, sweep
<1>1. Busy \subseteq Slots /\ Busy' = Busy
  BY DEF Busy
<1>2. pc' = IF Busy # {} THEN IF stop THEN "drain_slots" ELSE "cancel"
            ELSE IF stop THEN "drain_queue" ELSE "sweep"
  BY DEF Onward
<1>3. TypeOK'
  BY <1>1, <1>2 DEF TypeOK, PCs
<1>4. Gauge' /\ Control'
  BY <1>1, <1>2 DEF TypeOK, Gauge, Control, Stage, Passes
<1>5. Exclusive' /\ Sweeping' /\ Submitted'
  BY <1>1, <1>2 DEF Exclusive, Sweeping, Submitted, InQueue
<1>6. NotLost'
  BY DEF NotLost, InQueue, Accepted
<1> QED  BY <1>3, <1>4, <1>5, <1>6

\* A pass that has visited s: the slots left, and where the loop stands then.
LEMMA VisitLeaves ==
    ASSUME Inv, NEW s \in Slots, pc \in Passes, Visit(s)
    PROVE  /\ s \in Busy /\ slot[s] \in Requests
           /\ todo' = todo \ {s} /\ todo' \subseteq Busy \ {s}
           /\ pc \in {"fail", "drain_slots"} => todo' = Busy \ {s}
           /\ todo' # {} => Onward(pc, todo') = pc
           /\ todo' = {} => Onward(pc, todo') =
                CASE pc = "cancel" -> "sweep"
                  [] pc = "media" -> "admit"
                  [] pc \in {"sample", "fail"} -> "wait"
                  [] pc = "drain_slots" -> "drain_queue"
           /\ Onward(pc, todo') \in PCs \ {"publish", "check", "erase", "settle", "settle_pending", "exited"}
<1>1. Stage = pc /\ todo \subseteq Busy /\ s \in todo /\ todo' = todo \ {s}
  BY DEF Inv, Control, Stage, Passes, Visit, Lowest
<1>2. slot[s] \in Requests
  BY <1>1 DEF Inv, TypeOK, Busy
<1>3. pc \in {"fail", "drain_slots"} => todo = Busy
  BY <1>1 DEF Inv, Control
<1>4. Onward(pc, todo') \in PCs \ {"publish", "check", "erase", "settle", "settle_pending", "exited"}
  BY DEF Onward, Passes, PCs
<1> QED  BY <1>1, <1>2, <1>3, <1>4 DEF Onward

\* Pushing a piece, or none, keeps the types.
LEMMA PushTypes ==
    ASSUME TypeOK, NEW r \in Requests, NEW some \in BOOLEAN, Push(r, some)
    PROVE  pieces' \in [Requests -> Seq(Nat)] /\ emitted' \in [Requests -> Nat]
<1>1. pieces \in [Requests -> Seq(Nat)] /\ emitted \in [Requests -> Nat]
  BY DEF TypeOK
<1>2. emitted[r] + 1 \in Nat /\ Append(pieces[r], emitted[r] + 1) \in Seq(Nat)
  BY <1>1, AppendProperties
<1>3. CASE some
  <2>1. /\ pieces' = [pieces EXCEPT ![r] = Append(pieces[r], emitted[r] + 1)]
        /\ emitted' = [emitted EXCEPT ![r] = emitted[r] + 1]
    BY <1>3 DEF Push
  <2> QED  BY <1>1, <1>2, <2>1
<1>4. CASE ~some
  BY <1>1, <1>4 DEF Push
<1> QED  BY <1>3, <1>4

\* finish() frees a busy slot, lowers the gauge and leaves its request to be told.
LEMMA FinishStep ==
    ASSUME Inv, NEW s \in Slots, pc \in Passes, Visit(s),
           NEW kind \in {"ok", "error", "cancel", "shutdown"}, Finish(s, kind)
    PROVE  Inv'
<1> USE DEF Inv, http, sweep
<1> DEFINE r == slot[s]
<1>1. /\ s \in Busy /\ r \in Requests
      /\ todo' \subseteq Busy \ {s}
      /\ pc \in {"fail", "drain_slots"} => todo' = Busy \ {s}
      /\ ret' = Onward(pc, todo')
      /\ ret' \in PCs \ {"publish", "check", "erase", "settle", "settle_pending", "exited"}
      /\ todo' # {} => ret' = pc
      /\ todo' = {} => ret' = CASE pc = "cancel" -> "sweep"
                  [] pc = "media" -> "admit"
                  [] pc \in {"sample", "fail"} -> "wait"
                  [] pc = "drain_slots" -> "drain_queue"
  BY VisitLeaves DEF Finish
<1>2. /\ slot' = [slot EXCEPT ![s] = NoRequest] /\ slot' \in [Slots -> Requests \cup {NoRequest}]
      /\ pc' = "publish" /\ pub' = r
      /\ outcome' = [outcome EXCEPT ![r] = kind]
      /\ metrics' = [metrics EXCEPT !.processing = @ - 1]
  BY DEF Finish, TypeOK
<1>3. Busy' = Busy \ {s} /\ Busy \subseteq Slots
  BY <1>2 DEF Busy, TypeOK
<1>4. /\ IsFiniteSet(Busy)
      /\ Cardinality(Busy) \in Nat \ {0}
      /\ Cardinality(Busy') = Cardinality(Busy) - 1
  <2>1. IsFiniteSet(Busy)
    <3>1. IsFiniteSet(Slots)
      BY FS_Interval DEF Slots
    <3> QED  BY <1>3, <3>1, FS_Subset
  <2> QED  BY <1>1, <1>3, <2>1, FS_CardinalityType, FS_EmptySet, FS_RemoveElement
<1>5. metrics' \in [processing : Nat, rejected : Nat, timed_out : Nat] /\ Gauge'
  <2>1. metrics' = [metrics EXCEPT !.processing = Cardinality(Busy')]
    BY <1>2, <1>4 DEF Gauge
  <2>2. metrics \in [processing : Nat, rejected : Nat, timed_out : Nat]
    BY DEF TypeOK
  <2> QED  BY <1>4, <2>1, <2>2, CounterTypes DEF Gauge
<1>6. TypeOK'
  <2>1. pieces' \in [Requests -> Seq(Nat)] /\ emitted' \in [Requests -> Nat]
    BY <1>1, PushTypes DEF Finish, Flushes
  <2>2. need' \in [Slots -> 0 .. MaxChunks]
    BY DEF Finish, TypeOK
  <2>3. outcome' \in [Requests -> Outcomes]
    BY <1>2 DEF TypeOK, Outcomes
  <2>4. todo' \in SUBSET Slots /\ pub' \in Requests \cup {NoRequest} /\ pc' \in PCs /\ ret' \in PCs
    BY <1>1, <1>2, <1>3 DEF PCs
  <2> QED  BY <1>2, <1>5, <2>1, <2>2, <2>3, <2>4 DEF Finish, TypeOK
<1>7. Control'
  <2>1. pub' # NoRequest
    BY <1>1, <1>2
  <2>2. Stage' = ret'
    BY <1>2 DEF Stage
  <2>3. IF ret' \in Passes THEN todo' # {} /\ todo' \subseteq Busy' ELSE todo' = {}
    BY <1>1, <1>3 DEF Passes
  <2>4. ret' \in {"fail", "drain_slots"} => todo' = Busy'
    BY <1>1, <1>3 DEF Passes
  <2>5. /\ ret' \in {"drain_slots", "drain_queue", "settle_pending", "exited"} => stop'
        /\ ret' \in {"drain_queue", "settle_pending", "exited"} => Busy' = {}
        /\ ret' \notin {"settle_pending", "exited"}
    BY <1>1, <1>3 DEF Passes, Control, Stage, Finish
  <2>6. scan' = <<>> /\ gone' = <<>>
    BY DEF Passes, Control, Finish
  <2> QED  BY <1>1, <1>2, <2>1, <2>2, <2>3, <2>4, <2>5, <2>6 DEF Control
<1>8. Exclusive'
  BY <1>1, <1>2, <1>3 DEF Exclusive, InQueue, Finish, Control, Passes, Busy
<1>9. Sweeping'
  BY <1>2 DEF Sweeping, Finish
<1>10. Submitted'
  BY <1>1, <1>2 DEF TypeOK, Submitted, InQueue, Finish
<1>11. NotLost'
  <2> SUFFICES ASSUME NEW q \in Requests, Accepted(q)', ~finished'[q]
               PROVE  InQueue(q)' \/ Among(q, gone)' \/ pub' = q \/ \E t \in Slots : slot'[t] = q
    BY DEF NotLost
  <2>1. CASE q = r
    BY <1>2, <2>1
  <2>2. CASE q # r
    <3>1. Accepted(q) /\ ~finished[q]
      BY <1>1, <1>2, <2>2 DEF Accepted, Finish, TypeOK
    <3>2. pub # q
      BY DEF Control, Passes, Stage
    <3>3. InQueue(q) \/ Among(q, gone) \/ \E t \in Slots : slot[t] = q
      BY <3>1, <3>2 DEF NotLost
    <3>4. \A t \in Slots : slot[t] = q => slot'[t] = q
      BY <1>2, <2>2 DEF TypeOK
    <3> QED  BY <3>3, <3>4 DEF InQueue, Finish
  <2> QED  BY <2>1, <2>2
<1> QED  BY <1>5, <1>6, <1>7, <1>8, <1>9, <1>10, <1>11

\* The flag is set: the request is finished and held nowhere.
LEMMA PublishStep == ASSUME Inv, Publish  PROVE Inv'
<1> USE DEF Inv, Publish, http, sweep
<1>1. /\ pub \in Requests /\ pub' = NoRequest /\ NoRequest \notin Requests
      /\ finished' = [finished EXCEPT ![pub] = TRUE]
      /\ pc' = ret /\ ret # "publish" /\ Stage = ret /\ Stage' = ret
      /\ Busy' = Busy
      /\ scan = <<>> /\ gone = <<>> /\ scan' = <<>> /\ gone' = <<>>
  BY DEF Control, Stage, TypeOK, Busy
<1>2. ret \notin {"publish", "check", "erase", "settle", "settle_pending"}
  BY DEF Control
<1>3. TypeOK'
  BY <1>1 DEF TypeOK
<1>4. Gauge' /\ Control'
  BY <1>1, <1>2 DEF Gauge, Control
<1>5. Exclusive'
  <2>1. \A x \in Requests : finished'[x] = (finished[x] \/ x = pub)
    BY <1>1 DEF TypeOK
  <2>2. ~InQueue(pub) /\ \A s \in Slots : slot[s] # pub
    BY <1>1 DEF Exclusive
  <2>3. \A x : ~Among(x, gone')
    BY <1>1, EmptyElements
  <2>4. \A s \in Busy : slot[s] \in Requests
    BY DEF TypeOK, Busy
  <2>5. \A s \in Busy : s \in Slots
    BY DEF Busy
  <2> QED  BY <1>1, <2>1, <2>2, <2>3, <2>4, <2>5 DEF Exclusive, InQueue
<1>6. Sweeping'
  BY <1>1, <1>2 DEF Sweeping
<1>7. Submitted'
  BY <1>1 DEF TypeOK, Submitted, InQueue
<1>8. NotLost'
  BY <1>1 DEF TypeOK, NotLost, InQueue, Accepted
<1> QED  BY <1>3, <1>4, <1>5, <1>6, <1>7, <1>8

LEMMA ReleaseCancelledStep == ASSUME Inv, NEW s \in Slots, ReleaseCancelled(s)  PROVE Inv'
BY FinishStep DEF ReleaseCancelled, Passes

LEMMA SampleFinishStep == ASSUME Inv, NEW s \in Slots, SampleFinish(s)  PROVE Inv'
<1>1. PICK kind \in {"ok", "error"} : Finish(s, kind)
  BY DEF SampleFinish
<1> QED  BY <1>1, FinishStep DEF SampleFinish, Passes

LEMMA FailSlotStep == ASSUME Inv, NEW s \in Slots, FailSlot(s)  PROVE Inv'
BY FinishStep DEF FailSlot, Passes

LEMMA DrainSlotStep == ASSUME Inv, NEW s \in Slots, DrainSlot(s)  PROVE Inv'
BY FinishStep DEF DrainSlot, Passes

LEMMA KeepSlotStep == ASSUME Inv, NEW s \in Slots, KeepSlot(s)  PROVE Inv'
<1> USE DEF Inv, KeepSlot, shared, http, sweep
<1>1. /\ todo' \subseteq Busy /\ Busy' = Busy /\ Busy \subseteq Slots
      /\ pc' = IF todo' # {} THEN "cancel" ELSE "sweep"
  BY VisitLeaves DEF Passes, Busy
<1>2. TypeOK'
  BY <1>1 DEF TypeOK, PCs
<1>3. Gauge' /\ Control'
  BY <1>1 DEF TypeOK, Gauge, Control, Stage, Passes
<1>4. Exclusive' /\ Sweeping' /\ Submitted' /\ NotLost'
  BY <1>1 DEF Exclusive, Sweeping, Submitted, NotLost, InQueue, Accepted
<1> QED  BY <1>2, <1>3, <1>4

LEMMA SampleStep == ASSUME Inv, NEW s \in Slots, Sample(s)  PROVE Inv'
<1> USE DEF Inv, Sample, http, sweep
<1>1. /\ todo' \subseteq Busy /\ Busy' = Busy /\ Busy \subseteq Slots
      /\ slot[s] \in Requests
      /\ pc' = IF todo' # {} THEN pc ELSE IF pc = "media" THEN "admit" ELSE "wait"
  BY VisitLeaves DEF Passes, Busy
<1>2. TypeOK'
  <2>1. pieces' \in [Requests -> Seq(Nat)] /\ emitted' \in [Requests -> Nat]
    BY <1>1, PushTypes DEF Flushes
  <2>2. sampled' \in [Requests -> 0 .. MaxTokens]
    <3>1. sampled \in [Requests -> 0 .. MaxTokens] /\ sampled[slot[s]] \in 0 .. MaxTokens
      BY <1>1 DEF TypeOK
    <3>2. sampled[slot[s]] + 1 \in 0 .. MaxTokens
      BY <3>1
    <3> QED  BY <3>1, <3>2
  <2> QED  BY <1>1, <2>1, <2>2 DEF TypeOK, PCs
<1>3. Gauge' /\ Control'
  BY <1>1 DEF TypeOK, Gauge, Control, Stage, Passes
<1>4. Exclusive' /\ Sweeping' /\ Submitted' /\ NotLost'
  BY <1>1 DEF Exclusive, Sweeping, Submitted, NotLost, InQueue, Accepted
<1> QED  BY <1>2, <1>3, <1>4

\* The sweep copies the queue: everything copied is in it, nothing is dropped yet.
LEMMA SweepStep == ASSUME Inv, Sweep  PROVE Inv'
<1> USE DEF Inv, Sweep, shared, http
<1>1. late' \subseteq Requests
  <2>1. \A i \in 1 .. Len(queue) : queue[i] \in Requests
    BY ElementOfSeq DEF TypeOK
  <2>2. Len(queue) \in Nat
    BY LenProperties DEF TypeOK
  <2>3. PICK n \in 0 .. Len(queue) : late' = {queue[i] : i \in 1 .. n}
    BY <2>2 DEF Late
  <2> QED  BY <2>1, <2>2, <2>3
<1>2. TypeOK'
  BY <1>1 DEF TypeOK, PCs
<1>3. gone = <<>> /\ gone' = <<>> /\ scan' = queue /\ \A x : ~Among(x, gone')
  BY EmptyElements DEF Control
<1>4. Gauge' /\ Control'
  BY <1>3 DEF Gauge, Control, Stage, Passes, Busy
<1>5. Sweeping'
  BY <1>3, EmptyElements DEF Exclusive, Sweeping, InQueue
<1>6. Exclusive' /\ Submitted' /\ NotLost'
  BY DEF Exclusive, Submitted, NotLost, InQueue, Accepted, Busy
<1> QED  BY <1>2, <1>4, <1>5, <1>6

\* A copied request moves on, to the dropped ones or back to where it was.
LEMMA SweepCheckStep == ASSUME Inv, SweepCheck  PROVE Inv'
<1> USE DEF Inv, SweepCheck, http
<1> DEFINE r == Head(scan)
<1>1. /\ r \in Requests /\ Tail(scan) \in Seq(Requests)
      /\ \A x : Among(x, scan) <=> Among(x, Tail(scan)) \/ x = r
      /\ Distinct(Tail(scan)) /\ ~Among(r, Tail(scan))
  BY TailElements DEF TypeOK, Sweeping
<1>2. /\ \/ gone' = Append(gone, r) /\ outcome' \in [Requests -> Outcomes]
         \/ gone' = gone /\ outcome' = outcome
      /\ \A x \in Requests : outcome'[x] \in {"cancel", "timeout", outcome[x]}
  <2> DEFINE kind == IF cancelled[r] THEN "cancel" ELSE "timeout"
  <2>1. outcome \in [Requests -> Outcomes] /\ kind \in {"cancel", "timeout"} /\ kind \in Outcomes
    BY DEF TypeOK, Outcomes
  <2>2. \/ gone' = Append(gone, r) /\ outcome' = [outcome EXCEPT ![r] = kind]
        \/ gone' = gone /\ outcome' = outcome
    OBVIOUS
  <2> HIDE DEF kind, r
  <2>3. CASE gone' = Append(gone, r) /\ outcome' = [outcome EXCEPT ![r] = kind]
    <3>1. outcome' \in [Requests -> Outcomes]
      BY <2>1, <2>3
    <3>2. \A x \in Requests : outcome'[x] \in {kind, outcome[x]}
      BY <2>1, <2>3
    <3> QED  BY <2>1, <2>3, <3>1, <3>2
  <2>4. CASE gone' = gone /\ outcome' = outcome
    BY <2>4
  <2> QED  BY <2>2, <2>3, <2>4
<1>3. /\ gone' \in Seq(Requests)
      /\ \A x : Among(x, gone') => Among(x, gone) \/ x = r
      /\ \A x : Among(x, gone) => Among(x, gone')
      /\ Distinct(gone')
  <2>1. gone \in Seq(Requests) /\ Distinct(gone) /\ ~Among(r, gone)
    BY <1>1 DEF TypeOK, Sweeping
  <2>2. CASE gone' = Append(gone, r)
    BY <1>1, <2>1, <2>2, AppendElements
  <2>3. CASE gone' = gone
    BY <2>1, <2>3
  <2> QED  BY <1>2, <2>2, <2>3
<1>4. TypeOK'
  BY <1>1, <1>2, <1>3 DEF TypeOK
<1>5. Gauge' /\ Control'
  BY DEF Gauge, Control, Stage, Passes, Busy
<1>6. InQueue(r)
  BY <1>1 DEF Sweeping
<1>7. Exclusive'
  BY <1>1, <1>3, <1>6 DEF Exclusive, InQueue, Busy
<1>8. Sweeping'
  BY <1>1, <1>3, <1>6 DEF Sweeping, InQueue
<1>9. Submitted'
  BY <1>3, <1>6 DEF Submitted, InQueue
<1>10. NotLost'
  <2> SUFFICES ASSUME NEW q \in Requests, Accepted(q)', ~finished'[q]
               PROVE  InQueue(q)' \/ Among(q, gone)' \/ pub' = q \/ \E t \in Slots : slot'[t] = q
    BY DEF NotLost
  <2>1. CASE q = r
    BY <1>6, <2>1 DEF InQueue
  <2>2. CASE q # r
    <3>1. outcome'[q] = outcome[q]
      BY <1>1, <2>2 DEF TypeOK
    <3> QED  BY <1>3, <3>1 DEF NotLost, Accepted, InQueue
  <2> QED  BY <2>1, <2>2
<1> QED  BY <1>4, <1>5, <1>7, <1>8, <1>9, <1>10

LEMMA SweepCheckDoneStep == ASSUME Inv, SweepCheckDone  PROVE Inv'
<1> USE DEF Inv, SweepCheckDone, shared, http
<1>1. TypeOK'
  BY DEF TypeOK, PCs
<1>2. Gauge' /\ Control'
  BY DEF Gauge, Control, Stage, Passes, Busy
<1>3. Sweeping'
  BY EmptyElements DEF Sweeping, InQueue
<1>4. Exclusive' /\ Submitted' /\ NotLost'
  BY DEF Exclusive, Submitted, NotLost, InQueue, Accepted, Busy
<1> QED  BY <1>1, <1>2, <1>3, <1>4

\* Erasing a dropped request removes it, and no other, from the queue.
LEMMA SweepEraseStep == ASSUME Inv, SweepErase  PROVE Inv'
<1> USE DEF Inv, SweepErase, http
<1> DEFINE r == Head(scan)
<1>1. /\ scan # <<>> /\ r \in Requests /\ Tail(scan) \in Seq(Requests)
      /\ \A x : Among(x, scan) <=> Among(x, Tail(scan)) \/ x = r
      /\ Distinct(Tail(scan)) /\ ~Among(r, Tail(scan))
      /\ Len(scan) = 1 <=> Tail(scan) = <<>>
  BY TailElements DEF TypeOK, Control, Sweeping
<1>2. PICK i \in DOMAIN queue : queue[i] = r /\ queue' = Cut(queue, i)
  OBVIOUS
<1>3. /\ queue' \in Seq(Requests)
      /\ \A x : Among(x, queue) <=> Among(x, queue') \/ x = r
      /\ Distinct(queue') /\ ~Among(r, queue')
  <2>1. queue \in Seq(Requests) /\ Distinct(queue)
    BY DEF TypeOK, Exclusive
  <2>2. /\ Cut(queue, i) \in Seq(Requests)
        /\ \A x : Among(x, queue) <=> Among(x, Cut(queue, i)) \/ x = queue[i]
        /\ Distinct(Cut(queue, i)) /\ ~Among(queue[i], Cut(queue, i))
    BY <2>1, CutElements
  <2> QED  BY <1>2, <2>2
<1>4. Among(r, gone) /\ gone # <<>>
  BY <1>1, EmptyElements DEF Sweeping
<1>5. TypeOK'
  BY <1>1, <1>3 DEF TypeOK, PCs
<1>6. Gauge' /\ Control'
  BY <1>1, <1>4 DEF Gauge, Control, Stage, Passes, Busy
<1>7. Exclusive'
  BY <1>3 DEF Exclusive, InQueue, Busy
<1>8. Sweeping'
  <2>1. \A x \in Requests : Among(x, gone) => (Among(x, queue') <=> Among(x, Tail(scan)))
    BY <1>1, <1>3 DEF Sweeping, InQueue
  <2>2. Tail(scan) = <<>> => \A x : ~Among(x, Tail(scan))
    BY EmptyElements
  <2> QED  BY <1>1, <2>1, <2>2 DEF Sweeping, InQueue
<1>9. Submitted'
  BY <1>3 DEF Submitted, InQueue
<1>10. NotLost'
  BY <1>3, <1>4 DEF NotLost, InQueue, Accepted
<1> QED  BY <1>5, <1>6, <1>7, <1>8, <1>9, <1>10

\* A dropped request is told: it is finished and held nowhere.
LEMMA SettleStep ==
    ASSUME Inv, pc \in {"settle", "settle_pending"},
           gone' = Tail(gone),
           finished' = [finished EXCEPT ![Head(gone)] = TRUE],
           outcome' \in [Requests -> Outcomes],
           \A x \in Requests : x # Head(gone) => outcome'[x] = outcome[x],
           pc' = IF Len(gone) = 1 THEN IF pc = "settle" THEN "admit" ELSE "exited" ELSE pc,
           metrics' \in [processing : Nat, rejected : Nat, timed_out : Nat],
           metrics'.processing = metrics.processing,
           UNCHANGED <<queue, stop, pieces, cancelled, http, ret, slot, need, todo, scan, late,
                       pub, sampled, emitted>>
    PROVE  Inv'
<1> USE DEF Inv, http
<1> DEFINE r == Head(gone)
<1>1. /\ gone # <<>> /\ r \in Requests /\ Tail(gone) \in Seq(Requests)
      /\ \A x : Among(x, gone) <=> Among(x, Tail(gone)) \/ x = r
      /\ Distinct(Tail(gone)) /\ ~Among(r, Tail(gone))
      /\ Len(gone) = 1 <=> Tail(gone) = <<>>
  BY TailElements DEF TypeOK, Control, Sweeping
<1>2. /\ finished' \in [Requests -> BOOLEAN]
      /\ \A x \in Requests : finished'[x] <=> finished[x] \/ x = r
  BY <1>1 DEF TypeOK
<1>3. Among(r, gone) /\ ~InQueue(r)
  BY <1>1 DEF Sweeping
<1>4. TypeOK'
  BY <1>1, <1>2 DEF TypeOK, PCs
<1>5. Busy' = Busy /\ \A s \in Busy : s \in Slots /\ slot[s] \in Requests
  BY DEF Busy, TypeOK
<1>6. Gauge'
  BY <1>5 DEF Gauge
<1>7. Control'
  BY <1>1, <1>5 DEF Control, Stage, Passes
<1>8. Exclusive'
  BY <1>1, <1>2, <1>3, <1>5 DEF Exclusive, InQueue
<1>9. Sweeping'
  BY <1>1 DEF Sweeping, InQueue, Control
<1>10. Submitted'
  BY <1>1, <1>2, <1>3 DEF Submitted, InQueue
<1>11. NotLost'
  <2> SUFFICES ASSUME NEW q \in Requests, Accepted(q)', ~finished'[q]
               PROVE  InQueue(q)' \/ Among(q, gone)' \/ pub' = q \/ \E t \in Slots : slot'[t] = q
    BY DEF NotLost
  <2>1. q # r /\ ~finished[q]
    BY <1>2
  <2>2. Accepted(q)
    BY <2>1 DEF Accepted
  <2> QED  BY <1>1, <2>1, <2>2 DEF NotLost, InQueue
<1> QED  BY <1>4, <1>6, <1>7, <1>8, <1>9, <1>10, <1>11

LEMMA SettleGoneStep == ASSUME Inv, SettleGone  PROVE Inv'
<1> DEFINE n == [metrics EXCEPT !.timed_out = @ + 1]
<1>1. metrics \in [processing : Nat, rejected : Nat, timed_out : Nat]
  BY DEF Inv, TypeOK
<1>2. /\ n \in [processing : Nat, rejected : Nat, timed_out : Nat]
      /\ n.processing = metrics.processing
      /\ [metrics EXCEPT !.timed_out = @] = metrics
  BY <1>1, CounterTypes
<1>3. metrics' = n \/ metrics' = metrics
  BY <1>2 DEF SettleGone, Told
<1> HIDE DEF n
<1>4. outcome' = outcome /\ outcome \in [Requests -> Outcomes]
  BY DEF SettleGone, Inv, TypeOK
<1> QED  BY <1>1, <1>2, <1>3, <1>4, SettleStep DEF SettleGone

LEMMA SettlePendingStep == ASSUME Inv, SettlePending  PROVE Inv'
<1>1. metrics \in [processing : Nat, rejected : Nat, timed_out : Nat]
  BY DEF Inv, TypeOK
<1>2. /\ outcome' \in [Requests -> Outcomes]
      /\ \A x \in Requests : x # Head(gone) => outcome'[x] = outcome[x]
  BY DEF SettlePending, Inv, TypeOK, Outcomes
<1> QED  BY <1>1, <1>2, SettleStep DEF SettlePending

\* The head leaves the queue to be told it is cancelled.
LEMMA AdmitCancelledStep == ASSUME Inv, AdmitCancelled  PROVE Inv'
<1> USE DEF Inv, AdmitCancelled, AtHead, http, sweep
<1> DEFINE r == Head(queue)
<1>1. /\ queue \in Seq(Requests) /\ Distinct(queue)
      /\ queue # <<>> /\ pc = "admit" /\ pub = NoRequest /\ todo = {}
  BY DEF TypeOK, Exclusive, Control, Stage, Passes
<1>2. /\ r \in Requests /\ Tail(queue) \in Seq(Requests)
      /\ Among(r, queue)
      /\ \A x : Among(x, queue) <=> Among(x, Tail(queue)) \/ x = r
      /\ Distinct(Tail(queue)) /\ ~Among(r, Tail(queue))
  BY <1>1, TailElements
<1>3. scan = <<>> /\ gone = <<>> /\ \A x : ~Among(x, gone)
  BY <1>1, EmptyElements DEF Control
<1>4. Busy' = Busy
  BY DEF Busy
<1>5. TypeOK'
  BY <1>1, <1>2 DEF TypeOK, Outcomes, PCs
<1>6. Gauge' /\ Control'
  BY <1>1, <1>2, <1>3, <1>4 DEF Gauge, Control, Stage, Passes
<1>7. Exclusive'
  BY <1>1, <1>2, <1>3, <1>4 DEF Exclusive, InQueue
<1>8. Sweeping' /\ Submitted'
  BY <1>1, <1>2, <1>3 DEF Sweeping, Submitted, InQueue
<1>9. NotLost'
  <2> SUFFICES ASSUME NEW q \in Requests, q # r, Accepted(q)', ~finished'[q]
               PROVE  InQueue(q)' \/ Among(q, gone)' \/ pub' = q \/ \E t \in Slots : slot'[t] = q
    BY DEF NotLost
  <2>1. Accepted(q) /\ ~finished[q]
    BY <1>2 DEF Accepted, TypeOK
  <2> QED  BY <1>1, <1>2, <2>1 DEF NotLost, InQueue
<1> QED  BY <1>5, <1>6, <1>7, <1>8, <1>9

\* The head gets a slot that was idle.
LEMMA AdmitStep == ASSUME Inv, NEW s \in Slots, Admit(s)  PROVE Inv'
<1> USE DEF Inv, Admit, AtHead, http, sweep
<1> DEFINE r == Head(queue)
<1>1. /\ queue \in Seq(Requests) /\ Distinct(queue)
      /\ queue # <<>> /\ pc = "admit" /\ pub = NoRequest /\ todo = {} /\ NoRequest \notin Requests
  BY DEF TypeOK, Exclusive, Control, Stage, Passes
<1>2. /\ r \in Requests /\ Tail(queue) \in Seq(Requests)
      /\ Among(r, queue)
      /\ \A x : Among(x, queue) <=> Among(x, Tail(queue)) \/ x = r
      /\ Distinct(Tail(queue)) /\ ~Among(r, Tail(queue))
      /\ queue' = Tail(queue)
  BY <1>1, TailElements DEF Popped
<1>3. scan = <<>> /\ gone = <<>> /\ \A x : ~Among(x, gone)
  BY <1>1, EmptyElements DEF Control
<1>4. /\ slot' = [slot EXCEPT ![s] = r] /\ slot' \in [Slots -> Requests \cup {NoRequest}]
      /\ slot[s] = NoRequest /\ s \notin Busy /\ Busy \subseteq Slots
      /\ Busy' = Busy \cup {s}
  <2>1. slot \in [Slots -> Requests \cup {NoRequest}] /\ slot[s] = NoRequest
    BY DEF TypeOK, Busy
  <2>2. slot' = [slot EXCEPT ![s] = r] /\ slot' \in [Slots -> Requests \cup {NoRequest}]
    BY <1>2, <2>1
  <2> QED  BY <1>1, <1>2, <2>1, <2>2 DEF Busy
<1>5. metrics' \in [processing : Nat, rejected : Nat, timed_out : Nat] /\ Gauge'
  <2>1. IsFiniteSet(Busy)
    <3>1. IsFiniteSet(Slots)
      BY FS_Interval DEF Slots
    <3> QED  BY <1>4, <3>1, FS_Subset
  <2>2. Cardinality(Busy') = Cardinality(Busy) + 1 /\ Cardinality(Busy) \in Nat
    BY <1>4, <2>1, FS_AddElement, FS_CardinalityType
  <2>3. metrics' = [metrics EXCEPT !.processing = Cardinality(Busy')]
    BY <2>2 DEF Gauge, Started
  <2>4. metrics \in [processing : Nat, rejected : Nat, timed_out : Nat]
    BY DEF TypeOK
  <2>5. Cardinality(Busy') \in Nat
    BY <2>2
  <2> QED  BY <2>3, <2>4, <2>5, CounterTypes DEF Gauge
<1>6. TypeOK'
  <2>1. need' \in [Slots -> 0 .. MaxChunks]
    <3>1. need \in [Slots -> 0 .. MaxChunks]
      BY DEF TypeOK
    <3>2. need' = need \/ \E n \in 0 .. MaxChunks : need' = [need EXCEPT ![s] = n]
      OBVIOUS
    <3> HIDE DEF Inv, Admit
    <3> QED  BY <3>1, <3>2
  <2>2. todo' \in SUBSET Slots /\ pc' \in PCs
    BY <1>1 DEF PCs
  <2> QED  BY <1>2, <1>4, <1>5, <2>1, <2>2 DEF TypeOK
<1>7. Control'
  BY <1>1, <1>3, <1>4 DEF Control, Stage, Passes
<1>8. Exclusive'
  <2>1. ~finished[r] /\ pub # r /\ \A t \in Slots : slot[t] # r
    BY <1>2 DEF Exclusive, InQueue
  <2>2. \A t \in Slots : t # s => slot'[t] = slot[t]
    BY <1>4 DEF TypeOK
  <2>3. slot'[s] = r
    BY <1>4 DEF TypeOK
  <2> QED  BY <1>1, <1>2, <1>3, <1>4, <2>1, <2>2, <2>3 DEF Exclusive, InQueue
<1>9. Sweeping'
  BY <1>1, <1>3 DEF Sweeping
<1>10. Submitted'
  <2>1. caller[r] # "new"
    BY <1>2 DEF Submitted, InQueue
  <2>2. \A t \in Slots : slot'[t] = slot[t] \/ slot'[t] = r
    BY <1>4 DEF TypeOK
  <2> QED  BY <1>2, <1>3, <2>1, <2>2 DEF Submitted, InQueue
<1>11. NotLost'
  <2>1. \A t \in Slots : slot[t] # NoRequest => slot'[t] = slot[t]
    BY <1>4 DEF TypeOK
  <2>2. slot'[s] = r
    BY <1>4 DEF TypeOK
  <2> QED  BY <1>1, <1>2, <2>1, <2>2 DEF NotLost, InQueue, Accepted
<1> QED  BY <1>5, <1>6, <1>7, <1>8, <1>9, <1>10, <1>11

\* A batch is built and decoded: what is left of the prefill shrinks.
LEMMA BuildStep == ASSUME Inv, Build  PROVE Inv'
<1> USE DEF Inv, Build, shared, http, sweep
<1>1. todo' \subseteq Busy /\ Busy' = Busy /\ Busy \subseteq Slots
  BY DEF Busy
<1>2. pc' = IF todo' # {} THEN "sample" ELSE "wait"
  BY DEF Onward
<1>3. need' \in [Slots -> 0 .. MaxChunks]
  BY SMTT(20) DEF TypeOK
<1>4. TypeOK'
  BY <1>1, <1>2, <1>3 DEF TypeOK, PCs
<1>5. Gauge' /\ Control'
  BY <1>1, <1>2 DEF Gauge, Control, Stage, Passes
<1>6. Exclusive' /\ Sweeping' /\ Submitted' /\ NotLost'
  BY <1>1, <1>2 DEF Exclusive, Sweeping, Submitted, NotLost, InQueue, Accepted
<1> QED  BY <1>4, <1>5, <1>6

LEMMA TickFailsStep == ASSUME Inv, TickFails  PROVE Inv'
<1> USE DEF Inv, TickFails, shared, http, sweep
<1>1. Busy' = Busy /\ Busy \subseteq Slots
  BY DEF Busy
<1>2. TypeOK'
  BY <1>1 DEF TypeOK, PCs
<1>3. Gauge' /\ Control'
  BY <1>1 DEF Gauge, Control, Stage, Passes
<1>4. Exclusive' /\ Sweeping' /\ Submitted' /\ NotLost'
  BY <1>1 DEF Exclusive, Sweeping, Submitted, NotLost, InQueue, Accepted
<1> QED  BY <1>2, <1>3, <1>4

\* Shutdown takes what is still queued out of the queue, to be told.
LEMMA DrainQueueStep == ASSUME Inv, DrainQueue  PROVE Inv'
<1> USE DEF Inv, DrainQueue, Pending, http
<1>1. pc = "drain_queue" /\ gone' = queue /\ queue' = <<>> /\ gone = <<>> /\ scan = <<>> /\ pub = NoRequest
  BY DEF Control
<1>2. \A x : ~Among(x, queue') /\ ~Among(x, gone)
  BY <1>1, EmptyElements
<1>3. Busy' = Busy /\ Busy = {}
  BY <1>1 DEF Busy, Control, Stage
<1>4. TypeOK'
  BY <1>1, EmptySeq DEF TypeOK, PCs
<1>5. Gauge' /\ Control'
  BY <1>1, <1>3 DEF Gauge, Control, Stage, Passes
<1>6. Exclusive'
  BY <1>1, <1>2, <1>3, EmptyElements DEF Exclusive, InQueue
<1>7. Sweeping'
  BY <1>1, <1>2 DEF Exclusive, Sweeping, InQueue
<1>8. Submitted' /\ NotLost'
  BY <1>1, <1>2 DEF Submitted, NotLost, InQueue, Accepted
<1> QED  BY <1>4, <1>5, <1>6, <1>7, <1>8

-----------------------------------------------------------------------------
(* The theorems.                                                           *)

\* Every step of every thread keeps the invariant.
LEMMA StepInv == Inv /\ [Next]_vars => Inv'
<1> SUFFICES ASSUME Inv, [Next]_vars  PROVE Inv'
  OBVIOUS
<1>1. CASE EngineNext
  <2>1. ASSUME NEW s \in Slots,
               \/ ReleaseCancelled(s) \/ KeepSlot(s) \/ Admit(s)
               \/ Sample(s) \/ SampleFinish(s) \/ FailSlot(s) \/ DrainSlot(s)
        PROVE  Inv'
    BY <2>1, ReleaseCancelledStep, KeepSlotStep, AdmitStep, SampleStep, SampleFinishStep,
       FailSlotStep, DrainSlotStep
  <2> QED  BY <1>1, <2>1, TickStep, SweepStep, SweepCheckStep, SweepCheckDoneStep,
              SweepEraseStep, SettleGoneStep, AdmitCancelledStep, BuildStep, TickFailsStep,
              DrainQueueStep, SettlePendingStep, PublishStep DEF EngineNext
<1>2. ASSUME NEW r \in Requests,
             \/ Refuse(r) \/ Reject(r) \/ Enqueue(r)
             \/ Heartbeat(r) \/ CallerNext(r)
      PROVE  Inv'
  BY <1>2, RefuseStep, RejectStep, EnqueueStep, HeartbeatStep, WakeStep, CallbackReturnsStep
     DEF CallerNext
<1>3. CASE Shutdown
  BY <1>3, ShutdownStep
<1>4. CASE Quiet \/ UNCHANGED vars
  BY <1>4, StutterStep DEF Quiet
<1> QED  BY <1>1, <1>2, <1>3, <1>4 DEF Next

THEOREM Invariance == Spec => []Inv
<1>1. Init => Inv
  BY InitInv
<1>2. Inv /\ [Next]_vars => Inv'
  BY StepInv
<1> QED  BY <1>1, <1>2, PTL DEF Spec

\* Type correctness, the gauge of busy slots included: it never drops below zero.
THEOREM TypeCorrect == Spec => []TypeOK
BY Invariance, PTL DEF Inv

\* No request is ever in two places: queued twice, in two slots, in a slot while it
\* is queued or dropped, or anywhere once it is finished.
THEOREM ServedOnce == Spec => []Exclusive
BY Invariance, PTL DEF Inv

\* Every accepted request that is not finished is where the engine will find it.
THEOREM NeverLost == Spec => []NotLost
BY Invariance, PTL DEF Inv

-----------------------------------------------------------------------------
(* A published result is never touched again.                              *)

Frozen == \A r \in Requests :
    finished[r] => outcome'[r] = outcome[r] /\ emitted'[r] = emitted[r] /\ finished'[r]

\* finish() writes the result of the request in a slot, which is not finished.
LEMMA FinishFrozen ==
    ASSUME Inv, NEW s \in Slots, pc \in Passes, Visit(s), NEW kind, Finish(s, kind)
    PROVE  Frozen
<1>1. s \in Busy /\ slot[s] \in Requests
  BY VisitLeaves
<1>2. ~finished[slot[s]]
  BY <1>1 DEF Inv, Exclusive
<1>3. \A r \in Requests : r # slot[s] => outcome'[r] = outcome[r] /\ emitted'[r] = emitted[r]
  BY <1>1 DEF Finish, Push, Inv, TypeOK
<1> QED  BY <1>2, <1>3 DEF Finish, Frozen, Inv, TypeOK

LEMMA StepFrozen == ASSUME Inv, [Next]_vars  PROVE Frozen
<1> USE DEF Frozen
<1>1. TypeOK /\ Exclusive /\ Submitted /\ Control /\ Sweeping
  BY DEF Inv
<1>2. ASSUME NEW r \in Requests,
             \/ Refuse(r) \/ Reject(r) \/ Enqueue(r)
             \/ Heartbeat(r) \/ CallerNext(r)
      PROVE  Frozen
  <2>1. CASE Refuse(r) \/ Reject(r)
    <3>1. ~finished[r]
      BY <1>1, <2>1 DEF Submitted, Refuse, Reject
    <3> QED  BY <1>1, <2>1, <3>1 DEF Refuse, Reject, TypeOK, engine
  <2>2. CASE Enqueue(r) \/ Heartbeat(r) \/ CallerNext(r)
    BY <2>2 DEF Enqueue, Heartbeat, CallerNext, Wake, CallbackReturns, engine, shared
  <2> QED  BY <1>2, <2>1, <2>2
<1>3. CASE Shutdown \/ Quiet \/ UNCHANGED vars
  BY <1>3 DEF Shutdown, Quiet, vars, engine, shared
<1>4. CASE Tick \/ Sweep \/ SweepCheckDone \/ SweepErase \/ Build \/ TickFails \/ DrainQueue
  BY <1>4 DEF Tick, Sweep, SweepCheckDone, SweepErase, Build, TickFails, DrainQueue, shared
<1>5. CASE SweepCheck
  <2>1. Among(Head(scan), scan) /\ Head(scan) \in Requests
    BY <1>1, <1>5, TailElements DEF SweepCheck, TypeOK
  <2>2. ~finished[Head(scan)]
    BY <1>1, <1>5, <2>1 DEF SweepCheck, Sweeping, Exclusive
  <2> QED  BY <1>1, <1>5, <2>2 DEF SweepCheck, TypeOK
<1>6. CASE AdmitCancelled
  <2>1. Among(Head(queue), queue) /\ Head(queue) \in Requests
    BY <1>1, <1>6, TailElements DEF AdmitCancelled, AtHead, TypeOK
  <2>2. ~finished[Head(queue)]
    BY <1>1, <2>1 DEF Exclusive, InQueue
  <2> QED  BY <1>1, <1>6, <2>2 DEF AdmitCancelled, TypeOK
<1>7. CASE SettleGone \/ SettlePending
  <2>1. Among(Head(gone), gone) /\ Head(gone) \in Requests
    BY <1>1, <1>7, TailElements DEF SettleGone, SettlePending, TypeOK, Control
  <2>2. ~finished[Head(gone)]
    BY <1>1, <2>1 DEF Exclusive
  <2> QED  BY <1>1, <1>7, <2>2 DEF SettleGone, SettlePending, TypeOK
<1>8. CASE Publish
  BY <1>1, <1>8 DEF Publish, TypeOK
<1>9. ASSUME NEW s \in Slots,
             \/ ReleaseCancelled(s) \/ KeepSlot(s) \/ Admit(s)
             \/ Sample(s) \/ SampleFinish(s) \/ FailSlot(s) \/ DrainSlot(s)
      PROVE  Frozen
  <2>1. CASE ReleaseCancelled(s) \/ FailSlot(s) \/ DrainSlot(s)
    BY <2>1, FinishFrozen DEF ReleaseCancelled, FailSlot, DrainSlot, Passes
  <2>2. CASE SampleFinish(s)
    BY <2>2, FinishFrozen DEF SampleFinish, Passes
  <2>3. CASE KeepSlot(s) \/ Admit(s)
    BY <2>3 DEF KeepSlot, Admit, shared
  <2>4. CASE Sample(s)
    <3>1. s \in Busy /\ slot[s] \in Requests
      BY <2>4, VisitLeaves DEF Sample, Passes
    <3>2. ~finished[slot[s]]
      BY <1>1, <3>1 DEF Exclusive
    <3>3. \A r \in Requests : r # slot[s] => emitted'[r] = emitted[r]
      BY <1>1, <2>4, <3>1 DEF Sample, Push, TypeOK
    <3> QED  BY <2>4, <3>2, <3>3 DEF Sample
  <2> QED  BY <1>9, <2>1, <2>2, <2>3, <2>4
<1> QED  BY <1>2, <1>3, <1>4, <1>5, <1>6, <1>7, <1>8, <1>9 DEF Next, EngineNext

\* generate() may read its result without the lock once `finished` is set: no thread
\* writes it, or produces another piece, after that.
THEOREM ResultStays == Spec => ResultFrozen
<1>1. Inv /\ [Next]_vars => [Frozen]_vars
  BY StepFrozen
<1> QED  BY <1>1, Invariance, PTL DEF Spec, ResultFrozen, Frozen

-----------------------------------------------------------------------------
(* A request that timed out never ran.                                     *)

\* Nothing was sampled for r and no piece produced.
Untouched(r) == sampled[r] = 0 /\ emitted[r] = 0

\* A request runs only in a slot, and holds no result before it is finished or
\* dropped: what the sweep drops was never touched.
Fresh == \A r \in Requests :
    /\ caller[r] = "new" => Untouched(r)
    /\ InQueue(r) \/ Among(r, gone) => Untouched(r)
    /\ InQueue(r) /\ ~Among(r, gone) => outcome[r] \notin {"timeout", "full"}
    /\ (\E s \in Slots : slot[s] = r) => outcome[r] \notin {"timeout", "full"}
    /\ caller[r] = "new" => outcome[r] \notin {"timeout", "full"}
    /\ outcome[r] \in {"timeout", "full"} => Untouched(r)

LEMMA InitFresh == Init => Fresh
BY EmptyElements DEF Init, Fresh, Untouched, InQueue

\* The result of the request in the slot is neither a timeout nor a refusal.
LEMMA FinishFresh ==
    ASSUME Inv, Fresh, NEW s \in Slots, pc \in Passes, Visit(s),
           NEW kind \in {"ok", "error", "cancel", "shutdown"}, Finish(s, kind)
    PROVE  Fresh'
<1>1. s \in Busy /\ slot[s] \in Requests
  BY VisitLeaves
<1>2. ~InQueue(slot[s]) /\ ~Among(slot[s], gone) /\ caller[slot[s]] # "new"
  BY <1>1 DEF Inv, Exclusive, Submitted
<1>3. \A r \in Requests : r # slot[s] => outcome'[r] = outcome[r] /\ emitted'[r] = emitted[r]
  BY <1>1 DEF Finish, Push, Inv, TypeOK
<1>4. outcome'[slot[s]] \notin {"timeout", "full"}
  BY <1>1 DEF Finish, Inv, TypeOK
<1>5. \A t \in Slots : slot'[t] = slot[t] \/ slot'[t] \notin Requests
  BY DEF Finish, Inv, TypeOK
<1>6. UNCHANGED <<queue, gone, caller, sampled>>
  BY DEF Finish, sweep, http
<1> QED  BY <1>1, <1>2, <1>3, <1>4, <1>5, <1>6 DEF Fresh, Untouched, InQueue

LEMMA CallFresh ==
    ASSUME Inv, Fresh, NEW r \in Requests,
           \/ Refuse(r) \/ Reject(r) \/ Enqueue(r)
           \/ Heartbeat(r) \/ CallerNext(r)
    PROVE  Fresh'
<1>1. TypeOK
  BY DEF Inv
<1>2. CASE Refuse(r) \/ Reject(r)
  <2>1. /\ caller[r] = "new" /\ outcome' \in {[outcome EXCEPT ![r] = "invalid"], [outcome EXCEPT ![r] = "full"]}
        /\ caller' = [caller EXCEPT ![r] = "returned"]
        /\ UNCHANGED <<queue, gone, slot, sampled, emitted>>
    BY <1>2 DEF Refuse, Reject, engine
  <2>2. ~InQueue(r) /\ \A s \in Slots : slot[s] # r
    BY <2>1 DEF Inv, Submitted
  <2> QED  BY <1>1, <2>1, <2>2 DEF Fresh, Untouched, InQueue, TypeOK
<1>3. CASE Enqueue(r)
  <2>1. /\ caller[r] = "new" /\ queue' = Append(queue, r)
        /\ caller' = [caller EXCEPT ![r] = "wait"]
        /\ UNCHANGED <<gone, slot, sampled, emitted, outcome>>
    BY <1>3 DEF Enqueue, Joined, engine
  <2>2. \A x : Among(x, queue') <=> Among(x, queue) \/ x = r
    <3>1. queue \in Seq(Requests)
      BY <1>1 DEF TypeOK
    <3> QED  BY <2>1, <3>1, AppendElements
  <2> QED  BY <1>1, <2>1, <2>2 DEF Fresh, Untouched, InQueue, TypeOK
<1>4. CASE Heartbeat(r) \/ CallerNext(r)
  <2>1. /\ caller[r] # "new"
        /\ \/ caller' = [caller EXCEPT ![r] = "wait"]
           \/ caller' = [caller EXCEPT ![r] = "callback"]
           \/ caller' = [caller EXCEPT ![r] = "returned"]
        /\ UNCHANGED <<queue, gone, slot, sampled, emitted, outcome>>
    BY <1>4 DEF Heartbeat, CallerNext, Wake, CallbackReturns, Take, engine, shared
  <2>2. \A x \in Requests : caller'[x] = "new" <=> caller[x] = "new"
    BY <1>1, <2>1 DEF TypeOK
  <2> QED  BY <2>1, <2>2 DEF Fresh, Untouched, InQueue
<1> QED  BY <1>2, <1>3, <1>4

LEMMA StepFresh == ASSUME Inv, Fresh, [Next]_vars  PROVE Fresh'
<1>1. TypeOK /\ Exclusive /\ Submitted /\ Control /\ Sweeping
  BY DEF Inv
<1>2. CASE Shutdown \/ Quiet \/ UNCHANGED vars
  BY <1>2 DEF Fresh, Untouched, InQueue, Shutdown, Quiet, vars, engine, shared, http, sweep
<1>3. CASE Tick \/ Sweep \/ SweepCheckDone \/ Build \/ TickFails \/ Publish
  BY <1>3 DEF Fresh, Untouched, InQueue, Tick, Sweep, SweepCheckDone, Build, TickFails, Publish,
              shared, http, sweep
<1>4. CASE SweepCheck
  <2> DEFINE h == Head(scan)
  <2>1. h \in Requests /\ Among(h, scan)
    BY <1>1, <1>4, TailElements DEF SweepCheck, TypeOK
  <2>2. InQueue(h) /\ \A s \in Slots : slot[s] # h
    BY <1>1, <1>4, <2>1 DEF SweepCheck, Sweeping, Exclusive
  <2>3. caller[h] # "new" /\ Untouched(h)
    BY <1>1, <2>1, <2>2 DEF Submitted, Fresh
  <2>4. CASE gone' = gone /\ outcome' = outcome
    BY <1>4, <2>4 DEF SweepCheck, Fresh, Untouched, InQueue, http
  <2>5. CASE gone' = Append(gone, h) /\ \A r \in Requests : r # h => outcome'[r] = outcome[r]
    <3>1. \A x : Among(x, gone') <=> Among(x, gone) \/ x = h
      <4>1. gone \in Seq(Requests)
        BY <1>1 DEF TypeOK
      <4> QED  BY <2>1, <2>5, <4>1, AppendElements
    <3>2. UNCHANGED <<queue, slot, caller, sampled, emitted>>
      BY <1>4 DEF SweepCheck, http
    <3> QED  BY <2>1, <2>2, <2>3, <2>5, <3>1, <3>2 DEF Fresh, Untouched, InQueue
  <2> QED  BY <1>1, <1>4, <2>4, <2>5 DEF SweepCheck, TypeOK
<1>5. CASE SweepErase
  <2>1. PICK i \in DOMAIN queue : queue' = Cut(queue, i)
    BY <1>5 DEF SweepErase
  <2>2. queue \in Seq(Requests)
    BY <1>1 DEF TypeOK
  <2>3. \A x : Among(x, queue') => Among(x, queue)
    BY <2>1, <2>2, CutElements
  <2>4. UNCHANGED <<gone, slot, caller, sampled, emitted, outcome>>
    BY <1>5 DEF SweepErase, http
  <2> QED  BY <2>3, <2>4 DEF Fresh, Untouched, InQueue
<1>6. CASE SettleGone \/ SettlePending
  <2>1. gone # <<>> /\ gone \in Seq(Requests)
    BY <1>1, <1>6 DEF SettleGone, SettlePending, TypeOK, Control
  <2>2. /\ Head(gone) \in Requests /\ Among(Head(gone), gone)
        /\ \A x : Among(x, gone) <=> Among(x, Tail(gone)) \/ x = Head(gone)
    BY <2>1, TailElements
  <2>3. /\ gone' = Tail(gone)
        /\ UNCHANGED <<queue, slot, caller, sampled, emitted>>
        /\ outcome' \in {outcome, [outcome EXCEPT ![Head(gone)] = "shutdown"]}
    BY <1>6 DEF SettleGone, SettlePending, http
  <2>4. ~InQueue(Head(gone))
    BY <1>1, <1>6, <2>2 DEF Sweeping, SettleGone, SettlePending
  <2> QED  BY <1>1, <2>2, <2>3, <2>4 DEF Fresh, Untouched, InQueue, TypeOK
<1>7. CASE AdmitCancelled
  <2>1. /\ Head(queue) \in Requests /\ Among(Head(queue), queue)
        /\ \A x : Among(x, queue) <=> Among(x, Tail(queue)) \/ x = Head(queue)
    BY <1>1, <1>7, TailElements DEF AdmitCancelled, AtHead, TypeOK
  <2>2. /\ queue' = Tail(queue)
        /\ outcome' = [outcome EXCEPT ![Head(queue)] = "cancel"]
        /\ UNCHANGED <<gone, slot, caller, sampled, emitted>>
    BY <1>7 DEF AdmitCancelled, http, sweep
  <2> QED  BY <1>1, <2>1, <2>2 DEF Fresh, Untouched, InQueue, TypeOK
<1>8. CASE DrainQueue
  <2>1. /\ gone' = queue /\ queue' = <<>>
        /\ UNCHANGED <<slot, caller, sampled, emitted, outcome>>
    BY <1>8 DEF DrainQueue, Pending, http
  <2>2. \A x : ~Among(x, queue')
    BY <2>1, EmptyElements
  <2> QED  BY <2>1, <2>2 DEF Fresh, Untouched, InQueue
<1>9. ASSUME NEW s \in Slots, KeepSlot(s) \/ Admit(s) \/ Sample(s)  PROVE Fresh'
  <2>1. CASE KeepSlot(s)
    BY <2>1 DEF KeepSlot, Fresh, Untouched, InQueue, shared, http, sweep
  <2>2. CASE Admit(s)
    <3>1. /\ Head(queue) \in Requests /\ Among(Head(queue), queue)
          /\ \A x : Among(x, queue) <=> Among(x, Tail(queue)) \/ x = Head(queue)
      BY <1>1, <2>2, TailElements DEF Admit, AtHead, TypeOK
    <3>2. /\ queue' = Tail(queue) /\ slot' = [slot EXCEPT ![s] = Head(queue)]
          /\ UNCHANGED <<gone, caller, sampled, emitted, outcome>>
      BY <2>2 DEF Admit, Popped, http, sweep
    <3>3. ~Among(Head(queue), gone)
      BY <1>1, <2>2, EmptyElements DEF Control, Admit, AtHead
    <3>4. \A t \in Slots : slot'[t] = slot[t] \/ slot'[t] = Head(queue)
      BY <1>1, <3>2 DEF TypeOK
    <3> QED  BY <3>1, <3>2, <3>3, <3>4 DEF Fresh, Untouched, InQueue
  <2>3. CASE Sample(s)
    <3>1. s \in Busy /\ slot[s] \in Requests
      BY <2>3, VisitLeaves DEF Sample, Passes
    <3>2. ~InQueue(slot[s]) /\ ~Among(slot[s], gone) /\ caller[slot[s]] # "new"
      BY <1>1, <3>1 DEF Exclusive, Submitted
    <3>3. \A r \in Requests : r # slot[s] => emitted'[r] = emitted[r] /\ sampled'[r] = sampled[r]
      BY <1>1, <2>3, <3>1 DEF Sample, Push, TypeOK
    <3>4. UNCHANGED <<queue, gone, slot, caller, outcome>>
      BY <2>3 DEF Sample, http, sweep
    <3> QED  BY <3>1, <3>2, <3>3, <3>4 DEF Fresh, Untouched, InQueue
  <2> QED  BY <1>9, <2>1, <2>2, <2>3
<1>10. ASSUME NEW s \in Slots,
              ReleaseCancelled(s) \/ SampleFinish(s) \/ FailSlot(s) \/ DrainSlot(s)
       PROVE  Fresh'
  BY <1>10, FinishFresh DEF ReleaseCancelled, SampleFinish, FailSlot, DrainSlot, Passes
<1> QED  BY <1>2, <1>3, <1>4, <1>5, <1>6, <1>7, <1>8, <1>9, <1>10, CallFresh DEF Next, EngineNext

\* A call answered "the queue is full" or "no slot became free" never ran: nothing was
\* sampled for it and its caller got no piece.
THEOREM TimedOutNeverRan == Spec => []TimedOutUntouched
<1>1. Fresh => TimedOutUntouched
  BY DEF Fresh, Untouched, TimedOutUntouched
<1>2. Inv /\ Fresh /\ [Next]_vars => Fresh'
  BY StepFresh
<1> QED  BY <1>1, <1>2, InitFresh, Invariance, PTL DEF Spec

-----------------------------------------------------------------------------
(* A call returns with all its pieces, in order, and a result.             *)

\* The pieces of a request that produced n of them.
FirstPieces(n) == [i \in 1 .. n |-> i]

\* The engine has nothing to do with r (any more).
Absent(r) ==
    ~InQueue(r) /\ ~Among(r, gone) /\ pub # r /\ \A s \in Slots : slot[s] # r

\* The engine has written how r ended, or its caller may already read it.
Concluded(r) == finished[r] \/ pub = r \/ (Among(r, gone) /\ pc # "settle_pending")

\* What was delivered and what waits to be are the pieces that were produced, in order.
Ordered == \A r \in Requests : delivered[r] \o pieces[r] = FirstPieces(emitted[r])

\* Whoever is told has a result; a call that returned left nothing behind, and nothing touches it.
Answered ==
    \A r \in Requests :
        /\ Concluded(r) => outcome[r] # "none"
        /\ caller[r] = "returned" =>
             /\ Absent(r) /\ pieces[r] = <<>>
             /\ finished[r] \/ outcome[r] \in {"full", "invalid"}

\* The first n pieces and one more are the first n + 1 pieces.
LEMMA FirstPiecesType ==
    ASSUME NEW n \in Nat
    PROVE  /\ FirstPieces(n) \in Seq(Nat) /\ Len(FirstPieces(n)) = n
           /\ Append(FirstPieces(n), n + 1) = FirstPieces(n + 1)
<1>1. \A m \in Nat : FirstPieces(m) \in Seq(Nat) /\ Len(FirstPieces(m)) = m
                     /\ \A i \in 1 .. m : FirstPieces(m)[i] = i
  BY DEF FirstPieces
<1>2. /\ Append(FirstPieces(n), n + 1) \in Seq(Nat)
      /\ Len(Append(FirstPieces(n), n + 1)) = Len(FirstPieces(n)) + 1
      /\ \A i \in 1 .. Len(FirstPieces(n)) : Append(FirstPieces(n), n + 1)[i] = FirstPieces(n)[i]
      /\ Append(FirstPieces(n), n + 1)[Len(FirstPieces(n)) + 1] = n + 1
  BY <1>1, AppendProperties
<1>3. \A i \in 1 .. n + 1 : Append(FirstPieces(n), n + 1)[i] = FirstPieces(n + 1)[i]
  BY <1>1, <1>2
<1>4. Len(Append(FirstPieces(n), n + 1)) = Len(FirstPieces(n + 1))
      /\ FirstPieces(n + 1) \in Seq(Nat) /\ Len(FirstPieces(n + 1)) = n + 1
  BY <1>1, <1>2
<1>5. Append(FirstPieces(n), n + 1) = FirstPieces(n + 1)
  BY <1>2, <1>3, <1>4, SeqEqual
<1> QED  BY <1>1, <1>5

\* A piece that is taken to be delivered stays in its place.
LEMMA TakenInOrder ==
    ASSUME NEW d \in Seq(Nat), NEW p \in Seq(Nat), p # <<>>
    PROVE  Append(d, Head(p)) \o Tail(p) = d \o p
<1>1. Head(p) \in Nat /\ Tail(p) \in Seq(Nat) /\ <<Head(p)>> \in Seq(Nat)
  BY HeadTailProperties
<1>2. <<Head(p)>> \o Tail(p) = p
  <2>1. /\ Len(Tail(p)) = Len(p) - 1 /\ Len(p) \in Nat \ {0} /\ Head(p) = p[1]
        /\ \A i \in 1 .. Len(Tail(p)) : Tail(p)[i] = p[i + 1]
    BY HeadTailProperties, EmptySeq, LenProperties
  <2>2. Len(<<Head(p)>>) = 1 /\ <<Head(p)>>[1] = Head(p)
    OBVIOUS
  <2>3. /\ <<Head(p)>> \o Tail(p) \in Seq(Nat)
        /\ Len(<<Head(p)>> \o Tail(p)) = 1 + Len(Tail(p))
        /\ \A i \in 1 .. 1 + Len(Tail(p)) :
             (<<Head(p)>> \o Tail(p))[i] = IF i <= 1 THEN <<Head(p)>>[i] ELSE Tail(p)[i - 1]
    BY <1>1, <2>2, ConcatProperties
  <2>4. ASSUME NEW i \in 1 .. Len(p)  PROVE (<<Head(p)>> \o Tail(p))[i] = p[i]
    <3>1. CASE i = 1
      BY <2>1, <2>2, <2>3, <3>1
    <3>2. CASE i # 1
      <4>1. ~(i <= 1) /\ i - 1 \in 1 .. Len(Tail(p)) /\ i - 1 + 1 = i /\ i \in 1 .. 1 + Len(Tail(p))
        BY <2>1, <3>2
      <4> QED  BY <2>1, <2>3, <4>1
    <3> QED  BY <3>1, <3>2
  <2>5. Len(<<Head(p)>> \o Tail(p)) = Len(p)
    BY <2>1, <2>3
  <2> QED  BY <2>3, <2>4, <2>5, SeqEqual
<1>3. Append(d, Head(p)) = d \o <<Head(p)>>
  BY <1>1, AppendIsConcat
<1>4. (d \o <<Head(p)>>) \o Tail(p) = d \o (<<Head(p)>> \o Tail(p))
  BY <1>1, ConcatAssociative
<1> QED  BY <1>2, <1>3, <1>4

\* Appending to the second of two sequences appends to both together.
LEMMA ConcatAppend ==
    ASSUME NEW d \in Seq(Nat), NEW p \in Seq(Nat), NEW e \in Nat
    PROVE  d \o Append(p, e) = Append(d \o p, e)
<1>1. <<e>> \in Seq(Nat) /\ d \o p \in Seq(Nat)
  BY ConcatProperties
<1>2. Append(p, e) = p \o <<e>> /\ Append(d \o p, e) = (d \o p) \o <<e>>
  BY <1>1, AppendIsConcat
<1>3. (d \o p) \o <<e>> = d \o (p \o <<e>>)
  BY <1>1, ConcatAssociative
<1> QED  BY <1>2, <1>3

\* A piece that is pushed is the next one.
LEMMA PushedInOrder ==
    ASSUME NEW n \in Nat, NEW d \in Seq(Nat), NEW p \in Seq(Nat), d \o p = FirstPieces(n)
    PROVE  d \o Append(p, n + 1) = FirstPieces(n + 1)
<1>1. n + 1 \in Nat
  OBVIOUS
<1>2. d \o Append(p, n + 1) = Append(d \o p, n + 1)
  BY <1>1, ConcatAppend
<1>3. Append(FirstPieces(n), n + 1) = FirstPieces(n + 1)
  BY FirstPiecesType
<1> QED  BY <1>2, <1>3

\* With nothing left to deliver all was delivered, and nothing is left if nothing was produced.
LEMMA AllDelivered ==
    ASSUME NEW n \in Nat, NEW d \in Seq(Nat), NEW p \in Seq(Nat), d \o p = FirstPieces(n)
    PROVE  /\ p = <<>> => Len(d) = n
           /\ n = 0 => p = <<>>
<1>1. p = <<>> => d = FirstPieces(n)
  BY ConcatEmptySeq
<1>2. Len(FirstPieces(n)) = n /\ FirstPieces(n) \in Seq(Nat)
  BY FirstPiecesType
<1>3. n = 0 => d \o p = <<>>
  BY <1>2, EmptySeq
<1>4. d \o p = <<>> => p = <<>>
  BY ConcatEqualIffEmpty
<1> QED  BY <1>1, <1>2, <1>3, <1>4

\* A request that is finished is nowhere in the engine.
LEMMA FinishedAbsent == ASSUME Inv, NEW r \in Requests, finished[r]  PROVE Absent(r)
<1>1. \A s \in Slots : slot[s] = r => s \in Busy
  BY DEF Busy
<1> QED  BY <1>1 DEF Inv, Exclusive, Absent

\* The engine leaves alone what is nowhere in it.
LEMMA AbsentStep ==
    ASSUME Inv, EngineNext, NEW r \in Requests, Absent(r)
    PROVE  /\ Absent(r)'
           /\ outcome'[r] = outcome[r] /\ pieces'[r] = pieces[r] /\ emitted'[r] = emitted[r]
           /\ finished'[r] = finished[r]
<1>1. TypeOK /\ Control /\ Sweeping
  BY DEF Inv
<1>2. ~InQueue(r) /\ ~Among(r, gone) /\ pub # r /\ \A s \in Slots : slot[s] # r
  BY DEF Absent
<1>3. CASE Tick \/ Sweep \/ SweepCheckDone \/ Build \/ TickFails
  BY <1>2, <1>3 DEF Tick, Sweep, SweepCheckDone, Build, TickFails, shared, http, sweep, Absent, InQueue
<1>4. CASE SweepCheck
  <2>1. Head(scan) \in Requests /\ Among(Head(scan), scan)
    BY <1>1, <1>4, TailElements DEF SweepCheck, TypeOK
  <2>2. Head(scan) # r
    BY <1>1, <1>2, <1>4, <2>1 DEF SweepCheck, Sweeping
  <2>3. gone' = gone \/ gone' = Append(gone, Head(scan))
    BY <1>4 DEF SweepCheck
  <2>4. ~Among(r, gone')
    <3>1. \A x : Among(x, Append(gone, Head(scan))) <=> Among(x, gone) \/ x = Head(scan)
      <4>1. gone \in Seq(Requests)
        BY <1>1 DEF TypeOK
      <4> QED  BY <2>1, <4>1, AppendElements
    <3> QED  BY <1>2, <2>2, <2>3, <3>1
  <2>5. outcome'[r] = outcome[r]
    BY <1>1, <1>4, <2>2 DEF SweepCheck, TypeOK
  <2> QED  BY <1>2, <1>4, <2>4, <2>5 DEF SweepCheck, Absent, InQueue
<1>5. CASE SweepErase
  <2>1. PICK i \in DOMAIN queue : queue' = Cut(queue, i)
    BY <1>5 DEF SweepErase
  <2>2. \A x : Among(x, queue') => Among(x, queue)
    BY <1>1, <2>1, CutElements DEF TypeOK
  <2> QED  BY <1>2, <1>5, <2>2 DEF SweepErase, Absent, InQueue
<1>6. CASE SettleGone \/ SettlePending
  <2>1. /\ Head(gone) \in Requests /\ Among(Head(gone), gone)
        /\ \A x : Among(x, gone) <=> Among(x, Tail(gone)) \/ x = Head(gone)
    BY <1>1, <1>6, TailElements DEF SettleGone, SettlePending, TypeOK, Control
  <2>2. Head(gone) # r /\ ~Among(r, Tail(gone))
    BY <1>2, <2>1
  <2> QED  BY <1>1, <1>2, <1>6, <2>2 DEF SettleGone, SettlePending, TypeOK, Absent, InQueue
<1>7. CASE AdmitCancelled
  <2>1. /\ Head(queue) \in Requests /\ Among(Head(queue), queue)
        /\ \A x : Among(x, queue) <=> Among(x, Tail(queue)) \/ x = Head(queue)
    BY <1>1, <1>7, TailElements DEF AdmitCancelled, AtHead, TypeOK
  <2>2. Head(queue) # r /\ ~Among(r, Tail(queue))
    BY <1>2, <2>1 DEF InQueue
  <2> QED  BY <1>1, <1>2, <1>7, <2>2 DEF AdmitCancelled, TypeOK, Absent, InQueue, sweep
<1>8. CASE DrainQueue
  <2>1. gone' = queue /\ \A x : ~Among(x, queue')
    BY <1>8, EmptyElements DEF DrainQueue, Pending
  <2> QED  BY <1>2, <1>8, <2>1 DEF DrainQueue, Absent, InQueue
<1>9. CASE Publish
  BY <1>1, <1>2, <1>9 DEF Publish, TypeOK, Absent, InQueue, sweep
<1>10. ASSUME NEW s \in Slots, pc \in Passes, Visit(s), NEW kind, Finish(s, kind)
       PROVE  /\ Absent(r)'
              /\ outcome'[r] = outcome[r] /\ pieces'[r] = pieces[r] /\ emitted'[r] = emitted[r]
              /\ finished'[r] = finished[r]
  <2>1. slot[s] \in Requests /\ slot[s] # r
    BY <1>2, <1>10, VisitLeaves
  <2>2. outcome'[r] = outcome[r] /\ pieces'[r] = pieces[r] /\ emitted'[r] = emitted[r]
    BY <1>1, <1>10, <2>1 DEF Finish, Push, TypeOK
  <2>3. \A t \in Slots : slot'[t] # r
    BY <1>1, <1>2, <1>10 DEF Finish, TypeOK
  <2> QED  BY <1>2, <1>10, <2>1, <2>2, <2>3 DEF Finish, Absent, InQueue, sweep
<1>11. ASSUME NEW s \in Slots, KeepSlot(s) \/ Admit(s) \/ Sample(s)
       PROVE  /\ Absent(r)'
              /\ outcome'[r] = outcome[r] /\ pieces'[r] = pieces[r] /\ emitted'[r] = emitted[r]
              /\ finished'[r] = finished[r]
  <2>1. CASE KeepSlot(s)
    BY <1>2, <2>1 DEF KeepSlot, Absent, InQueue, shared, http, sweep
  <2>2. CASE Admit(s)
    <3>1. /\ Head(queue) \in Requests /\ Among(Head(queue), queue)
          /\ \A x : Among(x, queue) <=> Among(x, Tail(queue)) \/ x = Head(queue)
      BY <1>1, <2>2, TailElements DEF Admit, AtHead, TypeOK
    <3>2. Head(queue) # r /\ ~Among(r, Tail(queue))
      BY <1>2, <3>1 DEF InQueue
    <3>3. \A t \in Slots : slot'[t] # r
      BY <1>1, <1>2, <2>2, <3>2 DEF Admit, TypeOK
    <3> QED  BY <1>2, <2>2, <3>2, <3>3 DEF Admit, Popped, Absent, InQueue, http, sweep
  <2>3. CASE Sample(s)
    <3>1. slot[s] \in Requests /\ slot[s] # r
      BY <1>2, <2>3, VisitLeaves DEF Sample, Passes
    <3>2. pieces'[r] = pieces[r] /\ emitted'[r] = emitted[r]
      BY <1>1, <2>3, <3>1 DEF Sample, Push, TypeOK
    <3> QED  BY <1>2, <2>3, <3>2 DEF Sample, Absent, InQueue, http, sweep
  <2> QED  BY <1>11, <2>1, <2>2, <2>3
<1>12. ASSUME NEW s \in Slots,
              ReleaseCancelled(s) \/ SampleFinish(s) \/ FailSlot(s) \/ DrainSlot(s)
       PROVE  \E kind : pc \in Passes /\ Visit(s) /\ Finish(s, kind)
  BY <1>12 DEF ReleaseCancelled, SampleFinish, FailSlot, DrainSlot, Passes
<1> QED  BY <1>3, <1>4, <1>5, <1>6, <1>7, <1>8, <1>9, <1>10, <1>11, <1>12, Zenon DEF EngineNext

LEMMA InitWhole == Init => Ordered /\ Answered
<1> SUFFICES ASSUME Init  PROVE Ordered /\ Answered
  OBVIOUS
<1>1. FirstPieces(0) = <<>>
  BY FirstPiecesType, EmptySeq
<1>2. <<>> \o <<>> = <<>> /\ <<>> \in Seq(Nat)
  BY ConcatEmptySeq, EmptySeq
<1>3. Ordered
  BY <1>1, <1>2 DEF Init, Ordered
<1>4. Answered
  BY EmptyElements DEF Init, Answered, Concluded
<1> QED  BY <1>3, <1>4

\* The engine produces pieces one at a time, and leaves the calls to the HTTP threads.
LEMMA EnginePushes ==
    ASSUME Inv, EngineNext
    PROVE  /\ UNCHANGED <<caller, delivered>>
           /\ \A r \in Requests :
                \/ pieces'[r] = pieces[r] /\ emitted'[r] = emitted[r]
                \/ pieces'[r] = Append(pieces[r], emitted[r] + 1) /\ emitted'[r] = emitted[r] + 1
<1>1. TypeOK
  BY DEF Inv
<1>2. CASE UNCHANGED <<caller, delivered, pieces, emitted>>
  BY <1>2
<1>3. ASSUME NEW r \in Requests, NEW some, Push(r, some), UNCHANGED <<caller, delivered>>
      PROVE  /\ UNCHANGED <<caller, delivered>>
             /\ \A x \in Requests :
                  \/ pieces'[x] = pieces[x] /\ emitted'[x] = emitted[x]
                  \/ pieces'[x] = Append(pieces[x], emitted[x] + 1) /\ emitted'[x] = emitted[x] + 1
  <2>1. CASE some
    <3>1. /\ pieces' = [pieces EXCEPT ![r] = Append(pieces[r], emitted[r] + 1)]
          /\ emitted' = [emitted EXCEPT ![r] = emitted[r] + 1]
      BY <1>3, <2>1 DEF Push
    <3>2. DOMAIN pieces = Requests /\ DOMAIN emitted = Requests
      BY <1>1 DEF TypeOK
    <3> QED  BY <1>3, <3>1, <3>2, Zenon
  <2>2. CASE ~some
    BY <1>3, <2>2 DEF Push
  <2> QED  BY <2>1, <2>2
<1>4. CASE Tick \/ Sweep \/ SweepCheck \/ SweepCheckDone \/ SweepErase \/ SettleGone
  BY <1>2, <1>4 DEF Tick, Sweep, SweepCheck, SweepCheckDone, SweepErase, SettleGone, shared, http
<1>5. CASE AdmitCancelled \/ Build \/ TickFails \/ DrainQueue \/ SettlePending \/ Publish
  BY <1>2, <1>5 DEF AdmitCancelled, Build, TickFails, DrainQueue, SettlePending, Publish, shared, http
<1>6. ASSUME NEW s \in Slots, pc \in Passes, Visit(s), NEW kind, Finish(s, kind)
      PROVE  \E r \in Requests, some \in BOOLEAN : Push(r, some) /\ UNCHANGED <<caller, delivered>>
  BY <1>6, VisitLeaves DEF Finish, Flushes, http
<1>7. ASSUME NEW s \in Slots, KeepSlot(s) \/ Admit(s)
      PROVE  UNCHANGED <<caller, delivered, pieces, emitted>>
  BY <1>7 DEF KeepSlot, Admit, shared, http
<1>8. ASSUME NEW s \in Slots, Sample(s)
      PROVE  \E r \in Requests, some \in BOOLEAN : Push(r, some) /\ UNCHANGED <<caller, delivered>>
  BY <1>8, VisitLeaves DEF Sample, Passes, Flushes, http
<1>9. ASSUME NEW s \in Slots,
             ReleaseCancelled(s) \/ SampleFinish(s) \/ FailSlot(s) \/ DrainSlot(s)
      PROVE  \E kind : pc \in Passes /\ Visit(s) /\ Finish(s, kind)
  BY <1>9 DEF ReleaseCancelled, SampleFinish, FailSlot, DrainSlot, Passes
<1>10. ASSUME NEW s \in Slots,
              \/ ReleaseCancelled(s) \/ KeepSlot(s) \/ Admit(s)
              \/ Sample(s) \/ SampleFinish(s) \/ FailSlot(s) \/ DrainSlot(s)
       PROVE  \/ UNCHANGED <<caller, delivered, pieces, emitted>>
              \/ \E r \in Requests, some \in BOOLEAN :
                   Push(r, some) /\ UNCHANGED <<caller, delivered>>
  BY <1>6, <1>7, <1>8, <1>9, <1>10
<1> QED  BY <1>2, <1>3, <1>4, <1>5, <1>10 DEF EngineNext

\* The engine ends nobody without a result.
LEMMA EngineConcludes ==
    ASSUME Inv, EngineNext, NEW r \in Requests, Concluded(r) => outcome[r] # "none"
    PROVE  Concluded(r)' => outcome'[r] # "none"
<1>1. TypeOK /\ Control
  BY DEF Inv
<1>2. ASSUME UNCHANGED <<finished, pub, gone, outcome>>, pc # "settle_pending"
      PROVE  Concluded(r)' => outcome'[r] # "none"
  BY <1>2 DEF Concluded
<1>3. CASE Tick \/ Sweep \/ SweepCheckDone \/ SweepErase \/ Build \/ TickFails
  BY <1>2, <1>3 DEF Tick, Sweep, SweepCheckDone, SweepErase, Build, TickFails, shared, sweep
<1>4. CASE SweepCheck
  <2>1. Head(scan) \in Requests
    BY <1>1, <1>4, TailElements DEF SweepCheck, TypeOK
  <2>2. CASE gone' = gone /\ outcome' = outcome
    BY <1>4, <2>2 DEF SweepCheck, Concluded
  <2>3. CASE /\ gone' = Append(gone, Head(scan))
             /\ outcome' \in {[outcome EXCEPT ![Head(scan)] = "cancel"],
                              [outcome EXCEPT ![Head(scan)] = "timeout"]}
    <3>1. \A x : Among(x, gone') <=> Among(x, gone) \/ x = Head(scan)
      <4>1. gone \in Seq(Requests)
        BY <1>1 DEF TypeOK
      <4> QED  BY <2>1, <2>3, <4>1, AppendElements
    <3>2. outcome'[Head(scan)] # "none" /\ (r # Head(scan) => outcome'[r] = outcome[r])
      BY <1>1, <2>1, <2>3 DEF TypeOK
    <3> QED  BY <1>4, <3>1, <3>2 DEF SweepCheck, Concluded
  <2> QED  BY <1>4, <2>2, <2>3 DEF SweepCheck
<1>5. CASE SettleGone \/ SettlePending
  <2>1. /\ Head(gone) \in Requests /\ Among(Head(gone), gone)
        /\ \A x : Among(x, gone) <=> Among(x, Tail(gone)) \/ x = Head(gone)
        /\ Len(gone) = 1 <=> Tail(gone) = <<>>
    BY <1>1, <1>5, TailElements DEF SettleGone, SettlePending, TypeOK, Control
  <2>2. CASE SettleGone
    <3>1. /\ gone' = Tail(gone) /\ finished' = [finished EXCEPT ![Head(gone)] = TRUE]
          /\ UNCHANGED <<outcome, pub>> /\ pc = "settle"
      BY <2>2 DEF SettleGone
    <3>2. finished'[r] => finished[r] \/ r = Head(gone)
      BY <1>1, <2>1, <3>1 DEF TypeOK
    <3> QED  BY <2>1, <3>1, <3>2 DEF Concluded
  <2>3. CASE SettlePending
    <3>1. /\ gone' = Tail(gone) /\ finished' = [finished EXCEPT ![Head(gone)] = TRUE]
          /\ outcome' = [outcome EXCEPT ![Head(gone)] = "shutdown"]
          /\ pub' = pub /\ pc' = IF Len(gone) = 1 THEN "exited" ELSE "settle_pending"
      BY <2>3 DEF SettlePending
    <3>2. pc' # "settle_pending" => ~Among(r, gone')
      BY <2>1, <3>1, EmptyElements
    <3>3. r # Head(gone) => finished'[r] = finished[r] /\ outcome'[r] = outcome[r]
      BY <1>1, <2>1, <3>1 DEF TypeOK
    <3>4. outcome'[Head(gone)] # "none"
      BY <1>1, <2>1, <3>1 DEF TypeOK
    <3> QED  BY <3>1, <3>2, <3>3, <3>4 DEF Concluded
  <2> QED  BY <1>5, <2>2, <2>3
<1>6. CASE AdmitCancelled
  <2>1. Head(queue) \in Requests
    BY <1>1, <1>6, TailElements DEF AdmitCancelled, AtHead, TypeOK
  <2>2. /\ outcome' = [outcome EXCEPT ![Head(queue)] = "cancel"] /\ pub' = Head(queue)
        /\ UNCHANGED <<finished, gone>> /\ pc = "admit"
    BY <1>6 DEF AdmitCancelled, AtHead, sweep
  <2>3. outcome'[Head(queue)] # "none" /\ (r # Head(queue) => outcome'[r] = outcome[r])
    BY <1>1, <2>1, <2>2 DEF TypeOK
  <2> QED  BY <2>2, <2>3 DEF Concluded
<1>7. CASE DrainQueue
  <2>1. /\ gone' = queue /\ UNCHANGED <<finished, outcome, pub>>
        /\ pc' = IF gone' = <<>> THEN "exited" ELSE "settle_pending"
    BY <1>7 DEF DrainQueue, Pending
  <2>2. pc' # "settle_pending" => ~Among(r, gone')
    BY <2>1, EmptyElements
  <2> QED  BY <2>1, <2>2 DEF Concluded
<1>8. CASE Publish
  <2>1. pub \in Requests /\ gone = <<>>
    BY <1>1, <1>8 DEF Publish, Control, TypeOK
  <2>2. /\ finished' = [finished EXCEPT ![pub] = TRUE] /\ pub' = NoRequest
        /\ UNCHANGED <<outcome, gone>>
    BY <1>8 DEF Publish, sweep
  <2>3. finished'[r] => finished[r] \/ r = pub
    BY <1>1, <2>1, <2>2 DEF TypeOK
  <2> QED  BY <2>1, <2>2, <2>3, EmptyElements DEF Concluded
<1>9. ASSUME NEW s \in Slots, pc \in Passes, Visit(s),
             NEW kind \in {"ok", "error", "cancel", "shutdown"}, Finish(s, kind)
      PROVE  Concluded(r)' => outcome'[r] # "none"
  <2>1. slot[s] \in Requests
    BY <1>9, VisitLeaves
  <2>2. /\ outcome' = [outcome EXCEPT ![slot[s]] = kind] /\ pub' = slot[s]
        /\ UNCHANGED <<finished, gone>> /\ pc # "settle_pending"
    BY <1>9 DEF Finish, sweep, Passes
  <2>3. outcome'[slot[s]] # "none" /\ (r # slot[s] => outcome'[r] = outcome[r])
    BY <1>1, <1>9, <2>1, <2>2 DEF TypeOK
  <2> QED  BY <2>2, <2>3 DEF Concluded
<1>10. ASSUME NEW s \in Slots, KeepSlot(s) \/ Admit(s) \/ Sample(s)
       PROVE  UNCHANGED <<finished, pub, gone, outcome>> /\ pc # "settle_pending"
  BY <1>10 DEF KeepSlot, Admit, AtHead, Sample, shared, sweep
<1>11. ASSUME NEW s \in Slots,
              ReleaseCancelled(s) \/ SampleFinish(s) \/ FailSlot(s) \/ DrainSlot(s)
       PROVE  \E kind \in {"ok", "error", "cancel", "shutdown"} :
                pc \in Passes /\ Visit(s) /\ Finish(s, kind)
  BY <1>11 DEF ReleaseCancelled, SampleFinish, FailSlot, DrainSlot, Passes
<1> QED  BY <1>2, <1>3, <1>4, <1>5, <1>6, <1>7, <1>8, <1>9, <1>10, <1>11 DEF EngineNext

\* An action of a call keeps what its pieces, its result and its return promise.
LEMMA CallWhole ==
    ASSUME Inv, Fresh, Ordered, Answered, NEW c \in Requests,
           \/ Refuse(c) \/ Reject(c) \/ Enqueue(c)
           \/ Heartbeat(c) \/ CallerNext(c)
    PROVE  Ordered' /\ Answered'
<1>1. TypeOK
  BY DEF Inv
<1>2. CASE Refuse(c) \/ Reject(c)
  <2>1. /\ caller[c] = "new" /\ caller' = [caller EXCEPT ![c] = "returned"]
        /\ outcome' \in {[outcome EXCEPT ![c] = "invalid"], [outcome EXCEPT ![c] = "full"]}
        /\ UNCHANGED <<queue, pieces, finished, delivered, pc, slot, gone, pub, emitted>>
    BY <1>2 DEF Refuse, Reject, engine
  <2>2. Absent(c) /\ ~Concluded(c)
    BY <2>1 DEF Inv, Submitted, Absent, Concluded
  <2>3. pieces[c] = <<>>
    <3>1. emitted[c] = 0
      BY <2>1 DEF Fresh, Untouched
    <3>2. delivered[c] \o pieces[c] = FirstPieces(emitted[c])
      BY DEF Ordered
    <3>3. emitted[c] = 0 => pieces[c] = <<>>
      BY <1>1, <3>2, AllDelivered DEF TypeOK
    <3> QED  BY <3>1, <3>3
  <2>4. \A r \in Requests : (Absent(r)' <=> Absent(r)) /\ (Concluded(r)' <=> Concluded(r))
    BY <2>1 DEF Absent, Concluded, InQueue
  <2>5. \A r \in Requests : r # c => outcome'[r] = outcome[r] /\ caller'[r] = caller[r]
    BY <1>1, <2>1 DEF TypeOK
  <2>6. outcome'[c] \in {"full", "invalid"}
    BY <1>1, <2>1 DEF TypeOK
  <2>7. Answered'
    <3> SUFFICES ASSUME NEW r \in Requests
                 PROVE  /\ Concluded(r)' => outcome'[r] # "none"
                        /\ caller'[r] = "returned" =>
                             /\ Absent(r)' /\ pieces'[r] = <<>>
                             /\ finished'[r] \/ outcome'[r] \in {"full", "invalid"}
      BY DEF Answered
    <3>1. CASE r = c
      BY <2>1, <2>2, <2>3, <2>4, <2>6, <3>1
    <3>2. CASE r # c
      BY <2>1, <2>4, <2>5, <3>2 DEF Answered
    <3> QED  BY <3>1, <3>2
  <2> QED  BY <2>1, <2>7 DEF Ordered
<1>3. CASE Enqueue(c)
  <2>1. /\ caller[c] = "new" /\ queue' = Append(queue, c)
        /\ caller' = [caller EXCEPT ![c] = "wait"]
        /\ UNCHANGED <<pieces, finished, outcome, delivered, pc, slot, gone, pub, emitted>>
    BY <1>3 DEF Enqueue, Joined, engine
  <2>2. \A x : Among(x, queue') <=> Among(x, queue) \/ x = c
    <3>1. queue \in Seq(Requests)
      BY <1>1 DEF TypeOK
    <3> QED  BY <2>1, <3>1, AppendElements
  <2>3. \A r \in Requests : /\ r # c /\ Absent(r) => Absent(r)'
                            /\ Concluded(r)' <=> Concluded(r)
    BY <2>1, <2>2 DEF Absent, Concluded, InQueue
  <2>4. caller'[c] = "wait" /\ \A r \in Requests : r # c => caller'[r] = caller[r]
    BY <1>1, <2>1 DEF TypeOK
  <2> QED  BY <2>1, <2>3, <2>4 DEF Ordered, Answered
<1>4. CASE Heartbeat(c)
  <2>1. /\ caller' = [caller EXCEPT ![c] = "callback"]
        /\ UNCHANGED <<queue, pieces, finished, outcome, delivered, pc, slot, gone, pub, emitted>>
    BY <1>4 DEF Heartbeat, shared, engine
  <2>2. \A r \in Requests : (Absent(r)' <=> Absent(r)) /\ (Concluded(r)' <=> Concluded(r))
    BY <2>1 DEF Absent, Concluded, InQueue
  <2>3. \A r \in Requests : caller'[r] = "returned" => caller[r] = "returned"
    BY <1>1, <2>1 DEF TypeOK
  <2> QED  BY <2>1, <2>2, <2>3 DEF Ordered, Answered
<1>5. CASE CallerNext(c)
  <2>1. /\ caller[c] # "returned" /\ Take(c)
        /\ UNCHANGED <<queue, finished, outcome, pc, slot, gone, pub, emitted>>
    BY <1>5 DEF CallerNext, Wake, CallbackReturns, engine
  <2>2. \A r \in Requests : (Absent(r)' <=> Absent(r)) /\ (Concluded(r)' <=> Concluded(r))
    BY <2>1 DEF Absent, Concluded, InQueue
  <2>3. CASE pieces[c] = <<>>
    <3>1. /\ UNCHANGED <<pieces, delivered>>
          /\ caller' = [caller EXCEPT ![c] = IF finished[c] THEN "returned" ELSE "wait"]
      BY <2>1, <2>3 DEF Take
    <3>2. /\ caller'[c] = "returned" => finished[c]
          /\ \A r \in Requests : r # c => caller'[r] = caller[r]
      BY <1>1, <3>1 DEF TypeOK
    <3>3. finished[c] => Absent(c)
      BY FinishedAbsent
    <3>4. Answered'
      <4> SUFFICES ASSUME NEW r \in Requests
                   PROVE  /\ Concluded(r)' => outcome'[r] # "none"
                          /\ caller'[r] = "returned" =>
                               /\ Absent(r)' /\ pieces'[r] = <<>>
                               /\ finished'[r] \/ outcome'[r] \in {"full", "invalid"}
        BY DEF Answered
      <4>1. CASE r = c
        BY <2>1, <2>2, <2>3, <3>1, <3>2, <3>3, <4>1 DEF Answered
      <4>2. CASE r # c
        BY <2>1, <2>2, <3>1, <3>2, <4>2 DEF Answered
      <4> QED  BY <4>1, <4>2
    <3> QED  BY <2>1, <3>1, <3>4 DEF Ordered
  <2>4. CASE pieces[c] # <<>>
    <3>1. /\ pieces' = [pieces EXCEPT ![c] = Tail(pieces[c])]
          /\ delivered' = [delivered EXCEPT ![c] = Append(delivered[c], Head(pieces[c]))]
          /\ caller' = [caller EXCEPT ![c] = "callback"]
      BY <2>1, <2>4 DEF Take
    <3>2. DOMAIN pieces = Requests /\ DOMAIN delivered = Requests /\ DOMAIN caller = Requests
      BY <1>1 DEF TypeOK
    <3>3. /\ pieces'[c] = Tail(pieces[c]) /\ delivered'[c] = Append(delivered[c], Head(pieces[c]))
          /\ caller'[c] = "callback"
          /\ \A r \in Requests : r # c => /\ pieces'[r] = pieces[r] /\ delivered'[r] = delivered[r]
                                          /\ caller'[r] = caller[r]
      BY <3>1, <3>2, Zenon
    <3>4. Append(delivered[c], Head(pieces[c])) \o Tail(pieces[c]) = delivered[c] \o pieces[c]
      BY <1>1, <2>4, TakenInOrder DEF TypeOK
    <3>5. Ordered'
      <4> SUFFICES ASSUME NEW r \in Requests
                   PROVE  delivered'[r] \o pieces'[r] = FirstPieces(emitted'[r])
        BY DEF Ordered
      <4>1. emitted'[r] = emitted[r] /\ delivered[r] \o pieces[r] = FirstPieces(emitted[r])
        BY <2>1 DEF Ordered
      <4>2. CASE r = c
        BY <3>3, <3>4, <4>1, <4>2, Zenon
      <4>3. CASE r # c
        BY <3>3, <4>1, <4>3, Zenon
      <4> QED  BY <4>2, <4>3
    <3>6. Answered'
      BY <2>1, <2>2, <3>3 DEF Answered
    <3> QED  BY <3>5, <3>6
  <2> QED  BY <2>3, <2>4
<1> QED  BY <1>2, <1>3, <1>4, <1>5

\* So does every step.
LEMMA StepWhole == ASSUME Inv, Fresh, Ordered, Answered, [Next]_vars  PROVE Ordered' /\ Answered'
<1>1. TypeOK
  BY DEF Inv
<1>2. CASE EngineNext
  <2>1. Ordered'
    <3> SUFFICES ASSUME NEW r \in Requests
                 PROVE  delivered'[r] \o pieces'[r] = FirstPieces(emitted'[r])
      BY DEF Ordered
    <3>1. delivered' = delivered /\ delivered[r] \o pieces[r] = FirstPieces(emitted[r])
      BY <1>2, EnginePushes DEF Ordered
    <3>2. CASE pieces'[r] = pieces[r] /\ emitted'[r] = emitted[r]
      BY <3>1, <3>2, Zenon
    <3>3. CASE pieces'[r] = Append(pieces[r], emitted[r] + 1) /\ emitted'[r] = emitted[r] + 1
      <4>1. delivered[r] \o Append(pieces[r], emitted[r] + 1) = FirstPieces(emitted[r] + 1)
        BY <1>1, <3>1, PushedInOrder DEF TypeOK
      <4> QED  BY <3>1, <3>3, <4>1, Zenon
    <3> QED  BY <1>2, <3>2, <3>3, EnginePushes
  <2>2. Answered'
    <3> SUFFICES ASSUME NEW r \in Requests
                 PROVE  /\ Concluded(r)' => outcome'[r] # "none"
                        /\ caller'[r] = "returned" =>
                             /\ Absent(r)' /\ pieces'[r] = <<>>
                             /\ finished'[r] \/ outcome'[r] \in {"full", "invalid"}
      BY DEF Answered
    <3>1. Concluded(r)' => outcome'[r] # "none"
      BY <1>2, EngineConcludes DEF Answered
    <3>2. caller' = caller
      BY <1>2, EnginePushes
    <3>3. caller[r] = "returned" =>
            /\ Absent(r) /\ pieces[r] = <<>>
            /\ finished[r] \/ outcome[r] \in {"full", "invalid"}
      BY DEF Answered
    <3>4. Absent(r) => /\ Absent(r)' /\ outcome'[r] = outcome[r] /\ pieces'[r] = pieces[r]
                       /\ finished'[r] = finished[r]
      BY <1>2, AbsentStep
    <3> QED  BY <3>1, <3>2, <3>3, <3>4, Zenon
  <2> QED  BY <2>1, <2>2
<1>3. CASE Shutdown \/ Quiet \/ UNCHANGED vars
  <2>1. UNCHANGED <<queue, pieces, finished, outcome, caller, delivered, pc, slot, gone, pub, emitted>>
    BY <1>3 DEF Shutdown, Quiet, vars, shared, http, engine
  <2> QED  BY <2>1 DEF Ordered, Answered, Absent, Concluded, InQueue
<1> QED  BY <1>2, <1>3, CallWhole DEF Next

\* The pieces of a call reach its callback in order, none lost and none twice, whatever the
\* threads do in between; when generate() returns it has delivered every one of them and its
\* result says how it ended.
THEOREM AnsweredInFull == Spec => []AnsweredWhole
<1>1. Inv /\ Fresh /\ Ordered /\ Answered => AnsweredWhole
  <2> SUFFICES ASSUME Inv, Ordered, Answered, NEW r \in Requests
               PROVE  /\ delivered[r] \o pieces[r] = [i \in 1 .. emitted[r] |-> i]
                      /\ caller[r] = "returned" =>
                           /\ Len(delivered[r]) = emitted[r]
                           /\ outcome[r] # "none"
                           /\ finished[r] \/ outcome[r] \in {"full", "invalid"}
    BY DEF AnsweredWhole
  <2>1. delivered[r] \o pieces[r] = FirstPieces(emitted[r])
    BY DEF Ordered
  <2>2. caller[r] = "returned" => Len(delivered[r]) = emitted[r]
    BY <2>1, AllDelivered DEF Answered, Inv, TypeOK
  <2> QED  BY <2>1, <2>2 DEF FirstPieces, Answered, Concluded
<1>2. Inv /\ Fresh /\ Ordered /\ Answered /\ [Next]_vars => Ordered' /\ Answered'
  BY StepWhole
<1>3. Inv /\ Fresh /\ [Next]_vars => Fresh'
  BY StepFresh
<1> QED  BY <1>1, <1>2, <1>3, InitFresh, InitWhole, Invariance, PTL DEF Spec

-----------------------------------------------------------------------------
(* The counters behind /metrics.                                           *)

Full     == {r \in Requests : outcome[r] = "full"}
TimedOut == {r \in Requests : finished[r] /\ outcome[r] = "timeout"}

\* Each counter is the size of the set it counts.  A refused call is over, so its result stays;
\* the request about to be published did not time out, so its flag adds nobody to the set.
Counted ==
    /\ IsFiniteSet(Full) /\ metrics.rejected = Cardinality(Full)
    /\ IsFiniteSet(TimedOut) /\ metrics.timed_out = Cardinality(TimedOut)
    /\ \A r \in Requests : outcome[r] = "full" => caller[r] = "returned"
    /\ pub # NoRequest => outcome[pub] # "timeout"

LEMMA InitCounted == Init => Counted
<1> SUFFICES ASSUME Init  PROVE Counted
  OBVIOUS
<1>1. Full = {} /\ TimedOut = {}
  BY DEF Init, Full, TimedOut
<1>2. IsFiniteSet({}) /\ Cardinality({}) = 0
  BY FS_EmptySet
<1> QED  BY <1>1, <1>2 DEF Init, Counted

\* A field of the counters is changed alone.
LEMMA FieldsApart ==
    ASSUME NEW m \in [processing : Nat, rejected : Nat, timed_out : Nat], NEW n
    PROVE  /\ [m EXCEPT !.processing = n].rejected = m.rejected
           /\ [m EXCEPT !.processing = n].timed_out = m.timed_out
           /\ [m EXCEPT !.rejected = n].rejected = n
           /\ [m EXCEPT !.rejected = n].timed_out = m.timed_out
           /\ [m EXCEPT !.timed_out = n].rejected = m.rejected
           /\ [m EXCEPT !.timed_out = n].timed_out = n
OBVIOUS

\* The engine refuses nobody; but for the sweep telling what it dropped, it ends nobody by timeout.
LEMMA EngineCounts ==
    ASSUME Inv, Counted, EngineNext
    PROVE  /\ metrics'.rejected = metrics.rejected
           /\ \A r \in Requests : outcome'[r] \in {"full", "invalid"} => outcome'[r] = outcome[r]
           /\ pub' # NoRequest => outcome'[pub'] # "timeout"
           /\ ~SettleGone =>
                /\ metrics'.timed_out = metrics.timed_out
                /\ \A r \in Requests : finished'[r] /\ outcome'[r] = "timeout" => finished[r]
<1> DEFINE Goal == /\ metrics'.rejected = metrics.rejected
                   /\ \A r \in Requests :
                        outcome'[r] \in {"full", "invalid"} => outcome'[r] = outcome[r]
                   /\ pub' # NoRequest => outcome'[pub'] # "timeout"
                   /\ ~SettleGone =>
                        /\ metrics'.timed_out = metrics.timed_out
                        /\ \A r \in Requests :
                             finished'[r] /\ outcome'[r] = "timeout" => finished[r]
<1>1. TypeOK /\ Control
  BY DEF Inv
<1>2. ASSUME UNCHANGED <<finished, pub, outcome>>,
             metrics'.rejected = metrics.rejected, metrics'.timed_out = metrics.timed_out
      PROVE  Goal
  BY <1>2 DEF Counted
<1>3. CASE Tick \/ Sweep \/ SweepCheckDone \/ SweepErase \/ Build \/ TickFails \/ DrainQueue
  BY <1>2, <1>3 DEF Tick, Sweep, SweepCheckDone, SweepErase, Build, TickFails, DrainQueue, shared
<1>4. CASE SweepCheck
  <2>1. \/ outcome' = outcome
        \/ outcome' \in {[outcome EXCEPT ![Head(scan)] = "cancel"],
                         [outcome EXCEPT ![Head(scan)] = "timeout"]}
    BY <1>4 DEF SweepCheck
  <2>2. UNCHANGED <<finished, pub, metrics>> /\ pub = NoRequest
    BY <1>1, <1>4 DEF SweepCheck, Control
  <2>3. \A r \in Requests : outcome'[r] \in {"full", "invalid"} => outcome'[r] = outcome[r]
    BY <1>1, <2>1 DEF TypeOK
  <2> QED  BY <2>2, <2>3
<1>5. CASE SettleGone
  <2>1. UNCHANGED <<pub, outcome>> /\ metrics' = Told(Head(gone))
    BY <1>5 DEF SettleGone
  <2>2. metrics'.rejected = metrics.rejected
    BY <1>1, <2>1, FieldsApart DEF Told, TypeOK
  <2> QED  BY <1>5, <2>1, <2>2 DEF Counted
<1>6. CASE SettlePending
  <2>1. /\ outcome' = [outcome EXCEPT ![Head(gone)] = "shutdown"]
        /\ finished' = [finished EXCEPT ![Head(gone)] = TRUE]
        /\ UNCHANGED <<pub, metrics>> /\ pub = NoRequest
    BY <1>1, <1>6 DEF SettlePending, Control
  <2>2. \A r \in Requests : /\ outcome'[r] \in {"full", "invalid"} => outcome'[r] = outcome[r]
                            /\ finished'[r] /\ outcome'[r] = "timeout" => finished[r]
    BY <1>1, <2>1 DEF TypeOK
  <2> QED  BY <2>1, <2>2
<1>7. CASE AdmitCancelled
  <2>1. Head(queue) \in Requests
    BY <1>1, <1>7, TailElements DEF AdmitCancelled, AtHead, TypeOK
  <2>2. /\ outcome' = [outcome EXCEPT ![Head(queue)] = "cancel"] /\ pub' = Head(queue)
        /\ UNCHANGED <<finished, metrics>>
    BY <1>7 DEF AdmitCancelled
  <2>3. /\ outcome'[Head(queue)] = "cancel"
        /\ \A r \in Requests : outcome'[r] \in {"full", "invalid"} => outcome'[r] = outcome[r]
    BY <1>1, <2>1, <2>2 DEF TypeOK
  <2> QED  BY <2>2, <2>3
<1>8. CASE Publish
  <2>1. /\ pub \in Requests /\ pub' = NoRequest /\ UNCHANGED <<outcome, metrics>>
        /\ finished' = [finished EXCEPT ![pub] = TRUE]
    BY <1>1, <1>8 DEF Publish, Control, TypeOK
  <2>2. \A r \in Requests : finished'[r] => finished[r] \/ r = pub
    BY <1>1, <2>1 DEF TypeOK
  <2>3. outcome[pub] # "timeout"
    BY <2>1 DEF Counted
  <2> QED  BY <2>1, <2>2, <2>3
<1>9. ASSUME NEW s \in Slots, pc \in Passes, Visit(s),
             NEW kind \in {"ok", "error", "cancel", "shutdown"}, Finish(s, kind)
      PROVE  Goal
  <2>1. slot[s] \in Requests
    BY <1>9, VisitLeaves
  <2>2. /\ outcome' = [outcome EXCEPT ![slot[s]] = kind] /\ pub' = slot[s]
        /\ UNCHANGED finished
    BY <1>9 DEF Finish
  <2>3. metrics'.rejected = metrics.rejected /\ metrics'.timed_out = metrics.timed_out
    BY <1>1, <1>9, FieldsApart DEF Finish, TypeOK
  <2>4. /\ outcome'[slot[s]] # "timeout"
        /\ \A r \in Requests : outcome'[r] \in {"full", "invalid"} => outcome'[r] = outcome[r]
    BY <1>1, <1>9, <2>1, <2>2 DEF TypeOK
  <2> QED  BY <2>2, <2>3, <2>4
<1>10. ASSUME NEW s \in Slots, KeepSlot(s) \/ Admit(s) \/ Sample(s)
       PROVE  Goal
  <2>1. UNCHANGED <<finished, pub, outcome>>
    BY <1>10 DEF KeepSlot, Admit, Sample, shared
  <2>2. metrics'.rejected = metrics.rejected /\ metrics'.timed_out = metrics.timed_out
    <3>1. CASE KeepSlot(s) \/ Sample(s)
      BY <3>1 DEF KeepSlot, Sample
    <3>2. CASE Admit(s)
      <4>1. metrics' = [metrics EXCEPT !.processing = metrics.processing + 1]
        BY <3>2 DEF Admit, Started
      <4> QED  BY <1>1, <4>1, FieldsApart DEF TypeOK
    <3> QED  BY <1>10, <3>1, <3>2
  <2> QED  BY <1>2, <2>1, <2>2
<1>11. ASSUME NEW s \in Slots,
              ReleaseCancelled(s) \/ SampleFinish(s) \/ FailSlot(s) \/ DrainSlot(s)
       PROVE  \E kind \in {"ok", "error", "cancel", "shutdown"} :
                pc \in Passes /\ Visit(s) /\ Finish(s, kind)
  BY <1>11 DEF ReleaseCancelled, SampleFinish, FailSlot, DrainSlot, Passes
<1>12. ASSUME NEW s \in Slots,
              \/ ReleaseCancelled(s) \/ KeepSlot(s) \/ Admit(s)
              \/ Sample(s) \/ SampleFinish(s) \/ FailSlot(s) \/ DrainSlot(s)
       PROVE  Goal
  <2> HIDE DEF Goal
  <2> QED  BY <1>9, <1>10, <1>11, <1>12
<1> QED  BY <1>3, <1>4, <1>5, <1>6, <1>7, <1>8, <1>12, Zenon DEF EngineNext

\* With Answered, what a step of the engine does to the counted sets.
LEMMA EngineCounted == ASSUME Inv, Answered, Counted, EngineNext  PROVE Counted'
<1>1. TypeOK /\ Control /\ Exclusive
  BY DEF Inv
<1>2. Frozen
  BY StepFrozen DEF Next
<1>3. Full' = Full
  <2>1. ASSUME NEW r \in Requests, outcome[r] = "full"  PROVE outcome'[r] = "full"
    BY <2>1, AbsentStep DEF Counted, Answered
  <2> QED  BY <2>1, EngineCounts DEF Full
<1>4. \A r \in Requests : outcome'[r] = "full" => caller'[r] = "returned"
  BY EngineCounts, EnginePushes DEF Counted
<1>5. CASE ~SettleGone
  <2>1. TimedOut' = TimedOut
    BY <1>2, <1>5, EngineCounts DEF TimedOut, Frozen
  <2> QED  BY <1>3, <1>4, <1>5, <2>1, EngineCounts DEF Counted
<1>6. CASE SettleGone
  <2> DEFINE h == Head(gone)
  <2>1. h \in Requests /\ Among(h, gone)
    BY <1>1, <1>6, TailElements DEF SettleGone, TypeOK, Control
  <2>2. ~finished[h]
    BY <1>1, <2>1 DEF Exclusive
  <2>3. /\ outcome' = outcome /\ finished' = [finished EXCEPT ![h] = TRUE]
        /\ metrics' = [metrics EXCEPT !.timed_out =
                         IF outcome[h] = "timeout" THEN metrics.timed_out + 1 ELSE metrics.timed_out]
    BY <1>6 DEF SettleGone, Told
  <2>4. \A r \in Requests : finished'[r] <=> finished[r] \/ r = h
    BY <1>1, <2>1, <2>3 DEF TypeOK
  <2>5. metrics'.timed_out =
          IF outcome[h] = "timeout" THEN metrics.timed_out + 1 ELSE metrics.timed_out
    BY <1>1, <2>3, FieldsApart DEF TypeOK
  <2> HIDE DEF h
  <2>6. CASE outcome[h] = "timeout"
    <3>1. TimedOut' = TimedOut \cup {h} /\ h \notin TimedOut
      BY <2>1, <2>2, <2>3, <2>4, <2>6 DEF TimedOut
    <3>2. /\ IsFiniteSet(TimedOut \cup {h})
          /\ Cardinality(TimedOut \cup {h}) = Cardinality(TimedOut) + 1
      BY <3>1, FS_AddElement DEF Counted
    <3>3. metrics'.timed_out = metrics.timed_out + 1
      BY <2>5, <2>6
    <3>4. IsFiniteSet(TimedOut') /\ metrics'.timed_out = Cardinality(TimedOut')
      BY <3>1, <3>2, <3>3 DEF Counted
    <3> QED  BY <1>3, <1>4, <3>4, EngineCounts DEF Counted
  <2>7. CASE outcome[h] # "timeout"
    <3>1. TimedOut' = TimedOut
      BY <2>1, <2>3, <2>4, <2>7 DEF TimedOut
    <3> QED  BY <1>3, <1>4, <2>5, <2>7, <3>1, EngineCounts DEF Counted
  <2> QED  BY <2>6, <2>7
<1> QED  BY <1>5, <1>6

LEMMA StepCounted == ASSUME Inv, Fresh, Answered, Counted, [Next]_vars  PROVE Counted'
<1>1. TypeOK
  BY DEF Inv
<1>2. ASSUME NEW c \in Requests, Refuse(c) \/ Reject(c)  PROVE Counted'
  <2>1. /\ caller[c] = "new" /\ caller' = [caller EXCEPT ![c] = "returned"]
        /\ UNCHANGED <<finished, pub>>
    BY <1>2 DEF Refuse, Reject, engine
  <2>2. ~finished[c] /\ pub # c /\ c \notin Full
    BY <2>1 DEF Inv, Submitted, Fresh, Full
  <2>3. \A r \in Requests : r # c => outcome'[r] = outcome[r]
    BY <1>1, <1>2 DEF Refuse, Reject, TypeOK
  <2>4. TimedOut' = TimedOut
    BY <2>1, <2>2, <2>3 DEF TimedOut
  <2>5. pub' # NoRequest => outcome'[pub'] # "timeout"
    BY <1>1, <2>1, <2>2, <2>3 DEF Counted, TypeOK
  <2>6. \A r \in Requests : outcome'[r] = "full" => caller'[r] = "returned"
    BY <1>1, <2>1, <2>3 DEF Counted, TypeOK
  <2>7. CASE Refuse(c)
    <3>1. outcome'[c] = "invalid" /\ metrics' = metrics
      BY <1>1, <2>7 DEF Refuse, TypeOK
    <3>2. Full' = Full
      BY <2>2, <2>3, <3>1 DEF Full
    <3> QED  BY <2>4, <2>5, <2>6, <3>1, <3>2 DEF Counted
  <2>8. CASE Reject(c)
    <3>1. outcome'[c] = "full" /\ metrics' = [metrics EXCEPT !.rejected = metrics.rejected + 1]
      BY <1>1, <2>8 DEF Reject, TypeOK
    <3>2. metrics'.rejected = metrics.rejected + 1 /\ metrics'.timed_out = metrics.timed_out
      BY <1>1, <3>1, FieldsApart DEF TypeOK
    <3>3. Full' = Full \cup {c}
      BY <2>3, <3>1 DEF Full
    <3>4. IsFiniteSet(Full \cup {c}) /\ Cardinality(Full \cup {c}) = Cardinality(Full) + 1
      BY <2>2, FS_AddElement DEF Counted
    <3>5. IsFiniteSet(Full') /\ metrics'.rejected = Cardinality(Full')
      BY <3>2, <3>3, <3>4 DEF Counted
    <3> QED  BY <2>4, <2>5, <2>6, <3>2, <3>5 DEF Counted
  <2> QED  BY <1>2, <2>7, <2>8
<1>3. ASSUME NEW c \in Requests, Enqueue(c) \/ Heartbeat(c) \/ CallerNext(c)  PROVE Counted'
  <2>1. UNCHANGED <<outcome, finished, metrics, pub>>
    BY <1>3 DEF Enqueue, Heartbeat, CallerNext, Wake, CallbackReturns, engine, shared
  <2>2. caller[c] # "returned" /\ \A r \in Requests : r # c => caller'[r] = caller[r]
    BY <1>1, <1>3 DEF Enqueue, Heartbeat, CallerNext, Wake, CallbackReturns, Take, TypeOK
  <2>3. \A r \in Requests : outcome[r] = "full" => caller'[r] = "returned"
    BY <2>2 DEF Counted
  <2> QED  BY <2>1, <2>3 DEF Counted, Full, TimedOut
<1>4. CASE Shutdown \/ Quiet \/ UNCHANGED vars
  <2>1. UNCHANGED <<outcome, finished, metrics, pub, caller>>
    BY <1>4 DEF Shutdown, Quiet, vars, shared, http, engine
  <2> QED  BY <2>1 DEF Counted, Full, TimedOut
<1> QED  BY <1>2, <1>3, <1>4, EngineCounted DEF Next

\* The counters behind /metrics are exact in every state: the gauge of running requests is
\* the slots in use, each refusal and each timeout is counted once.
THEOREM CountersExact == Spec => []MetricsExact
<1>1. Inv /\ Counted => MetricsExact
  BY DEF Inv, Gauge, Counted, Full, TimedOut, MetricsExact
<1>2. Inv /\ Fresh /\ Ordered /\ Answered /\ [Next]_vars => Ordered' /\ Answered'
  BY StepWhole
<1>3. Inv /\ Fresh /\ Answered /\ Counted /\ [Next]_vars => Counted'
  BY StepCounted
<1>4. Inv /\ Fresh /\ [Next]_vars => Fresh'
  BY StepFresh
<1> QED  BY <1>1, <1>2, <1>3, <1>4, InitFresh, InitWhole, InitCounted, Invariance, PTL DEF Spec

-----------------------------------------------------------------------------
(* The threads implement the service: each step is one of GenService's, or *)
(* changes nothing its callers see.                                        *)

Placed(r) == \E s \in Slots : slot[s] = r
Ending(r) == pub = r /\ ~(ret = "admit" /\ outcome[r] = "cancel")

\* What the service does not show: a request dropped at the head of the queue got no piece,
\* and a call that was refused is over.
Hidden ==
    /\ \A r \in Requests : pub = r /\ ~Ending(r) => emitted[r] = 0
    /\ \A r \in Requests : outcome[r] \in {"full", "invalid"} => caller[r] = "returned"

\* Whatever decides where a call stands, for one call.
LEMMA PhaseIs ==
    ASSUME NEW r \in Requests
    PROVE  /\ caller[r] = "new" => Phase(r) = "idle"
           /\ caller[r] = "returned" => Phase(r) = "answered"
           /\ caller[r] \notin {"new", "returned"} =>
                /\ finished[r] => Phase(r) = "settled"
                /\ ~finished[r] /\ InQueue(r) => Phase(r) = "waiting"
                /\ ~finished[r] /\ ~InQueue(r) /\ (Placed(r) \/ Ending(r)) => Phase(r) = "serving"
                /\ ~finished[r] /\ ~InQueue(r) /\ ~Placed(r) /\ ~Ending(r) => Phase(r) = "leaving"
BY DEF Phase, Placed, Ending

LEMMA PhaseStays ==
    ASSUME NEW r \in Requests,
           caller'[r] = "new" <=> caller[r] = "new",
           caller'[r] = "returned" <=> caller[r] = "returned",
           caller[r] \notin {"new", "returned"} =>
             /\ finished'[r] <=> finished[r]
             /\ ~finished[r] =>
                  /\ InQueue(r)' <=> InQueue(r)
                  /\ Placed(r)' \/ Ending(r)' <=> Placed(r) \/ Ending(r)
    PROVE  Phase(r)' = Phase(r)
BY Zenon DEF Phase, Placed, Ending

\* One call moves, the others stand still.
LEMMA OneMoves ==
    ASSUME NEW c \in Requests, NEW to, Phase(c)' = to,
           \A r \in Requests : r # c => Phase(r)' = Phase(r)
    PROVE  Service!Move(c, Phase(c), to)
BY DEF Service!Move

LEMMA NoneMoves ==
    ASSUME \A r \in Requests : Phase(r)' = Phase(r), UNCHANGED <<queue, emitted, delivered>>
    PROVE  UNCHANGED Service!vars
BY DEF Service!vars

Seen == Inv /\ Fresh /\ Ordered /\ Answered /\ Counted /\ Hidden

\* One step of the service, or none.
Shown == Service!Next \/ UNCHANGED Service!vars

\* Who is in a slot is being served.
LEMMA Running ==
    ASSUME Seen, NEW s \in Busy
    PROVE  /\ slot[s] \in Requests /\ ~finished[slot[s]] /\ ~InQueue(slot[s])
           /\ caller[slot[s]] \notin {"new", "returned"}
           /\ Placed(slot[s]) /\ Phase(slot[s]) = "serving"
<1>1. s \in Slots /\ slot[s] \in Requests /\ Placed(slot[s])
  BY DEF Seen, Inv, TypeOK, Busy, Placed
<1>2. ~finished[slot[s]] /\ ~InQueue(slot[s])
  BY <1>1 DEF Seen, Inv, Exclusive
<1>3. caller[slot[s]] # "new"
  BY <1>1 DEF Seen, Inv, Submitted
<1>4. caller[slot[s]] # "returned"
  BY <1>1 DEF Seen, Answered, Absent
<1> QED  BY <1>1, <1>2, <1>3, <1>4, PhaseIs

\* What is pushed for a running request is produced for it.
LEMMA PushShown ==
    ASSUME NEW c \in Requests, Phase(c) = "serving", NEW some \in BOOLEAN, Push(c, some),
           \A r \in Requests : Phase(r)' = Phase(r), UNCHANGED <<queue, delivered>>
    PROVE  Shown
<1>1. CASE some
  <2>1. emitted' = [emitted EXCEPT ![c] = @ + 1]
    BY <1>1 DEF Push
  <2>2. Service!Produce(c)
    BY <2>1 DEF Service!Produce
  <2> QED  BY <2>2 DEF Shown, Service!Next
<1>2. CASE ~some
  BY <1>2, NoneMoves DEF Push, Shown
<1> QED  BY <1>1, <1>2

\* finish() may hand over withheld text; who is served is served until it is told.
LEMMA FinishShown ==
    ASSUME Seen, NEW s \in Slots, pc \in Passes, Visit(s),
           NEW kind \in {"ok", "error", "cancel", "shutdown"}, kind = "cancel" => pc = "cancel",
           Finish(s, kind), NEW c, c = slot[s]
    PROVE  Shown /\ Hidden'
<1>1. TypeOK /\ Control
  BY DEF Seen, Inv
<1>2. s \in Busy
  BY VisitLeaves DEF Seen
<1>3. /\ c \in Requests /\ ~finished[c] /\ ~InQueue(c) /\ caller[c] \notin {"new", "returned"}
      /\ Placed(c) /\ Phase(c) = "serving"
  BY <1>2, Running
<1>4. /\ outcome' = [outcome EXCEPT ![c] = kind] /\ slot' = [slot EXCEPT ![s] = NoRequest]
      /\ pub' = c /\ ret' = Onward(pc, todo')
      /\ UNCHANGED <<queue, finished, caller, delivered>>
  BY DEF Finish, http
<1>5. PICK some \in BOOLEAN : Push(c, some)
  BY DEF Finish, Flushes
<1>6. kind = "cancel" => ret' # "admit"
  BY <1>4 DEF Onward
<1>7. outcome'[c] = kind /\ \A r \in Requests : r # c => outcome'[r] = outcome[r]
  BY <1>1, <1>3, <1>4 DEF TypeOK
<1>8. pub = NoRequest
  BY <1>1 DEF Control, Passes
<1>9. slot'[s] = NoRequest /\ \A t \in Slots : t # s => slot'[t] = slot[t]
  BY <1>1, <1>4 DEF TypeOK
<1>10. Ending(c)'
  BY <1>4, <1>6, <1>7 DEF Ending
<1>11. ASSUME NEW r \in Requests  PROVE Phase(r)' = Phase(r)
  <2>1. InQueue(r)' <=> InQueue(r)
    BY <1>4 DEF InQueue
  <2>2. CASE r = c
    BY <1>3, <1>4, <1>10, <2>1, <2>2, PhaseStays
  <2>3. CASE r # c
    <3>1. Placed(r)' <=> Placed(r)
      BY <1>9, <2>3 DEF Placed
    <3>2. ~Ending(r)' /\ ~Ending(r)
      BY <1>4, <1>8, <2>3 DEF Ending
    <3> QED  BY <1>4, <2>1, <3>1, <3>2, PhaseStays
  <2> QED  BY <2>2, <2>3
<1>12. Shown
  BY <1>3, <1>4, <1>5, <1>11, PushShown
<1>13. Hidden'
  BY <1>3, <1>4, <1>7, <1>10 DEF Seen, Hidden, Ending
<1> QED  BY <1>12, <1>13

\* The step leaves what a caller sees of every call.
LEMMA UnseenShown ==
    ASSUME Seen, UNCHANGED <<queue, finished, slot, pub, emitted, delivered>>,
           \A r \in Requests : /\ caller'[r] = "new" <=> caller[r] = "new"
                               /\ caller'[r] = "returned" <=> caller[r] = "returned",
           \A r \in Requests : pub = r => outcome'[r] = outcome[r] /\ ret' = ret
    PROVE  Shown
<1>1. ASSUME NEW r \in Requests  PROVE Phase(r)' = Phase(r)
  <2>1. (InQueue(r)' <=> InQueue(r)) /\ (Placed(r)' <=> Placed(r))
    BY DEF InQueue, Placed
  <2>2. Ending(r)' <=> Ending(r)
    BY DEF Ending
  <2> QED  BY <2>1, <2>2, PhaseStays
<1> QED  BY <1>1, NoneMoves DEF Shown

\* A call that is dropped from the line leaves it, from whatever place.
LEMMA DropShown ==
    ASSUME Seen, NEW i \in DOMAIN queue, queue' = Cut(queue, i),
           UNCHANGED <<finished, slot, caller, emitted, delivered>>,
           \A r \in Requests : ~Ending(r) /\ ~Ending(r)', NEW c, c = queue[i]
    PROVE  Shown
<1>1. TypeOK /\ Exclusive /\ Submitted
  BY DEF Seen, Inv
<1>2. c \in Requests /\ InQueue(c)
  BY <1>1, ElementOfSeq, LenProperties DEF TypeOK, InQueue, Among
<1>3. /\ ~finished[c] /\ ~Placed(c) /\ caller[c] # "new"
  BY <1>1, <1>2 DEF Exclusive, Submitted, Placed
<1>4. caller[c] # "returned"
  BY <1>2 DEF Seen, Answered, Absent
<1>5. /\ \A x : Among(x, queue) <=> Among(x, queue') \/ x = c
      /\ ~Among(c, queue')
  BY <1>1, CutElements DEF TypeOK, Exclusive
<1>6. Phase(c) = "waiting"
  BY <1>2, <1>3, <1>4, PhaseIs
<1>7. Phase(c)' = "leaving"
  BY <1>2, <1>3, <1>4, <1>5 DEF Phase, Ending, Placed, InQueue
<1>8. ASSUME NEW r \in Requests, r # c  PROVE Phase(r)' = Phase(r)
  <2>1. (InQueue(r)' <=> InQueue(r)) /\ (Placed(r)' <=> Placed(r))
    BY <1>5, <1>8 DEF InQueue, Placed
  <2> QED  BY <2>1, PhaseStays
<1>9. Service!Move(c, "waiting", "leaving")
  BY <1>2, <1>6, <1>7, <1>8, OneMoves
<1>10. Service!Leave(c)
  BY <1>9 DEF Service!Leave, Cut
<1> QED  BY <1>2, <1>10 DEF Shown, Service!Next

\* The head of a queue is its first place.
LEMMA HeadIsFirst ==
    ASSUME NEW S, NEW q \in Seq(S), q # <<>>
    PROVE  1 \in DOMAIN q /\ q[1] = Head(q) /\ Tail(q) = Cut(q, 1)
<1>1. /\ Len(q) \in Nat \ {0} /\ DOMAIN q = 1 .. Len(q) /\ Head(q) = q[1]
      /\ Tail(q) \in Seq(S) /\ Len(Tail(q)) = Len(q) - 1
      /\ \A j \in 1 .. Len(Tail(q)) : Tail(q)[j] = q[j + 1]
  BY HeadTailProperties, LenProperties, EmptySeq
<1>2. SubSeq(q, 1, 1 - 1) = <<>>
  <2>1. SubSeq(q, 1, 0) \in Seq(S) /\ Len(SubSeq(q, 1, 0)) = 0
    BY <1>1, SubSeqProperties
  <2> QED  BY <2>1, EmptySeq
<1>3. SubSeq(q, 1 + 1, Len(q)) = Tail(q)
  <2>1. \A j \in 2 .. Len(q) : q[j] \in S
    BY <1>1, ElementOfSeq
  <2>2. /\ SubSeq(q, 2, Len(q)) \in Seq(S)
        /\ Len(SubSeq(q, 2, Len(q))) = IF 2 <= Len(q) THEN Len(q) - 2 + 1 ELSE 0
        /\ \A j \in 1 .. Len(q) - 2 + 1 : SubSeq(q, 2, Len(q))[j] = q[2 + j - 1]
    BY <1>1, <2>1, SubSeqProperties
  <2>3. /\ Len(SubSeq(q, 2, Len(q))) = Len(Tail(q))
        /\ \A j \in 1 .. Len(Tail(q)) : SubSeq(q, 2, Len(q))[j] = Tail(q)[j]
    BY SMTT(20), <1>1, <2>2
  <2>4. SubSeq(q, 2, Len(q)) = Tail(q)
    BY <1>1, <2>2, <2>3, SeqEqual
  <2> QED  BY <2>4
<1>4. <<>> \o Tail(q) = Tail(q)
  BY <1>1, ConcatEmptySeq
<1> QED  BY <1>1, <1>2, <1>3, <1>4 DEF Cut

\* What is delivered and what waits add up to what was produced.
LEMMA PiecesAddUp ==
    ASSUME NEW n \in Nat, NEW d \in Seq(Nat), NEW p \in Seq(Nat), d \o p = FirstPieces(n)
    PROVE  /\ p # <<>> => Len(d) < n /\ n # 0
           /\ p = <<>> => Len(d) = n
<1>1. Len(FirstPieces(n)) = n
  BY FirstPiecesType
<1>2. Len(d \o p) = Len(d) + Len(p)
  BY ConcatProperties
<1>3. Len(d) + Len(p) = n
  BY <1>1, <1>2, Zenon
<1>4. Len(d) \in Nat /\ Len(p) \in Nat /\ (p = <<>> <=> Len(p) = 0)
  BY LenProperties, EmptySeq
<1> QED  BY <1>3, <1>4

\* A call that is answered at once, that joins the line, that takes a piece or that returns
\* does what the service says of it.
LEMMA CallShown ==
    ASSUME Seen, NEW c \in Requests,
           \/ Refuse(c) \/ Reject(c) \/ Enqueue(c)
           \/ Heartbeat(c) \/ CallerNext(c)
    PROVE  Shown /\ Hidden'
<1>1. TypeOK /\ Submitted
  BY DEF Seen, Inv
<1>2. CASE Refuse(c) \/ Reject(c)
  <2>1. /\ caller[c] = "new" /\ caller' = [caller EXCEPT ![c] = "returned"]
        /\ UNCHANGED <<queue, finished, slot, pub, ret, emitted, delivered>>
    BY <1>2 DEF Refuse, Reject, engine
  <2>2. pub # c
    BY <1>1, <2>1 DEF Submitted
  <2>3. \A r \in Requests : r # c => outcome'[r] = outcome[r] /\ caller'[r] = caller[r]
    BY <1>1, <1>2, <2>1 DEF Refuse, Reject, TypeOK
  <2>4. caller'[c] = "returned"
    BY <1>1, <2>1 DEF TypeOK
  <2>5. Phase(c) = "idle" /\ Phase(c)' = "answered"
    BY <2>1, <2>4, PhaseIs DEF Phase
  <2>6. ASSUME NEW r \in Requests, r # c  PROVE Phase(r)' = Phase(r) /\ (Ending(r)' <=> Ending(r))
    <3>1. /\ InQueue(r)' <=> InQueue(r)
          /\ Placed(r)' <=> Placed(r)
          /\ Ending(r)' <=> Ending(r)
      BY <2>1, <2>3, <2>6 DEF InQueue, Placed, Ending
    <3> QED  BY <2>1, <2>3, <2>6, <3>1, PhaseStays
  <2>7. Service!Move(c, "idle", "answered")
    BY <2>5, <2>6, OneMoves
  <2>8. Service!Refuse(c)
    BY <2>1, <2>7 DEF Service!Refuse
  <2>9. Hidden'
    BY <2>1, <2>2, <2>3, <2>4, <2>6 DEF Seen, Hidden
  <2> QED  BY <2>8, <2>9 DEF Shown, Service!Next
<1>3. CASE Enqueue(c)
  <2>1. /\ caller[c] = "new" /\ ~QueueFull /\ queue' = Append(queue, c)
        /\ caller' = [caller EXCEPT ![c] = "wait"]
        /\ UNCHANGED <<finished, slot, pub, ret, emitted, delivered, outcome>>
    BY <1>3 DEF Enqueue, Joined, engine
  <2>2. \A x : Among(x, queue') <=> Among(x, queue) \/ x = c
    <3>1. queue \in Seq(Requests)
      BY <1>1 DEF TypeOK
    <3> QED  BY <2>1, <3>1, AppendElements
  <2>3. caller'[c] = "wait" /\ \A r \in Requests : r # c => caller'[r] = caller[r]
    BY <1>1, <2>1 DEF TypeOK
  <2>4. ~finished[c]
    BY <1>1, <2>1 DEF Submitted
  <2>5. Phase(c) = "idle" /\ Phase(c)' = "waiting"
    BY <2>1, <2>2, <2>3, <2>4, PhaseIs DEF Phase, InQueue
  <2>6. ASSUME NEW r \in Requests, r # c  PROVE Phase(r)' = Phase(r)
    <3>1. /\ InQueue(r)' <=> InQueue(r)
          /\ Placed(r)' <=> Placed(r)
          /\ Ending(r)' <=> Ending(r)
      BY <2>1, <2>2, <2>6 DEF InQueue, Placed, Ending
    <3> QED  BY <2>1, <2>3, <2>6, <3>1, PhaseStays
  <2>7. Service!Move(c, "idle", "waiting")
    BY <2>5, <2>6, OneMoves
  <2>8. MaxQueue > 0 => Len(queue) < MaxQueue
    BY <1>1, <2>1, LenProperties DEF QueueFull, TypeOK
  <2>9. Service!Submit(c)
    BY <2>1, <2>7, <2>8 DEF Service!Submit
  <2>10. Hidden'
    BY <2>1, <2>3 DEF Seen, Hidden, Ending
  <2> QED  BY <2>9, <2>10 DEF Shown, Service!Next
<1>4. CASE Heartbeat(c)
  <2>1. /\ caller[c] = "wait" /\ caller' = [caller EXCEPT ![c] = "callback"]
        /\ UNCHANGED <<queue, finished, slot, pub, ret, emitted, delivered, outcome>>
    BY <1>4 DEF Heartbeat, shared, engine
  <2>2. \A r \in Requests : /\ caller'[r] = "new" <=> caller[r] = "new"
                            /\ caller'[r] = "returned" <=> caller[r] = "returned"
    BY <1>1, <2>1 DEF TypeOK
  <2>3. Shown
    BY <2>1, <2>2, UnseenShown
  <2>4. Hidden'
    BY <2>1, <2>2 DEF Seen, Hidden, Ending
  <2> QED  BY <2>3, <2>4
<1>5. CASE CallerNext(c)
  <2>1. /\ caller[c] \in {"wait", "callback"} /\ Take(c)
        /\ UNCHANGED <<queue, finished, slot, pub, ret, emitted, outcome>>
    BY <1>5 DEF CallerNext, Wake, CallbackReturns, engine
  <2>2. \A r \in Requests : r # c => caller'[r] = caller[r]
    BY <1>1, <2>1 DEF Take, TypeOK
  <2>3. \A r \in Requests : /\ InQueue(r)' <=> InQueue(r)
                            /\ Placed(r)' <=> Placed(r)
                            /\ Ending(r)' <=> Ending(r)
    BY <2>1 DEF InQueue, Placed, Ending
  <2>4. \A r \in Requests : r # c => Phase(r)' = Phase(r)
    BY <2>1, <2>2, <2>3, PhaseStays
  <2>5. /\ pieces[c] # <<>> => Len(delivered[c]) < emitted[c] /\ emitted[c] # 0
        /\ pieces[c] = <<>> => Len(delivered[c]) = emitted[c]
        /\ delivered[c] \in Seq(Nat) /\ pieces[c] \in Seq(Nat) /\ emitted[c] \in Nat
    BY <1>1, PiecesAddUp DEF Seen, Ordered, TypeOK
  <2>6. Hidden'
    BY <2>1, <2>2, <2>3 DEF Seen, Hidden
  <2>7. CASE pieces[c] # <<>>
    <3>1. /\ delivered' = [delivered EXCEPT ![c] = Append(delivered[c], Head(pieces[c]))]
          /\ caller' = [caller EXCEPT ![c] = "callback"]
      BY <2>1, <2>7 DEF Take
    <3>2. caller'[c] = "callback"
      BY <1>1, <3>1 DEF TypeOK
    <3>3. Phase(c)' = Phase(c)
      BY <2>1, <2>3, <3>2, PhaseStays
    <3>4. Len(delivered[c]) < emitted[c]
      BY <2>5, <2>7
    <3>5. Phase(c) \in {"serving", "settled"}
      <4> SUFFICES ASSUME ~finished[c]  PROVE Phase(c) = "serving"
        BY <2>1, PhaseIs
      <4>1. emitted[c] # 0
        BY <2>5, <2>7
      <4>2. ~InQueue(c) /\ ~Among(c, gone)
        BY <4>1 DEF Seen, Fresh, Untouched
      <4>3. Accepted(c)
        BY <2>1 DEF Seen, Hidden, Accepted
      <4>4. pub = c \/ Placed(c)
        BY <4>2, <4>3 DEF Seen, Inv, NotLost, Placed
      <4>5. pub = c => Ending(c)
        BY <4>1 DEF Seen, Hidden
      <4> QED  BY <2>1, <4>2, <4>4, <4>5, PhaseIs
    <3>6. Head(pieces[c]) \in Nat
      BY <2>5, <2>7, HeadTailProperties
    <3>7. Len(Append(delivered[c], Head(pieces[c]))) = Len(delivered[c]) + 1
      BY <2>5, <3>6, AppendProperties
    <3>8. [r \in Requests |-> Len(delivered[r])]'
            = [[r \in Requests |-> Len(delivered[r])] EXCEPT ![c] = @ + 1]
      <4>1. \A r \in Requests : delivered'[r] = IF r = c THEN Append(delivered[c], Head(pieces[c]))
                                                ELSE delivered[r]
        BY <1>1, <3>1 DEF TypeOK
      <4> QED  BY <3>7, <4>1
    <3>9. [r \in Requests |-> Phase(r)]' = [r \in Requests |-> Phase(r)]
      BY <2>4, <3>3
    <3>10. Service!Receive(c)
      BY <2>1, <3>4, <3>5, <3>8, <3>9 DEF Service!Receive
    <3> QED  BY <2>6, <3>10 DEF Shown, Service!Next
  <2>8. CASE pieces[c] = <<>> /\ finished[c]
    <3>1. delivered' = delivered /\ caller' = [caller EXCEPT ![c] = "returned"]
      BY <2>1, <2>8 DEF Take
    <3>2. caller'[c] = "returned"
      BY <1>1, <3>1 DEF TypeOK
    <3>3. Phase(c) = "settled" /\ Phase(c)' = "answered"
      BY <2>1, <2>8, <3>2, PhaseIs DEF Phase
    <3>4. Service!Move(c, "settled", "answered")
      BY <2>4, <3>3, OneMoves
    <3>5. Len(delivered[c]) = emitted[c]
      BY <2>5, <2>8
    <3>6. Service!Return(c)
      BY <2>1, <3>1, <3>4, <3>5 DEF Service!Return
    <3> QED  BY <2>6, <3>6 DEF Shown, Service!Next
  <2>9. CASE pieces[c] = <<>> /\ ~finished[c]
    <3>1. delivered' = delivered /\ caller' = [caller EXCEPT ![c] = "wait"]
      BY <2>1, <2>9 DEF Take
    <3>2. \A r \in Requests : /\ caller'[r] = "new" <=> caller[r] = "new"
                              /\ caller'[r] = "returned" <=> caller[r] = "returned"
      BY <1>1, <2>1, <3>1 DEF TypeOK
    <3> QED  BY <2>1, <2>6, <3>1, <3>2, UnseenShown
  <2> QED  BY <2>7, <2>8, <2>9
<1> QED  BY <1>2, <1>3, <1>4, <1>5

\* Who waits to be told leaves, and is then settled.
LEMMA SettleShown ==
    ASSUME Seen, NEW c \in Requests, Among(c, gone) /\ ~InQueue(c) /\ pub = NoRequest,
           finished' = [finished EXCEPT ![c] = TRUE],
           UNCHANGED <<queue, slot, pub, ret, caller, emitted, delivered>>
    PROVE  Shown
<1>1. TypeOK /\ Exclusive /\ Submitted
  BY DEF Seen, Inv
<1>2. ~finished[c] /\ ~Placed(c) /\ ~Ending(c)
  BY <1>1 DEF Exclusive, Placed, Ending
<1>3. caller[c] \notin {"new", "returned"}
  BY <1>1 DEF Submitted, Seen, Answered, Absent
<1>4. finished'[c] /\ \A r \in Requests : r # c => (finished'[r] <=> finished[r])
  BY <1>1 DEF TypeOK
<1>5. Phase(c) = "leaving" /\ Phase(c)' = "settled"
  BY <1>2, <1>3, <1>4, PhaseIs DEF Phase
<1>6. ASSUME NEW r \in Requests, r # c  PROVE Phase(r)' = Phase(r)
  <2>1. /\ InQueue(r)' <=> InQueue(r)
        /\ Placed(r)' <=> Placed(r)
        /\ ~Ending(r)' /\ ~Ending(r)
    BY DEF InQueue, Placed, Ending
  <2> QED  BY <1>4, <1>6, <2>1, PhaseStays
<1>7. Service!Move(c, "leaving", "settled")
  BY <1>5, <1>6, OneMoves
<1>8. Service!Settle(c)
  BY <1>5, <1>7 DEF Service!Settle
<1> QED  BY <1>8 DEF Shown, Service!Next

\* Once the flag is set, the call that was served, or dropped at the head, is settled.
LEMMA PublishShown == ASSUME Seen, Publish  PROVE Shown
<1>1. TypeOK /\ Exclusive /\ Submitted /\ Control
  BY DEF Seen, Inv
<1>2. PICK c \in Requests : c = pub
  BY <1>1 DEF Publish, Control, TypeOK
<1>3. /\ finished' = [finished EXCEPT ![c] = TRUE] /\ pub' = NoRequest
      /\ UNCHANGED <<queue, slot, caller, emitted, delivered, outcome>>
  BY <1>2 DEF Publish, http
<1>4. ~finished[c] /\ ~Placed(c) /\ ~InQueue(c)
  BY <1>1, <1>2 DEF Exclusive, Placed
<1>5. caller[c] \notin {"new", "returned"}
  BY <1>1, <1>2 DEF Submitted, Seen, Answered, Absent
<1>6. finished'[c] /\ \A r \in Requests : r # c => (finished'[r] <=> finished[r])
  BY <1>1, <1>3 DEF TypeOK
<1>7. Phase(c) \in {"serving", "leaving"} /\ Phase(c)' = "settled"
  BY <1>3, <1>4, <1>5, <1>6, PhaseIs DEF Phase
<1>8. ASSUME NEW r \in Requests, r # c  PROVE Phase(r)' = Phase(r)
  <2>1. /\ InQueue(r)' <=> InQueue(r)
        /\ Placed(r)' <=> Placed(r)
        /\ ~Ending(r)' /\ ~Ending(r)
    BY <1>2, <1>3, <1>8 DEF InQueue, Placed, Ending
  <2> QED  BY <1>3, <1>6, <1>8, <2>1, PhaseStays
<1>9. Service!Move(c, Phase(c), "settled")
  BY <1>7, <1>8, OneMoves
<1>10. Service!Settle(c)
  BY <1>3, <1>7, <1>9 DEF Service!Settle
<1> QED  BY <1>10 DEF Shown, Service!Next

\* Shutdown empties the line at once.
LEMMA DrainShown == ASSUME Seen, DrainQueue  PROVE Shown
<1>1. TypeOK /\ Exclusive /\ Submitted /\ Control
  BY DEF Seen, Inv
<1>2. /\ queue' = <<>> /\ pub = NoRequest /\ pub' = NoRequest
      /\ UNCHANGED <<finished, slot, ret, caller, emitted, delivered, outcome>>
  BY <1>1 DEF DrainQueue, Control, http
<1>3. \A r \in Requests : ~InQueue(r)'
  BY <1>2, EmptyElements DEF InQueue
<1>4. \A r \in Requests : (Placed(r)' <=> Placed(r)) /\ ~Ending(r) /\ ~Ending(r)'
  BY <1>2 DEF Placed, Ending
<1>5. ASSUME NEW r \in Requests, InQueue(r)  PROVE Phase(r) = "waiting" /\ Phase(r)' = "leaving"
  <2>1. ~finished[r] /\ ~Placed(r) /\ caller[r] # "new"
    BY <1>1, <1>5 DEF Exclusive, Submitted, Placed
  <2>2. caller[r] # "returned"
    BY <1>5 DEF Seen, Answered, Absent
  <2>3. Phase(r) = "waiting"
    BY <1>5, <2>1, <2>2, PhaseIs
  <2>4. Phase(r)' = "leaving"
    BY <1>2, <1>3, <1>4, <2>1, <2>2 DEF Phase, Placed, Ending
  <2> QED  BY <2>3, <2>4
<1>6. ASSUME NEW r \in Requests, ~InQueue(r)  PROVE Phase(r)' = Phase(r) /\ Phase(r) # "waiting"
  <2>1. Phase(r)' = Phase(r)
    BY <1>2, <1>3, <1>4, <1>6, PhaseStays
  <2>2. Phase(r) # "waiting"
    BY <1>6, PhaseIs
  <2> QED  BY <2>1, <2>2
<1>7. CASE queue = <<>>
  <2>1. \A r \in Requests : ~InQueue(r)
    BY <1>7, EmptyElements DEF InQueue
  <2> QED  BY <1>2, <1>6, <1>7, <2>1, NoneMoves DEF Shown
<1>8. CASE queue # <<>>
  <2>1. [r \in Requests |-> Phase(r)]'
          = [r \in Requests |-> IF [x \in Requests |-> Phase(x)][r] = "waiting" THEN "leaving"
                                ELSE [x \in Requests |-> Phase(x)][r]]
    BY <1>5, <1>6
  <2>2. Service!Close
    BY <1>2, <1>8, <2>1 DEF Service!Close
  <2> QED  BY <2>2 DEF Shown, Service!Next
<1> QED  BY <1>7, <1>8

\* The head of the line gets a slot while one is free.
LEMMA AdmitShown == ASSUME Seen, NEW s \in Slots, Admit(s)  PROVE Shown
<1>1. TypeOK /\ Exclusive /\ Submitted /\ Control
  BY DEF Seen, Inv
<1>2. queue # <<>> /\ queue \in Seq(Requests)
  BY <1>1 DEF Admit, AtHead, TypeOK
<1>3. PICK c \in Requests : c = Head(queue)
  BY <1>2, TailElements
<1>4. InQueue(c) /\ ~Among(c, Tail(queue)) /\ \A x : Among(x, queue) <=> Among(x, Tail(queue)) \/ x = c
  BY <1>1, <1>2, <1>3, TailElements DEF Exclusive, InQueue
<1>5. /\ queue' = Tail(queue) /\ slot' = [slot EXCEPT ![s] = c] /\ slot[s] = NoRequest
      /\ pub = NoRequest /\ pub' = NoRequest
      /\ UNCHANGED <<finished, caller, emitted, delivered, outcome>>
  BY <1>1, <1>3 DEF Admit, AtHead, Popped, Control, Busy, http
<1>6. slot'[s] = c /\ \A t \in Slots : t # s => slot'[t] = slot[t]
  BY <1>1, <1>5 DEF TypeOK
<1>7. ~finished[c] /\ ~Placed(c) /\ caller[c] # "new"
  BY <1>1, <1>4 DEF Exclusive, Submitted, Placed
<1>8. caller[c] # "returned"
  BY <1>4 DEF Seen, Answered, Absent
<1>9. Phase(c) = "waiting"
  BY <1>4, <1>7, <1>8, PhaseIs
<1>10. Phase(c)' = "serving"
  BY <1>4, <1>5, <1>6, <1>7, <1>8 DEF Phase, InQueue
<1>11. ASSUME NEW r \in Requests, r # c  PROVE Phase(r)' = Phase(r)
  <2>1. InQueue(r)' <=> InQueue(r)
    BY <1>4, <1>5, <1>11 DEF InQueue
  <2>2. Placed(r)' <=> Placed(r)
    BY <1>5, <1>6, <1>11, RequestsAssumption DEF Placed
  <2>3. ~Ending(r)' /\ ~Ending(r)
    BY <1>5, RequestsAssumption DEF Ending
  <2> QED  BY <1>5, <2>1, <2>2, <2>3, PhaseStays
<1>12. Service!Move(c, "waiting", "serving")
  BY <1>9, <1>10, <1>11, OneMoves
<1>13. Cardinality(Service!In("serving")) < NSlots
  <2> DEFINE Others == Slots \ {s}
             Served == {slot[t] : t \in Others}
  <2>1. IsFiniteSet(Slots) /\ Cardinality(Slots) = NSlots
    BY FS_Interval, RequestsAssumption DEF Slots
  <2>2. IsFiniteSet(Others) /\ Cardinality(Others) = NSlots - 1
    BY <2>1, FS_RemoveElement
  <2>3. IsFiniteSet(Served) /\ Cardinality(Served) <= Cardinality(Others)
    <3>1. [t \in Others |-> slot[t]] \in Surjection(Others, Served)
      BY DEF Surjection
    <3> HIDE DEF Others, Served
    <3> QED  BY <2>2, <3>1, FS_Surjection
  <2>4. Service!In("serving") \subseteq Served
    <3>1. ASSUME NEW r \in Requests, Phase(r) = "serving"  PROVE Placed(r)
      BY <1>5, <3>1, RequestsAssumption DEF Phase, Placed
    <3>2. \A r \in Requests : Placed(r) => r \in Served
      BY <1>5, RequestsAssumption DEF Placed
    <3> QED  BY <3>1, <3>2 DEF Service!In
  <2> HIDE DEF Served
  <2>5. Cardinality(Service!In("serving")) <= Cardinality(Served)
        /\ Cardinality(Service!In("serving")) \in Nat /\ Cardinality(Served) \in Nat
    BY <2>3, <2>4, FS_Subset, FS_CardinalityType
  <2> QED  BY <2>2, <2>3, <2>5, RequestsAssumption
<1>14. Service!Cardinality(Service!In("serving")) = Cardinality(Service!In("serving"))
  BY Zenon DEF Service!Cardinality, Cardinality
<1>15. Service!Start(c)
  BY <1>2, <1>3, <1>5, <1>12, <1>13, <1>14 DEF Service!Start
<1> QED  BY <1>15 DEF Shown, Service!Next

\* What the engine writes after a step that tells nobody keeps Hidden.
LEMMA EngineHidden ==
    ASSUME Seen, EngineNext, \A r \in Requests : (pub' = r /\ ~Ending(r)') => emitted'[r] = 0
    PROVE  Hidden'
<1>1. ASSUME NEW r \in Requests, outcome'[r] \in {"full", "invalid"}  PROVE caller'[r] = "returned"
  BY <1>1, EngineCounts, EnginePushes DEF Seen, Hidden
<1> QED  BY <1>1 DEF Hidden

LEMMA EngineShown == ASSUME Seen, EngineNext  PROVE Shown /\ Hidden'
<1>1. TypeOK /\ Control /\ Sweeping /\ Exclusive
  BY DEF Seen, Inv
<1>2. ASSUME pub' = NoRequest  PROVE Hidden'
  BY <1>2, EngineHidden
<1>3. pc # "publish" => pub = NoRequest
  BY <1>1 DEF Control
<1>4. CASE Tick \/ Sweep \/ SweepCheck \/ SweepCheckDone \/ Build \/ TickFails
  <2>1. /\ pub = NoRequest
        /\ UNCHANGED <<queue, finished, slot, pub, emitted, delivered, caller>>
    BY <1>3, <1>4 DEF Tick, Sweep, SweepCheck, SweepCheckDone, Build, TickFails, shared, http
  <2>2. Shown
    BY <2>1, UnseenShown
  <2> QED  BY <1>2, <2>1, <2>2
<1>5. CASE SweepErase
  <2>1. PICK i \in DOMAIN queue : queue' = Cut(queue, i)
    BY <1>5 DEF SweepErase
  <2>2. /\ pub = NoRequest /\ pub' = NoRequest
        /\ UNCHANGED <<finished, slot, emitted, delivered, caller>>
    BY <1>3, <1>5 DEF SweepErase, http
  <2>3. \A r \in Requests : ~Ending(r) /\ ~Ending(r)'
    BY <2>2 DEF Ending
  <2>4. Shown
    BY <2>1, <2>2, <2>3, DropShown
  <2> QED  BY <1>2, <2>2, <2>4
<1>6. CASE SettleGone \/ SettlePending
  <2>1. Head(gone) \in Requests /\ Among(Head(gone), gone)
    BY <1>1, <1>6, TailElements DEF SettleGone, SettlePending, TypeOK, Control
  <2>2. ~InQueue(Head(gone))
    BY <1>1, <1>6, <2>1 DEF Sweeping, SettleGone, SettlePending
  <2>3. /\ pub = NoRequest /\ finished' = [finished EXCEPT ![Head(gone)] = TRUE]
        /\ UNCHANGED <<queue, slot, pub, ret, caller, emitted, delivered>>
    BY <1>3, <1>6 DEF SettleGone, SettlePending, http
  <2>4. Shown
    BY <2>1, <2>2, <2>3, SettleShown
  <2> QED  BY <1>2, <2>3, <2>4
<1>7. CASE AdmitCancelled
  <2>1. /\ 1 \in DOMAIN queue /\ queue[1] = Head(queue) /\ Tail(queue) = Cut(queue, 1)
        /\ Head(queue) \in Requests /\ Among(Head(queue), queue)
    BY <1>1, <1>7, HeadIsFirst, TailElements DEF AdmitCancelled, AtHead, TypeOK
  <2>2. /\ queue' = Tail(queue) /\ outcome' = [outcome EXCEPT ![Head(queue)] = "cancel"]
        /\ pub = NoRequest /\ pub' = Head(queue) /\ ret' = "admit"
        /\ UNCHANGED <<finished, slot, emitted, delivered, caller>>
    BY <1>3, <1>7 DEF AdmitCancelled, AtHead, http
  <2>3. \A r \in Requests : ~Ending(r) /\ ~Ending(r)'
    BY <1>1, <2>1, <2>2 DEF Ending, TypeOK
  <2>4. emitted[Head(queue)] = 0
    BY <2>1 DEF Seen, Fresh, Untouched, InQueue
  <2>5. Shown
    BY <2>1, <2>2, <2>3, DropShown
  <2>6. Hidden'
    BY <2>2, <2>4, EngineHidden
  <2> QED  BY <2>5, <2>6
<1>8. CASE DrainQueue
  BY <1>2, <1>3, <1>8, DrainShown DEF DrainQueue
<1>9. CASE Publish
  BY <1>2, <1>9, PublishShown DEF Publish
<1>10. ASSUME NEW s \in Slots, KeepSlot(s)  PROVE Shown /\ Hidden'
  <2>1. /\ pub = NoRequest
        /\ UNCHANGED <<queue, finished, slot, pub, emitted, delivered, caller>>
    BY <1>3, <1>10 DEF KeepSlot, shared, http
  <2>2. Shown
    BY <2>1, UnseenShown
  <2> QED  BY <1>2, <2>1, <2>2
<1>11. ASSUME NEW s \in Slots, Admit(s)  PROVE Shown /\ Hidden'
  BY <1>2, <1>3, <1>11, AdmitShown DEF Admit, AtHead
<1>12. ASSUME NEW s \in Slots, Sample(s)  PROVE Shown /\ Hidden'
  <2>1. s \in Busy
    BY <1>12, VisitLeaves DEF Sample, Passes, Seen
  <2>2. slot[s] \in Requests /\ Phase(slot[s]) = "serving"
    BY <2>1, Running
  <2>3. /\ pub = NoRequest
        /\ UNCHANGED <<queue, finished, slot, pub, ret, outcome, delivered, caller>>
    BY <1>3, <1>12 DEF Sample, http
  <2>4. ASSUME NEW r \in Requests  PROVE Phase(r)' = Phase(r)
    <3>1. /\ InQueue(r)' <=> InQueue(r)
          /\ Placed(r)' <=> Placed(r)
          /\ Ending(r)' <=> Ending(r)
      BY <2>3 DEF InQueue, Placed, Ending
    <3> QED  BY <2>3, <3>1, PhaseStays
  <2>5. PICK some \in BOOLEAN : Push(slot[s], some)
    BY <1>12 DEF Sample, Flushes
  <2>6. Shown
    BY <2>2, <2>3, <2>4, <2>5, PushShown
  <2> QED  BY <1>2, <2>3, <2>6
<1>13. ASSUME NEW s \in Slots,
              ReleaseCancelled(s) \/ SampleFinish(s) \/ FailSlot(s) \/ DrainSlot(s)
       PROVE  Shown /\ Hidden'
  <2>1. PICK kind \in {"ok", "error", "cancel", "shutdown"} :
          /\ pc \in Passes /\ Visit(s) /\ Finish(s, kind)
          /\ kind = "cancel" => pc = "cancel"
    BY <1>13 DEF ReleaseCancelled, SampleFinish, FailSlot, DrainSlot, Passes
  <2> QED  BY <2>1, FinishShown
<1>14. ASSUME NEW s \in Slots,
              \/ ReleaseCancelled(s) \/ KeepSlot(s) \/ Admit(s)
              \/ Sample(s) \/ SampleFinish(s) \/ FailSlot(s) \/ DrainSlot(s)
       PROVE  Shown /\ Hidden'
  BY <1>10, <1>11, <1>12, <1>13, <1>14
<1> QED  BY <1>4, <1>5, <1>6, <1>7, <1>8, <1>9, <1>14, Zenon DEF EngineNext

LEMMA StepShown == ASSUME Seen, [Next]_vars  PROVE Shown /\ Hidden'
<1>1. CASE Shutdown \/ Quiet \/ UNCHANGED vars
  <2>1. UNCHANGED <<queue, finished, slot, pub, ret, emitted, delivered, caller, outcome>>
    BY <1>1 DEF Shutdown, Quiet, vars, shared, http, engine
  <2>2. Shown
    BY <2>1, UnseenShown
  <2>3. Hidden'
    BY <2>1 DEF Seen, Hidden, Ending
  <2> QED  BY <2>2, <2>3
<1> QED  BY <1>1, CallShown, EngineShown DEF Next

LEMMA InitShown == Init => Service!Init /\ Hidden
<1> SUFFICES ASSUME Init  PROVE Service!Init /\ Hidden
  OBVIOUS
<1>1. \A r \in Requests : Phase(r) = "idle"
  BY PhaseIs DEF Init
<1>2. \A r \in Requests : Len(delivered[r]) = 0
  BY EmptySeq DEF Init
<1>3. Service!Init
  BY <1>1, <1>2 DEF Init, Service!Init
<1>4. Hidden
  BY DEF Init, Hidden, Ending
<1> QED  BY <1>3, <1>4

\* Whatever the threads do, their callers see the service GenService describes: calls are
\* started in the order they were queued and never more than the slots at once, pieces arrive
\* one by one, and a call returns once, after its end is settled and its pieces are handed over.
THEOREM Refinement == Spec => ImplementsService
<1>1. Init => Service!Init /\ Hidden
  BY InitShown
<1>2. Seen /\ [Next]_vars => Shown /\ Hidden'
  BY StepShown
<1>3. Seen /\ [Next]_vars => [Service!Next]_Service!vars
  BY <1>2 DEF Shown
<1>4. Inv /\ Fresh /\ Ordered /\ Answered /\ [Next]_vars => Ordered' /\ Answered'
  BY StepWhole
<1>5. Inv /\ Fresh /\ Answered /\ Counted /\ [Next]_vars => Counted'
  BY StepCounted
<1>6. Inv /\ Fresh /\ [Next]_vars => Fresh'
  BY StepFresh
<1>7. Inv /\ [Next]_vars => Inv'
  BY StepInv
<1>8. Init => Seen
  BY <1>1, InitInv, InitFresh, InitWhole, InitCounted DEF Seen
<1>9. Seen /\ [Next]_vars => Seen'
  BY <1>2, <1>4, <1>5, <1>6, <1>7 DEF Seen
<1> QED  BY <1>1, <1>3, <1>8, <1>9, PTL DEF Spec, ImplementsService, Service!Spec
=============================================================================
