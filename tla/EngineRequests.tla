--------------------------- MODULE EngineRequests ---------------------------
(***************************************************************************)
(* The life of a generate() call in src/engine.cpp, at the granularity of  *)
(* the locks: HTTP threads that queue a request and wait for its pieces,   *)
(* and the one engine thread (onyx_engine::loop) that sweeps the queue,    *)
(* admits requests into slots, samples, finishes them and shuts down.      *)
(*                                                                         *)
(* What a tick computes is abstract here: a busy slot needs up to          *)
(* MaxChunks ticks of prefill and then samples once per tick, up to        *)
(* MaxTokens times.  EngineTick models the ticks, SlotCache the KV.        *)
(*                                                                         *)
(* A step of the engine is the code between two accesses to state it       *)
(* shares with the HTTP threads; what it does to its own slots in between  *)
(* belongs to the step.                                                    *)
(***************************************************************************)
EXTENDS Integers, Sequences, FiniteSets

CONSTANTS
    Requests,      \* the calls to generate(), one HTTP thread each
    NoRequest,     \* a null onyx_gen_request_ptr
    NSlots,        \* --parallel
    MaxQueue,      \* --max-queue, 0 = unbounded
    QueueTimeout,  \* whether --queue-timeout is set
    Streaming,     \* the requests with a token callback (wants_pieces)
    Media,         \* the requests prefilled by prefill_media()
    Invalid,       \* the requests generate() refuses before queueing them
    Stalled,       \* clients that may stop reading for ever
    MaxChunks,     \* bound: ticks of prefill a request may need
    MaxTokens      \* bound: tokens a request may sample (n_predict)

ASSUME RequestsAssumption ==
    /\ NoRequest \notin Requests
    /\ NSlots \in Nat \ {0}
    /\ MaxQueue \in Nat
    /\ QueueTimeout \in BOOLEAN
    /\ Streaming \subseteq Requests /\ Media \subseteq Requests /\ Invalid \subseteq Requests
    /\ Stalled \subseteq Streaming
    /\ MaxChunks \in Nat /\ MaxTokens \in Nat \ {0}

Slots == 1 .. NSlots

VARIABLES
    \* shared under q_mutex_
    queue,       \* queue_
    stop,        \* stop_
    \* shared under each request's mu
    pieces,      \* req->pieces: emitted, not yet taken by the caller
    cancelled,   \* req->cancelled
    finished,    \* req->finished
    outcome,     \* req->result, as far as its kind goes
    \* the HTTP threads
    caller,      \* where each call to generate() stands
    delivered,   \* the pieces given to its callback
    \* the engine thread
    pc,          \* where loop() is
    ret,         \* where finish() returns to
    slot,        \* slot.req, NoRequest when the slot is idle
    need,        \* ticks of prefill the slot still needs
    todo,        \* slots the current pass has yet to visit
    scan,        \* sweep_queue(): `waiting`, then the part of `done` yet to erase
    late,        \* sweep_queue(): those past the timeout at `now`
    gone,        \* requests taken out of the queue, yet to be told
    pub,         \* the request whose finished flag is about to be set
    sampled,     \* result.n_predicted
    emitted,     \* pieces pushed so far
    metrics      \* requests_processing, requests_rejected, requests_timed_out

shared == <<queue, stop, pieces, cancelled, finished, outcome>>
http   == <<caller, delivered>>
sweep  == <<scan, late, gone>>
engine == <<pc, ret, slot, need, todo, scan, late, gone, pub, sampled, emitted>>
vars   == <<shared, http, engine, metrics>>

Busy == {s \in Slots : slot[s] # NoRequest}

Among(x, q) == \E i \in DOMAIN q : q[i] = x
Distinct(q) == \A i, j \in DOMAIN q : q[i] = q[j] => i = j
InQueue(r) == Among(r, queue)

Lowest(s) == s \in todo /\ \A t \in todo : s <= t

Outcomes == {"none", "ok", "error", "cancel", "timeout", "shutdown", "full", "invalid"}
Callers  == {"new", "wait", "callback", "returned"}
PCs      == {"wait", "cancel", "sweep", "check", "erase", "settle", "admit", "media",
             "sample", "fail", "publish", "drain_slots", "drain_queue", "settle_pending", "exited"}

Init ==
    /\ queue = <<>> /\ stop = FALSE
    /\ pieces = [r \in Requests |-> <<>>]
    /\ cancelled = [r \in Requests |-> FALSE]
    /\ finished = [r \in Requests |-> FALSE]
    /\ outcome = [r \in Requests |-> "none"]
    /\ caller = [r \in Requests |-> "new"]
    /\ delivered = [r \in Requests |-> <<>>]
    /\ pc = "wait" /\ ret = "wait"
    /\ slot = [s \in Slots |-> NoRequest]
    /\ need = [s \in Slots |-> 0]
    /\ todo = {} /\ scan = <<>> /\ late = {} /\ gone = <<>>
    /\ pub = NoRequest
    /\ sampled = [r \in Requests |-> 0]
    /\ emitted = [r \in Requests |-> 0]
    /\ metrics = [processing |-> 0, rejected |-> 0, timed_out |-> 0]

-----------------------------------------------------------------------------
(* The HTTP threads.  A call only starts while the engine is there: main() *)
(* joins the listener, and with it every handler, before it destroys the   *)
(* engine (Routes has that as EngineAlive).  generate() itself does not    *)
(* look at stop_; it would queue a call that nobody serves.  So ~stop, in  *)
(* Refuse, Reject and Enqueue, is a condition on the callers.              *)

\* generate() returns an error before it touches the queue: embedding mode, a
\* prompt that does not fit, an invalid token id, a sampler that cannot be built.
Refuse(r) ==
    /\ caller[r] = "new" /\ ~stop /\ r \in Invalid
    /\ caller' = [caller EXCEPT ![r] = "returned"]
    /\ outcome' = [outcome EXCEPT ![r] = "invalid"]
    /\ UNCHANGED <<queue, stop, pieces, cancelled, finished, delivered, engine, metrics>>

\* The engine holds q_mutex_ while sweep_queue() erases what it swept.
QueueUnlocked == pc # "erase"
QueueFull == MaxQueue > 0 /\ Len(queue) >= MaxQueue

Reject(r) ==
    /\ caller[r] = "new" /\ ~stop /\ QueueUnlocked /\ r \notin Invalid
    /\ QueueFull
    /\ caller' = [caller EXCEPT ![r] = "returned"]
    /\ outcome' = [outcome EXCEPT ![r] = "full"]
    /\ metrics' = [metrics EXCEPT !.rejected = @ + 1]
    /\ UNCHANGED <<queue, stop, pieces, cancelled, finished, delivered, engine>>

\* Mutant of Joined: the newcomer goes in front.
JoinedFront(r) == <<r>> \o queue

Joined(r) == Append(queue, r)

\* queue_.push_back() under q_mutex_, then the call waits.
Enqueue(r) ==
    /\ caller[r] = "new" /\ ~stop /\ QueueUnlocked /\ r \notin Invalid
    /\ ~QueueFull
    /\ queue' = Joined(r)
    /\ caller' = [caller EXCEPT ![r] = "wait"]
    /\ UNCHANGED <<stop, pieces, cancelled, finished, outcome, delivered, engine, metrics>>

\* Mutant of Take: the caller looks at `finished` without draining the pieces.
TakeFinishedFirst(r) ==
    \/ /\ finished[r]
       /\ caller' = [caller EXCEPT ![r] = "returned"]
       /\ UNCHANGED <<pieces, delivered>>
    \/ /\ ~finished[r] /\ pieces[r] # <<>>
       /\ pieces' = [pieces EXCEPT ![r] = Tail(@)]
       /\ delivered' = [delivered EXCEPT ![r] = Append(@, Head(pieces[r]))]
       /\ caller' = [caller EXCEPT ![r] = "callback"]
    \/ /\ ~finished[r] /\ pieces[r] = <<>>
       /\ caller' = [caller EXCEPT ![r] = "wait"]
       /\ UNCHANGED <<pieces, delivered>>

\* Mutant of Take: the end is looked for in the loop over the pieces, so only behind one.
TakeEndBehindPiece(r) ==
    \/ /\ pieces[r] # <<>>
       /\ pieces' = [pieces EXCEPT ![r] = Tail(@)]
       /\ delivered' = [delivered EXCEPT ![r] = Append(@, Head(pieces[r]))]
       /\ caller' = [caller EXCEPT ![r] = "callback"]
    \/ /\ pieces[r] = <<>>
       /\ caller' = [caller EXCEPT ![r] =
                       IF finished[r] /\ @ = "callback" THEN "returned" ELSE "wait"]
       /\ UNCHANGED <<pieces, delivered>>

\* With req->mu held: pieces are taken one by one, each handed to the callback
\* with the lock released; `finished` counts only once no piece is left.
Take(r) ==
    \/ /\ pieces[r] # <<>>
       /\ pieces' = [pieces EXCEPT ![r] = Tail(@)]
       /\ delivered' = [delivered EXCEPT ![r] = Append(@, Head(pieces[r]))]
       /\ caller' = [caller EXCEPT ![r] = "callback"]
    \/ /\ pieces[r] = <<>>
       /\ caller' = [caller EXCEPT ![r] = IF finished[r] THEN "returned" ELSE "wait"]
       /\ UNCHANGED <<pieces, delivered>>

\* wait_for() returns when its predicate holds, and after 100 ms whatever the predicate
\* says: a call sooner or later looks at what there is.
NothingYet(r) == ~finished[r] /\ pieces[r] = <<>>

\* There is a piece, or the end.
Wake(r) ==
    /\ caller[r] = "wait" /\ ~NothingYet(r)
    /\ Take(r)
    /\ UNCHANGED <<queue, stop, cancelled, finished, outcome, engine, metrics>>

\* There is nothing: cb("") probes whether the client is there.  (A call without a
\* callback waits again, which changes nothing.)
Heartbeat(r) ==
    /\ caller[r] = "wait" /\ r \in Streaming /\ NothingYet(r)
    /\ caller' = [caller EXCEPT ![r] = "callback"]
    /\ UNCHANGED <<shared, delivered, engine, metrics>>

\* The callback returns; false cancels the request.
CallbackReturns(r) ==
    /\ caller[r] = "callback"
    /\ \E keep \in BOOLEAN :
         cancelled' = [cancelled EXCEPT ![r] = @ \/ ~keep]
    /\ Take(r)
    /\ UNCHANGED <<queue, stop, finished, outcome, engine, metrics>>

\* ~onyx_engine(): the store is made under q_mutex_.
Shutdown ==
    /\ ~stop /\ QueueUnlocked
    /\ stop' = TRUE
    /\ UNCHANGED <<queue, pieces, cancelled, finished, outcome, http, engine, metrics>>

-----------------------------------------------------------------------------
(* The engine thread.                                                      *)

\* A pass over the slots stays at l while slots are left, then moves on.
Onward(l, left) ==
    IF left # {} THEN l
    ELSE CASE l = "cancel" -> "sweep"
           [] l = "media" -> "admit"
           [] l \in {"sample", "fail"} -> "wait"
           [] l = "drain_slots" -> "drain_queue"

Visit(s) == Lowest(s) /\ todo' = todo \ {s}

\* Mutant of Woken: stop_ is left out of the wait predicate.
WokenByWork == queue # <<>> \/ Busy # {}

Woken == stop \/ queue # <<>> \/ Busy # {}

\* The wait and the stop check at the top of loop().
Tick ==
    /\ pc = "wait" /\ Woken
    /\ pc' = Onward(IF stop THEN "drain_slots" ELSE "cancel", Busy)
    /\ todo' = Busy
    /\ UNCHANGED <<shared, http, ret, slot, need, sweep, pub, sampled, emitted, metrics>>

\* finish() hands over withheld text, if any, unless the request failed or was cancelled.
Flushes(r, kind) == IF kind = "ok" /\ r \in Streaming THEN BOOLEAN ELSE {FALSE}

Push(r, some) ==
    IF some THEN /\ pieces' = [pieces EXCEPT ![r] = Append(@, emitted[r] + 1)]
                 /\ emitted' = [emitted EXCEPT ![r] = @ + 1]
            ELSE UNCHANGED <<pieces, emitted>>

\* finish(slot, reason, error): the result is written, the slot released;
\* Publish then sets `finished`.
Finish(s, kind) ==
    LET r == slot[s] IN
    /\ outcome' = [outcome EXCEPT ![r] = kind]
    /\ \E some \in Flushes(r, kind) : Push(r, some)
    /\ metrics' = [metrics EXCEPT !.processing = @ - 1]
    /\ slot' = [slot EXCEPT ![s] = NoRequest]
    /\ need' = [need EXCEPT ![s] = 0]
    /\ pub' = r
    /\ ret' = Onward(pc, todo')
    /\ pc' = "publish"
    /\ UNCHANGED <<queue, stop, cancelled, finished, http, sweep, sampled>>

Publish ==
    /\ pc = "publish"
    /\ finished' = [finished EXCEPT ![pub] = TRUE]
    /\ pub' = NoRequest
    /\ pc' = ret
    /\ UNCHANGED <<queue, stop, pieces, cancelled, outcome, http, ret, slot, need, todo,
                   sweep, sampled, emitted, metrics>>

\* loop(): slots whose caller gave up are finished before the tick.
ReleaseCancelled(s) ==
    /\ pc = "cancel" /\ Visit(s)
    /\ cancelled[slot[s]]
    /\ Finish(s, "cancel")

KeepSlot(s) ==
    /\ pc = "cancel" /\ Visit(s)
    /\ ~cancelled[slot[s]]
    /\ pc' = Onward(pc, todo')
    /\ UNCHANGED <<shared, http, ret, slot, need, sweep, pub, sampled, emitted, metrics>>

\* Whoever has waited since before `now` minus the timeout: t_queued grows along
\* the queue, so they are at its front.
Late == {{queue[i] : i \in 1 .. n} : n \in IF QueueTimeout THEN 0 .. Len(queue) ELSE {0}}

\* sweep_queue(): the queue is copied under q_mutex_, the clock read once.
Sweep ==
    /\ pc = "sweep"
    /\ scan' = queue
    /\ late' \in Late
    /\ pc' = IF queue = <<>> THEN "admit" ELSE "check"
    /\ UNCHANGED <<shared, http, ret, slot, need, todo, gone, pub, sampled, emitted, metrics>>

\* Each copied request under its own mu.
SweepCheck ==
    /\ pc = "check" /\ scan # <<>>
    /\ LET r == Head(scan) IN
         IF cancelled[r] \/ r \in late
         THEN /\ outcome' = [outcome EXCEPT ![r] = IF cancelled[r] THEN "cancel" ELSE "timeout"]
              /\ gone' = Append(gone, r)
         ELSE UNCHANGED <<outcome, gone>>
    /\ scan' = Tail(scan)
    /\ UNCHANGED <<queue, stop, pieces, cancelled, finished, http, pc, ret, slot, need, todo,
                   late, pub, sampled, emitted, metrics>>

SweepCheckDone ==
    /\ pc = "check" /\ scan = <<>>
    /\ scan' = gone
    /\ late' = {}
    /\ pc' = IF gone = <<>> THEN "admit" ELSE "erase"
    /\ UNCHANGED <<shared, http, ret, slot, need, todo, gone, pub, sampled, emitted, metrics>>

\* Mutants of Cut: the head is erased, whatever was swept; nothing is erased.
CutHead(q, i) == Tail(q)
CutNothing(q, i) == q

Cut(q, i) == SubSeq(q, 1, i - 1) \o SubSeq(q, i + 1, Len(q))

\* queue_.erase(remove(..., req)) for each swept request, q_mutex_ held throughout.
SweepErase ==
    /\ pc = "erase"
    /\ \E i \in DOMAIN queue : queue[i] = Head(scan) /\ queue' = Cut(queue, i)
    /\ scan' = Tail(scan)
    /\ pc' = IF Len(scan) = 1 THEN "settle" ELSE "erase"
    /\ UNCHANGED <<stop, pieces, cancelled, finished, outcome, http, ret, slot, need, todo,
                   late, gone, pub, sampled, emitted, metrics>>

\* Mutant of Told: a timeout is not counted.
ToldUncounted(r) == metrics

Told(r) == [metrics EXCEPT !.timed_out = IF outcome[r] = "timeout" THEN @ + 1 ELSE @]

\* What sweep_queue() dropped is told one by one.
SettleGone ==
    /\ pc = "settle"
    /\ metrics' = Told(Head(gone))
    /\ finished' = [finished EXCEPT ![Head(gone)] = TRUE]
    /\ gone' = Tail(gone)
    /\ pc' = IF Len(gone) = 1 THEN "admit" ELSE "settle"
    /\ UNCHANGED <<queue, stop, pieces, cancelled, outcome, http, ret, slot, need, todo, scan,
                   late, pub, sampled, emitted>>

\* admit_queued() looks at the head under q_mutex_, then at its `cancelled` under
\* its mu.  Only this thread removes from the queue, so the head cannot change in
\* between and one step stands for both.
AtHead == pc = "admit" /\ queue # <<>>

AdmitCancelled ==
    /\ AtHead /\ cancelled[Head(queue)]
    /\ queue' = Tail(queue)
    /\ outcome' = [outcome EXCEPT ![Head(queue)] = "cancel"]
    /\ pub' = Head(queue)
    /\ ret' = "admit"
    /\ pc' = "publish"
    /\ UNCHANGED <<stop, pieces, cancelled, finished, http, slot, need, todo, sweep, sampled,
                   emitted, metrics>>

\* Mutant of Started: the gauge of busy slots is not raised.
StartedUncounted == metrics

Started == [metrics EXCEPT !.processing = @ + 1]

\* Mutant of Popped: the head stays in the queue.
PoppedNothing == queue

Popped == Tail(queue)

\* The head gets an idle slot (which one is SlotCache's business).  A media
\* request is prefilled and its first token sampled before the next is looked at.
Admit(s) ==
    /\ AtHead /\ ~cancelled[Head(queue)]
    /\ s \notin Busy
    /\ queue' = Popped
    /\ slot' = [slot EXCEPT ![s] = Head(queue)]
    /\ metrics' = Started
    /\ IF Head(queue) \in Media
       THEN need' = need /\ todo' = {s} /\ pc' = "media"
       ELSE /\ \E n \in 0 .. MaxChunks : need' = [need EXCEPT ![s] = n]
            /\ UNCHANGED <<todo, pc>>
    /\ UNCHANGED <<stop, pieces, cancelled, finished, outcome, http, ret, sweep, pub, sampled,
                   emitted>>

\* Nothing is queued, or every slot is busy: then the head waits and nothing
\* behind it jumps ahead.
AdmissionOver == queue # <<>> => ~cancelled[Head(queue)] /\ Busy = Slots

\* build_batch() and a decode that succeeds: the slots whose logits row was in
\* the batch will sample.
Build ==
    /\ pc = "admit" /\ AdmissionOver
    /\ todo' = {s \in Busy : need[s] = 0}
    /\ need' = [s \in Slots |-> IF need[s] > 0 THEN need[s] - 1 ELSE 0]
    /\ pc' = Onward("sample", todo')
    /\ UNCHANGED <<shared, http, ret, slot, sweep, pub, sampled, emitted, metrics>>

\* sample_slot(), on_sampled(): one more token; a streaming request may get a
\* piece out of it (or have its text held back, or produce no text).
Sample(s) ==
    /\ pc \in {"sample", "media"} /\ Visit(s)
    /\ sampled[slot[s]] < MaxTokens
    /\ sampled' = [sampled EXCEPT ![slot[s]] = @ + 1]
    /\ \E some \in Flushes(slot[s], "ok") : Push(slot[s], some)
    /\ pc' = Onward(pc, todo')
    /\ UNCHANGED <<queue, stop, cancelled, finished, outcome, http, ret, slot, need, sweep,
                   pub, metrics>>

\* The request ends with this token (EOG, stop word, a limit), or its sampling
\* or media prefill fails.
SampleFinish(s) ==
    /\ pc \in {"sample", "media"} /\ Visit(s)
    /\ \E kind \in {"ok", "error"} : Finish(s, kind)

\* llama_decode() fails for good (perhaps after part of the batch was sampled),
\* or the tick throws: every busy slot is failed.
TickFails ==
    /\ pc \in {"sample", "media"} \/ (pc = "admit" /\ AdmissionOver)
    /\ Busy # {}
    /\ todo' = Busy
    /\ pc' = "fail"
    /\ UNCHANGED <<shared, http, ret, slot, need, sweep, pub, sampled, emitted, metrics>>

FailSlot(s) == pc = "fail" /\ Visit(s) /\ Finish(s, "error")

\* After the loop: busy slots first, then whatever is still queued.
DrainSlot(s) == pc = "drain_slots" /\ Visit(s) /\ Finish(s, "shutdown")

\* Mutant of Pending: shutdown forgets the requests still queued.
PendingNone == <<>>

Pending == queue

DrainQueue ==
    /\ pc = "drain_queue"
    /\ gone' = Pending
    /\ queue' = <<>>
    /\ pc' = IF gone' = <<>> THEN "exited" ELSE "settle_pending"
    /\ UNCHANGED <<stop, pieces, cancelled, finished, outcome, http, ret, slot, need, todo, scan,
                   late, pub, sampled, emitted, metrics>>

SettlePending ==
    /\ pc = "settle_pending"
    /\ outcome' = [outcome EXCEPT ![Head(gone)] = "shutdown"]
    /\ finished' = [finished EXCEPT ![Head(gone)] = TRUE]
    /\ gone' = Tail(gone)
    /\ pc' = IF Len(gone) = 1 THEN "exited" ELSE "settle_pending"
    /\ UNCHANGED <<queue, stop, pieces, cancelled, http, ret, slot, need, todo, scan, late, pub,
                   sampled, emitted, metrics>>

EngineNext ==
    \/ Tick
    \/ Sweep \/ SweepCheck \/ SweepCheckDone \/ SweepErase \/ SettleGone
    \/ AdmitCancelled \/ Build \/ TickFails
    \/ DrainQueue \/ SettlePending
    \/ Publish
    \/ \E s \in Slots :
         \/ ReleaseCancelled(s) \/ KeepSlot(s) \/ Admit(s)
         \/ Sample(s) \/ SampleFinish(s) \/ FailSlot(s) \/ DrainSlot(s)

\* The part of a call a live HTTP thread and a reading client keep running.
CallerNext(r) == Wake(r) \/ CallbackReturns(r)

\* Everything is over: the engine thread has exited and no call is under way.
Quiet ==
    /\ pc = "exited"
    /\ \A r \in Requests : caller[r] \in {"new", "returned"}
    /\ UNCHANGED vars

Next ==
    \/ EngineNext
    \/ \E r \in Requests :
         \/ Refuse(r) \/ Reject(r) \/ Enqueue(r)
         \/ Heartbeat(r) \/ CallerNext(r)
    \/ Shutdown
    \/ Quiet

Spec == Init /\ [][Next]_vars

\* The engine thread is scheduled; an HTTP thread is scheduled and its callback
\* returns, unless its client has stalled.
FairSpec ==
    /\ Spec
    /\ WF_vars(EngineNext)
    /\ \A r \in Requests \ Stalled : WF_vars(CallerNext(r))

-----------------------------------------------------------------------------
(* Properties.                                                             *)

TypeOK ==
    /\ queue \in Seq(Requests) /\ stop \in BOOLEAN
    /\ pieces \in [Requests -> Seq(Nat)]
    /\ cancelled \in [Requests -> BOOLEAN]
    /\ finished \in [Requests -> BOOLEAN]
    /\ outcome \in [Requests -> Outcomes]
    /\ caller \in [Requests -> Callers]
    /\ delivered \in [Requests -> Seq(Nat)]
    /\ pc \in PCs /\ ret \in PCs
    /\ slot \in [Slots -> Requests \cup {NoRequest}]
    /\ need \in [Slots -> 0 .. MaxChunks]
    /\ todo \in SUBSET Slots
    /\ scan \in Seq(Requests) /\ late \in SUBSET Requests /\ gone \in Seq(Requests)
    /\ pub \in Requests \cup {NoRequest}
    /\ sampled \in [Requests -> 0 .. MaxTokens]
    /\ emitted \in [Requests -> Nat]
    /\ metrics \in [processing : Nat, rejected : Nat, timed_out : Nat]

\* generate() has queued the request.
Accepted(r) == caller[r] # "new" /\ outcome[r] \notin {"full", "invalid"}

\* A request is in at most one place: queued once, or in one slot, or about to
\* be told it is finished, or dropped from the queue and not told yet.  So it is
\* never served twice, and never served after it was dropped.
Exclusive ==
    /\ Distinct(queue)
    /\ \A s, t \in Busy : slot[s] = slot[t] => s = t
    /\ \A r \in Requests :
         /\ InQueue(r) => ~finished[r] /\ pub # r /\ \A s \in Slots : slot[s] # r
         /\ Among(r, gone) => ~finished[r] /\ pub # r /\ \A s \in Slots : slot[s] # r
         /\ pub = r => ~finished[r] /\ \A s \in Slots : slot[s] # r
    /\ \A s \in Busy : ~finished[slot[s]]

\* An accepted request that is not finished is somewhere the engine will look.
NotLost ==
    \A r \in Requests :
        Accepted(r) /\ ~finished[r] =>
            InQueue(r) \/ Among(r, gone) \/ pub = r \/ \E s \in Slots : slot[s] = r

\* The pieces reach the callback in order, none lost and none twice; generate()
\* returns with every piece delivered and a result that says how it ended.
AnsweredWhole ==
    \A r \in Requests :
        /\ delivered[r] \o pieces[r] = [i \in 1 .. emitted[r] |-> i]
        /\ caller[r] = "returned" =>
             /\ Len(delivered[r]) = emitted[r]
             /\ outcome[r] # "none"
             /\ finished[r] \/ outcome[r] \in {"full", "invalid"}

\* generate() reads req->result without the lock once `finished` is set: nothing
\* may write it, or push a piece, after that.
ResultFrozen ==
    [][\A r \in Requests :
         finished[r] => outcome'[r] = outcome[r] /\ emitted'[r] = emitted[r] /\ finished'[r]]_vars

\* A request answered "no slot became free" never had one: nothing was sampled
\* for it and its caller got no piece.
TimedOutUntouched ==
    \A r \in Requests : outcome[r] \in {"timeout", "full"} => sampled[r] = 0 /\ emitted[r] = 0

\* The counters behind /metrics: requests_processing is the slots in use, every
\* refusal and every timeout is counted once.
MetricsExact ==
    /\ metrics.processing = Cardinality(Busy)
    /\ metrics.rejected = Cardinality({r \in Requests : outcome[r] = "full"})
    /\ metrics.timed_out = Cardinality({r \in Requests : finished[r] /\ outcome[r] = "timeout"})

-----------------------------------------------------------------------------
(* Refinement: generate() as its callers see it.                           *)

Phase(r) ==
    IF caller[r] = "new" THEN "idle"
    ELSE IF caller[r] = "returned" THEN "answered"
    ELSE IF finished[r] THEN "settled"
    ELSE IF InQueue(r) THEN "waiting"
    ELSE IF \/ \E s \in Slots : slot[s] = r
            \/ pub = r /\ ~(ret = "admit" /\ outcome[r] = "cancel") THEN "serving"
    ELSE "leaving"

Service == INSTANCE GenService WITH
    phase <- [r \in Requests |-> Phase(r)],
    line  <- queue,
    sent  <- emitted,
    got   <- [r \in Requests |-> Len(delivered[r])]

\* Every behaviour of the threads is one of the service: service in arrival
\* order, at most NSlots at a time, pieces in order, one answer per call.
ImplementsService == Service!Spec

-----------------------------------------------------------------------------
(* Liveness.                                                               *)

\* Every accepted request is finished by the engine, whatever the clients do: a
\* stalled client holds up no one, not even its own slot.
EngineSettles == \A r \in Requests : Accepted(r) ~> finished[r]

\* Every call returns, unless its own client has stalled.
CallsReturn == \A r \in Requests \ Stalled : Accepted(r) ~> caller[r] = "returned"

\* Shutdown ends the engine thread, so the destructor's join returns.
ShutdownJoins == stop ~> pc = "exited"
=============================================================================
