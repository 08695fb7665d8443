----------------------------- MODULE GenService -----------------------------
(***************************************************************************)
(* What onyx_engine::generate() promises its callers, without threads,     *)
(* locks or ticks.  A call either is answered at once or joins a line.     *)
(* Service starts only at the head of the line and for at most NSlots      *)
(* calls at a time; a call may leave the line from any place (cancelled,   *)
(* timed out, shutdown).  The pieces produced for a call reach its caller  *)
(* one by one and in order, and the call returns only after its outcome is *)
(* settled and every piece has been handed over.                           *)
(***************************************************************************)
EXTENDS Naturals, Sequences, FiniteSets

CONSTANTS Requests,   \* the calls to generate()
          NSlots,     \* --parallel
          MaxQueue    \* --max-queue, 0 = unbounded

VARIABLES phase,   \* where each call stands
          line,    \* the waiting calls, first come first
          sent,    \* pieces produced for each call
          got      \* pieces its caller has received

vars == <<phase, line, sent, got>>

Phases == {"idle", "waiting", "serving", "leaving", "settled", "answered"}

In(p) == {r \in Requests : phase[r] = p}

Init == /\ phase = [r \in Requests |-> "idle"]
        /\ line = <<>>
        /\ sent = [r \in Requests |-> 0]
        /\ got = [r \in Requests |-> 0]

Move(r, from, to) == /\ phase[r] = from
                     /\ phase' = [phase EXCEPT ![r] = to]

\* The call is answered without joining the line: invalid, or the line is full.
Refuse(r) == /\ Move(r, "idle", "answered")
             /\ UNCHANGED <<line, sent, got>>

Submit(r) == /\ Move(r, "idle", "waiting")
             /\ MaxQueue > 0 => Len(line) < MaxQueue
             /\ line' = Append(line, r)
             /\ UNCHANGED <<sent, got>>

\* Nothing jumps ahead of the head of the line.
Start(r) == /\ Move(r, "waiting", "serving")
            /\ line # <<>> /\ r = Head(line)
            /\ Cardinality(In("serving")) < NSlots
            /\ line' = Tail(line)
            /\ UNCHANGED <<sent, got>>

Leave(r) == /\ Move(r, "waiting", "leaving")
            /\ \E i \in DOMAIN line :
                 /\ line[i] = r
                 /\ line' = SubSeq(line, 1, i - 1) \o SubSeq(line, i + 1, Len(line))
            /\ UNCHANGED <<sent, got>>

\* Shutdown empties the line.
Close == /\ line # <<>>
         /\ phase' = [r \in Requests |-> IF phase[r] = "waiting" THEN "leaving" ELSE phase[r]]
         /\ line' = <<>>
         /\ UNCHANGED <<sent, got>>

Produce(r) == /\ phase[r] = "serving"
              /\ sent' = [sent EXCEPT ![r] = @ + 1]
              /\ UNCHANGED <<phase, line, got>>

Receive(r) == /\ phase[r] \in {"serving", "settled"}
              /\ got[r] < sent[r]
              /\ got' = [got EXCEPT ![r] = @ + 1]
              /\ UNCHANGED <<phase, line, sent>>

Settle(r) == /\ Move(r, phase[r], "settled")
             /\ phase[r] \in {"serving", "leaving"}
             /\ UNCHANGED <<line, sent, got>>

Return(r) == /\ Move(r, "settled", "answered")
             /\ got[r] = sent[r]
             /\ UNCHANGED <<line, sent, got>>

Next == \/ Close
        \/ \E r \in Requests :
             \/ Refuse(r) \/ Submit(r) \/ Start(r) \/ Leave(r)
             \/ Produce(r) \/ Receive(r) \/ Settle(r) \/ Return(r)

Spec == Init /\ [][Next]_vars
=============================================================================
