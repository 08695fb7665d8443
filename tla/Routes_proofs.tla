---------------------------- MODULE Routes_proofs ----------------------------
(***************************************************************************)
(* Proofs about Routes, for any set of connections, any number of slots    *)
(* and any length of the queue: the engine outlives its handlers, clients  *)
(* that stay are told, those that left give way, and vectors are their     *)
(* own.                                                                    *)
(***************************************************************************)
EXTENDS Routes, SequenceTheorems, TLAPS

-----------------------------------------------------------------------------
(***************************************************************************)
(* The invariant.                                                          *)
(***************************************************************************)

Early == {"new", "parse", "open", "role", "call"}
Embedding == {"embed", "locked", "evaluated"}
Wheres == Early \cup Embedding \cup {"inside", "returned", "over"}
Outcomes == Errors \cup Finishes \cup {"cancel"}

Frames == {"200", "400", "403", "500", "503", "role", "delta", "error", "finish", "[DONE]"}

TypeOK ==
  /\ phase \in [Conns -> Gen!Phases]
  /\ sent \in [Conns -> Nat] /\ got \in [Conns -> Nat]
  /\ main \in {"loading", "serving", "stopping", "down"}
  /\ mode \in {"generation", "embedding"}
  /\ at \in [Conns -> Wheres]
  /\ kind \in [Conns -> {"plain", "chat", "text", "embed"}]
  /\ wire \in [Conns -> Seq(Frames)]
  /\ gone \in [Conns -> BOOLEAN] /\ cancelled \in [Conns -> BOOLEAN]
  /\ held \in [Conns -> BOOLEAN] /\ missed \in [Conns -> BOOLEAN]
  /\ result \in [Conns -> Outcomes \cup {"none"}]
  /\ shown \in [Conns -> Nat]
  /\ inputs \in [Conns -> Nat]
  /\ DOMAIN vectors = Conns

\* Where a handler is, where its call is, and how that ended.
Calling(c) ==
  /\ at[c] \in Early \cup Embedding => phase[c] = "idle"
  /\ at[c] = "inside" => phase[c] \notin {"idle", "answered"}
  /\ at[c] = "returned" => phase[c] = "answered"
  /\ at[c] = "over" => phase[c] \in {"idle", "answered"}
  /\ result[c] = "none" <=> phase[c] \in {"idle", "waiting", "serving"}
  /\ phase[c] \in {"idle", "answered"} => got[c] = sent[c]
  /\ at[c] \in {"new", "parse"} => kind[c] = "plain"
  /\ at[c] \in Embedding <=> kind[c] = "embed" /\ at[c] # "over"
  /\ at[c] \in {"open", "role"} => kind[c] \in Streams

\* Only a client that left has its call cancelled.
Cancelling(c) ==
  /\ cancelled[c] => gone[c]
  /\ result[c] = "cancel" => cancelled[c]

Clean(c, n) == \A i \in 1 .. n : wire[c][i] \notin Finals

\* The last frame for each outcome.
FinalFrame(c) ==
  LET cut == result[c] = "half"
      whole == result[c] \in {"stop", "length"}
  IN  IF kind[c] \in Streams THEN IF whole THEN "[DONE]" ELSE "error"
      ELSE CASE whole -> "200"
             [] cut \/ result[c] = "invalid" -> "400"
             [] result[c] = "failed" -> "500"
             [] OTHER -> "503"

\* Nothing final is sent before the end, and the right thing there.
Telling(c) ==
  /\ at[c] # "over" => Clean(c, Len(wire[c]))
  /\ Stayed(c) => /\ Len(wire[c]) > 0
                  /\ LastSent(c) = FinalFrame(c)
                  /\ Clean(c, Len(wire[c]) - 1)

\* What the parser does not hold back has been sent.
Carrying(c) ==
  /\ ~held[c] /\ kind[c] \in Streams => shown[c] = got[c] \/ at[c] = "over"
  /\ at[c] \in {"new", "parse"} => shown[c] = got[c]
  /\ Stayed(c) /\ kind[c] \in Streams /\ FinalFrame(c) = "[DONE]" /\ ~held[c] => shown[c] = sent[c]

\* A call that a heartbeat found without its client is cancelled.
Missing(c) ==
  /\ missed[c] /\ kind[c] # "chat" => cancelled[c] /\ phase[c] # "serving"
  /\ at[c] \in {"new", "parse"} => ~missed[c]

Firsts(c, n) == [i \in 1 .. n |-> <<c, i>>]

\* The vectors of a request are those of its first inputs.
Embedded(c) ==
  /\ \E n \in Nat : n <= inputs[c] /\ vectors[c] = Firsts(c, n)
  /\ at[c] \in {"locked", "evaluated"} => c \in holder /\ Emb!Left(c)
  /\ at[c] = "evaluated" => output = Emb!Current(c)
  /\ at[c] \in {"new", "parse"} => vectors[c] = <<>>
  /\ at[c] = "over" /\ kind[c] = "embed" /\ ~gone[c] =>
       Len(wire[c]) > 0 /\ (LastSent(c) = "200" => Emb!Whole(c))

OneInside == \A c, d \in holder : c = d

Inv ==
  /\ TypeOK
  /\ EngineAlive
  /\ OneInside
  /\ \A c \in Conns : Calling(c) /\ Cancelling(c) /\ Telling(c)
                      /\ Carrying(c) /\ Missing(c) /\ Embedded(c)

-----------------------------------------------------------------------------
(***************************************************************************)
(* A step of one connection.                                               *)
(***************************************************************************)

ConnStep(c) == Arrive(c) \/ Leaves(c) \/ Handler(c) \/ Heartbeat(c) \/ Engine(c) \/ Sweep(c)

\* All there is of one connection stays as it is.
Same(d) ==
  /\ phase'[d] = phase[d] /\ sent'[d] = sent[d] /\ got'[d] = got[d]
  /\ at'[d] = at[d] /\ kind'[d] = kind[d] /\ wire'[d] = wire[d]
  /\ gone'[d] = gone[d] /\ cancelled'[d] = cancelled[d] /\ result'[d] = result[d]
  /\ held'[d] = held[d] /\ shown'[d] = shown[d] /\ missed'[d] = missed[d]
  /\ inputs'[d] = inputs[d] /\ vectors'[d] = vectors[d]

\* No connection's step touches another connection.
LEMMA OthersStay ==
  ASSUME TypeOK, NEW c \in Conns, NEW d \in Conns, c # d, ConnStep(c)
  PROVE  Same(d)
<1> USE DEF TypeOK, Same, calls, embeds, server, history, GoTo, Sends, Answers, unhandled,
            uncalled, unembedded, Cancels, Ends
<1>1. CASE Arrive(c)
  BY <1>1 DEF Arrive
<1>2. CASE Leaves(c)
  BY <1>2 DEF Leaves
<1>3. CASE Parse(c)
  BY <1>3 DEF Parse, Emb!Ask
<1>4. CASE Open(c)
  BY <1>4 DEF Open
<1>5. CASE Role(c)
  BY <1>5 DEF Role
<1>6. CASE Call(c)
  BY <1>6 DEF Call, Gen!Submit, Gen!Refuse, Gen!Move
<1>7. CASE Receive(c)
  BY <1>7 DEF Receive, Gen!Receive, WritePiece
<1>8. CASE Return(c)
  BY <1>8 DEF Return, Gen!Return, Gen!Move
<1>9. CASE AnswerPlain(c)
  BY <1>9 DEF AnswerPlain
<1>10. CASE EndStream(c)
  BY <1>10 DEF EndStream
<1>11. CASE Embed(c)
  BY <1>11 DEF Embed, Emb!Lock, Emb!Evaluate, Emb!Copy
<1>12. CASE EmbedFails(c)
  BY <1>12 DEF EmbedFails, Emb!Fail
<1>13. CASE AnswerEmbeddings(c)
  BY <1>13 DEF AnswerEmbeddings
<1>14. CASE Heartbeat(c)
  BY <1>14 DEF Heartbeat
<1>15. CASE Start(c)
  BY <1>15 DEF Start, Gen!Start, Gen!Move
<1>16. CASE Produce(c)
  BY <1>16 DEF Produce, Gen!Produce
<1>17. CASE Settle(c)
  BY <1>17 DEF Settle, Gen!Settle, Gen!Move
<1>18. CASE Sweep(c)
  BY <1>18 DEF Sweep, Gen!Leave, Gen!Move
<1>. QED BY <1>1, <1>2, <1>3, <1>4, <1>5, <1>6, <1>7, <1>8, <1>9, <1>10, <1>11, <1>12,
            <1>13, <1>14, <1>15, <1>16, <1>17, <1>18 DEF ConnStep, Handler, Engine

\* Sending appends the frames, unless the client is gone.
LEMMA Sending ==
  ASSUME TypeOK, NEW c \in Conns, NEW frames \in Seq(Frames), Sends(c, frames)
  PROVE  /\ wire' \in [Conns -> Seq(Frames)]
         /\ wire'[c] = IF gone[c] THEN wire[c] ELSE wire[c] \o frames
<1>1. wire[c] \in Seq(Frames) /\ wire[c] \o frames \in Seq(Frames)
  BY DEF TypeOK
<1>. QED BY <1>1 DEF Sends, TypeOK

\* An answer is the last frame, and the end.
LEMMA Answering ==
  ASSUME TypeOK, NEW c \in Conns, NEW status \in Frames, Answers(c, status)
  PROVE  /\ wire' \in [Conns -> Seq(Frames)] /\ at' \in [Conns -> Wheres]
         /\ at'[c] = "over"
         /\ wire'[c] = IF gone[c] THEN wire[c] ELSE wire[c] \o <<status>>
<1>1. <<status>> \in Seq(Frames)
  OBVIOUS
<1>2. at' \in [Conns -> Wheres] /\ at'[c] = "over"
  BY DEF Answers, GoTo, TypeOK, Wheres
<1>3. Sends(c, <<status>>)
  BY DEF Answers
<1>. QED BY <1>1, <1>2, <1>3, Sending

\* Types.
LEMMA TypesKept ==
  ASSUME TypeOK, NEW c \in Conns, ConnStep(c)
  PROVE  TypeOK'
<1>w. /\ {"new", "parse", "open", "role", "call", "inside", "returned", "over"} \subseteq Wheres
      /\ {"embed", "locked", "evaluated"} \subseteq Wheres
  BY DEF Wheres, Early, Embedding
<1>p. {"idle", "waiting", "serving", "leaving", "settled", "answered"} = Gen!Phases
  BY DEF Gen!Phases
<1>o. Errors \cup Finishes \cup {"cancel", "full", "timeout", "invalid", "failed"} = Outcomes
  BY DEF Outcomes, Errors
<1>f. {"200", "400", "403", "500", "503", "role", "delta", "error", "finish", "[DONE]"} = Frames
  BY DEF Frames
<1>1. CASE Arrive(c)
  <2>1. CASE Answers(c, "403")
    BY <1>1, <1>f, <2>1, Answering DEF Arrive, unhandled, calls, embeds, server, history, TypeOK
  <2>2. CASE Answers(c, "503")
    BY <1>1, <1>f, <2>2, Answering DEF Arrive, unhandled, calls, embeds, server, history, TypeOK
  <2>3. CASE GoTo(c, "parse") /\ UNCHANGED wire
    BY <1>1, <1>w, <2>3 DEF Arrive, GoTo, unhandled, calls, embeds, server, history, TypeOK
  <2>. QED BY <1>1, <2>1, <2>2, <2>3 DEF Arrive
<1>2. CASE Leaves(c)
  BY <1>2 DEF Leaves, calls, embeds, server, history, TypeOK
<1>3. CASE Parse(c)
  <2>1. CASE Answers(c, "400") /\ UNCHANGED <<kind, embeds>>
    BY <1>3, <1>f, <2>1, Answering DEF Parse, calls, embeds, server, history, TypeOK
  <2>2. ASSUME NEW asked \in Kinds,
               kind' = [kind EXCEPT ![c] = asked],
               IF asked \in Streams /\ Full THEN Answers(c, "503")
               ELSE GoTo(c, CASE asked \in Streams -> "open"
                              [] asked = "plain" -> "call"
                              [] asked = "embed" -> "embed") /\ UNCHANGED wire,
               IF asked = "embed" THEN Emb!Ask(c) ELSE UNCHANGED embeds
        PROVE  TypeOK'
    <3>1. asked \in {"plain", "chat", "text", "embed"}
      BY DEF Kinds
    <3>2. inputs' \in [Conns -> Nat] /\ UNCHANGED vectors
      <4>1. IF asked = "embed" THEN Emb!Ask(c) ELSE UNCHANGED embeds
        BY <2>2, Zenon
      <4>2. CASE asked = "embed"
        <5>1. PICK n \in 0 .. MaxInputs : inputs' = [inputs EXCEPT ![c] = n]
          BY <4>1, <4>2 DEF Emb!Ask
        <5>2. n \in Nat
          BY RoutesAssumption
        <5>3. UNCHANGED vectors
          BY <4>1, <4>2 DEF Emb!Ask
        <5>. QED BY <5>1, <5>2, <5>3 DEF TypeOK
      <4>3. CASE asked # "embed"
        BY <4>1, <4>3 DEF TypeOK, embeds
      <4>. QED BY <4>2, <4>3
    <3>3. at' \in [Conns -> Wheres] /\ wire' \in [Conns -> Seq(Frames)]
      <4>1. CASE asked \in Streams /\ Full
        BY <2>2, <1>f, <4>1, Answering
      <4>2. CASE asked \in Streams /\ ~Full
        BY <2>2, <1>w, <4>2 DEF TypeOK, GoTo
      <4>3. CASE asked = "plain"
        BY <2>2, <1>w, <4>3 DEF Streams, TypeOK, GoTo
      <4>4. CASE asked = "embed"
        BY <2>2, <1>w, <4>4 DEF Streams, TypeOK, GoTo
      <4>. QED BY <3>1, <4>1, <4>2, <4>3, <4>4 DEF Streams
    <3>4. kind' \in [Conns -> {"plain", "chat", "text", "embed"}]
      BY <2>2, <3>1 DEF TypeOK
    <3>. QED BY <1>3, <3>2, <3>3, <3>4 DEF Parse, calls, server, history, TypeOK
  <2>. QED BY <1>3, <2>1, <2>2 DEF Parse
<1>4. CASE Open(c)
  <2>1. wire' \in [Conns -> Seq(Frames)]
    <3>1. <<"200">> \in Seq(Frames)
      BY <1>f
    <3>. QED BY <1>4, <3>1, Sending DEF Open
  <2>2. at' \in [Conns -> Wheres]
    BY <1>4, <1>w DEF Open, GoTo, TypeOK
  <2>. QED BY <1>4, <2>1, <2>2 DEF Open, unhandled, calls, embeds, server, history, TypeOK
<1>5. CASE Role(c)
  <2>1. wire' \in [Conns -> Seq(Frames)]
    <3>1. <<"role">> \in Seq(Frames)
      BY <1>f
    <3>. QED BY <1>5, <3>1, Sending DEF Role
  <2>2. held' \in [Conns -> BOOLEAN]
    BY <1>5 DEF Role, TypeOK
  <2>3. at' \in [Conns -> Wheres]
    <3>1. PICK where \in Wheres : GoTo(c, where)
      BY <1>5, <1>w DEF Role
    <3>. QED BY <3>1 DEF GoTo, TypeOK
  <2>. QED BY <1>5, <2>1, <2>2, <2>3 DEF Role, calls, embeds, server, history, TypeOK
<1>6. CASE Call(c)
  <2>1. phase' \in [Conns -> Gen!Phases] /\ UNCHANGED <<sent, got>>
    BY <1>6, <1>p DEF Call, Gen!Submit, Gen!Refuse, Gen!Move, TypeOK
  <2>2. at' \in [Conns -> Wheres]
    <3>1. PICK where \in Wheres : GoTo(c, where)
      BY <1>6, <1>w DEF Call
    <3>. QED BY <3>1 DEF GoTo, TypeOK
  <2>3. result' \in [Conns -> Outcomes \cup {"none"}]
    BY <1>6, <1>o DEF Call, Ends, TypeOK
  <2>. QED BY <1>6, <2>1, <2>2, <2>3 DEF Call, uncalled, embeds, server, history, TypeOK
<1>7. CASE Receive(c)
  <2>1. wire' \in [Conns -> Seq(Frames)]
    <3>1. <<"delta">> \in Seq(Frames)
      BY <1>f
    <3>2. wire' = wire \/ Sends(c, <<"delta">>)
      BY <1>7 DEF Receive, WritePiece
    <3>. QED BY <3>1, <3>2, Sending DEF TypeOK
  <2>2. shown' \in [Conns -> Nat]
    <3>1. got[c] + 1 \in Nat
      BY DEF TypeOK
    <3>2. UNCHANGED shown \/ shown' = [shown EXCEPT ![c] = got[c] + 1]
      BY <1>7 DEF Receive, WritePiece
    <3>. QED BY <3>1, <3>2 DEF TypeOK
  <2>3. held' \in [Conns -> BOOLEAN]
    BY <1>7 DEF Receive, WritePiece, TypeOK
  <2>4. cancelled' \in [Conns -> BOOLEAN]
    <3>1. \E keep \in BOOLEAN : Cancels(c, keep)
      <4>1. (~gone[c]) \in BOOLEAN
        OBVIOUS
      <4>. QED BY <1>7, <4>1 DEF Receive, WritePiece
    <3>. QED BY <3>1 DEF Cancels, TypeOK
  <2>5. got' \in [Conns -> Nat] /\ UNCHANGED <<phase, sent>>
    BY <1>7 DEF Receive, Gen!Receive, TypeOK
  <2>. QED BY <1>7, <2>1, <2>2, <2>3, <2>4, <2>5 DEF Receive, embeds, server, history, TypeOK
<1>8. CASE Return(c)
  <2>1. phase' \in [Conns -> Gen!Phases] /\ UNCHANGED <<sent, got>>
    BY <1>8, <1>p DEF Return, Gen!Return, Gen!Move, TypeOK
  <2>2. at' \in [Conns -> Wheres]
    BY <1>8, <1>w DEF Return, GoTo, TypeOK
  <2>. QED BY <1>8, <2>1, <2>2 DEF Return, uncalled, embeds, server, history, TypeOK
<1>9. CASE AnswerPlain(c)
  <2>1. PICK status \in Frames : Answers(c, status)
    BY <1>9, <1>f DEF AnswerPlain, Status
  <2>. QED BY <1>9, <2>1, Answering DEF AnswerPlain, unhandled, calls, embeds, server, history, TypeOK
<1>10. CASE EndStream(c)
  <2>1. Last(c) \in Seq(Frames)
    <3>1. <<"error">> \in Seq(Frames) /\ << >> \in Seq(Frames) /\ <<"finish", "[DONE]">> \in Seq(Frames)
      BY <1>f
    <3>. QED BY <3>1 DEF Last
  <2>2. wire' \in [Conns -> Seq(Frames)]
    BY <1>10, <2>1, Sending DEF EndStream
  <2>3. shown' \in [Conns -> Nat]
    BY <1>10 DEF EndStream, TypeOK
  <2>4. at' \in [Conns -> Wheres]
    BY <1>10, <1>w DEF EndStream, GoTo, TypeOK
  <2>. QED BY <1>10, <2>2, <2>3, <2>4 DEF EndStream, calls, embeds, server, history, TypeOK
<1>11. CASE Embed(c)
  <2>1. at' \in [Conns -> Wheres]
    <3>1. PICK where \in Wheres : GoTo(c, where)
      BY <1>11, <1>w DEF Embed
    <3>. QED BY <3>1 DEF GoTo, TypeOK
  <2>2. UNCHANGED <<inputs, wire>> /\ DOMAIN vectors' = Conns
    BY <1>11 DEF Embed, Emb!Lock, Emb!Evaluate, Emb!Copy, TypeOK
  <2>. QED BY <1>11, <2>1, <2>2 DEF Embed, unembedded, calls, server, history, TypeOK
<1>12. CASE EmbedFails(c)
  <2>1. PICK status \in Frames : Answers(c, status)
    BY <1>12, <1>f DEF EmbedFails
  <2>. QED BY <1>12, <2>1, Answering
           DEF EmbedFails, Emb!Fail, unembedded, calls, server, history, TypeOK
<1>13. CASE AnswerEmbeddings(c)
  BY <1>13, <1>f, Answering DEF AnswerEmbeddings, unhandled, calls, embeds, server, history, TypeOK
<1>14. CASE Heartbeat(c)
  BY <1>14 DEF Heartbeat, Cancels, calls, embeds, server, TypeOK
<1>15. CASE Start(c)
  BY <1>15, <1>p DEF Start, Gen!Start, Gen!Move, uncalled, embeds, server, history, TypeOK
<1>16. CASE Produce(c)
  BY <1>16 DEF Produce, Gen!Produce, uncalled, embeds, server, history, TypeOK
<1>17. CASE Settle(c)
  <2>1. phase' \in [Conns -> Gen!Phases] /\ UNCHANGED <<sent, got>>
    BY <1>17, <1>p DEF Settle, Gen!Settle, Gen!Move, TypeOK
  <2>2. PICK how \in Outcomes : UNCHANGED result \/ Ends(c, how)
    BY <1>17, <1>o DEF Settle
  <2>3. result' \in [Conns -> Outcomes \cup {"none"}]
    BY <2>2 DEF Ends, TypeOK
  <2>. QED BY <1>17, <2>1, <2>3 DEF Settle, uncalled, embeds, server, history, TypeOK
<1>18. CASE Sweep(c)
  <2>1. phase' \in [Conns -> Gen!Phases] /\ UNCHANGED <<sent, got>>
    BY <1>18, <1>p DEF Sweep, Gen!Leave, Gen!Move, TypeOK
  <2>2. result' \in [Conns -> Outcomes \cup {"none"}]
    BY <1>18, <1>o DEF Sweep, Ends, TypeOK
  <2>. QED BY <1>18, <2>1, <2>2 DEF Sweep, uncalled, embeds, server, history, TypeOK
<1>. QED BY <1>1, <1>2, <1>3, <1>4, <1>5, <1>6, <1>7, <1>8, <1>9, <1>10, <1>11, <1>12,
            <1>13, <1>14, <1>15, <1>16, <1>17, <1>18 DEF ConnStep, Handler, Engine

\* What a parsed request becomes.
LEMMA Parsing ==
  ASSUME TypeOK, NEW c \in Conns, Parse(c)
  PROVE  \/ Answers(c, "400") /\ UNCHANGED <<kind, embeds>>
         \/ /\ kind'[c] \in {"chat", "text"} /\ UNCHANGED embeds
            /\ \/ Answers(c, "503")
               \/ GoTo(c, "open") /\ UNCHANGED wire
         \/ kind'[c] = "plain" /\ UNCHANGED embeds /\ GoTo(c, "call") /\ UNCHANGED wire
         \/ kind'[c] = "embed" /\ Emb!Ask(c) /\ GoTo(c, "embed") /\ UNCHANGED wire
<1>1. CASE Answers(c, "400") /\ UNCHANGED <<kind, embeds>>
  BY <1>1
<1>2. ASSUME NEW asked \in Kinds,
             kind' = [kind EXCEPT ![c] = asked],
             IF asked \in Streams /\ Full THEN Answers(c, "503")
             ELSE GoTo(c, CASE asked \in Streams -> "open"
                            [] asked = "plain" -> "call"
                            [] asked = "embed" -> "embed") /\ UNCHANGED wire,
             IF asked = "embed" THEN Emb!Ask(c) ELSE UNCHANGED embeds
      PROVE  \/ /\ kind'[c] \in {"chat", "text"} /\ UNCHANGED embeds
                /\ \/ Answers(c, "503")
                   \/ GoTo(c, "open") /\ UNCHANGED wire
             \/ kind'[c] = "plain" /\ UNCHANGED embeds /\ GoTo(c, "call") /\ UNCHANGED wire
             \/ kind'[c] = "embed" /\ Emb!Ask(c) /\ GoTo(c, "embed") /\ UNCHANGED wire
  <2>1. asked \in {"plain", "chat", "text", "embed"} /\ kind'[c] = asked
    BY <1>2 DEF Kinds, TypeOK
  <2>2. CASE asked \in Streams
    <3>1. asked \in {"chat", "text"} /\ asked # "embed"
      BY <2>2 DEF Streams
    <3>2. CASE Full
      BY <1>2, <2>1, <2>2, <3>1, <3>2
    <3>3. CASE ~Full
      BY <1>2, <2>1, <2>2, <3>1, <3>3
    <3>. QED BY <3>2, <3>3
  <2>3. CASE asked = "plain"
    <3>1. asked \notin Streams
      BY <2>3 DEF Streams
    <3>. QED BY <1>2, <2>1, <2>3, <3>1
  <2>4. CASE asked = "embed"
    <3>1. asked \notin Streams
      BY <2>4 DEF Streams
    <3>. QED BY <1>2, <2>1, <2>4, <3>1
  <2>. QED BY <2>1, <2>2, <2>3, <2>4 DEF Streams
<1>. QED BY <1>1, <1>2 DEF Parse

\* Such a handler answers, calls the engine or embeds.
LEMMA ParsedAt ==
  ASSUME TypeOK, NEW c \in Conns, Parse(c)
  PROVE  \/ at'[c] = "over"
         \/ at'[c] = "open" /\ kind'[c] \in Streams
         \/ at'[c] = "call" /\ kind'[c] = "plain"
         \/ at'[c] = "embed" /\ kind'[c] = "embed"
BY Parsing DEF Answers, GoTo, Streams, TypeOK

\* Only a client that left has its call cancelled.
LEMMA CancellingKept ==
  ASSUME TypeOK, NEW c \in Conns, Cancelling(c), ConnStep(c)
  PROVE  Cancelling(c)'
<1> USE DEF TypeOK, calls, embeds, server, history, Cancelling
<1>1. CASE Arrive(c)
  BY <1>1 DEF Arrive, unhandled
<1>2. CASE Leaves(c)
  BY <1>2 DEF Leaves
<1>3. CASE Parse(c)
  BY <1>3 DEF Parse
<1>4. CASE Open(c)
  BY <1>4 DEF Open, unhandled
<1>5. CASE Role(c)
  BY <1>5 DEF Role
<1>6. CASE Call(c)
  BY <1>6 DEF Call, uncalled, Ends
<1>7. CASE Receive(c)
  BY <1>7 DEF Receive, Gen!Receive, Cancels, WritePiece
<1>8. CASE Return(c)
  BY <1>8 DEF Return, uncalled, Gen!Return, Gen!Move
<1>9. CASE AnswerPlain(c)
  BY <1>9 DEF AnswerPlain, unhandled
<1>10. CASE EndStream(c)
  BY <1>10 DEF EndStream
<1>11. CASE Embed(c)
  BY <1>11 DEF Embed, unembedded
<1>12. CASE EmbedFails(c)
  BY <1>12 DEF EmbedFails, unembedded
<1>13. CASE AnswerEmbeddings(c)
  BY <1>13 DEF AnswerEmbeddings, unhandled
<1>14. CASE Heartbeat(c)
  BY <1>14 DEF Heartbeat, Cancels
<1>15. CASE Start(c)
  BY <1>15 DEF Start, Gen!Start, Gen!Move, uncalled
<1>16. CASE Produce(c)
  BY <1>16 DEF Produce, Gen!Produce, uncalled
<1>17. CASE Settle(c)
  BY <1>17 DEF Settle, Gen!Settle, Gen!Move, uncalled, Ends, Finishes, Errors
<1>18. CASE Sweep(c)
  BY <1>18 DEF Sweep, Gen!Leave, Gen!Move, uncalled, Ends
<1>. QED BY <1>1, <1>2, <1>3, <1>4, <1>5, <1>6, <1>7, <1>8, <1>9, <1>10, <1>11, <1>12,
            <1>13, <1>14, <1>15, <1>16, <1>17, <1>18 DEF ConnStep, Handler, Engine

\* Handler, call and outcome go together.
LEMMA CallingKept ==
  ASSUME TypeOK, NEW c \in Conns, Calling(c), ConnStep(c)
  PROVE  Calling(c)'
<1> USE DEF TypeOK, calls, embeds, server, history, Calling, Early, Embedding
<1>1. CASE Arrive(c)
  BY <1>1 DEF Arrive, unhandled, Answers, GoTo
<1>2. CASE Leaves(c)
  BY <1>2 DEF Leaves
<1>3. CASE Parse(c)
  <2>1. at[c] = "parse" /\ UNCHANGED <<calls, result>>
    BY <1>3 DEF Parse
  <2>. QED BY <1>3, <2>1, ParsedAt DEF Streams
<1>4. CASE Open(c)
  BY <1>4 DEF Open, unhandled, GoTo
<1>5. CASE Role(c)
  BY <1>5 DEF Role, GoTo
<1>6. CASE Call(c)
  BY <1>6 DEF Call, uncalled, Ends, GoTo, Gen!Submit, Gen!Refuse, Gen!Move
<1>7. CASE Receive(c)
  BY <1>7 DEF Receive, Gen!Receive
<1>8. CASE Return(c)
  BY <1>8 DEF Return, uncalled, Gen!Return, Gen!Move, GoTo
<1>9. CASE AnswerPlain(c)
  BY <1>9 DEF AnswerPlain, unhandled, Answers, GoTo
<1>10. CASE EndStream(c)
  BY <1>10 DEF EndStream, GoTo
<1>11. CASE Embed(c)
  BY <1>11 DEF Embed, unembedded, GoTo, Emb!Lock, Emb!Evaluate, Emb!Copy
<1>12. CASE EmbedFails(c)
  BY <1>12 DEF EmbedFails, unembedded, Answers, GoTo
<1>13. CASE AnswerEmbeddings(c)
  BY <1>13 DEF AnswerEmbeddings, unhandled, Answers, GoTo
<1>14. CASE Heartbeat(c)
  BY <1>14 DEF Heartbeat
<1>15. CASE Start(c)
  BY <1>15 DEF Start, Gen!Start, Gen!Move, uncalled
<1>16. CASE Produce(c)
  BY <1>16 DEF Produce, Gen!Produce, uncalled
<1>17. CASE Settle(c)
  BY <1>17 DEF Settle, Gen!Settle, Gen!Move, uncalled, Ends, Finishes, Errors
<1>18. CASE Sweep(c)
  BY <1>18 DEF Sweep, Gen!Leave, Gen!Move, uncalled, Ends
<1>. QED BY <1>1, <1>2, <1>3, <1>4, <1>5, <1>6, <1>7, <1>8, <1>9, <1>10, <1>11, <1>12,
            <1>13, <1>14, <1>15, <1>16, <1>17, <1>18 DEF ConnStep, Handler, Engine

-----------------------------------------------------------------------------
(***************************************************************************)
(* What a client is told.                                                  *)
(***************************************************************************)

\* Before its end a handler that sends nothing final stays clean.
LEMMA NotYetOver ==
  ASSUME TypeOK, NEW c \in Conns, Telling(c), at[c] # "over", at'[c] # "over",
         wire'[c] = wire[c]
  PROVE  Telling(c)'
BY DEF Telling, Clean, Stayed

\* No end among the frames of a handler at work.
LEMMA NothingFinal ==
  ASSUME TypeOK, NEW c \in Conns, Telling(c), at[c] # "over", NEW f \in Frames \ Finals,
         Sends(c, <<f>>),
         at'[c] # "over" \/ gone'[c]
  PROVE  Telling(c)'
<1>1. <<f>> \in Seq(Frames)
  OBVIOUS
<1>2. wire'[c] = IF gone[c] THEN wire[c] ELSE wire[c] \o <<f>>
  BY <1>1, Sending
<1>3. wire[c] \in Seq(Frames) /\ Clean(c, Len(wire[c]))
  BY DEF TypeOK, Telling
<1>4. Clean(c, Len(wire[c]))'
  BY <1>2, <1>3 DEF Clean
<1>. QED BY <1>4 DEF Telling, Stayed

\* A request that had no generation is not spoken of.
LEMMA NoGeneration ==
  ASSUME NEW c \in Conns, at'[c] = "over", result'[c] = "none"
  PROVE  Telling(c)'
BY DEF Telling, Stayed

\* The last frames, sent to a client that is there.
LEMMA TheEnd ==
  ASSUME TypeOK, NEW c \in Conns, Telling(c), at[c] # "over", at'[c] = "over", ~gone[c],
         NEW frames \in Seq(Frames), Sends(c, frames), Len(frames) > 0,
         frames[Len(frames)] = FinalFrame(c)',
         \A i \in 1 .. Len(frames) - 1 : frames[i] \notin Finals
  PROVE  Telling(c)'
<1>1. wire'[c] = wire[c] \o frames
  BY Sending
<1>2. wire[c] \in Seq(Frames) /\ Clean(c, Len(wire[c]))
  BY DEF TypeOK, Telling
<1>3. /\ Len(wire'[c]) = Len(wire[c]) + Len(frames)
      /\ Len(wire[c]) \in Nat /\ Len(frames) \in Nat
      /\ \A i \in 1 .. Len(wire[c]) : wire'[c][i] = wire[c][i]
      /\ \A i \in 1 .. Len(frames) : wire'[c][Len(wire[c]) + i] = frames[i]
  BY <1>1, <1>2
<1>4. wire'[c][Len(wire'[c])] = FinalFrame(c)'
  BY <1>3
<1>5. ASSUME NEW i \in 1 .. Len(wire'[c]) - 1 PROVE wire'[c][i] \notin Finals
  <2>1. CASE i \in 1 .. Len(wire[c])
    BY <1>2, <1>3, <2>1 DEF Clean
  <2>2. CASE i \notin 1 .. Len(wire[c])
    <3>1. PICK j \in 1 .. Len(frames) - 1 : i = Len(wire[c]) + j
      <4>1. i - Len(wire[c]) \in 1 .. Len(frames) - 1 /\ i = Len(wire[c]) + (i - Len(wire[c]))
        BY <1>3, <2>2
      <4>. QED BY <4>1
    <3>2. wire'[c][i] = frames[j]
      BY <1>3, <3>1
    <3>. QED BY <3>2
  <2>. QED BY <2>1, <2>2
<1>. QED BY <1>3, <1>4, <1>5 DEF Telling, LastSent, Clean

\* A client that stays is told how its generation ended, last and once.
LEMMA TellingKept ==
  ASSUME TypeOK, NEW c \in Conns, Calling(c), Cancelling(c), Telling(c), ConnStep(c)
  PROVE  Telling(c)'
<1>f. {"200", "400", "403", "500", "503", "role", "delta", "error", "finish", "[DONE]"} = Frames
  BY DEF Frames
<1>r. at[c] \in Early \cup Embedding => result[c] = "none" /\ at[c] # "over"
  BY DEF Calling, Early, Embedding
<1>e. phase[c] \in {"waiting", "serving", "leaving", "settled"} => at[c] = "inside"
  BY DEF TypeOK, Calling, Wheres, Early, Embedding
<1>1. CASE Arrive(c)
  <2>1. ASSUME NEW status \in Frames, Answers(c, status) PROVE Telling(c)'
    BY <1>1, <1>r, <2>1, Answering, NoGeneration DEF Arrive, unhandled, Early
  <2>2. CASE GoTo(c, "parse") /\ UNCHANGED wire
    BY <1>1, <2>2, NotYetOver DEF Arrive, GoTo, TypeOK
  <2>. QED BY <1>1, <1>f, <2>1, <2>2 DEF Arrive
<1>2. CASE Leaves(c)
  BY <1>2, NotYetOver DEF Leaves, Handling
<1>3. CASE Parse(c)
  <2>1. at[c] = "parse" /\ UNCHANGED result
    BY <1>3 DEF Parse
  <2>2. ASSUME NEW status \in Frames, Answers(c, status) PROVE Telling(c)'
    BY <1>r, <2>1, <2>2, Answering, NoGeneration DEF Early
  <2>3. ASSUME NEW where \in {"open", "call", "embed"}, GoTo(c, where), UNCHANGED wire
        PROVE  Telling(c)'
    BY <2>1, <2>3, NotYetOver DEF GoTo, TypeOK
  <2>. QED BY <1>3, <1>f, <2>2, <2>3, Parsing
<1>4. CASE Open(c)
  <2>1. at[c] = "open" /\ Sends(c, <<"200">>) /\ kind[c] \in Streams /\ UNCHANGED <<gone, kind>>
    BY <1>4 DEF Open, Calling, unhandled
  <2>2. at'[c] # "over" \/ gone'[c] \/ ~listening
    BY <1>4 DEF Open, GoTo, TypeOK, unhandled
  <2>3. result'[c] = "none"
    BY <1>4, <1>r DEF Open, Early, unhandled
  <2>4. CASE at'[c] = "over"
    BY <2>3, <2>4, NoGeneration
  <2>5. CASE at'[c] # "over"
    BY <1>f, <2>1, <2>5, NothingFinal DEF Finals
  <2>. QED BY <2>4, <2>5
<1>5. CASE Role(c)
  <2>1. at[c] = "role" /\ Sends(c, <<"role">>) /\ UNCHANGED <<gone, result>>
    BY <1>5 DEF Role
  <2>2. CASE at'[c] = "over"
    BY <1>r, <2>1, <2>2, NoGeneration DEF Early
  <2>3. CASE at'[c] # "over"
    BY <1>f, <2>1, <2>3, NothingFinal DEF Finals
  <2>. QED BY <2>2, <2>3
<1>6. CASE Call(c)
  <2>1. PICK where \in {"inside", "returned"} : GoTo(c, where)
    BY <1>6 DEF Call
  <2>2. at[c] # "over" /\ at'[c] # "over" /\ wire'[c] = wire[c]
    BY <1>6, <2>1 DEF Call, uncalled, GoTo, TypeOK
  <2>. QED BY <2>2, NotYetOver
<1>7. CASE Receive(c)
  <2>1. at[c] = "inside" /\ at'[c] = "inside"
    BY <1>7 DEF Receive
  <2>2. UNCHANGED wire \/ Sends(c, <<"delta">>)
    BY <1>7 DEF Receive, WritePiece
  <2>3. CASE UNCHANGED wire
    BY <2>1, <2>3, NotYetOver
  <2>4. CASE Sends(c, <<"delta">>)
    BY <1>f, <2>1, <2>4, NothingFinal DEF Finals
  <2>. QED BY <2>2, <2>3, <2>4
<1>8. CASE Return(c)
  BY <1>8, NotYetOver DEF Return, uncalled, GoTo, TypeOK
<1>9. CASE AnswerPlain(c)
  <2>1. UNCHANGED <<gone, result, kind>> /\ at[c] = "returned" /\ kind[c] = "plain"
    BY <1>9 DEF AnswerPlain, unhandled
  <2>2. CASE gone[c]
    <3>1. PICK status \in Frames : Answers(c, status)
      BY <1>9, <1>f DEF AnswerPlain, Status
    <3>. QED BY <2>1, <2>2, <3>1, Answering DEF Telling, Stayed
  <2>3. CASE ~gone[c]
    <3>1. FinalFrame(c)' = FinalFrame(c)
      BY <2>1 DEF FinalFrame
    <3>2. result[c] \in Errors \cup Finishes
      <4>1. phase[c] = "answered" /\ result[c] # "none" /\ result[c] # "cancel"
        BY <2>1, <2>3 DEF Calling, Cancelling
      <4>. QED BY <4>1 DEF TypeOK, Outcomes
    <3>3. FinalFrame(c) = IF result[c] \in Errors THEN Status(result[c])
                          ELSE IF result[c] = "half" THEN "400" ELSE "200"
      BY <2>1, <3>2 DEF FinalFrame, Streams, Status, Errors, Finishes
    <3>4. Answers(c, FinalFrame(c)) /\ FinalFrame(c) \in Frames
      BY <1>9, <1>f, <3>3 DEF AnswerPlain, Status
    <3>5. <<FinalFrame(c)>> \in Seq(Frames) /\ Sends(c, <<FinalFrame(c)>>) /\ at'[c] = "over"
      BY <3>4, Answering DEF Answers
    <3>6. DEFINE frames == <<FinalFrame(c)>>
    <3>7. /\ Len(frames) > 0 /\ frames[Len(frames)] = FinalFrame(c)'
          /\ \A i \in 1 .. Len(frames) - 1 : frames[i] \notin Finals
      BY <3>1
    <3>8. at[c] # "over" /\ frames \in Seq(Frames) /\ Sends(c, frames) /\ at'[c] = "over"
      BY <2>1, <3>5
    <3>. HIDE DEF frames
    <3>. QED BY <2>3, <3>7, <3>8, TheEnd
  <2>. QED BY <2>2, <2>3
<1>10. CASE EndStream(c)
  <2>1. UNCHANGED <<gone, result, kind>> /\ at[c] = "returned" /\ kind[c] \in Streams
    BY <1>10 DEF EndStream
  <2>2. Sends(c, Last(c)) /\ at'[c] = "over"
    BY <1>10 DEF EndStream, GoTo, TypeOK
  <2>3. Last(c) \in Seq(Frames)
    <3>1. <<"error">> \in Seq(Frames) /\ << >> \in Seq(Frames) /\ <<"finish", "[DONE]">> \in Seq(Frames)
      BY <1>f
    <3>. QED BY <3>1 DEF Last
  <2>4. CASE gone[c]
    BY <2>1, <2>2, <2>4 DEF Telling, Stayed
  <2>5. CASE ~gone[c]
    <3>1. FinalFrame(c)' = FinalFrame(c)
      BY <2>1 DEF FinalFrame
    <3>2. result[c] \in Errors \cup Finishes
      <4>1. phase[c] = "answered" /\ result[c] # "none" /\ result[c] # "cancel"
        BY <2>1, <2>5 DEF Calling, Cancelling
      <4>. QED BY <4>1 DEF TypeOK, Outcomes
    <3>3. CASE result[c] \in {"stop", "length"}
      <4>1. Last(c) = <<"finish", "[DONE]">> /\ FinalFrame(c) = "[DONE]"
        BY <2>1, <3>3 DEF Last, FinalFrame, Errors
      <4>2. /\ Len(Last(c)) = 2 /\ Last(c)[2] = "[DONE]"
            /\ \A i \in 1 .. Len(Last(c)) - 1 : Last(c)[i] \notin Finals
        BY <4>1 DEF Finals
      <4>3. Len(Last(c)) > 0 /\ Last(c)[Len(Last(c))] = FinalFrame(c)' /\ at[c] # "over"
        BY <2>1, <3>1, <4>1, <4>2
      <4>. QED BY <2>2, <2>3, <2>5, <4>2, <4>3, TheEnd
    <3>4. CASE result[c] \notin {"stop", "length"}
      <4>1. Last(c) = <<"error">> /\ FinalFrame(c) = "error"
        BY <2>1, <3>2, <3>4 DEF Last, FinalFrame, Errors, Finishes
      <4>2. /\ Len(Last(c)) = 1 /\ Last(c)[1] = "error"
            /\ \A i \in 1 .. Len(Last(c)) - 1 : Last(c)[i] \notin Finals
        BY <4>1
      <4>3. Len(Last(c)) > 0 /\ Last(c)[Len(Last(c))] = FinalFrame(c)' /\ at[c] # "over"
        BY <2>1, <3>1, <4>1, <4>2
      <4>. QED BY <2>2, <2>3, <2>5, <4>2, <4>3, TheEnd
    <3>. QED BY <3>3, <3>4
  <2>. QED BY <2>4, <2>5
<1>11. CASE Embed(c)
  <2>1. PICK where \in {"locked", "evaluated", "embed"} : GoTo(c, where)
    BY <1>11 DEF Embed
  <2>2. at[c] # "over" /\ at'[c] # "over" /\ UNCHANGED wire
    BY <1>11, <2>1 DEF Embed, GoTo, TypeOK
  <2>. QED BY <2>2, NotYetOver
<1>12. CASE EmbedFails(c)
  <2>1. PICK status \in Frames : Answers(c, status)
    BY <1>12, <1>f DEF EmbedFails
  <2>. QED BY <1>12, <1>r, <2>1, Answering, NoGeneration DEF EmbedFails, Embedding, unembedded
<1>13. CASE AnswerEmbeddings(c)
  BY <1>13, <1>f, <1>r, Answering, NoGeneration DEF AnswerEmbeddings, Embedding, unhandled
<1>14. CASE Heartbeat(c)
  BY <1>14, NotYetOver DEF Heartbeat
<1>15. CASE Start(c)
  BY <1>15, <1>e, NotYetOver DEF Start, Gen!Start, Gen!Move, uncalled
<1>16. CASE Produce(c)
  BY <1>16, <1>e, NotYetOver DEF Produce, Gen!Produce, uncalled
<1>17. CASE Settle(c)
  BY <1>17, <1>e, NotYetOver DEF Settle, Gen!Settle, Gen!Move, uncalled
<1>18. CASE Sweep(c)
  BY <1>18, <1>e, NotYetOver DEF Sweep, Gen!Leave, Gen!Move, uncalled
<1>. QED BY <1>1, <1>2, <1>3, <1>4, <1>5, <1>6, <1>7, <1>8, <1>9, <1>10, <1>11, <1>12,
            <1>13, <1>14, <1>15, <1>16, <1>17, <1>18 DEF ConnStep, Handler, Engine

-----------------------------------------------------------------------------
(***************************************************************************)
(* Clients that leave, and text held back.                                 *)
(***************************************************************************)

\* A call that a heartbeat found without its client does not get a slot.
LEMMA MissingKept ==
  ASSUME TypeOK, NEW c \in Conns, Missing(c), Calling(c), ConnStep(c)
  PROVE  Missing(c)'
<1> USE DEF TypeOK, calls, embeds, server, history, Missing, Probes
<1>c. /\ at[c] \in {"new", "parse"} => phase[c] = "idle"
      /\ at[c] \in {"open", "role"} => phase[c] = "idle"
      /\ at[c] \in {"call", "embed", "locked", "evaluated"} => phase[c] = "idle"
      /\ at[c] = "inside" => phase[c] # "idle"
  BY DEF Calling, Early, Embedding
<1>1. CASE Arrive(c)
  BY <1>1, <1>c DEF Arrive, unhandled, GoTo, Answers
<1>2. CASE Leaves(c)
  BY <1>2, <1>c DEF Leaves
<1>3. CASE Parse(c)
  <2>1. at[c] = "parse" /\ UNCHANGED <<calls, gone, cancelled, result, held, shown, missed>>
    BY <1>3, <1>c DEF Parse, history
  <2>. QED BY <2>1, Parsing, <1>3 DEF Answers, GoTo
<1>4. CASE Open(c)
  BY <1>4, <1>c DEF Open, unhandled, GoTo
<1>5. CASE Role(c)
  BY <1>5, <1>c DEF Role, GoTo
<1>6. CASE Call(c)
  BY <1>6, <1>c DEF Call, uncalled, Gen!Submit, Gen!Refuse, Gen!Move, GoTo
<1>7. CASE Receive(c)
  BY <1>7, <1>c DEF Receive, Gen!Receive, Cancels, WritePiece
<1>8. CASE Return(c)
  BY <1>8, <1>c DEF Return, uncalled, Gen!Return, Gen!Move, GoTo
<1>9. CASE AnswerPlain(c)
  BY <1>9, <1>c DEF AnswerPlain, unhandled, GoTo, Answers
<1>10. CASE EndStream(c)
  BY <1>10, <1>c DEF EndStream, GoTo
<1>11. CASE Embed(c)
  BY <1>11, <1>c DEF Embed, unembedded, GoTo
<1>12. CASE EmbedFails(c)
  BY <1>12, <1>c DEF EmbedFails, unembedded, GoTo, Answers
<1>13. CASE AnswerEmbeddings(c)
  BY <1>13, <1>c DEF AnswerEmbeddings, unhandled, GoTo, Answers
<1>14. CASE Heartbeat(c)
  BY <1>14, <1>c DEF Heartbeat, Cancels
<1>15. CASE Start(c)
  BY <1>15, <1>c DEF Start, Gen!Start, Gen!Move, uncalled
<1>16. CASE Produce(c)
  BY <1>16, <1>c DEF Produce, Gen!Produce, uncalled
<1>17. CASE Settle(c)
  BY <1>17, <1>c DEF Settle, Gen!Settle, Gen!Move, uncalled
<1>18. CASE Sweep(c)
  BY <1>18, <1>c DEF Sweep, Gen!Leave, Gen!Move, uncalled
<1>. QED BY <1>1, <1>2, <1>3, <1>4, <1>5, <1>6, <1>7, <1>8, <1>9, <1>10, <1>11, <1>12,
            <1>13, <1>14, <1>15, <1>16, <1>17, <1>18 DEF ConnStep, Handler, Engine

\* What the parser does not hold back is sent.
LEMMA CarryingKept ==
  ASSUME TypeOK, NEW c \in Conns, Carrying(c), Calling(c), ConnStep(c)
  PROVE  Carrying(c)'
<1> USE DEF TypeOK, calls, embeds, server, history, Carrying
<1>c. /\ at[c] \in {"new", "parse", "open", "role", "call", "embed", "locked", "evaluated"} =>
           phase[c] = "idle" /\ result[c] = "none"
      /\ at[c] \in {"embed", "locked", "evaluated"} => kind[c] = "embed"
      /\ at[c] = "returned" => phase[c] = "answered"
      /\ phase[c] \in {"idle", "answered"} => got[c] = sent[c]
      /\ phase[c] \in {"waiting", "serving", "leaving", "settled"} => at[c] = "inside"
  BY DEF Calling, Early, Embedding, Wheres
<1>1. CASE Arrive(c)
  BY <1>1, <1>c DEF Arrive, unhandled, GoTo, Answers, Stayed
<1>2. CASE Leaves(c)
  BY <1>2, <1>c DEF Leaves, Stayed, FinalFrame, Handling
<1>3. CASE Parse(c)
  <2>1. at[c] = "parse" /\ UNCHANGED <<calls, result, held, shown>>
    BY <1>3, <1>c DEF Parse
  <2>2. at'[c] \notin {"new", "parse"} /\ result'[c] = "none"
    BY <1>3, <2>1, <1>c, ParsedAt
  <2>3. shown[c] = got[c]
    BY <2>1
  <2>. QED BY <2>1, <2>2, <2>3 DEF Stayed
<1>4. CASE Open(c)
  BY <1>4, <1>c DEF Open, unhandled, GoTo, Stayed
<1>5. CASE Role(c)
  BY <1>5, <1>c DEF Role, GoTo, Stayed
<1>6. CASE Call(c)
  BY <1>6, <1>c DEF Call, uncalled, GoTo, Gen!Submit, Gen!Refuse, Gen!Move, Stayed
<1>7. CASE Receive(c)
  BY <1>7, <1>c DEF Receive, Gen!Receive, WritePiece, Stayed, Streams
<1>8. CASE Return(c)
  BY <1>8, <1>c DEF Return, uncalled, Gen!Return, Gen!Move, GoTo, Stayed
<1>9. CASE AnswerPlain(c)
  BY <1>9, <1>c DEF AnswerPlain, unhandled, GoTo, Answers, Streams
<1>10. CASE EndStream(c)
  <2>1. /\ at[c] = "returned" /\ at'[c] = "over" /\ kind[c] \in Streams
        /\ UNCHANGED <<calls, kind, gone, result, held>>
    BY <1>10, <1>c DEF EndStream, GoTo
  <2>2. FinalFrame(c)' = FinalFrame(c)
    BY <2>1 DEF FinalFrame
  <2>3. Completed(c) \/ FinalFrame(c) # "[DONE]"
    BY <2>1 DEF Completed, Last, FinalFrame, Errors
  <2>4. \/ shown'[c] = sent[c]
        \/ (Completed(c) => kind[c] = "chat") /\ UNCHANGED shown
    <3>1. \/ shown' = [shown EXCEPT ![c] = sent[c]]
          \/ (Completed(c) => kind[c] = "chat") /\ UNCHANGED shown
      BY <1>10, <1>c DEF EndStream
    <3>2. shown' = [shown EXCEPT ![c] = sent[c]] => shown'[c] = sent[c]
      OBVIOUS
    <3>. QED BY <3>1, <3>2
  <2>5. got[c] = sent[c] /\ (~held[c] => shown[c] = got[c])
    BY <2>1, <1>c
  <2>6. ~held[c] /\ FinalFrame(c) = "[DONE]" => shown'[c] = sent[c]
    BY <2>3, <2>4, <2>5
  <2>. QED BY <2>1, <2>2, <2>6
<1>11. CASE Embed(c)
  BY <1>11, <1>c DEF Embed, unembedded, GoTo, Stayed, Emb!Lock, Emb!Evaluate, Emb!Copy
<1>12. CASE EmbedFails(c)
  BY <1>12, <1>c DEF EmbedFails, unembedded, GoTo, Answers, Streams
<1>13. CASE AnswerEmbeddings(c)
  BY <1>13, <1>c DEF AnswerEmbeddings, unhandled, GoTo, Answers, Streams
<1>14. CASE Heartbeat(c)
  BY <1>14, <1>c DEF Heartbeat, Stayed
<1>15. CASE Start(c)
  BY <1>15, <1>c DEF Start, Gen!Start, Gen!Move, uncalled, Stayed
<1>16. CASE Produce(c)
  BY <1>16, <1>c DEF Produce, Gen!Produce, uncalled, Stayed
<1>17. CASE Settle(c)
  <2>1. at[c] = "inside" /\ UNCHANGED <<sent, got, at, kind, held, shown>>
    BY <1>17, <1>c DEF Settle, Gen!Settle, Gen!Move, uncalled
  <2>. QED BY <2>1 DEF Stayed
<1>18. CASE Sweep(c)
  BY <1>18, <1>c DEF Sweep, Gen!Leave, Gen!Move, uncalled, Stayed
<1>. QED BY <1>1, <1>2, <1>3, <1>4, <1>5, <1>6, <1>7, <1>8, <1>9, <1>10, <1>11, <1>12,
            <1>13, <1>14, <1>15, <1>16, <1>17, <1>18 DEF ConnStep, Handler, Engine

-----------------------------------------------------------------------------
(***************************************************************************)
(* Embeddings.                                                             *)
(***************************************************************************)

\* A handler of another route, or of this one before and after its inputs.
LEMMA NotEmbedding ==
  ASSUME NEW c \in Conns, Calling(c), Embedded(c), at[c] \notin Embedding \cup {"over"},
         at'[c] \notin {"locked", "evaluated"}, kind'[c] = kind[c],
         inputs'[c] = inputs[c], vectors'[c] = vectors[c],
         at[c] \in {"new", "parse"} \/ at'[c] \notin {"new", "parse"}
  PROVE  Embedded(c)'
BY DEF Embedded, Calling, Embedding, Emb!Left, Emb!Current, Firsts

\* The next vector of a request.
LEMMA NextVector ==
  ASSUME NEW c \in Conns, NEW n \in Nat
  PROVE  /\ Len(Firsts(c, n)) = n
         /\ Append(Firsts(c, n), <<c, n + 1>>) = Firsts(c, n + 1)
<1>1. Firsts(c, n) \in Seq(Conns \X Nat) /\ Len(Firsts(c, n)) = n
  BY DEF Firsts
<1>2. DEFINE s == Firsts(c, n)
             t == Firsts(c, n + 1)
             x == <<c, n + 1>>
<1>3. s \in Seq(Conns \X Nat) /\ x \in Conns \X Nat /\ t \in Seq(Conns \X Nat) /\ Len(t) = n + 1
  BY DEF Firsts
<1>4. \A i \in 1 .. n : t[i] = s[i]
  BY DEF Firsts
<1>5. t[n + 1] = x
  BY DEF Firsts
<1>. HIDE DEF s, t, x
<1>6. /\ Append(s, x) \in Seq(Conns \X Nat)
      /\ Len(Append(s, x)) = n + 1
      /\ \A i \in 1 .. n : Append(s, x)[i] = s[i]
      /\ Append(s, x)[n + 1] = x
  BY <1>1, <1>3, AppendProperties DEF s
<1>7. Append(s, x) = t
  <2>1. \A i \in 1 .. n + 1 : i \in 1 .. n \/ i = n + 1
    OBVIOUS
  <2>2. \A i \in 1 .. n + 1 : Append(s, x)[i] = t[i]
    BY <1>4, <1>5, <1>6, <2>1
  <2>. QED BY <1>3, <1>6, <2>2, SeqEqual
<1>. QED BY <1>1, <1>7 DEF s, t, x

\* The vectors of a request are those of its own inputs.
LEMMA EmbeddedKept ==
  ASSUME TypeOK, OneInside, NEW c \in Conns, Calling(c), Embedded(c), ConnStep(c)
  PROVE  Embedded(c)'
<1>f. {"200", "400", "500"} \subseteq Frames
  BY DEF Frames
<1>e. phase[c] \in {"waiting", "serving", "leaving", "settled"} => at[c] = "inside"
  BY DEF TypeOK, Calling, Wheres, Early, Embedding
<1>v. PICK n \in Nat : n <= inputs[c] /\ vectors[c] = Firsts(c, n)
  BY DEF Embedded
<1>n. Len(vectors[c]) = n /\ inputs[c] \in Nat
  BY <1>v, NextVector DEF TypeOK
<1>1. CASE Arrive(c)
  <2>1. at[c] = "new" /\ UNCHANGED <<kind, inputs, vectors>>
    BY <1>1 DEF Arrive, unhandled, embeds
  <2>2. PICK where \in {"over", "parse"} : GoTo(c, where)
    BY <1>1 DEF Arrive, Answers
  <2>. QED BY <2>1, <2>2, NotEmbedding DEF GoTo, TypeOK, Embedding
<1>2. CASE Leaves(c)
  BY <1>2 DEF Leaves, Handling, embeds, TypeOK, Embedded, Emb!Left, Emb!Current, Firsts
<1>3. CASE Parse(c)
  <2>1. at[c] = "parse" /\ vectors[c] = << >> /\ n = 0
    BY <1>3, <1>n DEF Parse, Embedded
  <2>2. vectors'[c] = vectors[c] /\ inputs'[c] \in Nat
    <3>1. UNCHANGED embeds \/ Emb!Ask(c)
      BY <1>3, Parsing
    <3>2. inputs' \in [Conns -> Nat]
      BY <1>3, TypesKept DEF TypeOK, ConnStep, Handler
    <3>. QED BY <3>1, <3>2 DEF embeds, Emb!Ask
  <2>3. at'[c] \notin {"new", "parse", "locked", "evaluated"}
    BY <1>3, ParsedAt
  <2>4. at'[c] = "over" => kind'[c] # "embed"
    <3>1. kind[c] # "embed" /\ (at'[c] = "over" => ~GoTo(c, "embed"))
      BY <2>1 DEF Calling, Embedding, GoTo, TypeOK
    <3>. QED BY <1>3, <3>1, Parsing
  <2>. QED BY <1>v, <2>1, <2>2, <2>3, <2>4 DEF Embedded, Firsts
<1>4. CASE Open(c)
  <2>1. at[c] = "open" /\ UNCHANGED <<kind, inputs, vectors>>
    BY <1>4 DEF Open, unhandled, embeds
  <2>2. PICK where \in {"over", "role", "call"} : GoTo(c, where)
    BY <1>4 DEF Open
  <2>. QED BY <2>1, <2>2, NotEmbedding DEF GoTo, TypeOK, Embedding
<1>5. CASE Role(c)
  <2>1. at[c] = "role" /\ UNCHANGED <<kind, inputs, vectors>>
    BY <1>5 DEF Role, embeds
  <2>2. PICK where \in {"over", "call"} : GoTo(c, where)
    BY <1>5 DEF Role
  <2>. QED BY <2>1, <2>2, NotEmbedding DEF GoTo, TypeOK, Embedding
<1>6. CASE Call(c)
  <2>1. at[c] = "call" /\ UNCHANGED <<kind, inputs, vectors>>
    BY <1>6 DEF Call, uncalled, embeds
  <2>2. PICK where \in {"inside", "returned"} : GoTo(c, where)
    BY <1>6 DEF Call
  <2>. QED BY <2>1, <2>2, NotEmbedding DEF GoTo, TypeOK, Embedding
<1>7. CASE Receive(c)
  BY <1>7, NotEmbedding DEF Receive, embeds, Embedding
<1>8. CASE Return(c)
  BY <1>8, NotEmbedding DEF Return, uncalled, embeds, GoTo, TypeOK, Embedding
<1>9. CASE AnswerPlain(c)
  BY <1>9, NotEmbedding DEF AnswerPlain, unhandled, embeds, Answers, GoTo, TypeOK, Embedding
<1>10. CASE EndStream(c)
  BY <1>10, NotEmbedding DEF EndStream, embeds, GoTo, TypeOK, Embedding
<1>11. CASE Embed(c)
  <2>1. CASE at[c] = "embed" /\ Emb!Lock(c) /\ GoTo(c, "locked")
    BY <1>v, <2>1 DEF Emb!Lock, GoTo, TypeOK, Embedded, Emb!Left, Firsts
  <2>2. CASE at[c] = "locked" /\ Emb!Evaluate(c) /\ GoTo(c, "evaluated")
    BY <1>v, <2>2 DEF Emb!Evaluate, GoTo, TypeOK, Embedded, Emb!Left, Emb!Current, Firsts
  <2>3. CASE at[c] = "evaluated" /\ Emb!Copy(c) /\ GoTo(c, "embed")
    <3>1. output = <<c, n + 1>> /\ n < inputs[c]
      BY <1>n, <2>3 DEF Embedded, Emb!Current, Emb!Left
    <3>2. vectors'[c] = Firsts(c, n + 1)
      BY <1>v, <2>3, <3>1, NextVector DEF Emb!Copy, TypeOK
    <3>3. n + 1 \in Nat /\ n + 1 <= inputs'[c]
      BY <1>n, <2>3, <3>1 DEF Emb!Copy
    <3>4. at'[c] = "embed"
      BY <2>3 DEF GoTo, TypeOK
    <3>. QED BY <3>2, <3>3, <3>4 DEF Embedded, Firsts
  <2>. QED BY <1>11, <2>1, <2>2, <2>3 DEF Embed
<1>12. CASE EmbedFails(c)
  <2>1. PICK status \in {"400", "500"} : Answers(c, status)
    BY <1>12 DEF EmbedFails
  <2>2. at'[c] = "over" /\ wire'[c] = IF gone[c] THEN wire[c] ELSE wire[c] \o <<status>>
    BY <1>f, <2>1, Answering
  <2>3. UNCHANGED <<inputs, vectors, gone>>
    BY <1>12 DEF EmbedFails, Emb!Fail, unembedded
  <2>4. ~gone'[c] => Len(wire'[c]) > 0 /\ LastSent(c)' # "200"
    <3>1. wire[c] \in Seq(Frames) /\ status # "200" /\ status \in Frames
      BY <1>f, <2>1 DEF TypeOK
    <3>. QED BY <2>2, <2>3, <3>1 DEF LastSent
  <2>. QED BY <1>v, <2>2, <2>3, <2>4 DEF Embedded, Firsts
<1>13. CASE AnswerEmbeddings(c)
  <2>1. /\ at'[c] = "over" /\ ~Emb!Left(c)
        /\ wire'[c] = IF gone[c] THEN wire[c] ELSE wire[c] \o <<"200">>
    BY <1>13, <1>f, Answering DEF AnswerEmbeddings
  <2>2. UNCHANGED <<inputs, vectors, gone>>
    BY <1>13 DEF AnswerEmbeddings, unhandled, embeds
  <2>3. Emb!Whole(c)'
    <3>1. n = inputs[c]
      BY <1>v, <1>n, <2>1 DEF Emb!Left
    <3>. QED BY <1>v, <2>2, <3>1 DEF Emb!Whole, Firsts
  <2>4. ~gone'[c] => Len(wire'[c]) > 0
    <3>1. wire[c] \in Seq(Frames) /\ "200" \in Frames
      BY <1>f DEF TypeOK
    <3>. QED BY <2>1, <2>2, <3>1
  <2>. QED BY <1>v, <2>1, <2>2, <2>3, <2>4 DEF Embedded, Firsts
<1>14. CASE Heartbeat(c)
  BY <1>14, NotEmbedding DEF Heartbeat, embeds, Embedding
<1>15. CASE Start(c)
  BY <1>15, <1>e, NotEmbedding DEF Start, Gen!Start, Gen!Move, uncalled, embeds, Embedding
<1>16. CASE Produce(c)
  BY <1>16, <1>e, NotEmbedding DEF Produce, Gen!Produce, uncalled, embeds, Embedding
<1>17. CASE Settle(c)
  BY <1>17, <1>e, NotEmbedding DEF Settle, Gen!Settle, Gen!Move, uncalled, embeds, Embedding
<1>18. CASE Sweep(c)
  BY <1>18, <1>e, NotEmbedding DEF Sweep, Gen!Leave, Gen!Move, uncalled, embeds, Embedding
<1>. QED BY <1>1, <1>2, <1>3, <1>4, <1>5, <1>6, <1>7, <1>8, <1>9, <1>10, <1>11, <1>12,
            <1>13, <1>14, <1>15, <1>16, <1>17, <1>18 DEF ConnStep, Handler, Engine

-----------------------------------------------------------------------------
(***************************************************************************)
(* The invariant holds.                                                    *)
(***************************************************************************)

\* What Inv says of one connection, the memory of the embeddings apart.
Local(c) == Calling(c) /\ Cancelling(c) /\ Telling(c) /\ Carrying(c) /\ Missing(c)

\* A connection whose state does not change keeps what Inv says of it.
LEMMA SameKeepsLocal ==
  ASSUME NEW d \in Conns, Local(d), Same(d)
  PROVE  Local(d)'
BY DEF Local, Same, Calling, Cancelling, Telling, Carrying, Missing, Clean, Stayed, LastSent, FinalFrame

\* The same of the vectors of its request.
LEMMA SameKeepsEmbedded ==
  ASSUME NEW d \in Conns, Embedded(d), Same(d),
         at[d] \in {"locked", "evaluated"} => d \in holder' /\ output' = output
  PROVE  Embedded(d)'
BY DEF Same, Embedded, Emb!Left, Emb!Current, Emb!Whole, Firsts, LastSent

\* The lock is one handler's at a time; nobody else evaluates while it is held.
LEMMA LockKept ==
  ASSUME NEW c \in Conns, OneInside, ConnStep(c)
  PROVE  /\ OneInside'
         /\ \A d \in Conns : d # c /\ d \in holder => d \in holder' /\ output' = output
<1>1. CASE Embed(c)
  BY <1>1 DEF OneInside, Embed, Emb!Lock, Emb!Evaluate, Emb!Copy
<1>2. CASE EmbedFails(c)
  BY <1>2 DEF OneInside, EmbedFails, Emb!Fail
<1>3. CASE Parse(c)
  <2>1. UNCHANGED embeds \/ Emb!Ask(c)
    BY <1>3 DEF Parse
  <2>. QED BY <2>1 DEF OneInside, embeds, Emb!Ask
<1>4. CASE UNCHANGED embeds
  BY <1>4 DEF OneInside, embeds
<1>. QED BY <1>1, <1>2, <1>3, <1>4
         DEF ConnStep, Handler, Engine, Arrive, Leaves, Open, Role, Call, Receive, Return, AnswerPlain,
             EndStream, AnswerEmbeddings, Heartbeat, Start, Produce, Settle, Sweep, unhandled, uncalled

\* A handler comes to work only when the server is ready, and it stays so meanwhile.
LEMMA AliveKept ==
  ASSUME TypeOK, NEW c \in Conns, EngineAlive, Calling(c), ConnStep(c)
  PROVE  EngineAlive'
<1>1. main' = main
  BY DEF ConnStep, Handler, Engine, Arrive, Leaves, Parse, Open, Role, Call, Receive, Return, AnswerPlain,
         EndStream, Embed, EmbedFails, AnswerEmbeddings, Heartbeat, Start, Produce, Settle, Sweep,
         unhandled, uncalled, unembedded, server
<1>2. ASSUME NEW d \in Conns, d # c, Handling(d)' PROVE main' = "serving"
  BY <1>1, <1>2, OthersStay DEF Same, Handling, EngineAlive
<1>3. CASE at[c] = "new"
  <2>1. Arrive(c) \/ at'[c] = at[c]
    <3>1. phase[c] = "idle"
      BY <1>3 DEF Calling, Early
    <3>. QED BY <1>3, <3>1
             DEF ConnStep, Handler, Engine, Leaves, Parse, Open, Role, Call, Receive, Return, AnswerPlain,
                 EndStream, Embed, EmbedFails, AnswerEmbeddings, Heartbeat, Start, Produce, Settle, Sweep,
                 Gen!Start, Gen!Produce, Gen!Settle, Gen!Leave, Gen!Move
  <2>2. Handling(c)' => main = "serving"
    BY <1>3, <2>1 DEF Arrive, Answers, GoTo, Handling, Ready, TypeOK
  <2>. QED BY <1>1, <1>2, <2>2 DEF EngineAlive
<1>4. CASE at[c] = "over"
  <2>1. phase[c] \in {"idle", "answered"}
    BY <1>4 DEF Calling
  <2>2. at'[c] = at[c]
    BY <1>4, <2>1
       DEF ConnStep, Handler, Engine, Arrive, Leaves, Parse, Open, Role, Call, Receive, Return, AnswerPlain,
           EndStream, Embed, EmbedFails, AnswerEmbeddings, Heartbeat, Start, Produce, Settle, Sweep,
           Gen!Start, Gen!Produce, Gen!Settle, Gen!Leave, Gen!Move
  <2>. QED BY <1>1, <1>2, <1>4, <2>2 DEF EngineAlive, Handling
<1>5. CASE at[c] \notin {"new", "over"}
  BY <1>1, <1>2, <1>5 DEF EngineAlive, Handling
<1>. QED BY <1>3, <1>4, <1>5

\* All of it holds before anybody connects.
LEMMA InvInit == Init => Inv
<1> SUFFICES ASSUME Init PROVE Inv
  OBVIOUS
<1> USE DEF Init, Gen!Init, Emb!Init
<1>1. TypeOK
  <2>1. << >> \in Seq(Frames)
    OBVIOUS
  <2>. QED BY <2>1 DEF TypeOK, Wheres, Early, Outcomes, Gen!Phases
<1>2. EngineAlive /\ OneInside
  BY DEF EngineAlive, Handling, OneInside
<1>3. ASSUME NEW c \in Conns PROVE Local(c) /\ Embedded(c)
  <2>1. Calling(c) /\ Cancelling(c) /\ Carrying(c) /\ Missing(c)
    BY DEF Calling, Cancelling, Carrying, Missing, Early, Embedding, Streams, Stayed
  <2>2. Telling(c)
    BY DEF Telling, Clean, Stayed
  <2>3. Embedded(c)
    <3>1. vectors[c] = Firsts(c, 0) /\ 0 <= inputs[c]
      BY DEF Firsts
    <3>. QED BY <3>1 DEF Embedded
  <2>. QED BY <2>1, <2>2, <2>3 DEF Local
<1>. QED BY <1>1, <1>2, <1>3 DEF Inv, Local

\* Each action keeps it: one connection moves, or the server does.
LEMMA InvNext == Inv /\ [Next]_vars => Inv'
<1> SUFFICES ASSUME Inv, [Next]_vars PROVE Inv'
  OBVIOUS
<1>1. TypeOK /\ EngineAlive /\ OneInside /\ \A d \in Conns : Local(d) /\ Embedded(d)
  BY DEF Inv, Local
<1>2. ASSUME NEW c \in Conns, ConnStep(c) PROVE Inv'
  <2>1. TypeOK' /\ EngineAlive' /\ OneInside'
    BY <1>1, <1>2, TypesKept, AliveKept, LockKept DEF Local
  <2>2. Local(c)' /\ Embedded(c)'
    BY <1>1, <1>2, CallingKept, CancellingKept, TellingKept, CarryingKept, MissingKept, EmbeddedKept
       DEF Local
  <2>3. ASSUME NEW d \in Conns, d # c PROVE Local(d)' /\ Embedded(d)'
    <3>1. Same(d)
      BY <1>1, <1>2, <2>3, OthersStay
    <3>2. at[d] \in {"locked", "evaluated"} => d \in holder' /\ output' = output
      BY <1>1, <1>2, <2>3, LockKept DEF Embedded
    <3>. QED BY <1>1, <3>1, <3>2, SameKeepsLocal, SameKeepsEmbedded
  <2>. QED BY <2>1, <2>2, <2>3 DEF Inv, Local
<1>3. ASSUME UNCHANGED <<calls, embeds, at, kind, wire, gone, cancelled, result, held, shown, history>>,
             main' \in {"loading", "serving", "stopping", "down"}, UNCHANGED mode,
             (\E c \in Conns : Handling(c)) => main' = "serving"
      PROVE  Inv'
  <2>1. TypeOK'
    BY <1>1, <1>3 DEF TypeOK, calls, embeds, history
  <2>2. EngineAlive' /\ OneInside'
    BY <1>1, <1>3 DEF EngineAlive, Handling, OneInside, embeds
  <2>3. ASSUME NEW d \in Conns PROVE Local(d)' /\ Embedded(d)'
    <3>1. Same(d) /\ holder' = holder /\ output' = output
      BY <1>3 DEF Same, calls, embeds, history
    <3>2. at[d] \in {"locked", "evaluated"} => d \in holder' /\ output' = output
      BY <1>1, <3>1 DEF Embedded
    <3>. QED BY <1>1, <3>1, <3>2, SameKeepsLocal, SameKeepsEmbedded
  <2>. QED BY <2>1, <2>2, <2>3 DEF Inv, Local
<1>4. CASE Server
  <2>1. main' \in {"loading", "serving", "stopping", "down"} /\ UNCHANGED mode
    BY <1>1, <1>4 DEF Server, Loaded, LoadFails, ListenerEnds, Joined, TypeOK
  <2>2. ASSUME NEW c \in Conns, Handling(c) PROVE main' = "serving"
    BY <1>1, <1>4, <2>2 DEF Server, Loaded, LoadFails, ListenerEnds, Joined, EngineAlive
  <2>. QED BY <1>3, <1>4, <2>1, <2>2 DEF Server
<1>5. CASE UNCHANGED vars
  BY <1>1, <1>3, <1>5 DEF vars, server, TypeOK, EngineAlive
<1>. QED BY <1>2, <1>4, <1>5 DEF Next, ConnStep

\* The inductive invariant: every step of every handler, the engine and the server keeps types,
\* places, outcomes, frames and vectors together.
THEOREM Invariance == Spec => []Inv
BY InvInit, InvNext, PTL DEF Spec

\* No handler touches the engine before load() has returned or after main() has destroyed it.
THEOREM EngineOutlives == Spec => []EngineAlive
<1>1. Inv => EngineAlive
  BY DEF Inv
<1>. QED BY <1>1, Invariance, PTL

\* A client that stays is told how its generation ended, exactly once and last, and has been
\* handed all that was produced.
THEOREM ClientsTold == Spec => []ClientTold
<1>1. Inv => ClientTold
  <2> SUFFICES ASSUME Inv, NEW c \in Conns, Stayed(c)
               PROVE  /\ result[c] # "cancel"
                      /\ LastSent(c) = FinalFrame(c)
                      /\ Clean(c, Len(wire[c]) - 1)
                      /\ got[c] = sent[c]
    BY DEF ClientTold, FinalFrame, Clean
  <2>1. result[c] # "cancel"
    BY DEF Inv, Cancelling, Stayed
  <2>2. LastSent(c) = FinalFrame(c) /\ Clean(c, Len(wire[c]) - 1)
    BY DEF Inv, Telling
  <2>3. got[c] = sent[c]
    BY DEF Inv, Calling, Stayed
  <2>. QED BY <2>1, <2>2, <2>3
<1>. QED BY <1>1, Invariance, PTL

\* On the plain and the text routes, a call whose client had left when a heartbeat looked never
\* gets a slot.
THEOREM GoneGiveWay == Spec => []DropsGoneElsewhere
<1>1. Inv => DropsGoneElsewhere
  BY DEF Inv, Missing, DropsGoneElsewhere
<1>. QED BY <1>1, Invariance, PTL

\* A stream that ends with [DONE] has carried all its text, if the parser holds nothing back.
THEOREM StreamsCarry == Spec => []CarriesParsed
<1>1. Inv => CarriesParsed
  <2> SUFFICES ASSUME Inv, NEW c \in Conns, Stayed(c), LastSent(c) = "[DONE]", ~held[c]
               PROVE  shown[c] = sent[c]
    BY DEF CarriesParsed
  <2>1. FinalFrame(c) = "[DONE]"
    BY DEF Inv, Telling
  <2>2. kind[c] \in Streams
    BY <2>1 DEF FinalFrame
  <2>. QED BY <2>1, <2>2 DEF Inv, Carrying
<1>. QED BY <1>1, Invariance, PTL

\* The vectors of an answer were computed from the inputs of its own request, in order.
THEOREM VectorsOwn == Spec => []OwnVectors
<1>1. Inv => OwnVectors
  BY DEF Inv, Embedded, OwnVectors
<1>. QED BY <1>1, Invariance, PTL
=============================================================================
