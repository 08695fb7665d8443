------------------------------- MODULE Routes -------------------------------
(***************************************************************************)
(* The HTTP layer (src/src/server.cpp, main.cpp): the server that listens  *)
(* while the model loads, and the generation routes, which turn one call   *)
(* of onyx_engine::generate() into a plain answer or a stream of SSE       *)
(* frames.  Every connection has a thread of its own; the calls meet in    *)
(* GenService, the promise of generate() that EngineRequests implements,   *)
(* or, if the process serves an embedding model, in Embedding.             *)
(*                                                                         *)
(* What a client has been sent is a sequence of an HTTP status and frames. *)
(* Texts are counted in pieces.  A client that left is sent nothing more,  *)
(* but a write to it may seem to succeed; only a probe of the socket tells.*)
(***************************************************************************)
EXTENDS Naturals, Sequences, FiniteSets

CONSTANTS Conns,     \* the connections, one request each
          NSlots,    \* --parallel
          MaxQueue,  \* --max-queue, 0 = unbounded
          MaxPieces, \* bound: pieces of one generation
          MaxInputs  \* bound: inputs of one /v1/embeddings request

ASSUME RoutesAssumption ==
  /\ NSlots \in Nat \ {0}
  /\ MaxQueue \in Nat /\ MaxPieces \in Nat /\ MaxInputs \in Nat

VARIABLES
  phase, line, sent, got,  \* the calls of generate(): see GenService
  main,       \* the main thread: "loading", "serving", "stopping", "down"
  holder, output, inputs, vectors,  \* the calls of embed(): see Embedding
  listening,  \* the listener thread accepts connections
  mode,       \* what the model is served for, "generation" or "embedding"
  at,         \* connection -> where its handler is
  kind,       \* connection -> what it asks for, a member of Kinds
  wire,       \* connection -> what its client was sent
  gone,       \* connection -> its client has disconnected
  cancelled,  \* connection -> its callback has returned false
  result,     \* connection -> how its generation ended
  held,       \* connection -> the chat parser cannot parse the text so far
  shown,      \* connection -> pieces whose text the stream has carried
  missed      \* history: connection -> a heartbeat ran while it waited and its client was gone

calls == <<phase, line, sent, got>>
embeds == <<holder, output, inputs, vectors>>
server == <<main, listening, mode>>
history == <<missed>>
vars == <<calls, embeds, server, at, kind, wire, gone, cancelled, result, held, shown, history>>

Gen == INSTANCE GenService WITH Requests <- Conns
Emb == INSTANCE Embedding WITH Callers <- Conns

\* A plain answer, made alike on both routes, or a stream of a chat or of a text completion;
\* embeddings.  A route the model is not served for answers 501.
Kinds == IF mode = "generation" THEN {"plain", "chat", "text"} ELSE {"embed"}
Streams == {"chat", "text"}

\* How a generation ends; "half" is a length cut of a structured output (response_format,
\* json_schema), which both kinds of answer report as an error.
Errors == {"full", "timeout", "invalid", "failed"}
Finishes == {"stop", "length", "half"}

Init == /\ Gen!Init
        /\ Emb!Init
        /\ main = "loading" /\ listening = TRUE
        /\ mode \in {"generation", "embedding"}
        /\ at = [c \in Conns |-> "new"]
        /\ kind = [c \in Conns |-> "plain"]
        /\ wire = [c \in Conns |-> <<>>]
        /\ gone = [c \in Conns |-> FALSE]
        /\ cancelled = [c \in Conns |-> FALSE]
        /\ result = [c \in Conns |-> "none"]
        /\ held = [c \in Conns |-> FALSE]
        /\ shown = [c \in Conns |-> 0]
        /\ missed = [c \in Conns |-> FALSE]

Handling(c) == at[c] \notin {"new", "over"}

-----------------------------------------------------------------------------
(***************************************************************************)
(* The server's life.                                                      *)
(***************************************************************************)

\* load() has returned true: the flag every route but /health waits for.
Ready == main = "serving"

Loaded == /\ main = "loading" /\ main' = "serving"
          /\ UNCHANGED <<listening, mode>>

\* load() has returned false: svr.stop().
LoadFails == /\ main = "loading" /\ main' = "stopping"
             /\ listening' = FALSE
             /\ UNCHANGED mode

\* accept() fails for good.
ListenerEnds == /\ listening /\ listening' = FALSE
                /\ UNCHANGED <<main, mode>>

\* Mutant: the listener is not waited for.
JoinedAtOnce == /\ main \in {"serving", "stopping"}
                /\ ~listening
                /\ main' = "down"
                /\ UNCHANGED <<listening, mode>>

\* listener.join(): the listener waits for every handler; then main() leaves, and the engine
\* is destroyed.
Joined == /\ main \in {"serving", "stopping"}
          /\ ~listening
          /\ \A c \in Conns : ~Handling(c)
          /\ main' = "down"
          /\ UNCHANGED <<listening, mode>>

Server == /\ Loaded \/ LoadFails \/ ListenerEnds \/ Joined
          /\ UNCHANGED <<calls, embeds, at, kind, wire, gone, cancelled, result, held, shown, history>>

-----------------------------------------------------------------------------
(***************************************************************************)
(* A handler, up to the call.                                              *)
(***************************************************************************)

GoTo(c, where) == at' = [at EXCEPT ![c] = where]

\* What reaches the client of c.
Sends(c, frames) == wire' = [wire EXCEPT ![c] = IF gone[c] THEN @ ELSE @ \o frames]

\* The handler answers with an HTTP status and is done.
Answers(c, status) == Sends(c, <<status>>) /\ GoTo(c, "over")

unhandled == <<calls, embeds, server, kind, gone, cancelled, result, held, shown, history>>

\* The pre-routing handler: browsers, foreign hosts and strangers are refused (403, 401), then
\* anyone before the model is up.
Arrive(c) ==
  /\ at[c] = "new" /\ listening
  /\ \/ Answers(c, "403")
     \/ ~Ready /\ Answers(c, "503")
     \/ Ready /\ GoTo(c, "parse") /\ UNCHANGED wire
  /\ UNCHANGED unhandled

Full == MaxQueue > 0 /\ Len(line) >= MaxQueue

\* The request is refused (400, 501) or understood; a stream asks queue_full() before it starts.
Parse(c) ==
  /\ at[c] = "parse"
  /\ \/ Answers(c, "400") /\ UNCHANGED <<kind, embeds>>
     \/ \E asked \in Kinds :
          /\ kind' = [kind EXCEPT ![c] = asked]
          /\ IF asked \in Streams /\ Full THEN Answers(c, "503")
             ELSE GoTo(c, CASE asked \in Streams -> "open"
                            [] asked = "plain" -> "call"
                            [] asked = "embed" -> "embed") /\ UNCHANGED wire
          /\ IF asked = "embed" THEN Emb!Ask(c) ELSE UNCHANGED embeds
  /\ UNCHANGED <<calls, server, gone, cancelled, result, held, shown, history>>

\* The status is sent, and the content provider runs unless the client is gone or the server
\* is stopping.
Open(c) ==
  /\ at[c] = "open"
  /\ Sends(c, <<"200">>)
  /\ GoTo(c, IF gone[c] \/ ~listening THEN "over"
             ELSE IF kind[c] = "chat" THEN "role" ELSE "call")
  /\ UNCHANGED unhandled

\* Chat sends its role frame; whether the parser can parse no text at all is up to the template.
Role(c) ==
  /\ at[c] = "role"
  /\ Sends(c, <<"role">>)
  /\ \/ GoTo(c, "call")
     \/ gone[c] /\ GoTo(c, "over")
  /\ held' \in {held, [held EXCEPT ![c] = TRUE]}
  /\ UNCHANGED <<calls, embeds, server, kind, gone, cancelled, result, shown, history>>

-----------------------------------------------------------------------------
(***************************************************************************)
(* The call, the callback, and the engine thread.                          *)
(***************************************************************************)

uncalled == <<embeds, server, kind, wire, gone, cancelled, held, shown, history>>

Ends(c, how) == result' = [result EXCEPT ![c] = how]

\* generate(): it joins the line, or is refused.  A stream's sampler and prompt were checked before.
Call(c) ==
  /\ at[c] = "call"
  /\ \/ Gen!Submit(c) /\ GoTo(c, "inside") /\ UNCHANGED result
     \/ Full /\ Gen!Refuse(c) /\ GoTo(c, "returned") /\ Ends(c, "full")
     \/ kind[c] = "plain" /\ Gen!Refuse(c) /\ GoTo(c, "returned") /\ Ends(c, "invalid")
  /\ UNCHANGED uncalled

Cancels(c, keep) == cancelled' = [cancelled EXCEPT ![c] = @ \/ ~keep]

\* Mutant: no stream's callback looks at the socket unless it has text.
ProbesPlain(c) == kind[c] = "plain"

\* Does the callback, given no text, find out that the client left?  Chat asks its parser first.
Probes(c) == kind[c] = "chat" => held[c]

\* The wait times out: the callback is called with nothing.  Its look at the socket and the
\* note of its answer are one step here; EngineRequests has them apart.
Heartbeat(c) ==
  /\ at[c] = "inside" /\ phase[c] \in {"waiting", "serving", "leaving"}
  /\ got[c] = sent[c]
  /\ Cancels(c, ~(gone[c] /\ Probes(c)))
  /\ missed' = [missed EXCEPT ![c] = @ \/ (gone[c] /\ phase[c] = "waiting")]
  /\ UNCHANGED <<calls, embeds, server, at, kind, wire, gone, result, held, shown>>

\* Mutant: what the parser held back before is not part of the delta.
WritePieceAlone(c) ==
  /\ Sends(c, <<"delta">>)
  /\ \E ok \in BOOLEAN : (~gone[c] => ok) /\ Cancels(c, ok)
  /\ shown' = [shown EXCEPT ![c] = @ + 1]

\* A frame for everything parsed so far; a write to a client that left may still succeed.
WritePiece(c) ==
  /\ Sends(c, <<"delta">>)
  /\ \E ok \in BOOLEAN : (~gone[c] => ok) /\ Cancels(c, ok)
  /\ shown' = [shown EXCEPT ![c] = got[c] + 1]

\* A piece is handed to the callback.  The chat parser may hold it back.
Receive(c) ==
  /\ at[c] = "inside"
  /\ Gen!Receive(c)
  /\ \/ /\ kind[c] = "plain"
        /\ Cancels(c, ~gone[c])
        /\ UNCHANGED <<wire, held, shown>>
     \/ /\ kind[c] \in Streams
        /\ WritePiece(c)
        /\ held' = [held EXCEPT ![c] = FALSE]
     \/ /\ kind[c] = "chat"
        /\ Cancels(c, ~gone[c])
        /\ held' = [held EXCEPT ![c] = TRUE]
        /\ UNCHANGED <<wire, shown>>
  /\ UNCHANGED <<embeds, server, at, kind, gone, result, history>>

Return(c) ==
  /\ at[c] = "inside"
  /\ Gen!Return(c)
  /\ GoTo(c, "returned")
  /\ UNCHANGED <<uncalled, result>>

\* The engine thread admits the head of the line unless its call is cancelled.
Start(c) ==
  /\ ~cancelled[c]
  /\ Gen!Start(c)
  /\ UNCHANGED <<at, result, uncalled>>

\* It drops a call that is cancelled or has waited for --queue-timeout, wherever it is.
Sweep(c) ==
  /\ Gen!Leave(c)
  /\ Ends(c, IF cancelled[c] THEN "cancel" ELSE "timeout")
  /\ UNCHANGED <<at, uncalled>>

Produce(c) ==
  /\ sent[c] < MaxPieces
  /\ Gen!Produce(c)
  /\ UNCHANGED <<at, result, uncalled>>

\* It publishes the result of a call it dropped, or of one it served.
Settle(c) ==
  /\ Gen!Settle(c)
  /\ \/ phase[c] = "leaving" /\ UNCHANGED result
     \/ /\ phase[c] = "serving"
        /\ \E how \in Finishes \cup {"failed", "invalid"} \cup (IF cancelled[c] THEN {"cancel"} ELSE {}) :
             Ends(c, how)
  /\ UNCHANGED <<at, uncalled>>

-----------------------------------------------------------------------------
(***************************************************************************)
(* A handler, after the call.                                              *)
(***************************************************************************)

\* send_generation_error: 503 when busy, 400 for the client's own mistake, else 500.
Status(how) == CASE how \in {"full", "timeout"} -> "503"
                 [] how = "invalid" -> "400"
                 [] OTHER -> "500"

AnswerPlain(c) ==
  /\ at[c] = "returned" /\ kind[c] = "plain"
  /\ Answers(c, IF result[c] \in Errors THEN Status(result[c])
                ELSE IF result[c] = "half" THEN "400" ELSE "200")
  /\ UNCHANGED unhandled

\* Mutant: the closing frames follow an error as well.
LastAlways(c) == IF result[c] = "cancel" THEN <<>>
                 ELSE (IF result[c] \in Errors \/ result[c] = "half" THEN <<"error">> ELSE <<>>)
                      \o <<"finish", "[DONE]">>

\* The last frames of a stream; chat first parses the whole text once more and sends what that adds.
Last(c) == CASE result[c] \in Errors -> <<"error">>
             [] result[c] = "cancel" -> <<>>
             [] result[c] = "half" -> <<"error">>
             [] OTHER -> <<"finish", "[DONE]">>

Completed(c) == Last(c) = <<"finish", "[DONE]">>

EndStream(c) ==
  /\ at[c] = "returned" /\ kind[c] \in Streams
  /\ Sends(c, Last(c))
  /\ GoTo(c, "over")
  /\ \/ Completed(c) /\ shown' = [shown EXCEPT ![c] = sent[c]]
     \/ (Completed(c) => kind[c] = "chat") /\ UNCHANGED shown
  /\ UNCHANGED <<calls, embeds, server, kind, gone, cancelled, result, held, history>>

-----------------------------------------------------------------------------
(***************************************************************************)
(* /v1/embeddings: a call of embed() for each input.                       *)
(***************************************************************************)

unembedded == <<calls, server, kind, gone, cancelled, result, held, shown, history>>

Embed(c) ==
  /\ UNCHANGED unembedded
  /\ \/ at[c] = "embed" /\ Emb!Lock(c) /\ GoTo(c, "locked") /\ UNCHANGED wire
     \/ at[c] = "locked" /\ Emb!Evaluate(c) /\ GoTo(c, "evaluated") /\ UNCHANGED wire
     \/ at[c] = "evaluated" /\ Emb!Copy(c) /\ GoTo(c, "embed") /\ UNCHANGED wire

\* An input is the client's mistake (empty, too long, an unknown token) or its evaluation
\* fails: one error, and nothing of the vectors computed before.
EmbedFails(c) ==
  /\ at[c] \in {"locked", "evaluated"}
  /\ Emb!Fail(c)
  /\ \/ at[c] = "locked" /\ Answers(c, "400")
     \/ Answers(c, "500")
  /\ UNCHANGED unembedded

AnswerEmbeddings(c) ==
  /\ at[c] = "embed" /\ ~Emb!Left(c)
  /\ Answers(c, "200")
  /\ UNCHANGED unhandled

-----------------------------------------------------------------------------

\* The client disconnects.
Leaves(c) ==
  /\ ~gone[c] /\ Handling(c)
  /\ gone' = [gone EXCEPT ![c] = TRUE]
  /\ UNCHANGED <<calls, embeds, server, at, kind, wire, cancelled, result, held, shown, history>>

Handler(c) == \/ Parse(c) \/ Open(c) \/ Role(c) \/ Call(c)
              \/ Receive(c) \/ Return(c) \/ AnswerPlain(c) \/ EndStream(c)
              \/ Embed(c) \/ EmbedFails(c) \/ AnswerEmbeddings(c)

Engine(c) == Start(c) \/ Produce(c) \/ Settle(c)

Next == \/ Server
        \/ \E c \in Conns : \/ Arrive(c) \/ Leaves(c) \/ Handler(c) \/ Heartbeat(c)
                            \/ Engine(c) \/ Sweep(c)

Spec == Init /\ [][Next]_vars

-----------------------------------------------------------------------------

\* The handler is over, and its client was there to the end.
Stayed(c) == at[c] = "over" /\ ~gone[c] /\ result[c] # "none"

LastSent(c) == wire[c][Len(wire[c])]

(***************************************************************************)
(* No handler touches the engine before load() has filled it in, nor once  *)
(* main() has left the scope it lives in: not while the load runs or after *)
(* it failed, and not when the listener dies under running requests.       *)
(***************************************************************************)
EngineAlive == \A c \in Conns : Handling(c) => main = "serving"

(***************************************************************************)
(* A client that stays learns how its generation ended, exactly once and   *)
(* last: an error (a refusal at the queue, in the race a stream can lose,  *)
(* a timeout, a failed tick) never looks like an answer, an answer never   *)
(* like an error, half a JSON object cut by length is an error, and        *)
(* nobody's request is cancelled while they wait for it.                   *)
(***************************************************************************)
Finals == {"400", "500", "503", "error", "[DONE]"}

ClientTold ==
  \A c \in Conns : Stayed(c) =>
    LET cut == result[c] = "half"
        whole == result[c] \in {"stop", "length"}
    IN  /\ result[c] # "cancel"
        /\ LastSent(c) = (IF kind[c] \in Streams THEN IF whole THEN "[DONE]" ELSE "error"
                          ELSE CASE whole -> "200"
                                 [] cut \/ result[c] = "invalid" -> "400"
                                 [] result[c] = "failed" -> "500"
                                 [] OTHER -> "503")
        /\ \A i \in 1 .. Len(wire[c]) - 1 : wire[c][i] \notin Finals
        /\ got[c] = sent[c]

(***************************************************************************)
(* docs/architecture/concurrency.md: a request whose client disconnected   *)
(* while it waited is dropped, wherever it stands in the queue: it never   *)
(* gets a slot once its callback has run.  On every route ...              *)
(***************************************************************************)
DropsGone == \A c \in Conns : missed[c] => phase[c] # "serving"

\* ... and, as the code has it, on every one but the chat stream, whose callback asks the
\* parser and not the socket.
DropsGoneElsewhere ==
  \A c \in Conns : missed[c] /\ kind[c] # "chat" => phase[c] # "serving"

(***************************************************************************)
(* A stream that ends with [DONE] has carried the text of every piece,     *)
(* whatever the parser held back on the way ...                            *)
(***************************************************************************)
CarriesAll == \A c \in Conns : Stayed(c) /\ LastSent(c) = "[DONE]" => shown[c] = sent[c]

\* ... and, as the code has it, unless the parser could not parse the text up to its last piece.
CarriesParsed ==
  \A c \in Conns : Stayed(c) /\ LastSent(c) = "[DONE]" /\ ~held[c] => shown[c] = sent[c]

(***************************************************************************)
(* An answer of /v1/embeddings has one vector for each input, the i-th     *)
(* computed from the i-th input of this request, whatever other requests   *)
(* ran between two of them in the one context they share.                  *)
(***************************************************************************)
OwnVectors ==
  \A c \in Conns :
    at[c] = "over" /\ kind[c] = "embed" /\ ~gone[c] /\ LastSent(c) = "200" => Emb!Whole(c)
=============================================================================
