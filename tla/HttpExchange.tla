----------------------------- MODULE HttpExchange -----------------------------
(***************************************************************************)
(* One exchange per request on the three HTTP surfaces: the model is       *)
(* resolved, the provider's events are tracked, buffered and surfaced, and *)
(* the client may hang up at any moment.                                   *)
(* Source: src/src/http (openai-chat.ts, openai-responses.ts,              *)
(* anthropic-messages.ts, usage-tracking.ts), src/src/core                 *)
(* (tool-arguments.ts), src/src/observability/usage-store.ts and           *)
(* src/src/registry/provider-registry.ts.                                  *)
(*                                                                         *)
(* The provider is the environment: it emits text and pieces of tool-call  *)
(* arguments, and then completes, fails, throws, or just ends.  Handling   *)
(* one event is one step, for no socket event comes between.  The          *)
(* request's own `close` comes before the handler listens for it, so only  *)
(* the reply's is modelled.                                                *)
(***************************************************************************)
EXTENDS Integers, Sequences, FiniteSets, SequencesExt

CONSTANTS
  Exchanges,   \* requests, all for one model
  Asks,        \* <<exchange, surface, whether it asks for a stream>>
  Calls,       \* upstream indices of a reply's tool calls
  MaxRecords,  \* MAX_RECORDS of the usage store
  MaxEvents    \* bound: events the providers emit before the last one

ASSUME CallsAssumption == Calls \subseteq Nat
ASSUME AsksAssumption ==
  Asks \subseteq Exchanges \X {"chat", "responses", "anthropic"} \X BOOLEAN
ASSUME BoundsAssumption == MaxRecords \in Nat \ {0} /\ MaxEvents \in Nat

NoItem   == -1   \* no text item is open
Answers  == {"listed", "unlisted", "failed"}

VARIABLES
  cache,    \* discoveryCache of the model's provider: its answer and its age
  x,        \* exchange -> its state
  active,   \* UsageStore.active
  records,  \* UsageStore.records
  events    \* history: how many events the providers emitted

vars == <<cache, x, active, records, events>>

(* An exchange.  `calls` are the buffered tool calls in order of arrival;  *)
(* `open` is the item of the text being written; `frames` what the client  *)
(* has received after the frame that opens a reply.  `late` and `provider` *)
(* are history: the client hung up before anybody listened, and what has   *)
(* become of the provider's run.                                           *)
Idle == [phase |-> "idle", surface |-> "chat", stream |-> FALSE, gone |-> FALSE,
         late |-> FALSE, aborted |-> FALSE, cancelled |-> FALSE,
         completed |-> FALSE, calls |-> <<>>, items |-> 0, open |-> NoItem,
         frames |-> <<>>, provider |-> "none"]

Init ==
  /\ cache = [answer |-> "none", fresh |-> FALSE]
  /\ x = [r \in Exchanges |-> Idle]
  /\ active = {} /\ records = <<>> /\ events = 0

-------------------------------------------------------------------------------
(* ProviderRegistry.resolve.                                               *)
Begun(e)    == [e EXCEPT !.phase = "running", !.provider = "running"]
Refused(e)  == [e EXCEPT !.phase = "replied",
                         !.frames = IF e.gone THEN @ ELSE <<<<"error">>>>]
Decided(e, answer) == IF answer = "listed" THEN Begun(e) ELSE Refused(e)
Tracking(r, answer) == IF answer = "listed" THEN active \cup {r} ELSE active

(* A fresh answer is used; otherwise the provider is asked.                *)
Arrive(r, surface, stream) ==
  LET e == [Idle EXCEPT !.surface = surface, !.stream = stream] IN
  /\ x[r].phase = "idle"
  /\ IF cache.answer # "none" /\ cache.fresh
     THEN /\ x' = [x EXCEPT ![r] = Decided(e, cache.answer)]
          /\ active' = Tracking(r, cache.answer)
     ELSE /\ x' = [x EXCEPT ![r] = [e EXCEPT !.phase = "asking"]]
          /\ UNCHANGED active
  /\ UNCHANGED <<cache, records, events>>

(* discoverModels answers: the answer is stored, and it decides.           *)
Discovered(r, answer) ==
  /\ x[r].phase = "asking"
  /\ cache' = [answer |-> answer, fresh |-> TRUE]
  /\ x' = [x EXCEPT ![r] = Decided(@, answer)]
  /\ active' = Tracking(r, answer)
  /\ UNCHANGED <<records, events>>

(* DISCOVERY_CACHE_TTL_MS passes.                                          *)
Age == /\ cache.fresh
       /\ cache' = [cache EXCEPT !.fresh = FALSE]
       /\ UNCHANGED <<x, active, records, events>>

-------------------------------------------------------------------------------
(* The client's side of an exchange.                                       *)
Send(e, frames) == IF e.gone THEN e ELSE [e EXCEPT !.frames = @ \o frames]

(* tearDown, and the reply's close listener.                               *)
TearDown(e) == [e EXCEPT !.aborted = TRUE, !.cancelled = TRUE]
OnClose(e)  == IF e.completed THEN e ELSE TearDown(e)

(* The client goes away.  Until the provider runs, nobody listens.         *)
HangUp(r) ==
  /\ x[r].phase \in {"asking", "running"} /\ ~x[r].gone
  /\ x' = [x EXCEPT ![r] =
       IF @.phase = "asking" THEN [@ EXCEPT !.gone = TRUE, !.late = TRUE]
       ELSE OnClose([@ EXCEPT !.gone = TRUE])]
  /\ UNCHANGED <<cache, active, records, events>>

(* The reply's `close` also follows every reply that was sent; a refusal   *)
(* is sent before anybody listens.  Mutant: it always tears down.          *)
AlwaysTornDown(e) == TearDown(e)
AfterReply(e) ==
  IF e.gone \/ e.provider = "none" THEN e ELSE OnClose(e)
Close(r) ==
  /\ x[r].phase = "replied"
  /\ x' = [x EXCEPT ![r] = [AfterReply(@) EXCEPT !.phase = "closed"]]
  /\ UNCHANGED <<cache, active, records, events>>

-------------------------------------------------------------------------------
(* Tool calls are buffered until the provider completes.  The arguments    *)
(* are whole after two pieces, or when there are none.                     *)
Usable(c) == c.pieces \in {0, 2}
Malformed(e) == \E i \in 1..Len(e.calls) : ~Usable(e.calls[i])
Buffered(e, c) == \E i \in 1..Len(e.calls) : e.calls[i].index = c
Lengthened(calls, c, n) ==
  [i \in 1..Len(calls) |->
     IF calls[i].index = c THEN [calls[i] EXCEPT !.pieces = @ + n] ELSE calls[i]]
Buffer(e, c, n) ==
  IF Buffered(e, c) THEN [e EXCEPT !.calls = Lengthened(@, c, n)]
  ELSE [e EXCEPT !.calls = Append(@, [index |-> c, item |-> e.items, pieces |-> n]),
                 !.items = @ + 1]
Rank(calls, i) ==
  Cardinality({j \in 1..Len(calls) : calls[j].index < calls[i].index})
ByIndex(calls) ==
  [k \in 1..Len(calls) |->
     calls[CHOOSE i \in 1..Len(calls) : Rank(calls, i) = k - 1]]

(* Chat Completions: text is forwarded, and the finish follows the calls.  *)
(* Mutant: nothing is validated.                                           *)
ChatCall(c) == <<"call", c.index, c.pieces>>
ChatUnchecked(e) ==
  [Send(e, [i \in 1..Len(e.calls) |-> ChatCall(ByIndex(e.calls)[i])]
             \o <<<<"finish">>>>) EXCEPT !.completed = TRUE]
ChatCompleted(e) ==
  IF Malformed(e) THEN [Send(e, <<<<"error">>>>) EXCEPT !.completed = TRUE]
  ELSE [Send(e, [i \in 1..Len(e.calls) |-> ChatCall(ByIndex(e.calls)[i])]
                  \o <<<<"finish">>>>) EXCEPT !.completed = TRUE]

(* Responses: one text item, open until the provider completes; an item    *)
(* has the index of its first event.                                       *)
NewItem(e) == [e EXCEPT !.open = e.items, !.items = @ + 1]
Shut(e)    == IF e.open = NoItem THEN e ELSE Send(e, <<<<"shut", e.open>>>>)
ResponsesText(e) ==
  IF e.open = NoItem THEN Send(NewItem(e), <<<<"open", e.items>>, <<"text", e.items>>>>)
  ELSE Send(e, <<<<"text", e.open>>>>)
ResponsesCall(c) ==
  <<<<"open", c.item>>, <<"call", c.index, c.pieces>>, <<"shut", c.item>>>>
ResponsesCompleted(e) ==
  LET s == Shut(e) IN
  IF Malformed(e) THEN [Send(s, <<<<"error">>>>) EXCEPT !.completed = TRUE]
  ELSE [Send(s, FlattenSeq([i \in 1..Len(e.calls) |-> ResponsesCall(e.calls[i])])
                  \o <<<<"finish">>>>) EXCEPT !.completed = TRUE]

(* Anthropic: a tool call ends the text block, and each block is checked   *)
(* as its turn comes.  All tool blocks are stopped together.  Mutant: the  *)
(* text block stays open.                                                  *)
AnthropicText(e) == ResponsesText(e)
AnthropicOverlapping(e) == e
AnthropicShut(e) == [Shut(e) EXCEPT !.open = NoItem]
AnthropicCall(c) == <<<<"open", c.item>>, <<"call", c.index, c.pieces>>>>
Surfaced(calls)  == FlattenSeq([i \in 1..Len(calls) |-> AnthropicCall(calls[i])])
Stopped(calls)   == [i \in 1..Len(calls) |-> <<"shut", calls[i].item>>]
BeforeMalformed(calls) ==
  SelectInSeq(calls, LAMBDA c : ~Usable(c)) - 1
AnthropicCompleted(e) ==
  LET s == AnthropicShut(e) IN
  IF Malformed(e)
  THEN [Send(s, Surfaced(SubSeq(e.calls, 1, BeforeMalformed(e.calls)))
                  \o <<<<"error">>, <<"stop">>>>) EXCEPT !.completed = TRUE]
  ELSE [Send(s, Surfaced(e.calls) \o Stopped(e.calls) \o <<<<"finish">>>>)
          EXCEPT !.completed = TRUE]

-------------------------------------------------------------------------------
(* trackProviderStream and UsageStore.endRequest: an event after an abort  *)
(* ends the request as cancelled, and a terminal event by its kind; an     *)
(* event of any other kind leaves it active.                               *)
Kept(recs) ==
  IF Len(recs) > MaxRecords THEN SubSeq(recs, Len(recs) - MaxRecords + 1, Len(recs))
  ELSE recs
(* Mutant: a success is only recorded when the stream ends, which a        *)
(* handler that has its last event does not wait for.                      *)
EndLate(r, outcome) ==
  IF outcome = "success" THEN UNCHANGED <<active, records>>
  ELSE /\ active' = active \ {r}
       /\ records' = Kept(Append(records, <<r, outcome>>))
EndOnce(r, outcome) ==
  /\ active' = active \ {r}
  /\ records' = Kept(Append(records, <<r, outcome>>))

(* What the handlers do when the stream is over: the response ends.        *)
Done(e) == IF e.surface = "anthropic" THEN e ELSE Send(e, <<<<"done">>>>)
Replied(e) == [e EXCEPT !.phase = "replied"]
StreamOver(e) == Replied(Done(e))

(* The whole reply of a request that does not stream.                      *)
Aggregated(e) ==
  IF Malformed(e) THEN [Send(e, <<<<"error">>>>) EXCEPT !.completed = TRUE]
  ELSE [Send(e, [i \in 1..Len(e.calls) |-> ChatCall(ByIndex(e.calls)[i])]
                  \o <<<<"finish">>>>) EXCEPT !.completed = TRUE]
JsonReply(e) == Replied(Aggregated(e))

(* An event that is not the last one, as each surface takes it.            *)
OnText(e) ==
  IF ~e.stream THEN e
  ELSE CASE e.surface = "chat"       -> Send(e, <<<<"text", 0>>>>)
         [] e.surface = "responses"  -> ResponsesText(e)
         [] e.surface = "anthropic"  -> AnthropicText(e)
OnCall(e, c, n) ==
  IF e.stream /\ e.surface = "anthropic" THEN Buffer(AnthropicShut(e), c, n)
  ELSE Buffer(e, c, n)

(* One more event.  Once the run is aborted the tracker stops after it,    *)
(* and a JSON reply is made of what there is; a stream whose client left   *)
(* unheard is torn down and left, and its request stays active.            *)
Emit(r, e) ==
  /\ x[r].phase = "running" /\ events < MaxEvents
  /\ events' = events + 1
  /\ IF x[r].aborted THEN EndOnce(r, "cancelled") ELSE UNCHANGED <<active, records>>
  /\ x' = [x EXCEPT ![r] =
       IF @.stream /\ @.gone THEN StreamOver([TearDown(@) EXCEPT !.provider = "left"])
       ELSE IF ~@.stream /\ @.aborted THEN JsonReply([e EXCEPT !.provider = "left"])
       ELSE e]
  /\ UNCHANGED cache

EmitText(r)       == Emit(r, OnText(x[r]))
EmitCall(r, c, n) == Emit(r, OnCall(x[r], c, n))

OnCompleted(e) ==
  IF ~e.stream THEN JsonReply(e)
  ELSE IF e.gone THEN StreamOver(TearDown(e))
  ELSE StreamOver(CASE e.surface = "chat"       -> ChatCompleted(e)
                    [] e.surface = "responses"  -> ResponsesCompleted(e)
                    [] e.surface = "anthropic"  -> AnthropicCompleted(e))
Completed(r) ==
  /\ x[r].phase = "running"
  /\ EndOnce(r, IF x[r].aborted THEN "cancelled" ELSE "success")
  /\ x' = [x EXCEPT ![r] = OnCompleted([@ EXCEPT !.provider = "completed"])]
  /\ UNCHANGED <<cache, events>>

(* An error event.  A JSON reply on the Anthropic surface does not set     *)
(* responseCompleted.                                                      *)
OnError(e) ==
  IF ~e.stream
  THEN Replied([Send(e, <<<<"error">>>>) EXCEPT !.completed = e.surface # "anthropic"])
  ELSE StreamOver(IF e.gone THEN TearDown(e)
                  ELSE [Send(e, <<<<"error">>>>) EXCEPT !.completed = TRUE])
Failed(r) ==
  /\ x[r].phase = "running"
  /\ EndOnce(r, IF x[r].aborted THEN "cancelled" ELSE "error")
  /\ x' = [x EXCEPT ![r] = OnError([@ EXCEPT !.provider = "failed"])]
  /\ UNCHANGED <<cache, events>>

(* The provider throws: an error, and responseCompleted is not set.        *)
Threw(r) ==
  /\ x[r].phase = "running"
  /\ EndOnce(r, "provider_error")
  /\ x' = [x EXCEPT ![r] =
       LET e == Send([@ EXCEPT !.provider = "threw"], <<<<"error">>>>) IN
       IF e.stream THEN StreamOver(e) ELSE Replied(e)]
  /\ UNCHANGED <<cache, events>>

(* The provider's stream ends without a last event: a JSON reply is made   *)
(* as if it had completed.                                                 *)
Ended(r) ==
  /\ x[r].phase = "running"
  /\ EndOnce(r, "provider_error")
  /\ x' = [x EXCEPT ![r] =
       LET e == [@ EXCEPT !.provider = "ended"] IN
       IF e.stream THEN StreamOver(e) ELSE JsonReply(e)]
  /\ UNCHANGED <<cache, events>>

Provider(r) ==
  \/ EmitText(r)
  \/ \E c \in Calls, n \in 0..1 : EmitCall(r, c, n)
  \/ Completed(r) \/ Failed(r) \/ Threw(r) \/ Ended(r)

Next ==
  \/ \E a \in Asks : Arrive(a[1], a[2], a[3])
  \/ \E r \in Exchanges, a \in Answers : Discovered(r, a)
  \/ Age
  \/ \E r \in Exchanges : HangUp(r) \/ Close(r) \/ Provider(r)

Spec == Init /\ [][Next]_vars

-------------------------------------------------------------------------------
Told(r, kind) == \E i \in 1..Len(x[r].frames) : x[r].frames[i][1] = kind
Places(r, kind) == {i \in 1..Len(x[r].frames) : x[r].frames[i][1] = kind}

(* "NORMAL FIRST tool_calls RESPONSE COMPLETION is NOT a cancellation: a   *)
(* parked cross-request tool session must survive the first reply" (all    *)
(* three handlers): adapter.cancel is not called for a reply that told its *)
(* client that it is complete; and it is called for every run whose client *)
(* hung up while somebody listened.                                        *)
CompletedSurvives ==
  \A r \in Exchanges :
    /\ Told(r, "finish") => ~x[r].cancelled
    /\ x[r].phase = "running" /\ x[r].gone /\ ~x[r].late => x[r].cancelled

(* "a malformed provider payload can never become an executable call": a   *)
(* client sees only whole calls; and a reply that finishes has shown every *)
(* call the provider made, once.                                           *)
OnlyWholeCalls ==
  \A r \in Exchanges :
    LET shown == Places(r, "call") f == x[r].frames IN
    /\ \A i \in shown : f[i][3] \in {0, 2}
    /\ Told(r, "finish") =>
         /\ Cardinality(shown) = Len(x[r].calls)
         /\ {f[i][2] : i \in shown} = {x[r].calls[i].index : i \in 1..Len(x[r].calls)}

(* The wire: one last frame, after which only [DONE] or the stop of the    *)
(* message; and in a stream that finishes the items are numbered from 0    *)
(* without a gap, each is opened once and shut once, and all text of an    *)
(* item lies between.                                                      *)
ItemsIn(r, kind) == {x[r].frames[i][2] : i \in Places(r, kind)}
WireOrder ==
  \A r \in Exchanges :
    LET f == x[r].frames last == Places(r, "finish") \cup Places(r, "error") IN
    /\ Cardinality(last) <= 1
    /\ \A i \in last, j \in 1..Len(f) : j > i => f[j][1] \in {"done", "stop"}
    /\ Told(r, "finish") /\ x[r].stream /\ x[r].surface # "chat" =>
         /\ ItemsIn(r, "open") = 0..(x[r].items - 1)
         /\ ItemsIn(r, "shut") = ItemsIn(r, "open")
         /\ Cardinality(Places(r, "open")) = x[r].items
         /\ Cardinality(Places(r, "shut")) = x[r].items
         /\ \A i \in Places(r, "text") :
              /\ \E j \in Places(r, "open") : j < i /\ f[j][2] = f[i][2]
              /\ \E j \in Places(r, "shut") : j > i /\ f[j][2] = f[i][2]

(* The usage store: a request that reached its provider is recorded once   *)
(* or active, a success is a run that completed, a cancellation one whose  *)
(* client left; and a request that stays active after its reply is a       *)
(* stream whose client hung up while the model was being resolved.         *)
Reached(r) == x[r].provider # "none"
RecordsOf(r) == {i \in 1..Len(records) : records[i][1] = r}
UsageAccounted ==
  /\ \A r \in active : Reached(r) /\ RecordsOf(r) = {}
  /\ \A r \in Exchanges : Cardinality(RecordsOf(r)) <= 1
  /\ \A i \in 1..Len(records) :
       LET e == x[records[i][1]] IN
       /\ records[i][2] = "success" => e.provider = "completed"
       /\ records[i][2] = "cancelled" => e.gone /\ ~e.late
  /\ \A r \in active : x[r].phase # "running" => x[r].gone /\ x[r].late /\ x[r].stream
  /\ Len(records) < MaxRecords =>
       \A r \in Exchanges : Reached(r) => r \in active \/ RecordsOf(r) # {}

(* "Validate every buffered tool call before any of them is surfaced"      *)
(* (registerAnthropicMessages): a reply that ends in an error has shown no *)
(* call.  The run expects this to be violated.                             *)
ValidatedBeforeSurfaced ==
  \A r \in Exchanges : Told(r, "error") => ~Told(r, "call")
===============================================================================
