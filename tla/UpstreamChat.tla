----------------------------- MODULE UpstreamChat -----------------------------
(***************************************************************************)
(* One request carried to an HTTP provider: what discovery lists, what is  *)
(* sent, how the stream that comes back is read, and every way it ends --  *)
(* an answer, a refusal, a deadline, a hang-up.                            *)
(* Source: src/src/providers/command-code and src/src/providers/cavoti     *)
(* (adapter.ts, client.ts, spend-guard.ts of each).                        *)
(*                                                                         *)
(* Three wires: Command Code's chat completions ("chat") and messages      *)
(* ("messages"), and Cavoti's chat completions ("cavoti").  Nothing is     *)
(* shared between two requests but the acknowledgement and the listing, so *)
(* one request is followed.  Discovery's own fetch, bounded like the error *)
(* bodies below, is one step that answers or fails.                        *)
(***************************************************************************)
EXTENDS Naturals, Sequences, FiniteSets, SequencesExt, FiniteSetsExt

CONSTANTS
  Catalogs,    \* <<provider, what its /models endpoint lists>>
  Histories,   \* conversations a request carries
  Declared,    \* names of the tools it declares
  Names,       \* names upstream may use
  Ids,         \* ids upstream may use
  Indexes,     \* indices upstream may use
  MaxFrames    \* bound: records read from one stream

NoName  == "no name"
NoId    == "no id"
NoIndex == 99
NoCall  == [id |-> NoId, name |-> NoName]
NoBody  == <<"nothing">>

ASSUME NamesAssumption ==
  Declared \subseteq Names /\ NoName \notin Names /\ NoId \notin Ids
ASSUME IndexesAssumption ==
  Indexes \subseteq Nat \ {NoIndex} /\ MaxFrames \in Nat

VARIABLES
  enabled,  \* the acknowledgement on disk is valid and the secret is set
  catalog,  \* what the provider's endpoint listed when it was last asked
  listed,   \* models the adapter answered with
  request,  \* what is on its way upstream, until it is answered
  run,      \* the run of the adapter
  frames    \* history: how many records were read

vars == <<enabled, catalog, listed, request, run, frames>>

(* `timer` is the deadline of the composed signal, `bodyTimer` the one of  *)
(* an error body; `listening` and `hooked` are the listeners on the two    *)
(* signals that cleanup and teardown take back, `pending` the entry        *)
(* cancel() finds.  Those of callerEdge and abortEdge, which nothing takes *)
(* back, sit on the run's own signals and end with them: not modelled.     *)
Fresh == [phase |-> "idle", wire |-> "chat", upstream |-> "none",
          refused |-> FALSE, timer |-> FALSE, bodyTimer |-> FALSE,
          listening |-> FALSE, hooked |-> FALSE, pending |-> FALSE,
          expired |-> FALSE, aborted |-> FALSE,
          calls |-> [i \in Indexes |-> NoCall], usedTool |-> FALSE,
          tokens |-> FALSE, reason |-> "none", out |-> <<>>]

Init ==
  /\ enabled \in BOOLEAN
  /\ catalog = <<>> /\ listed = {} /\ request = NoBody
  /\ run = Fresh /\ frames = 0

-------------------------------------------------------------------------------
(* Discovery.  An entry has an `id`, the `hints` and the `plans` its       *)
(* metadata fields give, each in the order the fields are read.            *)
FirstOf(S, values) ==
  LET hits == {i \in 1..Len(values) : values[i] \in S}
  IN IF hits = {} THEN "none" ELSE values[Min(hits)]

(* readWireHint and classifyCommandCodeWire: the first field that names a  *)
(* wire, and without one the family in the id.                             *)
Wire(entry) ==
  LET hint == FirstOf({"chat", "messages"}, entry.hints)
  IN IF hint # "none" THEN hint
     ELSE IF entry.id = "claude" THEN "messages" ELSE "chat"

(* readGoatEntitlement: a field whose text says nothing of plans is passed *)
(* over.                                                                   *)
Entitlement(entry) == FirstOf({"included", "excluded"}, entry.plans)

Entry(c, id) == c[Min({i \in 1..Len(c) : c[i].id = id})]
ModelOf(c, id) ==
  [provider |-> "command-code", id |-> id, wire |-> Wire(Entry(c, id)),
   plan |-> Entitlement(Entry(c, id))]

(* discoverModels: an id is what its first entry says, and is left out     *)
(* when that entry excludes it.  Mutant: nothing is left out.              *)
AllModels(c) == {ModelOf(c, c[i].id) : i \in 1..Len(c)}
CommandCodeModels(c) ==
  {m \in {ModelOf(c, c[i].id) : i \in 1..Len(c)} : m.plan # "excluded"}

CavotiModels(c) ==
  IF \E i \in 1..Len(c) : c[i].id = "pinned"
  THEN {[provider |-> "cavoti", id |-> "pinned", wire |-> "cavoti",
         plan |-> "none"]}
  ELSE {}

Discover(provider, c, answered) ==
  /\ run.phase = "idle" /\ listed = {}
  /\ catalog' = c
  /\ listed' = IF ~enabled \/ ~answered THEN {}
               ELSE IF provider = "cavoti" THEN CavotiModels(c)
               ELSE CommandCodeModels(c)
  /\ UNCHANGED <<enabled, request, run, frames>>

(* The operator edits the acknowledgement file, at any time.               *)
Acknowledge ==
  /\ run.phase = "idle"
  /\ enabled' = ~enabled
  /\ UNCHANGED <<catalog, listed, request, run, frames>>

-------------------------------------------------------------------------------
(* What is sent.  A message of a conversation: its role, the tool call it  *)
(* makes or answers, and whether a result is an error.                     *)
ChatMessage(m) == [m EXCEPT !.error = FALSE]

(* buildAnthropicRequestBody: system text moves out of the messages; a     *)
(* call needs arguments that parse, a result the id of its call.           *)
Unsendable(m) ==
  \/ m.role = "assistant" /\ m.call = "unparsable"
  \/ m.role = "tool" /\ m.call = NoId
Converted(history) ==
  SelectSeq(history, LAMBDA m : m.role \in {"user", "assistant", "tool"})
Convertible(history) ==
  /\ \A i \in 1..Len(history) : ~Unsendable(history[i])
  /\ Converted(history) # <<>>

Body(wire, history) ==
  IF wire = "messages" THEN Converted(history)
  ELSE [i \in 1..Len(history) |-> ChatMessage(history[i])]

-------------------------------------------------------------------------------
(* How a run ends.                                                         *)
Emit(r, e) == [r EXCEPT !.out = Append(@, e)]

(* composeTimeoutSignal's cleanup, with the error body's own timer, and    *)
(* the adapter's finally block.  Mutant: the timer is left running.        *)
HalfCleanup(r) == [r EXCEPT !.listening = FALSE, !.bodyTimer = FALSE]
Cleanup(r) == [r EXCEPT !.timer = FALSE, !.listening = FALSE,
                        !.bodyTimer = FALSE]
Finally(r) == [Cleanup(r) EXCEPT !.phase = "over", !.hooked = FALSE,
                                 !.pending = FALSE]

(* The stream ended, or its signal was aborted.                            *)
Closed(r) == [Finally(r) EXCEPT !.upstream = "closed"]

(* The adapter stops reading before the end: live() leaves its source      *)
(* alone, parseSseBody cancels its reader.                                 *)
Stopped(r) ==
  [Finally(r) EXCEPT !.upstream = IF r.wire = "cavoti" THEN "closed" ELSE "left"]

Silent(r)     == Closed(r)
Failed(r, e)  == Closed(Emit(r, <<"error", e>>))
Reject(r)     == Stopped(Emit(r, <<"error", "protocol">>))
Complete(r, reason) == Emit(r, <<"completed", reason>>)

-------------------------------------------------------------------------------
(* run, up to the answer's first byte.                                     *)
Sent(wire) ==
  [Fresh EXCEPT !.phase = "headers", !.wire = wire, !.upstream = "open",
                !.timer = TRUE, !.listening = TRUE, !.hooked = TRUE,
                !.pending = TRUE]
NotSent(wire, event) == [Fresh EXCEPT !.phase = "over", !.wire = wire,
                                      !.out = <<event>>]

(* requireEnabled, assertNoSpendPath and the request's own checks.         *)
Started(m, history) ==
  IF ~enabled THEN NotSent(m.wire, <<"error", "auth">>)
  ELSE IF m.id = "extra" THEN NotSent(m.wire, <<"threw", "protocol">>)
  ELSE IF m.wire = "messages" /\ ~Convertible(history)
  THEN NotSent(m.wire, <<"error", "protocol">>)
  ELSE Sent(m.wire)

Start(m, history) ==
  /\ run.phase = "idle"
  /\ run' = Started(m, history)
  /\ request' = IF run'.phase = "headers"
                THEN <<m, history, Body(m.wire, history)>> ELSE NoBody
  /\ UNCHANGED <<enabled, catalog, listed, frames>>

Step(r) == /\ run' = r /\ request' = NoBody
           /\ UNCHANGED <<enabled, catalog, listed, frames>>

(* armWatchdog: the timer is armed again for what remains.  Mutant: the    *)
(* deadline ends with the headers.                                         *)
Disarmed(r) == IF r.wire = "cavoti" THEN r ELSE [r EXCEPT !.timer = FALSE]
Rearmed(r)  == r
Headers(ok) ==
  /\ run.phase = "headers" /\ ~run.aborted
  /\ Step(IF ok THEN [Rearmed(run) EXCEPT !.phase = "body"]
          ELSE [run EXCEPT !.phase = "error body", !.refused = TRUE,
                           !.bodyTimer = run.wire # "cavoti"])

(* The connection breaks, before the headers or within a body.             *)
Break ==
  /\ run.phase \in {"headers", "body", "error body"} /\ ~run.aborted
  /\ Step(Failed(run, "unavailable"))

(* The error body is read whole, and its status and text are mapped.       *)
ErrorBody ==
  /\ run.phase = "error body" /\ ~run.aborted
  /\ Step(Failed(run, "mapped"))

-------------------------------------------------------------------------------
(* The records of a chat-completions stream: text or a fragment of a tool  *)
(* call, and in the same record usage and a finish reason.                 *)
Fragments == [index : Indexes, id : Ids \cup {NoId}, name : Names \cup {NoName}]
NoFragment == [index |-> NoIndex, id |-> NoId, name |-> NoName]
Reasons == {"none", "stop", "length", "tool_calls"}
Plain(kind) == [kind |-> kind, call |-> NoFragment, usage |-> FALSE,
                finish |-> "none"]
Calling(f) == [Plain("call") EXCEPT !.call = f]
Telling(kind, u, q) == [Plain(kind) EXCEPT !.usage = u, !.finish = q]
ChatRecords ==
  {Plain("malformed"), Plain("error"), Plain("call")}
    \cup {Calling(f) : f \in Fragments}
    \cup {Telling(k, u, q) : k \in {"text", "nothing"}, u \in BOOLEAN, q \in Reasons}

(* What a fragment makes of the call at its index.  Command Code takes a   *)
(* new name from a fragment that has an id, and the first name from one    *)
(* that has none; Cavoti keeps the first.                                  *)
Named(wire, known, f) ==
  IF f.name = NoName \/ (known.name # NoName /\ (wire = "cavoti" \/ f.id = NoId))
  THEN known.name ELSE f.name
Resolved(wire, known, f) ==
  [id |-> IF f.id = NoId THEN known.id ELSE f.id, name |-> Named(wire, known, f)]

(* Mutant: an id may change.                                               *)
ContradictsOnlyMissing(wire, known, f) == f.id = NoId /\ known.id = NoId
Contradicts(wire, known, f) ==
  \/ f.id = NoId /\ known.id = NoId
  \/ f.id # NoId /\ known.id \notin {NoId, f.id}
  \/ wire = "cavoti" /\ NoName \notin {f.name, known.name} /\ f.name # known.name

OnFragment(r, f) ==
  LET call == Resolved(r.wire, r.calls[f.index], f) IN
  IF f.index = NoIndex \/ Contradicts(r.wire, r.calls[f.index], f)
       \/ call.name \notin Declared \cup {NoName}
  THEN Reject(r)
  ELSE Emit([r EXCEPT !.calls[f.index] = call],
            <<"call", f.index, call.id, call.name>>)

OnContent(r, f) ==
  CASE f.kind = "text" -> Emit(r, <<"text">>)
    [] f.kind = "call" -> OnFragment(r, f.call)
    [] OTHER           -> r
OnUsage(r, f) == IF f.usage THEN Emit(r, <<"usage">>) ELSE r

(* Command Code completes at the finish reason; Cavoti keeps it, for the   *)
(* usage may come in a record of its own.                                  *)
OnFinish(r, f) ==
  IF f.finish = "none" THEN r
  ELSE IF r.wire = "cavoti" THEN [r EXCEPT !.reason = f.finish]
  ELSE Stopped(Complete(r, f.finish))

OnChatRecord(r, f) ==
  IF f.kind \in {"malformed", "error"} THEN Reject(r)
  ELSE LET read == OnContent(r, f)
       IN IF read.phase = "over" THEN read ELSE OnFinish(OnUsage(read, f), f)

-------------------------------------------------------------------------------
(* The events of a messages stream (parseAnthropicEvent).                  *)
Event(kind, i, id, name) == [kind |-> kind, index |-> i, id |-> id, name |-> name]
MessagesRecords ==
  {Event(k, NoIndex, NoId, NoName) :
      k \in {"text", "tokens", "tool_use", "max_tokens", "end_turn", "stop",
             "error", "malformed"}}
    \cup {Event("start", i, d, n) : i \in Indexes, d \in Ids, n \in Names}
    \cup {Event("piece", i, NoId, NoName) : i \in Indexes}

(* message_stop: usage once, and then the completion.                      *)
MessageStop(r) ==
  LET told == IF r.tokens THEN Emit(r, <<"usage">>) ELSE r IN
  Stopped(Complete(told, IF r.usedTool \/ r.reason = "tool_use" THEN "tool_calls"
                         ELSE IF r.reason = "max_tokens" THEN "length"
                         ELSE "stop"))

(* A block is announced by its start and told only by its pieces.          *)
OnMessagesRecord(r, f) ==
  CASE f.kind \in {"malformed", "error"} -> Reject(r)
    [] f.kind = "text"   -> Emit(r, <<"text">>)
    [] f.kind = "start"  ->
         IF f.name \notin Declared THEN Reject(r)
         ELSE [r EXCEPT !.calls[f.index] = [id |-> f.id, name |-> f.name],
                        !.usedTool = TRUE]
    [] f.kind = "piece"  ->
         IF r.calls[f.index] = NoCall THEN Reject(r)
         ELSE Emit(r, <<"call", f.index, r.calls[f.index].id,
                        r.calls[f.index].name>>)
    [] f.kind = "tokens" -> [r EXCEPT !.tokens = TRUE]
    [] f.kind = "stop"   -> MessageStop(r)
    [] OTHER             -> [r EXCEPT !.reason = f.kind]

-------------------------------------------------------------------------------
Records(wire) == IF wire = "messages" THEN MessagesRecords ELSE ChatRecords
OnRecord(r, f) ==
  IF r.wire = "messages" THEN OnMessagesRecord(r, f) ELSE OnChatRecord(r, f)

Read(f) ==
  /\ run.phase = "body" /\ ~run.aborted /\ frames < MaxFrames
  /\ run' = OnRecord(run, f) /\ frames' = frames + 1
  /\ UNCHANGED <<enabled, catalog, listed, request>>

(* A record larger than its buffer: the client throws, and stops reading.  *)
Oversize ==
  /\ run.phase = "body" /\ ~run.aborted
  /\ Step(Reject(run))

(* The stream ends.                                                        *)
EndOfStream(r) ==
  IF r.wire = "cavoti" /\ r.reason # "none" THEN Closed(Complete(r, r.reason))
  ELSE Failed(r, "protocol")
End ==
  /\ run.phase = "body" /\ ~run.aborted
  /\ Step(EndOfStream(run))

-------------------------------------------------------------------------------
(* The deadline aborts the request's signal: the fetch or the stream ends, *)
(* and the client tells that from a hang-up.  Mutant: an abort is one.     *)
TakenForHangUp(r) == IF r.wire = "cavoti" THEN Silent(r) ELSE Failed(r, "timeout")
TimedOut(r) == Failed(r, "timeout")

(* Under an error body the aborted signal makes response.text() itself     *)
(* reject, with an AbortError nobody maps; Cavoti looks at its own flag.   *)
OnDeadline(r) ==
  LET e == [r EXCEPT !.expired = TRUE, !.timer = FALSE] IN
  IF r.phase = "error body" /\ r.wire # "cavoti" THEN Silent(e) ELSE TimedOut(e)

Deadline ==
  /\ run.timer /\ ~run.aborted
  /\ Step(OnDeadline(run))

(* The error body's own timer, due when the other one is: the other one is *)
(* cleared, and nothing aborts the fetch.                                  *)
BodyDeadline ==
  /\ run.bodyTimer /\ ~run.aborted
  /\ Step(Stopped(Emit([run EXCEPT !.expired = TRUE], <<"error", "timeout">>)))

(* The client hangs up: the exchange aborts the signal and calls cancel(). *)
(* Command Code's composed signal gives up its deadline at once.           *)
HangUp ==
  /\ run.phase \in {"headers", "body", "error body"} /\ ~run.aborted
  /\ run' = [run EXCEPT !.aborted = TRUE, !.pending = FALSE, !.hooked = FALSE,
                        !.listening = FALSE, !.timer = run.wire = "cavoti"]
  /\ UNCHANGED <<enabled, catalog, listed, request, frames>>

(* The abort reaches whatever the run was waiting for.                     *)
Abort ==
  /\ run.aborted /\ run.phase # "over"
  /\ Step(Silent(run))

-------------------------------------------------------------------------------
Next ==
  \/ \E c \in Catalogs, ok \in BOOLEAN : Discover(c[1], c[2], ok)
  \/ Acknowledge
  \/ \E m \in listed, h \in Histories : Start(m, h)
  \/ \E ok \in BOOLEAN : Headers(ok)
  \/ Break
  \/ ErrorBody
  \/ \E f \in Records(run.wire) : Read(f)
  \/ Oversize
  \/ End
  \/ Deadline
  \/ BodyDeadline
  \/ HangUp
  \/ Abort

(* Timers fire and aborts arrive; nothing is expected of the provider.     *)
Spec == /\ Init /\ [][Next]_vars
        /\ WF_vars(Deadline) /\ WF_vars(BodyDeadline) /\ WF_vars(Abort)

-------------------------------------------------------------------------------
(* What must hold.                                                         *)

Terminal(e) == e[1] \in {"completed", "error", "threw"}
Over == run.phase = "over"
Timeout == <<"error", "timeout">>

(* The one end nobody hears of without having hung up: both timers of an   *)
(* error body are due, and the composed one fires first.                   *)
LostDeadline == run.expired /\ run.refused /\ run.wire # "cavoti"

(* Whoever reads a run's events learns how it ended: exactly one terminal  *)
(* event, the last one, unless the caller hung up; and the deadline, when  *)
(* it is what ended the run, is what the event says.                       *)
(* Source: the catch blocks of runOpenAiWire, runAnthropicWire and Cavoti's *)
(* run, and the client's telling of a deadline from an abort.              *)
OneTerminal ==
  /\ \A i \in 1..Len(run.out) :
       Terminal(run.out[i]) => i = Len(run.out) /\ Over
  /\ Over /\ ~run.aborted /\ ~LostDeadline =>
       /\ run.out # <<>> /\ Terminal(Last(run.out))
       /\ run.expired => Last(run.out) = Timeout
  /\ run.aborted => \A i \in 1..Len(run.out) : ~Terminal(run.out[i])

(* What the comment on both catch blocks says: a deadline the client       *)
(* enforces surfaces; only a caller's own cancellation is silent.          *)
DeadlineSurfaces ==
  Over /\ run.expired /\ ~run.aborted =>
    run.out # <<>> /\ Last(run.out) = Timeout

(* A tool call the client is told of is one it declared, and stays the     *)
(* call it was: on a chat wire an index keeps its id, a name once told is  *)
(* not taken back, and Cavoti's is not replaced.  On the messages wire a   *)
(* run that told of a call completes as one.  Usage is told before the     *)
(* completion.                                                             *)
(* Source: the declared-tool ACLs and the calls kept by upstream index.    *)
CallAt(i) == run.out[i][1] = "call"
CallsKeepFaith ==
  /\ \A i \in 1..Len(run.out) : CallAt(i) =>
       run.out[i][4] \in Declared \cup {NoName}
  /\ \A i, j \in 1..Len(run.out) :
       CallAt(i) /\ CallAt(j) /\ i < j /\ run.out[i][2] = run.out[j][2]
         /\ run.wire # "messages" =>
         /\ run.out[i][3] = run.out[j][3]
         /\ run.out[i][4] # NoName => run.out[j][4] # NoName
         /\ run.wire = "cavoti" => run.out[i][4] \in {NoName, run.out[j][4]}
  /\ \A i \in 1..Len(run.out) :
       /\ CallAt(i) /\ run.wire = "messages" /\ Last(run.out)[1] = "completed" =>
            Last(run.out) = <<"completed", "tool_calls">>
       /\ run.wire = "messages" /\ run.out[i][1] = "usage" => i < Len(run.out)

(* A run that is over holds nothing: no timer, no listener that its        *)
(* cleanup has to take back, no entry for cancel(), and no connection,     *)
(* except where Command Code stops reading before the stream has ended.    *)
(* While it runs a deadline or an abort is on its way.                     *)
(* Source: cleanup of composeTimeoutSignal, the finally blocks of run,     *)
(* live(), parseSseBody and Cavoti's streamChatCompletion.                 *)
HoldsNothing ==
  /\ Over =>
       /\ ~(run.timer \/ run.bodyTimer \/ run.listening \/ run.hooked \/ run.pending)
       /\ run.upstream = "left" =>
            run.wire # "cavoti" /\ run.out # <<>> /\ Terminal(Last(run.out))
       /\ run.upstream # "open"
  /\ run.phase \in {"headers", "body", "error body"} => run.timer \/ run.aborted

(* A request leaves only under an acknowledgement that is valid when it    *)
(* leaves, for a model whose first listing did not exclude it and that     *)
(* names no spending path, and on the wire its metadata name.              *)
(* Source: requireEnabled, assertNoSpendPath, discoverModels, wireForModel. *)
Leaves == request' # request /\ request' # NoBody
SendsAllowed ==
  [][Leaves =>
       LET m == request'[1] IN
       /\ enabled /\ m.id # "extra"
       /\ m.provider = "command-code" =>
            /\ Entitlement(Entry(catalog, m.id)) # "excluded"
            /\ m.wire = Wire(Entry(catalog, m.id))]_vars

(* It carries every tool call and every result of the conversation in      *)
(* their order, a failed result marked where the wire has a mark and       *)
(* nowhere else.                                                           *)
(* Source: toUpstreamMessages and buildAnthropicRequestBody.               *)
Exchanged(s) == SelectSeq(s, LAMBDA m : m.call # "none")
Unmarked(s) == [i \in 1..Len(s) |-> ChatMessage(s[i])]
CarriesExchange ==
  [][Leaves =>
       LET kept == Exchanged(request'[3])  asked == Exchanged(request'[2])
       IN kept = IF request'[1].wire = "messages" THEN asked
                 ELSE Unmarked(asked)]_vars

(* A run ends, whatever the provider does or does not send.                *)
(* Source: the deadline of composeTimeoutSignal, armed again for the body. *)
RunEnds == (run.phase \in {"headers", "body", "error body"}) ~> Over
===============================================================================
