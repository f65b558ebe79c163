-------------------------- MODULE AntigravityAdapter --------------------------
(***************************************************************************)
(* The Antigravity adapter: an agy process per conversation, which is kept *)
(* alive beyond the reply that surfaced a tool call and is drained further *)
(* by the request that brings the call's result.                           *)
(* Source: src/src/providers/antigravity/adapter.ts and process-client.ts, *)
(* over bridge/control-ipc.ts.                                             *)
(*                                                                         *)
(* A session is named after the request that opens it.  Event loop: the    *)
(* pumps run until each of them waits (Quiet), then comes the next request,*)
(* close, frame or timer.  The process may write a line at any time, since *)
(* a chunk of its output holds several.  Closing a session is one step:    *)
(* nothing it waits for depends on the process.                            *)
(*                                                                         *)
(* The broker is its abstract specification, ToolCallLedger.               *)
(***************************************************************************)
EXTENDS BridgeControl

CONSTANTS
  Requests,     \* HTTP requests; Sessions are those that may open a run
  MaxLive,      \* maxLiveSessions (64 in the code)
  MaxPending,   \* the broker's bound
  MaxEvents,    \* maxStreamEvents, the event a pending next() holds included
  MaxItems,     \* bound on this model: texts of a process
  MaxFaults,    \* bound on this model: hang-ups, failures and lost frames
  Nobody        \* no session

ASSUME LiveAssumption == {MaxLive, MaxPending, MaxEvents} \subseteq Nat \ {0}
ASSUME BoundsAssumption == {MaxItems, MaxFaults} \subseteq Nat
ASSUME RequestsAssumption == Sessions \subseteq Requests /\ Nobody \notin Requests

VARIABLES
  long,        \* the option sessionTtlMs exceeds a frame's own lifetime
  run,         \* request -> its generator: where it is, and at which session
  sess,        \* session -> AgyToolSession, see Sess below
  queue,       \* session -> StreamEventQueue
  child,       \* session -> the process, and what its runner knows of it
  sessions,    \* toolSessions: calls that are parked
  byRequest,   \* sessionsByRequest: requests a session is bound to
  held,        \* sessions whose directory, and whose descriptor, exists
  ledger,      \* the broker: call -> its status
  others,      \* external: calls of other adapters that the broker holds
  gone,        \* requests whose client has hung up
  out,         \* history: how each reply ended, with which call and usage
  heard,       \* history: session -> the texts its clients got, in order
  stale,       \* history: sessions closed by a deadline while they were driven
  belated,     \* history: calls that came after their session was closed
  faults       \* bound on this model: counts towards MaxFaults

maps    == <<sessions, byRequest, held, ledger>>
history == <<out, heard, stale, belated>>
vars    == <<channelVars, long, run, sess, queue, child, maps, others, gone,
             history, faults>>

L == INSTANCE ToolCallLedger WITH status <- ledger

(* `aborted` is the run's abort controller, `deadlines` how many timers    *)
(* run; only the last can still be cleared.  `broken` is protocolError.    *)
Sess == [state : {"none", "starting", "open", "closed"},
         tools : BOOLEAN, aborted : BOOLEAN, gate : BOOLEAN,
         parked : 0..MaxCalls, public : 0..MaxCalls, owner : Requests,
         deadlines : 0..MaxCalls, terminal : BOOLEAN, broken : BOOLEAN, used : BOOLEAN]

(* "stopping" is a process told to terminate; its runner settles with the  *)
(* process's exit.  `cut`: a line was too long, `saw`: a text was seen,    *)
(* `concluded`: the result was written.                                    *)
Ends  == {"none", "ok", "failed", "timeout"}
Child == [pc : {"none", "live", "stopping", "settled"}, end : Ends, late : BOOLEAN,
          cut : BOOLEAN, saw : BOOLEAN, said : 0..MaxItems, concluded : BOOLEAN]

At(r)      == run[r].at
Races(r)   == run[r].pc = "race"
Driven(s)  == \E r \in Requests : Races(r) /\ At(r) = s
Shut(s)    == queue[s].closed /\ queue[s].events = <<>>
Reading(r) == Races(r) /\ (queue[At(r)].events # <<>> \/ (Shut(At(r)) /\ child[At(r)].pc = "settled"))
Offered(r) == Races(r) /\ Handed(At(r)) /\ ~Shut(At(r))
Quiet      == \A r \in Requests : ~(Reading(r) \/ Offered(r))
Fault      == faults < MaxFaults /\ faults' = faults + 1

Init ==
  /\ ChannelInit
  /\ long \in BOOLEAN
  /\ run = [r \in Requests |-> [pc |-> "idle", at |-> Nobody]]
  /\ sess = [s \in Sessions |->
       [state |-> "none", tools |-> FALSE, aborted |-> FALSE, gate |-> FALSE,
        parked |-> 0, public |-> 0, owner |-> s, deadlines |-> 0,
        terminal |-> FALSE, broken |-> FALSE, used |-> FALSE]]
  /\ queue = [s \in Sessions |-> [events |-> <<>>, closed |-> FALSE, over |-> FALSE]]
  /\ child = [s \in Sessions |->
       [pc |-> "none", end |-> "none", late |-> FALSE, cut |-> FALSE,
        saw |-> FALSE, said |-> 0, concluded |-> FALSE]]
  /\ sessions = {} /\ byRequest = {} /\ held = {}
  /\ L!LedgerInit /\ others = 0
  /\ gone = {} /\ stale = {} /\ belated = {} /\ faults = 0
  /\ out = [r \in Requests |-> [end |-> "none", call |-> 0, usage |-> 0]]
  /\ heard = [s \in Sessions |-> <<>>]

-------------------------------------------------------------------------------
(* The process.  terminateChild, through the runner's abort listener: a    *)
(* controller that was aborted before the spawn never calls it.            *)
Stopping(rec) == [rec EXCEPT !.pc = IF @ = "live" THEN "stopping" ELSE @]
Aborted(s)    == IF sess[s].aborted THEN child[s] ELSE Stopping(child[s])

(* closeToolSession, which works once.  `rec` is the session as it is then,*)
(* `extra` a frame its caller has rejected, `fate` what its pending call   *)
(* becomes.  Mutant: only the Router's own state is released.              *)
RouterOnly(s) == child[s]
Terminated(s) == Aborted(s)

Closed(rec) == [rec EXCEPT !.state = "closed", !.aborted = TRUE, !.deadlines = 0,
                           !.parked = 0, !.public = 0]

Unbound(rec) == byRequest \ {rec.owner}

(* control.close() and the rejections before it; at a session that was     *)
(* closed before, only its caller's.                                       *)
Shed(s, rec, extra) ==
  [c \in Calls |->
     IF c[1] = s /\ frames[c] = "pending" /\ (rec.state = "open" \/ c[2] = extra)
     THEN IF c[2] \in {rec.parked, extra} THEN "error" ELSE "dropped"
     ELSE frames[c]]

Closing(s, rec, fate) ==
  IF rec.state = "open"
  THEN /\ sess' = [sess EXCEPT ![s] = Closed(rec)]
       /\ child' = [child EXCEPT ![s] = Terminated(s)]
       /\ sessions' = sessions \ {<<s, rec.public>>}
       /\ byRequest' = Unbound(rec)
       /\ held' = held \ {s}
       /\ L!SettleSome({c \in L!Pending : c[1] = s}, fate)
  ELSE /\ sess' = [sess EXCEPT ![s] = rec]
       /\ UNCHANGED <<child, maps>>

CloseToolSession(s, rec, extra, fate) ==
  /\ Closing(s, rec, fate)
  /\ frames' = Shed(s, rec, extra)

(* The drain's end without a parked call: drainAgySession's finally, which *)
(* closes the session; a plain run's, which removes its directory.         *)
Finally(s, rec) ==
  IF rec.tools THEN CloseToolSession(s, rec, 0, "cancelled")
  ELSE /\ sess' = [sess EXCEPT ![s] = [rec EXCEPT !.state = "closed"]]
       /\ held' = held \ {s}
       /\ UNCHANGED <<child, sessions, byRequest, ledger, frames>>

(* The end of a reply: nobody hears it whose client is gone.               *)
Ended(r, end) == [out EXCEPT ![r].end = IF r \in gone THEN "silent" ELSE end]
Goto(r, pc)   == run' = [run EXCEPT ![r].pc = pc]

-------------------------------------------------------------------------------
(* Requests.                                                               *)
Arrives(r) == Quiet /\ run[r].pc = "idle"

(* A request without tool results: a plain run spawns agy at once, one     *)
(* with tools makes its control channel first.                             *)
Open(r, tools) ==
  /\ r \in Sessions /\ Arrives(r)
  /\ run' = [run EXCEPT ![r] = [pc |-> IF tools THEN "listening" ELSE "race", at |-> r]]
  /\ sess' = [sess EXCEPT ![r].tools = tools,
                          ![r].state = IF tools THEN "starting" ELSE "open"]
  /\ child' = [child EXCEPT ![r].pc = IF tools THEN @ ELSE "live"]
  /\ held' = held \cup {r}
  /\ UNCHANGED <<channelVars, long, queue, sessions, byRequest, ledger, others,
                 gone, history, faults>>

(* The channel listens: agy is spawned and the session published, even if  *)
(* the client has hung up meanwhile; the drain then ends at once.          *)
Start(r) ==
  /\ Quiet /\ run[r].pc = "listening"
  /\ child' = [child EXCEPT ![r].pc = "live"]
  /\ IF sess[r].aborted
     THEN /\ sess' = [sess EXCEPT ![r] = Closed(@)]
          /\ held' = held \ {r}
          /\ Goto(r, "done") /\ out' = Ended(r, "silent")
          /\ UNCHANGED <<byRequest, promise, items>>
     ELSE /\ sess' = [sess EXCEPT ![r].state = "open"]
          /\ byRequest' = byRequest \cup {r}
          /\ Ask(r)
          /\ Goto(r, "race")
          /\ UNCHANGED <<held, out>>
  /\ UNCHANGED <<frames, long, queue, sessions, ledger, others, gone, heard, stale,
                 belated, faults>>

(* The channel, the MCP registration or the process fails.                 *)
StartFails(r) ==
  /\ Quiet /\ run[r].pc = "listening" /\ Fault
  /\ sess' = [sess EXCEPT ![r].state = "closed"]
  /\ held' = held \ {r}
  /\ Goto(r, "done")
  /\ out' = Ended(r, "error")
  /\ UNCHANGED <<channelVars, long, queue, child, sessions, byRequest, ledger,
                 others, gone, heard, stale, belated>>

(* The process runs, and its descriptor is refused: it is aborted, and the *)
(* error waits for its end.                                                *)
PublishFails(r) ==
  /\ Quiet /\ run[r].pc = "listening" /\ Fault
  /\ sess' = [sess EXCEPT ![r].state = "closed", ![r].aborted = TRUE]
  /\ child' = [child EXCEPT ![r].pc = IF sess[r].aborted THEN "live" ELSE "stopping"]
  /\ Goto(r, "failed")
  /\ UNCHANGED <<channelVars, long, queue, maps, others, gone, history>>

EndFailed(r) ==
  /\ Quiet /\ run[r].pc = "failed" /\ child[r].pc = "settled"
  /\ Goto(r, "done")
  /\ out' = Ended(r, "error")
  /\ held' = held \ {r}
  /\ UNCHANGED <<channelVars, long, sess, queue, child, sessions, byRequest, ledger,
                 others, gone, heard, stale, belated, faults>>

(* The client knows of a call once a reply has ended with it.              *)
Told(c) == \E r \in Requests : /\ At(r) = c[1]
                               /\ out[r].end = "tool_calls" /\ out[r].call = c[2]

(* A request with the result of a parked call: the result answers the      *)
(* parked frame, which reopens the gate if that still waited, and the      *)
(* request drives the run from now on, unless that was aborted.  The       *)
(* deadline is not cleared.                                                *)
Resumed(old, r, delivered) ==
  [old EXCEPT !.public = 0, !.owner = r, !.parked = 0, !.gate = @ /\ ~delivered]

Continue(r, c) ==
  LET s == c[1]
      delivered == sess[s].parked # 0 /\ frames[<<s, sess[s].parked>>] = "pending"
      rec == Resumed(sess[s], r, delivered)
      answered == IF delivered THEN Answered(<<s, sess[s].parked>>, "result") ELSE frames
  IN
  /\ Arrives(r) /\ Told(c)
  /\ IF queue[s].over \/ sess[s].aborted
     THEN /\ sess' = [sess EXCEPT ![s] = Closed(rec)]
          /\ child' = [child EXCEPT ![s] = Terminated(s)]
          /\ byRequest' = byRequest \ {sess[s].owner}
          /\ held' = held \ {s}
          /\ run' = [run EXCEPT ![r] = [pc |-> "done", at |-> s]]
          /\ out' = Ended(r, IF queue[s].over THEN "error" ELSE "silent")
          /\ UNCHANGED <<promise, items>>
     ELSE /\ sess' = [sess EXCEPT ![s] = rec]
          /\ byRequest' = (byRequest \ {sess[s].owner}) \cup {r}
          /\ run' = [run EXCEPT ![r] = [pc |-> "race", at |-> s]]
          /\ Ask(s)
          /\ UNCHANGED <<child, held, out>>
  /\ frames' = answered
  /\ sessions' = sessions \ {c}
  /\ L!SettleSome({c}, "resolved")
  /\ UNCHANGED <<long, queue, others, gone, heard, stale, belated, faults>>

(* A closed gate of the account or its settings, an empty prompt, results  *)
(* that match no parked call: an error before anything is allocated.       *)
Turned(r) ==
  /\ Arrives(r) /\ Goto(r, "done") /\ out' = Ended(r, "error")
  /\ UNCHANGED <<channelVars, long, sess, queue, child, maps, others, gone,
                 heard, stale, belated, faults>>

(* The client hangs up before its reply is complete: the signal aborts an  *)
(* opener's run, and cancel() closes the session the request is bound to.  *)
HangUp(r) ==
  LET s == At(r) IN
  /\ Quiet /\ Fault
  /\ run[r].pc \in {"listening", "race", "failed"} /\ r \notin gone
  /\ gone' = gone \cup {r}
  /\ IF r \in byRequest THEN CloseToolSession(s, sess[s], 0, "cancelled")
     ELSE /\ sess' = [sess EXCEPT ![s].aborted = @ \/ s = r]
          /\ child' = [child EXCEPT ![s] = IF s = r THEN Aborted(s) ELSE @]
          /\ UNCHANGED <<maps, frames>>
  /\ UNCHANGED <<promise, items, long, queue, others, run, history>>

-------------------------------------------------------------------------------
(* The pump: drainAgySession, and the loop of a plain run.                 *)
Stopped(r) == r \in gone \/ sess[At(r)].aborted
PumpFrame  == UNCHANGED <<promise, items, long, others, gone, stale, belated, faults>>

(* A text is passed on unless the run was aborted; usage once.             *)
Noted(rec, e) ==
  [rec EXCEPT !.terminal = @ \/ e[1] = "completed", !.broken = @ \/ e[1] = "protocol",
              !.used = @ \/ e[1] = "usage"]

TakeEvent(r) ==
  LET s == At(r)
      e == Head(queue[s].events)
      o == [out EXCEPT ![r].usage =
              @ + (IF e[1] = "usage" /\ ~sess[s].used /\ r \notin gone THEN 1 ELSE 0)]
  IN
  /\ Reading(r) /\ queue[s].events # <<>>
  /\ queue' = [queue EXCEPT ![s].events = Tail(@)]
  /\ heard' = IF e[1] = "text" /\ ~Stopped(r)
              THEN [heard EXCEPT ![s] = Append(@, e[2])] ELSE heard
  /\ IF Stopped(r)
     THEN /\ Finally(s, sess[s])
          /\ Goto(r, "done") /\ out' = [o EXCEPT ![r].end = "silent"]
     ELSE /\ sess' = [sess EXCEPT ![s] = Noted(@, e)]
          /\ out' = o
          /\ UNCHANGED <<run, child, maps, frames>>
  /\ PumpFrame

(* runVerdict.                                                             *)
Verdict(s) ==
  IF child[s].end = "ok" /\ sess[s].terminal /\ ~sess[s].broken THEN "completed" ELSE "error"

(* The queue is closed and the runner has settled: an overflow outranks    *)
(* the abort it caused, and an abort the verdict.  Mutant: the abort is    *)
(* looked at first.                                                        *)
AbortFirst(r) ==
  IF Stopped(r) THEN "silent"
  ELSE IF queue[At(r)].over THEN "error" ELSE Verdict(At(r))
Outcome(r) ==
  IF queue[At(r)].over THEN "error"
  ELSE IF Stopped(r) THEN "silent" ELSE Verdict(At(r))

TakeEnd(r) ==
  /\ Reading(r) /\ Shut(At(r))
  /\ Finally(At(r), sess[At(r)])
  /\ Goto(r, "done")
  /\ out' = Ended(r, Outcome(r))
  /\ UNCHANGED <<queue, heard>> /\ PumpFrame

(* parkAgyToolCall.                                                        *)
Refused(s) == \/ sess[s].gate
              \/ Cardinality(sessions) >= MaxLive
              \/ Cardinality(L!Pending) + others >= MaxPending

TakeCall(r) == /\ Offered(r)
               /\ promise' = [promise EXCEPT ![At(r)] = NoPromise]
               /\ UNCHANGED <<items, long, queue, others, gone, heard, stale, belated, faults>>

RefuseCall(r) ==
  LET s == At(r) IN
  /\ TakeCall(r) /\ Refused(s)
  /\ CloseToolSession(s, sess[s], promise[s], "cancelled")
  /\ Goto(r, "done") /\ out' = Ended(r, "error")

(* Mutant: without a deadline.                                             *)
ParkedForever(rec, n) == [rec EXCEPT !.gate = TRUE, !.parked = n, !.public = n]
Parked(rec, n) ==
  [rec EXCEPT !.gate = TRUE, !.parked = n, !.public = n, !.deadlines = @ + 1]

ParkCall(r) ==
  LET s == At(r)
      n == promise[s]
  IN
  /\ TakeCall(r) /\ ~Refused(s)
  /\ sess' = [sess EXCEPT ![s] = Parked(@, n)]
  /\ L!Park(<<s, n>>)
  /\ sessions' = sessions \cup {<<s, n>>}
  /\ Goto(r, "done")
  /\ out' = [Ended(r, "tool_calls") EXCEPT ![r].call = n]
  /\ UNCHANGED <<child, frames, byRequest, held>>

-------------------------------------------------------------------------------
(* Timers, and the channel.                                                *)
EventFrame == UNCHANGED <<promise, items, long, queue, run, others, gone, out, heard>>

(* A deadline of the session, with its call's in the broker, which was set *)
(* at the same time.  One of an earlier call finds the run resumed, or     *)
(* parked anew.                                                            *)
Deadline(s) ==
  /\ Quiet /\ sess[s].deadlines > 0 /\ sess[s].state = "open"
  /\ CloseToolSession(s, sess[s], 0,
       IF sess[s].deadlines = 1 THEN "expired" ELSE "cancelled")
  /\ stale' = IF Driven(s) THEN stale \cup {s} ELSE stale
  /\ UNCHANGED <<belated, faults>> /\ EventFrame

(* That of a call parked at a closed session: only the broker's has effect.*)
LateDeadline(s) ==
  /\ Quiet /\ sess[s].deadlines > 0 /\ sess[s].state = "closed"
  /\ sess' = [sess EXCEPT ![s].deadlines = 0]
  /\ L!SettleSome({c \in L!Pending : c[1] = s}, "expired")
  /\ UNCHANGED <<frames, child, sessions, byRequest, held, stale, belated, faults>>
  /\ EventFrame

(* A frame's own deadline: before the session's, if that is longer.        *)
FrameExpires(c) ==
  /\ Quiet /\ (long \/ sess[c[1]].state = "closed") /\ frames[c] = "pending" /\ Fault
  /\ frames' = Answered(c, "error")
  /\ UNCHANGED <<sess, child, maps, stale, belated>> /\ EventFrame

(* The MCP bridge forwards a call of the process.  It knows the channel    *)
(* once the drain has begun; and over a connection it has made before the  *)
(* close, a call comes through even after it.                              *)
Published(s) == promise[s] # NoPromise \/ Unsent(s) # 1..MaxCalls

ReceiveCall(s) ==
  /\ Quiet /\ Published(s)
  /\ ReceiveFrame(s, sess[s].gate)
  /\ belated' = IF sess[s].state = "closed"
                THEN belated \cup {c \in Calls : frames'[c] # frames[c]} ELSE belated
  /\ UNCHANGED <<sess, child, maps, stale, faults, long, queue, run, others, gone,
                 out, heard>>

(* The bridge dies with a frame it waits for: the session is closed.       *)
LoseFrame(c) ==
  LET s == c[1] IN
  /\ Quiet /\ Fault /\ frames[c] = "pending"
  /\ Closing(s, sess[s], "cancelled")
  /\ frames' = [Shed(s, sess[s], 0) EXCEPT ![c] = "lost"]
  /\ UNCHANGED <<stale, belated>> /\ EventFrame

-------------------------------------------------------------------------------
(* External: what agy writes and how it exits; the runner's part is what   *)
(* it makes of that.  A line is one update, with a text or usage; the      *)
(* result, once, with the response or without; or it is malformed or too   *)
(* long.                                                                   *)
Results == {"result", "answer"}
Lines   == Results \cup {"text", "usage", "malformed", "oversize"}

(* feedStreamLine: the response counts only if no text was seen.  Mutant:  *)
(* it always does.                                                         *)
AlwaysAnswers(s) == <<<<"text", child[s].said + (IF child[s].saw THEN 0 ELSE 1)>>,
                      <<"completed", 0>>>>
AnswerEvents(s)  == IF child[s].saw THEN <<<<"completed", 0>>>>
                    ELSE <<<<"text", child[s].said + 1>>, <<"completed", 0>>>>

Events(s, line) ==
  IF line = "text" THEN <<<<"text", child[s].said + 1>>>>
  ELSE IF line = "usage" THEN <<<<"usage", 0>>>>
  ELSE IF line = "result" THEN <<<<"completed", 0>>>>
  ELSE IF line = "answer" THEN AnswerEvents(s)
  ELSE <<<<"protocol", 0>>>>

Says(s, line) == line = "text" \/ (line = "answer" /\ ~child[s].saw)

(* push, of the events of a line: beyond the bound all is dropped.         *)
Fed(q, es) ==
  IF q.closed THEN q
  ELSE IF Len(q.events) + Len(es) > MaxEvents
  THEN [events |-> <<>>, closed |-> TRUE, over |-> TRUE]
  ELSE [q EXCEPT !.events = @ \o es]

ChildFrame == UNCHANGED <<channelVars, long, run, maps, others, gone, history>>

(* The runner reads a line unless the run was aborted; an overflow aborts  *)
(* it, a line that is too long terminates the process.                     *)
Hears(s) == child[s].pc \in {"live", "stopping"} /\ ~sess[s].aborted /\ ~child[s].cut

Line(s, line) ==
  LET q    == Fed(queue[s], Events(s, line))
      read == [child[s] EXCEPT !.said = IF Says(s, line) THEN @ + 1 ELSE @,
                               !.saw = @ \/ line = "text", !.cut = line = "oversize",
                               !.concluded = @ \/ line \in Results]
  IN
  /\ Hears(s) /\ (Says(s, line) => child[s].said < MaxItems)
  /\ line \in Results => ~child[s].concluded
  /\ IF line \in {"malformed", "oversize", "usage"} THEN Fault ELSE UNCHANGED faults
  /\ queue' = [queue EXCEPT ![s] = q]
  /\ child' = [child EXCEPT ![s] =
       IF line = "oversize" \/ q.over THEN Stopping(read) ELSE read]
  /\ sess' = [sess EXCEPT ![s].aborted = @ \/ q.over]
  /\ ChildFrame

(* The process is gone and its pipes are closed: a last line without an    *)
(* end is read whatever happened, and the runner settles.                  *)
Exits(s, end, last) ==
  LET q == IF last = "none" \/ child[s].cut THEN queue[s] ELSE Fed(queue[s], Events(s, last))
      says == last # "none" /\ ~child[s].cut /\ Says(s, last)
  IN
  /\ Quiet /\ child[s].pc \in {"live", "stopping"}
  /\ says => child[s].said < MaxItems
  /\ last \in Results => ~child[s].concluded
  /\ IF child[s].pc = "live" /\ end # "ok" THEN Fault ELSE UNCHANGED faults
  /\ queue' = [queue EXCEPT ![s] = [q EXCEPT !.closed = TRUE]]
  /\ child' = [child EXCEPT ![s].pc = "settled",
                            ![s].end = IF child[s].late THEN "timeout" ELSE end,
                            ![s].said = IF says THEN @ + 1 ELSE @]
  /\ sess' = [sess EXCEPT ![s].aborted = @ \/ q.over]
  /\ ChildFrame

(* PRINT_TIMEOUT_MS after the spawn.                                       *)
TimesOut(s) ==
  /\ Quiet /\ child[s].pc \in {"live", "stopping"} /\ ~child[s].late
  /\ child' = [child EXCEPT ![s] = [Stopping(@) EXCEPT !.late = TRUE]]
  /\ UNCHANGED <<sess, queue, faults>> /\ ChildFrame

(* External: the broker fills with calls of other adapters, or empties.    *)
OthersPark(n) == Quiet /\ others' = n
                 /\ UNCHANGED <<channelVars, long, run, sess, queue, child, maps,
                                gone, history, faults>>

-------------------------------------------------------------------------------
Request(r) ==
  \/ \E tools \in BOOLEAN : Open(r, tools)
  \/ \E c \in Calls : Continue(r, c)
  \/ Turned(r) \/ HangUp(r)

PumpStep(r) == TakeEvent(r) \/ TakeEnd(r) \/ RefuseCall(r) \/ ParkCall(r) \/ EndFailed(r)

Exit(s) == \E end \in {"ok", "failed"}, last \in {"none", "text", "answer"} :
             Exits(s, end, last)

Next ==
  \/ \E r \in Requests : Request(r) \/ Start(r) \/ StartFails(r) \/ PublishFails(r)
  \/ \E r \in Requests : PumpStep(r)
  \/ \E s \in Sessions : \/ Deadline(s) \/ LateDeadline(s) \/ ReceiveCall(s)
                          \/ TimesOut(s) \/ Exit(s)
  \/ \E s \in Sessions, line \in Lines : Line(s, line)
  \/ \E c \in Calls : FrameExpires(c) \/ LoseFrame(c)
  \/ \E n \in {0, MaxPending} : OthersPark(n)

Spec == Init /\ [][Next]_vars

(* The event loop runs what can run, a channel gets to listen, timers fire,*)
(* and a process that was killed closes its pipes.                         *)
FairSpec ==
  /\ Spec
  /\ \A r \in Requests : WF_vars(PumpStep(r)) /\ WF_vars(Start(r))
  /\ \A s \in Sessions : /\ WF_vars(Deadline(s)) /\ WF_vars(TimesOut(s))
                         /\ WF_vars(child[s].pc = "stopping" /\ Exit(s))

-------------------------------------------------------------------------------
(* A session, its process and its queue keep their shapes: a queue holds   *)
(* one event more than its bound at most, the one that ends it, and every  *)
(* entry of a map is a call or a request.                                  *)
TypeOK ==
  /\ ChannelTypeOK
  /\ sess \in [Sessions -> Sess] /\ child \in [Sessions -> Child]
  /\ \A s \in Sessions : Len(queue[s].events) <= MaxEvents
  /\ sessions \subseteq Calls /\ byRequest \subseteq Requests
  /\ held \subseteq Sessions /\ gone \subseteq Requests
  /\ stale \subseteq Sessions /\ belated \subseteq Calls
  /\ others \in {0, MaxPending} /\ faults \in 0..MaxFaults
  /\ ledger \in [Calls -> L!Statuses]

(* A conversation's text reaches its clients in order, no part twice,      *)
(* although the result repeats it and several replies share the run; a     *)
(* reply is complete only if the process ended well after its terminal     *)
(* event ("never synthesized from process close", run), and then no text   *)
(* is missing; usage is reported once.                                     *)
RepliesFaithful ==
  \A s \in Sessions :
    /\ heard[s] = [i \in 1..Len(heard[s]) |-> i]
    /\ \A r \in Requests : At(r) = s /\ out[r].end = "completed" =>
         /\ child[s].end = "ok" /\ sess[s].terminal /\ ~sess[s].broken
         /\ Len(heard[s]) = child[s].said
    /\ \A q, r \in Requests :
         At(q) = s /\ At(r) = s /\ out[q].usage > 0 /\ out[r].usage > 0
           => q = r /\ out[r].usage = 1

(* "the protocol error is still surfaced instead of being mistaken for an  *)
(* ordinary cancellation" (run): no reply ends without a word to a client  *)
(* that is still there, unless a deadline closed the session under it.     *)
FailuresTold == \A r \in Requests : out[r].end = "silent" => r \in gone \/ At(r) \in stale

(* A live run that no request drives is parked, with a deadline, can be    *)
(* continued or cancelled, and holds its directory.                        *)
UndrivenIsGuarded ==
  \A s \in Sessions : sess[s].state = "open" /\ ~Driven(s) =>
    /\ sess[s].deadlines > 0 /\ sess[s].gate
    /\ <<s, sess[s].public>> \in sessions \cap L!Pending
    /\ sess[s].owner \in byRequest /\ s \in held

(* "Terminate a live agy run and release every Router-side resource"       *)
(* (closeToolSession): once a session is closed its process has been told  *)
(* to stop, unless it was spawned after the abort, its request is unbound  *)
(* and its directory gone; and no call of it is left in a map, in the      *)
(* broker or on the channel but one that came after the close, and such a  *)
(* one the broker holds under a deadline.                                  *)
Orphan(s) == s \in gone /\ child[s].pc = "live"
ClosedLeavesNothing ==
  \A s \in Sessions : sess[s].state = "closed" =>
    /\ child[s].pc # "live" \/ Orphan(s)
    /\ sess[s].owner \notin byRequest
    /\ s \in held => run[s].pc = "failed"
    /\ \A n \in 1..MaxCalls :
         /\ <<s, n>> \in sessions \cup L!Pending \/ n \in Pending(s) => <<s, n>> \in belated
         /\ <<s, n>> \in L!Pending => sess[s].deadlines > 0

(* Every request comes to an end, and with it, or with the deadline of the *)
(* call it parked, its session and its process.                            *)
Over(s) == sess[s].state = "closed" /\ child[s].pc \in {"none", "settled"}
EverythingEnds ==
  \A r \in Requests : run[r].pc # "idle" ~>
    run[r].pc = "done" /\ (At(r) \in Sessions => Over(At(r)))

(* "Bounded lifetime for a parked session whose continuation never arrives"*)
(* (ttlTimer): a deadline closes no session whose continuation has come.   *)
OnlyParkedExpire == stale = {}

(* "8. session map cleanup" (closeToolSession): a session that was closed  *)
(* counts no longer against maxLiveSessions.                               *)
ClosedIsForgotten ==
  \A s \in Sessions : sess[s].state = "closed" => \A c \in sessions : c[1] # s

(* "Router cleanup alone must not leave an in-flight agy run behind"       *)
(* (closeToolSession).                                                     *)
NoOrphan == \A s \in Sessions : sess[s].state = "closed" => child[s].pc # "live"
===============================================================================
