----------------------------- MODULE ClaudeAdapter -----------------------------
(***************************************************************************)
(* The Claude adapter: an SDK query per conversation, which outlives the   *)
(* HTTP reply that surfaced a tool call and is drained further by the      *)
(* request that brings the call's result.                                  *)
(* Source: src/src/providers/claude/adapter.ts, over bridge/control-ipc.ts.*)
(*                                                                         *)
(* A session is named after the request that opens it.  Event loop: the    *)
(* pumps run until each of them waits (Quiet), then comes the next request,*)
(* close, frame or timer; the SDK may produce a message at any time, and   *)
(* which of a message and a call a pump takes first is left open.          *)
(*                                                                         *)
(* The broker is its abstract specification, ToolCallLedger.               *)
(***************************************************************************)
EXTENDS BridgeControl

CONSTANTS
  Requests,     \* HTTP requests; Sessions are those that may open a query
  MaxLive,      \* maxLiveSessions (64 in the code)
  MaxPending,   \* the broker's bound
  MaxItems,     \* bound on this model: text items of a query
  MaxUnread,    \* bound on this model: messages a query is ahead
  MaxFaults,    \* bound on this model: hang-ups, failures and lost frames
  Nobody        \* no session

ASSUME LiveAssumption == MaxLive \in Nat \ {0} /\ MaxPending \in Nat \ {0}
ASSUME BoundsAssumption == {MaxItems, MaxUnread, MaxFaults} \subseteq Nat
ASSUME RequestsAssumption == Sessions \subseteq Requests /\ Nobody \notin Requests

VARIABLES
  long,        \* the option sessionTtlMs exceeds a frame's own lifetime
  run,         \* request -> its generator: where it is, and at which session
  sess,        \* session -> LiveClaudeSession, see Sess below
  sessions,    \* the map by public id: calls that are parked
  byRequest,   \* sessionsByRequest: requests that drive, or opened, a session
  ledger,      \* the broker: call -> its status
  others,      \* external: calls of other adapters that the broker holds
  sdk,         \* external: what each query has produced, and is yet unread
  gone,        \* requests whose client has hung up
  out,         \* history: how each reply ended, with which call
  heard,       \* history: session -> the text its clients got, in order
  revived,     \* history: sessions that parked a call after their close
  faults       \* bound on this model: counts towards MaxFaults

maps    == <<sessions, byRequest, ledger>>
history == <<out, heard, revived>>
vars    == <<channelVars, long, run, sess, maps, others, sdk, gone, history, faults>>

L == INSTANCE ToolCallLedger WITH status <- ledger

(* A session's life: "none"; "starting" while its channel is made; "open"; *)
(* "returning" while closeSession waits for the SDK's iterator; "closed".  *)
(* "leaked": the query could not be made, and its channel stays.           *)
Sess == [state : {"none", "starting", "open", "returning", "closed", "leaked"},
         tools : BOOLEAN, aborted : BOOLEAN, gate : BOOLEAN,
         parked : 0..MaxCalls, public : 0..MaxCalls, owner : Requests,
         ttl : BOOLEAN, seen : BOOLEAN, used : BOOLEAN]

At(r)      == run[r].at
Drives(r)  == run[r].pc = "race"
Driven(s)  == \E r \in Requests : Drives(r) /\ At(r) = s
Reading(r) == Drives(r) /\ sdk[At(r)].unread # <<>>
Offered(r) == Drives(r) /\ Handed(At(r))
Awaited(r) == run[r].pc \in {"failed", "refused"} /\ sess[At(r)].state = "closed"
Quiet      == \A r \in Requests : ~(Reading(r) \/ Offered(r) \/ Awaited(r))
Fault      == faults < MaxFaults /\ faults' = faults + 1

Init ==
  /\ ChannelInit
  /\ long \in BOOLEAN
  /\ run = [r \in Requests |-> [pc |-> "idle", at |-> Nobody]]
  /\ sess = [s \in Sessions |->
       [state |-> "none", tools |-> FALSE, aborted |-> FALSE, gate |-> FALSE,
        parked |-> 0, public |-> 0, owner |-> s, ttl |-> FALSE,
        seen |-> FALSE, used |-> FALSE]]
  /\ sessions = {} /\ byRequest = {}
  /\ L!LedgerInit /\ others = 0
  /\ sdk = [s \in Sessions |->
       [on |-> FALSE, partial |-> FALSE, said |-> 0, unread |-> <<>>]]
  /\ gone = {} /\ revived = {} /\ faults = 0
  /\ out = [r \in Requests |-> [end |-> "none", call |-> 0, usage |-> 0]]
  /\ heard = [s \in Sessions |-> <<>>]

-------------------------------------------------------------------------------
(* closeSession, up to its first await.  `rec` is the session as it is     *)
(* then, `extra` a frame its caller has rejected, `fate` what its pending  *)
(* call becomes.  A query without tools is only an iterator.               *)
Retired(rec) ==
  [rec EXCEPT !.state = IF rec.tools THEN "returning" ELSE "closed",
    !.aborted = rec.tools \/ @, !.ttl = FALSE, !.parked = 0, !.public = 0]

(* The broker's calls of the session.  Mutant: they are not cancelled.     *)
NoScope(s) == {}
Scope(s)   == {c \in L!Pending : c[1] = s}

Shed(s, rec, extra) ==
  [c \in Calls |->
     IF /\ c[1] = s /\ frames[c] = "pending"
        /\ c[2] \in IF rec.state = "open" THEN {rec.parked, extra} ELSE {extra}
     THEN "error" ELSE frames[c]]

Closing(s, rec, fate) ==
  IF rec.state = "open"
  THEN /\ sess' = [sess EXCEPT ![s] = Retired(rec)]
       /\ sessions' = sessions \ {<<s, rec.public>>}
       /\ byRequest' = byRequest \ {rec.owner}
       /\ L!SettleSome(Scope(s), fate)
  ELSE sess' = [sess EXCEPT ![s] = rec] /\ UNCHANGED maps

CloseSession(s, rec, extra, fate) ==
  Closing(s, rec, fate) /\ frames' = Shed(s, rec, extra)

(* The end of a reply: nobody hears it whose client is gone.               *)
Ended(r, end) ==
  [out EXCEPT ![r].end = IF r \in gone THEN "silent" ELSE end]
Goto(r, pc) == run' = [run EXCEPT ![r].pc = pc]

-------------------------------------------------------------------------------
(* Requests.                                                               *)
Arrives(r) == Quiet /\ run[r].pc = "idle"

(* A request without tool results opens a query; with tools its channel is *)
(* made first.  `partial`: whether this query streams its text.            *)
Open(r, tools, partial) ==
  /\ r \in Sessions /\ Arrives(r)
  /\ run' = [run EXCEPT ![r] = [pc |-> IF tools THEN "listening" ELSE "race", at |-> r]]
  /\ sess' = [sess EXCEPT ![r].tools = tools,
                          ![r].state = IF tools THEN "starting" ELSE "open"]
  /\ sdk' = [sdk EXCEPT ![r].on = ~tools, ![r].partial = partial]
  /\ UNCHANGED <<channelVars, long, others, maps, gone, history, faults>>

(* The channel listens; the query is made, even if the client is gone.     *)
Start(r) ==
  /\ Quiet /\ run[r].pc = "listening"
  /\ sdk' = [sdk EXCEPT ![r].on = TRUE]
  /\ IF sess[r].aborted
     THEN /\ sess' = [sess EXCEPT ![r] = Retired(@)]
          /\ Goto(r, "done") /\ out' = Ended(r, "silent")
          /\ UNCHANGED <<byRequest, channelVars>>
     ELSE /\ sess' = [sess EXCEPT ![r].state = "open"]
          /\ byRequest' = byRequest \cup {r}
          /\ Ask(r)
          /\ Goto(r, "race")
          /\ UNCHANGED <<out, frames>>
  /\ UNCHANGED <<long, others, sessions, ledger, gone, heard, revived, faults>>

(* The channel, or the query, cannot be made.  Nobody closes the channel   *)
(* of a query that could not be made.                                      *)
StartFails(r, left) ==
  /\ Quiet /\ run[r].pc = "listening" /\ Fault
  /\ sess' = [sess EXCEPT ![r].state = left]
  /\ Goto(r, "done")
  /\ out' = Ended(r, "error")
  /\ UNCHANGED <<channelVars, long, others, maps, sdk, gone, heard, revived>>

(* The client knows of a call once a reply has ended with it.              *)
Told(c) == \E r \in Requests : /\ At(r) = c[1]
                               /\ out[r].end = "tool_calls" /\ out[r].call = c[2]

(* A request with the result of a parked call: it drives the session from  *)
(* now on, its result answers the parked frame, and if that still waited   *)
(* the gate reopens and the deadline is retired.                           *)
Resumed(rec) == [rec EXCEPT !.parked = 0, !.gate = FALSE, !.ttl = FALSE]

(* Mutant: the session stays bound to the request before.                  *)
StillBound(old, r) == byRequest
Rebound(old, r)    == (byRequest \ {old.owner}) \cup {r}

Continue(r, c) ==
  LET s   == c[1]
      old == sess[s]
      rec == [old EXCEPT !.public = 0, !.owner = r]
      delivered == old.parked # 0 /\ frames[<<s, old.parked>>] = "pending"
  IN
  /\ Arrives(r) /\ Told(c)
  /\ L!SettleSome({c}, "resolved")
  /\ sessions' = sessions \ {c}
  /\ IF delivered THEN /\ frames' = Answered(<<s, old.parked>>, "result")
                       /\ sess' = [sess EXCEPT ![s] = Resumed(rec)]
                  ELSE /\ sess' = [sess EXCEPT ![s] = [rec EXCEPT !.parked = 0]]
                       /\ UNCHANGED frames
  /\ IF old.aborted
     THEN /\ run' = [run EXCEPT ![r] = [pc |-> "done", at |-> s]]
          /\ out' = Ended(r, "silent")
          /\ byRequest' = byRequest \ {old.owner}
          /\ UNCHANGED <<promise, items>>
     ELSE /\ run' = [run EXCEPT ![r] = [pc |-> "race", at |-> s]]
          /\ byRequest' = Rebound(old, r)
          /\ Ask(s)
          /\ UNCHANGED out
  /\ UNCHANGED <<long, others, sdk, gone, heard, revived, faults>>

(* Results that match no parked call: an error, never a new query.         *)
ContinueUnmatched(r) ==
  /\ Arrives(r) /\ \E c \in Calls : Told(c) /\ ledger[c] # "pending"
  /\ Goto(r, "done") /\ out' = Ended(r, "error")
  /\ UNCHANGED <<channelVars, long, others, sess, maps, sdk, gone, heard, revived, faults>>

(* The client hangs up before its reply is complete: the signal aborts an  *)
(* opener's query, and cancel() closes the session the request is bound to.*)
HangUp(r) ==
  LET s   == At(r)
      rec == IF s = r THEN [sess[s] EXCEPT !.aborted = TRUE] ELSE sess[s]
  IN
  /\ Quiet /\ Fault
  /\ run[r].pc \in {"listening", "race", "failed", "refused"} /\ r \notin gone
  /\ gone' = gone \cup {r}
  /\ IF r \in byRequest THEN CloseSession(s, rec, 0, "cancelled")
     ELSE sess' = [sess EXCEPT ![s] = rec] /\ UNCHANGED <<maps, frames>>
  /\ UNCHANGED <<promise, items, long, others, run, sdk, history>>

-------------------------------------------------------------------------------
(* The pump: drainSession, and drainPlain for a query without tools.       *)
Message(r) == Head(sdk[At(r)].unread)
Read(r)    == sdk' = [sdk EXCEPT ![At(r)].unread = Tail(@)]
Stopped(r) == r \in gone \/ sess[At(r)].aborted
PumpFrame  == UNCHANGED <<promise, items, long, others, gone, revived, faults>>

(* A message with text: a part of an item (a delta), or an item in full,   *)
(* whose text counts only if none was streamed.  Usage is reported once.   *)
(* Mutant: the text of an item in full always counts.                      *)
AnyText(m, rec)  == TRUE
NewText(m, rec)  == m[1] = "delta" \/ ~rec.seen

Reported(r, m, rec) == m[1] # "delta" /\ ~rec.used /\ r \notin gone

TakeText(r) ==
  LET s   == At(r)
      m   == Message(r)
      old == sess[s]
      rec == [old EXCEPT !.seen = @ \/ m[1] = "delta", !.used = @ \/ m[1] = "full"]
      o   == [out EXCEPT ![r].usage = @ + (IF Reported(r, m, old) THEN 1 ELSE 0)]
  IN
  /\ Reading(r) /\ m[1] \in {"delta", "full"}
  /\ Read(r)
  /\ heard' = IF NewText(m, old) /\ r \notin gone
              THEN [heard EXCEPT ![s] = Append(@, m[2])] ELSE heard
  /\ IF Stopped(r)
     THEN /\ CloseSession(s, rec, 0, "cancelled")
          /\ Goto(r, "done") /\ out' = [o EXCEPT ![r].end = "silent"]
     ELSE /\ sess' = [sess EXCEPT ![s] = rec]
          /\ out' = o
          /\ UNCHANGED <<run, maps, frames>>
  /\ PumpFrame

(* The result: the reply ends, and with it the session.                    *)
TakeResult(r) ==
  LET s == At(r)
      m == Message(r)
      rec == [sess[s] EXCEPT !.used = @ \/ m[1] = "success"]
      o == Ended(r, IF m[1] = "success" THEN "completed" ELSE "error")
  IN
  /\ Reading(r) /\ m[1] \in {"success", "failure"}
  /\ Read(r)
  /\ out' = [o EXCEPT ![r].usage =
       @ + (IF m[1] = "success" /\ Reported(r, m, sess[s]) THEN 1 ELSE 0)]
  /\ CloseSession(s, rec, 0, "cancelled")
  /\ Goto(r, "done")
  /\ UNCHANGED heard /\ PumpFrame

(* The stream is over without a result, or throws: an error, thrown        *)
(* through drainSession's finally, which closes the session first.         *)
Thrown(r) == Message(r)[1] = "threw" \/ ~Stopped(r)
ErrorEnd(r, aborted) == Ended(r, IF At(r) = r /\ aborted THEN "silent" ELSE "error")

TakeEnd(r) ==
  LET s == At(r) IN
  /\ Reading(r) /\ Message(r)[1] \in {"over", "threw"}
  /\ Read(r)
  /\ CloseSession(s, sess[s], 0, "cancelled")
  /\ IF ~Thrown(r) THEN Goto(r, "done") /\ out' = Ended(r, "silent")
     ELSE IF sess[s].state = "open" /\ sess[s].tools
     THEN Goto(r, "failed") /\ UNCHANGED out
     ELSE Goto(r, "done") /\ out' = ErrorEnd(r, sess[s].aborted)
  /\ UNCHANGED heard /\ PumpFrame

(* The session is closed, and the error reaches run's catch, which takes   *)
(* that of an aborted query for a cancellation; or it is yielded.          *)
EndFailed(r) ==
  /\ Awaited(r)
  /\ out' = IF run[r].pc = "refused" THEN Ended(r, "error")
            ELSE ErrorEnd(r, sess[At(r)].aborted)
  /\ Goto(r, "done")
  /\ UNCHANGED <<sess, maps, sdk, frames, heard>> /\ PumpFrame

(* parkToolCall.                                                           *)
Refused(s) == \/ sess[s].gate
              \/ Cardinality(sessions) >= MaxLive
              \/ Cardinality(L!Pending) + others >= MaxPending

TakeCall(r) == /\ Offered(r)
               /\ promise' = [promise EXCEPT ![At(r)] = NoPromise]
               /\ UNCHANGED <<items, long, others, sdk, gone, heard, faults>>

RefuseCall(r) ==
  LET s == At(r) IN
  /\ TakeCall(r) /\ Refused(s)
  /\ CloseSession(s, sess[s], promise[s], "cancelled")
  /\ IF sess[s].state = "open" THEN Goto(r, "refused") /\ UNCHANGED out
     ELSE Goto(r, "done") /\ out' = Ended(r, "error")
  /\ UNCHANGED revived

(* Mutant: without a deadline.                                             *)
ParkedForever(rec, n) == [rec EXCEPT !.gate = TRUE, !.parked = n, !.public = n]
Parked(rec, n) ==
  [rec EXCEPT !.gate = TRUE, !.parked = n, !.public = n, !.ttl = TRUE]

ParkCall(r) ==
  LET s == At(r)
      n == promise[s]
  IN
  /\ TakeCall(r) /\ ~Refused(s)
  /\ sess' = [sess EXCEPT ![s] = Parked(@, n)]
  /\ L!Park(<<s, n>>)
  /\ sessions' = sessions \cup {<<s, n>>}
  /\ byRequest' = IF s = r THEN byRequest ELSE byRequest \ {r}
  /\ Goto(r, "done")
  /\ out' = [Ended(r, "tool_calls") EXCEPT ![r].call = n]
  /\ revived' = IF sess[s].state = "open" THEN revived ELSE revived \cup {s}
  /\ UNCHANGED frames

-------------------------------------------------------------------------------
(* Timers, and the channel.                                                *)
Lasts(s) == sess[s].state \in {"open", "returning"}
EventFrame == UNCHANGED <<long, others, run, sdk, gone, history>>

(* A parked session's deadline, with its call's in the broker, which was   *)
(* set at the same time.  On a session that is terminated closeSession     *)
(* does nothing, and only the broker forgets the call.                     *)
Deadline(s) ==
  /\ Quiet /\ sess[s].ttl
  /\ IF sess[s].state = "open" THEN CloseSession(s, sess[s], 0, "expired")
     ELSE /\ sess' = [sess EXCEPT ![s].ttl = FALSE]
          /\ L!SettleSome(Scope(s), "expired")
          /\ UNCHANGED <<sessions, byRequest, frames>>
  /\ UNCHANGED <<promise, items, faults>> /\ EventFrame

(* A frame's own deadline, set when it arrived: before the session's, if   *)
(* that is longer.                                                         *)
FrameExpires(c) ==
  /\ Quiet /\ long /\ frames[c] = "pending" /\ Fault
  /\ frames' = Answered(c, "error")
  /\ UNCHANGED <<promise, items, sess, maps>> /\ EventFrame

(* The bridge parks a call, as long as there is a channel.                 *)
ReceiveCall(s) ==
  /\ Quiet /\ Lasts(s) /\ sess[s].tools
  /\ ReceiveFrame(s, sess[s].gate)
  /\ UNCHANGED <<sess, maps, faults>> /\ EventFrame

(* The bridge, or its connection, dies with a frame: the session is closed.*)
LoseFrame(c) ==
  LET s == c[1] IN
  /\ Quiet /\ Fault /\ frames[c] = "pending"
  /\ Closing(s, sess[s], "cancelled")
  /\ frames' = [Shed(s, sess[s], 0) EXCEPT ![c] = "lost"]
  /\ UNCHANGED <<promise, items>> /\ EventFrame

(* The SDK's iterator has returned, and closeSession goes on: the channel  *)
(* is closed with its connections.                                         *)
Returned(s) ==
  /\ Quiet /\ sess[s].state = "returning" /\ ~sdk[s].on
  /\ sess' = [sess EXCEPT ![s].state = "closed"]
  /\ frames' = Dropped(s)
  /\ UNCHANGED <<promise, items, maps, faults>> /\ EventFrame

-------------------------------------------------------------------------------
(* External: what the SDK's query produces.  A query that streams its text *)
(* gives each item in parts and then in full; one that does not, only in   *)
(* full.  It ends with a result, or without one: when it was aborted, or   *)
(* it died.                                                                *)
Items(s) == IF sdk[s].partial THEN (sdk[s].said + 1) \div 2 ELSE sdk[s].said
Says(s)    == sdk[s].on /\ Len(sdk[s].unread) < MaxUnread /\ Lasts(s)
SdkFrame == UNCHANGED <<channelVars, long, others, run, sess, maps, gone, history>>

SdkText(s) ==
  LET k == sdk[s].said + 1
      m == IF ~sdk[s].partial THEN <<"full", k>>
           ELSE IF k % 2 = 1 THEN <<"delta", (k + 1) \div 2>>
           ELSE <<"full", k \div 2>>
  IN
  /\ Says(s) /\ m[2] <= MaxItems
  /\ sdk' = [sdk EXCEPT ![s].said = k, ![s].unread = Append(@, m)]
  /\ UNCHANGED faults /\ SdkFrame

SdkResult(s, how) ==
  /\ Says(s)
  /\ sdk' = [sdk EXCEPT ![s].on = FALSE, ![s].unread = Append(@, <<how, 0>>)]
  /\ UNCHANGED faults /\ SdkFrame

SdkStops(s, how) ==
  /\ sdk[s].on /\ Lasts(s)
  /\ IF sess[s].aborted THEN UNCHANGED faults ELSE Fault
  /\ sdk' = [sdk EXCEPT ![s].on = FALSE, ![s].unread = Append(@, <<how, 0>>)]
  /\ SdkFrame

(* External: the broker fills with calls of other adapters, or empties.    *)
OthersPark(n) == others' = n /\ UNCHANGED <<channelVars, long, run, sess, maps, sdk,
                                            gone, history, faults>>

-------------------------------------------------------------------------------
Request(r) ==
  \/ \E tools, partial \in BOOLEAN : Open(r, tools, partial)
  \/ \E c \in Calls : Continue(r, c)
  \/ ContinueUnmatched(r) \/ HangUp(r)

PumpStep(r) ==
  \/ TakeText(r) \/ TakeResult(r) \/ TakeEnd(r) \/ EndFailed(r)
  \/ RefuseCall(r) \/ ParkCall(r)

Sdk(s) ==
  \/ SdkText(s)
  \/ \E how \in {"success", "failure"} : SdkResult(s, how)
  \/ \E how \in {"over", "threw"} : SdkStops(s, how)

Next ==
  \/ \E r \in Requests : Request(r) \/ Start(r) \/ PumpStep(r)
  \/ \E r \in Requests, left \in {"closed", "leaked"} : StartFails(r, left)
  \/ \E s \in Sessions : Deadline(s) \/ ReceiveCall(s) \/ Returned(s) \/ Sdk(s)
  \/ \E c \in Calls : FrameExpires(c) \/ LoseFrame(c)
  \/ \E n \in {0, MaxPending} : OthersPark(n)

Spec == Init /\ [][Next]_vars

(* The event loop runs what can run, a channel gets to listen, timers      *)
(* fire, and an SDK query that was aborted stops.                          *)
Stops(s) == sess[s].aborted /\ \E how \in {"over", "threw"} : SdkStops(s, how)
FairSpec ==
  /\ Spec
  /\ \A r \in Requests : WF_vars(PumpStep(r)) /\ WF_vars(Start(r))
  /\ \A s \in Sessions : /\ WF_vars(Deadline(s)) /\ WF_vars(Returned(s))
                         /\ WF_vars(Stops(s))

-------------------------------------------------------------------------------
TypeOK ==
  /\ ChannelTypeOK
  /\ long \in BOOLEAN /\ others \in {0, MaxPending}
  /\ run \in [Requests -> [pc : {"idle", "listening", "race", "failed", "refused", "done"},
                           at : Sessions \cup {Nobody}]]
  /\ sess \in [Sessions -> Sess]
  /\ sessions \subseteq Calls /\ byRequest \subseteq Requests
  /\ ledger \in [Calls -> L!Statuses]
  /\ gone \subseteq Requests /\ revived \subseteq Sessions
  /\ \A r \in Requests : out[r].end \in {"none", "silent", "completed", "error", "tool_calls"}
  /\ \A s \in Sessions : Len(sdk[s].unread) <= MaxUnread + 1

(* A conversation's text reaches its clients in order, no item twice,      *)
(* although each is both streamed and given in full and several replies    *)
(* share the query, and none is missing once a reply is complete; and its  *)
(* usage is reported in one of them only.                                  *)
RepliesFaithful ==
  \A s \in Sessions :
    /\ heard[s] = [i \in 1..Len(heard[s]) |-> i]
    /\ \A r \in Requests :
         At(r) = s /\ out[r].end = "completed" => Len(heard[s]) = Items(s)
    /\ \A q, r \in Requests :
         At(q) = s /\ At(r) = s /\ out[q].usage > 0 /\ out[r].usage > 0
           => q = r /\ out[r].usage = 1

(* A live query that no request drives is parked, with a deadline ("a      *)
(* continuation that never arrives must not leak the live SDK query",      *)
(* parkToolCall), and can be continued or times out.                       *)
UndrivenIsGuarded ==
  \A s \in Sessions : sess[s].state = "open" /\ ~Driven(s) =>
    /\ sess[s].ttl /\ sess[s].gate
    /\ <<s, sess[s].public>> \in sessions \cap L!Pending

(* "it has arrived, so retire the previous deadline" (run): no deadline    *)
(* runs against a session that is being driven, as long as the deadline    *)
(* does not outlast the frame's.                                           *)
DeadlineRetired ==
  \A s \in Sessions : ~long /\ sess[s].ttl => ~Driven(s)

(* "its result answers the parked call": a result that was accepted from   *)
(* a client has reached the frame it was for, and nobody else answered it. *)
ResultsDelivered ==
  \A c \in Calls : ~long /\ c[1] \notin revived =>
    (ledger[c] = "resolved" <=> frames[c] = "result")

(* No frame of the bridge is left to itself: one that is not answered is   *)
(* parked, or a pump or closeSession will come to it.                      *)
FramesAccounted ==
  \A c \in Calls : frames[c] = "pending" =>
    LET s == c[1] IN
    \/ sess[s].state = "returning"
    \/ sess[s].state = "open" /\ ~Driven(s) /\ sess[s].parked = c[2]
    \/ sess[s].state = "open" /\ Driven(s) /\ promise[s] = c[2]

(* A request whose client hung up comes to an end, and its session with it.*)
HungUpEnds ==
  \A r \in Requests : r \in gone ~>
    /\ run[r].pc = "done"
    /\ At(r) \in Sessions => sess[At(r)].state \in {"closed", "leaked"}

(* "Terminate a live provider run and release every Router-side resource"  *)
(* (closeSession): once a session is closed and no deadline of it runs,    *)
(* nothing of it is left in the maps.                                      *)
ClosedLeavesNothing ==
  \A s \in Sessions : sess[s].state = "closed" /\ ~sess[s].ttl =>
    /\ sess[s].owner \notin byRequest
    /\ \A c \in sessions \cup L!Pending : c[1] # s

(* "thrown errors and structured SDK results must reach the same HTTP      *)
(* status" (toRouterError): no reply ends without a word to a client that  *)
(* is still there.                                                         *)
FailuresTold == \A r \in Requests : out[r].end = "silent" => r \in gone
===============================================================================
