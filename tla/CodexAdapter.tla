----------------------------- MODULE CodexAdapter -----------------------------
(***************************************************************************)
(* The Codex adapter: one app-server process, a thread per conversation,   *)
(* and for each HTTP request a pump that turns the thread's notifications  *)
(* into the reply, parks a tool call in the broker, and is entered again   *)
(* by the request that brings the call's result.                           *)
(* Source: src/src/providers/codex/adapter.ts, over app-server-client.ts.  *)
(*                                                                         *)
(* Event loop.  A data event handles all its lines before any promise      *)
(* callback runs; then the pumps run until each of them blocks; only then  *)
(* comes the next macrotask (a data event, a timer, an HTTP request, a     *)
(* socket's close, the process's exit).  A line is one action, Quiet says  *)
(* no pump can run, and `draining` that pumps have started to run, so that *)
(* no line belongs to the current data event any more.                     *)
(*                                                                         *)
(* The broker is its abstract specification, ToolCallLedger, which         *)
(* DeferredToolBroker is shown to implement.                               *)
(***************************************************************************)
EXTENDS CodexClient

CONSTANTS
  Openers,      \* the requests that may open a thread
  ToolSets,     \* what a request may declare: sets of tool names
  WireTools,    \* the tool names the app-server may ask for
  MaxTracked,   \* MAX_TRACKED_THREADS (64 in the code)
  MaxPending,   \* the broker's bound
  MaxItems,     \* bound on this model: text items of a thread
  MaxCalls,     \* bound on this model: tool calls of a thread
  MaxUsage,     \* bound on this model: usage reports of a thread
  MaxFaults,    \* bound on this model: hang-ups, exits, malformed lines and
                \* expired calls in one behaviour
  Nobody        \* no thread

ASSUME TrackedAssumption == MaxTracked \in Nat \ {0} /\ MaxPending \in Nat \ {0}
ASSUME BoundsAssumption ==
  {MaxItems, MaxCalls, MaxUsage, MaxFaults} \subseteq Nat
ASSUME OpenersAssumption == Openers \subseteq Requests /\ Nobody \notin Requests
ASSUME ToolsAssumption == \A names \in ToolSets : names \subseteq STRING

VARIABLES
  run,             \* request -> its generator, see Runs below
  activeTurns,     \* requests with a pump that cancel() would find
  parkedTurns,     \* ordered: requests whose reply surfaced a parked call
  threadToolAcl,   \* ordered: threads whose declared tools are remembered
  ledger,          \* the broker: call -> its status
  cancel,          \* request -> "no"; or its signal has aborted: "gone", and
                   \* while cancel() runs turn/interrupt is "asked", "answered"
  down,            \* the client is null: no app-server
  lost,            \* threads whose app-server has exited
  draining,        \* the pumps are running
  upstream,        \* external: what each thread has produced so far
  answers,         \* history: how often each wire call was answered
  out,             \* history: the text of each reply and how it ended
  evicted,         \* history: threads that lost a line to the full buffer
  later,           \* history: thread -> the threads with tools begun after it
  faults           \* bound on this model: counts towards MaxFaults

books  == <<activeTurns, parkedTurns, threadToolAcl>>
server == <<down, lost>>
vars   == <<clientVars, run, books, ledger, cancel, server, draining, upstream,
            answers, out, evicted, later, faults>>

Threads == Openers
Calls   == Threads \X (1..MaxCalls)
L == INSTANCE ToolCallLedger WITH status <- ledger

(* A pump's generator: where it is, the thread it serves, the tools its    *)
(* request declared and those it accepts, its two promises, which of them  *)
(* settled first, and streamedAgentItemIds.                                *)
None     == <<"none">>
Waiting  == <<"waiting">>
Failed   == <<"failed">>
Released == <<"released">>
Settled(promise) == promise \notin {None, Waiting}
Fresh == [pc |-> "idle", at |-> Nobody, tools |-> {}, acl |-> {}, note |-> None,
          tool |-> None, first |-> "none", seen |-> {}]

Pumping(r)  == run[r].pc \in {"loop", "race"}
At(r)       == run[r].at
Aborted(r)  == cancel[r] # "no"
Declared(t) == run[t].tools    \* by the request that opened the thread

Runnable(r) == \/ run[r].pc \in {"begin", "loop"} \/ run[r].first # "none"
               \/ cancel[r] = "answered"
Quiet    == \A r \in Requests : ~Runnable(r)
PumpsRun == draining' = (\E r \in Requests : Runnable(r)')
Fault    == faults < MaxFaults /\ faults' = faults + 1

(* What no request, no step of a pump, and no line of output changes.      *)
RequestFrame ==
  UNCHANGED <<clientVars, activeTurns, threadToolAcl, lost, upstream, evicted,
              later>>
BeginFrame ==
  /\ UNCHANGED <<protocolFailed, server, upstream, evicted, faults>>
  /\ PumpsRun
PumpFrame == BeginFrame /\ UNCHANGED later
LineFrame == UNCHANGED <<books, ledger, server, draining, later, faults>>

(* Map.set and Map.delete on an ordered map of keys, with its bound: the   *)
(* oldest key goes.  Mutant: it goes as soon as the map is full.           *)
EvictsEarly(s, x) ==
  LET m == Append(Without(s, {x}), x)
  IN  IF Len(m) >= MaxTracked THEN Tail(m) ELSE m
Remembered(s, x) ==
  LET m == Append(Without(s, {x}), x)
  IN  IF Len(m) > MaxTracked THEN Tail(m) ELSE m
Forgotten(s, x) == Without(s, {x})

(* releaseParkedForThread.                                                 *)
ParkedWithout(t) == Without(parkedTurns, {r \in Requests : At(r) = t})

Init ==
  /\ ClientInit
  /\ run = [r \in Requests |-> Fresh]
  /\ activeTurns = {} /\ parkedTurns = <<>> /\ threadToolAcl = <<>>
  /\ L!LedgerInit
  /\ cancel = [r \in Requests |-> "no"]
  /\ down = TRUE /\ lost = {} /\ draining = FALSE
  /\ upstream = [t \in Threads |->
       [on |-> FALSE, items |-> 0, said |-> {}, usage |-> 0, asked |-> 0]]
  /\ answers = [c \in Calls |-> 0]
  /\ out = [r \in Requests |-> [text |-> <<>>, end |-> "none"]]
  /\ evicted = {} /\ later = [t \in Threads |-> 0] /\ faults = 0

-------------------------------------------------------------------------------
(* HTTP requests.                                                          *)
Arrives(r) == Quiet /\ run[r].pc = "idle" /\ down' = FALSE  \* ensureStarted

(* A request without tool results: thread/start, inject and turn/start,    *)
(* whose answer it awaits.                                                 *)
Open(r, names) ==
  /\ r \in Openers /\ Arrives(r)
  /\ run' = [run EXCEPT ![r] = [Fresh EXCEPT
               !.pc = "starting", !.at = r, !.tools = names, !.acl = names]]
  /\ UNCHANGED <<parkedTurns, ledger, cancel, draining, answers, out, faults>>
  /\ RequestFrame

(* The broker hands out a parked call once.  Mutant: it is only looked up. *)
LookUp(c) == ledger[c] = "pending" /\ UNCHANGED ledger
Claim(c)  == L!SettleSome({c}, "resolved")

(* The tools a continuation accepts: the thread's declaration if it is     *)
(* still remembered, else the request's own.  Mutant: always the latter.   *)
RequestedTools(t, names) == names
AcceptedTools(t, names) ==
  IF Contains(threadToolAcl, t) THEN Declared(t) ELSE names

(* A request with the result of a parked call: the wire call is answered   *)
(* and the pump entered again on the same thread.                          *)
Continue(r, c, names) ==
  /\ Arrives(r)
  /\ Claim(c)
  /\ answers' = [answers EXCEPT ![c] = @ + 1]
  /\ parkedTurns' = ParkedWithout(c[1])
  /\ run' = [run EXCEPT ![r] = [Fresh EXCEPT
               !.pc = "begin", !.at = c[1], !.tools = names,
               !.acl = AcceptedTools(c[1], names)]]
  /\ UNCHANGED <<cancel, out, faults>> /\ RequestFrame /\ PumpsRun

(* Results that match no parked call: an error, never a fresh thread.      *)
ContinueUnmatched(r) ==
  /\ Arrives(r)
  /\ \E c \in Calls : ledger[c] \in L!Fates
  /\ run' = [run EXCEPT ![r] = [Fresh EXCEPT !.pc = "done"]]
  /\ out' = [out EXCEPT ![r].end = "error"]
  /\ UNCHANGED <<parkedTurns, ledger, cancel, draining, answers, faults>>
  /\ RequestFrame

(* The client hangs up before its reply is complete: the signal aborts and *)
(* cancel() sends turn/interrupt, if it finds the turn.                    *)
Disconnect(r) ==
  /\ Quiet /\ run[r].pc \in {"starting", "race"} /\ ~Aborted(r)
  /\ cancel' = [cancel EXCEPT ![r] =
       IF ~down /\ r \in activeTurns THEN "asked" ELSE "gone"]
  /\ Fault
  /\ UNCHANGED <<run, parkedTurns, ledger, down, draining, answers, out>>
  /\ RequestFrame

-------------------------------------------------------------------------------
(* The pump.                                                               *)

(* The end of a reply, with drainTurn's or run's finally: the turn is no   *)
(* longer active and discardScope empties the thread's scope.  (On a lost  *)
(* thread it reaches another client; what stays behind there is inert.)    *)
Finish(r, end) ==
  /\ run' = [run EXCEPT ![r] = [Fresh EXCEPT
               !.pc = "done", !.at = At(r), !.tools = run[r].tools]]
  /\ out' = [out EXCEPT ![r].end = IF Aborted(r) THEN "silent" ELSE end]
  /\ activeTurns' = activeTurns \ {r}
  /\ queue' = QueueWithout(At(r))
  /\ waiters' = WaitersWithout(At(r))

(* turn/start was answered: the turn becomes cancellable and the opener's  *)
(* declaration is remembered; the tool waiter is armed before the loop.    *)
Begin(r) ==
  LET tracksTools == run[r].acl # {}
      declares == At(r) = r /\ tracksTools
  IN
  /\ run[r].pc = "begin"
  /\ activeTurns' = activeTurns \cup {r}
  /\ threadToolAcl' = IF declares THEN Remembered(threadToolAcl, r)
                      ELSE threadToolAcl
  /\ later' = IF declares
              THEN [t \in Threads |-> IF t = r THEN 0 ELSE later[t] + 1]
              ELSE later
  /\ waiters' = IF tracksTools THEN Append(waiters, Waiter("tool", r, At(r)))
                ELSE waiters
  /\ run' = [run EXCEPT ![r].pc = "loop",
                        ![r].tool = IF tracksTools THEN Waiting ELSE None]
  /\ UNCHANGED <<queue, parkedTurns, ledger, cancel, answers, out>> /\ BeginFrame

(* The loop's condition.                                                   *)
Stop(r) ==
  /\ run[r].pc = "loop" /\ Aborted(r)
  /\ Finish(r, "silent")
  /\ UNCHANGED <<parkedTurns, threadToolAcl, ledger, cancel, answers>>
  /\ PumpFrame

(* waitForAnyNotification, and the race with the tool call's promise: one  *)
(* that had settled before wins over the line just taken from the buffer.  *)
Await(r) ==
  LET t == At(r)
      broken == protocolFailed /\ t \notin lost
      i == IF broken \/ t \in lost THEN 0 ELSE NextBuffered(t)
      note == IF broken THEN Failed ELSE IF i # 0 THEN queue[i] ELSE Waiting
      first == IF Settled(run[r].tool) THEN "tool"
               ELSE IF Settled(note) THEN "note" ELSE "none"
  IN
  /\ run[r].pc = "loop" /\ ~Aborted(r)
  /\ run' = [run EXCEPT ![r].pc = "race", ![r].note = note, ![r].first = first]
  /\ queue' = IF i = 0 THEN queue ELSE RemoveAt(queue, i)
  /\ waiters' = IF note = Waiting THEN Append(waiters, Waiter("note", r, t))
                ELSE waiters
  /\ UNCHANGED <<books, ledger, cancel, answers, out>> /\ PumpFrame

(* The notification waiter that is left behind when the tool waiter times  *)
(* out stays in the client's list.  (Nothing can reach one that belongs to *)
(* a lost client, so it is not kept.)                                      *)
Abandoned(r) ==
  IF At(r) \in lost
  THEN Without(waiters, {w \in Range(waiters) : w.by = r /\ w.kind = "note"})
  ELSE [i \in DOMAIN waiters |->
          IF waiters[i].by = r /\ waiters[i].kind = "note"
          THEN [waiters[i] EXCEPT !.live = FALSE] ELSE waiters[i]]

(* Re-arming needs a client that is still there.  Mutant: the promise is   *)
(* cleared and no waiter armed.                                            *)
MayRearm(r) == ~Aborted(r) /\ At(r) \notin lost
GoOnWith(r, promise) ==
  run' = [run EXCEPT ![r].pc = "loop", ![r].note = None, ![r].first = "none",
                     ![r].tool = promise]
Disarm(r) == waiters' = Abandoned(r) /\ GoOnWith(r, None)
Rearm(r) ==
  \/ /\ MayRearm(r)
     /\ waiters' = Append(Abandoned(r), Waiter("tool", r, At(r)))
     /\ GoOnWith(r, Waiting)
  \/ /\ ~MayRearm(r)
     /\ waiters' = Abandoned(r)
     /\ GoOnWith(r, Released)

(* The tool waiter went without a call.                                    *)
ToolReleased(r) ==
  /\ run[r].first = "tool" /\ run[r].tool = Released
  /\ Rearm(r)
  /\ UNCHANGED <<queue, books, ledger, cancel, answers, out>> /\ PumpFrame

(* The notification's promise was rejected: timeout, malformed frame, or a *)
(* released scope.                                                         *)
NoteFailed(r) ==
  /\ run[r].first = "note" /\ run[r].note = Failed
  /\ Finish(r, "error")
  /\ UNCHANGED <<parkedTurns, threadToolAcl, ledger, cancel, answers>>
  /\ PumpFrame

(* Whether a line's text goes to the client: a delta always, an item's     *)
(* full text only if none of it was streamed.  Mutant: always.             *)
AlwaysText(r, n) == n[1] \in {"delta", "item"}
HasText(r, n) == n[1] = "delta" \/ (n[1] = "item" /\ n[3] \notin run[r].seen)

(* Text and usage.  An event for a client that has gone ends the reply.    *)
TakeText(r) ==
  LET n == run[r].note IN
  /\ run[r].first = "note" /\ n[1] \in {"delta", "item", "usage"}
  /\ IF Aborted(r) /\ (HasText(r, n) \/ n[1] = "usage")
     THEN Finish(r, "silent")
     ELSE /\ run' = [run EXCEPT ![r].pc = "loop", ![r].note = None,
                       ![r].first = "none",
                       ![r].seen = IF HasText(r, n) THEN @ \cup {n[3]} ELSE @]
          /\ out' = IF HasText(r, n)
                    THEN [out EXCEPT ![r].text = Append(@, <<n[2], n[3]>>)]
                    ELSE out
          /\ UNCHANGED <<queue, waiters, activeTurns>>
  /\ UNCHANGED <<parkedTurns, threadToolAcl, ledger, cancel, answers>>
  /\ PumpFrame

(* turn/completed: nothing lingers for a finished thread.                  *)
TakeTurnEnd(r) ==
  /\ run[r].first = "note" /\ run[r].note[1] = "done"
  /\ threadToolAcl' = Forgotten(threadToolAcl, At(r))
  /\ parkedTurns' = ParkedWithout(At(r))
  /\ \E status \in {"completed", "error"} : Finish(r, status)
  /\ UNCHANGED <<ledger, cancel, answers>> /\ PumpFrame

(* handleExternalToolCall: a malformed call, or one outside the accepted   *)
(* tools, is answered on the wire and fails the run.                       *)
TakesCall(r) == run[r].first = "tool" /\ run[r].tool[1] = "call"
Accepted(r)  == run[r].tool[4] \in run[r].acl
Asked(r)     == <<run[r].tool[2], run[r].tool[3]>>

RefuseCall(r) ==
  /\ TakesCall(r) /\ ~Accepted(r)
  /\ answers' = [answers EXCEPT ![Asked(r)] = @ + 1]
  /\ Finish(r, "error")
  /\ UNCHANGED <<parkedTurns, threadToolAcl, ledger, cancel>> /\ PumpFrame

(* createPendingCall throws at the broker's bound: the run fails, and the  *)
(* wire call is left unanswered.                                           *)
CallOverflows(r) ==
  /\ TakesCall(r) /\ Accepted(r) /\ Cardinality(L!Pending) >= MaxPending
  /\ Finish(r, "error")
  /\ UNCHANGED <<parkedTurns, threadToolAcl, ledger, cancel, answers>>
  /\ PumpFrame

(* Parking ends the pump.  Mutant: it arms its tool waiter again, goes on. *)
KeepPumping(r) == Rearm(r) /\ UNCHANGED <<out, activeTurns, queue>>
EndParked(r) == Finish(r, "tool_calls")

(* A call whose client has gone is cancelled at birth.  Mutant: it is not. *)
ParkAnyway(r) == L!Park(Asked(r))
ParkFor(r) ==
  IF Aborted(r) THEN L!ParkCancelled(Asked(r)) ELSE L!Park(Asked(r))

ParkCall(r) ==
  /\ TakesCall(r) /\ Accepted(r) /\ Cardinality(L!Pending) < MaxPending
  /\ ParkFor(r)
  /\ parkedTurns' = Remembered(parkedTurns, r)
  /\ EndParked(r)
  /\ UNCHANGED <<threadToolAcl, cancel, answers>> /\ PumpFrame

-------------------------------------------------------------------------------
(* What becomes of a pump whose notification or tool waiter is rejected.   *)
Rejected(q, notes, tools) ==
  LET note == IF notes /\ run[q].note = Waiting THEN Failed ELSE run[q].note
      tool == IF tools /\ run[q].tool = Waiting THEN Released ELSE run[q].tool
  IN  [run[q] EXCEPT !.note = note, !.tool = tool,
        !.first = IF run[q].pc # "race" \/ @ # "none" THEN @
                  ELSE IF Settled(note) THEN "note"
                  ELSE IF Settled(tool) THEN "tool" ELSE "none"]

(* cancel(), after its turn/interrupt was answered: the finally block.     *)
CancelCleanup(r) ==
  LET t == At(r) IN
  /\ cancel[r] = "answered"
  /\ cancel' = [cancel EXCEPT ![r] = "gone"]
  /\ activeTurns' = activeTurns \ {r}
  /\ parkedTurns' = Forgotten(parkedTurns, r)
  /\ threadToolAcl' = Forgotten(threadToolAcl, t)
  /\ L!SettleSome({c \in L!Pending : c[1] = t}, "cancelled")
  /\ IF t \in lost THEN UNCHANGED <<queue, waiters, run>>
     ELSE /\ queue' = QueueWithout(t)
          /\ waiters' = WaitersWithout(t)
          /\ run' = [q \in Requests |->
               IF Pumping(q) /\ At(q) = t THEN Rejected(q, TRUE, TRUE)
               ELSE run[q]]
  /\ UNCHANGED <<answers, out>> /\ PumpFrame

(* Timers: of the waiters, all armed for NOTIFICATION_TIMEOUT_MS, and of   *)
(* the broker's calls.  Mutant: the timer does not reject the promise.     *)
WithoutFailing(w) == run
WithTimeout(w) ==
  [run EXCEPT ![w.by] = Rejected(w.by, w.kind = "note", w.kind = "tool")]

WaiterExpires ==
  /\ Quiet /\ waiters # <<>>
  /\ waiters' = Tail(waiters)
  /\ run' = IF Head(waiters).live THEN WithTimeout(Head(waiters)) ELSE run
  /\ UNCHANGED <<queue, books, ledger, cancel, answers, out>> /\ PumpFrame

CallExpires(c) ==
  /\ Quiet /\ ledger[c] = "pending" /\ L!SettleSome({c}, "expired")
  /\ Fault
  /\ UNCHANGED <<clientVars, run, books, cancel, server, draining, upstream,
                 answers, out, evicted, later>>

-------------------------------------------------------------------------------
(* The app-server's output, a line at a time.  What it may say is external *)
(* and modelled from what the adapter expects: a thread's text comes in    *)
(* items, each streamed (a delta) or only given in full when it is over; a *)
(* thread that waits for a tool's result says nothing but may ask for      *)
(* another tool; and any thread may fall silent at any time.               *)
Line == ~draining /\ ~down

Unanswered(t) == \E n \in 1..upstream[t].asked : answers[<<t, n>>] = 0
Speaks(t)     == Line /\ upstream[t].on /\ t \notin lost
Starting(r)   == run[r].pc = "starting" /\ r \notin lost

(* turn/start is answered, or refused.                                     *)
ReceiveStarted(r) ==
  /\ Line /\ Starting(r)
  /\ run' = [run EXCEPT ![r].pc = "begin"]
  /\ upstream' = [upstream EXCEPT ![r].on = TRUE]
  /\ UNCHANGED <<clientVars, cancel, answers, out, evicted>> /\ LineFrame

FailedStart(r) ==
  [out[r] EXCEPT !.end = IF Aborted(r) THEN "silent" ELSE "error"]
ReceiveRefusal(r) ==
  /\ Line /\ Starting(r)
  /\ run' = [run EXCEPT ![r].pc = "done"]
  /\ out' = [out EXCEPT ![r] = FailedStart(r)]
  /\ UNCHANGED <<clientVars, cancel, upstream, answers, evicted>> /\ LineFrame

(* handleMessage for a notification n: the first matching waiter gets it,  *)
(* else it is buffered, or dropped if it is not of a supported kind.       *)
Notify(n) ==
  LET i == Match("note", n[2])
      w == waiters[i]
      keep == i = 0 /\ n[1] \in Supported
  IN
  /\ waiters' = IF i = 0 THEN waiters ELSE RemoveAt(waiters, i)
  /\ queue' = IF i # 0 /\ n[1] = "done" THEN QueueWithout(n[2])
              ELSE IF keep THEN Buffered(n) ELSE queue
  /\ evicted' = IF keep THEN evicted \cup PushedOut(n) ELSE evicted
  /\ run' = IF i # 0 /\ w.live
            THEN [run EXCEPT ![w.by].note = n,
                             ![w.by].first = IF @ = "none" THEN "note" ELSE @]
            ELSE run
  /\ UNCHANGED <<protocolFailed, cancel, answers, out>> /\ LineFrame

(* The next item's text, in part or in full.                               *)
ReceiveText(t) ==
  LET item == upstream[t].items + 1 IN
  /\ Speaks(t) /\ ~Unanswered(t) /\ item <= MaxItems
  /\ \/ /\ item \notin upstream[t].said
        /\ upstream' = [upstream EXCEPT ![t].said = @ \cup {item}]
        /\ Notify(<<"delta", t, item>>)
     \/ /\ upstream' = [upstream EXCEPT ![t].items = item]
        /\ Notify(<<"item", t, item>>)

ReceiveUsage(t) ==
  /\ Speaks(t) /\ upstream[t].usage < MaxUsage
  /\ upstream' = [upstream EXCEPT ![t].usage = @ + 1]
  /\ Notify(<<"usage", t, 0>>)

ReceiveTurnEnd(t) ==
  /\ Speaks(t) /\ ~Unanswered(t)
  /\ upstream' = [upstream EXCEPT ![t].on = FALSE]
  /\ Notify(<<"done", t, 0>>)

(* handleServerRequest for item/tool/call: to the thread's tool waiter, or *)
(* declined if it has none.                                                *)
ReceiveToolCall(t, name) ==
  LET n == upstream[t].asked + 1
      i == Match("tool", t)
      w == waiters[i]
  IN
  /\ Speaks(t) /\ n <= MaxCalls
  /\ upstream' = [upstream EXCEPT ![t].asked = n]
  /\ IF i = 0
     THEN /\ answers' = [answers EXCEPT ![<<t, n>>] = @ + 1]
          /\ UNCHANGED <<waiters, run>>
     ELSE /\ waiters' = RemoveAt(waiters, i)
          /\ run' = [run EXCEPT ![w.by].tool = <<"call", t, n, name>>,
               ![w.by].first =
                 IF @ = "none" /\ run[w.by].pc = "race" THEN "tool" ELSE @]
          /\ UNCHANGED answers
  /\ UNCHANGED <<queue, protocolFailed, cancel, out, evicted>> /\ LineFrame

(* A line that is not JSON: every pending request and every notification   *)
(* waiter is rejected, and no later wait succeeds on this client.          *)
ReceiveGarbage ==
  /\ Line /\ ~protocolFailed /\ Fault
  /\ protocolFailed' = TRUE
  /\ waiters' = Without(waiters, {w \in Range(waiters) :
                                  w.kind = "note" /\ w.on \notin lost})
  /\ queue' = IF waiters' = waiters THEN queue ELSE <<>>
  /\ run' = [q \in Requests |->
       IF Starting(q) THEN [run[q] EXCEPT !.pc = "done"]
       ELSE IF Pumping(q) /\ At(q) \notin lost THEN Rejected(q, TRUE, FALSE)
       ELSE run[q]]
  /\ out' = [q \in Requests |-> IF Starting(q) THEN FailedStart(q) ELSE out[q]]
  /\ cancel' = [q \in Requests |->
       IF cancel[q] = "asked" THEN "answered" ELSE cancel[q]]
  /\ UNCHANGED <<books, ledger, server, draining, upstream, answers, evicted,
                 later>>

(* turn/interrupt is answered; an interrupted thread says no more.         *)
ReceiveInterrupted(r) ==
  /\ Line /\ cancel[r] = "asked"
  /\ cancel' = [cancel EXCEPT ![r] = "answered"]
  /\ upstream' = [upstream EXCEPT ![At(r)].on = FALSE]
  /\ UNCHANGED <<clientVars, run, answers, out, evicted>> /\ LineFrame

(* The app-server exits: the client is dropped with its buffer, the calls  *)
(* parked for this provider are cancelled, and the promises of the old     *)
(* client's requests are left pending for ever.                            *)
Exit ==
  /\ Quiet /\ ~down /\ Fault
  /\ down' = TRUE
  /\ lost' = lost \cup {t \in Threads : At(t) = t}
  /\ L!SettleSome(L!Pending, "cancelled")
  /\ queue' = <<>>
  /\ waiters' = Without(waiters, {w \in Range(waiters) : ~w.live})
  /\ protocolFailed' = FALSE
  /\ cancel' = [q \in Requests |->
       IF cancel[q] = "asked" THEN "gone" ELSE cancel[q]]
  /\ UNCHANGED <<run, books, draining, upstream, answers, out, evicted, later>>

-------------------------------------------------------------------------------
PumpStep(r) ==
  \/ Begin(r) \/ Stop(r) \/ Await(r) \/ ToolReleased(r) \/ NoteFailed(r)
  \/ TakeText(r) \/ TakeTurnEnd(r) \/ RefuseCall(r) \/ CallOverflows(r)
  \/ ParkCall(r) \/ CancelCleanup(r)

Request(r) ==
  \/ \E names \in ToolSets : Open(r, names)
  \/ \E c \in Calls, names \in ToolSets : Continue(r, c, names)
  \/ ContinueUnmatched(r)
  \/ Disconnect(r)

Output(t) ==
  \/ ReceiveStarted(t) \/ ReceiveRefusal(t) \/ ReceiveText(t) \/ ReceiveUsage(t)
  \/ ReceiveTurnEnd(t)
  \/ \E name \in WireTools : ReceiveToolCall(t, name)

Prompt ==
  \/ \E r \in Requests : Request(r) \/ PumpStep(r) \/ ReceiveInterrupted(r)
  \/ \E t \in Threads : Output(t)
  \/ \E c \in Calls : CallExpires(c)

Steady == Prompt \/ WaiterExpires

Next == Steady \/ ReceiveGarbage \/ Exit

Spec == Init /\ [][Next]_vars

(* The event loop runs what can run, and timers fire; nothing is assumed   *)
(* of the app-server or of the clients.                                    *)
Fairness == WF_vars(\E r \in Requests : PumpStep(r)) /\ WF_vars(WaiterExpires)
FairSpec == Spec /\ Fairness

(* With an app-server that never exits and writes only well-formed lines.  *)
SteadySpec == Init /\ [][Steady]_vars /\ Fairness

(* And one that never lets a wait time out.                                *)
PromptSpec == Init /\ [][Prompt]_vars

-------------------------------------------------------------------------------
Kinds == {"delta", "item", "usage", "done"}
Notifications == Kinds \X Threads \X (0..MaxItems)
NotePromises == {None, Waiting, Failed} \cup Notifications
ToolPromises ==
  {None, Waiting, Released} \cup
  ({"call"} \X Threads \X (1..MaxCalls) \X WireTools)
Runs == [pc : {"idle", "starting", "begin", "loop", "race", "done"},
         at : Threads \cup {Nobody}, tools : ToolSets \cup {{}},
         acl : ToolSets \cup {{}}, note : NotePromises, tool : ToolPromises,
         first : {"none", "note", "tool"}, seen : SUBSET (1..MaxItems)]

(* The shape of the state, with the bounds the code puts on its maps and   *)
(* on the buffer: MAX_TRACKED_THREADS and SCOPED_BUFFER_LIMIT.             *)
TypeOK ==
  /\ run \in [Requests -> Runs]
  /\ activeTurns \subseteq Requests /\ lost \subseteq Threads
  /\ cancel \in [Requests -> {"no", "gone", "asked", "answered"}]
  /\ \A m \in {parkedTurns, threadToolAcl} :
       /\ m \in Seq(Requests) /\ Len(m) <= MaxTracked
       /\ \A i, j \in DOMAIN m : m[i] = m[j] => i = j
  /\ queue \in Seq(Notifications) /\ Len(queue) <= QueueLimit
  /\ waiters \in Seq([kind : {"note", "tool"}, by : Requests, on : Threads,
                      live : BOOLEAN])
  /\ ledger \in [Calls -> L!Statuses] /\ answers \in [Calls -> Nat]
  /\ {down, draining, protocolFailed} \subseteq BOOLEAN

(* "Parking ends the pump, so at most one tool call per thread can ever be *)
(* parked at a time" (pumpTurn): the second of two calls in one data event *)
(* must not be parked as well.                                             *)
OneParkedPerThread ==
  \A c, d \in L!Pending : c[1] = d[1] => c = d

(* Two pumps never serve one thread: discardScope, which knows only the    *)
(* thread, would release the other's waiters.                              *)
OnePumpPerThread ==
  \A q, r \in Requests :
    Pumping(q) /\ Pumping(r) /\ At(q) = At(r) => q = r

(* No item/tool/call is answered twice on the wire, by a duplicate result, *)
(* a refusal, or the client's own decline; and none that is parked has     *)
(* been answered.                                                          *)
AnsweredOnce ==
  \A c \in Calls :
    answers[c] <= (IF ledger[c] \in {"unborn", "resolved"} THEN 1 ELSE 0)

(* "Scoped waiters never consume another thread/turn's events"             *)
(* (handleMessage): a reply holds its own thread's text only, in order,    *)
(* and no item twice although an item is both streamed and given in full.  *)
TextFaithful ==
  \A r \in Requests : LET text == out[r].text IN
    /\ \A i \in DOMAIN text : text[i][1] = At(r)
    /\ \A i, j \in DOMAIN text : i < j => text[i][2] < text[j][2]

(* A tool-free reply that ends with its turn's end holds every delta the   *)
(* app-server sent, however lines and pumps interleave, unless the buffer  *)
(* overflowed: the end is not read before the text that came before it.    *)
PlainReplies ==
  {r \in Openers : At(r) = r /\ Declared(r) = {} /\ out[r].end = "completed"}
PlainReplyComplete ==
  \A r \in PlainReplies \ evicted : \A item \in upstream[r].said :
    \E i \in DOMAIN out[r].text : out[r].text[i] = <<r, item>>

(* "a released or expired tool waiter is immediately re-armed rather than  *)
(* leaving a gap in which the app-server would auto-decline the call"      *)
(* (pumpTurn): whenever a pump blocks, it has a notification waiter, and a *)
(* tool waiter if its thread declared tools.                               *)
Listens(r, kind) ==
  \E i \in DOMAIN waiters : waiters[i] = Waiter(kind, r, At(r))
BlockedPumpsListen ==
  Quiet => \A r \in Requests : run[r].pc = "race" =>
    /\ Listens(r, "note")
    /\ run[r].acl # {} /\ ~Aborted(r) /\ At(r) \notin lost
         => Listens(r, "tool")

(* "A continuation on the SAME thread reuses the ORIGINAL declaration"     *)
(* (threadToolAcl): it accepts exactly the tools its opener declared,      *)
(* whatever it declares itself and whatever threads come and go meanwhile, *)
(* unless MAX_TRACKED_THREADS threads with tools began after its own.      *)
DeclarationHolds ==
  \A r \in Requests : Pumping(r) =>
    run[r].acl = Declared(At(r)) \/ later[At(r)] >= MaxTracked

(* Once a reply whose client hung up has ended, and cancel() with it,      *)
(* nothing of it is left: no active turn, no parked call of its thread     *)
(* that would wait out its deadline, no waiter.                            *)
CancelLeavesNothing ==
  \A r \in Requests : run[r].pc = "done" /\ cancel[r] = "gone" =>
      /\ r \notin activeTurns
      /\ \A c \in L!Pending : c[1] # At(r)
      /\ \A i \in DOMAIN waiters : waiters[i].on # At(r)

(* "a stalled provider always produces provider_timeout on deadline expiry *)
(* instead of hanging the turn" (NOTIFICATION_TIMEOUT_MS): for a thread    *)
(* that declared no tools, a pump ends whatever the app-server does.       *)
PlainTurnsEnd ==
  \A r \in Requests : (Pumping(r) /\ run[r].acl = {}) ~> ~Pumping(r)

(* "a notification racing waiter registration is not lost"                 *)
(* (notificationQueue): when a thread is parked, the replies hold all the  *)
(* text it streamed before it asked for the tool.                          *)
TextNotLost ==
  \A c \in L!Pending : \A item \in upstream[c[1]].said :
    \E r \in Requests : \E i \in DOMAIN out[r].text :
      out[r].text[i] = <<c[1], item>>

(* "a follow-up request can never widen the set of callable dynamic tools" *)
(* (threadToolAcl).                                                        *)
NeverWidened ==
  \A r \in Requests : Pumping(r) => run[r].acl \subseteq Declared(At(r))

(* "The pump never waits indefinitely, so a stalled provider always        *)
(* produces provider_timeout" (NOTIFICATION_TIMEOUT_MS), for any thread.   *)
StalledTurnsEnd == \A r \in Requests : Pumping(r) ~> ~Pumping(r)

(* "Never re-arm against a replaced/torn-down client: [...] re-arming      *)
(* would only spin" (pumpTurn): a pump whose app-server has exited ends.   *)
CrashedTurnsEnd ==
  \A r \in Requests : (Pumping(r) /\ At(r) \in lost) ~> ~Pumping(r)
===============================================================================
