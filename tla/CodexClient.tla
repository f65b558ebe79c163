------------------------------ MODULE CodexClient ------------------------------
(***************************************************************************)
(* The JSON-RPC client between the Codex adapter and the codex app-server: *)
(* who waits for which line of the app-server's output, and what happens   *)
(* to a line nobody waits for.                                             *)
(* Source: src/src/providers/codex/app-server-client.ts.                   *)
(*                                                                         *)
(* A turn belongs to a thread and a thread has one turn, so a scope        *)
(* (threadId, turnId) is a thread; a thread is named after the request     *)
(* that opens it.  A notification is <<kind, thread, item>>: text of an    *)
(* item ("delta"), an item's full text ("item"), token usage ("usage") or  *)
(* the turn's end ("done").                                                *)
(***************************************************************************)
EXTENDS Naturals, SequencesExt

CONSTANTS
  Requests,    \* the requests, and the threads they open
  QueueLimit   \* SCOPED_BUFFER_LIMIT (64 in the code)

ASSUME QueueLimitAssumption == QueueLimit \in Nat \ {0}

VARIABLES
  queue,           \* notificationQueue: lines that came before their waiter
  waiters,         \* notification and tool-call waiters, as they were armed
  protocolFailed   \* protocolError is set, and stays so

clientVars == <<queue, waiters, protocolFailed>>

(* The entries of s that are not in S, in their order.                     *)
Without(s, S) ==
  LET left[i \in 0..Len(s)] ==
        IF i = 0 THEN <<>>
        ELSE IF s[i] \in S THEN left[i - 1] ELSE Append(left[i - 1], s[i])
  IN  left[Len(s)]

(* In the order in which waitForAnyNotification probes the buffer.         *)
Awaited == <<"delta", "item", "usage", "done">>

(* SUPPORTED_NOTIFICATION_METHODS: what is buffered when nobody waits.     *)
Supported == {"delta", "usage", "done"}

(* A waiter is `live` while the pump that armed it still awaits its        *)
(* promise.  Every waiter is armed with the same timeout, so the two lists *)
(* of the class are one sequence here, in arming order: the first match is *)
(* the one found, and the head is the one whose timer fires first.         *)
Waiter(kind, r, t) == [kind |-> kind, by |-> r, on |-> t, live |-> TRUE]

(* The index of the first waiter for a line of thread t, or 0.  Mutant:    *)
(* for a line of any thread.                                               *)
MatchAnyThread(kind, t) == SelectInSeq(waiters, LAMBDA w : w.kind = kind)
Match(kind, t) ==
  SelectInSeq(waiters, LAMBDA w : w.kind = kind /\ w.on = t)

(* bufferSupported: the oldest line makes room, whatever its thread.       *)
Buffered(line) ==
  LET q == Append(queue, line) IN IF Len(q) > QueueLimit THEN Tail(q) ELSE q
PushedOut(line) ==
  IF Len(queue) = QueueLimit THEN {Head(Append(queue, line))[2]} ELSE {}

(* Where the buffer holds the line a pump of thread t reads next, or 0:    *)
(* by method first and by arrival only within a method.  Mutant: with the  *)
(* methods in the opposite order.                                          *)
BufferedAt(kind, t) ==
  SelectInSeq(queue, LAMBDA n : n[1] = kind /\ n[2] = t)
ArrivesLast(t) ==
  LET k == SelectInSeq(Reverse(Awaited), LAMBDA kind : BufferedAt(kind, t) # 0)
  IN  IF k = 0 THEN 0 ELSE BufferedAt(Reverse(Awaited)[k], t)
NextBuffered(t) ==
  LET k == SelectInSeq(Awaited, LAMBDA kind : BufferedAt(kind, t) # 0)
  IN  IF k = 0 THEN 0 ELSE BufferedAt(Awaited[k], t)

(* discardScope and purgeScope.                                            *)
QueueWithout(t)   == Without(queue, {n \in Range(queue) : n[2] = t})
WaitersWithout(t) == Without(waiters, {w \in Range(waiters) : w.on = t})

ClientInit ==
  /\ queue = <<>>
  /\ waiters = <<>>
  /\ protocolFailed = FALSE
===============================================================================
