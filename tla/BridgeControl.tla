----------------------------- MODULE BridgeControl -----------------------------
(***************************************************************************)
(* The control channel over which an MCP bridge process parks a tool call  *)
(* with the Router, and the hand-off queue behind it.                      *)
(* Source: src/src/bridge/control-ipc.ts and core/bounded-queue.ts.        *)
(*                                                                         *)
(* The n-th frame of session s is the call <<s, n>>.  BridgeControlClient  *)
(* opens a connection for every request, so a frame is a connection, and a *)
(* data event of its own; its id is fresh.                                 *)
(***************************************************************************)
EXTENDS Naturals, FiniteSets, SequencesExt

CONSTANTS
  Sessions,    \* the sessions with a channel
  MaxCalls,    \* bound on this model: frames of a session
  MaxFrames,   \* BRIDGE_CONTROL_MAX_PENDING (16 in the code)
  QueueSize    \* MAX_PENDING_TOOL_CALLS_PER_MCP_SESSION (1 in the code)

ASSUME FramesAssumption ==
  MaxCalls \in Nat /\ MaxFrames \in Nat \ {0} /\ QueueSize \in Nat \ {0}

VARIABLES
  frames,    \* call -> "unsent", "pending", or how its frame ended
  promise,   \* session -> toolCallPromise: none, waiting, or the frame handed
  items      \* session -> frames in the queue

channelVars == <<frames, promise, items>>

Calls      == Sessions \X (1..MaxCalls)
NoPromise  == 0
Waiting    == MaxCalls + 1
Handed(s)  == promise[s] \in 1..MaxCalls
Pending(s) == {n \in 1..MaxCalls : frames[<<s, n>>] = "pending"}
Unsent(s)  == {n \in 1..MaxCalls : frames[<<s, n>>] = "unsent"}

(* How a pending frame ends: with the client's "result", an "error", its   *)
(* connection "dropped" by close or "lost" to the other end.               *)
Answers == {"result", "error"}
FrameStatuses == {"unsent", "pending", "dropped", "lost"} \cup Answers

ChannelInit ==
  /\ frames = [c \in Calls |-> "unsent"]
  /\ promise = [s \in Sessions |-> NoPromise]
  /\ items = [s \in Sessions |-> <<>>]

(* resolve and reject, which do nothing to a frame that is not pending.    *)
Answered(c, how) ==
  [frames EXCEPT ![c] = IF @ = "pending" THEN how ELSE @]

(* close.                                                                  *)
Dropped(s) ==
  [c \in Calls |->
     IF c[1] = s /\ frames[c] = "pending" THEN "dropped" ELSE frames[c]]

(* tryPush: to the waiter, else into the queue, else refused.              *)
Accepts(s) == promise[s] = Waiting \/ Len(items[s]) < QueueSize
Push(s, n) ==
  IF promise[s] = Waiting
  THEN promise' = [promise EXCEPT ![s] = n] /\ UNCHANGED items
  ELSE items' = [items EXCEPT ![s] = Append(@, n)] /\ UNCHANGED promise

(* toolCallPromise ??= toolCalls.next().                                   *)
Ask(s) ==
  IF promise[s] # NoPromise THEN UNCHANGED <<promise, items>>
  ELSE IF items[s] = <<>>
  THEN promise' = [promise EXCEPT ![s] = Waiting] /\ UNCHANGED items
  ELSE /\ promise' = [promise EXCEPT ![s] = Head(items[s])]
       /\ items' = [items EXCEPT ![s] = Tail(@)]

(* A frame arrives: refused at the bound or by a closed gate or a full     *)
(* queue, else pending.                                                    *)
ReceiveFrame(s, gate) ==
  LET n == CHOOSE k \in Unsent(s) : \A j \in Unsent(s) : k <= j
      taken == Cardinality(Pending(s)) < MaxFrames /\ ~gate /\ Accepts(s)
  IN
  /\ Unsent(s) # {}
  /\ frames' = [frames EXCEPT ![<<s, n>>] = IF taken THEN "pending" ELSE "error"]
  /\ IF taken THEN Push(s, n) ELSE UNCHANGED <<promise, items>>

ChannelTypeOK ==
  /\ frames \in [Calls -> FrameStatuses]
  /\ promise \in [Sessions -> NoPromise..Waiting]
  /\ items \in [Sessions -> Seq(1..MaxCalls)]
  /\ \A s \in Sessions : Len(items[s]) <= QueueSize
===============================================================================
