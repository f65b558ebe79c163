------------------------ MODULE AntigravityAdapterProofs ------------------------
(***************************************************************************)
(* Proofs about the Antigravity adapter: for any number of conversations,  *)
(* requests, calls and texts, and any bounds.                              *)
(***************************************************************************)
EXTENDS AntigravityAdapter, FiniteSetTheorems, FunctionTheorems, SequenceTheorems,
        WellFoundedInduction, TLAPS

-------------------------------------------------------------------------------
(* The inductive invariant.                                                *)

(* Shapes.                                                                 *)
Kinds  == {"text", "completed", "protocol", "usage"}
SessRecs  == [state : {"none", "starting", "open", "closed"},
              tools : BOOLEAN, aborted : BOOLEAN, gate : BOOLEAN,
              parked : 0..MaxCalls, public : 0..MaxCalls, owner : Requests,
              deadlines : Nat, terminal : BOOLEAN, broken : BOOLEAN, used : BOOLEAN]
QueueRecs == [events : Seq(Kinds \X Nat), closed : BOOLEAN, over : BOOLEAN]
ChildRecs == [pc : {"none", "live", "stopping", "settled"}, end : Ends, late : BOOLEAN,
              cut : BOOLEAN, saw : BOOLEAN, said : Nat, concluded : BOOLEAN]
RunRecs   == [pc : {"idle", "listening", "race", "failed", "done"},
              at : Sessions \cup {Nobody}]
OutRecs   == [end : {"none", "silent", "error", "completed", "tool_calls"},
              call : Nat, usage : Nat]

Shapes ==
  /\ frames \in [Calls -> FrameStatuses] /\ promise \in [Sessions -> 0..(MaxCalls + 1)]
  /\ items \in [Sessions -> Seq(1..MaxCalls)] /\ \A s \in Sessions : Len(items[s]) <= QueueSize
  /\ sess \in [Sessions -> SessRecs] /\ queue \in [Sessions -> QueueRecs]
  /\ child \in [Sessions -> ChildRecs] /\ run \in [Requests -> RunRecs]
  /\ out \in [Requests -> OutRecs] /\ heard \in [Sessions -> Seq(Nat)]
  /\ sessions \subseteq Calls /\ byRequest \subseteq Requests
  /\ held \subseteq Sessions /\ gone \subseteq Requests
  /\ stale \subseteq Sessions /\ belated \subseteq Calls
  /\ ledger \in [Calls -> L!Statuses]

State(s)   == sess[s].state
Owner(s)   == sess[s].owner
Active(r)  == run[r].pc \in {"listening", "race", "failed"}
Raced(s)   == run[Owner(s)].pc = "race"

(* Who drives what: a request drives one session at most, and a session is *)
(* driven and bound by its owner only, as long as it is open.  A session   *)
(* has its directory while it is open, and beyond that only while a failed *)
(* start waits for its process.                                            *)
Fresh(s) ==
  /\ sess[s] = [state |-> "none", tools |-> FALSE, aborted |-> FALSE, gate |-> FALSE,
                parked |-> 0, public |-> 0, owner |-> s, deadlines |-> 0,
                terminal |-> FALSE, broken |-> FALSE, used |-> FALSE]
  /\ s \notin held /\ heard[s] = <<>>
Steered(r) ==
  /\ run[r].pc = "idle" => /\ At(r) = Nobody /\ r \notin gone
                           /\ out[r] = [end |-> "none", call |-> 0, usage |-> 0]
  /\ At(r) \in Sessions => State(At(r)) # "none"
  /\ Active(r) => At(r) \in Sessions /\ Owner(At(r)) = r
  /\ run[r].pc \in {"listening", "failed"} => At(r) = r
  /\ run[r].pc = "failed" => State(r) = "closed"
  /\ run[r].pc = "race" => State(At(r)) \in {"open", "closed"}
  /\ run[r].pc = "listening" => State(r) = "starting"
  /\ r \in byRequest => /\ At(r) \in Sessions /\ Owner(At(r)) = r
                        /\ State(At(r)) = "open" /\ sess[At(r)].tools
Steady(s) ==
  /\ State(s) = "none" => Fresh(s)
  /\ State(s) # "none" => At(s) = s /\ At(Owner(s)) = s
  /\ State(s) = "starting" => run[s].pc = "listening" /\ sess[s].tools
  /\ ~sess[s].tools => Owner(s) = s
  /\ State(s) \in {"starting", "open"} => s \in held
  /\ State(s) = "closed" /\ s \in held => run[s].pc = "failed"
  /\ State(s) = "open" /\ sess[s].tools => Owner(s) \in byRequest

(* Calls: one at most is parked at a session, and then nobody drives it.   *)
(* At a closed one it came after the close, and the broker has a deadline  *)
(* for it; and so did every frame that waits there.  At an open session a  *)
(* frame that waits is parked or in the hands of the pump, unless that     *)
(* will only find its queue over.                                          *)
Called(s) == \A n \in 1..MaxCalls : <<s, n>> \in sessions \cup L!Pending =>
  /\ sess[s].tools /\ run[Owner(s)].pc = "done" /\ sess[s].public = n
  /\ \/ State(s) = "open"
     \/ /\ State(s) = "closed" /\ sess[s].aborted /\ <<s, n>> \in belated
        /\ <<s, n>> \in L!Pending => sess[s].deadlines > 0
Guarded(s) == State(s) = "open" /\ ~Raced(s) =>
  /\ sess[s].tools /\ sess[s].deadlines > 0 /\ sess[s].gate /\ promise[s] = NoPromise
  /\ <<s, sess[s].public>> \in sessions \cap L!Pending
Flooded(s) == queue[s].over /\ Raced(s)
Framed(s) ==
  /\ \A n \in 1..MaxCalls : frames[<<s, n>>] = "pending" =>
       \/ /\ State(s) = "open" /\ sess[s].tools
          /\ n \in {promise[s], sess[s].parked} \/ Flooded(s)
       \/ State(s) = "closed" /\ <<s, n>> \in belated
  /\ State(s) \in {"none", "starting"} \/ Raced(s) => sess[s].parked = 0
  /\ State(s) \in {"none", "starting"} \/ ~sess[s].tools =>
       promise[s] = NoPromise /\ \A n \in 1..MaxCalls : frames[<<s, n>>] = "unsent"
  /\ State(s) = "open" /\ sess[s].tools /\ Raced(s) => promise[s] # NoPromise
  /\ State(s) = "closed" /\ Raced(s) =>
       /\ sess[s].aborted
       /\ promise[s] \in 1..MaxCalls => Shut(s) \/ <<s, promise[s]>> \in belated
  /\ State(s) = "closed" \/ Flooded(s) \/ items[s] = <<>>

(* How a run ends: an abort has a reason, and a queue is closed for one.   *)
Ending(s) ==
  /\ queue[s].over => /\ queue[s].closed /\ queue[s].events = <<>>
                      /\ child[s].pc # "live" /\ sess[s].aborted
  /\ queue[s].closed <=> child[s].pc = "settled" \/ queue[s].over
  /\ State(s) \in {"none", "starting"} =>
       /\ child[s].pc = "none" /\ child[s].said = 0
       /\ queue[s].events = <<>> /\ ~queue[s].closed
  /\ State(s) = "starting" /\ sess[s].aborted => s \in gone
  /\ State(s) = "open" /\ sess[s].aborted => queue[s].over \/ (~sess[s].tools /\ s \in gone)
  /\ State(s) = "closed" => child[s].pc # "live" \/ s \in gone
Explained(r) ==
  /\ Races(r) /\ sess[At(r)].aborted => queue[At(r)].over \/ r \in gone \/ At(r) \in stale
  /\ out[r].end = "silent" => r \in gone \/ At(r) \in stale

(* A reply told of a call once that was parked; a client that may continue *)
(* a closed session hears of its end, or a deadline has closed it.         *)
Promised(r) == out[r].end = "tool_calls" =>
  /\ run[r].pc = "done" /\ At(r) \in Sessions /\ out[r].call \in 1..MaxCalls
  /\ ledger[<<At(r), out[r].call>>] # "unborn"
  /\ State(At(r)) = "closed" /\ <<At(r), out[r].call>> \in L!Pending => At(r) \in stale

(* Texts: what is queued follows what was heard, up to what was said, and  *)
(* nothing is missing as long as somebody may hear it.                     *)
TextsIn(events) == {i \in 1..Len(events) : events[i][1] = "text"}
Ordered(events, said) ==
  /\ \A i \in TextsIn(events) : events[i][2] \in 1..said
  /\ \A i, j \in TextsIn(events) : i < j => events[i][2] < events[j][2]
Covering(events, told, said) ==
  /\ \A i \in TextsIn(events) : events[i][2] > told
  /\ \A n \in (told + 1)..said : \E i \in TextsIn(events) : events[i][2] = n
Heard(s) ==
  /\ heard[s] = [i \in 1..Len(heard[s]) |-> i]
  /\ Len(heard[s]) <= child[s].said
  /\ Ordered(queue[s].events, child[s].said)
Queued(s) ==
  ~queue[s].over /\ (State(s) # "closed" \/ Raced(s)) =>
    Covering(queue[s].events, Len(heard[s]), child[s].said)
Complete(r) == out[r].end = "completed" =>
  /\ At(r) \in Sessions
  /\ LET s == At(r) IN
     /\ State(s) = "closed" /\ ~Raced(s) /\ child[s].pc = "settled"
     /\ child[s].end = "ok" /\ sess[s].terminal /\ ~sess[s].broken
     /\ Len(heard[s]) = child[s].said

(* Usage: once it is told, it is told to nobody else of the session.       *)
Spent(s) == sess[s].used \/ (State(s) = "closed" /\ ~Raced(s))
Metered(r) == out[r].usage > 0 =>
  /\ out[r].usage = 1 /\ At(r) \in Sessions /\ Spent(At(r))
  /\ \A q \in Requests : q # r /\ At(q) = At(r) => out[q].usage = 0

Session(s) == /\ Steady(s) /\ Called(s) /\ Guarded(s) /\ Framed(s)
              /\ Ending(s) /\ Heard(s) /\ Queued(s)
Client(r)  == Steered(r) /\ Explained(r) /\ Promised(r) /\ Complete(r) /\ Metered(r)
IInv == /\ Shapes
        /\ \A s \in Sessions : Session(s)
        /\ \A r \in Requests : Client(r)

-------------------------------------------------------------------------------
(* Every set of natural numbers has a least element.                       *)
LEMMA LeastNumber ==
  ASSUME NEW T, T \subseteq Nat, T # {}
  PROVE  \E m \in T : \A k \in T : m <= k
<1> DEFINE R == {ss \in Nat \X Nat : ss[1] < ss[2]}
<1>1. IsWellFoundedOn(R, Nat)
  BY NatLessThanWellFounded DEF OpToRel
<1>2. \A k, m \in Nat : <<k, m>> \in R <=> k < m
  OBVIOUS
<1> HIDE DEF R
<1>3. PICK m \in T : \A k \in T : ~ (<<k, m>> \in R)
  BY <1>1, WFMin
<1>4. ASSUME NEW k \in T PROVE m <= k
  <2>1. k \in Nat /\ m \in Nat /\ ~(<<k, m>> \in R)
    BY <1>3
  <2>. QED
    BY <1>2, <2>1
<1>. QED
  BY <1>4

(* Shapes are kept.                                                        *)
LEMMA Constants ==
  /\ MaxCalls \in Nat /\ MaxEvents \in Nat \ {0} /\ QueueSize \in Nat \ {0}
  /\ Sessions \subseteq Requests /\ Nobody \notin Requests
  /\ \A c \in Calls : c[1] \in Sessions /\ c[2] \in 1..MaxCalls /\ c = <<c[1], c[2]>>
  /\ \A s \in Sessions, n \in 1..MaxCalls : <<s, n>> \in Calls
BY FramesAssumption, LiveAssumption, RequestsAssumption DEF Calls

LEMMA Sorts ==
  ASSUME Shapes
  PROVE  /\ sess \in [Sessions -> SessRecs] /\ queue \in [Sessions -> QueueRecs]
         /\ child \in [Sessions -> ChildRecs] /\ run \in [Requests -> RunRecs]
         /\ out \in [Requests -> OutRecs] /\ heard \in [Sessions -> Seq(Nat)]
         /\ promise \in [Sessions -> 0..(MaxCalls + 1)]
         /\ frames \in [Calls -> FrameStatuses] /\ ledger \in [Calls -> L!Statuses]
         /\ items \in [Sessions -> Seq(1..MaxCalls)] /\ \A s \in Sessions : Len(items[s]) <= QueueSize
         /\ belated \subseteq Calls
BY Zenon DEF Shapes

LEMMA SessFields ==
  ASSUME NEW rec \in SessRecs
  PROVE  /\ \A v \in {"none", "starting", "open", "closed"} :
              [rec EXCEPT !.state = v] \in SessRecs
         /\ \A v \in BOOLEAN : /\ [rec EXCEPT !.tools = v] \in SessRecs
                               /\ [rec EXCEPT !.aborted = v] \in SessRecs
                               /\ [rec EXCEPT !.gate = v] \in SessRecs
         /\ \A v \in BOOLEAN : /\ [rec EXCEPT !.terminal = v] \in SessRecs
                               /\ [rec EXCEPT !.broken = v] \in SessRecs
                               /\ [rec EXCEPT !.used = v] \in SessRecs
         /\ \A v \in 0..MaxCalls : /\ [rec EXCEPT !.parked = v] \in SessRecs
                                   /\ [rec EXCEPT !.public = v] \in SessRecs
         /\ \A v \in Requests : [rec EXCEPT !.owner = v] \in SessRecs
         /\ \A v \in Nat : [rec EXCEPT !.deadlines = v] \in SessRecs
BY DEF SessRecs

LEMMA ChildFields ==
  ASSUME NEW rec \in ChildRecs
  PROVE  /\ \A v \in {"none", "live", "stopping", "settled"} :
              [rec EXCEPT !.pc = v] \in ChildRecs
         /\ \A v \in Ends : [rec EXCEPT !.end = v] \in ChildRecs
         /\ \A v \in BOOLEAN : /\ [rec EXCEPT !.late = v] \in ChildRecs
                               /\ [rec EXCEPT !.cut = v] \in ChildRecs
                               /\ [rec EXCEPT !.saw = v] \in ChildRecs
                               /\ [rec EXCEPT !.concluded = v] \in ChildRecs
         /\ \A v \in Nat : [rec EXCEPT !.said = v] \in ChildRecs
         /\ Stopping(rec) \in ChildRecs
         /\ rec.pc \in {"none", "live", "stopping", "settled"} /\ rec.end \in Ends
         /\ rec.said \in Nat /\ rec.late \in BOOLEAN /\ rec.cut \in BOOLEAN
         /\ rec.saw \in BOOLEAN /\ rec.concluded \in BOOLEAN
BY DEF ChildRecs, Stopping

LEMMA TerminatedShape ==
  ASSUME Shapes, NEW s \in Sessions
  PROVE  Terminated(s) \in ChildRecs
BY Sorts, ChildFields DEF Terminated, Aborted

LEMMA SettledShape ==
  ASSUME Shapes, NEW S, NEW how \in {"resolved", "expired", "cancelled"},
         L!SettleSome(S, how)
  PROVE  ledger' \in [Calls -> L!Statuses]
BY DEF Shapes, L!SettleSome, L!Statuses, L!Fates

LEMMA ClosedShape ==
  ASSUME NEW rec \in SessRecs
  PROVE  Closed(rec) \in SessRecs
<1>1. 0 \in 0..MaxCalls /\ 0 \in Nat
  BY Constants
<1> DEFINE A == [rec EXCEPT !.state = "closed", !.aborted = TRUE]
           B == [A EXCEPT !.deadlines = 0]
           C == [B EXCEPT !.parked = 0]
           D == [C EXCEPT !.public = 0]
<1>2. A \in SessRecs
  BY DEF SessRecs
<1>3. B \in SessRecs
  BY <1>1, <1>2 DEF SessRecs
<1>4. C \in SessRecs
  BY <1>1, <1>3 DEF SessRecs
<1>5. D \in SessRecs
  BY <1>1, <1>4 DEF SessRecs
<1>. QED
  BY <1>5 DEF Closed

LEMMA ClosingShape ==
  ASSUME Shapes, NEW s \in Sessions, NEW rec \in SessRecs,
         NEW fate \in {"expired", "cancelled"}, Closing(s, rec, fate)
  PROVE  /\ sess' \in [Sessions -> SessRecs] /\ child' \in [Sessions -> ChildRecs]
         /\ sessions' \subseteq Calls /\ byRequest' \subseteq Requests
         /\ held' \subseteq Sessions /\ ledger' \in [Calls -> L!Statuses]
<1>1. CASE rec.state = "open"
  <2>1. Closed(rec) \in SessRecs
    BY ClosedShape
  <2>2. Terminated(s) \in ChildRecs
    BY TerminatedShape
  <2>3. ledger' \in [Calls -> L!Statuses]
    BY <1>1, SettledShape DEF Closing
  <2>. QED
    BY <1>1, <2>1, <2>2, <2>3 DEF Closing, Shapes, Unbound
<1>2. CASE rec.state # "open"
  BY <1>2 DEF Closing, Shapes, maps
<1>. QED
  BY <1>1, <1>2

LEMMA CloseShape ==
  ASSUME Shapes, NEW s \in Sessions, NEW rec \in SessRecs, NEW extra,
         NEW fate \in {"expired", "cancelled"}, CloseToolSession(s, rec, extra, fate)
  PROVE  /\ sess' \in [Sessions -> SessRecs] /\ child' \in [Sessions -> ChildRecs]
         /\ sessions' \subseteq Calls /\ byRequest' \subseteq Requests
         /\ held' \subseteq Sessions /\ ledger' \in [Calls -> L!Statuses]
         /\ frames' \in [Calls -> FrameStatuses]
<1>1. frames' \in [Calls -> FrameStatuses]
  BY DEF CloseToolSession, Shapes, Shed, FrameStatuses, Answers
<1>. QED
  BY <1>1, ClosingShape DEF CloseToolSession

LEMMA FinallyShape ==
  ASSUME Shapes, NEW s \in Sessions, NEW rec \in SessRecs, Finally(s, rec)
  PROVE  /\ sess' \in [Sessions -> SessRecs] /\ child' \in [Sessions -> ChildRecs]
         /\ sessions' \subseteq Calls /\ byRequest' \subseteq Requests
         /\ held' \subseteq Sessions /\ ledger' \in [Calls -> L!Statuses]
         /\ frames' \in [Calls -> FrameStatuses]
<1>1. CASE rec.tools
  BY <1>1, CloseShape DEF Finally
<1>2. CASE ~rec.tools
  <2>1. [rec EXCEPT !.state = "closed"] \in SessRecs
    BY DEF SessRecs
  <2>. QED
    BY <1>2, <2>1 DEF Finally, Shapes
<1>. QED
  BY <1>1, <1>2

LEMMA EndedShape ==
  ASSUME Shapes, NEW r \in Requests, NEW end \in {"silent", "error", "completed", "tool_calls"}
  PROVE  /\ Ended(r, end) \in [Requests -> OutRecs]
         /\ \A n \in Nat : [Ended(r, end) EXCEPT ![r].call = n] \in [Requests -> OutRecs]
BY ZenonT(60) DEF Shapes, Ended, OutRecs

LEMMA GotoShape ==
  ASSUME Shapes, NEW r \in Requests, NEW pc \in {"race", "failed", "done"}, Goto(r, pc)
  PROVE  run' \in [Requests -> RunRecs]
BY DEF Shapes, Goto, RunRecs

(* A queue takes the events of a line.                                     *)
LEMMA EventsShape ==
  ASSUME Shapes, NEW s \in Sessions, NEW line
  PROVE  Events(s, line) \in Seq(Kinds \X Nat)
<1>1. child[s].said + 1 \in Nat
  BY DEF Shapes, ChildRecs
<1>2. <<"text", child[s].said + 1>> \in Kinds \X Nat
  BY <1>1 DEF Kinds
<1>3. <<"completed", 0>> \in Kinds \X Nat /\ <<"usage", 0>> \in Kinds \X Nat
      /\ <<"protocol", 0>> \in Kinds \X Nat
  BY DEF Kinds
<1>4. \A e, f \in Kinds \X Nat : <<e>> \in Seq(Kinds \X Nat)
                              /\ <<e, f>> \in Seq(Kinds \X Nat)
  OBVIOUS
<1>5. AnswerEvents(s) \in Seq(Kinds \X Nat)
  BY <1>2, <1>3, <1>4, Zenon DEF AnswerEvents
<1>. QED
  BY <1>2, <1>3, <1>4, <1>5, Zenon DEF Events

LEMMA FedShape ==
  ASSUME NEW q \in QueueRecs, NEW es \in Seq(Kinds \X Nat)
  PROVE  Fed(q, es) \in QueueRecs
<1>1. q.events \o es \in Seq(Kinds \X Nat)
  BY DEF QueueRecs
<1>2. <<>> \in Seq(Kinds \X Nat)
  OBVIOUS
<1>. QED
  BY <1>1, <1>2 DEF Fed, QueueRecs

(* The initial state, requests and the start of a session.                 *)
LEMMA ShapesInit == Init => Shapes
<1>. SUFFICES ASSUME Init PROVE Shapes
  OBVIOUS
<1>1. /\ frames \in [Calls -> FrameStatuses] /\ promise \in [Sessions -> 0..(MaxCalls + 1)]
      /\ items \in [Sessions -> Seq(1..MaxCalls)] /\ \A s \in Sessions : Len(items[s]) <= QueueSize
  <2>1. <<>> \in Seq(1..MaxCalls) /\ Len(<<>>) <= QueueSize
    BY Constants
  <2>. QED
    BY <2>1, Constants DEF Init, ChannelInit, FrameStatuses, NoPromise
<1>2. sess \in [Sessions -> SessRecs]
  BY Constants DEF Init, SessRecs
<1>3. queue \in [Sessions -> QueueRecs] /\ heard \in [Sessions -> Seq(Nat)]
  <2>1. <<>> \in Seq(Kinds \X Nat) /\ <<>> \in Seq(Nat)
    OBVIOUS
  <2>. QED
    BY <2>1 DEF Init, QueueRecs
<1>4. child \in [Sessions -> ChildRecs]
  BY DEF Init, ChildRecs, Ends
<1>5. run \in [Requests -> RunRecs] /\ out \in [Requests -> OutRecs]
  BY DEF Init, RunRecs, OutRecs
<1>6. /\ sessions \subseteq Calls /\ byRequest \subseteq Requests
      /\ held \subseteq Sessions /\ gone \subseteq Requests
      /\ stale \subseteq Sessions /\ belated \subseteq Calls
      /\ ledger \in [Calls -> L!Statuses]
  BY DEF Init, L!LedgerInit, L!Statuses
<1>. QED
  BY <1>1, <1>2, <1>3, <1>4, <1>5, <1>6 DEF Shapes

LEMMA AskShape ==
  ASSUME Shapes, NEW s \in Sessions, Ask(s)
  PROVE  /\ promise' \in [Sessions -> 0..(MaxCalls + 1)]
         /\ items' \in [Sessions -> Seq(1..MaxCalls)]
         /\ \A t \in Sessions : Len(items'[t]) <= QueueSize
<1>1. /\ items[s] \in Seq(1..MaxCalls) /\ Len(items[s]) <= QueueSize
      /\ promise \in [Sessions -> 0..(MaxCalls + 1)]
      /\ items \in [Sessions -> Seq(1..MaxCalls)] /\ \A t \in Sessions : Len(items[t]) <= QueueSize
  BY Sorts
<1>2. Waiting \in 0..(MaxCalls + 1) /\ QueueSize \in Nat
  BY Constants DEF Waiting
<1>3. CASE UNCHANGED items /\ (UNCHANGED promise \/ promise' = [promise EXCEPT ![s] = Waiting])
  BY <1>1, <1>2, <1>3
<1>4. CASE /\ items[s] # <<>> /\ promise' = [promise EXCEPT ![s] = Head(items[s])]
           /\ items' = [items EXCEPT ![s] = Tail(items[s])]
  <2>. PICK its \in Seq(1..MaxCalls) : its = items[s]
    BY <1>1
  <2>1. /\ Head(its) \in 1..MaxCalls /\ Tail(its) \in Seq(1..MaxCalls)
        /\ Len(Tail(its)) <= QueueSize
    <3>1. its # <<>> /\ Len(its) \in Nat /\ Len(its) <= QueueSize
      BY <1>1, <1>4
    <3>2. Len(its) # 0
      BY <3>1, EmptySeq
    <3>3. /\ Head(its) \in 1..MaxCalls /\ Tail(its) \in Seq(1..MaxCalls)
          /\ Len(Tail(its)) = Len(its) - 1
      BY <3>1, HeadTailProperties, Zenon
    <3>. QED
      BY <1>2, <3>1, <3>2, <3>3
  <2>2. Head(items[s]) \in 0..(MaxCalls + 1)
    BY <2>1, Constants
  <2>3. promise' \in [Sessions -> 0..(MaxCalls + 1)]
    BY <1>1, <1>4, <2>2, Zenon
  <2>. QED
    BY <1>1, <1>4, <2>1, <2>3
<1>. QED
  BY <1>1, <1>3, <1>4 DEF Ask

LEMMA ShapesOpen ==
  ASSUME Shapes, NEW r \in Requests, NEW tools \in BOOLEAN, Open(r, tools)
  PROVE  Shapes'
<1>1. r \in Sessions
  BY DEF Open
<1>2. run' \in [Requests -> RunRecs]
  BY <1>1 DEF Open, Shapes, RunRecs
<1>3. sess' \in [Sessions -> SessRecs]
  <2>1. sess' = [sess EXCEPT ![r] = [sess[r] EXCEPT !.tools = tools, !.state = IF tools THEN "starting" ELSE "open"]]
    BY <1>1, Sorts DEF Open
  <2>2. [sess[r] EXCEPT !.tools = tools] \in SessRecs
    BY <1>1, Sorts, SessFields
  <2>3. [sess[r] EXCEPT !.tools = tools, !.state = IF tools THEN "starting" ELSE "open"] \in SessRecs
    BY <2>2, SessFields
  <2>. QED
    BY <2>1, <2>3, Sorts
<1>4. child' \in [Sessions -> ChildRecs]
  <2>1. child' = [child EXCEPT ![r] = [child[r] EXCEPT !.pc = IF tools THEN @ ELSE "live"]]
    BY <1>1, Sorts DEF Open
  <2>2. [child[r] EXCEPT !.pc = IF tools THEN @ ELSE "live"] \in ChildRecs
    BY <1>1, Sorts, ChildFields
  <2>. QED
    BY <2>1, <2>2, Sorts
<1>. QED
  BY <1>1, <1>2, <1>3, <1>4 DEF Open, Shapes, channelVars, history

LEMMA ShapesStart ==
  ASSUME Shapes, NEW r \in Sessions, Start(r)
  PROVE  Shapes'
<1>1. r \in Requests
  BY Constants
<1>2. child' \in [Sessions -> ChildRecs]
  <2>1. child' = [child EXCEPT ![r] = [child[r] EXCEPT !.pc = "live"]]
    BY Sorts DEF Start
  <2>2. [child[r] EXCEPT !.pc = "live"] \in ChildRecs
    BY Sorts, ChildFields
  <2>. QED
    BY <2>1, <2>2, Sorts
<1>3. CASE sess[r].aborted
  <2>1. sess' \in [Sessions -> SessRecs]
    <3>1. sess' = [sess EXCEPT ![r] = Closed(sess[r])]
      BY <1>3, Sorts DEF Start
    <3>2. Closed(sess[r]) \in SessRecs
      BY Sorts, ClosedShape
    <3>. QED
      BY <3>1, <3>2, Sorts
  <2>2. run' \in [Requests -> RunRecs] /\ out' \in [Requests -> OutRecs]
    BY <1>1, <1>3, GotoShape, EndedShape DEF Start
  <2>. QED
    BY <1>2, <1>3, <2>1, <2>2 DEF Start, Shapes
<1>4. CASE ~sess[r].aborted
  <2>1. sess' \in [Sessions -> SessRecs]
    <3>1. sess' = [sess EXCEPT ![r] = [sess[r] EXCEPT !.state = "open"]]
      BY <1>4, Sorts DEF Start
    <3>2. [sess[r] EXCEPT !.state = "open"] \in SessRecs
      BY Sorts, SessFields
    <3>. QED
      BY <3>1, <3>2, Sorts
  <2>2. run' \in [Requests -> RunRecs]
    BY <1>1, <1>4, GotoShape DEF Start
  <2>3. /\ promise' \in [Sessions -> 0..(MaxCalls + 1)]
        /\ items' \in [Sessions -> Seq(1..MaxCalls)]
        /\ \A t \in Sessions : Len(items'[t]) <= QueueSize
    BY <1>4, AskShape DEF Start
  <2>. QED
    BY <1>1, <1>2, <1>4, <2>1, <2>2, <2>3 DEF Start, Shapes
<1>. QED
  BY <1>3, <1>4

LEMMA ShapesStartFails ==
  ASSUME Shapes, NEW r \in Sessions, StartFails(r)
  PROVE  Shapes'
<1>1. sess' \in [Sessions -> SessRecs]
  <2>1. sess' = [sess EXCEPT ![r] = [sess[r] EXCEPT !.state = "closed"]]
    BY Sorts DEF StartFails
  <2>2. [sess[r] EXCEPT !.state = "closed"] \in SessRecs
    BY Sorts, SessFields
  <2>. QED
    BY <2>1, <2>2, Sorts
<1>2. run' \in [Requests -> RunRecs] /\ out' \in [Requests -> OutRecs]
  BY Constants, GotoShape, EndedShape DEF StartFails
<1>. QED
  BY <1>1, <1>2 DEF StartFails, Shapes, channelVars

LEMMA ShapesPublishFails ==
  ASSUME Shapes, NEW r \in Sessions, PublishFails(r)
  PROVE  Shapes'
<1>1. sess' \in [Sessions -> SessRecs]
  <2>1. [sess[r] EXCEPT !.state = "closed"] \in SessRecs
    BY Sorts, SessFields
  <2>2. [sess[r] EXCEPT !.state = "closed", !.aborted = TRUE] \in SessRecs
    BY <2>1, SessFields
  <2>3. sess' = [sess EXCEPT ![r] = [sess[r] EXCEPT !.state = "closed", !.aborted = TRUE]]
    BY Sorts DEF PublishFails
  <2>. QED
    BY <2>2, <2>3, Sorts
<1>2. run' \in [Requests -> RunRecs]
  BY Constants, GotoShape DEF PublishFails
<1>3. child' \in [Sessions -> ChildRecs]
  <2>1. child' = [child EXCEPT ![r] = [child[r] EXCEPT !.pc = IF sess[r].aborted THEN "live" ELSE "stopping"]]
    BY Sorts DEF PublishFails
  <2>2. [child[r] EXCEPT !.pc = IF sess[r].aborted THEN "live" ELSE "stopping"] \in ChildRecs
    BY Sorts, ChildFields
  <2>. QED
    BY <2>1, <2>2, Sorts
<1>. QED
  BY <1>1, <1>2, <1>3 DEF PublishFails, Shapes, channelVars, maps, history

LEMMA ShapesEndFailed ==
  ASSUME Shapes, NEW r \in Requests, EndFailed(r)
  PROVE  Shapes'
<1>1. run' \in [Requests -> RunRecs] /\ out' \in [Requests -> OutRecs]
  BY GotoShape, EndedShape DEF EndFailed
<1>. QED
  BY <1>1 DEF EndFailed, Shapes, channelVars

LEMMA ResumedShape ==
  ASSUME NEW old \in SessRecs, NEW r \in Requests, NEW delivered \in BOOLEAN
  PROVE  Resumed(old, r, delivered) \in SessRecs
<1>1. 0 \in 0..MaxCalls
  BY Constants
<1> DEFINE A == [old EXCEPT !.public = 0]
           B == [A EXCEPT !.owner = r]
           C == [B EXCEPT !.parked = 0]
           D == [C EXCEPT !.gate = @ /\ ~delivered]
<1>2. A \in SessRecs
  BY <1>1 DEF SessRecs
<1>3. B \in SessRecs
  BY <1>2 DEF SessRecs
<1>4. C \in SessRecs
  BY <1>1, <1>3 DEF SessRecs
<1>5. D \in SessRecs
  BY <1>4 DEF SessRecs
<1>. QED
  BY <1>5 DEF Resumed

LEMMA ShapesContinue ==
  ASSUME Shapes, NEW r \in Requests, NEW c \in Calls, Continue(r, c)
  PROVE  Shapes'
<1> DEFINE s == c[1]
           delivered == sess[s].parked # 0 /\ frames[<<s, sess[s].parked>>] = "pending"
           rec == Resumed(sess[s], r, delivered)
<1>1. s \in Sessions /\ sess[s] \in SessRecs
  BY Constants DEF Shapes
<1>2. rec \in SessRecs
  BY <1>1, ResumedShape
<1>3. frames' \in [Calls -> FrameStatuses]
  BY <1>1 DEF Continue, Shapes, Answered, FrameStatuses, Answers
<1>4. ledger' \in [Calls -> L!Statuses]
  BY SettledShape DEF Continue
<1>5. CASE queue[s].over \/ sess[s].aborted
  <2>1. sess' \in [Sessions -> SessRecs]
    BY <1>1, <1>2, <1>5, ClosedShape, ZenonT(60) DEF Continue, Shapes
  <2>2. child' \in [Sessions -> ChildRecs]
    BY <1>1, <1>5, Sorts, TerminatedShape DEF Continue
  <2>3. run' \in [Requests -> RunRecs]
    <3>1. run' = [run EXCEPT ![r] = [pc |-> "done", at |-> s]]
      BY <1>5 DEF Continue
    <3>2. [pc |-> "done", at |-> s] \in RunRecs
      BY <1>1 DEF RunRecs
    <3>. QED
      BY <3>1, <3>2, Sorts
  <2>4. out' \in [Requests -> OutRecs]
    <3>1. \E end \in {"silent", "error"} : out' = Ended(r, end)
      BY <1>5 DEF Continue
    <3>. QED
      BY <3>1, EndedShape
  <2>. QED
    BY <1>3, <1>4, <1>5, <2>1, <2>2, <2>3, <2>4 DEF Continue, Shapes
<1>6. CASE ~(queue[s].over \/ sess[s].aborted)
  <2>1. sess' \in [Sessions -> SessRecs]
    BY <1>1, <1>2, <1>6 DEF Continue, Shapes
  <2>2. run' \in [Requests -> RunRecs]
    <3>1. run' = [run EXCEPT ![r] = [pc |-> "race", at |-> s]]
      BY <1>6 DEF Continue
    <3>2. [pc |-> "race", at |-> s] \in RunRecs
      BY <1>1 DEF RunRecs
    <3>. QED
      BY <3>1, <3>2, Sorts
  <2>3. /\ promise' \in [Sessions -> 0..(MaxCalls + 1)]
        /\ items' \in [Sessions -> Seq(1..MaxCalls)]
        /\ \A t \in Sessions : Len(items'[t]) <= QueueSize
    BY <1>1, <1>6, AskShape DEF Continue
  <2>. QED
    BY <1>3, <1>4, <1>6, <2>1, <2>2, <2>3 DEF Continue, Shapes
<1>. QED
  BY <1>5, <1>6

LEMMA ShapesTurned ==
  ASSUME Shapes, NEW r \in Requests, Turned(r)
  PROVE  Shapes'
<1>1. run' \in [Requests -> RunRecs] /\ out' \in [Requests -> OutRecs]
  BY GotoShape, EndedShape DEF Turned
<1>. QED
  BY <1>1 DEF Turned, Shapes, channelVars, maps

(* The clients, the pumps and the timers.                                  *)
LEMMA ShapesHangUp ==
  ASSUME Shapes, NEW r \in Requests, HangUp(r), At(r) \in Sessions
  PROVE  Shapes'
<1> DEFINE s == At(r)
<1>1. s \in Sessions /\ sess[s] \in SessRecs /\ child[s] \in ChildRecs
  BY Sorts
<1>2. CASE r \in byRequest
  <2>1. CloseToolSession(s, sess[s], 0, "cancelled")
    BY <1>2 DEF HangUp
  <2>. QED
    BY <1>1, <2>1, CloseShape DEF HangUp, Shapes, history
<1>3. CASE r \notin byRequest
  <2>1. /\ sess' = [sess EXCEPT ![s] = [sess[s] EXCEPT !.aborted = @ \/ s = r]]
        /\ child' = [child EXCEPT ![s] = IF s = r THEN Aborted(s) ELSE @]
    BY <1>1, <1>3, Sorts DEF HangUp
  <2>2. [sess[s] EXCEPT !.aborted = @ \/ s = r] \in SessRecs
    <3>1. (sess[s].aborted \/ s = r) \in BOOLEAN
      OBVIOUS
    <3>. QED
      BY <1>1, <3>1, SessFields
  <2>3. Aborted(s) \in ChildRecs
    BY <1>1, ChildFields DEF Aborted
  <2>4. sess' \in [Sessions -> SessRecs] /\ child' \in [Sessions -> ChildRecs]
    BY <1>1, <2>1, <2>2, <2>3, Sorts
  <2>. QED
    BY <1>3, <2>4 DEF HangUp, Shapes, maps, history
<1>. QED
  BY <1>2, <1>3

LEMMA NotedShape ==
  ASSUME NEW rec \in SessRecs, NEW e
  PROVE  Noted(rec, e) \in SessRecs
<1> DEFINE A == [rec EXCEPT !.terminal = @ \/ e[1] = "completed"]
           B == [A EXCEPT !.broken = @ \/ e[1] = "protocol"]
           C == [B EXCEPT !.used = @ \/ e[1] = "usage"]
<1>1. A \in SessRecs
  BY DEF SessRecs
<1>2. B \in SessRecs
  BY <1>1, ZenonT(60) DEF SessRecs
<1>3. C \in SessRecs
  <2>1. (B.used \/ e[1] = "usage") \in BOOLEAN
    OBVIOUS
  <2>. HIDE DEF B
  <2>. QED
    BY <1>2, <2>1, SessFields
<1>. QED
  BY <1>3 DEF Noted

LEMMA TailShape ==
  ASSUME NEW S, NEW q \in Seq(S), q # <<>>
  PROVE  Tail(q) \in Seq(S) /\ Head(q) \in S
OBVIOUS

LEMMA ShapesTakeEvent ==
  ASSUME Shapes, NEW r \in Requests, TakeEvent(r), At(r) \in Sessions
  PROVE  Shapes'
<1> DEFINE s == At(r)
           e == Head(queue[s].events)
           o == [out EXCEPT ![r].usage =
                   @ + (IF e[1] = "usage" /\ ~sess[s].used /\ r \notin gone THEN 1 ELSE 0)]
<1>1. /\ s \in Sessions /\ sess[s] \in SessRecs
      /\ queue[s] \in QueueRecs /\ heard[s] \in Seq(Nat)
  BY Sorts
<1>2. queue[s].events \in Seq(Kinds \X Nat) /\ queue[s].events # <<>>
  BY <1>1 DEF TakeEvent, QueueRecs
<1>3. Tail(queue[s].events) \in Seq(Kinds \X Nat) /\ e[2] \in Nat
  <2>1. e \in Kinds \X Nat
    BY <1>2, TailShape
  <2>. QED
    BY <1>2, <2>1, TailShape
<1>4. queue' \in [Sessions -> QueueRecs]
  <2>1. [queue[s] EXCEPT !.events = Tail(@)] \in QueueRecs
    BY <1>1, <1>3 DEF QueueRecs
  <2>2. queue' = [queue EXCEPT ![s] = [queue[s] EXCEPT !.events = Tail(@)]]
    BY <1>1, Sorts DEF TakeEvent
  <2>. QED
    BY <1>1, <2>1, <2>2, Sorts
<1>5. heard' \in [Sessions -> Seq(Nat)]
  <2>1. Append(heard[s], e[2]) \in Seq(Nat)
    BY <1>1, <1>3
  <2>2. heard' = heard \/ heard' = [heard EXCEPT ![s] = Append(heard[s], e[2])]
    BY <1>1, Sorts DEF TakeEvent
  <2>. QED
    BY <1>1, <2>1, <2>2, Sorts
<1>6. o \in [Requests -> OutRecs] /\ [o EXCEPT ![r].end = "silent"] \in [Requests -> OutRecs]
  <2>1. o \in [Requests -> OutRecs]
    <3> DEFINE k == IF e[1] = "usage" /\ ~sess[s].used /\ r \notin gone THEN 1 ELSE 0
    <3>1. k \in Nat
      OBVIOUS
    <3>. HIDE DEF k
    <3>2. [out[r] EXCEPT !.usage = @ + k] \in OutRecs
      <4>1. out[r] \in OutRecs /\ out[r].usage + k \in Nat
        BY <3>1, Sorts DEF OutRecs
      <4>. QED
        BY <4>1 DEF OutRecs
    <3>3. [out EXCEPT ![r].usage = @ + k] \in [Requests -> OutRecs]
      <4>1. [out EXCEPT ![r].usage = @ + k] = [out EXCEPT ![r] = [out[r] EXCEPT !.usage = @ + k]]
        BY Sorts
      <4>. QED
        BY <3>2, <4>1, Sorts
    <3>. QED
      BY <3>3 DEF k
  <2>. HIDE DEF o
  <2>. QED
    BY <2>1 DEF OutRecs
<1>7. CASE Stopped(r)
  <2>1. Finally(s, sess[s]) /\ Goto(r, "done") /\ out' = [o EXCEPT ![r].end = "silent"]
    BY <1>7 DEF TakeEvent
  <2>. HIDE DEF o, e
  <2>2. run' \in [Requests -> RunRecs] /\ out' \in [Requests -> OutRecs]
    BY <1>6, <2>1, GotoShape
  <2>. QED
    BY <1>1, <1>4, <1>5, <2>1, <2>2, FinallyShape DEF TakeEvent, PumpFrame, Shapes
<1>8. CASE ~Stopped(r)
  <2>1. sess' = [sess EXCEPT ![s] = Noted(sess[s], e)] /\ out' = o
        /\ UNCHANGED <<run, child, maps, frames>>
    BY <1>1, <1>8, Sorts DEF TakeEvent
  <2>. HIDE DEF o, e
  <2>2. sess' \in [Sessions -> SessRecs] /\ out' \in [Requests -> OutRecs]
    BY <1>1, <1>6, <2>1, Sorts, NotedShape
  <2>. QED
    BY <1>4, <1>5, <2>1, <2>2 DEF TakeEvent, PumpFrame, Shapes, maps
<1>. QED
  BY <1>7, <1>8

LEMMA ShapesTakeEnd ==
  ASSUME Shapes, NEW r \in Requests, TakeEnd(r), At(r) \in Sessions
  PROVE  Shapes'
<1>1. Outcome(r) \in {"silent", "error", "completed", "tool_calls"}
  BY DEF Outcome, Verdict
<1>2. run' \in [Requests -> RunRecs] /\ out' \in [Requests -> OutRecs]
  BY <1>1, GotoShape, EndedShape DEF TakeEnd
<1>3. sess[At(r)] \in SessRecs
  BY Sorts
<1>. QED
  BY <1>2, <1>3, FinallyShape DEF TakeEnd, PumpFrame, Shapes

LEMMA ShapesRefuseCall ==
  ASSUME Shapes, NEW r \in Requests, RefuseCall(r), At(r) \in Sessions
  PROVE  Shapes'
<1>1. run' \in [Requests -> RunRecs] /\ out' \in [Requests -> OutRecs]
  BY GotoShape, EndedShape DEF RefuseCall
<1>2. sess[At(r)] \in SessRecs
  BY Sorts
<1>3. promise' \in [Sessions -> 0..(MaxCalls + 1)]
  BY Constants, Sorts DEF RefuseCall, TakeCall, NoPromise
<1>. QED
  BY <1>1, <1>2, <1>3, CloseShape DEF RefuseCall, TakeCall, Shapes

LEMMA ParkedShape ==
  ASSUME NEW rec \in SessRecs, NEW n \in 0..MaxCalls
  PROVE  Parked(rec, n) \in SessRecs
<1> DEFINE A == [rec EXCEPT !.gate = TRUE]
           B == [A EXCEPT !.parked = n]
           C == [B EXCEPT !.public = n]
           D == [C EXCEPT !.deadlines = @ + 1]
<1>1. A \in SessRecs
  BY DEF SessRecs
<1>2. B \in SessRecs
  BY <1>1 DEF SessRecs
<1>3. C \in SessRecs
  BY <1>2 DEF SessRecs
<1>4. D \in SessRecs
  <2>. HIDE DEF C
  <2>1. C.deadlines + 1 \in Nat
    BY <1>3 DEF SessRecs
  <2>. QED
    BY <1>3, <2>1, SessFields
<1>. QED
  BY <1>4 DEF Parked

LEMMA ShapesParkCall ==
  ASSUME Shapes, NEW r \in Requests, ParkCall(r), At(r) \in Sessions
  PROVE  Shapes'
<1> DEFINE s == At(r)
           n == promise[s]
<1>1. s \in Sessions /\ sess[s] \in SessRecs
  BY Sorts
<1>2. n \in 1..MaxCalls /\ n \in 0..MaxCalls /\ n \in Nat /\ <<s, n>> \in Calls
  BY Constants DEF ParkCall, TakeCall, Offered, Handed
<1>3. sess' \in [Sessions -> SessRecs]
  BY <1>1, <1>2, Sorts, ParkedShape DEF ParkCall
<1>4. run' \in [Requests -> RunRecs] /\ out' \in [Requests -> OutRecs]
  BY <1>2, GotoShape, EndedShape DEF ParkCall
<1>5. promise' \in [Sessions -> 0..(MaxCalls + 1)]
  BY Constants, Sorts DEF ParkCall, TakeCall, NoPromise
<1>6. ledger' \in [Calls -> L!Statuses]
  BY <1>2, Sorts DEF ParkCall, L!Park, L!Statuses
<1>. QED
  BY <1>2, <1>3, <1>4, <1>5, <1>6 DEF ParkCall, TakeCall, Shapes

LEMMA ShapesDeadline ==
  ASSUME Shapes, NEW s \in Sessions, Deadline(s)
  PROVE  Shapes'
<1>1. sess[s] \in SessRecs
  BY Sorts
<1>2. PICK fate \in {"expired", "cancelled"} : CloseToolSession(s, sess[s], 0, fate)
  BY DEF Deadline
<1>. QED
  BY <1>1, <1>2, CloseShape DEF Deadline, EventFrame, Shapes

LEMMA ShapesLateDeadline ==
  ASSUME Shapes, NEW s \in Sessions, LateDeadline(s)
  PROVE  Shapes'
<1>1. [sess[s] EXCEPT !.deadlines = 0] \in SessRecs
  BY Sorts, SessFields
<1>2. sess' \in [Sessions -> SessRecs]
  <2>1. sess' = [sess EXCEPT ![s] = [sess[s] EXCEPT !.deadlines = 0]]
    BY DEF LateDeadline
  <2>. QED
    BY <1>1, <2>1, Sorts
<1>3. ledger' \in [Calls -> L!Statuses]
  BY SettledShape DEF LateDeadline
<1>. QED
  BY <1>2, <1>3 DEF LateDeadline, EventFrame, Shapes

LEMMA ShapesFrameExpires ==
  ASSUME Shapes, NEW c \in Calls, FrameExpires(c)
  PROVE  Shapes'
<1>1. frames' \in [Calls -> FrameStatuses]
  BY Sorts DEF FrameExpires, Answered, FrameStatuses, Answers
<1>. QED
  BY <1>1 DEF FrameExpires, EventFrame, Shapes, maps

LEMMA ShapesLoseFrame ==
  ASSUME Shapes, NEW c \in Calls, LoseFrame(c)
  PROVE  Shapes'
<1>1. c[1] \in Sessions /\ sess[c[1]] \in SessRecs
  BY Constants, Sorts
<1>2. frames' \in [Calls -> FrameStatuses]
  BY Sorts DEF LoseFrame, Shed, FrameStatuses, Answers
<1>. QED
  BY <1>1, <1>2, ClosingShape DEF LoseFrame, EventFrame, Shapes

(* The process and the channel.                                            *)
LEMMA FirstUnsent ==
  ASSUME NEW s, Unsent(s) # {}, NEW n, n = CHOOSE k \in Unsent(s) : \A j \in Unsent(s) : k <= j
  PROVE  n \in Unsent(s) /\ n \in 1..MaxCalls /\ frames[<<s, n>>] = "unsent"
<1>1. PICK m \in Unsent(s) : \A j \in Unsent(s) : m <= j
  <2>1. Unsent(s) \subseteq Nat
    BY DEF Unsent
  <2>. QED
    BY <2>1, LeastNumber
<1>. QED
  BY <1>1 DEF Unsent

(* What arrives at the channel: a frame that is handed on, queued or       *)
(* refused.                                                                *)
LEMMA Received ==
  ASSUME NEW s \in Sessions, NEW gate, ReceiveFrame(s, gate)
  PROVE  \E n \in 1..MaxCalls :
           /\ frames[<<s, n>>] = "unsent"
           /\ \/ /\ frames' = [frames EXCEPT ![<<s, n>>] = "pending"] /\ ~gate
                 /\ \/ /\ promise[s] = Waiting /\ promise' = [promise EXCEPT ![s] = n]
                       /\ items' = items
                    \/ /\ promise[s] # Waiting /\ promise' = promise
                       /\ Len(items[s]) < QueueSize
                       /\ items' = [items EXCEPT ![s] = Append(items[s], n)]
              \/ /\ frames' = [frames EXCEPT ![<<s, n>>] = "error"]
                 /\ promise' = promise /\ items' = items
<1>1. PICK n : n = CHOOSE k \in Unsent(s) : \A j \in Unsent(s) : k <= j
  OBVIOUS
<1>2. n \in 1..MaxCalls /\ frames[<<s, n>>] = "unsent"
  BY <1>1, FirstUnsent DEF ReceiveFrame
<1>3. PICK taken \in BOOLEAN :
        /\ taken <=> Cardinality(Pending(s)) < MaxFrames /\ ~gate /\ Accepts(s)
        /\ frames' = [frames EXCEPT ![<<s, n>>] = IF taken THEN "pending" ELSE "error"]
        /\ IF taken THEN Push(s, n) ELSE UNCHANGED <<promise, items>>
  BY <1>1 DEF ReceiveFrame
<1>. QED
  BY <1>2, <1>3 DEF Push, Accepts

LEMMA ShapesReceiveCall ==
  ASSUME Shapes, NEW s \in Sessions, ReceiveCall(s)
  PROVE  Shapes'
<1>1. PICK n \in 1..MaxCalls :
        /\ \/ frames' = [frames EXCEPT ![<<s, n>>] = "pending"]
           \/ frames' = [frames EXCEPT ![<<s, n>>] = "error"]
        /\ promise' = promise \/ promise' = [promise EXCEPT ![s] = n]
        /\ \/ items' = items
           \/ Len(items[s]) < QueueSize /\ items' = [items EXCEPT ![s] = Append(items[s], n)]
  BY Received, Zenon DEF ReceiveCall
<1>2. frames' \in [Calls -> FrameStatuses]
  <2>1. \A how \in {"pending", "error"} : [frames EXCEPT ![<<s, n>>] = how] \in [Calls -> FrameStatuses]
    BY Sorts DEF FrameStatuses, Answers
  <2>. QED
    BY <1>1, <2>1
<1>3. promise' \in [Sessions -> 0..(MaxCalls + 1)]
  <2>1. n \in 0..(MaxCalls + 1)
    BY Constants
  <2>2. promise \in [Sessions -> 0..(MaxCalls + 1)]
    BY Sorts
  <2>. QED
    BY <1>1, <2>1, <2>2, Zenon
<1>4. items' \in [Sessions -> Seq(1..MaxCalls)] /\ \A t \in Sessions : Len(items'[t]) <= QueueSize
  <2>1. /\ items \in [Sessions -> Seq(1..MaxCalls)] /\ \A t \in Sessions : Len(items[t]) <= QueueSize
        /\ QueueSize \in Nat
    BY Sorts, Constants
  <2>2. CASE items' = items
    BY <2>1, <2>2
  <2>3. CASE Len(items[s]) < QueueSize /\ items' = [items EXCEPT ![s] = Append(items[s], n)]
    <3>1. Append(items[s], n) \in Seq(1..MaxCalls) /\ Len(Append(items[s], n)) <= QueueSize
      BY <2>1, <2>3
    <3>. QED
      BY <2>1, <2>3, <3>1
  <2>. QED
    BY <1>1, <2>2, <2>3
<1>5. belated' \subseteq Calls
  BY Sorts DEF ReceiveCall
<1>. QED
  BY <1>2, <1>3, <1>4, <1>5 DEF ReceiveCall, Shapes, maps

LEMMA ShapesLine ==
  ASSUME Shapes, NEW s \in Sessions, NEW line \in Lines, Line(s, line)
  PROVE  Shapes'
<1> DEFINE q == Fed(queue[s], Events(s, line))
           A == [child[s] EXCEPT !.said = IF Says(s, line) THEN @ + 1 ELSE @]
           B == [A EXCEPT !.saw = @ \/ line = "text"]
           C == [B EXCEPT !.cut = line = "oversize"]
           D == [C EXCEPT !.concluded = @ \/ line \in Results]
<1>1. q \in QueueRecs
  BY Sorts, EventsShape, FedShape
<1>2. D \in ChildRecs
  <2>1. A \in ChildRecs
    <3> DEFINE v == IF Says(s, line) THEN child[s].said + 1 ELSE child[s].said
    <3>1. child[s] \in ChildRecs
      BY Sorts
    <3>2. v \in Nat
      <4>1. child[s].said \in Nat
        BY <3>1, ChildFields
      <4>. QED
        BY <4>1
    <3>. HIDE DEF v
    <3>3. [child[s] EXCEPT !.said = v] \in ChildRecs
      BY <3>1, <3>2, ChildFields
    <3>. QED
      BY <3>3 DEF v
  <2>2. B \in ChildRecs
    <3>1. (A.saw \/ line = "text") \in BOOLEAN
      OBVIOUS
    <3>. HIDE DEF A
    <3>. QED
      BY <2>1, <3>1, ChildFields
  <2>3. C \in ChildRecs
    <3>1. (line = "oversize") \in BOOLEAN
      OBVIOUS
    <3>. HIDE DEF B
    <3>. QED
      BY <2>2, <3>1, ChildFields
  <2>4. (C.concluded \/ line \in Results) \in BOOLEAN
    OBVIOUS
  <2>. HIDE DEF C
  <2>. QED
    BY <2>3, <2>4, ChildFields
<1>3. Stopping(D) \in ChildRecs
  <2>. HIDE DEF D
  <2>. QED
    BY <1>2, ChildFields
<1>4. child' = [child EXCEPT ![s] = Stopping(D)] \/ child' = [child EXCEPT ![s] = D]
  <2> DEFINE read == [child[s] EXCEPT !.said = IF Says(s, line) THEN @ + 1 ELSE @,
                        !.saw = @ \/ line = "text", !.cut = line = "oversize",
                        !.concluded = @ \/ line \in Results]
  <2>1. child' = [child EXCEPT ![s] =
                    IF line = "oversize" \/ q.over THEN Stopping(read) ELSE read]
    BY DEF Line
  <2>2. read = D
    OBVIOUS
  <2>. HIDE DEF read, D, q
  <2>. QED
    BY <2>1, <2>2
<1>5. child' \in [Sessions -> ChildRecs]
  <2>. HIDE DEF D
  <2>. QED
    BY <1>2, <1>3, <1>4, Sorts
<1>6. queue' \in [Sessions -> QueueRecs]
  <2>1. queue' = [queue EXCEPT ![s] = q]
    BY DEF Line
  <2>. HIDE DEF q
  <2>. QED
    BY <1>1, <2>1, Sorts
<1>7. sess' \in [Sessions -> SessRecs]
  <2>1. (sess[s].aborted \/ q.over) \in BOOLEAN
    OBVIOUS
  <2>2. sess' = [sess EXCEPT ![s] = [sess[s] EXCEPT !.aborted = sess[s].aborted \/ q.over]]
    BY Sorts DEF Line
  <2>. HIDE DEF q
  <2>. QED
    BY <2>1, <2>2, Sorts, SessFields
<1>. QED
  BY <1>5, <1>6, <1>7 DEF Line, ChildFrame, channelVars, maps, history, Shapes

LEMMA ShapesExits ==
  ASSUME Shapes, NEW s \in Sessions, NEW end \in {"ok", "failed"}, NEW last, Exits(s, end, last)
  PROVE  Shapes'
<1> DEFINE q == IF last = "none" \/ child[s].cut THEN queue[s] ELSE Fed(queue[s], Events(s, last))
           says == last # "none" /\ ~child[s].cut /\ Says(s, last)
           A == [child[s] EXCEPT !.pc = "settled"]
           B == [A EXCEPT !.end = IF child[s].late THEN "timeout" ELSE end]
           C == [B EXCEPT !.said = IF says THEN @ + 1 ELSE @]
<1>1. q \in QueueRecs
  BY Sorts, EventsShape, FedShape
<1>2. C \in ChildRecs
  <2>1. A \in ChildRecs
    BY Sorts, ChildFields
  <2>2. B \in ChildRecs
    <3>1. (IF child[s].late THEN "timeout" ELSE end) \in Ends
      BY DEF Ends
    <3>. HIDE DEF A
    <3>. QED
      BY <2>1, <3>1, ChildFields
  <2>3. (IF says THEN B.said + 1 ELSE B.said) \in Nat
    <3>. HIDE DEF B, says
    <3>1. B.said \in Nat
      BY <2>2, ChildFields
    <3>. QED
      BY <3>1
  <2>. HIDE DEF B, says
  <2>. QED
    BY <2>2, <2>3, ChildFields
<1>3. child' \in [Sessions -> ChildRecs]
  <2>1. child' = [child EXCEPT ![s] = C]
    <3> DEFINE e == IF child[s].late THEN "timeout" ELSE end
               D == [child[s] EXCEPT !.pc = "settled", !.end = e,
                                     !.said = IF says THEN @ + 1 ELSE @]
    <3>1. child' = [child EXCEPT ![s] = D]
      <4>1. child' = [child EXCEPT ![s].pc = "settled", ![s].end = e,
                                   ![s].said = IF says THEN @ + 1 ELSE @]
        BY DEF Exits
      <4>. HIDE DEF e, says
      <4>. QED
        BY <4>1, Sorts
    <3>2. D = C
      OBVIOUS
    <3>. QED
      BY <3>1, <3>2
  <2>. HIDE DEF C
  <2>. QED
    BY <1>2, <2>1, Sorts
<1>4. queue' \in [Sessions -> QueueRecs]
  <2>1. queue' = [queue EXCEPT ![s] = [q EXCEPT !.closed = TRUE]]
    BY DEF Exits
  <2>. HIDE DEF q
  <2>2. [q EXCEPT !.closed = TRUE] \in QueueRecs
    BY <1>1 DEF QueueRecs
  <2>. QED
    BY <2>1, <2>2, Sorts
<1>5. sess' \in [Sessions -> SessRecs]
  <2>1. (sess[s].aborted \/ q.over) \in BOOLEAN
    OBVIOUS
  <2>2. sess' = [sess EXCEPT ![s] = [sess[s] EXCEPT !.aborted = sess[s].aborted \/ q.over]]
    BY Sorts DEF Exits
  <2>. HIDE DEF q
  <2>. QED
    BY <2>1, <2>2, Sorts, SessFields
<1>. QED
  BY <1>3, <1>4, <1>5 DEF Exits, ChildFrame, channelVars, maps, history, Shapes

LEMMA ShapesTimesOut ==
  ASSUME Shapes, NEW s \in Sessions, TimesOut(s)
  PROVE  Shapes'
<1>1. [Stopping(child[s]) EXCEPT !.late = TRUE] \in ChildRecs
  <2>1. Stopping(child[s]) \in ChildRecs
    BY Sorts, ChildFields
  <2>. QED
    BY <2>1, ChildFields
<1>2. child' \in [Sessions -> ChildRecs]
  BY <1>1, Sorts DEF TimesOut
<1>. QED
  BY <1>2 DEF TimesOut, ChildFrame, channelVars, maps, history, Shapes

-------------------------------------------------------------------------------
(* A step is about one session, s0, and one request, r0, if any.           *)
Same(s) ==
  /\ sess'[s] = sess[s] /\ queue'[s] = queue[s] /\ child'[s] = child[s]
  /\ promise'[s] = promise[s] /\ items'[s] = items[s] /\ heard'[s] = heard[s]
  /\ (s \in held' <=> s \in held) /\ (s \in stale' <=> s \in stale)
  /\ \A n \in 1..MaxCalls : /\ frames'[<<s, n>>] = frames[<<s, n>>]
                            /\ <<s, n>> \in belated' <=> <<s, n>> \in belated
                            /\ <<s, n>> \in sessions' <=> <<s, n>> \in sessions
                            /\ ledger'[<<s, n>>] = ledger[<<s, n>>]
Apart(s0, r0) ==
  /\ \A s \in Sessions : s # s0 => Same(s)
  /\ \A r \in Requests : r # r0 =>
       /\ run'[r] = run[r] /\ out'[r] = out[r] /\ (r \in gone' <=> r \in gone)
       /\ r \in byRequest' => r \in byRequest
       /\ r \in byRequest /\ At(r) # s0 => r \in byRequest'
  /\ gone \subseteq gone' /\ stale \subseteq stale'
  /\ r0 \in Requests => At(r0) \in {s0, Nobody} /\ At(r0)' \in {s0, Nobody}

LEMMA ElsewhereRuns ==
  ASSUME IInv, NEW s0, NEW r0, Apart(s0, r0), NEW s \in Sessions, s # s0, State(s) # "none"
  PROVE  /\ s # r0 /\ Owner(s) # r0 /\ s \in Requests /\ Owner(s) \in Requests
         /\ run'[s] = run[s] /\ run'[Owner(s)] = run[Owner(s)]
         /\ Owner(s)' = Owner(s) /\ (Raced(s)' <=> Raced(s)) /\ State(s)' = State(s)
         /\ (Owner(s) \in byRequest => Owner(s) \in byRequest')
<1>1. At(s) = s /\ At(Owner(s)) = s /\ s # Nobody
  BY Constants DEF IInv, Session, Steady
<1>2. s \in Requests /\ Owner(s) \in Requests
  BY Constants, Sorts DEF IInv, SessRecs, Owner
<1>3. s # r0 /\ Owner(s) # r0
  BY <1>1, <1>2 DEF Apart
<1>4. sess'[s] = sess[s]
  BY DEF Apart, Same
<1>5. run'[s] = run[s] /\ run'[Owner(s)] = run[Owner(s)]
      /\ (Owner(s) \in byRequest => Owner(s) \in byRequest')
  BY <1>1, <1>2, <1>3 DEF Apart
<1>. QED
  BY <1>2, <1>3, <1>4, <1>5 DEF Owner, State, Raced

LEMMA ElsewherePending ==
  ASSUME Shapes, Shapes', NEW s \in Sessions, Same(s)
  PROVE  \A n \in 1..MaxCalls : /\ <<s, n>> \in (L!Pending)' <=> <<s, n>> \in L!Pending
                                /\ <<s, n>> \in sessions' <=> <<s, n>> \in sessions
BY Constants DEF Same, L!Pending

LEMMA Elsewhere ==
  ASSUME IInv, Shapes', NEW s0, NEW r0, Apart(s0, r0), NEW s \in Sessions, s # s0
  PROVE  Session(s)'
<1>1. Same(s) /\ Session(s) /\ gone \subseteq gone'
  BY DEF Apart, IInv
<1>2. /\ sess'[s] = sess[s] /\ queue'[s] = queue[s] /\ child'[s] = child[s]
      /\ promise'[s] = promise[s] /\ items'[s] = items[s] /\ heard'[s] = heard[s]
      /\ (s \in held' <=> s \in held)
      /\ \A n \in 1..MaxCalls : /\ frames'[<<s, n>>] = frames[<<s, n>>]
                                /\ <<s, n>> \in belated' <=> <<s, n>> \in belated
  BY <1>1 DEF Same
<1>3. \A n \in 1..MaxCalls : /\ <<s, n>> \in (L!Pending)' <=> <<s, n>> \in L!Pending
                             /\ <<s, n>> \in sessions' <=> <<s, n>> \in sessions
  BY <1>1, ElsewherePending DEF IInv
<1>4. Heard(s)' /\ Ending(s)'
  BY <1>1, <1>2 DEF Session, Heard, Ending, State
<1>5. State(s)' = State(s) /\ Owner(s)' = Owner(s)
  BY <1>2 DEF State, Owner
<1>6. CASE State(s) = "none"
  <2>1. Steady(s)' /\ Fresh(s)
    BY <1>1, <1>2, <1>5, <1>6 DEF Session, Steady, Fresh, Owner
  <2>2. Called(s)' /\ Guarded(s)'
    BY <1>1, <1>3, <1>5, <1>6 DEF Session, Called, Guarded
  <2>3. Framed(s)' /\ Queued(s)'
    <3>1. ~queue[s].over
      BY <1>1, <1>6 DEF Session, Ending
    <3>. QED
      BY <1>1, <1>2, <1>5, <1>6, <3>1 DEF Session, Framed, Queued, Flooded
  <2>. QED
    BY <1>4, <2>1, <2>2, <2>3 DEF Session
<1>7. CASE State(s) # "none"
  <2>1. /\ run'[s] = run[s] /\ run'[Owner(s)] = run[Owner(s)]
        /\ (Raced(s)' <=> Raced(s))
        /\ (Owner(s) \in byRequest => Owner(s) \in byRequest')
    BY <1>7, ElsewhereRuns
  <2>2. Steady(s)'
    BY <1>1, <1>2, <1>5, <1>7, <2>1 DEF Session, Steady, At
  <2>3. Called(s)' /\ Guarded(s)'
    <3>1. Called(s)'
      BY <1>1, <1>2, <1>3, <1>5, <2>1 DEF Session, Called
    <3>2. ASSUME State(s) = "open", ~Raced(s)
          PROVE  <<s, sess[s].public>> \in sessions' \cap (L!Pending)'
      <4>1. <<s, sess[s].public>> \in sessions \cap L!Pending
        BY <1>1, <3>2 DEF Session, Guarded
      <4>2. sess[s].public \in 1..MaxCalls
        BY <4>1, Constants DEF IInv, Shapes, Calls
      <4>. QED
        BY <1>3, <4>1, <4>2
    <3>. QED
      BY <1>1, <1>2, <1>5, <2>1, <3>1, <3>2 DEF Session, Guarded
  <2>4. Framed(s)' /\ Queued(s)'
    BY <1>1, <1>2, <1>5, <2>1 DEF Session, Framed, Queued, Flooded, Shut
  <2>. QED
    BY <1>4, <2>2, <2>3, <2>4 DEF Session
<1>. QED
  BY <1>6, <1>7

LEMMA OtherClients ==
  ASSUME IInv, Shapes', NEW s0, NEW r0, Apart(s0, r0),
         NEW r \in Requests, r # r0, At(r) # s0
  PROVE  Client(r)'
<1>1. /\ Client(r) /\ run'[r] = run[r] /\ out'[r] = out[r] /\ (r \in gone' <=> r \in gone)
      /\ (r \in byRequest' => r \in byRequest)
  BY DEF Apart, IInv
<1>2. At(r)' = At(r)
  BY <1>1 DEF At
<1>3. ASSUME At(r) \in Sessions
      PROVE  /\ Same(At(r)) /\ State(At(r))' = State(At(r)) /\ Owner(At(r))' = Owner(At(r))
             /\ (Raced(At(r))' <=> Raced(At(r)))
  <2>1. State(At(r)) # "none"
    BY <1>1, <1>3 DEF Client, Steered
  <2>. QED
    BY <1>2, <1>3, <2>1, ElsewhereRuns, ZenonT(60) DEF Apart
<1>4. At(r) \in Sessions \cup {Nobody} /\ Nobody \notin Sessions
  BY Sorts, Constants DEF IInv, RunRecs, At
<1>5. Steered(r)'
  BY <1>1, <1>2, <1>3 DEF Client, Steered, Same, Active, State
<1>6. Explained(r)'
  BY <1>1, <1>2, <1>3, <1>4 DEF Client, Steered, Active, Explained, Same, Apart, Races
<1>7. Complete(r)'
  BY <1>1, <1>2, <1>3 DEF Client, Complete, Same
<1>8. Metered(r)'
  <2>1. \A q \in Requests : At(q)' = At(r) /\ At(r) \in Sessions => At(q) = At(r) /\ out'[q] = out[q]
    BY <1>4 DEF Apart, At
  <2>. QED
    BY <1>1, <1>2, <1>3, <2>1 DEF Client, Metered, Same, Spent
<1>9. Promised(r)'
  <2>. SUFFICES ASSUME out[r].end = "tool_calls" PROVE Promised(r)'
    BY <1>1 DEF Promised
  <2>1. /\ run[r].pc = "done" /\ At(r) \in Sessions /\ out[r].call \in 1..MaxCalls
        /\ ledger[<<At(r), out[r].call>>] # "unborn"
        /\ State(At(r)) = "closed" /\ <<At(r), out[r].call>> \in L!Pending => At(r) \in stale
    BY <1>1 DEF Client, Promised
  <2>2. /\ Same(At(r)) /\ State(At(r))' = State(At(r))
        /\ <<At(r), out[r].call>> \in (L!Pending)' <=> <<At(r), out[r].call>> \in L!Pending
    BY <1>3, <2>1, ElsewherePending DEF IInv
  <2>3. ledger'[<<At(r), out[r].call>>] # "unborn" /\ (At(r) \in stale' <=> At(r) \in stale)
    BY <2>1, <2>2 DEF Same
  <2>. QED
    BY <1>1, <1>2, <2>1, <2>2, <2>3 DEF Promised
<1>. QED
  BY <1>5, <1>6, <1>7, <1>8, <1>9 DEF Client

(* So it is enough to look at that session, and at the requests there.     *)
LEMMA Lift ==
  ASSUME IInv, Shapes', NEW s0, NEW r0, Apart(s0, r0),
         s0 \in Sessions => Session(s0)',
         \A r \in Requests : r = r0 \/ At(r) = s0 => Client(r)'
  PROVE  IInv'
<1>1. \A s \in Sessions : Session(s)'
  BY Elsewhere
<1>2. \A r \in Requests : Client(r)'
  BY OtherClients
<1>. QED
  BY <1>1, <1>2 DEF IInv

(* The other requests at the session: what was said to them stays true, as *)
(* long as the step undoes nothing that is over.                           *)
Lasting(s) ==
  /\ queue[s].over => queue'[s].over
  /\ sess[s].used => sess'[s].used
  /\ State(s) = "closed" /\ ~Raced(s) =>
       /\ State(s)' = "closed" /\ ~Raced(s)'
       /\ child[s].pc = "settled" =>
            /\ child'[s].pc = "settled" /\ child'[s].end = child[s].end
            /\ child'[s].said = child[s].said /\ heard'[s] = heard[s]
            /\ sess'[s].terminal = sess[s].terminal /\ sess'[s].broken = sess[s].broken
Retold(s) == \A n \in 1..MaxCalls : ledger[<<s, n>>] # "unborn" =>
  /\ ledger'[<<s, n>>] # "unborn"
  /\ State(s)' = "closed" /\ <<s, n>> \in (L!Pending)' =>
       State(s) = "closed" /\ <<s, n>> \in L!Pending
Paying(s, r0) ==
  r0 \in Requests /\ At(r0)' = s =>
    \/ out'[r0].usage = 0
    \/ out'[r0].usage = out[r0].usage /\ At(r0) = s
    \/ ~Spent(s)
(* One of the requests takes the step and drives the session, or drives it *)
(* from now on; or the step is nobody's.                                   *)
Alone(s, r0) == \A r \in Requests : r # r0 /\ At(r) = s => ~Active(r) /\ r \notin byRequest'
Nobodys(s) ==
  /\ Owner(s)' = Owner(s) /\ sess'[s].tools = sess[s].tools
  /\ State(s)' = State(s)
       \/ (State(s) = "open" /\ State(s)' = "closed" /\ Owner(s) \notin byRequest')
  /\ Raced(s) /\ sess'[s].aborted => sess[s].aborted \/ queue'[s].over \/ s \in stale'

LEMMA Bystanders ==
  ASSUME IInv, Shapes', NEW s0 \in Sessions, NEW r0, Apart(s0, r0),
         State(s0)' # "none", Lasting(s0), Retold(s0), Paying(s0, r0),
         Alone(s0, r0) \/ Nobodys(s0),
         NEW r \in Requests, r # r0, At(r) = s0
  PROVE  Client(r)'
<1>1. /\ Client(r) /\ run'[r] = run[r] /\ out'[r] = out[r] /\ (r \in gone' <=> r \in gone)
      /\ (r \in byRequest' => r \in byRequest)
  BY DEF Apart, IInv
<1>2. At(r)' = At(r) /\ s0 # Nobody /\ (Active(r)' <=> Active(r))
  BY <1>1, Constants DEF At, Active
<1>3. gone \subseteq gone' /\ stale \subseteq stale'
  BY DEF Apart
<1>4. run[r].pc # "idle"
  BY <1>1, <1>2 DEF Client, Steered
<1>5. Steered(r)' /\ Explained(r)'
  <2>1. CASE Alone(s0, r0)
    <3>1. ~Active(r) /\ r \notin byRequest'
      BY <2>1 DEF Alone
    <3>2. Steered(r)'
      BY <1>1, <1>2, <1>4, <3>1 DEF Steered, Active
    <3>. QED
      BY <1>1, <1>2, <1>3, <3>1, <3>2 DEF Client, Explained, Active, Races
  <2>2. CASE Nobodys(s0)
    <3>1. Steered(r)'
      <4>1. r \in byRequest' => State(s0)' = "open"
        BY <1>1, <2>2 DEF Client, Steered, Nobodys
      <4>2. run[r].pc \in {"listening", "failed"} => r = s0
        BY <1>1 DEF Client, Steered
      <4>. QED
        BY <1>1, <1>2, <1>4, <2>2, <4>1, <4>2 DEF Client, Steered, Nobodys, Active
    <3>2. Races(r) => Raced(s0)
      BY <1>1 DEF Client, Steered, Races, Raced, Active
    <3>3. Races(r)' <=> Races(r)
      BY <1>1 DEF Races
    <3>4. Races(r) /\ sess'[s0].aborted => queue'[s0].over \/ r \in gone' \/ s0 \in stale'
      BY <1>1, <1>3, <2>2, <3>2 DEF Client, Explained, Nobodys, Lasting
    <3>5. Explained(r)'
      BY <1>1, <1>2, <1>3, <3>3, <3>4 DEF Client, Explained
    <3>. QED
      BY <3>1, <3>5
  <2>. QED
    BY <2>1, <2>2
<1>6. Complete(r)'
  BY <1>1, <1>2 DEF Client, Complete, Lasting
<1>7. Metered(r)'
  <2>1. SUFFICES ASSUME out[r].usage > 0 PROVE Metered(r)'
    BY <1>1 DEF Metered
  <2>2. out[r].usage = 1 /\ Spent(s0)
    BY <1>1, <2>1 DEF Client, Metered
  <2>3. Spent(s0)'
    BY <2>2 DEF Spent, Lasting
  <2>4. ASSUME NEW q \in Requests, q # r, At(q)' = s0 PROVE out'[q].usage = 0
    <3>1. CASE q # r0
      <4>1. At(q) = s0 /\ out'[q] = out[q]
        BY <2>4, <3>1 DEF Apart, At
      <4>. QED
        BY <1>1, <2>1, <2>4, <4>1 DEF Client, Metered
    <3>2. CASE q = r0
      BY <1>1, <2>1, <2>2, <2>4, <3>2 DEF Client, Metered, Paying
    <3>. QED
      BY <3>1, <3>2
  <2>. QED
    BY <1>1, <1>2, <2>2, <2>3, <2>4 DEF Metered
<1>8. Promised(r)'
  <2>. SUFFICES ASSUME out[r].end = "tool_calls" PROVE Promised(r)'
    BY <1>1 DEF Promised
  <2>1. /\ run[r].pc = "done" /\ s0 \in Sessions /\ out[r].call \in 1..MaxCalls
        /\ ledger[<<s0, out[r].call>>] # "unborn"
        /\ State(s0) = "closed" /\ <<s0, out[r].call>> \in L!Pending => s0 \in stale
    BY <1>1 DEF Client, Promised
  <2>2. /\ ledger'[<<s0, out[r].call>>] # "unborn"
        /\ State(s0)' = "closed" /\ <<s0, out[r].call>> \in (L!Pending)' => s0 \in stale'
    BY <1>3, <2>1 DEF Retold
  <2>. QED
    BY <1>1, <1>2, <2>1, <2>2 DEF Promised
<1>. QED
  BY <1>5, <1>6, <1>7, <1>8 DEF Client

(* What clients were told of calls stays true as long as none of them is   *)
(* parked, or all of them are settled.                                     *)
LEMMA SameCallsRetold ==
  ASSUME NEW s \in Sessions, (L!Pending)' = L!Pending,
         \A n \in 1..MaxCalls : ledger'[<<s, n>>] = ledger[<<s, n>>],
         State(s)' = "closed" => State(s) = "closed"
  PROVE  Retold(s)
BY DEF Retold

LEMMA NoCallsRetold ==
  ASSUME NEW s \in Sessions,
         \A n \in 1..MaxCalls :
           /\ <<s, n>> \notin (L!Pending)'
           /\ ledger[<<s, n>>] # "unborn" => ledger'[<<s, n>>] # "unborn"
  PROVE  Retold(s)
BY DEF Retold

(* Closing a session, whoever does it: what is left of it.                 *)
Closes(s) ==
  /\ State(s) = "open"
  /\ State(s)' = "closed" /\ Owner(s)' = Owner(s)
  /\ sess'[s].tools = sess[s].tools /\ sess'[s].terminal = sess[s].terminal
  /\ sess'[s].broken = sess[s].broken /\ sess'[s].used = sess[s].used
  /\ sess'[s].parked \in {0, sess[s].parked} /\ promise'[s] \in {NoPromise, promise[s]}
  /\ sess'[s].aborted
  /\ child'[s].pc \in {child[s].pc, "stopping"} /\ (child[s].pc = "settled" <=> child'[s].pc = "settled")
  /\ child'[s].end = child[s].end /\ child'[s].said = child[s].said
  /\ child'[s].pc # "live" \/ s \in gone'
  /\ s \in held' => run'[s].pc = "failed"
  /\ \A n \in 1..MaxCalls : /\ <<s, n>> \notin sessions' \cup (L!Pending)'
                            /\ frames'[<<s, n>>] # "pending"
  /\ At(s)' = s /\ At(Owner(s))' = s
  /\ Raced(s)' => Raced(s)

(* Between the pumps' steps, a call waits for a driver only whose run is   *)
(* over.                                                                   *)
LEMMA NothingWaits ==
  ASSUME IInv, NEW s \in Sessions, Quiet, State(s) # "none", Raced(s), promise[s] \in 1..MaxCalls
  PROVE  queue[s].closed /\ queue[s].events = <<>>
<1>1. At(Owner(s)) = s /\ Owner(s) \in Requests
  BY Sorts DEF IInv, Session, Steady, SessRecs, Owner
<1>2. Races(Owner(s)) /\ ~Offered(Owner(s)) /\ Handed(s)
  BY <1>1 DEF Quiet, Raced, Races, Handed
<1>. QED
  BY <1>1, <1>2 DEF Offered, Shut

LEMMA ClosedSession ==
  ASSUME IInv, Shapes', NEW s \in Sessions, Closes(s), queue'[s] = queue[s], heard'[s] = heard[s],
         Quiet, \A n \in 1..MaxCalls : frames[<<s, n>>] = "unsent" => frames'[<<s, n>>] = "unsent"
  PROVE  Session(s)'
<1>1. Session(s)
  BY DEF IInv
<1>2. Steady(s)'
  BY <1>1 DEF Session, Steady, Closes, At, Owner
<1>3. Called(s)' /\ Guarded(s)'
  BY DEF Called, Guarded, Closes
<1>4. Framed(s)'
  <2>1. Raced(s) /\ promise[s] \in 1..MaxCalls => queue[s].closed /\ queue[s].events = <<>>
    BY NothingWaits DEF Closes
  <2>. QED
    BY <1>1, <2>1, Constants DEF Session, Framed, Closes, NoPromise, Shut
<1>5. Ending(s)'
  BY <1>1 DEF Session, Ending, Closes
<1>6. Heard(s)' /\ Queued(s)'
  BY <1>1 DEF Session, Heard, Queued, Closes
<1>. QED
  BY <1>2, <1>3, <1>4, <1>5, <1>6 DEF Session

LEMMA ClosedFields ==
  ASSUME NEW rec \in SessRecs
  PROVE  LET new == Closed(rec) IN
         /\ new.state = "closed" /\ new.aborted /\ new.parked = 0 /\ new.public = 0
         /\ new.owner = rec.owner /\ new.tools = rec.tools /\ new.gate = rec.gate
         /\ new.terminal = rec.terminal /\ new.broken = rec.broken /\ new.used = rec.used
BY DEF SessRecs, Closed

LEMMA StoppingFields ==
  ASSUME NEW rec \in ChildRecs
  PROVE  LET new == Stopping(rec) IN
         /\ new.pc = (IF rec.pc = "live" THEN "stopping" ELSE rec.pc)
         /\ new.end = rec.end /\ new.said = rec.said /\ new.late = rec.late
BY DEF ChildRecs, Stopping

LEMMA SettledCalls ==
  ASSUME Shapes, NEW s, NEW fate \in {"expired", "cancelled"},
         L!SettleSome({c \in L!Pending : c[1] = s}, fate)
  PROVE  \A c \in Calls : /\ c[1] = s => c \notin (L!Pending)'
                          /\ c[1] # s => ledger'[c] = ledger[c]
                          /\ ledger[c] # "unborn" => ledger'[c] # "unborn"
BY Sorts DEF L!SettleSome, L!Pending

LEMMA OpenCloses ==
  ASSUME IInv, NEW s \in Sessions, State(s) = "open", NEW fate \in {"expired", "cancelled"},
         Closing(s, sess[s], fate)
  PROVE  /\ State(s)' = "closed" /\ Owner(s)' = Owner(s)
         /\ sess'[s].tools = sess[s].tools /\ sess'[s].terminal = sess[s].terminal
         /\ sess'[s].broken = sess[s].broken /\ sess'[s].used = sess[s].used
         /\ sess'[s].parked = 0 /\ sess'[s].aborted
         /\ child'[s].pc \in {child[s].pc, "stopping"}
         /\ (child[s].pc = "settled" <=> child'[s].pc = "settled")
         /\ child'[s].end = child[s].end /\ child'[s].said = child[s].said
         /\ child'[s].pc # "live" \/ s \in gone
         /\ held' = held \ {s} /\ byRequest' = byRequest \ {Owner(s)}
         /\ \A n \in 1..MaxCalls : <<s, n>> \notin sessions' \cup (L!Pending)'
         /\ Retold(s)
         /\ \A t \in Sessions : t # s =>
              /\ sess'[t] = sess[t] /\ child'[t] = child[t]
              /\ \A n \in 1..MaxCalls : /\ <<t, n>> \in sessions' <=> <<t, n>> \in sessions
                                        /\ ledger'[<<t, n>>] = ledger[<<t, n>>]
<1>1. sess[s] \in SessRecs /\ child[s] \in ChildRecs /\ Shapes /\ Session(s)
  BY Sorts DEF IInv
<1>2. /\ sess' = [sess EXCEPT ![s] = Closed(sess[s])]
      /\ child' = [child EXCEPT ![s] = Terminated(s)]
      /\ sessions' = sessions \ {<<s, sess[s].public>>}
      /\ byRequest' = byRequest \ {Owner(s)} /\ held' = held \ {s}
      /\ L!SettleSome({c \in L!Pending : c[1] = s}, fate)
  BY DEF Closing, State, Unbound, Owner
<1>3. sess'[s] = Closed(sess[s]) /\ child'[s] = Terminated(s)
      /\ \A t \in Sessions : t # s => sess'[t] = sess[t] /\ child'[t] = child[t]
  BY <1>1, <1>2, Sorts
<1>4. /\ State(s)' = "closed" /\ Owner(s)' = Owner(s)
      /\ sess'[s].tools = sess[s].tools /\ sess'[s].terminal = sess[s].terminal
      /\ sess'[s].broken = sess[s].broken /\ sess'[s].used = sess[s].used
      /\ sess'[s].parked = 0 /\ sess'[s].aborted
  BY <1>1, <1>3, ClosedFields DEF State, Owner
<1>5. /\ child'[s].pc \in {child[s].pc, "stopping"}
      /\ (child[s].pc = "settled" <=> child'[s].pc = "settled")
      /\ child'[s].end = child[s].end /\ child'[s].said = child[s].said
      /\ child'[s].pc # "live" \/ s \in gone
  <2>1. CASE sess[s].aborted
    BY <1>1, <1>3, <2>1 DEF Terminated, Aborted, Session, Ending
  <2>2. CASE ~sess[s].aborted
    <3>1. child'[s] = Stopping(child[s])
      BY <1>3, <2>2 DEF Terminated, Aborted
    <3>. QED
      BY <1>1, <3>1, StoppingFields
  <2>. QED
    BY <2>1, <2>2
<1>6. \A c \in Calls : /\ c[1] = s => c \notin (L!Pending)'
                       /\ c[1] # s => ledger'[c] = ledger[c]
                       /\ ledger[c] # "unborn" => ledger'[c] # "unborn"
  BY <1>1, <1>2, SettledCalls
<1>7. \A n \in 1..MaxCalls : <<s, n>> \notin sessions' \cup (L!Pending)'
  <2>1. \A n \in 1..MaxCalls : <<s, n>> \in Calls
    BY Constants
  <2>2. \A n \in 1..MaxCalls : <<s, n>> \in sessions => sess[s].public = n
    BY <1>1 DEF Session, Called
  <2>. QED
    BY <1>2, <1>6, <2>1, <2>2
<1>8. \A t \in Sessions : t # s =>
        \A n \in 1..MaxCalls : /\ <<t, n>> \in sessions' <=> <<t, n>> \in sessions
                               /\ ledger'[<<t, n>>] = ledger[<<t, n>>]
  BY <1>2, <1>6, Constants
<1>9. Retold(s)
  BY <1>6, <1>7, Constants, NoCallsRetold
<1>. QED
  BY <1>2, <1>3, <1>4, <1>5, <1>7, <1>8, <1>9

LEMMA ShedFrames ==
  ASSUME Shapes, NEW s \in Sessions, NEW rec, NEW extra, frames' = Shed(s, rec, extra)
  PROVE  \A t \in Sessions, n \in 1..MaxCalls :
           /\ t = s /\ frames'[<<t, n>>] = "pending" =>
                frames[<<t, n>>] = "pending" /\ rec.state # "open"
           /\ t # s => frames'[<<t, n>>] = frames[<<t, n>>]
           /\ frames[<<t, n>>] = "unsent" => frames'[<<t, n>>] = "unsent"
BY Constants DEF Shed

(* A session that is not open has nothing to close.                        *)
LEMMA ClosingNothing ==
  ASSUME NEW s \in Sessions, Shapes, State(s) # "open", NEW fate, Closing(s, sess[s], fate)
  PROVE  sess' = sess /\ child' = child /\ UNCHANGED maps
BY Sorts DEF Closing, State

-------------------------------------------------------------------------------
(* Every step keeps the invariant.  First the steps that are nobody's.     *)
LEMMA Basics ==
  ASSUME IInv, NEW s \in Sessions
  PROVE  /\ Session(s) /\ Shapes
         /\ sess[s] \in SessRecs /\ queue[s] \in QueueRecs /\ child[s] \in ChildRecs
         /\ heard[s] \in Seq(Nat) /\ queue[s].events \in Seq(Kinds \X Nat)
         /\ s \in Requests /\ Owner(s) \in Requests /\ s # Nobody
<1>1. sess[s] \in SessRecs /\ queue[s] \in QueueRecs /\ child[s] \in ChildRecs
      /\ heard[s] \in Seq(Nat)
  BY Sorts DEF IInv
<1>. QED
  BY <1>1, Constants DEF IInv, SessRecs, QueueRecs, Owner

LEMMA NobodyLift ==
  ASSUME IInv, Shapes', NEW s \in Sessions, Apart(s, Nobody), Session(s)',
         State(s)' # "none", Lasting(s), Retold(s), Nobodys(s)
  PROVE  IInv'
<1>1. Nobody \notin Requests
  BY Constants
<1>2. Paying(s, Nobody)
  BY <1>1 DEF Paying
<1>3. \A r \in Requests : r = Nobody \/ At(r) = s => Client(r)'
  BY <1>1, <1>2, Bystanders
<1>. QED
  BY <1>3, Lift

LEMMA DriverLift ==
  ASSUME IInv, Shapes', NEW s \in Sessions, NEW r0 \in Requests, Apart(s, r0), Session(s)',
         Client(r0)', State(s)' # "none", Lasting(s), Retold(s), Paying(s, r0), Alone(s, r0)
  PROVE  IInv'
<1>1. \A r \in Requests : r = r0 \/ At(r) = s => Client(r)'
  BY Bystanders
<1>. QED
  BY <1>1, Lift

LEMMA DriverAlone ==
  ASSUME IInv, NEW s \in Sessions, NEW r0, Owner(s) = r0, Apart(s, r0)
  PROVE  Alone(s, r0)
BY DEF IInv, Client, Steered, Apart, Alone

(* The driver of a session is its owner, and the owner of a session is     *)
(* there.                                                                  *)
LEMMA Drivers ==
  ASSUME IInv, NEW r \in Requests, Active(r)
  PROVE  /\ At(r) \in Sessions /\ Owner(At(r)) = r /\ State(At(r)) # "none"
         /\ (Raced(At(r)) <=> Races(r)) /\ Client(r)
BY DEF IInv, Client, Steered, Raced, Races

LEMMA RacedIsDriven ==
  ASSUME IInv, NEW s \in Sessions, State(s) # "none", Raced(s)
  PROVE  Driven(s)
<1>1. At(Owner(s)) = s /\ Owner(s) \in Requests
  BY Basics DEF Session, Steady
<1>. QED
  BY <1>1 DEF Raced, Driven, Races

LEMMA Whereabouts ==
  ASSUME IInv, NEW s \in Sessions, State(s) # "none"
  PROVE  At(s) = s /\ At(Owner(s)) = s
BY Basics DEF Session, Steady

LEMMA ClosingApart ==
  ASSUME IInv, NEW s \in Sessions, State(s) = "open", NEW fate \in {"expired", "cancelled"},
         Closing(s, sess[s], fate),
         UNCHANGED <<promise, items, queue, run, gone, out, heard, belated>>,
         stale' \in {stale, stale \cup {s}},
         \A t \in Sessions, n \in 1..MaxCalls : t # s => frames'[<<t, n>>] = frames[<<t, n>>]
  PROVE  Apart(s, Nobody)
<1>1. \A t \in Sessions : t # s => Same(t)
  <2>. SUFFICES ASSUME NEW t \in Sessions, t # s PROVE Same(t)
    OBVIOUS
  <2>1. /\ sess'[t] = sess[t] /\ child'[t] = child[t] /\ held' = held \ {s}
        /\ \A n \in 1..MaxCalls : /\ <<t, n>> \in sessions' <=> <<t, n>> \in sessions
                                  /\ ledger'[<<t, n>>] = ledger[<<t, n>>]
    BY OpenCloses
  <2>. QED
    BY <2>1 DEF Same
<1>2. byRequest' = byRequest \ {Owner(s)} /\ At(Owner(s)) = s
  BY OpenCloses, Whereabouts
<1>. QED
  BY <1>1, <1>2, Constants DEF Apart

LEMMA Untouched ==
  ASSUME IInv, NEW s \in Sessions, gone \subseteq gone',
         UNCHANGED <<frames, promise, items, sess, queue, child, run, heard, sessions,
                     byRequest, held, ledger, belated>>
  PROVE  Session(s)'
<1>1. Session(s)
  BY Basics
<1>2. UNCHANGED <<State(s), Owner(s), Raced(s)>> /\ (L!Pending)' = L!Pending
  BY DEF State, Owner, Raced, L!Pending
<1>3. Steady(s)'
  BY <1>1, <1>2 DEF Session, Steady, At, Fresh
<1>4. Called(s)' /\ Guarded(s)' /\ Framed(s)'
  BY <1>1, <1>2 DEF Session, Called, Guarded, Framed, Flooded, Shut
<1>5. Ending(s)' /\ Heard(s)' /\ Queued(s)'
  BY <1>1, <1>2 DEF Session, Ending, Heard, Queued
<1>. QED
  BY <1>3, <1>4, <1>5 DEF Session

LEMMA KeepDeadline ==
  ASSUME IInv, NEW s \in Sessions, Deadline(s)
  PROVE  IInv'
<1>1. Shapes' /\ Shapes
  BY Basics, ShapesDeadline
<1>2. PICK fate \in {"expired", "cancelled"} : CloseToolSession(s, sess[s], 0, fate)
  BY DEF Deadline
<1>3. UNCHANGED <<promise, items, queue, run, gone, out, heard, belated>>
      /\ stale' = (IF Driven(s) THEN stale \cup {s} ELSE stale)
  BY DEF Deadline, EventFrame
<1>4. State(s) = "open" /\ Quiet
  BY DEF Deadline, State
<1>5. Closing(s, sess[s], fate) /\ frames' = Shed(s, sess[s], 0)
  BY <1>2 DEF CloseToolSession
<1>6. \A t \in Sessions, n \in 1..MaxCalls :
        /\ t = s => frames'[<<t, n>>] # "pending"
        /\ t # s => frames'[<<t, n>>] = frames[<<t, n>>]
        /\ frames[<<t, n>>] = "unsent" => frames'[<<t, n>>] = "unsent"
  <2>1. sess[s].state = "open"
    BY <1>4 DEF State
  <2>. QED
    BY <1>5, <2>1, Constants DEF Shed
<1>7. Apart(s, Nobody)
  BY <1>3, <1>4, <1>5, <1>6, ClosingApart
<1>8. Closes(s) /\ Retold(s)
  BY <1>3, <1>4, <1>5, <1>6, OpenCloses, Whereabouts DEF Closes, At, Raced
<1>9. Session(s)'
  BY <1>1, <1>3, <1>4, <1>6, <1>8, ClosedSession
<1>10. Lasting(s)
  BY <1>3, <1>4, <1>8 DEF Lasting, Closes
<1>11. Nobodys(s)
  <2>1. Owner(s) \notin byRequest'
    BY <1>4, <1>5, OpenCloses
  <2>2. Raced(s) => s \in stale'
    BY <1>3, <1>4, RacedIsDriven
  <2>. QED
    BY <1>4, <1>8, <2>1, <2>2 DEF Nobodys, Closes
<1>. QED
  BY <1>1, <1>7, <1>8, <1>9, <1>10, <1>11, NobodyLift DEF Closes

LEMMA KeepLateDeadline ==
  ASSUME IInv, NEW s \in Sessions, LateDeadline(s)
  PROVE  IInv'
<1>1. /\ Shapes' /\ Shapes /\ Session(s) /\ sess[s] \in SessRecs /\ State(s) = "closed"
  BY Basics, ShapesLateDeadline DEF LateDeadline, State
<1>2. /\ sess' = [sess EXCEPT ![s].deadlines = 0]
      /\ L!SettleSome({c \in L!Pending : c[1] = s}, "expired")
      /\ UNCHANGED <<frames, promise, items, queue, child, run, sessions, byRequest, held, gone,
                     out, heard, stale, belated>>
  BY DEF LateDeadline, EventFrame
<1>3. /\ sess'[s] = [sess[s] EXCEPT !.deadlines = 0]
      /\ \A t \in Sessions : t # s => sess'[t] = sess[t]
  BY <1>1, <1>2, Sorts
<1>4. /\ State(s)' = "closed" /\ Owner(s)' = Owner(s) /\ sess'[s].tools = sess[s].tools
      /\ sess'[s].aborted = sess[s].aborted /\ sess'[s].gate = sess[s].gate
      /\ sess'[s].parked = sess[s].parked /\ sess'[s].public = sess[s].public
      /\ sess'[s].terminal = sess[s].terminal /\ sess'[s].broken = sess[s].broken
      /\ sess'[s].used = sess[s].used
  BY <1>1, <1>3 DEF State, Owner, SessRecs
<1>5. Raced(s)' <=> Raced(s)
  BY <1>2, <1>4 DEF Raced
<1>6. \A c \in Calls : /\ c[1] = s => c \notin (L!Pending)'
                       /\ c[1] # s => ledger'[c] = ledger[c]
                       /\ ledger[c] # "unborn" => ledger'[c] # "unborn"
  BY <1>1, <1>2, SettledCalls
<1>7. /\ \A n \in 1..MaxCalls : <<s, n>> \notin (L!Pending)'
      /\ \A t \in Sessions, n \in 1..MaxCalls : t # s => ledger'[<<t, n>>] = ledger[<<t, n>>]
  BY <1>6, Constants
<1>8. Apart(s, Nobody)
  BY <1>2, <1>3, <1>7, Constants DEF Apart, Same
<1>9. Session(s)'
  <2>1. Steady(s)'
    BY <1>1, <1>2, <1>4 DEF Session, Steady, At
  <2>2. Called(s)' /\ Guarded(s)'
    BY <1>1, <1>2, <1>4, <1>7 DEF Session, Called, Guarded
  <2>3. Framed(s)'
    BY <1>1, <1>2, <1>4, <1>5 DEF Session, Framed, Shut, Flooded
  <2>4. Ending(s)' /\ Heard(s)' /\ Queued(s)'
    BY <1>1, <1>2, <1>4, <1>5 DEF Session, Ending, Heard, Queued
  <2>. QED
    BY <2>1, <2>2, <2>3, <2>4 DEF Session
<1>10. Lasting(s) /\ Nobodys(s)
  BY <1>1, <1>2, <1>4, <1>5 DEF Lasting, Nobodys
<1>11. Retold(s)
  BY <1>6, <1>7, Constants, NoCallsRetold
<1>. QED
  BY <1>1, <1>4, <1>8, <1>9, <1>10, <1>11, NobodyLift

(* A frame ends, and nothing else happens.                                 *)
LEMMA FrameEnds ==
  ASSUME IInv, Shapes', NEW c \in Calls, frames[c] = "pending", NEW how,
         how \notin {"pending", "unsent"}, frames' = [frames EXCEPT ![c] = how],
         UNCHANGED <<promise, items, queue, run, gone, out, heard, sess, child, sessions,
                     byRequest, held, ledger, stale, belated>>
  PROVE  IInv'
<1> DEFINE s == c[1]
<1>1. s \in Sessions /\ c[2] \in 1..MaxCalls /\ c = <<s, c[2]>>
  BY Constants
<1>2. Session(s)
  BY <1>1, Basics
<1>3. frames \in [Calls -> FrameStatuses]
  BY Sorts DEF IInv
<1>4. State(s) # "none"
  BY <1>1, <1>2 DEF Session, Framed
<1>5. Apart(s, Nobody)
  BY <1>1, <1>3, Constants DEF Apart, Same
<1>6. UNCHANGED <<State(s), Owner(s), Raced(s)>> /\ (L!Pending)' = L!Pending
  BY DEF State, Owner, Raced, L!Pending
<1>7. Session(s)'
  <2>1. Steady(s)'
    BY <1>2, <1>6 DEF Session, Steady, At, Fresh
  <2>2. Called(s)' /\ Guarded(s)'
    BY <1>2, <1>6 DEF Session, Called, Guarded
  <2>3. Ending(s)' /\ Heard(s)' /\ Queued(s)'
    BY <1>2, <1>6 DEF Session, Ending, Heard, Queued
  <2>4. \A n \in 1..MaxCalls : /\ frames'[<<s, n>>] = "pending" => frames[<<s, n>>] = "pending"
                               /\ frames[<<s, n>>] = "unsent" => frames'[<<s, n>>] = "unsent"
    BY <1>1, <1>3, Constants
  <2>5. Framed(s)'
    BY <1>2, <1>6, <2>4 DEF Session, Framed, Shut, Flooded
  <2>. QED
    BY <2>1, <2>2, <2>3, <2>5 DEF Session
<1>8. Lasting(s) /\ Nobodys(s)
  BY <1>6 DEF Lasting, Nobodys
<1>9. Retold(s)
  BY <1>1, <1>6, SameCallsRetold
<1>. QED
  BY <1>1, <1>4, <1>5, <1>6, <1>7, <1>8, <1>9, NobodyLift

LEMMA KeepFrameExpires ==
  ASSUME IInv, NEW c \in Calls, FrameExpires(c)
  PROVE  IInv'
<1>1. Shapes' /\ frames[c] = "pending"
  BY ShapesFrameExpires DEF FrameExpires, IInv
<1>2. frames' = [frames EXCEPT ![c] = "error"]
  BY <1>1 DEF FrameExpires, Answered
<1>. QED
  BY <1>1, <1>2, FrameEnds DEF FrameExpires, EventFrame, maps

(* A frame that is lost while a pump is at the open session was handed to  *)
(* it; it is still there only if the queue is over.                        *)
LEMMA LostFrames ==
  ASSUME IInv, NEW s \in Sessions, NEW n \in 1..MaxCalls, frames[<<s, n>>] = "pending",
         Quiet, Raced(s), State(s) = "open"
  PROVE  queue[s].over
<1>1. Session(s) /\ child[s] \in ChildRecs /\ sess[s] \in SessRecs
  BY Basics
<1>2. CASE Flooded(s)
  BY <1>2 DEF Flooded
<1>3. CASE ~Flooded(s)
  <2>1. sess[s].parked = 0 /\ n \in {promise[s], sess[s].parked}
    BY <1>1, <1>3 DEF Session, Framed
  <2>2. promise[s] = n /\ Handed(s)
    BY <2>1 DEF Handed
  <2>3. At(Owner(s)) = s /\ Owner(s) \in Requests /\ Races(Owner(s))
    BY Whereabouts, Basics DEF Raced, Races
  <2>4. Shut(s) /\ child[s].pc # "settled"
    BY <2>2, <2>3 DEF Quiet, Reading, Offered
  <2>. QED
    BY <1>1, <2>4 DEF Shut, Session, Ending
<1>. QED
  BY <1>2, <1>3

LEMMA KeepLoseFrame ==
  ASSUME IInv, NEW c \in Calls, LoseFrame(c)
  PROVE  IInv'
<1> DEFINE s == c[1]
           n == c[2]
<1>1. s \in Sessions /\ n \in 1..MaxCalls /\ c = <<s, n>> /\ frames[<<s, n>>] = "pending" /\ Quiet
  BY Constants DEF LoseFrame
<1>2. Shapes' /\ Shapes /\ Session(s) /\ State(s) \in {"open", "closed"}
  BY <1>1, Basics, ShapesLoseFrame DEF Session, Framed
<1>3. UNCHANGED <<promise, items, queue, run, gone, out, heard, stale, belated>>
      /\ Closing(s, sess[s], "cancelled")
      /\ frames' = [Shed(s, sess[s], 0) EXCEPT ![c] = "lost"]
  BY DEF LoseFrame, EventFrame
<1>4. CASE State(s) = "open"
  <2>1. \A t \in Sessions, k \in 1..MaxCalls :
          /\ t = s => frames'[<<t, k>>] # "pending"
          /\ t # s => frames'[<<t, k>>] = frames[<<t, k>>]
          /\ frames[<<t, k>>] = "unsent" => frames'[<<t, k>>] = "unsent"
    BY <1>1, <1>3, <1>4, Constants DEF Shed, State
  <2>2. Apart(s, Nobody)
    BY <1>1, <1>3, <1>4, <2>1, ClosingApart
  <2>3. Closes(s) /\ Retold(s)
    BY <1>1, <1>3, <1>4, <2>1, OpenCloses, Whereabouts DEF Closes, At, Raced
  <2>4. Session(s)'
    BY <1>1, <1>2, <1>3, <2>1, <2>3, ClosedSession
  <2>5. Lasting(s)
    BY <1>3, <1>4, <2>3 DEF Lasting, Closes
  <2>6. Nobodys(s)
    <3>1. Owner(s) \notin byRequest'
      BY <1>1, <1>3, <1>4, OpenCloses
    <3>2. Raced(s) => queue'[s].over
      BY <1>1, <1>3, <1>4, LostFrames
    <3>. QED
      BY <1>4, <2>3, <3>1, <3>2 DEF Nobodys, Closes
  <2>. QED
    BY <1>1, <1>2, <2>2, <2>3, <2>4, <2>5, <2>6, NobodyLift DEF Closes
<1>5. CASE State(s) = "closed"
  <2>1. UNCHANGED <<sess, child, sessions, byRequest, held, ledger>>
    BY <1>1, <1>2, <1>3, <1>5, ClosingNothing DEF maps
  <2>2. Shed(s, sess[s], 0) = frames
    <3>1. sess[s].state # "open" /\ \A k \in Calls : k[2] # 0
      BY <1>5, Constants DEF State
    <3>2. frames = [k \in Calls |-> frames[k]]
      BY <1>2, Sorts
    <3>. QED
      BY <3>1, <3>2, Zenon DEF Shed
  <2>. QED
    BY <1>1, <1>2, <1>3, <2>1, <2>2, FrameEnds
<1>. QED
  BY <1>2, <1>4, <1>5

(* A frame that finds nobody who waits for it, at an open session whose    *)
(* gate is open, finds the queue over.                                     *)
LEMMA AcceptsOnlyWaited ==
  ASSUME IInv, NEW s \in Sessions, Quiet, State(s) = "open", sess[s].tools, ~sess[s].gate
  PROVE  Raced(s) /\ sess[s].parked = 0 /\ (promise[s] = Waiting \/ Flooded(s))
<1>1. Session(s) /\ promise[s] \in 0..(MaxCalls + 1) /\ MaxCalls \in Nat
  BY Basics, Sorts, Constants DEF IInv
<1>2. Raced(s)
  BY <1>1 DEF Session, Guarded
<1>3. promise[s] # NoPromise /\ sess[s].parked = 0
  BY <1>1, <1>2 DEF Session, Framed
<1>4. At(Owner(s)) = s /\ Owner(s) \in Requests /\ Races(Owner(s))
  BY <1>2, Whereabouts, Basics DEF Raced, Races
<1>5. CASE Handed(s)
  <2>1. Shut(s) /\ child[s].pc # "settled"
    BY <1>4, <1>5 DEF Quiet, Offered, Reading
  <2>. QED
    BY <1>1, <1>2, <1>3, <2>1 DEF Shut, Session, Ending, Flooded
<1>6. CASE ~Handed(s)
  BY <1>1, <1>2, <1>3, <1>6 DEF Handed, Waiting, NoPromise
<1>. QED
  BY <1>5, <1>6

LEMMA KeepReceiveCall ==
  ASSUME IInv, NEW s \in Sessions, ReceiveCall(s)
  PROVE  IInv'
<1>1. /\ Session(s) /\ Shapes /\ Shapes' /\ Quiet /\ MaxCalls \in Nat
      /\ frames \in [Calls -> FrameStatuses] /\ promise \in [Sessions -> 0..(MaxCalls + 1)]
      /\ items \in [Sessions -> Seq(1..MaxCalls)] /\ belated \subseteq Calls
  BY Basics, Sorts, Constants, ShapesReceiveCall DEF ReceiveCall
<1>2. State(s) \in {"open", "closed"} /\ sess[s].tools
  <2>1. promise[s] # NoPromise \/ \E n \in 1..MaxCalls : frames[<<s, n>>] # "unsent"
    BY DEF ReceiveCall, Published, Unsent
  <2>2. State(s) \notin {"none", "starting"} /\ sess[s].tools
    BY <1>1, <2>1 DEF Session, Framed
  <2>. QED
    BY <2>2, Basics DEF State, SessRecs
<1>3. UNCHANGED <<sess, child, sessions, byRequest, held, ledger, stale, queue, run, gone,
                  out, heard>>
  BY DEF ReceiveCall, maps
<1>4. PICK n \in 1..MaxCalls :
        /\ frames[<<s, n>>] = "unsent"
        /\ \/ /\ frames' = [frames EXCEPT ![<<s, n>>] = "pending"] /\ ~sess[s].gate
              /\ \/ /\ promise[s] = Waiting /\ promise' = [promise EXCEPT ![s] = n]
                    /\ items' = items
                 \/ /\ promise[s] # Waiting /\ promise' = promise
                    /\ Len(items[s]) < QueueSize
                    /\ items' = [items EXCEPT ![s] = Append(items[s], n)]
           \/ /\ frames' = [frames EXCEPT ![<<s, n>>] = "error"]
              /\ promise' = promise /\ items' = items
  BY Received DEF ReceiveCall
<1>5. /\ \A t \in Sessions, k \in 1..MaxCalls :
           <<t, k>> # <<s, n>> => frames'[<<t, k>>] = frames[<<t, k>>]
      /\ <<s, n>> \in Calls /\ frames'[<<s, n>>] \in {"pending", "error"}
      /\ \A t \in Sessions : t # s => promise'[t] = promise[t] /\ items'[t] = items[t]
  BY <1>1, <1>4, Constants
<1>6. /\ \A t \in Sessions, k \in 1..MaxCalls :
           <<t, k>> # <<s, n>> => (<<t, k>> \in belated' <=> <<t, k>> \in belated)
      /\ belated \subseteq belated'
      /\ State(s) = "closed" => <<s, n>> \in belated'
  BY <1>4, <1>5, Constants DEF ReceiveCall, State
<1>7. Apart(s, Nobody)
  <2>1. ASSUME NEW t \in Sessions, t # s PROVE Same(t)
    BY <1>3, <1>5, <1>6, <2>1 DEF Same
  <2>. QED
    BY <1>3, <2>1, Constants DEF Apart
<1>8. UNCHANGED <<State(s), Owner(s), Raced(s)>> /\ (L!Pending)' = L!Pending
  BY <1>3 DEF State, Owner, Raced, L!Pending
<1>9. State(s) = "open" /\ ~sess[s].gate =>
        Raced(s) /\ sess[s].parked = 0 /\ (promise[s] = Waiting \/ Flooded(s))
  BY <1>1, <1>2, AcceptsOnlyWaited
<1>10. \A k \in 1..MaxCalls : frames'[<<s, k>>] = "pending" => frames[<<s, k>>] = "pending" \/ k = n
  BY <1>5
<1>11. Session(s)'
  <2>1. Steady(s)'
    BY <1>1, <1>2, <1>3, <1>8 DEF Session, Steady, At
  <2>2. Called(s)'
    BY <1>1, <1>3, <1>6, <1>8 DEF Session, Called
  <2>3. Guarded(s)'
    BY <1>1, <1>3, <1>4, <1>8, <1>9 DEF Session, Guarded
  <2>4. Ending(s)' /\ Heard(s)' /\ Queued(s)'
    BY <1>1, <1>3, <1>8 DEF Session, Ending, Heard, Queued
  <2>5. Framed(s)'
    <3>1. Flooded(s)' <=> Flooded(s)
      BY <1>3, <1>8 DEF Flooded
    <3>2. CASE State(s) = "closed"
      <4>1. \A k \in 1..MaxCalls : frames'[<<s, k>>] = "pending" => <<s, k>> \in belated'
        BY <1>1, <1>6, <1>10, <3>2 DEF Session, Framed
      <4>2. promise'[s] \in {promise[s], n}
        BY <1>1, <1>4
      <4>3. ASSUME Raced(s)
            PROVE  /\ sess'[s].aborted /\ sess'[s].parked = 0
                   /\ promise'[s] \in 1..MaxCalls => Shut(s)' \/ <<s, promise'[s]>> \in belated'
        BY <1>1, <1>3, <1>6, <3>2, <4>2, <4>3 DEF Session, Framed, Shut
      <4>. QED
        BY <1>2, <1>3, <1>8, <3>2, <4>1, <4>3 DEF Framed
    <3>3. CASE State(s) = "open" /\ frames' = [frames EXCEPT ![<<s, n>>] = "error"]
               /\ promise' = promise /\ items' = items
      <4>1. \A k \in 1..MaxCalls : frames'[<<s, k>>] = "pending" => frames[<<s, k>>] = "pending"
        BY <1>1, <1>5, <3>3
      <4>. QED
        BY <1>1, <1>2, <1>3, <1>8, <3>1, <3>3, <4>1 DEF Session, Framed
    <3>4. CASE State(s) = "open" /\ ~sess[s].gate /\ promise[s] = Waiting
               /\ promise' = [promise EXCEPT ![s] = n] /\ items' = items
      <4>1. promise'[s] = n /\ n # NoPromise /\ promise[s] \notin 1..MaxCalls
        BY <1>1, <3>4 DEF NoPromise, Waiting
      <4>2. \A k \in 1..MaxCalls : frames'[<<s, k>>] = "pending" => k = n \/ Flooded(s)
        <5>1. \A k \in 1..MaxCalls : frames[<<s, k>>] = "pending" =>
                k \in {promise[s], sess[s].parked} \/ Flooded(s)
          BY <1>1, <3>4 DEF Session, Framed
        <5>2. \A k \in 1..MaxCalls : k # 0
          BY <1>1
        <5>. QED
          BY <1>9, <1>10, <3>4, <4>1, <5>1, <5>2, Zenon
      <4>3. items'[s] = <<>> \/ Flooded(s)
        BY <1>1, <3>4 DEF Session, Framed
      <4>. QED
        BY <1>2, <1>3, <1>8, <1>9, <3>1, <3>4, <4>1, <4>2, <4>3 DEF Framed
    <3>5. CASE State(s) = "open" /\ ~sess[s].gate /\ promise[s] # Waiting /\ promise' = promise
      <4>1. Flooded(s) /\ promise'[s] # NoPromise
        BY <1>1, <1>2, <1>9, <3>5 DEF Session, Framed
      <4>. QED
        BY <1>2, <1>3, <1>8, <1>9, <3>1, <3>5, <4>1 DEF Framed
    <3>. QED
      BY <1>2, <1>4, <3>2, <3>3, <3>4, <3>5
  <2>. QED
    BY <2>1, <2>2, <2>3, <2>4, <2>5 DEF Session
<1>12. Lasting(s) /\ Nobodys(s)
  BY <1>2, <1>3, <1>8 DEF Lasting, Nobodys
<1>13. Retold(s)
  BY <1>3, <1>8, SameCallsRetold
<1>. QED
  BY <1>1, <1>2, <1>7, <1>8, <1>11, <1>12, <1>13, NobodyLift

(* A line, or the last one: what it does to the queue and its texts.       *)
LEMMA FedFields ==
  ASSUME NEW q \in QueueRecs, NEW es \in Seq(Kinds \X Nat)
  PROVE  LET new == Fed(q, es) IN
         /\ q.closed => new = q
         /\ ~q.closed /\ ~new.over => new.events = q.events \o es /\ ~new.closed
         /\ ~q.closed /\ ~q.over /\ new.over => new.closed /\ new.events = <<>>
         /\ ~q.closed /\ q.over => new.over \/ new = q
BY DEF Fed, QueueRecs

(* What the events of a line say: one text at most, the next one, and one  *)
(* exactly if the line says something.                                     *)
LEMMA EventTexts ==
  ASSUME Shapes, NEW s \in Sessions, NEW line
  PROVE  LET es == Events(s, line) IN
         /\ \A i \in 1..Len(es) : es[i][1] = "text" => i = 1 /\ es[i][2] = child[s].said + 1
         /\ Says(s, line) <=> \E i \in 1..Len(es) : es[i][1] = "text"
<1> DEFINE n == child[s].said + 1
<1>1. CASE line = "text"
  <2>1. Events(s, line) = <<<<"text", n>>>> /\ Says(s, line)
    BY <1>1 DEF Events, Says
  <2>. HIDE DEF n
  <2>2. \A i \in 1..Len(<<<<"text", n>>>>) : i = 1
    OBVIOUS
  <2>. QED
    BY <2>1, <2>2 DEF n
<1>2. CASE line = "usage" \/ line = "result" \/ line \notin {"text", "usage", "result", "answer"}
  <2>1. ~Says(s, line)
    BY <1>2 DEF Says
  <2>2. \E k \in {"usage", "completed", "protocol"} : Events(s, line) = <<<<k, 0>>>>
    BY <1>2 DEF Events
  <2>3. PICK k \in {"usage", "completed", "protocol"} : Events(s, line) = <<<<k, 0>>>>
    BY <2>2
  <2>4. \A i \in 1..Len(<<<<k, 0>>>>) : <<<<k, 0>>>>[i][1] # "text"
    BY <2>3
  <2>. QED
    BY <2>1, <2>3, <2>4
<1>3. CASE line = "answer"
  <2>1. CASE child[s].saw
    <3>1. Events(s, line) = <<<<"completed", 0>>>> /\ ~Says(s, line)
      BY <1>3, <2>1 DEF Events, AnswerEvents, Says
    <3>. QED
      BY <3>1
  <2>2. CASE ~child[s].saw
    <3>1. Events(s, line) = <<<<"text", n>>, <<"completed", 0>>>> /\ Says(s, line)
      BY <1>3, <2>2 DEF Events, AnswerEvents, Says
    <3>. HIDE DEF n
    <3> DEFINE es == <<<<"text", n>>, <<"completed", 0>>>>
    <3>2. \A i \in 1..Len(es) : i = 1 \/ i = 2
      OBVIOUS
    <3>3. es[1][1] = "text" /\ es[1][2] = n /\ es[2][1] = "completed" /\ 1 \in 1..Len(es)
      OBVIOUS
    <3>. HIDE DEF es
    <3>4. \A i \in 1..Len(es) : es[i][1] = "text" => i = 1
      BY <3>2, <3>3
    <3>. QED
      BY <3>1, <3>3, <3>4 DEF es, n
  <2>. QED
    BY <2>1, <2>2
<1>. QED
  BY <1>1, <1>2, <1>3

LEMMA TextsGrow ==
  ASSUME NEW ev \in Seq(Kinds \X Nat), NEW es \in Seq(Kinds \X Nat), NEW m \in Nat, NEW says \in BOOLEAN,
         \A i \in 1..Len(es) : es[i][1] = "text" => i = 1 /\ es[i][2] = m + 1,
         says <=> \E i \in 1..Len(es) : es[i][1] = "text",
         Ordered(ev, m), NEW h \in Nat, h <= m
  PROVE  LET k == IF says THEN m + 1 ELSE m IN
         /\ Ordered(ev \o es, k)
         /\ Covering(ev, h, m) => Covering(ev \o es, h, k)
<1> DEFINE k == IF says THEN m + 1 ELSE m
           all == ev \o es
<1>1. /\ all \in Seq(Kinds \X Nat) /\ Len(all) = Len(ev) + Len(es)
      /\ Len(ev) \in Nat /\ Len(es) \in Nat
      /\ \A i \in 1..Len(ev) : all[i] = ev[i]
      /\ \A i \in 1..Len(es) : all[Len(ev) + i] = es[i]
  BY SMTT(30)
<1>2. \A i \in 1..Len(all) : i \in 1..Len(ev) \/ \E j \in 1..Len(es) : i = Len(ev) + j
  <2>. SUFFICES ASSUME NEW i \in 1..Len(all), i \notin 1..Len(ev)
                PROVE  \E j \in 1..Len(es) : i = Len(ev) + j
    OBVIOUS
  <2>1. i - Len(ev) \in 1..Len(es) /\ i = Len(ev) + (i - Len(ev))
    BY <1>1
  <2>. QED
    BY <2>1
<1>. HIDE DEF all
<1>3. \A i \in 1..Len(ev) : ev[i][2] \in Nat
  OBVIOUS
<1>4. ASSUME NEW i \in TextsIn(all)
      PROVE  \/ i \in TextsIn(ev) /\ all[i] = ev[i]
             \/ i = Len(ev) + 1 /\ all[i][2] = m + 1 /\ says
  <2>1. CASE i \in 1..Len(ev)
    BY <1>1, <1>4, <2>1 DEF TextsIn
  <2>2. CASE i \notin 1..Len(ev)
    <3>1. PICK j \in 1..Len(es) : i = Len(ev) + j
      BY <1>2, <1>4, <2>2 DEF TextsIn
    <3>2. es[j][1] = "text" /\ all[i] = es[j]
      BY <1>1, <1>4, <3>1 DEF TextsIn
    <3>. QED
      BY <3>1, <3>2
  <2>. QED
    BY <2>1, <2>2
<1>5. \A i \in TextsIn(ev) : i \in TextsIn(all) /\ all[i] = ev[i] /\ i <= Len(ev)
  <2>. SUFFICES ASSUME NEW i \in TextsIn(ev)
                PROVE  i \in TextsIn(all) /\ all[i] = ev[i] /\ i <= Len(ev)
    OBVIOUS
  <2>1. i \in 1..Len(ev) /\ ev[i][1] = "text"
    BY DEF TextsIn
  <2>2. i \in 1..Len(all)
    BY <1>1, <2>1
  <2>. QED
    BY <1>1, <2>1, <2>2 DEF TextsIn
<1>6. \A i \in TextsIn(ev) : ev[i][2] \in 1..m
  BY DEF Ordered
<1>7. says => Len(ev) + 1 \in TextsIn(all) /\ all[Len(ev) + 1][2] = m + 1
  <2>. SUFFICES ASSUME says
                PROVE  Len(ev) + 1 \in TextsIn(all) /\ all[Len(ev) + 1][2] = m + 1
    OBVIOUS
  <2>1. PICK i \in 1..Len(es) : es[i][1] = "text"
    OBVIOUS
  <2>2. i = 1 /\ es[i][2] = m + 1 /\ all[Len(ev) + i] = es[i]
    BY <1>1, <2>1
  <2>3. Len(ev) + 1 \in 1..Len(all)
    <3>1. Len(es) >= 1
      BY <1>1, <2>1
    <3>. QED
      BY <1>1, <3>1
  <2>. QED
    BY <2>1, <2>2, <2>3 DEF TextsIn
<1>8. Ordered(all, k)
  <2>1. \A i \in TextsIn(all) : all[i][2] \in 1..k
    BY <1>4, <1>6, SMTT(30)
  <2>2. ASSUME NEW i \in TextsIn(all), NEW j \in TextsIn(all), i < j
        PROVE  all[i][2] < all[j][2]
    <3>1. i \in Nat /\ j \in Nat
      BY DEF TextsIn
    <3>2. CASE j \in TextsIn(ev) /\ all[j] = ev[j]
      <4>1. i \in TextsIn(ev) /\ all[i] = ev[i]
        <5>1. j <= Len(ev)
          BY <1>5, <3>2
        <5>2. i # Len(ev) + 1
          BY <1>1, <2>2, <3>1, <5>1
        <5>. QED
          BY <1>4, <2>2, <5>2
      <4>. QED
        BY <2>2, <3>2, <4>1 DEF Ordered
    <3>3. CASE j = Len(ev) + 1 /\ all[j][2] = m + 1
      <4>1. i \in TextsIn(ev) /\ all[i] = ev[i]
        BY <1>1, <1>4, <2>2, <3>1, <3>3
      <4>2. all[i][2] = ev[i][2] /\ ev[i][2] \in 1..m
        BY <1>6, <4>1
      <4>3. \A x \in 1..m : x < m + 1
        OBVIOUS
      <4>. QED
        BY <3>3, <4>2, <4>3
    <3>. QED
      BY <1>4, <3>2, <3>3
  <2>. QED
    BY <2>1, <2>2 DEF Ordered
<1>9. ASSUME Covering(ev, h, m) PROVE Covering(all, h, k)
  <2>1. \A i \in TextsIn(all) : all[i][2] > h
    BY <1>4, <1>9 DEF Covering
  <2>2. ASSUME NEW n \in (h + 1)..k PROVE \E i \in TextsIn(all) : all[i][2] = n
    <3>1. CASE n \in (h + 1)..m
      <4>1. PICK i \in TextsIn(ev) : ev[i][2] = n
        BY <1>9, <3>1 DEF Covering
      <4>. QED
        BY <1>5, <4>1
    <3>2. CASE n \notin (h + 1)..m
      <4>1. n = m + 1 /\ says
        BY <2>2, <3>2
      <4>. QED
        BY <1>7, <4>1
    <3>. QED
      BY <3>1, <3>2
  <2>. QED
    BY <2>1, <2>2 DEF Covering
<1>. QED
  BY <1>8, <1>9 DEF all

LEMMA TextsNone ==
  ASSUME NEW m \in Nat
  PROVE  Ordered(<<>>, m) /\ \A h \in Nat : Covering(<<>>, h, m) /\ h <= m => h = m
<1>1. TextsIn(<<>>) = {}
  BY DEF TextsIn
<1>2. ASSUME NEW h \in Nat, Covering(<<>>, h, m), h <= m PROVE h = m
  <2>1. \A n \in (h + 1)..m : FALSE
    BY <1>1, <1>2 DEF Covering
  <2>2. h < m => h + 1 \in (h + 1)..m
    OBVIOUS
  <2>. QED
    BY <1>2, <2>1, <2>2
<1>. QED
  BY <1>1, <1>2 DEF Ordered

LEMMA TextsMore ==
  ASSUME NEW ev, NEW m \in Nat, Ordered(ev, m)
  PROVE  Ordered(ev, m + 1)
BY DEF Ordered

(* The head of the queue is the next text, if it is one.                   *)
LEMMA TextsShrink ==
  ASSUME NEW ev \in Seq(Kinds \X Nat), ev # <<>>, NEW m \in Nat, Ordered(ev, m)
  PROVE  /\ Ordered(Tail(ev), m)
         /\ \A h \in Nat : Covering(ev, h, m) =>
              IF Head(ev)[1] = "text"
              THEN /\ Head(ev)[2] = h + 1 /\ h + 1 <= m
                   /\ Covering(Tail(ev), h + 1, m)
              ELSE Covering(Tail(ev), h, m)
<1> DEFINE tail == Tail(ev)
<1>1. /\ tail \in Seq(Kinds \X Nat) /\ Len(tail) = Len(ev) - 1 /\ Len(ev) \in Nat \ {0}
      /\ \A i \in 1..Len(tail) : tail[i] = ev[i + 1]
      /\ Head(ev) = ev[1]
  OBVIOUS
<1>. HIDE DEF tail
<1>2. \A i \in TextsIn(ev) : i \in 1..Len(ev) /\ ev[i][2] \in Nat
  BY DEF TextsIn
<1>3. \A i \in TextsIn(tail) : i \in Nat /\ i >= 1 /\ i + 1 \in TextsIn(ev) /\ tail[i] = ev[i + 1]
  <2>. SUFFICES ASSUME NEW i \in TextsIn(tail)
                PROVE  i \in Nat /\ i >= 1 /\ i + 1 \in TextsIn(ev) /\ tail[i] = ev[i + 1]
    OBVIOUS
  <2>1. i \in 1..Len(tail) /\ tail[i][1] = "text"
    BY DEF TextsIn
  <2>2. tail[i] = ev[i + 1] /\ i + 1 \in 1..Len(ev) /\ i \in Nat /\ i >= 1
    BY <1>1, <2>1
  <2>. QED
    BY <2>1, <2>2 DEF TextsIn
<1>4. \A i \in TextsIn(ev) : i # 1 => i - 1 \in TextsIn(tail) /\ tail[i - 1] = ev[i]
  <2>. SUFFICES ASSUME NEW i \in TextsIn(ev), i # 1
                PROVE  i - 1 \in TextsIn(tail) /\ tail[i - 1] = ev[i]
    OBVIOUS
  <2>1. i - 1 \in 1..Len(tail) /\ (i - 1) + 1 = i
    BY <1>1, <1>2, SMTT(30)
  <2>2. tail[i - 1] = ev[i]
    BY <1>1, <2>1
  <2>. QED
    BY <2>1, <2>2 DEF TextsIn
<1>5. Ordered(tail, m)
  <2>1. \A i \in TextsIn(tail) : tail[i][2] \in 1..m
    BY <1>3 DEF Ordered
  <2>2. ASSUME NEW i \in TextsIn(tail), NEW j \in TextsIn(tail), i < j
        PROVE  tail[i][2] < tail[j][2]
    <3>1. i + 1 < j + 1
      BY <1>3, <2>2
    <3>. QED
      BY <1>3, <3>1 DEF Ordered
  <2>. QED
    BY <2>1, <2>2 DEF Ordered
<1>6. ASSUME NEW h \in Nat, Covering(ev, h, m)
      PROVE  IF Head(ev)[1] = "text"
             THEN /\ Head(ev)[2] = h + 1 /\ h + 1 <= m
                  /\ Covering(tail, h + 1, m)
             ELSE Covering(tail, h, m)
  <2>1. CASE ev[1][1] = "text"
    <3>1. 1 \in TextsIn(ev)
      BY <1>1, <2>1 DEF TextsIn
    <3>2. ev[1][2] \in 1..m /\ ev[1][2] > h
      BY <1>6, <3>1 DEF Ordered, Covering
    <3>3. PICK i \in TextsIn(ev) : ev[i][2] = h + 1
      <4>1. h + 1 \in (h + 1)..m
        BY <3>2
      <4>. QED
        BY <1>6, <4>1 DEF Covering
    <3>4. i = 1
      <4>. SUFFICES ASSUME i # 1 PROVE FALSE
        OBVIOUS
      <4>1. 1 < i
        BY <1>2
      <4>2. ev[1][2] < ev[i][2]
        BY <3>1, <4>1 DEF Ordered
      <4>. QED
        BY <3>2, <3>3, <4>2
    <3>5. \A j \in TextsIn(tail) : tail[j][2] > h + 1
      <4>. SUFFICES ASSUME NEW j \in TextsIn(tail) PROVE tail[j][2] > h + 1
        OBVIOUS
      <4>1. j + 1 \in TextsIn(ev) /\ 1 < j + 1 /\ tail[j] = ev[j + 1]
        BY <1>3
      <4>2. ev[1][2] < ev[j + 1][2] /\ ev[j + 1][2] \in Nat
        BY <1>2, <3>1, <4>1 DEF Ordered
      <4>. QED
        BY <3>3, <3>4, <4>1, <4>2
    <3>6. ASSUME NEW n \in (h + 2)..m PROVE \E j \in TextsIn(tail) : tail[j][2] = n
      <4>1. n \in (h + 1)..m /\ n # h + 1
        BY <3>6
      <4>2. PICK j \in TextsIn(ev) : ev[j][2] = n
        BY <1>6, <4>1 DEF Covering
      <4>3. j # 1
        BY <3>3, <3>4, <4>1, <4>2
      <4>. QED
        BY <1>4, <4>2, <4>3
    <3>7. Covering(tail, h + 1, m)
      <4>1. (h + 1) + 1 = h + 2
        OBVIOUS
      <4>. QED
        BY <3>5, <3>6, <4>1 DEF Covering
    <3>. QED
      BY <1>1, <2>1, <3>2, <3>3, <3>4, <3>7
  <2>2. CASE ev[1][1] # "text"
    <3>1. \A i \in TextsIn(ev) : i # 1
      BY <2>2 DEF TextsIn
    <3>2. \A j \in TextsIn(tail) : tail[j][2] > h
      BY <1>3, <1>6 DEF Covering
    <3>3. ASSUME NEW n \in (h + 1)..m PROVE \E j \in TextsIn(tail) : tail[j][2] = n
      <4>1. PICK j \in TextsIn(ev) : ev[j][2] = n
        BY <1>6, <3>3 DEF Covering
      <4>. QED
        BY <1>4, <3>1, <4>1
    <3>. QED
      BY <1>1, <2>2, <3>2, <3>3 DEF Covering
  <2>. QED
    BY <2>1, <2>2
<1>. QED
  BY <1>5, <1>6 DEF tail

(* A step of the process, whatever it writes.                              *)
OnlyAborts(s) ==
  LET new == sess'[s]  old == sess[s] IN
  /\ new.state = old.state /\ new.tools = old.tools /\ new.gate = old.gate
  /\ new.parked = old.parked /\ new.public = old.public /\ new.owner = old.owner
  /\ new.deadlines = old.deadlines /\ new.terminal = old.terminal
  /\ new.broken = old.broken /\ new.used = old.used
  /\ (new.aborted <=> old.aborted \/ queue'[s].over)
Writes(s) ==
  /\ OnlyAborts(s)
  /\ queue[s].over => queue'[s].over
  /\ queue[s].closed => queue'[s].closed /\ queue'[s].events = queue[s].events
  /\ queue'[s].over => queue'[s].closed /\ queue'[s].events = <<>> /\ child'[s].pc # "live"
  /\ queue'[s].closed <=> child'[s].pc = "settled" \/ queue'[s].over
  /\ child'[s].pc \in {child[s].pc, "stopping", "settled"}
  /\ child[s].said <= child'[s].said
  /\ Ordered(queue'[s].events, child'[s].said)
  /\ ~queue'[s].over =>
       \A h \in Nat : h <= child[s].said /\ Covering(queue[s].events, h, child[s].said) =>
                        Covering(queue'[s].events, h, child'[s].said)

LEMMA ProcessWrites ==
  ASSUME IInv, Shapes', NEW s \in Sessions, child[s].pc \in {"live", "stopping"}, Writes(s),
         UNCHANGED <<frames, promise, items, run, gone, out, heard, sessions, byRequest,
                     held, ledger, stale, belated>>,
         \A t \in Sessions : t # s => /\ sess'[t] = sess[t] /\ queue'[t] = queue[t]
                                      /\ child'[t] = child[t]
  PROVE  IInv'
<1>1. /\ Session(s) /\ child[s] \in ChildRecs /\ child'[s] \in ChildRecs
      /\ heard[s] \in Seq(Nat)
  <2>1. child' \in [Sessions -> ChildRecs]
    BY DEF Shapes
  <2>. QED
    BY <2>1, Basics
<1>2. State(s) \notin {"none", "starting"}
  BY <1>1 DEF Session, Ending
<1>3. UNCHANGED <<State(s), Owner(s), Raced(s)>> /\ (L!Pending)' = L!Pending
  BY DEF Writes, OnlyAborts, State, Owner, Raced, L!Pending
<1>4. Apart(s, Nobody)
  BY Constants DEF Apart, Same
<1>5. Steady(s)'
  BY <1>1, <1>2, <1>3 DEF Session, Steady, At, Writes, OnlyAborts
<1>6. Called(s)' /\ Guarded(s)' /\ Framed(s)'
  <2>1. Called(s)' /\ Guarded(s)'
    BY <1>1, <1>3 DEF Session, Called, Guarded, Writes, OnlyAborts
  <2>2. (Flooded(s) => Flooded(s)') /\ (sess[s].aborted => sess'[s].aborted)
    BY <1>3 DEF Flooded, Writes, OnlyAborts
  <2>3. Shut(s) => Shut(s)'
    BY DEF Shut, Writes
  <2>. QED
    BY <1>1, <1>3, <2>1, <2>2, <2>3 DEF Session, Framed, Writes, OnlyAborts
<1>7. Ending(s)'
  BY <1>1, <1>2, <1>3 DEF Session, Ending, Writes, OnlyAborts
<1>8. Heard(s)' /\ Queued(s)'
  <2>1. Len(heard[s]) \in Nat /\ child[s].said \in Nat /\ child'[s].said \in Nat
    <3>1. Len(heard[s]) \in Nat
      BY <1>1
    <3>. QED
      BY <1>1, <3>1 DEF ChildRecs
  <2>2. Heard(s)'
    BY <1>1, <2>1 DEF Session, Heard, Writes
  <2>3. Queued(s)'
    BY <1>1, <1>3, <2>1 DEF Session, Heard, Queued, Writes
  <2>. QED
    BY <2>2, <2>3
<1>9. Session(s)'
  BY <1>5, <1>6, <1>7, <1>8 DEF Session
<1>10. Lasting(s) /\ Nobodys(s)
  BY <1>3 DEF Lasting, Nobodys, Writes, OnlyAborts
<1>11. Retold(s)
  BY <1>3, SameCallsRetold
<1>. QED
  BY <1>2, <1>3, <1>4, <1>9, <1>10, <1>11, NobodyLift

(* What a queue that is not closed makes of a line.                        *)
LEMMA QueueTakes ==
  ASSUME IInv, NEW s \in Sessions, NEW line
  PROVE  LET q == Fed(queue[s], Events(s, line))
             k == IF Says(s, line) THEN child[s].said + 1 ELSE child[s].said
         IN
         /\ q \in QueueRecs /\ k \in Nat /\ child[s].said <= k
         /\ queue[s].over => q.over
         /\ q.over => q.closed /\ q.events = <<>>
         /\ ~queue[s].closed => (q.closed <=> q.over)
         /\ queue[s].closed => q = queue[s]
         /\ Ordered(q.events, k)
         /\ ~queue[s].closed /\ ~q.over =>
              \A h \in Nat : h <= child[s].said /\ Covering(queue[s].events, h, child[s].said) =>
                               Covering(q.events, h, k)
<1> DEFINE es == Events(s, line)
           q == Fed(queue[s], es)
           m == child[s].said
           k == IF Says(s, line) THEN m + 1 ELSE m
<1>1. /\ Session(s) /\ Shapes /\ queue[s] \in QueueRecs /\ queue[s].events \in Seq(Kinds \X Nat)
      /\ m \in Nat
  BY Basics, ChildFields
<1>2. es \in Seq(Kinds \X Nat) /\ q \in QueueRecs
  BY <1>1, EventsShape, FedShape
<1>3. Ordered(queue[s].events, m)
      /\ (queue[s].over => queue[s].closed /\ queue[s].events = <<>>)
  BY <1>1 DEF Session, Heard, Ending
<1>4. /\ queue[s].closed => q = queue[s]
      /\ ~queue[s].closed /\ ~q.over => q.events = queue[s].events \o es /\ ~q.closed
      /\ ~queue[s].closed /\ ~queue[s].over /\ q.over => q.closed /\ q.events = <<>>
  <2>. HIDE DEF es
  <2>. QED
    BY <1>1, <1>2, FedFields
<1>5. /\ \A i \in 1..Len(es) : es[i][1] = "text" => i = 1 /\ es[i][2] = m + 1
      /\ Says(s, line) <=> \E i \in 1..Len(es) : es[i][1] = "text"
  BY <1>1, EventTexts
<1>6. \A h \in Nat : h <= m =>
        /\ Ordered(queue[s].events \o es, k)
        /\ Covering(queue[s].events, h, m) => Covering(queue[s].events \o es, h, k)
  <2>1. Says(s, line) \in BOOLEAN
    BY DEF Says
  <2>2. queue[s].events \in Seq(Kinds \X Nat) /\ m \in Nat /\ Ordered(queue[s].events, m)
    BY <1>1, <1>3
  <2>. HIDE DEF es, m
  <2>. QED
    BY <1>2, <1>5, <2>1, <2>2, TextsGrow
<1>7. k \in Nat /\ m <= k /\ 0 <= m
  BY <1>1
<1>8. Ordered(q.events, k)
  <2>1. CASE queue[s].closed
    <3>1. Ordered(queue[s].events, k)
      BY <1>1, <1>3, TextsMore
    <3>. QED
      BY <1>4, <2>1, <3>1
  <2>2. CASE ~queue[s].closed /\ q.over
    BY <1>3, <1>4, <1>7, <2>2, TextsNone
  <2>3. CASE ~queue[s].closed /\ ~q.over
    BY <1>4, <1>6, <1>7, <2>3
  <2>. QED
    BY <2>1, <2>2, <2>3
<1>9. /\ queue[s].over => q.over
      /\ q.over => q.closed /\ q.events = <<>>
      /\ ~queue[s].closed => (q.closed <=> q.over)
  BY <1>3, <1>4
<1>10. ~queue[s].closed /\ ~q.over =>
         \A h \in Nat : h <= m /\ Covering(queue[s].events, h, m) => Covering(q.events, h, k)
  BY <1>4, <1>6
<1>. HIDE DEF es
<1>. QED
  BY <1>2, <1>4, <1>7, <1>8, <1>9, <1>10 DEF es

LEMMA AbortsOnly ==
  ASSUME Shapes, NEW s \in Sessions, NEW over \in BOOLEAN,
         sess' = [sess EXCEPT ![s].aborted = @ \/ over], queue'[s].over = over
  PROVE  OnlyAborts(s) /\ \A t \in Sessions : t # s => sess'[t] = sess[t]
<1>1. sess[s] \in SessRecs /\ sess \in [Sessions -> SessRecs]
  BY Sorts
<1>2. sess'[s] = [sess[s] EXCEPT !.aborted = @ \/ over]
      /\ \A t \in Sessions : t # s => sess'[t] = sess[t]
  BY <1>1
<1>. QED
  BY <1>1, <1>2 DEF OnlyAborts, SessRecs

LEMMA KeepLine ==
  ASSUME IInv, NEW s \in Sessions, NEW line \in Lines, Line(s, line)
  PROVE  IInv'
<1> DEFINE q == Fed(queue[s], Events(s, line))
           k == IF Says(s, line) THEN child[s].said + 1 ELSE child[s].said
           read == [child[s] EXCEPT !.said = IF Says(s, line) THEN @ + 1 ELSE @,
                      !.saw = @ \/ line = "text", !.cut = line = "oversize",
                      !.concluded = @ \/ line \in Results]
<1>1. Session(s) /\ Shapes /\ child[s] \in ChildRecs
  BY Basics
<1>2. Shapes'
  BY <1>1, ShapesLine
<1>3. child[s].pc \in {"live", "stopping"} /\ ~sess[s].aborted
  BY DEF Line, Hears
<1>4. ~queue[s].closed
  BY <1>1, <1>3 DEF Session, Ending
<1>5. /\ q \in QueueRecs /\ child[s].said <= k /\ Ordered(q.events, k)
      /\ queue[s].over => q.over
      /\ q.over => q.closed /\ q.events = <<>>
      /\ q.closed <=> q.over
      /\ ~q.over => \A h \in Nat : h <= child[s].said /\ Covering(queue[s].events, h, child[s].said) =>
                                     Covering(q.events, h, k)
  BY <1>4, QueueTakes
<1>6. /\ queue' = [queue EXCEPT ![s] = q]
      /\ child' = [child EXCEPT ![s] =
           IF line = "oversize" \/ q.over THEN Stopping(read) ELSE read]
      /\ sess' = [sess EXCEPT ![s].aborted = @ \/ q.over]
      /\ ChildFrame
  BY DEF Line
<1>7. read.pc = child[s].pc /\ read.said = k
  BY <1>1 DEF ChildRecs
<1>8. /\ Stopping(read).said = k
      /\ Stopping(read).pc = "stopping"
  <2>. HIDE DEF k
  <2>1. read.pc = child[s].pc /\ read.said = k
    BY <1>7
  <2>. QED
    BY <1>3, <2>1 DEF Stopping
<1>. HIDE DEF q, k, read
<1>9. queue'[s] = q /\ child'[s] = (IF line = "oversize" \/ q.over THEN Stopping(read) ELSE read)
      /\ \A t \in Sessions : t # s => queue'[t] = queue[t] /\ child'[t] = child[t]
  BY <1>1, <1>6, Sorts
<1>10. /\ child'[s].said = k /\ child'[s].pc \in {child[s].pc, "stopping"}
       /\ q.over => child'[s].pc = "stopping"
  BY <1>7, <1>8, <1>9
<1>11. OnlyAborts(s) /\ \A t \in Sessions : t # s => sess'[t] = sess[t]
  <2>1. q.over \in BOOLEAN
    BY <1>5 DEF QueueRecs
  <2>. QED
    BY <1>1, <1>6, <1>9, <2>1, AbortsOnly
<1>12. Writes(s)
  BY <1>3, <1>4, <1>5, <1>9, <1>10, <1>11 DEF Writes
<1>. QED
  BY <1>2, <1>3, <1>6, <1>9, <1>11, <1>12, ProcessWrites DEF ChildFrame, channelVars, maps, history

LEMMA KeepExits ==
  ASSUME IInv, NEW s \in Sessions, NEW end \in {"ok", "failed"}, NEW last, Exits(s, end, last)
  PROVE  IInv'
<1> DEFINE fed == Fed(queue[s], Events(s, last))
           none == last = "none" \/ child[s].cut
           q == IF none THEN queue[s] ELSE fed
           says == last # "none" /\ ~child[s].cut /\ Says(s, last)
           k == IF says THEN child[s].said + 1 ELSE child[s].said
<1>1. Session(s) /\ Shapes /\ child[s] \in ChildRecs /\ queue[s] \in QueueRecs
  BY Basics
<1>2. Shapes' /\ child[s].said \in Nat
  BY <1>1, ShapesExits, ChildFields
<1>3. child[s].pc \in {"live", "stopping"}
  BY DEF Exits
<1>4. queue[s].closed <=> queue[s].over
  BY <1>1, <1>3 DEF Session, Ending
<1>5. /\ q \in QueueRecs /\ child[s].said <= k /\ Ordered(q.events, k)
      /\ queue[s].over => q.over
      /\ q.over => q.events = <<>>
      /\ ~q.over => \A h \in Nat : h <= child[s].said /\ Covering(queue[s].events, h, child[s].said) =>
                                     Covering(q.events, h, k)
  <2>1. CASE none
    <3>1. q = queue[s] /\ k = child[s].said
      BY <2>1
    <3>2. Ordered(queue[s].events, child[s].said) /\ (queue[s].over => queue[s].events = <<>>)
      BY <1>1 DEF Session, Heard, Ending
    <3>. HIDE DEF q, k
    <3>. QED
      BY <1>1, <1>2, <3>1, <3>2
  <2>2. CASE ~none
    <3>1. q = fed /\ k = (IF Says(s, last) THEN child[s].said + 1 ELSE child[s].said)
      BY <2>2
    <3>2. ~fed.over => ~queue[s].closed
      BY <1>4, QueueTakes
    <3>. HIDE DEF q, k
    <3>. QED
      BY <3>1, <3>2, QueueTakes
  <2>. QED
    BY <2>1, <2>2
<1>6. /\ queue' = [queue EXCEPT ![s] = [q EXCEPT !.closed = TRUE]]
      /\ child' = [child EXCEPT ![s].pc = "settled",
                                ![s].end = IF child[s].late THEN "timeout" ELSE end,
                                ![s].said = IF says THEN @ + 1 ELSE @]
      /\ sess' = [sess EXCEPT ![s].aborted = @ \/ q.over]
      /\ ChildFrame
  BY DEF Exits
<1>7. child'[s].pc = "settled" /\ child'[s].said = k
      /\ \A t \in Sessions : t # s => child'[t] = child[t]
  <2>. HIDE DEF says
  <2>1. child \in [Sessions -> ChildRecs]
    BY <1>1, Sorts
  <2>. QED
    BY <1>6, <2>1 DEF ChildRecs
<1>. HIDE DEF q, k, says
<1>8. /\ queue'[s].closed /\ queue'[s].over = q.over /\ queue'[s].events = q.events
      /\ \A t \in Sessions : t # s => queue'[t] = queue[t]
  <2>1. queue'[s] = [q EXCEPT !.closed = TRUE] /\ \A t \in Sessions : t # s => queue'[t] = queue[t]
    BY <1>1, <1>6, Sorts
  <2>. QED
    BY <1>5, <2>1 DEF QueueRecs
<1>9. OnlyAborts(s) /\ \A t \in Sessions : t # s => sess'[t] = sess[t]
  <2>1. q.over \in BOOLEAN
    BY <1>5 DEF QueueRecs
  <2>. QED
    BY <1>1, <1>6, <1>8, <2>1, AbortsOnly
<1>10. Writes(s)
  <2>1. queue[s].closed => queue'[s].events = queue[s].events
    BY <1>1, <1>4, <1>5, <1>8 DEF Session, Ending
  <2>. QED
    BY <1>5, <1>7, <1>8, <1>9, <2>1 DEF Writes
<1>. QED
  BY <1>2, <1>3, <1>6, <1>7, <1>8, <1>9, <1>10, ProcessWrites
     DEF ChildFrame, channelVars, maps, history

LEMMA KeepTimesOut ==
  ASSUME IInv, NEW s \in Sessions, TimesOut(s)
  PROVE  IInv'
<1>1. Session(s) /\ Shapes /\ child[s] \in ChildRecs /\ Shapes' /\ child[s].said \in Nat
  BY Basics, ShapesTimesOut, ChildFields
<1>2. /\ child[s].pc \in {"live", "stopping"}
      /\ child' = [child EXCEPT ![s] = [Stopping(@) EXCEPT !.late = TRUE]]
      /\ UNCHANGED <<sess, queue>> /\ ChildFrame
  BY DEF TimesOut
<1>3. child'[s] = [Stopping(child[s]) EXCEPT !.late = TRUE]
      /\ \A t \in Sessions : t # s => child'[t] = child[t]
  BY <1>1, <1>2, Sorts
<1>4. child'[s].pc = "stopping" /\ child'[s].said = child[s].said
  <2>1. Stopping(child[s]).pc = "stopping" /\ Stopping(child[s]).said = child[s].said
        /\ Stopping(child[s]) \in ChildRecs
    BY <1>1, <1>2, StoppingFields, ChildFields
  <2>. QED
    BY <1>3, <2>1 DEF ChildRecs
<1>5. Writes(s)
  BY <1>1, <1>2, <1>4 DEF Writes, OnlyAborts, Session, Ending, Heard
<1>. QED
  BY <1>1, <1>2, <1>3, <1>5, ProcessWrites DEF ChildFrame, channelVars, maps, history

(* A step that changes nothing the invariant looks at.                     *)
LEMMA KeepNothing ==
  ASSUME IInv,
         UNCHANGED <<frames, promise, items, sess, queue, child, run, heard, sessions,
                     byRequest, held, ledger, gone, out, stale, belated>>
  PROVE  IInv'
<1>1. Shapes'
  BY DEF IInv, Shapes
<1>2. \A s \in Sessions : Session(s)'
  BY Untouched
<1>3. ASSUME NEW r \in Requests PROVE Client(r)'
  <2>1. Client(r) /\ At(r)' = At(r)
    BY <1>3 DEF IInv, At
  <2>2. Steered(r)' /\ Explained(r)'
    BY <2>1 DEF Client, Steered, Explained, State, Owner, Active, Races
  <2>3. Complete(r)' /\ Metered(r)'
    BY <2>1 DEF Client, Complete, Metered, Spent, State, Owner, Raced, At
  <2>4. Promised(r)'
    BY <2>1 DEF Client, Promised, State, L!Pending
  <2>. QED
    BY <2>2, <2>3, <2>4 DEF Client
<1>. QED
  BY <1>1, <1>2, <1>3 DEF IInv

(* How a reply ends.                                                       *)
LEMMA EndedFields ==
  ASSUME Shapes, NEW r \in Requests, NEW end, out' = Ended(r, end)
  PROVE  /\ out'[r].end = (IF r \in gone THEN "silent" ELSE end)
         /\ out'[r].usage = out[r].usage
         /\ \A q \in Requests : q # r => out'[q] = out[q]
BY Sorts DEF Ended, OutRecs

LEMMA WentFields ==
  ASSUME Shapes, NEW r \in Requests, NEW pc, Goto(r, pc)
  PROVE  /\ run'[r].pc = pc /\ At(r)' = At(r)
         /\ \A q \in Requests : q # r => run'[q] = run[q]
BY Sorts DEF Goto, RunRecs, At

(* A reply that has ended: nothing is asked of its request any more.       *)
LEMMA DoneClient ==
  ASSUME NEW r \in Requests, run'[r].pc = "done", r \notin byRequest',
         At(r)' \in Sessions => State(At(r))' # "none",
         out'[r].end = "silent" => r \in gone' \/ At(r)' \in stale',
         Promised(r)', Complete(r)', Metered(r)'
  PROVE  Client(r)'
BY DEF Client, Steered, Explained, Active, Races

(* Requests that begin.                                                    *)
LEMMA Idle ==
  ASSUME IInv, NEW r \in Requests, run[r].pc = "idle"
  PROVE  /\ Client(r) /\ At(r) = Nobody /\ r \notin gone /\ r \notin byRequest
         /\ out[r].end = "none" /\ out[r].usage = 0
         /\ \A s \in Sessions : State(s) # "none" => Owner(s) # r /\ s # r
         /\ r \in Sessions => \A q \in Requests : At(q) # r
<1>1. Client(r) /\ Nobody \notin Sessions
  BY Constants DEF IInv
<1>2. /\ At(r) = Nobody /\ r \notin gone /\ r \notin byRequest
      /\ out[r].end = "none" /\ out[r].usage = 0
  BY <1>1 DEF Client, Steered
<1>3. \A s \in Sessions : State(s) # "none" => Owner(s) # r /\ s # r
  BY <1>1, <1>2, Whereabouts
<1>4. \A q \in Requests : r \in Sessions => At(q) # r
  BY <1>3 DEF IInv, Client, Steered
<1>. QED
  BY <1>1, <1>2, <1>3, <1>4

LEMMA KeepTurned ==
  ASSUME IInv, NEW r \in Requests, Turned(r)
  PROVE  IInv'
<1>1. PICK s0 : s0 \notin Sessions \cup {Nobody}
  BY NoSetContainsEverything
<1>2. Shapes /\ run[r].pc = "idle" /\ Goto(r, "done") /\ out' = Ended(r, "error") /\ Shapes'
  BY ShapesTurned DEF Turned, Arrives, IInv
<1>3. UNCHANGED <<frames, promise, items, sess, queue, child, heard, sessions, byRequest,
                  held, ledger, gone, stale, belated>>
  BY DEF Turned, channelVars, maps
<1>4. At(r) = Nobody /\ r \notin gone /\ r \notin byRequest /\ out[r].usage = 0
  BY <1>2, Idle
<1>5. /\ run'[r].pc = "done" /\ At(r)' = Nobody /\ out'[r].end = "error" /\ out'[r].usage = 0
      /\ \A q \in Requests : q # r => run'[q] = run[q] /\ out'[q] = out[q]
  BY <1>2, <1>4, EndedFields, WentFields
<1>6. Apart(s0, r)
  BY <1>3, <1>4, <1>5 DEF Apart, Same
<1>7. Client(r)'
  <2>1. Promised(r)' /\ Complete(r)' /\ Metered(r)'
    BY <1>5 DEF Promised, Complete, Metered
  <2>. QED
    BY <1>3, <1>4, <1>5, <2>1, Constants, DoneClient
<1>8. \A q \in Requests : At(q) # s0
  BY <1>1, <1>2, Sorts DEF RunRecs, At
<1>. QED
  BY <1>1, <1>2, <1>6, <1>7, <1>8, Lift

LEMMA KeepOpen ==
  ASSUME IInv, NEW r \in Requests, NEW tools \in BOOLEAN, Open(r, tools)
  PROVE  IInv'
<1>1. r \in Sessions /\ run[r].pc = "idle" /\ Shapes /\ Shapes'
  BY ShapesOpen DEF Open, Arrives, IInv
<1>2. /\ run' = [run EXCEPT ![r] = [pc |-> IF tools THEN "listening" ELSE "race", at |-> r]]
      /\ sess' = [sess EXCEPT ![r].tools = tools,
                              ![r].state = IF tools THEN "starting" ELSE "open"]
      /\ child' = [child EXCEPT ![r].pc = IF tools THEN @ ELSE "live"]
      /\ held' = held \cup {r}
      /\ UNCHANGED <<frames, promise, items, queue, sessions, byRequest, ledger, gone, out,
                     heard, stale, belated>>
  BY DEF Open, channelVars, history
<1>3. /\ At(r) = Nobody /\ r \notin gone /\ r \notin byRequest /\ State(r) = "none"
      /\ out[r].end = "none" /\ out[r].usage = 0 /\ \A q \in Requests : At(q) # r
  BY <1>1, Idle
<1>4. Session(r) /\ Fresh(r) /\ sess[r] \in SessRecs /\ child[r] \in ChildRecs
  BY <1>1, <1>3, Basics DEF Session, Steady
<1>5. /\ sess'[r] = [sess[r] EXCEPT !.tools = tools, !.state = IF tools THEN "starting" ELSE "open"]
      /\ child'[r] = [child[r] EXCEPT !.pc = IF tools THEN @ ELSE "live"]
      /\ run'[r] = [pc |-> IF tools THEN "listening" ELSE "race", at |-> r]
      /\ \A t \in Sessions : t # r => sess'[t] = sess[t] /\ child'[t] = child[t]
      /\ \A q \in Requests : q # r => run'[q] = run[q]
  BY <1>1, <1>2, Sorts
<1>6. /\ State(r)' = (IF tools THEN "starting" ELSE "open") /\ sess'[r].tools = tools
      /\ Owner(r)' = r /\ ~sess'[r].aborted /\ ~sess[r].aborted /\ sess'[r].parked = 0
      /\ ~sess[r].used /\ ~sess'[r].used
  BY <1>4, <1>5 DEF Fresh, State, Owner, SessRecs
<1>7. /\ child'[r].said = 0 /\ child'[r].pc = (IF tools THEN "none" ELSE "live")
      /\ queue[r].events = <<>> /\ ~queue[r].closed /\ ~queue[r].over /\ heard[r] = <<>>
      /\ promise[r] = NoPromise /\ items[r] = <<>>
  <2>1. /\ child[r].pc = "none" /\ child[r].said = 0 /\ queue[r].events = <<>>
        /\ ~queue[r].closed /\ ~queue[r].over /\ heard[r] = <<>> /\ promise[r] = NoPromise
        /\ items[r] = <<>>
    BY <1>3, <1>4 DEF Session, Ending, Framed, Fresh, Flooded
  <2>. QED
    BY <1>4, <1>5, <2>1 DEF ChildRecs
<1>8. At(r)' = r /\ run'[r].pc = (IF tools THEN "listening" ELSE "race")
      /\ (Raced(r)' <=> ~tools)
  BY <1>5, <1>6 DEF At, Raced
<1>9. Apart(r, r)
  BY <1>2, <1>3, <1>5, <1>8 DEF Apart, Same
<1>10. \A n \in 1..MaxCalls : /\ <<r, n>> \notin sessions' \cup (L!Pending)'
                              /\ frames'[<<r, n>>] = "unsent"
  <2>1. (L!Pending)' = L!Pending
    BY <1>2 DEF L!Pending
  <2>. QED
    BY <1>2, <1>3, <1>4, <2>1 DEF Session, Called, Framed
<1>11. Session(r)'
  <2>1. Steady(r)'
    BY <1>2, <1>6, <1>8 DEF Steady
  <2>2. Called(r)' /\ Guarded(r)' /\ Framed(r)'
    BY <1>2, <1>6, <1>7, <1>8, <1>10 DEF Called, Guarded, Framed
  <2>3. Ending(r)'
    BY <1>2, <1>6, <1>7 DEF Ending
  <2>4. Heard(r)' /\ Queued(r)'
    <3>1. TextsIn(<<>>) = {}
      BY DEF TextsIn
    <3>2. Ordered(<<>>, 0) /\ Covering(<<>>, 0, 0) /\ Len(heard[r]) = 0
      BY <1>7, <3>1 DEF Ordered, Covering
    <3>3. heard[r] = [i \in 1..Len(heard[r]) |-> i]
      BY <1>4 DEF Session, Heard
    <3>. QED
      BY <1>2, <1>7, <3>2, <3>3 DEF Heard, Queued
  <2>. QED
    BY <2>1, <2>2, <2>3, <2>4 DEF Session
<1>12. Client(r)'
  <2>1. Steered(r)'
    BY <1>1, <1>2, <1>3, <1>6, <1>8 DEF Steered, Active
  <2>2. Explained(r)' /\ Promised(r)' /\ Complete(r)' /\ Metered(r)'
    BY <1>2, <1>3, <1>6, <1>8 DEF Explained, Promised, Complete, Metered
  <2>. QED
    BY <2>1, <2>2 DEF Client
<1>13. Lasting(r) /\ Paying(r, r) /\ Alone(r, r) /\ State(r)' # "none"
  BY <1>2, <1>3, <1>6, <1>7 DEF Lasting, Paying, Alone
<1>14. Retold(r)
  BY <1>1, <1>2, <1>6 DEF Retold
<1>. QED
  BY <1>1, <1>9, <1>11, <1>12, <1>13, <1>14, DriverLift

(* The driver of a session is at it alone.                                 *)
LEMMA AtItsOwn ==
  ASSUME IInv, NEW r \in Requests, run[r].pc \in {"listening", "failed"}
  PROVE  /\ r \in Sessions /\ At(r) = r /\ Owner(r) = r /\ Client(r) /\ Session(r) /\ ~Raced(r)
         /\ State(r) = (IF run[r].pc = "failed" THEN "closed" ELSE "starting")
         /\ r \notin byRequest
<1>1. Client(r) /\ Active(r)
  BY DEF IInv, Active
<1>2. At(r) = r /\ r \in Sessions /\ Owner(r) = r
      /\ State(r) = (IF run[r].pc = "failed" THEN "closed" ELSE "starting")
  BY <1>1 DEF Client, Steered
<1>. QED
  BY <1>1, <1>2, Basics DEF Client, Steered, Raced

LEMMA KeepStart ==
  ASSUME IInv, NEW r \in Requests, Start(r)
  PROVE  IInv'
<1>1. run[r].pc = "listening" /\ Shapes
  BY DEF Start, IInv
<1>2. /\ r \in Sessions /\ At(r) = r /\ Owner(r) = r /\ Client(r) /\ Session(r) /\ ~Raced(r)
      /\ State(r) = "starting" /\ r \notin byRequest
  BY <1>1, AtItsOwn
<1>3. Shapes' /\ sess[r] \in SessRecs /\ child[r] \in ChildRecs
  BY <1>1, <1>2, ShapesStart, Basics
<1>4. UNCHANGED <<frames, queue, sessions, ledger, gone, heard, stale, belated>>
      /\ child' = [child EXCEPT ![r].pc = "live"]
  BY DEF Start
<1>5. child'[r] = [child[r] EXCEPT !.pc = "live"]
      /\ \A t \in Sessions : t # r => child'[t] = child[t]
  BY <1>1, <1>2, <1>4, Sorts
<1>6. /\ child'[r].pc = "live" /\ child'[r].said = child[r].said
      /\ ~queue[r].closed /\ ~queue[r].over /\ queue[r].events = <<>> /\ child[r].said = 0
  BY <1>2, <1>3, <1>5 DEF ChildRecs, Session, Ending
<1>7. \A n \in 1..MaxCalls : /\ <<r, n>> \notin sessions' \cup (L!Pending)'
                             /\ frames'[<<r, n>>] = "unsent"
  <2>1. (L!Pending)' = L!Pending
    BY <1>4 DEF L!Pending
  <2>. QED
    BY <1>2, <1>4, <2>1 DEF Session, Called, Framed
<1>8. /\ sess[r].parked = 0 /\ promise[r] = NoPromise /\ items[r] = <<>>
      /\ Retold(r) /\ out[r].end # "tool_calls"
  <2>1. sess[r].parked = 0 /\ promise[r] = NoPromise /\ items[r] = <<>>
    BY <1>2 DEF Session, Framed, Flooded
  <2>2. Retold(r)
    BY <1>2, <1>4, <1>7, NoCallsRetold
  <2>3. out[r].end # "tool_calls"
    BY <1>1, <1>2 DEF Client, Promised
  <2>. QED
    BY <2>1, <2>2, <2>3
<1>9. Heard(r)'
  BY <1>2, <1>4, <1>6 DEF Session, Heard
<1>10. out[r].end # "completed" => Complete(r)
  BY <1>2 DEF Client
<1>11. out[r].usage > 0 => Spent(r)
  BY <1>2 DEF Client, Metered
<1>13. \A q \in Requests : q # r /\ At(q) = r => ~Active(q) /\ q \notin byRequest
  BY <1>2 DEF IInv, Client, Steered
<1>14. CASE sess[r].aborted
  <2>1. /\ sess' = [sess EXCEPT ![r] = Closed(sess[r])] /\ held' = held \ {r}
        /\ Goto(r, "done") /\ out' = Ended(r, "silent")
        /\ UNCHANGED <<byRequest, promise, items>>
    BY <1>1, <1>14, Sorts DEF Start
  <2>2. sess'[r] = Closed(sess[r]) /\ \A t \in Sessions : t # r => sess'[t] = sess[t]
    BY <1>1, <1>2, <2>1, Sorts
  <2>3. /\ State(r)' = "closed" /\ Owner(r)' = r /\ sess'[r].parked = 0
        /\ sess'[r].tools = sess[r].tools /\ sess'[r].used = sess[r].used
    BY <1>2, <1>3, <2>2, ClosedFields DEF State, Owner
  <2>4. /\ run'[r].pc = "done" /\ At(r)' = r /\ ~Raced(r)'
        /\ out'[r].usage = out[r].usage /\ out'[r].end = "silent"
        /\ \A q \in Requests : q # r => run'[q] = run[q] /\ out'[q] = out[q]
    BY <1>1, <1>2, <2>1, <2>3, EndedFields, WentFields DEF Raced
  <2>5. r \in gone
    BY <1>2, <1>14 DEF Session, Ending
  <2>6. Apart(r, r)
    BY <1>2, <1>4, <1>5, <2>1, <2>2, <2>4 DEF Apart, Same
  <2>7. Session(r)'
    <3>1. Steady(r)' /\ Called(r)' /\ Guarded(r)' /\ Framed(r)'
      BY <1>7, <1>8, <2>1, <2>3, <2>4 DEF Steady, Called, Guarded, Framed
    <3>2. Ending(r)' /\ Queued(r)'
      BY <1>4, <1>6, <2>3, <2>4, <2>5 DEF Ending, Queued
    <3>. QED
      BY <1>9, <3>1, <3>2 DEF Session
  <2>8. Client(r)'
    <3>0. Promised(r)'
      BY <2>4 DEF Promised
    <3>1. Metered(r)'
      <4>1. ASSUME out[r].usage > 0
            PROVE  \A q \in Requests : q # r /\ At(q)' = r => out'[q].usage = 0
        BY <1>2, <2>4, <4>1 DEF Client, Metered, At
      <4>. QED
        BY <1>2, <2>3, <2>4, <4>1 DEF Client, Metered, Spent
    <3>. QED
      BY <1>2, <1>4, <2>1, <2>3, <2>4, <2>5, <3>0, <3>1, DoneClient DEF Complete
  <2>9. Lasting(r) /\ Paying(r, r) /\ Alone(r, r)
    BY <1>2, <1>4, <1>13, <2>1, <2>3, <2>4 DEF Lasting, Paying, Alone
  <2>. QED
    BY <1>2, <1>3, <1>8, <2>3, <2>6, <2>7, <2>8, <2>9, DriverLift
<1>15. CASE ~sess[r].aborted
  <2>1. /\ sess' = [sess EXCEPT ![r].state = "open"] /\ byRequest' = byRequest \cup {r}
        /\ Ask(r) /\ Goto(r, "race") /\ UNCHANGED <<held, out>>
    BY <1>15 DEF Start
  <2>2. sess'[r] = [sess[r] EXCEPT !.state = "open"]
        /\ \A t \in Sessions : t # r => sess'[t] = sess[t]
    BY <1>1, <1>2, <2>1, Sorts
  <2>3. /\ State(r)' = "open" /\ Owner(r)' = r /\ sess'[r].parked = 0
        /\ sess'[r].tools = sess[r].tools /\ sess'[r].used = sess[r].used
        /\ ~sess'[r].aborted
    BY <1>2, <1>3, <1>8, <1>15, <2>2 DEF State, Owner, SessRecs
  <2>4. /\ run'[r].pc = "race" /\ At(r)' = r /\ Raced(r)'
        /\ \A q \in Requests : q # r => run'[q] = run[q]
    BY <1>1, <1>2, <2>1, <2>3, WentFields DEF Raced
  <2>5. /\ promise'[r] # NoPromise /\ \A t \in Sessions : t # r => promise'[t] = promise[t]
        /\ items' = items
    BY <1>1, <1>2, <1>8, <2>1, Sorts, Constants DEF Ask, Waiting, NoPromise
  <2>6. sess[r].tools /\ r \in held'
    <3>1. sess[r].tools
      BY <1>2 DEF Session, Steady
    <3>2. r \in held
      BY <1>2 DEF Session, Steady
    <3>. QED
      BY <2>1, <3>1, <3>2
  <2>7. Apart(r, r)
    BY <1>2, <1>4, <1>5, <2>1, <2>2, <2>4, <2>5 DEF Apart, Same
  <2>8. Session(r)'
    <3>1. Steady(r)' /\ Called(r)' /\ Guarded(r)'
      BY <1>7, <2>1, <2>3, <2>4, <2>6 DEF Steady, Called, Guarded
    <3>2. Framed(r)'
      BY <1>7, <1>8, <2>3, <2>4, <2>5, <2>6 DEF Framed
    <3>3. Ending(r)'
      BY <1>4, <1>6, <2>3 DEF Ending
    <3>4. Queued(r)'
      BY <1>2, <1>4, <1>6, <2>3 DEF Queued, Session
    <3>. QED
      BY <1>9, <3>1, <3>2, <3>3, <3>4 DEF Session
  <2>9. Client(r)'
    <3>1. Steered(r)'
      BY <1>2, <2>3, <2>4, <2>6 DEF Steered, Active
    <3>2. Explained(r)'
      BY <1>2, <1>4, <2>1, <2>3, <2>4 DEF Explained, Client
    <3>3. out[r].end # "completed"
      BY <1>2 DEF Client, Complete
    <3>4. Metered(r)'
      <4>1. \A q \in Requests : At(q)' = r => At(q) = r
        BY <1>2, <2>4 DEF At
      <4>. QED
        BY <1>2, <2>1, <2>3, <2>4, <4>1 DEF Client, Metered, Spent
    <3>. QED
      BY <1>8, <2>1, <3>1, <3>2, <3>3, <3>4 DEF Client, Complete, Promised
  <2>10. Lasting(r) /\ Paying(r, r) /\ Alone(r, r)
    <3>1. Lasting(r)
      BY <1>2, <1>4, <2>3 DEF Lasting
    <3>2. Paying(r, r)
      BY <1>2, <2>1 DEF Paying
    <3>3. Alone(r, r)
      BY <1>13, <2>1 DEF Alone
    <3>. QED
      BY <3>1, <3>2, <3>3
  <2>. QED
    BY <1>2, <1>3, <1>8, <2>3, <2>7, <2>8, <2>9, <2>10, DriverLift
<1>. QED
  BY <1>14, <1>15

(* A session is released by whoever drives it: closed, if it has tools, or *)
(* its directory removed.                                                  *)
Released(s) ==
  /\ State(s)' = "closed" /\ Owner(s)' = Owner(s)
  /\ sess'[s].tools = sess[s].tools /\ sess'[s].terminal = sess[s].terminal
  /\ sess'[s].broken = sess[s].broken /\ sess'[s].used = sess[s].used
  /\ sess'[s].parked \in {0, sess[s].parked} /\ (sess[s].aborted => sess'[s].aborted)
  /\ State(s) = "open" /\ sess[s].tools => sess'[s].aborted
  /\ child'[s].pc \in {child[s].pc, "stopping"} /\ (child[s].pc = "settled" <=> child'[s].pc = "settled")
  /\ child'[s].end = child[s].end /\ child'[s].said = child[s].said
  /\ child'[s].pc # "live" \/ s \in gone
  /\ s \in held' => s \in held /\ State(s) = "closed"
  /\ byRequest' = byRequest \ {Owner(s)}
  /\ \A n \in 1..MaxCalls :
       /\ <<s, n>> \notin sessions' \cup (L!Pending)'
       /\ frames'[<<s, n>>] = "pending" => State(s) = "closed" /\ <<s, n>> \in belated
       /\ frames[<<s, n>>] = "unsent" => frames'[<<s, n>>] = "unsent"
  /\ Retold(s)
  /\ \A t \in Sessions : t # s =>
       /\ sess'[t] = sess[t] /\ child'[t] = child[t] /\ (t \in held' <=> t \in held)
       /\ \A n \in 1..MaxCalls : /\ frames'[<<t, n>>] = frames[<<t, n>>]
                                 /\ <<t, n>> \in sessions' <=> <<t, n>> \in sessions
                                 /\ ledger'[<<t, n>>] = ledger[<<t, n>>]

LEMMA ClosedIsReleased ==
  ASSUME IInv, NEW s \in Sessions, State(s) = "closed", Raced(s), Owner(s) \notin byRequest,
         UNCHANGED <<sess, child, held, sessions, byRequest, ledger>>,
         \A t \in Sessions, n \in 1..MaxCalls :
           /\ frames'[<<t, n>>] = "pending" => frames[<<t, n>>] = "pending"
           /\ frames[<<t, n>>] = "unsent" => frames'[<<t, n>>] = "unsent"
           /\ t # s => frames'[<<t, n>>] = frames[<<t, n>>]
  PROVE  Released(s)
<1>1. Session(s) /\ Shapes
  BY Basics
<1>2. (L!Pending)' = L!Pending /\ State(s)' = State(s) /\ Owner(s)' = Owner(s)
  BY DEF L!Pending, State, Owner
<1>3. \A n \in 1..MaxCalls :
        /\ <<s, n>> \notin sessions' \cup (L!Pending)'
        /\ frames'[<<s, n>>] = "pending" => <<s, n>> \in belated
  <2>1. run[Owner(s)].pc # "done"
    BY DEF Raced
  <2>2. \A n \in 1..MaxCalls : frames[<<s, n>>] = "pending" => <<s, n>> \in belated
    BY <1>1 DEF Session, Framed
  <2>. QED
    BY <1>1, <1>2, <2>1, <2>2 DEF Session, Called
<1>4. child[s].pc # "live" \/ s \in gone
  BY <1>1 DEF Session, Ending
<1>5. Retold(s)
  BY <1>2, SameCallsRetold
<1>. QED
  BY <1>2, <1>3, <1>4, <1>5 DEF Released

LEMMA CloseReleases ==
  ASSUME IInv, NEW s \in Sessions, State(s) \in {"open", "closed"}, Raced(s), NEW extra,
         CloseToolSession(s, sess[s], extra, "cancelled")
  PROVE  Released(s)
<1>1. Closing(s, sess[s], "cancelled") /\ frames' = Shed(s, sess[s], extra)
  BY DEF CloseToolSession
<1>2. Shapes /\ Session(s)
  BY Basics
<1>3. \A t \in Sessions, n \in 1..MaxCalls :
        /\ t = s /\ frames'[<<t, n>>] = "pending" =>
             frames[<<t, n>>] = "pending" /\ State(s) # "open"
        /\ t # s => frames'[<<t, n>>] = frames[<<t, n>>]
        /\ frames[<<t, n>>] = "unsent" => frames'[<<t, n>>] = "unsent"
  BY <1>1, <1>2, ShedFrames DEF State
<1>4. CASE State(s) = "open"
  BY <1>1, <1>3, <1>4, OpenCloses DEF Released
<1>5. CASE State(s) = "closed"
  <2>1. UNCHANGED <<sess, child, maps>>
    BY <1>1, <1>2, <1>5, ClosingNothing
  <2>2. Owner(s) \notin byRequest
    <3>1. Owner(s) \in Requests /\ At(Owner(s)) = s
      BY <1>5, Basics, Whereabouts
    <3>. QED
      BY <1>5, <3>1 DEF IInv, Client, Steered
  <2>. QED
    BY <1>3, <1>5, <2>1, <2>2, ClosedIsReleased DEF maps
<1>. QED
  BY <1>4, <1>5

LEMMA FinallyReleases ==
  ASSUME IInv, NEW s \in Sessions, State(s) \in {"open", "closed"}, Raced(s),
         Finally(s, sess[s]), ~sess[s].tools => child[s].pc # "live" \/ s \in gone
  PROVE  Released(s)
<1>1. CASE sess[s].tools
  BY <1>1, CloseReleases DEF Finally
<1>2. CASE ~sess[s].tools
  <2>1. Session(s) /\ sess[s] \in SessRecs /\ Shapes
    BY Basics
  <2>2. /\ sess' = [sess EXCEPT ![s] = [sess[s] EXCEPT !.state = "closed"]]
        /\ held' = held \ {s}
        /\ UNCHANGED <<child, sessions, byRequest, ledger, frames>>
    BY <1>2 DEF Finally
  <2>3. sess'[s] = [sess[s] EXCEPT !.state = "closed"]
        /\ \A t \in Sessions : t # s => sess'[t] = sess[t]
    BY <2>1, <2>2, Sorts
  <2>4. /\ State(s)' = "closed" /\ Owner(s)' = Owner(s)
        /\ sess'[s].tools = sess[s].tools /\ sess'[s].terminal = sess[s].terminal
        /\ sess'[s].broken = sess[s].broken /\ sess'[s].used = sess[s].used
        /\ sess'[s].parked = sess[s].parked /\ sess'[s].aborted = sess[s].aborted
    BY <2>1, <2>3 DEF State, Owner, SessRecs
  <2>5. (L!Pending)' = L!Pending
    BY <2>2 DEF L!Pending
  <2>6. \A n \in 1..MaxCalls : /\ <<s, n>> \notin sessions' \cup (L!Pending)'
                               /\ frames'[<<s, n>>] = "unsent" /\ frames[<<s, n>>] = "unsent"
    BY <1>2, <2>1, <2>2, <2>5 DEF Session, Called, Framed
  <2>7. Retold(s)
    BY <2>2, <2>6, NoCallsRetold
  <2>8. Owner(s) \notin byRequest
    <3>1. Owner(s) \in Requests /\ At(Owner(s)) = s
      BY Basics, Whereabouts
    <3>. QED
      BY <1>2, <3>1 DEF IInv, Client, Steered
  <2>. QED
    BY <1>2, <2>2, <2>3, <2>4, <2>6, <2>8, <2>7 DEF Released
<1>. QED
  BY <1>1, <1>2

LEMMA ReleasedApart ==
  ASSUME IInv, NEW s \in Sessions, State(s) # "none", Released(s), NEW r, r = Owner(s),
         At(r)' = s,
         \A t \in Sessions : t # s => /\ queue'[t] = queue[t] /\ promise'[t] = promise[t]
                                      /\ heard'[t] = heard[t],
         \A q \in Requests : q # r => /\ run'[q] = run[q] /\ out'[q] = out[q]
                                      /\ (q \in gone' <=> q \in gone),
         gone \subseteq gone', UNCHANGED <<items, stale, belated>>
  PROVE  Apart(s, r)
<1>1. \A t \in Sessions : t # s => Same(t)
  BY DEF Released, Same
<1>2. At(r) = s
  BY Whereabouts
<1>3. byRequest' = byRequest \ {r}
  BY DEF Released
<1>. QED
  BY <1>1, <1>2, <1>3 DEF Apart

LEMMA ReleasedSession ==
  ASSUME IInv, Shapes', NEW s \in Sessions, State(s) \in {"open", "closed"}, Released(s),
         gone \subseteq gone', promise'[s] \in {NoPromise, promise[s]}, heard'[s] = heard[s],
         At(s)' = s, At(Owner(s))' = s, Raced(s)' => Raced(s),
         s \in held /\ State(s) = "closed" => run'[s].pc = "failed",
         queue'[s].over = queue[s].over, queue'[s].closed = queue[s].closed,
         queue'[s].over => queue'[s].events = <<>>,
         Ordered(queue'[s].events, child[s].said),
         Raced(s)' => queue'[s].events = queue[s].events /\ Quiet /\ sess'[s].aborted,
         belated' = belated
  PROVE  Session(s)'
<1>1. Session(s) /\ Owner(s)' = Owner(s) /\ State(s)' = "closed"
  BY Basics DEF Released
<1>2. Steady(s)'
  <2>1. s \in held' => run'[s].pc = "failed"
    BY DEF Released
  <2>2. At(Owner(s))' = s /\ At(s)' = s
    OBVIOUS
  <2>3. ~sess'[s].tools => Owner(s)' = s
    BY <1>1 DEF Released, Session, Steady
  <2>. QED
    BY <1>1, <2>1, <2>2, <2>3 DEF Steady
<1>3. Called(s)' /\ Guarded(s)'
  BY DEF Called, Guarded, Released
<1>4. Framed(s)'
  <2>1. Quiet /\ Raced(s) /\ promise[s] \in 1..MaxCalls =>
          queue[s].closed /\ queue[s].events = <<>>
    BY NothingWaits
  <2>. QED
    BY <1>1, <2>1, Constants DEF Session, Framed, Released, NoPromise, Shut
<1>5. Ending(s)'
  BY <1>1 DEF Session, Ending, Released
<1>6. Heard(s)' /\ Queued(s)'
  BY <1>1 DEF Session, Heard, Queued, Released
<1>. QED
  BY <1>2, <1>3, <1>4, <1>5, <1>6 DEF Session

(* Whoever releases a session it drives ends its reply with that.          *)
LEMMA PumpReleases ==
  ASSUME IInv, Shapes', NEW r \in Requests, Races(r), NEW s \in Sessions, s = At(r), Released(s),
         run'[r].pc = "done", At(r)' = s,
         \A q \in Requests : q # r => run'[q] = run[q] /\ out'[q] = out[q],
         \A t \in Sessions : t # s => queue'[t] = queue[t] /\ promise'[t] = promise[t],
         promise'[s] \in {NoPromise, promise[s]}, UNCHANGED <<items, gone, stale, heard, belated>>,
         queue'[s].over = queue[s].over, queue'[s].closed = queue[s].closed,
         queue'[s].over => queue'[s].events = <<>>,
         Ordered(queue'[s].events, child[s].said),
         out'[r].end # "tool_calls", out'[r].end = "silent" => r \in gone \/ s \in stale,
         out'[r].end = "completed" =>
           /\ child[s].pc = "settled" /\ child[s].end = "ok"
           /\ sess[s].terminal /\ ~sess[s].broken /\ Len(heard[s]) = child[s].said,
         \/ out'[r].usage = out[r].usage
         \/ out'[r].usage = out[r].usage + 1 /\ ~sess[s].used
  PROVE  IInv'
<1>1. Session(s) /\ Shapes /\ run[r].pc = "race" /\ Active(r)
  BY Basics DEF Races, Active
<1>2. Owner(s) = r /\ State(s) \in {"open", "closed"} /\ Raced(s) /\ Client(r)
  BY <1>1, Drivers DEF Client, Steered
<1>3. Owner(s)' = r /\ State(s)' = "closed" /\ ~Raced(s)'
  BY <1>1, <1>2 DEF Released, Raced
<1>4. At(s) = s /\ At(s)' = s
  <2>1. At(s) = s /\ s \in Requests
    BY <1>2, Whereabouts, Basics
  <2>2. CASE s = r
    BY <2>1, <2>2
  <2>3. CASE s # r
    BY <2>1, <2>3 DEF At
  <2>. QED
    BY <2>1, <2>2, <2>3
<1>5. s \in held /\ State(s) = "closed" => run'[s].pc = "failed"
  <2>. SUFFICES ASSUME s \in held, State(s) = "closed" PROVE run'[s].pc = "failed"
    OBVIOUS
  <2>1. run[s].pc = "failed" /\ s \in Requests
    BY <1>1, Basics DEF Session, Steady
  <2>. QED
    BY <1>1, <2>1
<1>6. Apart(s, r)
  BY <1>2, ReleasedApart
<1>7. At(Owner(s))' = s
  BY <1>3 DEF At
<1>8. Session(s)'
  BY <1>2, <1>3, <1>4, <1>5, <1>7, ReleasedSession
<1>9. out[r].usage \in Nat /\ out'[r].usage \in Nat /\ \A q \in Requests : out[q].usage \in Nat
  BY <1>1, Sorts DEF Shapes, OutRecs
<1>10. Paying(s, r)
  <2>1. ~sess[s].used => ~Spent(s)
    BY <1>2 DEF Spent
  <2>. QED
    BY <2>1 DEF Paying
<1>11. Metered(r)'
  <2>1. Spent(s)'
    BY <1>3 DEF Spent
  <2>2. \A q \in Requests : q # r /\ At(q)' = s => At(q) = s /\ out'[q] = out[q] /\ Client(q)
    BY DEF At, IInv
  <2>3. CASE out'[r].usage = out[r].usage
    BY <1>2, <2>1, <2>2, <2>3 DEF Client, Metered
  <2>4. CASE out'[r].usage = out[r].usage + 1 /\ ~sess[s].used
    <3>1. ~Spent(s)
      BY <1>2, <2>4 DEF Spent
    <3>2. out[r].usage = 0
      BY <1>2, <1>9, <3>1 DEF Client, Metered
    <3>3. ASSUME NEW q \in Requests, q # r, At(q)' = s PROVE out'[q].usage = 0
      BY <1>9, <2>2, <3>1, <3>3 DEF Client, Metered
    <3>. QED
      BY <2>1, <2>4, <3>2, <3>3 DEF Metered
  <2>. QED
    BY <2>3, <2>4
<1>12. Client(r)'
  <2>1. Complete(r)'
    BY <1>3 DEF Complete, Released
  <2>2. r \notin byRequest'
    BY <1>2 DEF Released
  <2>3. Promised(r)'
    BY DEF Promised
  <2>. QED
    BY <1>3, <1>11, <2>1, <2>2, <2>3, DoneClient
<1>13. Lasting(s) /\ Retold(s) /\ Alone(s, r)
  BY <1>2, <1>6, DriverAlone DEF Lasting, Released
<1>. QED
  BY <1>3, <1>6, <1>8, <1>10, <1>12, <1>13, DriverLift

LEMMA KeepRefuseCall ==
  ASSUME IInv, NEW r \in Requests, RefuseCall(r)
  PROVE  IInv'
<1> DEFINE s == At(r)
<1>1. Races(r) /\ Active(r) /\ Shapes
  BY DEF RefuseCall, TakeCall, Offered, Races, Active, IInv
<1>2. s \in Sessions /\ State(s) \in {"open", "closed"} /\ Raced(s)
  BY <1>1, Drivers DEF Client, Steered, Races
<1>3. Shapes' /\ Session(s)
  BY <1>1, <1>2, Basics, ShapesRefuseCall
<1>4. Released(s)
  BY <1>2, CloseReleases DEF RefuseCall
<1>5. /\ promise' = [promise EXCEPT ![s] = NoPromise]
      /\ UNCHANGED <<items, queue, gone, heard, stale, belated>>
      /\ Goto(r, "done") /\ out' = Ended(r, "error")
  BY DEF RefuseCall, TakeCall
<1>6. /\ run'[r].pc = "done" /\ At(r)' = s
      /\ \A q \in Requests : q # r => run'[q] = run[q] /\ out'[q] = out[q]
      /\ out'[r].end = (IF r \in gone THEN "silent" ELSE "error")
      /\ out'[r].usage = out[r].usage
  BY <1>1, <1>5, EndedFields, WentFields
<1>7. promise'[s] = NoPromise /\ \A t \in Sessions : t # s => promise'[t] = promise[t]
  BY <1>1, <1>2, <1>5, Sorts
<1>8. /\ queue'[s].over => queue'[s].events = <<>>
      /\ Ordered(queue'[s].events, child[s].said)
  BY <1>3, <1>5 DEF Session, Ending, Heard
<1>. QED
  BY <1>1, <1>2, <1>3, <1>4, <1>5, <1>6, <1>7, <1>8, PumpReleases

LEMMA KeepTakeEnd ==
  ASSUME IInv, NEW r \in Requests, TakeEnd(r)
  PROVE  IInv'
<1> DEFINE s == At(r)
<1>1. Races(r) /\ Active(r) /\ Shapes /\ Reading(r) /\ Shut(s)
  BY DEF TakeEnd, Reading, Races, Active, IInv
<1>2. s \in Sessions /\ State(s) \in {"open", "closed"} /\ Client(r) /\ Raced(s)
  BY <1>1, Drivers DEF Client, Steered, Races
<1>3. Shapes' /\ Session(s) /\ child[s] \in ChildRecs
      /\ heard[s] \in Seq(Nat) /\ child[s].said \in Nat
  BY <1>1, <1>2, Basics, ShapesTakeEnd, ChildFields
<1>4. child[s].pc = "settled" /\ queue[s].events = <<>>
  BY <1>1 DEF Reading, Shut
<1>5. Released(s)
  BY <1>2, <1>4, FinallyReleases DEF TakeEnd
<1>6. /\ UNCHANGED <<promise, items, queue, gone, heard, stale, belated>>
      /\ Goto(r, "done") /\ out' = Ended(r, Outcome(r))
  BY DEF TakeEnd, PumpFrame
<1>7. /\ run'[r].pc = "done" /\ At(r)' = s
      /\ \A q \in Requests : q # r => run'[q] = run[q] /\ out'[q] = out[q]
      /\ out'[r].end = (IF r \in gone THEN "silent" ELSE Outcome(r))
      /\ out'[r].usage = out[r].usage
  BY <1>1, <1>6, EndedFields, WentFields
<1>8. /\ queue'[s].over => queue'[s].events = <<>>
      /\ Ordered(queue'[s].events, child[s].said)
  BY <1>3, <1>6 DEF Session, Ending, Heard
<1>9. Outcome(r) = "silent" => r \in gone \/ s \in stale
  <2>. SUFFICES ASSUME Outcome(r) = "silent" PROVE r \in gone \/ s \in stale
    OBVIOUS
  <2>1. ~queue[s].over /\ Stopped(r)
    BY DEF Outcome, Verdict
  <2>. QED
    BY <1>1, <1>2, <2>1 DEF Stopped, Client, Explained
<1>10. ASSUME Outcome(r) = "completed"
       PROVE  /\ child[s].end = "ok" /\ sess[s].terminal /\ ~sess[s].broken
              /\ Len(heard[s]) = child[s].said
  <2>1. ~queue[s].over /\ child[s].end = "ok" /\ sess[s].terminal /\ ~sess[s].broken
    BY <1>10 DEF Outcome, Verdict
  <2>2. Covering(<<>>, Len(heard[s]), child[s].said) /\ Len(heard[s]) <= child[s].said
    BY <1>2, <1>3, <1>4, <2>1 DEF Session, Queued, Heard
  <2>3. Len(heard[s]) \in Nat
    BY <1>3
  <2>4. Len(heard[s]) = child[s].said
    BY <1>3, <2>2, <2>3, TextsNone
  <2>. QED
    BY <2>1, <2>4
<1>11. (out'[r].end = "completed" => Outcome(r) = "completed") /\ out'[r].end # "tool_calls"
  BY <1>7 DEF Outcome, Verdict
<1>. QED
  BY <1>1, <1>2, <1>3, <1>4, <1>5, <1>6, <1>7, <1>8, <1>9, <1>10, <1>11, PumpReleases

LEMMA NotedFields ==
  ASSUME NEW rec \in SessRecs, NEW e
  PROVE  LET new == Noted(rec, e) IN
         /\ new.state = rec.state /\ new.owner = rec.owner /\ new.tools = rec.tools
         /\ new.aborted = rec.aborted /\ new.gate = rec.gate /\ new.parked = rec.parked
         /\ new.public = rec.public /\ new.deadlines = rec.deadlines
         /\ new.used = (rec.used \/ e[1] = "usage")
BY DEF Noted, SessRecs

LEMMA KeepTakeEvent ==
  ASSUME IInv, NEW r \in Requests, TakeEvent(r), NEW s, s = At(r)
  PROVE  IInv'
<1> DEFINE e == Head(queue[s].events)
           pays == e[1] = "usage" /\ ~sess[s].used /\ r \notin gone
           o == [out EXCEPT ![r].usage = @ + (IF pays THEN 1 ELSE 0)]
<1>1. Races(r) /\ Active(r) /\ Shapes /\ queue[s].events # <<>>
  BY DEF TakeEvent, Reading, Races, Active, IInv
<1>2. s \in Sessions /\ State(s) \in {"open", "closed"} /\ Client(r) /\ Raced(s) /\ Owner(s) = r
  BY <1>1, Drivers DEF Client, Steered, Races
<1>3. /\ Shapes' /\ Session(s) /\ sess[s] \in SessRecs /\ queue[s] \in QueueRecs
      /\ child[s].said \in Nat /\ heard[s] \in Seq(Nat) /\ s # Nobody
      /\ queue[s].events \in Seq(Kinds \X Nat)
  BY <1>1, <1>2, Basics, ShapesTakeEvent, ChildFields
<1>4. queue' = [queue EXCEPT ![s].events = Tail(@)]
      /\ UNCHANGED <<promise, items, gone, stale, belated>>
  BY DEF TakeEvent, PumpFrame
<1>5. /\ queue'[s].events = Tail(queue[s].events)
      /\ queue'[s].over = queue[s].over /\ queue'[s].closed = queue[s].closed
      /\ \A t \in Sessions : t # s => queue'[t] = queue[t]
  BY <1>1, <1>2, <1>3, <1>4, Sorts DEF QueueRecs
<1>6. ~queue[s].over
  BY <1>1, <1>3 DEF Session, Ending
<1>7. /\ Ordered(queue'[s].events, child[s].said)
      /\ \A h \in Nat : Covering(queue[s].events, h, child[s].said) =>
           IF e[1] = "text" THEN /\ e[2] = h + 1 /\ h + 1 <= child[s].said
                                 /\ Covering(queue'[s].events, h + 1, child[s].said)
           ELSE Covering(queue'[s].events, h, child[s].said)
  <2>1. Ordered(queue[s].events, child[s].said)
    BY <1>3 DEF Session, Heard
  <2>. QED
    BY <1>1, <1>3, <1>5, <2>1, TextsShrink
<1>8. /\ o[r].end = out[r].end /\ o[r].usage = out[r].usage + (IF pays THEN 1 ELSE 0)
      /\ \A q \in Requests : q # r => o[q] = out[q]
      /\ o \in [Requests -> OutRecs] /\ out[r].usage \in Nat
  <2>1. out[r] \in OutRecs /\ out[r].usage \in Nat
    BY <1>1, Sorts DEF OutRecs
  <2>2. out[r].usage + (IF pays THEN 1 ELSE 0) \in Nat
    BY <2>1
  <2>3. [out[r] EXCEPT !.usage = @ + (IF pays THEN 1 ELSE 0)] \in OutRecs
    BY <2>1, <2>2 DEF OutRecs
  <2>4. o = [out EXCEPT ![r] = [out[r] EXCEPT !.usage = @ + (IF pays THEN 1 ELSE 0)]]
    BY <1>1, Sorts
  <2>5. o[r] = [out[r] EXCEPT !.usage = @ + (IF pays THEN 1 ELSE 0)]
        /\ \A q \in Requests : q # r => o[q] = out[q]
    BY <1>1, <2>4, Sorts
  <2>. QED
    BY <1>1, <2>1, <2>3, <2>4, <2>5, Sorts DEF OutRecs
<1>9. CASE Stopped(r)
  <2>1. /\ Finally(s, sess[s]) /\ Goto(r, "done") /\ out' = [o EXCEPT ![r].end = "silent"]
        /\ heard' = heard
    BY <1>9 DEF TakeEvent
  <2>2. ~sess[s].tools => child[s].pc # "live" \/ s \in gone
    <3>1. ~sess[s].tools => s = r
      BY <1>2, <1>3 DEF Session, Steady
    <3>2. sess[s].aborted /\ ~sess[s].tools => child[s].pc # "live" \/ s \in gone
      BY <1>2, <1>3 DEF Session, Ending
    <3>. QED
      BY <1>9, <3>1, <3>2 DEF Stopped
  <2>3. Released(s)
    BY <1>2, <2>1, <2>2, FinallyReleases
  <2>4. run'[r].pc = "done" /\ At(r)' = s /\ \A q \in Requests : q # r => run'[q] = run[q]
    BY <1>1, <2>1, WentFields
  <2>5. out'[r].end = "silent" /\ out'[r].usage = o[r].usage
        /\ \A q \in Requests : q # r => out'[q] = out[q]
    BY <1>8, <2>1 DEF OutRecs
  <2>6. r \in gone \/ s \in stale
    BY <1>1, <1>2, <1>6, <1>9 DEF Stopped, Client, Explained
  <2>. HIDE DEF o
  <2>7. out'[r].usage = out[r].usage \/ (out'[r].usage = out[r].usage + 1 /\ ~sess[s].used)
    BY <1>8, <2>5
  <2>8. queue'[s].over => queue'[s].events = <<>>
    BY <1>5, <1>6
  <2>9. promise'[s] \in {NoPromise, promise[s]} /\ UNCHANGED <<items, gone, stale, heard, belated>>
        /\ \A t \in Sessions : t # s => queue'[t] = queue[t] /\ promise'[t] = promise[t]
    BY <1>4, <1>5, <2>1
  <2>. QED
    BY <1>1, <1>2, <1>3, <1>5, <1>7, <2>3, <2>4, <2>5, <2>6, <2>7, <2>8, <2>9, PumpReleases
<1>10. CASE ~Stopped(r)
  <2>1. /\ sess' = [sess EXCEPT ![s] = Noted(sess[s], e)] /\ out' = o
        /\ heard' = (IF e[1] = "text" THEN [heard EXCEPT ![s] = Append(@, e[2])] ELSE heard)
        /\ UNCHANGED <<run, child, maps, frames>>
    BY <1>1, <1>2, <1>10, Sorts DEF TakeEvent
  <2>2. sess'[s] = Noted(sess[s], e) /\ \A t \in Sessions : t # s => sess'[t] = sess[t]
    BY <1>1, <1>2, <2>1, Sorts
  <2>3. heard'[s] = (IF e[1] = "text" THEN Append(heard[s], e[2]) ELSE heard[s])
        /\ \A t \in Sessions : t # s => heard'[t] = heard[t]
    BY <1>1, <1>2, <2>1, Sorts
  <2>4. /\ State(s)' = State(s) /\ Owner(s)' = Owner(s) /\ sess'[s].tools = sess[s].tools
        /\ sess'[s].aborted = sess[s].aborted /\ sess'[s].gate = sess[s].gate
        /\ sess'[s].parked = sess[s].parked /\ sess'[s].public = sess[s].public
        /\ sess'[s].deadlines = sess[s].deadlines /\ sess'[s].used = (sess[s].used \/ e[1] = "usage")
    BY <1>2, <1>3, <2>1, <2>2, NotedFields, SMTT(30) DEF State, Owner
  <2>5. At(r)' = s /\ (L!Pending)' = L!Pending /\ (Raced(s)' <=> Raced(s))
    BY <2>1, <2>4 DEF At, L!Pending, Raced, maps
  <2>6. Apart(s, r)
    <3>1. \A t \in Sessions : t # s => Same(t)
      BY <1>4, <1>5, <2>1, <2>2, <2>3 DEF Same, maps
    <3>2. \A q \in Requests : q # r => out'[q] = out[q]
      BY <1>8, <2>1
    <3>. QED
      BY <1>4, <2>1, <2>5, <3>1, <3>2 DEF Apart, maps
  <2>7. Steady(s)'
    BY <1>2, <1>3, <2>1, <2>4 DEF Session, Steady, At, maps
  <2>8. State(s) = "open"
    BY <1>2, <1>3, <1>10 DEF Session, Framed, Stopped
  <2>9. Called(s)' /\ Guarded(s)'
    BY <1>2, <1>3, <1>4, <2>1, <2>4, <2>5, SMTT(30) DEF Session, Called, Guarded, maps
  <2>10. Framed(s)'
    BY <1>2, <1>3, <1>4, <1>5, <2>1, <2>4, <2>5, <2>8, SMTT(30) DEF Session, Framed, Flooded, maps
  <2>11. Ending(s)'
    BY <1>2, <1>3, <1>4, <1>5, <1>6, <2>1, <2>4 DEF Session, Ending
  <2>12. Heard(s)' /\ Queued(s)'
    <3>1. Covering(queue[s].events, Len(heard[s]), child[s].said) /\ Len(heard[s]) <= child[s].said
          /\ heard[s] = [i \in 1..Len(heard[s]) |-> i]
      BY <1>2, <1>3, <1>6 DEF Session, Queued, Heard
    <3>2. Len(heard[s]) \in Nat
      BY <1>3
    <3>3. CASE e[1] = "text"
      <4>1. /\ e[2] = Len(heard[s]) + 1 /\ Len(heard[s]) + 1 <= child[s].said
            /\ Covering(queue'[s].events, Len(heard[s]) + 1, child[s].said)
        BY <1>7, <3>1, <3>2, <3>3
      <4>. HIDE DEF e
      <4>2. heard'[s] = Append(heard[s], Len(heard[s]) + 1)
        BY <2>3, <3>3, <4>1
      <4>3. Len(heard'[s]) = Len(heard[s]) + 1
            /\ heard'[s] = [i \in 1..(Len(heard[s]) + 1) |-> i]
        <5>. DEFINE h == heard[s]
        <5>1. h \in Seq(Nat) /\ h = [i \in 1..Len(h) |-> i]
          BY <1>3, <3>1
        <5>. HIDE DEF h
        <5>2. Append(h, Len(h) + 1) = [i \in 1..(Len(h) + 1) |-> i]
              /\ Len(Append(h, Len(h) + 1)) = Len(h) + 1
          BY <5>1
        <5>. QED
          BY <4>2, <5>2 DEF h
      <4>. QED
        BY <1>7, <2>1, <4>1, <4>3 DEF Heard, Queued
    <3>4. CASE e[1] # "text"
      BY <1>7, <2>1, <2>3, <3>1, <3>2, <3>4 DEF Heard, Queued
    <3>. QED
      BY <3>3, <3>4
  <2>13. Session(s)'
    BY <2>7, <2>11, <2>12, <2>9, <2>10 DEF Session
  <2>14. Client(r)'
    <3>0. out'[r].end = out[r].end /\ out[r].end # "tool_calls"
      BY <1>1, <1>2, <1>8, <2>1 DEF Client, Promised, Races
    <3>1. Steered(r)'
      BY <1>2, <1>4, <2>1, <2>4, <2>5, <1>1 DEF Client, Steered, Active, maps, Races
    <3>2. Explained(r)'
      BY <1>2, <1>4, <1>5, <2>1, <2>4, <2>5, <3>0 DEF Client, Explained, Races
    <3>3. Complete(r)' /\ Promised(r)'
      BY <1>2, <3>0 DEF Client, Complete, Promised
    <3>4. Metered(r)'
      <4>1. Spent(s) <=> sess[s].used
        BY <1>2 DEF Spent
      <4>2. Spent(s)' <=> sess[s].used \/ e[1] = "usage"
        BY <1>2, <2>4, <2>5 DEF Spent
      <4>3. \A q \in Requests : q # r /\ At(q)' = s =>
              /\ At(q) = s /\ out'[q] = out[q] /\ Client(q) /\ out[q].usage \in Nat
        BY <1>1, <1>8, <2>1, Sorts DEF At, IInv, OutRecs
      <4>4. CASE pays
        <5>1. out[r].usage = 0
          BY <1>2, <1>8, <4>1, <4>4 DEF Client, Metered
        <5>2. out'[r].usage = 1
          BY <1>8, <2>1, <4>4, <5>1
        <5>3. ASSUME NEW q \in Requests, q # r, At(q)' = s PROVE out'[q].usage = 0
          BY <4>1, <4>3, <4>4, <5>3 DEF Client, Metered
        <5>. QED
          BY <1>2, <2>5, <4>2, <4>4, <5>2, <5>3 DEF Metered
      <4>5. CASE ~pays
        <5>1. out'[r].usage = out[r].usage
          BY <1>8, <2>1, <4>5
        <5>. QED
          BY <1>2, <2>5, <4>1, <4>2, <4>3, <5>1 DEF Client, Metered
      <4>. QED
        BY <4>4, <4>5
    <3>. QED
      BY <3>1, <3>2, <3>3, <3>4 DEF Client
  <2>15. Paying(s, r)
    <3>1. pays => ~Spent(s)
      BY <1>2 DEF Spent
    <3>2. ~pays => out'[r].usage = out[r].usage
      BY <1>8, <2>1
    <3>. QED
      BY <3>1, <3>2 DEF Paying
  <2>16. Lasting(s) /\ Alone(s, r)
    BY <1>2, <1>5, <2>4, <2>6, DriverAlone DEF Lasting
  <2>17. State(s)' # "none" /\ Retold(s)
    BY <1>2, <2>1, <2>4, <2>5, SameCallsRetold DEF maps
  <2>. QED
    BY <1>2, <1>3, <2>6, <2>13, <2>14, <2>15, <2>16, <2>17, DriverLift
<1>. QED
  BY <1>9, <1>10

(* A client that hangs up aborts the run it opened, or closes the session  *)
(* it is bound to.                                                         *)
LEMMA KeepHangUp ==
  ASSUME IInv, NEW r \in Requests, HangUp(r), NEW s, s = At(r)
  PROVE  IInv'
<1>1. Active(r) /\ Shapes /\ gone' = gone \cup {r}
      /\ UNCHANGED <<promise, items, queue, run, out, heard, stale, belated>>
  BY DEF HangUp, Active, IInv, history
<1>2. s \in Sessions /\ Owner(s) = r /\ State(s) # "none" /\ Client(r) /\ (Raced(s) <=> Races(r))
  BY <1>1, Drivers
<1>3. Session(s) /\ Shapes' /\ child[s] \in ChildRecs /\ sess[s] \in SessRecs
      /\ s \in Requests /\ s # Nobody /\ At(s) = s
  BY <1>1, <1>2, Basics, ShapesHangUp, Whereabouts
<1>4. At(r)' = s /\ At(s)' = s /\ run'[r] = run[r] /\ run'[s] = run[s]
      /\ \A q \in Requests : At(q)' = At(q)
  BY <1>1, <1>3 DEF At
<1>5. CASE r \in byRequest
  <2>1. State(s) = "open" /\ sess[s].tools
    BY <1>2, <1>5 DEF Client, Steered
  <2>2. Races(r) /\ out[r].end # "tool_calls"
    BY <1>1, <1>2, <2>1 DEF Client, Steered, Active, Races, Promised
  <2>3. Released(s)
    BY <1>2, <1>5, <2>1, <2>2, CloseReleases DEF HangUp
  <2>4. Apart(s, r)
    BY <1>1, <1>2, <1>4, <2>3, ReleasedApart
  <2>5. /\ State(s)' = "closed" /\ Owner(s)' = r /\ (Raced(s)' <=> Raced(s))
        /\ r \notin byRequest'
    BY <1>1, <1>2, <2>3 DEF Released, Raced
  <2>6. At(Owner(s))' = s
    BY <1>4, <2>5 DEF At
  <2>7. /\ queue'[s].over => queue'[s].events = <<>>
        /\ Ordered(queue'[s].events, child[s].said)
    BY <1>1, <1>3 DEF Session, Ending, Heard
  <2>8. Quiet /\ sess'[s].aborted
    BY <2>1, <2>3 DEF Released, HangUp
  <2>9. Session(s)'
    BY <1>1, <1>2, <1>3, <1>4, <2>1, <2>3, <2>5, <2>6, <2>7, <2>8, ReleasedSession
  <2>10. Client(r)'
    <3>1. run[r].pc = "race"
      BY <1>1, <1>2, <2>1 DEF Client, Steered, Active
    <3>2. Steered(r)'
      BY <1>2, <1>4, <2>5, <3>1 DEF Steered
    <3>3. Explained(r)'
      BY <1>1 DEF Explained
    <3>4. Complete(r)'
      BY <1>1, <1>2, <2>1 DEF Client, Complete
    <3>5. Metered(r)'
      BY <1>1, <1>2, <1>4, <2>1, <2>3, <2>5 DEF Client, Metered, Spent, Released
    <3>6. Promised(r)'
      BY <1>1, <2>2 DEF Promised
    <3>. QED
      BY <3>2, <3>3, <3>4, <3>5, <3>6 DEF Client
  <2>11. Lasting(s) /\ Retold(s) /\ Paying(s, r) /\ Alone(s, r)
    BY <1>1, <1>2, <2>1, <2>3, <2>4, DriverAlone DEF Lasting, Paying, Released
  <2>. QED
    BY <1>2, <1>3, <2>4, <2>5, <2>9, <2>10, <2>11, DriverLift
<1>6. CASE r \notin byRequest
  <2>1. /\ sess' = [sess EXCEPT ![s].aborted = @ \/ s = r]
        /\ child' = [child EXCEPT ![s] = IF s = r THEN Aborted(s) ELSE @]
        /\ UNCHANGED <<maps, frames>>
    BY <1>6 DEF HangUp
  <2>2. sess'[s] = [sess[s] EXCEPT !.aborted = @ \/ s = r]
        /\ child'[s] = (IF s = r THEN Aborted(s) ELSE child[s])
        /\ \A t \in Sessions : t # s => sess'[t] = sess[t] /\ child'[t] = child[t]
    BY <1>1, <1>2, <2>1, Sorts
  <2>3. /\ State(s)' = State(s) /\ Owner(s)' = Owner(s) /\ sess'[s].tools = sess[s].tools
        /\ sess'[s].gate = sess[s].gate /\ sess'[s].parked = sess[s].parked
        /\ sess'[s].public = sess[s].public /\ sess'[s].deadlines = sess[s].deadlines
        /\ sess'[s].used = sess[s].used /\ sess'[s].terminal = sess[s].terminal
        /\ sess'[s].broken = sess[s].broken /\ sess'[s].aborted = (sess[s].aborted \/ s = r)
    BY <1>3, <2>2 DEF State, Owner, SessRecs
  <2>4. /\ child'[s].end = child[s].end /\ child'[s].said = child[s].said
        /\ child'[s].pc \in {child[s].pc, "stopping"}
        /\ (child'[s].pc = child[s].pc \/ child[s].pc = "live")
    BY <1>3, <2>2, StoppingFields DEF Aborted
  <2>5. (Raced(s)' <=> Raced(s)) /\ (L!Pending)' = L!Pending
    BY <1>1, <2>1, <2>3 DEF Raced, L!Pending, maps
  <2>6. Apart(s, r)
    BY <1>1, <1>2, <1>4, <2>1, <2>2 DEF Apart, Same, maps
  <2>7. State(s) = "open" => ~sess[s].tools /\ s = r
    BY <1>2, <1>3, <1>6 DEF Session, Steady
  <2>8. Session(s)'
    <3>1. Steady(s)'
      BY <1>2, <1>3, <1>1, <2>1, <2>3 DEF Session, Steady, At, maps
    <3>2. Called(s)' /\ Guarded(s)' /\ Framed(s)'
      BY <1>1, <1>2, <1>3, <2>1, <2>3, <2>5 DEF Session, Called, Guarded, Framed, Shut, Flooded, maps
    <3>3. Ending(s)'
      BY <1>1, <1>2, <1>3, <2>3, <2>4, <2>7 DEF Session, Ending
    <3>4. Heard(s)' /\ Queued(s)'
      BY <1>1, <1>3, <2>3, <2>4, <2>5 DEF Session, Heard, Queued
    <3>. QED
      BY <3>1, <3>2, <3>3, <3>4 DEF Session
  <2>9. Client(r)'
    <3>1. Steered(r)'
      BY <1>1, <1>2, <1>4, <2>1, <2>3 DEF Client, Steered, Active, maps, State
    <3>2. Explained(r)'
      BY <1>1 DEF Explained
    <3>3. Complete(r)'
      BY <1>1, <1>2, <1>4, <2>3, <2>4, <2>5 DEF Client, Complete
    <3>4. Metered(r)'
      BY <1>1, <1>2, <1>4, <2>3, <2>5 DEF Client, Metered, Spent
    <3>5. Promised(r)'
      BY <1>1, <1>2 DEF Client, Promised, Active
    <3>. QED
      BY <3>1, <3>2, <3>3, <3>4, <3>5 DEF Client
  <2>10. Lasting(s) /\ Retold(s)
    BY <1>1, <1>2, <2>1, <2>3, <2>4, <2>5, SameCallsRetold DEF Lasting, maps
  <2>11. Paying(s, r) /\ Alone(s, r)
    BY <1>1, <1>2, <2>6, DriverAlone DEF Paying
  <2>. QED
    BY <1>2, <1>3, <2>3, <2>6, <2>8, <2>9, <2>10, <2>11, DriverLift
<1>. QED
  BY <1>5, <1>6

(* A start that fails.                                                     *)
LEMMA KeepStartFails ==
  ASSUME IInv, NEW r \in Requests, StartFails(r)
  PROVE  IInv'
<1>1. run[r].pc = "listening" /\ Shapes
  BY DEF StartFails, IInv
<1>2. /\ r \in Sessions /\ At(r) = r /\ Owner(r) = r /\ Client(r) /\ Session(r) /\ ~Raced(r)
      /\ State(r) = "starting" /\ r \notin byRequest
  BY <1>1, AtItsOwn
<1>3. Shapes' /\ sess[r] \in SessRecs
  BY <1>1, <1>2, ShapesStartFails, Basics
<1>4. /\ sess' = [sess EXCEPT ![r].state = "closed"] /\ held' = held \ {r}
      /\ Goto(r, "done") /\ out' = Ended(r, "error")
      /\ UNCHANGED <<frames, promise, items, queue, child, sessions, byRequest, ledger, gone, heard,
                     stale, belated>>
  BY DEF StartFails, channelVars
<1>5. sess'[r] = [sess[r] EXCEPT !.state = "closed"]
      /\ \A t \in Sessions : t # r => sess'[t] = sess[t]
  BY <1>1, <1>2, <1>4, Sorts
<1>6. /\ State(r)' = "closed" /\ Owner(r)' = r /\ sess'[r].parked = sess[r].parked
      /\ sess'[r].tools = sess[r].tools /\ sess'[r].used = sess[r].used
      /\ sess'[r].aborted = sess[r].aborted
  BY <1>2, <1>3, <1>5 DEF State, Owner, SessRecs
<1>7. /\ run'[r].pc = "done" /\ At(r)' = r /\ ~Raced(r)'
      /\ out'[r].usage = out[r].usage /\ out'[r].end = (IF r \in gone THEN "silent" ELSE "error")
      /\ \A q \in Requests : q # r => run'[q] = run[q] /\ out'[q] = out[q]
  BY <1>1, <1>2, <1>4, <1>6, EndedFields, WentFields DEF Raced
<1>8. Apart(r, r)
  BY <1>2, <1>4, <1>5, <1>7 DEF Apart, Same
<1>9. \A n \in 1..MaxCalls : /\ <<r, n>> \notin sessions' \cup (L!Pending)'
                             /\ frames'[<<r, n>>] = "unsent"
  <2>1. (L!Pending)' = L!Pending
    BY <1>4 DEF L!Pending
  <2>. QED
    BY <1>2, <1>4, <2>1 DEF Session, Called, Framed
<1>10. Session(r)'
  <2>1. Steady(r)'
    BY <1>4, <1>6, <1>7 DEF Steady
  <2>2. Called(r)' /\ Guarded(r)'
    BY <1>6, <1>9 DEF Called, Guarded
  <2>3. Framed(r)'
    BY <1>2, <1>4, <1>6, <1>7, <1>9 DEF Session, Framed
  <2>4. Ending(r)' /\ Heard(r)' /\ Queued(r)'
    BY <1>2, <1>4, <1>6, <1>7 DEF Session, Ending, Heard, Queued
  <2>. QED
    BY <2>1, <2>2, <2>3, <2>4 DEF Session
<1>11. Client(r)'
  <2>1. Metered(r)'
    <3>1. \A q \in Requests : q # r /\ At(q)' = r => At(q) = r /\ out'[q] = out[q]
      BY <1>7 DEF At
    <3>. QED
      BY <1>2, <1>6, <1>7, <3>1 DEF Client, Metered, Spent
  <2>2. Complete(r)' /\ Promised(r)'
    BY <1>7 DEF Complete, Promised
  <2>. QED
    BY <1>2, <1>4, <1>6, <1>7, <2>1, <2>2, DoneClient
<1>12. Lasting(r) /\ Retold(r) /\ Paying(r, r) /\ Alone(r, r)
  <2>1. Retold(r)
    BY <1>2, <1>4, <1>9, NoCallsRetold
  <2>. QED
    BY <1>2, <1>4, <1>6, <1>7, <1>8, <2>1, DriverAlone DEF Lasting, Paying
<1>. QED
  BY <1>2, <1>3, <1>6, <1>8, <1>10, <1>11, <1>12, DriverLift

LEMMA KeepPublishFails ==
  ASSUME IInv, NEW r \in Requests, PublishFails(r)
  PROVE  IInv'
<1>1. run[r].pc = "listening" /\ Shapes
  BY DEF PublishFails, IInv
<1>2. /\ r \in Sessions /\ At(r) = r /\ Owner(r) = r /\ Client(r) /\ Session(r) /\ ~Raced(r)
      /\ State(r) = "starting" /\ r \notin byRequest
  BY <1>1, AtItsOwn
<1>3. Shapes' /\ sess[r] \in SessRecs /\ child[r] \in ChildRecs
  BY <1>1, <1>2, ShapesPublishFails, Basics
<1>4. /\ sess' = [sess EXCEPT ![r].state = "closed", ![r].aborted = TRUE]
      /\ child' = [child EXCEPT ![r].pc = IF sess[r].aborted THEN "live" ELSE "stopping"]
      /\ Goto(r, "failed")
      /\ UNCHANGED <<frames, promise, items, queue, sessions, byRequest, held, ledger, gone, out,
                     heard, stale, belated>>
  BY DEF PublishFails, channelVars, maps, history
<1>5. /\ sess'[r] = [sess[r] EXCEPT !.state = "closed", !.aborted = TRUE]
      /\ child'[r] = [child[r] EXCEPT !.pc = IF sess[r].aborted THEN "live" ELSE "stopping"]
      /\ \A t \in Sessions : t # r => sess'[t] = sess[t] /\ child'[t] = child[t]
  BY <1>1, <1>2, <1>4, Sorts
<1>6. /\ State(r)' = "closed" /\ Owner(r)' = r /\ sess'[r].parked = sess[r].parked
      /\ sess'[r].tools = sess[r].tools /\ sess'[r].used = sess[r].used
      /\ sess'[r].aborted
  BY <1>2, <1>3, <1>5 DEF State, Owner, SessRecs
<1>7. /\ child'[r].pc = (IF sess[r].aborted THEN "live" ELSE "stopping")
      /\ child'[r].said = child[r].said
      /\ ~queue[r].closed /\ ~queue[r].over /\ queue[r].events = <<>> /\ child[r].said = 0
      /\ (sess[r].aborted => r \in gone)
  BY <1>2, <1>3, <1>5 DEF ChildRecs, Session, Ending
<1>8. /\ run'[r].pc = "failed" /\ At(r)' = r /\ ~Raced(r)'
      /\ \A q \in Requests : q # r => run'[q] = run[q]
  BY <1>1, <1>2, <1>4, <1>6, WentFields DEF Raced
<1>9. Apart(r, r)
  BY <1>2, <1>4, <1>5, <1>8 DEF Apart, Same
<1>10. \A n \in 1..MaxCalls : /\ <<r, n>> \notin sessions' \cup (L!Pending)'
                              /\ frames'[<<r, n>>] = "unsent"
  <2>1. (L!Pending)' = L!Pending
    BY <1>4 DEF L!Pending
  <2>. QED
    BY <1>2, <1>4, <2>1 DEF Session, Called, Framed
<1>11. Session(r)'
  <2>1. Steady(r)'
    BY <1>4, <1>6, <1>8 DEF Steady
  <2>2. Called(r)' /\ Guarded(r)'
    BY <1>6, <1>10 DEF Called, Guarded
  <2>3. Framed(r)'
    BY <1>2, <1>4, <1>6, <1>8, <1>10 DEF Session, Framed
  <2>4. Ending(r)'
    BY <1>4, <1>6, <1>7 DEF Ending
  <2>5. Heard(r)' /\ Queued(r)'
    BY <1>2, <1>4, <1>6, <1>7, <1>8 DEF Session, Heard, Queued
  <2>. QED
    BY <2>1, <2>2, <2>3, <2>4, <2>5 DEF Session
<1>12. Client(r)'
  <2>1. Metered(r)'
    <3>1. \A q \in Requests : At(q)' = r => At(q) = r
      BY <1>2, <1>8 DEF At
    <3>. QED
      BY <1>2, <1>4, <1>6, <1>8, <3>1 DEF Client, Metered, Spent
  <2>2. Steered(r)' /\ Explained(r)'
    BY <1>2, <1>4, <1>6, <1>8 DEF Client, Steered, Explained, Active, Races
  <2>3. Complete(r)' /\ Promised(r)'
    BY <1>1, <1>2, <1>4 DEF Client, Complete, Promised
  <2>. QED
    BY <2>1, <2>2, <2>3 DEF Client
<1>13. Lasting(r) /\ Retold(r) /\ Paying(r, r) /\ Alone(r, r)
  <2>1. Retold(r)
    BY <1>2, <1>4, <1>10, NoCallsRetold
  <2>. QED
    BY <1>2, <1>4, <1>6, <1>7, <1>8, <1>9, <2>1, DriverAlone DEF Lasting, Paying
<1>. QED
  BY <1>2, <1>3, <1>6, <1>9, <1>11, <1>12, <1>13, DriverLift

LEMMA KeepEndFailed ==
  ASSUME IInv, NEW r \in Requests, EndFailed(r)
  PROVE  IInv'
<1>1. run[r].pc = "failed" /\ Shapes
  BY DEF EndFailed, IInv
<1>2. /\ r \in Sessions /\ At(r) = r /\ Owner(r) = r /\ Client(r) /\ Session(r) /\ ~Raced(r)
      /\ State(r) = "closed" /\ r \notin byRequest
  BY <1>1, AtItsOwn
<1>3. Shapes'
  BY <1>1, ShapesEndFailed
<1>4. /\ held' = held \ {r} /\ Goto(r, "done") /\ out' = Ended(r, "error")
      /\ UNCHANGED <<frames, promise, items, sess, queue, child, sessions, byRequest, ledger, gone,
                     heard, stale, belated>>
  BY DEF EndFailed, channelVars
<1>5. State(r)' = "closed" /\ Owner(r)' = r /\ (L!Pending)' = L!Pending
  BY <1>2, <1>4 DEF State, Owner, L!Pending
<1>6. /\ run'[r].pc = "done" /\ At(r)' = r /\ ~Raced(r)'
      /\ out'[r].usage = out[r].usage /\ out'[r].end = (IF r \in gone THEN "silent" ELSE "error")
      /\ \A q \in Requests : q # r => run'[q] = run[q] /\ out'[q] = out[q]
  BY <1>1, <1>2, <1>4, <1>5, EndedFields, WentFields DEF Raced
<1>7. Apart(r, r)
  BY <1>2, <1>4, <1>6 DEF Apart, Same
<1>8. Session(r)'
  <2>1. Steady(r)'
    BY <1>4, <1>5, <1>6 DEF Steady
  <2>2. Called(r)' /\ Guarded(r)' /\ Framed(r)'
    BY <1>1, <1>2, <1>4, <1>5, <1>6 DEF Session, Called, Guarded, Framed
  <2>3. Ending(r)' /\ Heard(r)' /\ Queued(r)'
    BY <1>2, <1>4, <1>5, <1>6 DEF Session, Ending, Heard, Queued
  <2>. QED
    BY <2>1, <2>2, <2>3 DEF Session
<1>9. Client(r)'
  <2>1. Metered(r)'
    <3>1. \A q \in Requests : q # r /\ At(q)' = r => At(q) = r /\ out'[q] = out[q]
      BY <1>6 DEF At
    <3>. QED
      BY <1>2, <1>5, <1>6, <3>1 DEF Client, Metered, Spent
  <2>2. Complete(r)' /\ Promised(r)'
    BY <1>6 DEF Complete, Promised
  <2>. QED
    BY <1>2, <1>4, <1>5, <1>6, <2>1, <2>2, DoneClient
<1>10. Lasting(r) /\ Retold(r) /\ Paying(r, r) /\ Alone(r, r)
  <2>1. Retold(r)
    BY <1>2, <1>4, <1>5, SameCallsRetold
  <2>. QED
    BY <1>2, <1>4, <1>5, <1>6, <1>7, <2>1, DriverAlone DEF Lasting, Paying
<1>. QED
  BY <1>2, <1>3, <1>5, <1>7, <1>8, <1>9, <1>10, DriverLift

(* A call is parked: nobody drives the run until its result comes.  One    *)
(* that came to a closed session came after the close.                     *)
LEMMA ParkedFields ==
  ASSUME NEW rec \in SessRecs, NEW n \in 0..MaxCalls
  PROVE  LET new == Parked(rec, n) IN
         /\ new.state = rec.state /\ new.owner = rec.owner /\ new.tools = rec.tools
         /\ new.aborted = rec.aborted /\ new.used = rec.used
         /\ new.gate /\ new.parked = n /\ new.public = n /\ new.deadlines > 0
<1>1. rec.deadlines \in Nat
  BY DEF SessRecs
<1>. QED
  BY <1>1 DEF Parked, SessRecs

LEMMA KeepParkCall ==
  ASSUME IInv, NEW r \in Requests, ParkCall(r), NEW s, s = At(r), NEW n, n = promise[s]
  PROVE  IInv'
<1>1. Races(r) /\ Active(r) /\ Shapes /\ Handed(s) /\ ~Shut(s)
  BY DEF ParkCall, TakeCall, Offered, Races, Active, IInv
<1>2. s \in Sessions /\ State(s) \in {"open", "closed"} /\ Client(r) /\ Raced(s) /\ Owner(s) = r
  BY <1>1, Drivers DEF Client, Steered, Races
<1>3. Session(s) /\ sess[s] \in SessRecs /\ Shapes' /\ s \in Requests /\ At(s) = s
  BY <1>1, <1>2, Basics, ShapesParkCall, Whereabouts
<1>4. n \in 1..MaxCalls /\ n \in 0..MaxCalls /\ n # NoPromise /\ <<s, n>> \in Calls
  BY <1>1, <1>2, Constants DEF Handed, NoPromise
<1>5. /\ sess[s].tools /\ sess[s].parked = 0 /\ ~queue[s].over /\ ~Flooded(s)
      /\ State(s) = "closed" => sess[s].aborted /\ <<s, n>> \in belated
      /\ State(s) = "open" => items[s] = <<>>
  <2>1. ~queue[s].over
    BY <1>1, <1>3 DEF Session, Ending, Shut
  <2>2. sess[s].tools /\ sess[s].parked = 0
    BY <1>2, <1>3, <1>4 DEF Session, Framed
  <2>3. State(s) = "closed" => sess[s].aborted /\ <<s, n>> \in belated
    BY <1>1, <1>2, <1>3, <1>4 DEF Session, Framed
  <2>4. State(s) = "open" => items[s] = <<>>
    BY <1>3, <2>1 DEF Session, Framed, Flooded
  <2>. QED
    BY <2>1, <2>2, <2>3, <2>4 DEF Flooded
<1>6. /\ sess' = [sess EXCEPT ![s] = Parked(sess[s], n)]
      /\ promise' = [promise EXCEPT ![s] = NoPromise]
      /\ L!Park(<<s, n>>) /\ sessions' = sessions \cup {<<s, n>>} /\ Goto(r, "done")
      /\ UNCHANGED <<items, queue, child, gone, heard, stale, belated, frames, byRequest, held>>
  BY <1>1, <1>2, Sorts DEF ParkCall, TakeCall
<1>7. /\ sess'[s] = Parked(sess[s], n) /\ promise'[s] = NoPromise
      /\ \A t \in Sessions : t # s => sess'[t] = sess[t] /\ promise'[t] = promise[t]
  BY <1>1, <1>2, <1>6, Sorts
<1>8. /\ State(s)' = State(s) /\ Owner(s)' = r /\ sess'[s].tools /\ sess'[s].gate
      /\ sess'[s].aborted = sess[s].aborted /\ sess'[s].used = sess[s].used
      /\ sess'[s].parked = n /\ sess'[s].public = n /\ sess'[s].deadlines > 0
  BY <1>2, <1>3, <1>4, <1>5, <1>7, ParkedFields DEF State, Owner
<1>9. /\ run'[r].pc = "done" /\ At(r)' = s /\ ~Raced(s)'
      /\ \A q \in Requests : q # r => run'[q] = run[q]
  BY <1>1, <1>6, <1>8, WentFields DEF Raced
<1>10. /\ out'[r].end = (IF r \in gone THEN "silent" ELSE "tool_calls")
       /\ out'[r].usage = out[r].usage /\ out'[r].call = n
       /\ \A q \in Requests : q # r => out'[q] = out[q]
  <2>1. out' = [Ended(r, "tool_calls") EXCEPT ![r].call = n]
    BY DEF ParkCall
  <2>. QED
    BY <1>1, <2>1, Sorts DEF Ended, OutRecs
<1>11. /\ ledger[<<s, n>>] = "unborn" /\ ledger'[<<s, n>>] = "pending"
       /\ \A c \in Calls : c # <<s, n>> => ledger'[c] = ledger[c]
  BY <1>1, <1>4, <1>6, Sorts DEF L!Park
<1>12. Apart(s, r)
  <2>1. \A t \in Sessions : t # s => Same(t)
    BY <1>6, <1>7, <1>11, Constants DEF Same
  <2>. QED
    BY <1>2, <1>6, <1>9, <1>10, <2>1 DEF Apart
<1>13. \A m \in 1..MaxCalls : <<s, m>> \notin sessions \cup L!Pending
  BY <1>2, <1>3 DEF Session, Called, Raced
<1>14. \A m \in 1..MaxCalls : <<s, m>> \in sessions' \cup (L!Pending)' => m = n
  BY <1>6, <1>11, <1>13 DEF L!Pending
<1>15. <<s, n>> \in sessions' \cap (L!Pending)'
  BY <1>4, <1>6, <1>11 DEF L!Pending
<1>16. Session(s)'
  <2>1. Steady(s)'
    <3>1. /\ State(s) = "open" => Owner(s) \in byRequest /\ s \in held
          /\ State(s) = "closed" /\ s \in held => run'[s].pc = "failed"
      <4>1. /\ State(s) = "open" => Owner(s) \in byRequest /\ s \in held
            /\ State(s) = "closed" /\ s \in held => run[s].pc = "failed"
        BY <1>3, <1>5 DEF Session, Steady
      <4>2. run[s].pc = "failed" => s # r
        BY <1>1 DEF Races
      <4>. QED
        BY <1>3, <1>9, <4>1, <4>2
    <3>2. At(s)' = s
      BY <1>3, <1>9 DEF At
    <3>3. At(Owner(s))' = s
      BY <1>8, <1>9 DEF At
    <3>. QED
      BY <1>2, <1>6, <1>8, <3>1, <3>2, <3>3 DEF Steady
  <2>2. Called(s)'
    BY <1>2, <1>5, <1>6, <1>8, <1>9, <1>14 DEF Called
  <2>3. Guarded(s)'
    BY <1>7, <1>8, <1>9, <1>15 DEF Guarded
  <2>4. Framed(s)'
    <3>1. \A m \in 1..MaxCalls : frames'[<<s, m>>] = "pending" =>
            \/ State(s) = "open" /\ m = n
            \/ State(s) = "closed" /\ <<s, m>> \in belated
      BY <1>3, <1>4, <1>5, <1>6 DEF Session, Framed
    <3>. QED
      BY <1>2, <1>5, <1>6, <1>7, <1>8, <1>9, <3>1 DEF Framed
  <2>5. Ending(s)' /\ Heard(s)' /\ Queued(s)'
    BY <1>2, <1>3, <1>5, <1>6, <1>8 DEF Session, Ending, Heard, Queued
  <2>. QED
    BY <2>1, <2>2, <2>3, <2>5, <2>4 DEF Session
<1>17. Client(r)'
  <2>1. Steered(r)'
    BY <1>2, <1>6, <1>8, <1>9 DEF Client, Steered, Active
  <2>2. Explained(r)' /\ Complete(r)'
    BY <1>6, <1>9, <1>10 DEF Explained, Complete, Races
  <2>3. Metered(r)'
    <3>1. \A q \in Requests : q # r /\ At(q)' = s => At(q) = s /\ out'[q] = out[q]
      BY <1>9, <1>10 DEF At
    <3>. QED
      BY <1>2, <1>5, <1>8, <1>9, <1>10, <3>1 DEF Client, Metered, Spent
  <2>4. Promised(r)'
    <3>1. State(s) = "closed" => r \in gone \/ s \in stale
      BY <1>1, <1>2, <1>5 DEF Client, Explained
    <3>. QED
      BY <1>2, <1>4, <1>6, <1>8, <1>9, <1>10, <1>11, <3>1 DEF Promised
  <2>. QED
    BY <2>1, <2>2, <2>3, <2>4 DEF Client
<1>18. Lasting(s) /\ Retold(s) /\ Paying(s, r) /\ Alone(s, r)
  <2>1. Retold(s)
    BY <1>2, <1>4, <1>8, <1>11, Constants DEF Retold, L!Pending
  <2>. QED
    BY <1>2, <1>5, <1>6, <1>8, <1>10, <1>12, <2>1, DriverAlone DEF Lasting, Paying
<1>. QED
  BY <1>2, <1>3, <1>8, <1>12, <1>16, <1>17, <1>18, DriverLift

(* A continuation takes the run over from the request that parked it.      *)
LEMMA ResumedFields ==
  ASSUME NEW rec \in SessRecs, NEW r \in Requests, NEW delivered \in BOOLEAN
  PROVE  LET new == Resumed(rec, r, delivered) IN
         /\ new \in SessRecs
         /\ new.state = rec.state /\ new.owner = r /\ new.tools = rec.tools
         /\ new.aborted = rec.aborted /\ new.used = rec.used /\ new.parked = 0
         /\ new.terminal = rec.terminal /\ new.broken = rec.broken
<1>1. Resumed(rec, r, delivered) \in SessRecs
  BY ResumedShape
<1>. QED
  BY <1>1 DEF Resumed, SessRecs

LEMMA KeepContinue ==
  ASSUME IInv, NEW r \in Requests, NEW c \in Calls, Continue(r, c), NEW s, s = c[1]
  PROVE  IInv'
<1> DEFINE delivered == sess[s].parked # 0 /\ frames[<<s, sess[s].parked>>] = "pending"
           rec == Resumed(sess[s], r, delivered)
<1>1. Shapes /\ run[r].pc = "idle" /\ Shapes' /\ s \in Sessions /\ c = <<s, c[2]>>
      /\ c[2] \in 1..MaxCalls
  BY Constants, ShapesContinue DEF Continue, Arrives, IInv
<1>2. /\ Client(r) /\ At(r) = Nobody /\ r \notin gone /\ r \notin byRequest
      /\ out[r].end = "none" /\ out[r].usage = 0
      /\ \A t \in Sessions : State(t) # "none" => Owner(t) # r /\ t # r
  BY <1>1, Idle
<1>3. /\ Session(s) /\ sess[s] \in SessRecs /\ child[s] \in ChildRecs
      /\ s \in Requests /\ s # Nobody /\ Owner(s) \in Requests
  BY <1>1, Basics
<1>4. /\ L!SettleSome({c}, "resolved") /\ sessions' = sessions \ {c}
      /\ frames' = (IF delivered THEN Answered(<<s, sess[s].parked>>, "result") ELSE frames)
      /\ UNCHANGED <<queue, gone, heard, stale, belated>>
  BY DEF Continue
<1>5. c \in L!Pending
  BY <1>4 DEF L!SettleSome
<1>6. /\ State(s) \in {"open", "closed"} /\ sess[s].tools /\ run[Owner(s)].pc = "done" /\ ~Raced(s)
      /\ State(s) = "closed" => sess[s].aborted
      /\ \A m \in 1..MaxCalls : <<s, m>> \in sessions \cup L!Pending => <<s, m>> = c
  BY <1>1, <1>3, <1>5 DEF Session, Called, Raced
<1>7. State(s) = "open" => promise[s] = NoPromise /\ items[s] = <<>>
  BY <1>3, <1>6 DEF Session, Guarded, Framed, Flooded
<1>8. At(s) = s /\ At(Owner(s)) = s /\ Owner(s) # r /\ s # r
  BY <1>1, <1>2, <1>6, Whereabouts
<1>9. \A q \in Requests : At(q) = s => ~Active(q) /\ (q \in byRequest => q = Owner(s))
  <2>. SUFFICES ASSUME NEW q \in Requests, At(q) = s
                PROVE  ~Active(q) /\ (q \in byRequest => q = Owner(s))
    OBVIOUS
  <2>1. Client(q)
    BY DEF IInv
  <2>. QED
    BY <1>6, <2>1 DEF Client, Steered, Active
<1>10. rec \in SessRecs /\ rec.state = State(s) /\ rec.owner = r /\ rec.tools /\ rec.parked = 0
       /\ rec.aborted = sess[s].aborted /\ rec.used = sess[s].used
       /\ rec.terminal = sess[s].terminal /\ rec.broken = sess[s].broken
  <2>1. delivered \in BOOLEAN
    OBVIOUS
  <2>. HIDE DEF delivered
  <2>. QED
    BY <1>3, <1>6, <2>1, ResumedFields DEF State
<1>11. /\ \A m \in 1..MaxCalls : frames'[<<s, m>>] = "pending" =>
            State(s) = "closed" /\ <<s, m>> \in belated
       /\ \A t \in Sessions, m \in 1..MaxCalls : t # s => frames'[<<t, m>>] = frames[<<t, m>>]
  <2>1. \A m \in 1..MaxCalls : frames[<<s, m>>] = "pending" =>
          \/ State(s) = "open" /\ m = sess[s].parked
          \/ State(s) = "closed" /\ <<s, m>> \in belated
    BY <1>3, <1>6, <1>7, Constants DEF Session, Framed, Flooded, NoPromise
  <2>2. CASE delivered
    <3>1. frames' = Answered(<<s, sess[s].parked>>, "result")
      BY <1>4, <2>2
    <3>2. sess[s].parked \in 1..MaxCalls
      BY <1>3, <2>2, Constants DEF SessRecs
    <3>. QED
      BY <1>1, <2>1, <3>1, <3>2, Sorts, Constants DEF Answered
  <2>3. CASE ~delivered
    <3>1. \A m \in 1..MaxCalls : m # 0
      BY Constants
    <3>. QED
      BY <1>4, <2>1, <2>3, <3>1
  <2>. QED
    BY <2>2, <2>3
<1>12. /\ c \notin (L!Pending)'
       /\ \A d \in Calls : d # c => ledger'[d] = ledger[d]
                                 /\ (d \in (L!Pending)' <=> d \in L!Pending)
  BY <1>1, <1>4, Sorts DEF L!SettleSome, L!Pending
<1>13. /\ \A m \in 1..MaxCalls : <<s, m>> \notin sessions' \cup (L!Pending)'
       /\ \A t \in Sessions, m \in 1..MaxCalls : t # s =>
            /\ <<t, m>> \in sessions' <=> <<t, m>> \in sessions
            /\ ledger'[<<t, m>>] = ledger[<<t, m>>]
  BY <1>1, <1>4, <1>6, <1>12, Constants
<1>14. Retold(s)
  <2>1. \A d \in Calls : ledger[d] # "unborn" => ledger'[d] # "unborn"
    BY <1>1, <1>4, Sorts DEF L!SettleSome
  <2>. QED
    BY <1>1, <1>13, <2>1, Constants, NoCallsRetold
<1>15. CASE queue[s].over \/ sess[s].aborted
  <2>1. /\ sess' = [sess EXCEPT ![s] = Closed(rec)]
        /\ child' = [child EXCEPT ![s] = Terminated(s)]
        /\ byRequest' = byRequest \ {Owner(s)} /\ held' = held \ {s}
        /\ run' = [run EXCEPT ![r] = [pc |-> "done", at |-> s]]
        /\ out' = Ended(r, IF queue[s].over THEN "error" ELSE "silent")
        /\ UNCHANGED <<promise, items>>
    BY <1>15 DEF Continue, Owner
  <2>. HIDE DEF rec, delivered
  <2>2. /\ sess'[s] = Closed(rec) /\ child'[s] = Terminated(s)
        /\ \A t \in Sessions : t # s => sess'[t] = sess[t] /\ child'[t] = child[t]
    BY <1>1, <2>1, Sorts
  <2>3. /\ State(s)' = "closed" /\ Owner(s)' = r /\ sess'[s].parked = 0 /\ sess'[s].aborted
        /\ sess'[s].tools /\ sess'[s].used = sess[s].used
        /\ sess'[s].terminal = sess[s].terminal /\ sess'[s].broken = sess[s].broken
    BY <1>10, <2>2, ClosedFields DEF State, Owner
  <2>4. /\ run'[r].pc = "done" /\ At(r)' = s /\ ~Raced(s)'
        /\ \A q \in Requests : q # r => run'[q] = run[q] /\ At(q)' = At(q)
    BY <1>1, <2>1, <2>3, Sorts DEF At, Raced
  <2>5. /\ out'[r].end = (IF queue[s].over THEN "error" ELSE "silent") /\ out'[r].usage = 0
        /\ \A q \in Requests : q # r => out'[q] = out[q]
    BY <1>1, <1>2, <2>1, EndedFields
  <2>6. ~queue[s].over => State(s) = "closed" /\ s \in stale
    <3>. SUFFICES ASSUME ~queue[s].over PROVE State(s) = "closed" /\ s \in stale
      OBVIOUS
    <3>1. State(s) = "closed"
      BY <1>3, <1>6, <1>15 DEF Session, Ending
    <3>2. PICK q \in Requests : At(q) = s /\ out[q].end = "tool_calls" /\ out[q].call = c[2]
      BY DEF Continue, Told
    <3>3. Promised(q)
      BY DEF IInv, Client
    <3>. QED
      BY <1>1, <1>5, <3>1, <3>2, <3>3 DEF Promised
  <2>7. /\ child'[s].pc # "live" \/ s \in gone
        /\ child'[s].pc \in {child[s].pc, "stopping"}
        /\ (child'[s].pc = child[s].pc \/ child[s].pc = "live")
        /\ child'[s].said = child[s].said /\ child'[s].end = child[s].end
    <3>1. sess[s].aborted => child[s].pc # "live" \/ s \in gone
      BY <1>3, <1>6 DEF Session, Ending
    <3>. QED
      BY <1>3, <2>2, <3>1, StoppingFields DEF Terminated, Aborted
  <2>8. Apart(s, r)
    <3>1. \A t \in Sessions : t # s => Same(t)
      BY <1>4, <1>11, <1>13, <2>1, <2>2 DEF Same
    <3>. QED
      BY <1>2, <1>4, <1>8, <2>1, <2>4, <2>5, <3>1 DEF Apart
  <2>9. Session(s)'
    <3>1. Steady(s)'
      <4>1. At(s)' = s /\ At(Owner(s))' = s
        BY <1>3, <1>8, <2>3, <2>4 DEF At
      <4>. QED
        BY <2>1, <2>3, <4>1 DEF Steady
    <3>2. Called(s)' /\ Guarded(s)' /\ Framed(s)'
      BY <1>4, <1>11, <1>13, <2>3, <2>4 DEF Called, Guarded, Framed
    <3>3. Ending(s)'
      BY <1>3, <1>4, <2>3, <2>7 DEF Session, Ending
    <3>4. Heard(s)' /\ Queued(s)'
      BY <1>3, <1>4, <2>3, <2>4, <2>7 DEF Session, Heard, Queued
    <3>. QED
      BY <3>1, <3>2, <3>3, <3>4 DEF Session
  <2>10. Client(r)'
    <3>1. Promised(r)' /\ Complete(r)' /\ Metered(r)'
      BY <2>5 DEF Promised, Complete, Metered
    <3>. QED
      BY <1>2, <1>4, <2>1, <2>3, <2>4, <2>5, <2>6, <3>1, DoneClient
  <2>11. Lasting(s) /\ Paying(s, r) /\ Alone(s, r)
    BY <1>4, <1>6, <1>9, <2>1, <2>3, <2>4, <2>5, <2>7 DEF Lasting, Paying, Alone
  <2>. QED
    BY <1>1, <1>14, <2>3, <2>8, <2>9, <2>10, <2>11, DriverLift
<1>16. CASE ~(queue[s].over \/ sess[s].aborted)
  <2>1. /\ sess' = [sess EXCEPT ![s] = rec]
        /\ byRequest' = (byRequest \ {Owner(s)}) \cup {r}
        /\ run' = [run EXCEPT ![r] = [pc |-> "race", at |-> s]]
        /\ Ask(s) /\ UNCHANGED <<child, held, out>>
    BY <1>16 DEF Continue, Owner
  <2>. HIDE DEF rec, delivered
  <2>2. sess'[s] = rec /\ \A t \in Sessions : t # s => sess'[t] = sess[t]
    BY <1>1, <2>1, Sorts
  <2>3. /\ State(s) = "open" /\ State(s)' = "open" /\ Owner(s)' = r /\ sess'[s].parked = 0
        /\ sess'[s].tools /\ sess'[s].used = sess[s].used /\ sess'[s].aborted = sess[s].aborted
    BY <1>6, <1>10, <1>16, <2>2 DEF State, Owner
  <2>4. /\ run'[r].pc = "race" /\ At(r)' = s /\ Raced(s)'
        /\ \A q \in Requests : q # r => run'[q] = run[q] /\ At(q)' = At(q)
    BY <1>1, <2>1, <2>3, Sorts DEF At, Raced
  <2>5. /\ promise'[s] # NoPromise /\ \A t \in Sessions : t # s => promise'[t] = promise[t]
        /\ items' = items
    BY <1>1, <1>7, <2>1, <2>3, Sorts, Constants DEF Ask, Waiting, NoPromise
  <2>6. ~sess[s].aborted /\ s \in held
    BY <1>3, <1>16, <2>3 DEF Session, Steady
  <2>7. Apart(s, r)
    <3>1. \A t \in Sessions : t # s => Same(t)
      BY <1>4, <1>11, <1>13, <2>1, <2>2, <2>5 DEF Same
    <3>. QED
      BY <1>2, <1>4, <1>8, <2>1, <2>4, <3>1 DEF Apart
  <2>8. Session(s)'
    <3>1. Steady(s)'
      <4>1. At(s)' = s /\ At(Owner(s))' = s
        BY <1>3, <1>8, <2>3, <2>4 DEF At
      <4>. QED
        BY <2>1, <2>3, <2>6, <4>1 DEF Steady
    <3>2. Called(s)' /\ Guarded(s)' /\ Framed(s)'
      BY <1>7, <1>11, <1>13, <2>3, <2>4, <2>5 DEF Called, Guarded, Framed
    <3>3. Ending(s)'
      BY <1>3, <1>4, <1>16, <2>1, <2>3, <2>6 DEF Session, Ending
    <3>4. Heard(s)' /\ Queued(s)'
      BY <1>3, <1>4, <2>1, <2>3 DEF Session, Heard, Queued
    <3>. QED
      BY <3>1, <3>2, <3>3, <3>4 DEF Session
  <2>9. Client(r)'
    <3>1. Promised(r)' /\ Complete(r)' /\ Metered(r)'
      BY <1>2, <2>1 DEF Promised, Complete, Metered
    <3>2. Steered(r)'
      BY <1>1, <2>3, <2>4 DEF Steered, Active
    <3>3. Explained(r)'
      BY <1>2, <2>1, <2>3, <2>4, <2>6 DEF Explained
    <3>. QED
      BY <3>1, <3>2, <3>3 DEF Client
  <2>10. Lasting(s) /\ Paying(s, r) /\ Alone(s, r)
    BY <1>2, <1>4, <1>6, <1>9, <2>1, <2>3 DEF Lasting, Paying, Alone
  <2>. QED
    BY <1>1, <1>14, <2>3, <2>7, <2>8, <2>9, <2>10, DriverLift
<1>. QED
  BY <1>15, <1>16

-------------------------------------------------------------------------------
(* The invariant holds at first, and is kept.                              *)
LEMMA Initially == Init => IInv
<1>. SUFFICES ASSUME Init PROVE IInv
  OBVIOUS
<1>1. Shapes
  BY ShapesInit
<1>2. ASSUME NEW s \in Sessions PROVE Session(s)
  <2>1. /\ sess[s] = [state |-> "none", tools |-> FALSE, aborted |-> FALSE, gate |-> FALSE,
                      parked |-> 0, public |-> 0, owner |-> s, deadlines |-> 0,
                      terminal |-> FALSE, broken |-> FALSE, used |-> FALSE]
        /\ queue[s] = [events |-> <<>>, closed |-> FALSE, over |-> FALSE]
        /\ child[s].pc = "none" /\ child[s].said = 0 /\ heard[s] = <<>> /\ held = {}
        /\ promise[s] = NoPromise /\ items[s] = <<>>
    BY DEF Init, ChannelInit
  <2>2. State(s) = "none" /\ Owner(s) = s /\ ~sess[s].tools /\ sess[s].parked = 0
    BY <2>1 DEF State, Owner
  <2>3. \A n \in 1..MaxCalls : /\ <<s, n>> \notin sessions \cup L!Pending
                               /\ frames[<<s, n>>] = "unsent"
    BY Constants DEF Init, ChannelInit, L!LedgerInit, L!Pending
  <2>4. Steady(s)
    BY <2>1, <2>2 DEF Steady, Fresh
  <2>5. Called(s) /\ Guarded(s) /\ Framed(s)
    BY <2>1, <2>2, <2>3 DEF Called, Guarded, Framed
  <2>6. Ending(s)
    BY <2>1, <2>2 DEF Ending
  <2>7. Heard(s) /\ Queued(s)
    <3>1. Ordered(<<>>, 0) /\ Covering(<<>>, 0, 0) /\ Len(heard[s]) = 0
      BY <2>1 DEF Ordered, Covering, TextsIn
    <3>2. heard[s] = [i \in 1..Len(heard[s]) |-> i]
      BY <2>1
    <3>. QED
      BY <2>1, <3>1, <3>2 DEF Heard, Queued
  <2>. QED
    BY <2>4, <2>5, <2>6, <2>7 DEF Session
<1>3. ASSUME NEW r \in Requests PROVE Client(r)
  <2>1. run[r] = [pc |-> "idle", at |-> Nobody] /\ byRequest = {} /\ gone = {}
        /\ out[r] = [end |-> "none", call |-> 0, usage |-> 0]
    BY DEF Init
  <2>2. Steered(r)
    BY <2>1, Constants DEF Steered, At, Active
  <2>3. Explained(r) /\ Promised(r) /\ Complete(r) /\ Metered(r)
    BY <2>1 DEF Explained, Promised, Complete, Metered, Races
  <2>. QED
    BY <2>2, <2>3 DEF Client
<1>. QED
  BY <1>1, <1>2, <1>3 DEF IInv

LEMMA Steps == IInv /\ [Next]_vars => IInv'
<1>. SUFFICES ASSUME IInv, [Next]_vars PROVE IInv'
  OBVIOUS
<1>1. CASE UNCHANGED vars
  BY <1>1, KeepNothing DEF vars, channelVars, maps, history
<1>2. ASSUME NEW r \in Requests, Request(r) \/ Start(r) \/ StartFails(r) \/ PublishFails(r)
      PROVE  IInv'
  <2>1. ASSUME NEW tools \in BOOLEAN, Open(r, tools) PROVE IInv'
    BY <2>1, KeepOpen
  <2>2. ASSUME NEW c \in Calls, Continue(r, c) PROVE IInv'
    BY <2>2, KeepContinue
  <2>3. CASE Turned(r)
    BY <2>3, KeepTurned
  <2>4. CASE HangUp(r)
    BY <2>4, KeepHangUp
  <2>5. CASE Start(r)
    BY <2>5, KeepStart
  <2>6. CASE StartFails(r)
    BY <2>6, KeepStartFails
  <2>7. CASE PublishFails(r)
    BY <2>7, KeepPublishFails
  <2>. QED
    BY <1>2, <2>1, <2>2, <2>3, <2>4, <2>5, <2>6, <2>7 DEF Request
<1>3. ASSUME NEW r \in Requests, PumpStep(r) PROVE IInv'
  <2>1. CASE TakeEvent(r)
    BY <2>1, KeepTakeEvent
  <2>2. CASE TakeEnd(r)
    BY <2>2, KeepTakeEnd
  <2>3. CASE RefuseCall(r)
    BY <2>3, KeepRefuseCall
  <2>4. CASE ParkCall(r)
    BY <2>4, KeepParkCall
  <2>5. CASE EndFailed(r)
    BY <2>5, KeepEndFailed
  <2>. QED
    BY <1>3, <2>1, <2>2, <2>3, <2>4, <2>5 DEF PumpStep
<1>4. ASSUME NEW s \in Sessions,
             Deadline(s) \/ LateDeadline(s) \/ ReceiveCall(s) \/ TimesOut(s) \/ Exit(s)
      PROVE  IInv'
  <2>1. CASE Deadline(s)
    BY <2>1, KeepDeadline
  <2>2. CASE ReceiveCall(s)
    BY <2>2, KeepReceiveCall
  <2>3. CASE TimesOut(s)
    BY <2>3, KeepTimesOut
  <2>4. CASE Exit(s)
    BY <2>4, KeepExits DEF Exit
  <2>5. CASE LateDeadline(s)
    BY <2>5, KeepLateDeadline
  <2>. QED
    BY <1>4, <2>1, <2>2, <2>3, <2>4, <2>5
<1>5. ASSUME NEW s \in Sessions, NEW line \in Lines, Line(s, line) PROVE IInv'
  BY <1>5, KeepLine
<1>6. ASSUME NEW c \in Calls, FrameExpires(c) \/ LoseFrame(c) PROVE IInv'
  BY <1>6, KeepFrameExpires, KeepLoseFrame
<1>7. ASSUME NEW n \in {0, MaxPending}, OthersPark(n) PROVE IInv'
  BY <1>7, KeepNothing DEF OthersPark, channelVars, maps, history
<1>. QED
  BY <1>1, <1>2, <1>3, <1>4, <1>5, <1>6, <1>7 DEF Next

(* Sessions are driven by their owners only; a run nobody drives is        *)
(* guarded; calls, frames, texts and usage are where they belong.          *)
THEOREM Invariance == Spec => []IInv
BY Initially, Steps, PTL DEF Spec

(* A conversation's text reaches its clients in order and once; a complete *)
(* reply has it all, after a good end; usage is told once (translate,      *)
(* drainAgySession, runVerdict).                                           *)
THEOREM RepliesAreFaithful == Spec => []RepliesFaithful
<1>1. IInv => RepliesFaithful
  <2>. SUFFICES ASSUME IInv PROVE RepliesFaithful
    OBVIOUS
  <2>1. ASSUME NEW s \in Sessions
        PROVE  heard[s] = [i \in 1..Len(heard[s]) |-> i]
    BY Basics DEF Session, Heard
  <2>2. ASSUME NEW s \in Sessions, NEW r \in Requests, At(r) = s, out[r].end = "completed"
        PROVE  /\ child[s].end = "ok" /\ sess[s].terminal /\ ~sess[s].broken
               /\ Len(heard[s]) = child[s].said
    BY <2>2 DEF IInv, Client, Complete
  <2>3. ASSUME NEW s \in Sessions, NEW q \in Requests, NEW r \in Requests,
               At(q) = s, At(r) = s, out[q].usage > 0, out[r].usage > 0
        PROVE  q = r /\ out[r].usage = 1
    <3>1. Metered(q) /\ Metered(r)
      BY DEF IInv, Client
    <3>2. out[r].usage = 1
      BY <2>3, <3>1 DEF Metered
    <3>3. q # r => out[r].usage = 0
      BY <2>3, <3>1 DEF Metered
    <3>. QED
      BY <3>2, <3>3
  <2>. QED
    BY <2>1, <2>2, <2>3 DEF RepliesFaithful
<1>. QED
  BY <1>1, Invariance, PTL

(* No reply ends without a word to a client that is still there, unless a  *)
(* deadline closed the session under it (drainAgySession).                 *)
THEOREM FailuresAreTold == Spec => []FailuresTold
<1>1. IInv => FailuresTold
  BY DEF IInv, Client, Explained, FailuresTold
<1>. QED
  BY <1>1, Invariance, PTL

(* A live run that no request drives is parked, with a deadline, and can   *)
(* be continued or cancelled (parkAgyToolCall).                            *)
THEOREM UndrivenRunsAreGuarded == Spec => []UndrivenIsGuarded
<1>1. IInv => UndrivenIsGuarded
  <2>. SUFFICES ASSUME IInv, NEW s \in Sessions, sess[s].state = "open", ~Driven(s)
                PROVE  /\ sess[s].deadlines > 0 /\ sess[s].gate
                       /\ <<s, sess[s].public>> \in sessions \cap L!Pending
                       /\ sess[s].owner \in byRequest /\ s \in held
    BY DEF UndrivenIsGuarded
  <2>1. State(s) = "open" /\ Session(s)
    BY Basics DEF State
  <2>2. ~Raced(s)
    BY <2>1, RacedIsDriven
  <2>. QED
    BY <2>1, <2>2 DEF Session, Guarded, Steady, Owner
<1>. QED
  BY <1>1, Invariance, PTL

(* Once a session is closed its process has been told to stop, unless it   *)
(* was spawned after the abort, and nothing of it is left but calls that   *)
(* came after the close; one the broker holds it holds under a deadline    *)
(* (closeToolSession, drainAgySession).                                    *)
THEOREM ClosedSessionsLeaveNothing == Spec => []ClosedLeavesNothing
<1>1. IInv => ClosedLeavesNothing
  <2>. SUFFICES ASSUME IInv, NEW s \in Sessions, sess[s].state = "closed"
                PROVE  /\ child[s].pc # "live" \/ Orphan(s)
                       /\ sess[s].owner \notin byRequest
                       /\ s \in held => run[s].pc = "failed"
                       /\ \A n \in 1..MaxCalls :
                            /\ <<s, n>> \in sessions \cup L!Pending \/ n \in Pending(s) =>
                                 <<s, n>> \in belated
                            /\ <<s, n>> \in L!Pending => sess[s].deadlines > 0
    BY DEF ClosedLeavesNothing
  <2>1. State(s) = "closed" /\ Session(s) /\ Owner(s) \in Requests
    BY Basics DEF State
  <2>2. child[s].pc # "live" \/ Orphan(s)
    BY <2>1 DEF Session, Ending, Orphan
  <2>3. Owner(s) \notin byRequest
    <3>1. At(Owner(s)) = s /\ Client(Owner(s))
      BY <2>1, Whereabouts DEF IInv
    <3>. QED
      BY <2>1, <3>1 DEF Client, Steered
  <2>4. ASSUME NEW n \in 1..MaxCalls
        PROVE  /\ <<s, n>> \in sessions \cup L!Pending => <<s, n>> \in belated
               /\ <<s, n>> \in L!Pending => sess[s].deadlines > 0
    BY <2>1 DEF Session, Called
  <2>5. s \in held => run[s].pc = "failed"
    BY <2>1 DEF Session, Steady
  <2>6. \A n \in 1..MaxCalls : n \in Pending(s) => <<s, n>> \in belated
    BY <2>1 DEF Session, Framed, Pending
  <2>. QED
    BY <2>2, <2>3, <2>4, <2>5, <2>6 DEF Owner
<1>. QED
  BY <1>1, Invariance, PTL

-------------------------------------------------------------------------------
(* Types: what the shapes leave open is how much there is of everything.   *)
(* A session has a deadline for a call that was parked at most.            *)
Born(s) == {n \in 1..MaxCalls : ledger[<<s, n>>] # "unborn"}
Limits(s) ==
  /\ Len(queue[s].events) <= MaxEvents
  /\ child[s].said <= MaxItems
  /\ sess[s].deadlines <= Cardinality(Born(s))
Limited ==
  /\ others \in {0, MaxPending} /\ faults \in 0..MaxFaults
  /\ \A s \in Sessions : Limits(s)

(* What a step may do to a queue, a process and a session's deadlines.     *)
Feeds(s) ==
  \/ queue'[s].events = queue[s].events
  \/ queue[s].events # <<>> /\ queue'[s].events = Tail(queue[s].events)
  \/ \E es \in Seq(Kinds \X Nat) : queue'[s].events = Fed(queue[s], es).events
Tells(s) ==
  \/ child'[s].said = child[s].said
  \/ child[s].said < MaxItems /\ child'[s].said = child[s].said + 1
Arms(s, n) ==
  /\ ledger[<<s, n>>] = "unborn" /\ ledger'[<<s, n>>] # "unborn"
  /\ sess'[s].deadlines = sess[s].deadlines + 1
Winds(s) == \/ sess'[s].deadlines \in {0, sess[s].deadlines}
            \/ \E n \in 1..MaxCalls : Arms(s, n)
Ages(s) == \A n \in 1..MaxCalls : ledger[<<s, n>>] # "unborn" => ledger'[<<s, n>>] # "unborn"
Step(s) == Feeds(s) /\ Tells(s) /\ Winds(s) /\ Ages(s)

LEMMA Counted ==
  ASSUME MaxCalls \in Nat, NEW B \in SUBSET (1..MaxCalls)
  PROVE  IsFiniteSet(B) /\ Cardinality(B) \in Nat
<1>1. IsFiniteSet(1..MaxCalls)
  BY FS_Interval
<1>. QED
  BY <1>1, FS_Subset, FS_CardinalityType

LEMMA LimitsKept ==
  ASSUME Shapes, NEW s \in Sessions, Limits(s), Step(s)
  PROVE  Limits(s)'
<1>1. /\ queue[s] \in QueueRecs /\ queue[s].events \in Seq(Kinds \X Nat)
      /\ Len(queue[s].events) \in Nat /\ MaxEvents \in Nat /\ MaxItems \in Nat
      /\ child[s].said \in Nat /\ sess[s].deadlines \in Nat /\ MaxCalls \in Nat
  BY Sorts, Constants, BoundsAssumption DEF QueueRecs, ChildRecs, SessRecs
<1>2. Len(queue'[s].events) <= MaxEvents
  <2>1. CASE queue[s].events # <<>> /\ queue'[s].events = Tail(queue[s].events)
    <3>1. Len(Tail(queue[s].events)) = Len(queue[s].events) - 1
      BY <1>1, <2>1
    <3>. QED
      BY <1>1, <2>1, <3>1 DEF Limits
  <2>2. ASSUME NEW es \in Seq(Kinds \X Nat), queue'[s].events = Fed(queue[s], es).events
        PROVE  Len(queue'[s].events) <= MaxEvents
    <3>1. CASE queue[s].closed
      BY <2>2, <3>1 DEF Fed, Limits
    <3>2. CASE ~queue[s].closed /\ Len(queue[s].events) + Len(es) > MaxEvents
      BY <1>1, <2>2, <3>2 DEF Fed
    <3>3. CASE ~queue[s].closed /\ ~(Len(queue[s].events) + Len(es) > MaxEvents)
      <4>1. queue'[s].events = queue[s].events \o es
        BY <1>1, <2>2, <3>3 DEF Fed, QueueRecs
      <4>2. Len(queue[s].events \o es) = Len(queue[s].events) + Len(es) /\ Len(es) \in Nat
        BY <1>1
      <4>. QED
        BY <1>1, <3>3, <4>1, <4>2
    <3>. QED
      BY <3>1, <3>2, <3>3
  <2>. QED
    BY <2>1, <2>2 DEF Step, Feeds, Limits
<1>3. child'[s].said <= MaxItems
  BY <1>1 DEF Step, Tells, Limits
<1>4. sess'[s].deadlines <= Cardinality(Born(s)')
  <2>1. Born(s) \subseteq 1..MaxCalls /\ Born(s)' \subseteq 1..MaxCalls
    BY Zenon DEF Born
  <2>2. /\ IsFiniteSet(Born(s)) /\ IsFiniteSet(Born(s)')
        /\ Cardinality(Born(s)) \in Nat /\ Cardinality(Born(s)') \in Nat
    BY <1>1, <2>1, Counted
  <2>3. Born(s) \subseteq Born(s)'
    BY DEF Born, Step, Ages
  <2>4. Cardinality(Born(s)) <= Cardinality(Born(s)')
    BY <2>2, <2>3, FS_Subset
  <2>5. CASE sess'[s].deadlines \in {0, sess[s].deadlines}
    BY <1>1, <2>2, <2>4, <2>5 DEF Limits
  <2>6. ASSUME NEW n \in 1..MaxCalls, Arms(s, n)
        PROVE  sess'[s].deadlines <= Cardinality(Born(s)')
    <3>1. n \notin Born(s) /\ Born(s) \cup {n} \subseteq Born(s)'
      BY <2>3, <2>6 DEF Born, Arms
    <3>2. Cardinality(Born(s) \cup {n}) = Cardinality(Born(s)) + 1
      BY <2>2, <3>1, FS_AddElement
    <3>3. Cardinality(Born(s) \cup {n}) <= Cardinality(Born(s)')
      BY <2>2, <3>1, FS_Subset
    <3>. QED
      BY <1>1, <2>2, <2>6, <3>2, <3>3 DEF Limits, Arms
  <2>. QED
    BY <2>5, <2>6 DEF Step, Winds
<1>. QED
  BY <1>2, <1>3, <1>4 DEF Limits

(* How a session's end looks to the three.                                 *)
SameLimits(s) ==
  /\ child'[s].said = child[s].said /\ sess'[s].deadlines \in {0, sess[s].deadlines}
  /\ Ages(s)

LEMMA FaultCounted ==
  ASSUME faults \in 0..MaxFaults, Fault \/ UNCHANGED faults
  PROVE  faults' \in 0..MaxFaults
BY BoundsAssumption DEF Fault

LEMMA ClosingLimits ==
  ASSUME Shapes, NEW s \in Sessions, NEW rec \in SessRecs, rec.deadlines = sess[s].deadlines,
         NEW fate \in {"expired", "cancelled"}, Closing(s, rec, fate)
  PROVE  \A t \in Sessions : SameLimits(t)
<1>1. /\ sess \in [Sessions -> SessRecs] /\ child \in [Sessions -> ChildRecs]
      /\ ledger \in [Calls -> L!Statuses] /\ \A t \in Sessions, n \in 1..MaxCalls : <<t, n>> \in Calls
  BY Sorts, Constants
<1>2. CASE rec.state = "open"
  <2>1. Closed(rec).deadlines = 0
    <3> DEFINE A == [rec EXCEPT !.state = "closed", !.aborted = TRUE]
               B == [A EXCEPT !.deadlines = 0]
    <3>1. A \in SessRecs
      BY DEF SessRecs
    <3>2. B.deadlines = 0 /\ B \in SessRecs
      BY <3>1 DEF SessRecs
    <3>3. Closed(rec) = [B EXCEPT !.parked = 0, !.public = 0]
      BY DEF Closed
    <3> HIDE DEF B
    <3>. QED
      BY <3>2, <3>3 DEF SessRecs
  <2>2. Terminated(s).said = child[s].said
    BY <1>1, StoppingFields DEF Terminated, Aborted
  <2>3. /\ sess' = [sess EXCEPT ![s] = Closed(rec)]
        /\ child' = [child EXCEPT ![s] = Terminated(s)]
        /\ L!SettleSome({c \in L!Pending : c[1] = s}, fate)
    BY <1>2 DEF Closing
  <2>4. \A t \in Sessions : Ages(t)
    BY <1>1, <2>3 DEF Ages, L!SettleSome
  <2>. QED
    BY <1>1, <2>1, <2>2, <2>3, <2>4 DEF SameLimits
<1>3. CASE rec.state # "open"
  BY <1>1, <1>3 DEF Closing, SameLimits, Ages, maps
<1>. QED
  BY <1>2, <1>3

LEMMA FinallyLimits ==
  ASSUME Shapes, NEW s \in Sessions, Finally(s, sess[s])
  PROVE  \A t \in Sessions : SameLimits(t)
<1>1. sess \in [Sessions -> SessRecs] /\ sess[s] \in SessRecs
  BY Sorts
<1>2. CASE sess[s].tools
  BY <1>1, <1>2, ClosingLimits DEF Finally, CloseToolSession
<1>3. CASE ~sess[s].tools
  <2>1. [sess[s] EXCEPT !.state = "closed"].deadlines = sess[s].deadlines
    BY <1>1 DEF SessRecs
  <2>. QED
    BY <1>1, <1>3, <2>1 DEF Finally, SameLimits, Ages
<1>. QED
  BY <1>2, <1>3

LEMMA LimitedStep ==
  ASSUME IInv, Limited, [Next]_vars
  PROVE  Limited'
<1>1. /\ Shapes /\ sess \in [Sessions -> SessRecs] /\ child \in [Sessions -> ChildRecs]
      /\ queue \in [Sessions -> QueueRecs] /\ ledger \in [Calls -> L!Statuses]
      /\ others \in {0, MaxPending} /\ faults \in 0..MaxFaults
      /\ \A t \in Sessions, n \in 1..MaxCalls : <<t, n>> \in Calls
  BY Sorts, Constants DEF IInv, Limited
<1>2. ASSUME others' \in {0, MaxPending}, Fault \/ UNCHANGED faults,
             \A t \in Sessions : Step(t)
      PROVE  Limited'
  <2>1. faults' \in 0..MaxFaults
    BY <1>1, <1>2, FaultCounted
  <2>. QED
    BY <1>1, <1>2, <2>1, LimitsKept DEF Limited
<1>3. ASSUME UNCHANGED <<queue, others>>, Fault \/ UNCHANGED faults,
             \A t \in Sessions : SameLimits(t)
      PROVE  Limited'
  BY <1>1, <1>2, <1>3 DEF Step, Feeds, Tells, Winds, SameLimits
<1>4. ASSUME UNCHANGED <<queue, child, sess, ledger>>, Fault \/ UNCHANGED faults,
             others' \in {0, MaxPending}
      PROVE  Limited'
  BY <1>2, <1>4 DEF Step, Feeds, Tells, Winds, Ages
<1>5. ASSUME NEW r \in Requests, NEW tools \in BOOLEAN, Open(r, tools) PROVE Limited'
  <2>1. /\ r \in Sessions /\ UNCHANGED <<queue, ledger, others, faults>>
        /\ sess' = [sess EXCEPT ![r].tools = tools,
                                ![r].state = IF tools THEN "starting" ELSE "open"]
        /\ child' = [child EXCEPT ![r].pc = IF tools THEN @ ELSE "live"]
    BY <1>5 DEF Open, history
  <2>2. sess'[r].deadlines = sess[r].deadlines /\ child'[r].said = child[r].said
    BY <1>1, <2>1 DEF SessRecs, ChildRecs
  <2>. QED
    BY <1>1, <1>3, <2>1, <2>2 DEF SameLimits, Ages
<1>6. ASSUME NEW r \in Requests, NEW c \in Calls, Continue(r, c) PROVE Limited'
  <2> DEFINE s == c[1]
             delivered == sess[s].parked # 0 /\ frames[<<s, sess[s].parked>>] = "pending"
             rec == Resumed(sess[s], r, delivered)
  <2>1. s \in Sessions /\ sess[s] \in SessRecs
    BY <1>1, Constants
  <2>2. rec \in SessRecs /\ rec.deadlines = sess[s].deadlines
    <3>1. delivered \in BOOLEAN
      OBVIOUS
    <3> HIDE DEF delivered
    <3>2. rec \in SessRecs
      BY <2>1, <3>1, ResumedShape
    <3>3. rec.deadlines = sess[s].deadlines
      BY <2>1 DEF Resumed, SessRecs
    <3>. QED
      BY <3>2, <3>3
  <2>3. /\ UNCHANGED <<queue, others, faults>> /\ L!SettleSome({c}, "resolved")
        /\ \/ /\ sess' = [sess EXCEPT ![s] = Closed(rec)]
              /\ child' = [child EXCEPT ![s] = Terminated(s)]
           \/ sess' = [sess EXCEPT ![s] = rec] /\ UNCHANGED child
    BY <1>6 DEF Continue
  <2> HIDE DEF rec, s
  <2>4. Closed(rec).deadlines = 0 /\ Terminated(s).said = child[s].said
    <3>1. Terminated(s).said = child[s].said
      BY <1>1, <2>1, StoppingFields DEF Terminated, Aborted
    <3>. QED
      BY <2>2, <3>1 DEF Closed, SessRecs
  <2>5. \A t \in Sessions : Ages(t)
    BY <1>1, <2>3 DEF Ages, L!SettleSome
  <2>. QED
    BY <1>1, <1>3, <2>1, <2>2, <2>3, <2>4, <2>5 DEF SameLimits
<1>7. ASSUME NEW r \in Requests, Turned(r) PROVE Limited'
  BY <1>1, <1>4, <1>7 DEF Turned, maps
<1>8. ASSUME NEW r \in Requests, HangUp(r) PROVE Limited'
  <2> DEFINE s == At(r)
  <2>1. s \in Sessions /\ sess[s] \in SessRecs
    BY <1>1, <1>8 DEF HangUp, IInv, Client, Steered, Active
  <2>2. Fault /\ UNCHANGED <<queue, others>>
    BY <1>8 DEF HangUp
  <2>3. CASE r \in byRequest
    BY <1>1, <1>3, <1>8, <2>1, <2>2, <2>3, ClosingLimits DEF HangUp, CloseToolSession
  <2>4. CASE r \notin byRequest
    <3>1. /\ sess' = [sess EXCEPT ![s].aborted = @ \/ s = r] /\ UNCHANGED ledger
          /\ child' = [child EXCEPT ![s] = IF s = r THEN Aborted(s) ELSE @]
      BY <1>8, <2>4 DEF HangUp, maps
    <3>2. sess'[s].deadlines = sess[s].deadlines
      BY <1>1, <2>1, <3>1 DEF SessRecs
    <3>3. child'[s].said = child[s].said
      BY <1>1, <2>1, <3>1, StoppingFields DEF Aborted
    <3> HIDE DEF s
    <3>. QED
      BY <1>1, <1>3, <2>1, <2>2, <3>1, <3>2, <3>3 DEF SameLimits, Ages
  <2>. QED
    BY <2>3, <2>4
<1>9. ASSUME NEW r \in Requests, Start(r) PROVE Limited'
  <2>1. r \in Sessions /\ sess[r] \in SessRecs
    BY <1>1, <1>9 DEF Start, IInv, Client, Steered, Active
  <2>2. /\ UNCHANGED <<queue, ledger, others, faults>>
        /\ child' = [child EXCEPT ![r].pc = "live"]
        /\ sess' = [sess EXCEPT ![r] = Closed(@)] \/ sess' = [sess EXCEPT ![r].state = "open"]
    BY <1>9 DEF Start
  <2>3. Closed(sess[r]).deadlines = 0 /\ child'[r].said = child[r].said
    BY <1>1, <2>1, <2>2 DEF Closed, SessRecs, ChildRecs
  <2>4. sess'[r].deadlines \in {0, sess[r].deadlines}
    BY <1>1, <2>1, <2>2, <2>3 DEF SessRecs
  <2>. QED
    BY <1>1, <1>3, <2>1, <2>2, <2>3, <2>4 DEF SameLimits, Ages
<1>10. ASSUME NEW r \in Requests, StartFails(r) \/ PublishFails(r) PROVE Limited'
  <2>1. r \in Sessions /\ sess[r] \in SessRecs
    BY <1>1, <1>10 DEF StartFails, PublishFails, IInv, Client, Steered, Active
  <2>2. Fault /\ UNCHANGED <<queue, ledger, others>>
    BY <1>10 DEF StartFails, PublishFails, maps
  <2>3. \A t \in Sessions : /\ child'[t].said = child[t].said
                            /\ sess'[t].deadlines = sess[t].deadlines
    <3>1. CASE StartFails(r)
      BY <1>1, <2>1, <3>1 DEF StartFails, SessRecs
    <3>2. CASE PublishFails(r)
      <4>1. /\ sess' = [sess EXCEPT ![r].state = "closed", ![r].aborted = TRUE]
            /\ child' = [child EXCEPT ![r].pc = IF sess[r].aborted THEN "live" ELSE "stopping"]
        BY <3>2 DEF PublishFails
      <4>2. \A t \in Sessions : child'[t].said = child[t].said
        BY <1>1, <2>1, <4>1 DEF ChildRecs
      <4>3. sess'[r] = [sess[r] EXCEPT !.state = "closed", !.aborted = TRUE]
        BY <1>1, <2>1, <4>1
      <4>4. \A t \in Sessions : t # r => sess'[t] = sess[t]
        BY <1>1, <2>1, <4>1
      <4>5. sess'[r].deadlines = sess[r].deadlines
        BY <2>1, <4>3 DEF SessRecs
      <4>. QED
        BY <4>2, <4>4, <4>5
    <3>. QED
      BY <1>10, <3>1, <3>2
  <2>. QED
    BY <1>3, <2>2, <2>3 DEF SameLimits, Ages
<1>11. ASSUME NEW r \in Requests, TakeEvent(r) PROVE Limited'
  <2> DEFINE s == At(r)
             e == Head(queue[s].events)
  <2>1. s \in Sessions /\ sess[s] \in SessRecs
    BY <1>1, <1>11 DEF TakeEvent, Reading, Races, IInv, Client, Steered, Active
  <2>2. /\ UNCHANGED <<others, faults>> /\ queue[s].events # <<>>
        /\ queue' = [queue EXCEPT ![s].events = Tail(@)]
    BY <1>11 DEF TakeEvent, PumpFrame
  <2>3. \A t \in Sessions : Feeds(t)
    <3>1. queue'[s].events = Tail(queue[s].events)
      BY <1>1, <2>1, <2>2 DEF QueueRecs
    <3>2. \A t \in Sessions : t # s => queue'[t] = queue[t]
      BY <1>1, <2>2
    <3>. QED
      BY <2>2, <3>1, <3>2 DEF Feeds
  <2>4. \A t \in Sessions : SameLimits(t)
    <3>1. CASE Finally(s, sess[s])
      BY <1>1, <2>1, <3>1, FinallyLimits
    <3>2. CASE sess' = [sess EXCEPT ![s] = Noted(@, e)] /\ UNCHANGED <<child, ledger>>
      <4>1. Noted(sess[s], e).deadlines = sess[s].deadlines
        BY <2>1 DEF Noted, SessRecs
      <4> HIDE DEF s, e
      <4>. QED
        BY <1>1, <2>1, <3>2, <4>1 DEF SameLimits, Ages
    <3>. QED
      BY <1>11, <3>1, <3>2 DEF TakeEvent, maps
  <2>. QED
    BY <1>1, <1>2, <2>2, <2>3, <2>4 DEF Step, Tells, Winds, SameLimits
<1>12. ASSUME NEW r \in Requests, TakeEnd(r) PROVE Limited'
  <2>1. At(r) \in Sessions
    BY <1>12 DEF TakeEnd, Reading, Races, IInv, Client, Steered, Active
  <2>. QED
    BY <1>1, <1>3, <1>12, <2>1, FinallyLimits DEF TakeEnd, PumpFrame
<1>13. ASSUME NEW r \in Requests, RefuseCall(r) PROVE Limited'
  <2>1. At(r) \in Sessions /\ sess[At(r)] \in SessRecs
    BY <1>1, <1>13 DEF RefuseCall, TakeCall, Offered, Races, IInv, Client, Steered, Active
  <2>. QED
    BY <1>1, <1>3, <1>13, <2>1, ClosingLimits DEF RefuseCall, TakeCall, CloseToolSession
<1>14. ASSUME NEW r \in Requests, ParkCall(r) PROVE Limited'
  <2> DEFINE s == At(r)
             n == promise[s]
  <2>1. s \in Sessions /\ sess[s] \in SessRecs
    BY <1>1, <1>14 DEF ParkCall, TakeCall, Offered, Races, IInv, Client, Steered, Active
  <2>2. n \in 1..MaxCalls
    BY <1>14 DEF ParkCall, TakeCall, Offered, Handed
  <2>3. /\ UNCHANGED <<queue, child, others, faults>>
        /\ sess' = [sess EXCEPT ![s] = Parked(@, n)] /\ L!Park(<<s, n>>)
    BY <1>14 DEF ParkCall, TakeCall
  <2> HIDE DEF s, n
  <2>4. Parked(sess[s], n).deadlines = sess[s].deadlines + 1
    BY <2>1 DEF Parked, SessRecs
  <2>5. Arms(s, n)
    BY <1>1, <2>1, <2>2, <2>3, <2>4 DEF Arms, L!Park
  <2>6. \A t \in Sessions : Ages(t)
    BY <1>1, <2>3 DEF Ages, L!Park
  <2>7. \A t \in Sessions : Winds(t)
    BY <1>1, <2>1, <2>2, <2>3, <2>5 DEF Winds
  <2>. QED
    BY <1>1, <1>2, <2>3, <2>6, <2>7 DEF Step, Feeds, Tells
<1>15. ASSUME NEW r \in Requests, EndFailed(r) PROVE Limited'
  BY <1>1, <1>4, <1>15 DEF EndFailed
<1>16. ASSUME NEW s \in Sessions, Deadline(s) PROVE Limited'
  <2>1. sess[s] \in SessRecs /\ UNCHANGED <<queue, others, faults>>
        /\ \E fate \in {"expired", "cancelled"} : Closing(s, sess[s], fate)
    BY <1>1, <1>16 DEF Deadline, EventFrame, CloseToolSession
  <2>. QED
    BY <1>1, <1>3, <2>1, ClosingLimits
<1>17. ASSUME NEW s \in Sessions, ReceiveCall(s) PROVE Limited'
  BY <1>1, <1>4, <1>17 DEF ReceiveCall, maps
<1>18. ASSUME NEW s \in Sessions, TimesOut(s) PROVE Limited'
  <2>1. /\ UNCHANGED <<sess, queue, faults, ledger, others>>
        /\ child' = [child EXCEPT ![s] = [Stopping(child[s]) EXCEPT !.late = TRUE]]
    BY <1>1, <1>18 DEF TimesOut, ChildFrame, maps
  <2>2. [Stopping(child[s]) EXCEPT !.late = TRUE].said = child[s].said
    <3>1. Stopping(child[s]) \in ChildRecs /\ Stopping(child[s]).said = child[s].said
      BY <1>1, ChildFields, StoppingFields
    <3>. QED
      BY <3>1 DEF ChildRecs
  <2>. QED
    BY <1>1, <1>3, <2>1, <2>2 DEF SameLimits, Ages
<1>19. ASSUME NEW s \in Sessions, NEW end \in {"ok", "failed"},
              NEW last \in {"none", "text", "answer"}, Exits(s, end, last)
       PROVE  Limited'
  <2> DEFINE q == IF last = "none" \/ child[s].cut THEN queue[s] ELSE Fed(queue[s], Events(s, last))
             says == last # "none" /\ ~child[s].cut /\ Says(s, last)
  <2>1. /\ says => child[s].said < MaxItems
        /\ Fault \/ UNCHANGED faults
        /\ queue' = [queue EXCEPT ![s] = [q EXCEPT !.closed = TRUE]]
        /\ child' = [child EXCEPT ![s].pc = "settled",
                                  ![s].end = IF child[s].late THEN "timeout" ELSE end,
                                  ![s].said = IF says THEN @ + 1 ELSE @]
        /\ sess' = [sess EXCEPT ![s].aborted = @ \/ q.over]
        /\ UNCHANGED <<ledger, others>>
    BY <1>19 DEF Exits, ChildFrame, maps
  <2>2. q \in QueueRecs /\ (q.events = queue[s].events
                            \/ \E es \in Seq(Kinds \X Nat) : q.events = Fed(queue[s], es).events)
    BY <1>1, EventsShape, FedShape
  <2> HIDE DEF q, says
  <2>3. child'[s].said = IF says THEN child[s].said + 1 ELSE child[s].said
    BY <1>1, <2>1 DEF ChildRecs
  <2>4. Tells(s)
    BY <2>1, <2>3 DEF Tells
  <2>5. Feeds(s)
    <3>1. queue'[s].events = q.events
      BY <1>1, <2>1, <2>2 DEF QueueRecs
    <3>. QED
      BY <2>2, <3>1 DEF Feeds
  <2>6. sess'[s].deadlines = sess[s].deadlines
    BY <1>1, <2>1 DEF SessRecs
  <2>7. \A t \in Sessions : t # s => queue'[t] = queue[t] /\ child'[t] = child[t] /\ sess'[t] = sess[t]
    BY <1>1, <2>1
  <2>8. \A t \in Sessions : Step(t)
    BY <2>1, <2>4, <2>5, <2>6, <2>7 DEF Step, Feeds, Tells, Winds, Ages
  <2>. QED
    BY <1>1, <1>2, <2>1, <2>8
<1>20. ASSUME NEW s \in Sessions, NEW line \in Lines, Line(s, line) PROVE Limited'
  <2> DEFINE q == Fed(queue[s], Events(s, line))
             A == [child[s] EXCEPT !.said = IF Says(s, line) THEN @ + 1 ELSE @]
             read == [child[s] EXCEPT !.said = IF Says(s, line) THEN @ + 1 ELSE @,
                               !.saw = @ \/ line = "text", !.cut = line = "oversize",
                               !.concluded = @ \/ line \in Results]
  <2>1. /\ Says(s, line) => child[s].said < MaxItems
        /\ Fault \/ UNCHANGED faults
        /\ queue' = [queue EXCEPT ![s] = q]
        /\ child' = [child EXCEPT ![s] = Stopping(read)] \/ child' = [child EXCEPT ![s] = read]
        /\ sess' = [sess EXCEPT ![s].aborted = @ \/ q.over]
        /\ UNCHANGED <<ledger, others>>
    BY <1>20 DEF Line, ChildFrame, maps
  <2>2. \E es \in Seq(Kinds \X Nat) : q.events = Fed(queue[s], es).events
    BY <1>1, EventsShape
  <2>3. /\ read.said = IF Says(s, line) THEN child[s].said + 1 ELSE child[s].said
        /\ Stopping(read).said = read.said
    <3>1. A.said = IF Says(s, line) THEN child[s].said + 1 ELSE child[s].said
      BY <1>1 DEF ChildRecs
    <3>2. read.said = A.said
      BY <1>1 DEF ChildRecs
    <3> HIDE DEF read
    <3>3. Stopping(read).said = read.said
      BY DEF Stopping
    <3> HIDE DEF A
    <3>. QED
      BY <3>1, <3>2, <3>3
  <2> HIDE DEF q, read
  <2>4. Tells(s)
    BY <1>1, <2>1, <2>3 DEF Tells
  <2>5. Feeds(s)
    BY <1>1, <2>1, <2>2 DEF Feeds
  <2>6. sess'[s].deadlines = sess[s].deadlines
    BY <1>1, <2>1 DEF SessRecs
  <2>7. \A t \in Sessions : t # s => queue'[t] = queue[t] /\ child'[t] = child[t] /\ sess'[t] = sess[t]
    BY <1>1, <2>1
  <2>8. \A t \in Sessions : Step(t)
    BY <2>1, <2>4, <2>5, <2>6, <2>7 DEF Step, Feeds, Tells, Winds, Ages
  <2>. QED
    BY <1>1, <1>2, <2>1, <2>8
<1>21. ASSUME NEW c \in Calls, FrameExpires(c) PROVE Limited'
  BY <1>1, <1>4, <1>21 DEF FrameExpires, EventFrame, maps
<1>22. ASSUME NEW c \in Calls, LoseFrame(c) PROVE Limited'
  <2>1. c[1] \in Sessions /\ sess[c[1]] \in SessRecs
    BY <1>1, Constants
  <2>. QED
    BY <1>1, <1>3, <1>22, <2>1, ClosingLimits DEF LoseFrame, EventFrame
<1>23. ASSUME NEW n \in {0, MaxPending}, OthersPark(n) PROVE Limited'
  BY <1>4, <1>23 DEF OthersPark, maps
<1>24. ASSUME UNCHANGED vars PROVE Limited'
  BY <1>1, <1>4, <1>24 DEF vars, maps
<1>25. ASSUME NEW s \in Sessions, LateDeadline(s) PROVE Limited'
  <2>1. /\ UNCHANGED <<queue, child, others, faults>>
        /\ sess' = [sess EXCEPT ![s].deadlines = 0]
        /\ L!SettleSome({c \in L!Pending : c[1] = s}, "expired")
    BY <1>25 DEF LateDeadline, EventFrame
  <2>2. sess'[s].deadlines = 0
    BY <1>1, <2>1 DEF SessRecs
  <2>3. \A t \in Sessions : Ages(t)
    BY <1>1, <2>1 DEF Ages, L!SettleSome
  <2>. QED
    BY <1>1, <1>3, <2>1, <2>2, <2>3 DEF SameLimits
<1>26. ASSUME NEW r \in Requests, Request(r) PROVE Limited'
  BY <1>5, <1>6, <1>7, <1>8, <1>26 DEF Request
<1>27. ASSUME NEW r \in Requests, PumpStep(r) PROVE Limited'
  BY <1>11, <1>12, <1>13, <1>14, <1>15, <1>27 DEF PumpStep
<1>28. ASSUME NEW s \in Sessions, Exit(s) PROVE Limited'
  BY <1>19, <1>28 DEF Exit
<1>. QED
  BY <1>9, <1>10, <1>16, <1>17, <1>18, <1>20, <1>21, <1>22, <1>23, <1>24, <1>25, <1>26, <1>27,
     <1>28 DEF Next

(* No stream's queue holds more than its bound (StreamEventQueue), and a   *)
(* session never has more deadlines than calls: a continuation clears none *)
(* (continueToolSession), but none is armed twice for a call.              *)
THEOREM QueuesAndTimersBounded == Spec => []Limited
<1>1. Init => Limited
  <2> SUFFICES ASSUME Init PROVE Limited
    OBVIOUS
  <2>1. /\ others = 0 /\ faults = 0 /\ MaxFaults \in Nat /\ MaxItems \in Nat /\ MaxEvents \in Nat
    BY BoundsAssumption, LiveAssumption DEF Init
  <2>2. ASSUME NEW s \in Sessions PROVE Limits(s)
    <3>1. queue[s].events = <<>> /\ child[s].said = 0 /\ sess[s].deadlines = 0
      BY DEF Init
    <3>2. Born(s) \subseteq 1..MaxCalls
      BY Zenon DEF Born
    <3>3. Cardinality(Born(s)) \in Nat
      BY <3>2, Constants, Counted
    <3>. QED
      BY <2>1, <3>1, <3>3 DEF Limits
  <2>. QED
    BY <2>1, <2>2 DEF Limited
<1>2. IInv /\ Limited /\ [Next]_vars => Limited'
  BY LimitedStep
<1>. QED
  BY <1>1, <1>2, Invariance, PTL DEF Spec

(* Every variable keeps its type.                                          *)
THEOREM Typed == Spec => []TypeOK
<1>1. IInv /\ Limited => TypeOK
  <2> SUFFICES ASSUME IInv, Limited PROVE TypeOK
    OBVIOUS
  <2>1. /\ Shapes /\ sess \in [Sessions -> SessRecs] /\ child \in [Sessions -> ChildRecs]
        /\ MaxCalls \in Nat /\ QueueSize \in Nat /\ MaxItems \in Nat /\ MaxEvents \in Nat
    BY Sorts, Constants, BoundsAssumption DEF IInv
  <2>2. ChannelTypeOK
    BY <2>1 DEF Shapes, ChannelTypeOK, NoPromise, Waiting
  <2>3. sess \in [Sessions -> Sess]
    <3>1. ASSUME NEW s \in Sessions PROVE sess[s].deadlines \in 0..MaxCalls
      <4>1. IsFiniteSet(1..MaxCalls) /\ Cardinality(1..MaxCalls) = MaxCalls
            /\ Born(s) \subseteq 1..MaxCalls
        BY <2>1, FS_Interval DEF Born
      <4>2. Cardinality(Born(s)) <= MaxCalls /\ Cardinality(Born(s)) \in Nat
        BY <4>1, FS_Subset, FS_CardinalityType
      <4>3. sess[s].deadlines \in Nat /\ sess[s].deadlines <= Cardinality(Born(s))
        BY <2>1 DEF Limited, Limits, SessRecs
      <4>. QED
        BY <2>1, <4>2, <4>3
    <3>2. \A s \in Sessions : sess[s] \in Sess
      BY <2>1, <3>1 DEF Sess, SessRecs
    <3>. QED
      BY <2>1, <3>2
  <2>4. child \in [Sessions -> Child]
    <3>1. \A s \in Sessions : child[s].said \in 0..MaxItems
      BY <2>1 DEF Limited, Limits, ChildRecs
    <3>2. \A s \in Sessions : child[s] \in Child
      BY <2>1, <3>1 DEF Child, ChildRecs
    <3>. QED
      BY <2>1, <3>2
  <2>5. \A s \in Sessions : Len(queue[s].events) <= MaxEvents
    BY DEF Limited, Limits
  <2>. QED
    BY <2>1, <2>2, <2>3, <2>4, <2>5 DEF TypeOK, Shapes, Limited
<1>. QED
  BY <1>1, Invariance, QueuesAndTimersBounded, PTL

===============================================================================
