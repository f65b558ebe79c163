--------------------------- MODULE ClaudeAdapterProofs ---------------------------
(***************************************************************************)
(* Proofs about the Claude adapter: for any number of conversations,       *)
(* requests, calls and text items, and any bounds.                         *)
(***************************************************************************)
EXTENDS ClaudeAdapter, FunctionTheorems, SequenceTheorems,
        WellFoundedInduction, TLAPS

-------------------------------------------------------------------------------
(* The inductive invariant.                                                *)

(* Shapes.                                                                 *)
Texts     == {"delta", "full"}
Closers   == {"success", "failure", "over", "threw"}
SdkRecs   == [on : BOOLEAN, partial : BOOLEAN, said : Nat,
              unread : Seq((Texts \cup Closers) \X Nat)]
RunRecs   == [pc : {"idle", "listening", "race", "failed", "refused", "done"},
              at : Sessions \cup {Nobody}]
OutRecs   == [end : {"none", "silent", "error", "completed", "tool_calls"},
              call : Nat, usage : Nat]

Shapes ==
  /\ long \in BOOLEAN
  /\ frames \in [Calls -> FrameStatuses] /\ promise \in [Sessions -> 0..(MaxCalls + 1)]
  /\ items \in [Sessions -> Seq(1..MaxCalls)]
  /\ sess \in [Sessions -> Sess] /\ sdk \in [Sessions -> SdkRecs]
  /\ run \in [Requests -> RunRecs] /\ out \in [Requests -> OutRecs]
  /\ heard \in [Sessions -> Seq(Nat)]
  /\ sessions \subseteq Calls /\ byRequest \subseteq Requests
  /\ gone \subseteq Requests /\ revived \subseteq Sessions
  /\ ledger \in [Calls -> L!Statuses]

State(s)   == sess[s].state
Owner(s)   == sess[s].owner
Active(r)  == run[r].pc \in {"listening", "race", "failed", "refused"}
Raced(s)   == run[Owner(s)].pc = "race"
Closed(s)  == State(s) \in {"returning", "closed", "leaked"}

(* Who is at a session.  An active request owns its session; a session     *)
(* that was closed is aborted, and is not driven again once it is left.    *)
Fresh(s) ==
  /\ sess[s] = [state |-> "none", tools |-> FALSE, aborted |-> FALSE, gate |-> FALSE,
                parked |-> 0, public |-> 0, owner |-> s, ttl |-> FALSE,
                seen |-> FALSE, used |-> FALSE]
  /\ s \notin revived
Steered(r) ==
  /\ run[r].pc = "idle" => /\ At(r) = Nobody /\ r \notin gone
                           /\ out[r] = [end |-> "none", call |-> 0, usage |-> 0]
  /\ At(r) \in Sessions => State(At(r)) # "none"
  /\ Active(r) => At(r) \in Sessions /\ Owner(At(r)) = r
  /\ run[r].pc = "listening" => At(r) = r /\ State(r) = "starting"
  /\ run[r].pc = "race" => State(At(r)) \in {"open", "returning", "closed"}
  /\ run[r].pc \in {"failed", "refused"} =>
       State(At(r)) \in {"returning", "closed"} /\ sess[At(r)].tools
  /\ r \in byRequest => /\ At(r) \in Sessions /\ Owner(At(r)) = r
                        /\ State(At(r)) = "open" /\ sess[At(r)].tools
Steady(s) ==
  /\ State(s) = "none" => Fresh(s)
  /\ State(s) # "none" => At(s) = s /\ At(Owner(s)) = s
  /\ State(s) = "starting" => /\ run[s].pc = "listening" /\ Owner(s) = s
                              /\ sess[s].tools /\ ~sess[s].ttl
  /\ State(s) = "returning" => sess[s].tools /\ sess[s].aborted
  /\ ~sess[s].tools => Owner(s) = s
  /\ State(s) \in {"starting", "open"} => s \notin revived
  /\ State(s) = "open" /\ sess[s].tools => ~sess[s].aborted
  /\ State(s) = "open" /\ sess[s].tools /\ Raced(s) => Owner(s) \in byRequest

(* Calls: one at most is parked at a session, and then nobody drives it.   *)
Called(s) == \A n \in 1..MaxCalls : <<s, n>> \in sessions \cup L!Pending =>
  /\ sess[s].tools /\ ~Active(Owner(s)) /\ sess[s].public = n
  /\ State(s) \in {"open", "returning", "closed"}
  /\ State(s) # "open" => s \in revived /\ sess[s].aborted
Guarded(s) == State(s) = "open" /\ ~Raced(s) =>
  /\ sess[s].tools /\ sess[s].ttl /\ sess[s].gate /\ promise[s] = NoPromise
  /\ <<s, sess[s].public>> \in sessions \cap L!Pending
Retires(s) == ~long /\ sess[s].ttl => ~Raced(s)

(* Frames: a pending one is parked, or its driver comes to it, or the      *)
(* channel is about to drop it.                                            *)
Framed(s) ==
  /\ \A n \in 1..MaxCalls : frames[<<s, n>>] = "pending" =>
       /\ State(s) \in {"open", "returning"} /\ sess[s].tools
       /\ State(s) = "open" => n \in {promise[s], sess[s].parked}
  /\ State(s) \in {"none", "starting", "open"} \/ Raced(s) => items[s] = <<>>
  /\ State(s) \in {"none", "starting"} \/ ~sess[s].tools => promise[s] = NoPromise
  /\ State(s) \in {"none", "starting"} \/ Raced(s) => sess[s].parked = 0
  /\ sess[s].tools /\ Raced(s) => promise[s] # NoPromise
  /\ Raced(s) /\ promise[s] \in 1..MaxCalls => frames[<<s, promise[s]>>] = "pending"
Delivered(s) == ~long /\ s \notin revived =>
  \A n \in 1..MaxCalls :
    /\ ledger[<<s, n>>] = "resolved" <=> frames[<<s, n>>] = "result"
    /\ ledger[<<s, n>>] = "pending" => sess[s].parked = n /\ frames[<<s, n>>] = "pending"

(* Texts: `read` messages with text were read of those that were said; the *)
(* others are unread, in order, before what ends the query.  What was read *)
(* is heard, each item once, as long as somebody may still hear the rest.  *)
Said(partial, k) ==
  IF ~partial THEN <<"full", k>>
  ELSE IF k % 2 = 1 THEN <<"delta", (k + 1) \div 2>> ELSE <<"full", k \div 2>>
Begun(partial, k) == IF partial THEN (k + 1) \div 2 ELSE k
Unread(q, read) ==
  LET n == q.said - read  u == q.unread IN
  /\ Len(u) = n \/ (Len(u) = n + 1 /\ ~q.on /\ u[n + 1][1] \in Closers)
  /\ \A i \in 1..n : u[i] = Said(q.partial, read + i)
Follows(s, read) ==
  State(s) \in {"none", "starting", "open"} \/ Raced(s) =>
    /\ Len(heard[s]) = Begun(sdk[s].partial, read)
    /\ sess[s].seen <=> sdk[s].partial /\ read > 0
Streamed(s) ==
  /\ heard[s] = [i \in 1..Len(heard[s]) |-> i]
  /\ State(s) \in {"none", "starting"} => sdk[s].said = 0 /\ sdk[s].unread = <<>> /\ ~sdk[s].on
  /\ \E read \in 0..sdk[s].said : Unread(sdk[s], read) /\ Follows(s, read)
Complete(r) == out[r].end = "completed" =>
  /\ At(r) \in Sessions
  /\ LET s == At(r) IN
     /\ Closed(s) /\ ~Raced(s) /\ ~sdk[s].on
     /\ Len(heard[s]) = Begun(sdk[s].partial, sdk[s].said)
Metered(r) == out[r].usage > 0 =>
  /\ out[r].usage = 1 /\ At(r) \in Sessions /\ sess[At(r)].used
  /\ \A q \in Requests : q # r /\ At(q) = At(r) => out[q].usage = 0

Session(s) == /\ Steady(s) /\ Called(s) /\ Guarded(s) /\ Retires(s)
              /\ Framed(s) /\ Delivered(s) /\ Streamed(s)
Client(r)  == Steered(r) /\ Complete(r) /\ Metered(r)
IInv == /\ Shapes
        /\ \A s \in Sessions : Session(s)
        /\ \A r \in Requests : Client(r)

-------------------------------------------------------------------------------
(* Every set of natural numbers has a least element.                       *)
LEMMA LeastNumber ==
  ASSUME NEW T, T \subseteq Nat, T # {}
  PROVE  \E m \in T : \A k \in T : m <= k
<1> DEFINE R == {ss \in Nat \X Nat : ss[1] < ss[2]}
<1>1. IsWellFoundedOn(R, Nat)
  BY NatLessThanWellFounded DEF OpToRel
<1>2. \A k, m \in Nat : <<k, m>> \in R <=> k < m
  OBVIOUS
<1> HIDE DEF R
<1>3. PICK m \in T : \A k \in T : ~ (<<k, m>> \in R)
  BY <1>1, WFMin
<1>4. ASSUME NEW k \in T PROVE m <= k
  <2>1. k \in Nat /\ m \in Nat /\ ~(<<k, m>> \in R)
    BY <1>3
  <2>. QED
    BY <1>2, <2>1
<1>. QED
  BY <1>4

(* Shapes are kept.                                                        *)
LEMMA Constants ==
  /\ MaxCalls \in Nat /\ QueueSize \in Nat \ {0}
  /\ Sessions \subseteq Requests /\ Nobody \notin Requests
  /\ \A c \in Calls : c[1] \in Sessions /\ c[2] \in 1..MaxCalls /\ c = <<c[1], c[2]>>
  /\ \A s \in Sessions, n \in 1..MaxCalls : <<s, n>> \in Calls
BY FramesAssumption, RequestsAssumption DEF Calls

LEMMA Sorts ==
  ASSUME Shapes
  PROVE  /\ sess \in [Sessions -> Sess] /\ sdk \in [Sessions -> SdkRecs]
         /\ run \in [Requests -> RunRecs] /\ out \in [Requests -> OutRecs]
         /\ heard \in [Sessions -> Seq(Nat)] /\ promise \in [Sessions -> 0..(MaxCalls + 1)]
         /\ items \in [Sessions -> Seq(1..MaxCalls)] /\ frames \in [Calls -> FrameStatuses]
         /\ ledger \in [Calls -> L!Statuses]
BY Zenon DEF Shapes

LEMMA SessFields ==
  ASSUME NEW rec \in Sess
  PROVE  /\ \A v \in {"none", "starting", "open", "returning", "closed", "leaked"} :
              [rec EXCEPT !.state = v] \in Sess
         /\ \A v \in BOOLEAN : /\ [rec EXCEPT !.tools = v] \in Sess
                               /\ [rec EXCEPT !.aborted = v] \in Sess
                               /\ [rec EXCEPT !.gate = v] \in Sess
         /\ \A v \in BOOLEAN : /\ [rec EXCEPT !.ttl = v] \in Sess
                               /\ [rec EXCEPT !.seen = v] \in Sess
                               /\ [rec EXCEPT !.used = v] \in Sess
         /\ \A v \in 0..MaxCalls : /\ [rec EXCEPT !.parked = v] \in Sess
                                   /\ [rec EXCEPT !.public = v] \in Sess
         /\ \A v \in Requests : [rec EXCEPT !.owner = v] \in Sess
         /\ rec.tools \in BOOLEAN /\ rec.aborted \in BOOLEAN /\ rec.gate \in BOOLEAN
         /\ rec.ttl \in BOOLEAN /\ rec.seen \in BOOLEAN /\ rec.used \in BOOLEAN
         /\ rec.parked \in 0..MaxCalls /\ rec.public \in 0..MaxCalls /\ rec.owner \in Requests
         /\ rec.state \in {"none", "starting", "open", "returning", "closed", "leaked"}
BY DEF Sess

LEMMA SdkFields ==
  ASSUME NEW q \in SdkRecs
  PROVE  /\ \A v \in BOOLEAN : /\ [q EXCEPT !.on = v] \in SdkRecs
                               /\ [q EXCEPT !.partial = v] \in SdkRecs
         /\ \A v \in Nat : [q EXCEPT !.said = v] \in SdkRecs
         /\ \A v \in Seq((Texts \cup Closers) \X Nat) : [q EXCEPT !.unread = v] \in SdkRecs
         /\ q.on \in BOOLEAN /\ q.partial \in BOOLEAN /\ q.said \in Nat
         /\ q.unread \in Seq((Texts \cup Closers) \X Nat)
BY DEF SdkRecs

LEMMA SettledShape ==
  ASSUME Shapes, NEW S, NEW how \in {"resolved", "expired", "cancelled"},
         L!SettleSome(S, how)
  PROVE  ledger' \in [Calls -> L!Statuses]
BY DEF Shapes, L!SettleSome, L!Statuses, L!Fates

LEMMA RetiredFields ==
  ASSUME NEW rec \in Sess
  PROVE  LET new == Retired(rec) IN
         /\ new \in Sess
         /\ new.state = (IF rec.tools THEN "returning" ELSE "closed")
         /\ new.aborted = (rec.tools \/ rec.aborted)
         /\ new.ttl = FALSE /\ new.parked = 0 /\ new.public = 0
         /\ new.owner = rec.owner /\ new.tools = rec.tools /\ new.gate = rec.gate
         /\ new.seen = rec.seen /\ new.used = rec.used
<1>1. 0 \in 0..MaxCalls
  BY Constants
<1> DEFINE A == [rec EXCEPT !.state = IF rec.tools THEN "returning" ELSE "closed"]
           B == [A EXCEPT !.aborted = rec.tools \/ @]
           C == [B EXCEPT !.ttl = FALSE]
           D == [C EXCEPT !.parked = 0]
           E == [D EXCEPT !.public = 0]
<1>2. A \in Sess
  BY SessFields
<1>3. B \in Sess
  BY <1>2 DEF Sess
<1>4. C \in Sess
  BY <1>3, ZenonT(60) DEF Sess
<1>5. D \in Sess
  BY <1>1, <1>4, ZenonT(60) DEF Sess
<1>6. E \in Sess
  <2> HIDE DEF D
  <2>. QED
    BY <1>1, <1>5, SessFields
<1>7. Retired(rec) \in Sess
  BY <1>6 DEF Retired
<1>8. /\ Retired(rec).owner = rec.owner /\ Retired(rec).tools = rec.tools
      /\ Retired(rec).gate = rec.gate /\ Retired(rec).seen = rec.seen
      /\ Retired(rec).used = rec.used
  BY DEF Retired, Sess
<1>9. /\ Retired(rec).ttl = FALSE /\ Retired(rec).parked = 0 /\ Retired(rec).public = 0
      /\ Retired(rec).state = (IF rec.tools THEN "returning" ELSE "closed")
      /\ Retired(rec).aborted = (rec.tools \/ rec.aborted)
  BY DEF Retired, Sess
<1>. QED
  BY <1>7, <1>8, <1>9

LEMMA ClosingShape ==
  ASSUME Shapes, NEW s \in Sessions, NEW rec \in Sess,
         NEW fate \in {"expired", "cancelled"}, Closing(s, rec, fate)
  PROVE  /\ sess' \in [Sessions -> Sess] /\ ledger' \in [Calls -> L!Statuses]
         /\ sessions' \subseteq Calls /\ byRequest' \subseteq Requests
<1>1. CASE rec.state = "open"
  <2>1. Retired(rec) \in Sess
    BY RetiredFields
  <2>2. ledger' \in [Calls -> L!Statuses]
    BY <1>1, SettledShape DEF Closing
  <2>. QED
    BY <1>1, <2>1, <2>2 DEF Closing, Shapes
<1>2. CASE rec.state # "open"
  BY <1>2 DEF Closing, Shapes, maps
<1>. QED
  BY <1>1, <1>2

LEMMA CloseShape ==
  ASSUME Shapes, NEW s \in Sessions, NEW rec \in Sess, NEW extra,
         NEW fate \in {"expired", "cancelled"}, CloseSession(s, rec, extra, fate)
  PROVE  /\ sess' \in [Sessions -> Sess] /\ ledger' \in [Calls -> L!Statuses]
         /\ sessions' \subseteq Calls /\ byRequest' \subseteq Requests
         /\ frames' \in [Calls -> FrameStatuses]
<1>1. frames' \in [Calls -> FrameStatuses]
  BY DEF CloseSession, Shapes, Shed, FrameStatuses, Answers
<1>. QED
  BY <1>1, ClosingShape DEF CloseSession

LEMMA EndedShape ==
  ASSUME Shapes, NEW r \in Requests, NEW end \in {"silent", "error", "completed", "tool_calls"}
  PROVE  /\ Ended(r, end) \in [Requests -> OutRecs]
         /\ \A n \in Nat : /\ [Ended(r, end) EXCEPT ![r].call = n] \in [Requests -> OutRecs]
                           /\ [Ended(r, end) EXCEPT ![r].usage = n] \in [Requests -> OutRecs]
BY ZenonT(60) DEF Shapes, Ended, OutRecs

LEMMA GotoShape ==
  ASSUME Shapes, NEW r \in Requests, NEW pc \in {"race", "failed", "refused", "done"}, Goto(r, pc)
  PROVE  run' \in [Requests -> RunRecs]
BY DEF Shapes, Goto, RunRecs

LEMMA AskShape ==
  ASSUME Shapes, NEW s \in Sessions, Ask(s)
  PROVE  promise' \in [Sessions -> 0..(MaxCalls + 1)] /\ items' \in [Sessions -> Seq(1..MaxCalls)]
<1>1. /\ promise \in [Sessions -> 0..(MaxCalls + 1)] /\ items \in [Sessions -> Seq(1..MaxCalls)]
      /\ MaxCalls \in Nat
  BY Sorts, Constants
<1>2. CASE promise[s] # NoPromise \/ items[s] = <<>>
  BY <1>1, <1>2 DEF Ask, Waiting
<1>3. CASE promise[s] = NoPromise /\ items[s] # <<>>
  <2>1. Head(items[s]) \in 1..MaxCalls /\ Tail(items[s]) \in Seq(1..MaxCalls)
    BY <1>1, <1>3
  <2>2. /\ promise' = [promise EXCEPT ![s] = Head(items[s])]
        /\ items' = [items EXCEPT ![s] = Tail(items[s])]
    BY <1>1, <1>3 DEF Ask
  <2>3. Head(items[s]) \in 0..(MaxCalls + 1)
    BY <1>1, <2>1
  <2>. QED
    BY <1>1, <2>1, <2>2, <2>3, Zenon
<1>. QED
  BY <1>2, <1>3

LEMMA ShapesOpen ==
  ASSUME Shapes, NEW r \in Requests, NEW tools \in BOOLEAN, NEW partial \in BOOLEAN,
         Open(r, tools, partial)
  PROVE  Shapes'
<1>1. r \in Sessions
  BY DEF Open
<1>2. run' \in [Requests -> RunRecs]
  BY <1>1 DEF Open, Shapes, RunRecs
<1>3. sess' \in [Sessions -> Sess]
  <2>1. sess' = [sess EXCEPT ![r] = [sess[r] EXCEPT !.tools = tools, !.state = IF tools THEN "starting" ELSE "open"]]
    BY <1>1, Sorts DEF Open
  <2>2. [sess[r] EXCEPT !.tools = tools] \in Sess
    BY <1>1, Sorts, SessFields
  <2>3. [sess[r] EXCEPT !.tools = tools, !.state = IF tools THEN "starting" ELSE "open"] \in Sess
    BY <2>2, SessFields
  <2>. QED
    BY <2>1, <2>3, Sorts
<1>4. sdk' \in [Sessions -> SdkRecs]
  <2>1. sdk' = [sdk EXCEPT ![r] = [sdk[r] EXCEPT !.on = ~tools, !.partial = partial]]
    BY <1>1, Sorts DEF Open
  <2>2. [sdk[r] EXCEPT !.on = ~tools] \in SdkRecs
    BY <1>1, Sorts, SdkFields
  <2>3. [sdk[r] EXCEPT !.on = ~tools, !.partial = partial] \in SdkRecs
    BY <2>2, SdkFields
  <2>. QED
    BY <2>1, <2>3, Sorts
<1>. QED
  BY <1>1, <1>2, <1>3, <1>4 DEF Open, Shapes, channelVars, maps, history

LEMMA ShapesStart ==
  ASSUME Shapes, NEW r \in Sessions, Start(r)
  PROVE  Shapes'
<1>1. r \in Requests
  BY Constants
<1>2. sdk' \in [Sessions -> SdkRecs]
  <2>1. sdk' = [sdk EXCEPT ![r] = [sdk[r] EXCEPT !.on = TRUE]]
    BY Sorts DEF Start
  <2>2. [sdk[r] EXCEPT !.on = TRUE] \in SdkRecs
    BY Sorts, SdkFields
  <2>. QED
    BY <2>1, <2>2, Sorts
<1>3. CASE sess[r].aborted
  <2>1. sess' \in [Sessions -> Sess]
    <3>1. sess' = [sess EXCEPT ![r] = Retired(sess[r])]
      BY <1>3, Sorts DEF Start
    <3>2. Retired(sess[r]) \in Sess
      BY Sorts, RetiredFields
    <3>. QED
      BY <3>1, <3>2, Sorts
  <2>2. run' \in [Requests -> RunRecs] /\ out' \in [Requests -> OutRecs]
    BY <1>1, <1>3, GotoShape, EndedShape DEF Start
  <2>. QED
    BY <1>2, <1>3, <2>1, <2>2 DEF Start, Shapes, channelVars
<1>4. CASE ~sess[r].aborted
  <2>1. sess' \in [Sessions -> Sess]
    <3>1. sess' = [sess EXCEPT ![r] = [sess[r] EXCEPT !.state = "open"]]
      BY <1>4, Sorts DEF Start
    <3>2. [sess[r] EXCEPT !.state = "open"] \in Sess
      BY Sorts, SessFields
    <3>. QED
      BY <3>1, <3>2, Sorts
  <2>2. run' \in [Requests -> RunRecs]
    BY <1>1, <1>4, GotoShape DEF Start
  <2>3. promise' \in [Sessions -> 0..(MaxCalls + 1)] /\ items' \in [Sessions -> Seq(1..MaxCalls)]
    BY <1>4, AskShape DEF Start
  <2>. QED
    BY <1>1, <1>2, <1>4, <2>1, <2>2, <2>3 DEF Start, Shapes
<1>. QED
  BY <1>3, <1>4

LEMMA ShapesStartFails ==
  ASSUME Shapes, NEW r \in Sessions, NEW left \in {"closed", "leaked"}, StartFails(r, left)
  PROVE  Shapes'
<1>1. sess' \in [Sessions -> Sess]
  <2>1. sess' = [sess EXCEPT ![r] = [sess[r] EXCEPT !.state = left]]
    BY Sorts DEF StartFails
  <2>2. [sess[r] EXCEPT !.state = left] \in Sess
    BY Sorts, SessFields
  <2>. QED
    BY <2>1, <2>2, Sorts
<1>2. run' \in [Requests -> RunRecs] /\ out' \in [Requests -> OutRecs]
  BY Constants, GotoShape, EndedShape DEF StartFails
<1>. QED
  BY <1>1, <1>2 DEF StartFails, Shapes, channelVars, maps

LEMMA ResumedFields ==
  ASSUME NEW old \in Sess, NEW r \in Requests
  PROVE  LET rec == [old EXCEPT !.public = 0, !.owner = r] IN
         /\ Resumed(rec) \in Sess
         /\ Resumed(rec).state = old.state /\ Resumed(rec).tools = old.tools
         /\ Resumed(rec).aborted = old.aborted /\ ~Resumed(rec).gate
         /\ Resumed(rec).parked = 0 /\ Resumed(rec).public = 0
         /\ Resumed(rec).owner = r /\ ~Resumed(rec).ttl
         /\ Resumed(rec).seen = old.seen /\ Resumed(rec).used = old.used
<1>1. 0 \in 0..MaxCalls
  BY Constants
<1> DEFINE A == [old EXCEPT !.public = 0]
           B == [A EXCEPT !.owner = r]
<1>2. A \in Sess /\ A.public = 0
  BY <1>1 DEF Sess
<1>3. /\ B \in Sess /\ B.public = 0 /\ B.owner = r /\ B.state = old.state /\ B.tools = old.tools
      /\ B.aborted = old.aborted /\ B.seen = old.seen /\ B.used = old.used
  BY <1>2 DEF Sess
<1> HIDE DEF B
<1>4. [B EXCEPT !.parked = 0, !.gate = FALSE, !.ttl = FALSE] \in Sess
  <2>1. [B EXCEPT !.parked = 0] \in Sess
    BY <1>1, <1>3, SessFields
  <2>2. [B EXCEPT !.parked = 0, !.gate = FALSE] \in Sess
    BY <2>1, SessFields
  <2>. QED
    BY <2>2, SessFields
<1>5. /\ Resumed(B) \in Sess /\ Resumed(B).state = B.state /\ Resumed(B).tools = B.tools
      /\ Resumed(B).aborted = B.aborted /\ ~Resumed(B).gate
      /\ Resumed(B).parked = 0 /\ Resumed(B).public = B.public
      /\ Resumed(B).owner = B.owner /\ ~Resumed(B).ttl
      /\ Resumed(B).seen = B.seen /\ Resumed(B).used = B.used
  BY <1>3, <1>4 DEF Resumed, Sess
<1>. QED
  BY <1>3, <1>5 DEF B

(* A result that reaches no frame leaves gate and deadline as they were.   *)
LEMMA UnheardFields ==
  ASSUME NEW old \in Sess, NEW r \in Requests
  PROVE  LET new == [[old EXCEPT !.public = 0, !.owner = r] EXCEPT !.parked = 0] IN
         /\ new \in Sess
         /\ new.state = old.state /\ new.tools = old.tools
         /\ new.aborted = old.aborted /\ new.gate = old.gate
         /\ new.parked = 0 /\ new.public = 0
         /\ new.owner = r /\ new.ttl = old.ttl
         /\ new.seen = old.seen /\ new.used = old.used
<1>1. 0 \in 0..MaxCalls
  BY Constants
<1> DEFINE A == [old EXCEPT !.public = 0]
           B == [A EXCEPT !.owner = r]
<1>2. A \in Sess /\ A.public = 0
  BY <1>1 DEF Sess
<1>3. /\ B \in Sess /\ B.public = 0 /\ B.owner = r /\ B.state = old.state /\ B.tools = old.tools
      /\ B.aborted = old.aborted /\ B.seen = old.seen /\ B.used = old.used
      /\ B.gate = old.gate /\ B.ttl = old.ttl
  BY <1>2 DEF Sess
<1> HIDE DEF B
<1>4. [B EXCEPT !.parked = 0] \in Sess
  BY <1>1, <1>3, SessFields
<1>5. LET C == [B EXCEPT !.parked = 0] IN
      /\ C.state = B.state /\ C.tools = B.tools /\ C.aborted = B.aborted /\ C.gate = B.gate
      /\ C.parked = 0 /\ C.public = B.public /\ C.owner = B.owner /\ C.ttl = B.ttl
      /\ C.seen = B.seen /\ C.used = B.used
  BY <1>3 DEF Sess
<1>. QED
  BY <1>3, <1>4, <1>5 DEF B

LEMMA ShapesContinue ==
  ASSUME Shapes, NEW r \in Requests, NEW c \in Calls, Continue(r, c)
  PROVE  Shapes'
<1> DEFINE s == c[1]
           rec == [sess[s] EXCEPT !.public = 0, !.owner = r]
<1>1. s \in Sessions /\ sess[s] \in Sess
  BY Constants, Sorts
<1>2. Resumed(rec) \in Sess /\ [rec EXCEPT !.parked = 0] \in Sess
  BY <1>1, ResumedFields, UnheardFields
<1>3. frames' \in [Calls -> FrameStatuses]
  <2>1. frames' = frames \/ frames' = Answered(<<s, sess[s].parked>>, "result")
    BY DEF Continue
  <2>2. frames \in [Calls -> FrameStatuses] /\ "result" \in FrameStatuses
    BY Sorts DEF FrameStatuses, Answers
  <2>. QED
    BY <2>1, <2>2 DEF Answered
<1>4. ledger' \in [Calls -> L!Statuses]
  BY SettledShape DEF Continue
<1>5. sess' \in [Sessions -> Sess]
  <2>1. \/ sess' = [sess EXCEPT ![s] = Resumed(rec)]
        \/ sess' = [sess EXCEPT ![s] = [rec EXCEPT !.parked = 0]]
    BY DEF Continue
  <2> HIDE DEF rec, s
  <2>. QED
    BY <1>1, <1>2, <2>1, Sorts
<1>6. sessions' \subseteq Calls
  BY DEF Continue, Shapes
<1>7. UNCHANGED <<long, others, sdk, gone, heard, revived, faults>>
  BY DEF Continue
<1>8. CASE sess[s].aborted
  <2>1. run' = [run EXCEPT ![r] = [pc |-> "done", at |-> s]] /\ out' = Ended(r, "silent")
        /\ byRequest' = byRequest \ {sess[s].owner} /\ UNCHANGED <<promise, items>>
    BY <1>8 DEF Continue
  <2>2. [pc |-> "done", at |-> s] \in RunRecs
    BY <1>1 DEF RunRecs
  <2>3. run' \in [Requests -> RunRecs] /\ out' \in [Requests -> OutRecs]
    BY <2>1, <2>2, Sorts, EndedShape
  <2>. QED
    BY <1>3, <1>4, <1>5, <1>6, <1>7, <2>1, <2>3 DEF Shapes
<1>9. CASE ~sess[s].aborted
  <2>1. run' = [run EXCEPT ![r] = [pc |-> "race", at |-> s]] /\ Ask(s)
        /\ byRequest' = (byRequest \ {sess[s].owner}) \cup {r} /\ out' = out
    BY <1>9 DEF Continue, Rebound
  <2>2. [pc |-> "race", at |-> s] \in RunRecs
    BY <1>1 DEF RunRecs
  <2>3. run' \in [Requests -> RunRecs]
    BY <2>1, <2>2, Sorts
  <2>4. promise' \in [Sessions -> 0..(MaxCalls + 1)] /\ items' \in [Sessions -> Seq(1..MaxCalls)]
    BY <1>1, <2>1, AskShape
  <2>. QED
    BY <1>3, <1>4, <1>5, <1>6, <1>7, <2>1, <2>3, <2>4 DEF Shapes
<1>. QED
  BY <1>8, <1>9

LEMMA ShapesUnmatched ==
  ASSUME Shapes, NEW r \in Requests, ContinueUnmatched(r)
  PROVE  Shapes'
<1>1. run' \in [Requests -> RunRecs] /\ out' \in [Requests -> OutRecs]
  BY GotoShape, EndedShape DEF ContinueUnmatched
<1>. QED
  BY <1>1 DEF ContinueUnmatched, Shapes, channelVars, maps

LEMMA ShapesHangUp ==
  ASSUME Shapes, NEW r \in Requests, HangUp(r), At(r) \in Sessions
  PROVE  Shapes'
<1> DEFINE s == At(r)
           rec == IF s = r THEN [sess[s] EXCEPT !.aborted = TRUE] ELSE sess[s]
<1>1. s \in Sessions /\ sess[s] \in Sess /\ rec \in Sess
  BY Sorts, SessFields
<1>2. UNCHANGED <<promise, items, long, others, run, sdk, out, heard, revived>>
      /\ gone' = gone \cup {r}
  BY DEF HangUp, history
<1>3. CASE r \in byRequest
  <2>1. CloseSession(s, rec, 0, "cancelled")
    BY <1>3 DEF HangUp
  <2> HIDE DEF rec
  <2>. QED
    BY <1>1, <1>2, <2>1, CloseShape DEF Shapes
<1>4. CASE r \notin byRequest
  <2>1. sess' = [sess EXCEPT ![s] = rec] /\ UNCHANGED <<maps, frames>>
    BY <1>4 DEF HangUp
  <2> HIDE DEF rec
  <2>2. sess' \in [Sessions -> Sess]
    BY <1>1, <2>1, Sorts
  <2>. QED
    BY <1>2, <2>1, <2>2 DEF Shapes, maps
<1>. QED
  BY <1>3, <1>4

(* The pumps, with what they read.                                         *)
LEMMA ReadShape ==
  ASSUME Shapes, NEW r \in Requests, At(r) \in Sessions, Reading(r), Read(r)
  PROVE  /\ sdk' \in [Sessions -> SdkRecs]
         /\ sdk'[At(r)] = [sdk[At(r)] EXCEPT !.unread = Tail(sdk[At(r)].unread)]
         /\ \A t \in Sessions : t # At(r) => sdk'[t] = sdk[t]
         /\ Message(r) \in (Texts \cup Closers) \X Nat
<1> DEFINE s == At(r)
           u == sdk[s].unread
<1>1. sdk \in [Sessions -> SdkRecs] /\ sdk[s] \in SdkRecs /\ u \in Seq((Texts \cup Closers) \X Nat)
  BY Sorts, SdkFields
<1>2. u # <<>>
  BY DEF Reading
<1>3. Tail(u) \in Seq((Texts \cup Closers) \X Nat) /\ Head(u) \in (Texts \cup Closers) \X Nat
  BY <1>1, <1>2
<1>4. sdk' = [sdk EXCEPT ![s] = [sdk[s] EXCEPT !.unread = Tail(u)]]
  BY <1>1 DEF Read
<1>5. [sdk[s] EXCEPT !.unread = Tail(u)] \in SdkRecs
  BY <1>1, <1>3, SdkFields
<1>. QED
  BY <1>1, <1>3, <1>4, <1>5 DEF Message

LEMMA NotedFields ==
  ASSUME NEW old \in Sess, NEW m
  PROVE  LET rec == [old EXCEPT !.seen = @ \/ m[1] = "delta", !.used = @ \/ m[1] = "full"] IN
         /\ rec \in Sess /\ rec.state = old.state /\ rec.tools = old.tools
         /\ rec.aborted = old.aborted /\ rec.gate = old.gate /\ rec.parked = old.parked
         /\ rec.public = old.public /\ rec.owner = old.owner /\ rec.ttl = old.ttl
         /\ rec.seen = (old.seen \/ m[1] = "delta") /\ rec.used = (old.used \/ m[1] = "full")
<1> DEFINE A == [old EXCEPT !.seen = @ \/ m[1] = "delta"]
<1>1. (old.seen \/ m[1] = "delta") \in BOOLEAN /\ (old.used \/ m[1] = "full") \in BOOLEAN
  OBVIOUS
<1>2. A \in Sess
  BY <1>1, SessFields
<1>3. [A EXCEPT !.used = @ \/ m[1] = "full"] \in Sess
  BY <1>1, <1>2, ZenonT(60) DEF Sess
<1>. QED
  BY <1>3 DEF Sess

LEMMA SpentFields ==
  ASSUME NEW old \in Sess, NEW m
  PROVE  LET rec == [old EXCEPT !.used = @ \/ m[1] = "success"] IN
         /\ rec \in Sess /\ rec.state = old.state /\ rec.tools = old.tools
         /\ rec.aborted = old.aborted /\ rec.gate = old.gate /\ rec.parked = old.parked
         /\ rec.public = old.public /\ rec.owner = old.owner /\ rec.ttl = old.ttl
         /\ rec.seen = old.seen /\ rec.used = (old.used \/ m[1] = "success")
<1>1. (old.used \/ m[1] = "success") \in BOOLEAN
  OBVIOUS
<1>2. [old EXCEPT !.used = @ \/ m[1] = "success"] \in Sess
  BY <1>1, SessFields
<1>. QED
  BY <1>2 DEF Sess

LEMMA CountedShape ==
  ASSUME Shapes, NEW r \in Requests, NEW f \in [Requests -> OutRecs], NEW k \in {0, 1}
  PROVE  [f EXCEPT ![r].usage = @ + k] \in [Requests -> OutRecs]
<1>1. f[r] \in OutRecs /\ f[r].usage \in Nat /\ f[r].usage + k \in Nat
  BY DEF OutRecs
<1>2. [f[r] EXCEPT !.usage = @ + k] \in OutRecs
  BY <1>1 DEF OutRecs
<1>. QED
  BY <1>2

LEMMA ShapesTakeText ==
  ASSUME Shapes, NEW r \in Requests, TakeText(r), At(r) \in Sessions
  PROVE  Shapes'
<1> DEFINE s == At(r)
           m == Message(r)
           old == sess[s]
           rec == [old EXCEPT !.seen = @ \/ m[1] = "delta", !.used = @ \/ m[1] = "full"]
           k == IF Reported(r, m, old) THEN 1 ELSE 0
           o == [out EXCEPT ![r].usage = @ + k]
<1>1. s \in Sessions /\ old \in Sess
  BY Sorts
<1>2. /\ sdk' \in [Sessions -> SdkRecs] /\ m[2] \in Nat
  BY ReadShape DEF TakeText
<1>3. rec \in Sess
  BY <1>1, NotedFields, ZenonT(60)
<1>4. o \in [Requests -> OutRecs]
  BY Sorts, CountedShape
<1>5. heard' \in [Sessions -> Seq(Nat)]
  <2>1. heard' = heard \/ heard' = [heard EXCEPT ![s] = Append(@, m[2])]
    BY DEF TakeText
  <2>2. heard \in [Sessions -> Seq(Nat)]
    BY Sorts
  <2>3. Append(heard[s], m[2]) \in Seq(Nat)
    BY <1>1, <1>2, <2>2
  <2> HIDE DEF m, s
  <2>. QED
    BY <2>1, <2>2, <2>3
<1>6. UNCHANGED <<promise, items, long, others, gone, revived, faults>>
  BY DEF TakeText, PumpFrame
<1>7. CASE Stopped(r)
  <2>1. /\ CloseSession(s, rec, 0, "cancelled")
        /\ Goto(r, "done") /\ out' = [o EXCEPT ![r].end = "silent"]
    BY <1>7 DEF TakeText
  <2> HIDE DEF o, rec
  <2>2. out' \in [Requests -> OutRecs]
    <3>1. o[r] \in OutRecs
      BY <1>4
    <3>2. [o[r] EXCEPT !.end = "silent"] \in OutRecs
      BY <3>1 DEF OutRecs
    <3>. QED
      BY <1>4, <2>1, <3>2
  <2>3. run' \in [Requests -> RunRecs]
    BY <2>1, GotoShape
  <2>4. /\ sess' \in [Sessions -> Sess] /\ ledger' \in [Calls -> L!Statuses]
        /\ sessions' \subseteq Calls /\ byRequest' \subseteq Requests
        /\ frames' \in [Calls -> FrameStatuses]
    BY <1>1, <1>3, <2>1, CloseShape
  <2>. QED
    BY <1>2, <1>5, <1>6, <2>2, <2>3, <2>4 DEF Shapes
<1>8. CASE ~Stopped(r)
  <2>1. sess' = [sess EXCEPT ![s] = rec] /\ out' = o /\ UNCHANGED <<run, maps, frames>>
    BY <1>8 DEF TakeText
  <2> HIDE DEF o, rec
  <2>2. sess' \in [Sessions -> Sess]
    BY <1>1, <1>3, <2>1, Sorts
  <2>. QED
    BY <1>2, <1>4, <1>5, <1>6, <2>1, <2>2 DEF Shapes, maps
<1>. QED
  BY <1>7, <1>8

LEMMA ShapesTakeResult ==
  ASSUME Shapes, NEW r \in Requests, TakeResult(r), At(r) \in Sessions
  PROVE  Shapes'
<1> DEFINE s == At(r)
           m == Message(r)
           rec == [sess[s] EXCEPT !.used = @ \/ m[1] = "success"]
           o == Ended(r, IF m[1] = "success" THEN "completed" ELSE "error")
           k == IF m[1] = "success" /\ Reported(r, m, sess[s]) THEN 1 ELSE 0
<1>1. s \in Sessions /\ sess[s] \in Sess
  BY Sorts
<1>2. sdk' \in [Sessions -> SdkRecs]
  BY ReadShape DEF TakeResult
<1>3. rec \in Sess
  BY <1>1, SpentFields
<1>4. o \in [Requests -> OutRecs]
  BY EndedShape
<1>5. out' = [o EXCEPT ![r].usage = @ + k] /\ Goto(r, "done")
      /\ CloseSession(s, rec, 0, "cancelled")
      /\ UNCHANGED <<heard, promise, items, long, others, gone, revived, faults>>
  BY DEF TakeResult, PumpFrame
<1> HIDE DEF o, rec
<1>6. out' \in [Requests -> OutRecs] /\ run' \in [Requests -> RunRecs]
  BY <1>4, <1>5, CountedShape, GotoShape
<1>7. /\ sess' \in [Sessions -> Sess] /\ ledger' \in [Calls -> L!Statuses]
      /\ sessions' \subseteq Calls /\ byRequest' \subseteq Requests
      /\ frames' \in [Calls -> FrameStatuses]
  BY <1>1, <1>3, <1>5, CloseShape
<1>. QED
  BY <1>2, <1>5, <1>6, <1>7 DEF Shapes

LEMMA ShapesTakeEnd ==
  ASSUME Shapes, NEW r \in Requests, TakeEnd(r), At(r) \in Sessions
  PROVE  Shapes'
<1> DEFINE s == At(r)
<1>1. s \in Sessions /\ sess[s] \in Sess
  BY Sorts
<1>2. sdk' \in [Sessions -> SdkRecs]
  BY ReadShape DEF TakeEnd
<1>3. /\ CloseSession(s, sess[s], 0, "cancelled")
      /\ UNCHANGED <<heard, promise, items, long, others, gone, revived, faults>>
  BY DEF TakeEnd, PumpFrame
<1>4. /\ sess' \in [Sessions -> Sess] /\ ledger' \in [Calls -> L!Statuses]
      /\ sessions' \subseteq Calls /\ byRequest' \subseteq Requests
      /\ frames' \in [Calls -> FrameStatuses]
  BY <1>1, <1>3, CloseShape
<1>5. out' \in [Requests -> OutRecs] /\ run' \in [Requests -> RunRecs]
  <2>1. \/ Goto(r, "done") /\ \E end \in {"silent", "error"} : out' = Ended(r, end)
        \/ Goto(r, "failed") /\ out' = out
    BY DEF TakeEnd, ErrorEnd
  <2>. QED
    BY <2>1, GotoShape, EndedShape, Sorts
<1>. QED
  BY <1>2, <1>3, <1>4, <1>5 DEF Shapes

LEMMA ShapesEndFailed ==
  ASSUME Shapes, NEW r \in Requests, EndFailed(r)
  PROVE  Shapes'
<1>1. Goto(r, "done") /\ \E end \in {"silent", "error"} : out' = Ended(r, end)
  BY DEF EndFailed, ErrorEnd
<1>2. run' \in [Requests -> RunRecs] /\ out' \in [Requests -> OutRecs]
  BY <1>1, GotoShape, EndedShape
<1>. QED
  BY <1>2 DEF EndFailed, Shapes, maps, PumpFrame

LEMMA ShapesRefuseCall ==
  ASSUME Shapes, NEW r \in Requests, RefuseCall(r), At(r) \in Sessions
  PROVE  Shapes'
<1> DEFINE s == At(r)
<1>1. s \in Sessions /\ sess[s] \in Sess
  BY Sorts
<1>2. /\ CloseSession(s, sess[s], promise[s], "cancelled")
      /\ promise' = [promise EXCEPT ![s] = NoPromise]
      /\ UNCHANGED <<items, long, others, sdk, gone, heard, faults, revived>>
  BY DEF RefuseCall, TakeCall
<1>3. /\ sess' \in [Sessions -> Sess] /\ ledger' \in [Calls -> L!Statuses]
      /\ sessions' \subseteq Calls /\ byRequest' \subseteq Requests
      /\ frames' \in [Calls -> FrameStatuses]
  BY <1>1, <1>2, CloseShape
<1>4. out' \in [Requests -> OutRecs] /\ run' \in [Requests -> RunRecs]
  <2>1. \/ Goto(r, "done") /\ out' = Ended(r, "error")
        \/ Goto(r, "refused") /\ out' = out
    BY DEF RefuseCall
  <2>. QED
    BY <2>1, GotoShape, EndedShape, Sorts
<1>5. promise' \in [Sessions -> 0..(MaxCalls + 1)]
  BY <1>1, <1>2, Sorts, Constants DEF NoPromise
<1>. QED
  BY <1>2, <1>3, <1>4, <1>5 DEF Shapes

LEMMA ParkedFields ==
  ASSUME NEW rec \in Sess, NEW n \in 1..MaxCalls
  PROVE  LET new == Parked(rec, n) IN
         /\ new \in Sess /\ new.state = rec.state /\ new.tools = rec.tools
         /\ new.aborted = rec.aborted /\ new.gate /\ new.parked = n /\ new.public = n
         /\ new.owner = rec.owner /\ new.ttl /\ new.seen = rec.seen /\ new.used = rec.used
<1>1. n \in 0..MaxCalls
  BY Constants
<1> DEFINE A == [rec EXCEPT !.gate = TRUE]
           B == [A EXCEPT !.parked = n]
           C == [B EXCEPT !.public = n]
<1>2. A \in Sess
  BY SessFields
<1>3. B \in Sess
  BY <1>1, <1>2 DEF Sess
<1>4. C \in Sess
  BY <1>1, <1>3 DEF Sess
<1>5. [C EXCEPT !.ttl = TRUE] \in Sess
  <2> HIDE DEF C
  <2>. QED
    BY <1>4, SessFields
<1>6. Parked(rec, n) \in Sess
  BY <1>5 DEF Parked
<1>. QED
  BY <1>6 DEF Parked, Sess

LEMMA ShapesParkCall ==
  ASSUME Shapes, NEW r \in Requests, ParkCall(r), At(r) \in Sessions
  PROVE  Shapes'
<1> DEFINE s == At(r)
           n == promise[s]
<1>1. s \in Sessions /\ sess[s] \in Sess /\ n \in 1..MaxCalls /\ <<s, n>> \in Calls
  BY Sorts, Constants DEF ParkCall, TakeCall, Offered, Handed
<1>2. /\ promise' = [promise EXCEPT ![s] = NoPromise]
      /\ UNCHANGED <<items, long, others, sdk, gone, heard, faults, frames>>
      /\ sess' = [sess EXCEPT ![s] = Parked(sess[s], n)]
      /\ L!Park(<<s, n>>) /\ sessions' = sessions \cup {<<s, n>>}
      /\ byRequest' \subseteq byRequest /\ Goto(r, "done")
      /\ out' = [Ended(r, "tool_calls") EXCEPT ![r].call = n]
      /\ revived' \subseteq revived \cup {s}
  BY <1>1, Sorts DEF ParkCall, TakeCall
<1>3. Parked(sess[s], n) \in Sess
  BY <1>1, ParkedFields
<1>4. sess' \in [Sessions -> Sess]
  BY <1>1, <1>2, <1>3, Sorts
<1>5. out' \in [Requests -> OutRecs] /\ run' \in [Requests -> RunRecs]
  <2>1. n \in Nat
    BY <1>1
  <2>. QED
    BY <1>2, <2>1, GotoShape, EndedShape
<1>6. promise' \in [Sessions -> 0..(MaxCalls + 1)]
  BY <1>1, <1>2, Sorts, Constants DEF NoPromise
<1>7. ledger' \in [Calls -> L!Statuses]
  BY <1>1, <1>2, Sorts DEF L!Park, L!Statuses
<1>. QED
  BY <1>1, <1>2, <1>4, <1>5, <1>6, <1>7 DEF Shapes

(* The timers, the channel and the SDK.                                    *)
LEMMA ShapesDeadline ==
  ASSUME Shapes, NEW s \in Sessions, Deadline(s)
  PROVE  Shapes'
<1>1. sess[s] \in Sess /\ UNCHANGED <<promise, items, long, others, run, sdk, gone, out, heard, revived>>
  BY Sorts DEF Deadline, EventFrame, history
<1>2. CASE sess[s].state = "open"
  <2>1. CloseSession(s, sess[s], 0, "expired")
    BY <1>2 DEF Deadline
  <2>. QED
    BY <1>1, <2>1, CloseShape DEF Shapes
<1>3. CASE sess[s].state # "open"
  <2>1. /\ sess' = [sess EXCEPT ![s] = [sess[s] EXCEPT !.ttl = FALSE]]
        /\ L!SettleSome(Scope(s), "expired") /\ UNCHANGED <<sessions, byRequest, frames>>
    BY <1>3, Sorts DEF Deadline
  <2>2. [sess[s] EXCEPT !.ttl = FALSE] \in Sess
    BY <1>1, SessFields
  <2>3. sess' \in [Sessions -> Sess] /\ ledger' \in [Calls -> L!Statuses]
    BY <2>1, <2>2, Sorts, SettledShape
  <2>. QED
    BY <1>1, <2>1, <2>3 DEF Shapes
<1>. QED
  BY <1>2, <1>3

LEMMA ShapesFrameExpires ==
  ASSUME Shapes, NEW c \in Calls, FrameExpires(c)
  PROVE  Shapes'
<1>1. frames' \in [Calls -> FrameStatuses]
  BY DEF FrameExpires, Answered, Shapes, FrameStatuses, Answers
<1>. QED
  BY <1>1 DEF FrameExpires, EventFrame, maps, history, Shapes

LEMMA ShapesLoseFrame ==
  ASSUME Shapes, NEW c \in Calls, LoseFrame(c)
  PROVE  Shapes'
<1>1. c[1] \in Sessions /\ sess[c[1]] \in Sess
  BY Constants, Sorts
<1>2. frames' \in [Calls -> FrameStatuses]
  BY DEF LoseFrame, Shapes, Shed, FrameStatuses, Answers
<1>. QED
  BY <1>1, <1>2, ClosingShape DEF LoseFrame, EventFrame, Shapes, history

LEMMA FirstUnsent ==
  ASSUME NEW s, Unsent(s) # {}
  PROVE  LET n == CHOOSE k \in Unsent(s) : \A j \in Unsent(s) : k <= j IN
         n \in Unsent(s) /\ n \in 1..MaxCalls /\ frames[<<s, n>>] = "unsent"
<1>1. Unsent(s) \subseteq Nat /\ Unsent(s) # {}
  BY SMTT(30) DEF Unsent
<1>2. PICK m \in Unsent(s) : \A j \in Unsent(s) : m <= j
  BY <1>1, LeastNumber
<1>. QED
  BY <1>2 DEF Unsent

(* What an arriving frame n does.                                          *)
Received(s, gate, n) ==
  /\ frames[<<s, n>>] = "unsent"
  /\ \/ /\ frames' = [frames EXCEPT ![<<s, n>>] = "error"]
        /\ UNCHANGED <<promise, items>>
     \/ /\ frames' = [frames EXCEPT ![<<s, n>>] = "pending"] /\ ~gate
        /\ \/ /\ promise[s] = Waiting /\ promise' = [promise EXCEPT ![s] = n]
              /\ UNCHANGED items
           \/ /\ promise[s] # Waiting /\ UNCHANGED promise
              /\ items' = [items EXCEPT ![s] = Append(@, n)]

LEMMA Receives ==
  ASSUME Shapes, NEW s \in Sessions, NEW gate \in BOOLEAN, ReceiveFrame(s, gate)
  PROVE  \E n \in 1..MaxCalls : Received(s, gate, n)
<1> DEFINE n == CHOOSE k \in Unsent(s) : \A j \in Unsent(s) : k <= j
<1>1. n \in 1..MaxCalls /\ frames[<<s, n>>] = "unsent"
  BY FirstUnsent DEF ReceiveFrame
<1>2. \/ /\ frames' = [frames EXCEPT ![<<s, n>>] = "error"]
         /\ UNCHANGED <<promise, items>>
      \/ frames' = [frames EXCEPT ![<<s, n>>] = "pending"] /\ ~gate /\ Push(s, n)
  BY DEF ReceiveFrame
<1> HIDE DEF n
<1>3. Push(s, n) => \/ /\ promise[s] = Waiting /\ promise' = [promise EXCEPT ![s] = n]
                       /\ UNCHANGED items
                    \/ /\ promise[s] # Waiting /\ UNCHANGED promise
                       /\ items' = [items EXCEPT ![s] = Append(@, n)]
  BY DEF Push
<1>4. Received(s, gate, n)
  BY <1>1, <1>2, <1>3 DEF Received
<1>. QED
  BY <1>1, <1>4, Zenon

LEMMA ShapesReceiveCall ==
  ASSUME Shapes, NEW s \in Sessions, ReceiveCall(s)
  PROVE  Shapes'
<1>1. ReceiveFrame(s, sess[s].gate) /\ sess[s].gate \in BOOLEAN
  BY Sorts, SessFields DEF ReceiveCall
<1>2. PICK n \in 1..MaxCalls : Received(s, sess[s].gate, n)
  BY <1>1, Receives, Zenon
<1>3. frames' \in [Calls -> FrameStatuses]
  BY <1>2, Sorts DEF Received, FrameStatuses, Answers
<1>4. promise' \in [Sessions -> 0..(MaxCalls + 1)]
  <2>1. promise \in [Sessions -> 0..(MaxCalls + 1)] /\ n \in 0..(MaxCalls + 1)
    BY Sorts, Constants
  <2>2. promise' = promise \/ promise' = [promise EXCEPT ![s] = n]
    BY <1>2 DEF Received
  <2>. QED
    BY <2>1, <2>2
<1>5. items' \in [Sessions -> Seq(1..MaxCalls)]
  <2>1. items \in [Sessions -> Seq(1..MaxCalls)] /\ Append(items[s], n) \in Seq(1..MaxCalls)
    BY Sorts
  <2>. QED
    BY <1>2, <2>1 DEF Received
<1>. QED
  BY <1>3, <1>4, <1>5 DEF ReceiveCall, EventFrame, maps, history, Shapes

LEMMA ShapesReturned ==
  ASSUME Shapes, NEW s \in Sessions, Returned(s)
  PROVE  Shapes'
<1>1. sess' = [sess EXCEPT ![s] = [sess[s] EXCEPT !.state = "closed"]]
  BY Sorts DEF Returned
<1>2. [sess[s] EXCEPT !.state = "closed"] \in Sess
  BY Sorts, SessFields
<1>3. sess' \in [Sessions -> Sess]
  BY <1>1, <1>2, Sorts
<1>4. frames' \in [Calls -> FrameStatuses]
  BY DEF Returned, Dropped, Shapes, FrameStatuses
<1>. QED
  BY <1>3, <1>4 DEF Returned, EventFrame, maps, history, Shapes

(* A query says more, or stops.                                            *)
LEMMA SaidShape ==
  ASSUME NEW partial, NEW n \in Nat
  PROVE  Said(partial, n + 1) \in Texts \X Nat
<1>1. n + 1 \in Nat /\ ((n + 1) + 1) \div 2 \in Nat /\ (n + 1) \div 2 \in Nat
  OBVIOUS
<1>. QED
  BY <1>1 DEF Said, Texts

LEMMA SdkSteps ==
  ASSUME Shapes, NEW s \in Sessions, Sdk(s)
  PROVE  /\ sdk[s].on /\ Lasts(s)
         /\ UNCHANGED <<frames, promise, items, long, others, run, sess, maps, gone, history>>
         /\ \/ /\ sdk'[s].said = sdk[s].said + 1 /\ sdk'[s].on = sdk[s].on
               /\ sdk'[s].unread = Append(sdk[s].unread, Said(sdk[s].partial, sdk[s].said + 1))
            \/ /\ sdk'[s].said = sdk[s].said /\ ~sdk'[s].on
               /\ \E how \in Closers : sdk'[s].unread = Append(sdk[s].unread, <<how, 0>>)
         /\ sdk'[s].partial = sdk[s].partial
         /\ \A t \in Sessions : t # s => sdk'[t] = sdk[t]
         /\ sdk' \in [Sessions -> SdkRecs]
<1> DEFINE q == sdk[s]
           k == q.said + 1
           m == Said(q.partial, k)
<1>1. sdk \in [Sessions -> SdkRecs] /\ q \in SdkRecs /\ q.said \in Nat
      /\ q.unread \in Seq((Texts \cup Closers) \X Nat) /\ q.partial \in BOOLEAN
  BY Sorts, SdkFields
<1>2. m \in (Texts \cup Closers) \X Nat
  BY <1>1, SaidShape
<1>3. CASE SdkText(s)
  <2>1. sdk' = [sdk EXCEPT ![s] = [q EXCEPT !.said = k, !.unread = Append(q.unread, m)]]
        /\ q.on /\ Lasts(s)
    BY <1>1, <1>3 DEF SdkText, Said, Says
  <2>2. UNCHANGED <<frames, promise, items, long, others, run, sess, maps, gone, history>>
    BY <1>3 DEF SdkText, SdkFrame, channelVars
  <2>3. [q EXCEPT !.said = k] \in SdkRecs /\ Append(q.unread, m) \in Seq((Texts \cup Closers) \X Nat)
    <3>1. k \in Nat
      BY <1>1
    <3> HIDE DEF k, m
    <3>. QED
      BY <1>1, <1>2, <3>1, SdkFields
  <2>4. [q EXCEPT !.said = k, !.unread = Append(q.unread, m)] \in SdkRecs
    <3> DEFINE A == [q EXCEPT !.said = k]
               v == Append(q.unread, m)
    <3> HIDE DEF A, v
    <3>1. [A EXCEPT !.unread = v] \in SdkRecs
      BY <2>3, SdkFields DEF A, v
    <3>. QED
      BY <3>1 DEF A, v
  <2>5. LET new == [q EXCEPT !.said = k, !.unread = Append(q.unread, m)] IN
        new.said = k /\ new.on = q.on /\ new.unread = Append(q.unread, m) /\ new.partial = q.partial
    <3> HIDE DEF k, m, q
    <3>. QED
      BY <1>1 DEF SdkRecs
  <2> HIDE DEF k, m
  <2>. QED
    BY <1>1, <2>1, <2>2, <2>4, <2>5 DEF k, m
<1>4. CASE \E how \in Closers : SdkResult(s, how) \/ SdkStops(s, how)
  <2>1. PICK how \in Closers : SdkResult(s, how) \/ SdkStops(s, how)
    BY <1>4
  <2>2. sdk' = [sdk EXCEPT ![s] = [q EXCEPT !.on = FALSE, !.unread = Append(q.unread, <<how, 0>>)]]
        /\ q.on /\ Lasts(s)
    BY <1>1, <2>1 DEF SdkResult, SdkStops, Says
  <2>3. UNCHANGED <<frames, promise, items, long, others, run, sess, maps, gone, history>>
    BY <2>1 DEF SdkResult, SdkStops, SdkFrame, channelVars
  <2>4. Append(q.unread, <<how, 0>>) \in Seq((Texts \cup Closers) \X Nat)
    BY <1>1
  <2>5. [q EXCEPT !.on = FALSE] \in SdkRecs
    BY <1>1, SdkFields
  <2>6. [q EXCEPT !.on = FALSE, !.unread = Append(q.unread, <<how, 0>>)] \in SdkRecs
    <3> DEFINE A == [q EXCEPT !.on = FALSE]
               v == Append(q.unread, <<how, 0>>)
    <3> HIDE DEF A, v
    <3>1. [A EXCEPT !.unread = v] \in SdkRecs
      BY <2>4, <2>5, SdkFields DEF A, v
    <3>. QED
      BY <3>1 DEF A, v
  <2>7. LET new == [q EXCEPT !.on = FALSE, !.unread = Append(q.unread, <<how, 0>>)] IN
        new.said = q.said /\ ~new.on /\ new.unread = Append(q.unread, <<how, 0>>) /\ new.partial = q.partial
    <3> HIDE DEF q
    <3>. QED
      BY <1>1 DEF SdkRecs
  <2>. QED
    BY <1>1, <2>2, <2>3, <2>6, <2>7
<1>. QED
  BY <1>3, <1>4 DEF Sdk, Closers

LEMMA ShapesSdk ==
  ASSUME Shapes, NEW s \in Sessions, Sdk(s)
  PROVE  Shapes'
BY SdkSteps DEF Shapes, maps, history

-------------------------------------------------------------------------------
(* A step is about one session, s0, and one request, r0, if any.           *)
Same(s) ==
  /\ sess'[s] = sess[s] /\ sdk'[s] = sdk[s] /\ promise'[s] = promise[s]
  /\ items'[s] = items[s] /\ heard'[s] = heard[s] /\ (s \in revived' <=> s \in revived)
  /\ \A n \in 1..MaxCalls : /\ frames'[<<s, n>>] = frames[<<s, n>>]
                            /\ <<s, n>> \in sessions' <=> <<s, n>> \in sessions
                            /\ ledger'[<<s, n>>] = ledger[<<s, n>>]
Apart(s0, r0) ==
  /\ long' = long
  /\ \A s \in Sessions : s # s0 => Same(s)
  /\ \A r \in Requests : r # r0 =>
       /\ run'[r] = run[r] /\ out'[r] = out[r] /\ (r \in gone' <=> r \in gone)
       /\ r \in byRequest' => r \in byRequest
       /\ r \in byRequest /\ At(r) # s0 => r \in byRequest'
  /\ r0 \in Requests => At(r0) \in {s0, Nobody} /\ At(r0)' \in {s0, Nobody}

LEMMA ElsewhereRuns ==
  ASSUME IInv, NEW s0, NEW r0, Apart(s0, r0), NEW s \in Sessions, s # s0, State(s) # "none"
  PROVE  /\ s # r0 /\ Owner(s) # r0 /\ s \in Requests /\ Owner(s) \in Requests
         /\ run'[s] = run[s] /\ run'[Owner(s)] = run[Owner(s)]
         /\ Owner(s)' = Owner(s) /\ (Raced(s)' <=> Raced(s)) /\ State(s)' = State(s)
         /\ (Active(Owner(s))' <=> Active(Owner(s)))
         /\ (Owner(s) \in byRequest => Owner(s) \in byRequest')
<1>1. At(s) = s /\ At(Owner(s)) = s /\ s # Nobody
  BY Constants DEF IInv, Session, Steady
<1>2. s \in Requests /\ Owner(s) \in Requests
  BY Constants, Sorts, SessFields DEF IInv, Owner
<1>3. s # r0 /\ Owner(s) # r0
  BY <1>1, <1>2 DEF Apart
<1>4. sess'[s] = sess[s]
  BY DEF Apart, Same
<1>5. run'[s] = run[s] /\ run'[Owner(s)] = run[Owner(s)]
      /\ (Owner(s) \in byRequest => Owner(s) \in byRequest')
  BY <1>1, <1>2, <1>3 DEF Apart
<1>. QED
  BY <1>2, <1>3, <1>4, <1>5 DEF Owner, State, Raced, Active

LEMMA ElsewherePending ==
  ASSUME Shapes, Shapes', NEW s \in Sessions, Same(s)
  PROVE  \A n \in 1..MaxCalls : /\ <<s, n>> \in (L!Pending)' <=> <<s, n>> \in L!Pending
                                /\ <<s, n>> \in sessions' <=> <<s, n>> \in sessions
BY Constants DEF Same, L!Pending

(* Nothing happens at a session.                                           *)
LEMMA Unmoved ==
  ASSUME Shapes, Shapes', NEW s \in Sessions, Session(s), Same(s), long' = long,
         State(s) # "none" =>
           /\ run'[s] = run[s] /\ run'[Owner(s)] = run[Owner(s)]
           /\ (Owner(s) \in byRequest => Owner(s) \in byRequest')
  PROVE  Session(s)'
<1>2. /\ sess'[s] = sess[s] /\ sdk'[s] = sdk[s] /\ promise'[s] = promise[s]
      /\ items'[s] = items[s] /\ heard'[s] = heard[s] /\ (s \in revived' <=> s \in revived)
      /\ \A n \in 1..MaxCalls : frames'[<<s, n>>] = frames[<<s, n>>]
      /\ \A n \in 1..MaxCalls : ledger'[<<s, n>>] = ledger[<<s, n>>]
  BY DEF Same
<1>3. \A n \in 1..MaxCalls : /\ <<s, n>> \in (L!Pending)' <=> <<s, n>> \in L!Pending
                             /\ <<s, n>> \in sessions' <=> <<s, n>> \in sessions
  BY ElsewherePending
<1>4. State(s)' = State(s) /\ Owner(s)' = Owner(s)
  BY <1>2 DEF State, Owner
<1>5. Delivered(s)'
  BY <1>2 DEF Session, Delivered
<1>6. CASE State(s) = "none"
  <2>1. Fresh(s)
    BY <1>6 DEF Session, Steady
  <2>2. Fresh(s)' /\ ~sess[s].tools /\ sess[s].parked = 0 /\ ~sess[s].ttl /\ Owner(s) = s
    BY <1>2, <2>1 DEF Fresh, Owner
  <2>3. Steady(s)'
    BY <1>4, <1>6, <2>2, <1>2 DEF Steady
  <2>4. Called(s)' /\ Guarded(s)' /\ Retires(s)'
    BY <1>2, <1>3, <1>4, <1>6, <2>2 DEF Session, Called, Guarded, Retires
  <2>5. Framed(s)'
    <3>1. \A n \in 1..MaxCalls : frames[<<s, n>>] # "pending"
      BY <1>6 DEF Session, Framed
    <3>2. promise[s] = NoPromise /\ items[s] = <<>>
      BY <1>6 DEF Session, Framed
    <3>. QED
      BY <1>2, <1>4, <1>6, <2>2, <3>1, <3>2 DEF Framed, NoPromise
  <2>6. Streamed(s)'
    <3>1. PICK read \in 0..sdk[s].said : Unread(sdk[s], read) /\ Follows(s, read)
      BY DEF Session, Streamed
    <3>2. Follows(s, read)'
      BY <1>2, <1>4, <1>6, <3>1 DEF Follows
    <3>. QED
      BY <1>2, <1>4, <3>1, <3>2 DEF Session, Streamed
  <2>. QED
    BY <1>5, <2>3, <2>4, <2>5, <2>6 DEF Session
<1>7. CASE State(s) # "none"
  <2>1. /\ run'[s] = run[s] /\ run'[Owner(s)] = run[Owner(s)]
        /\ (Raced(s)' <=> Raced(s)) /\ (Active(Owner(s))' <=> Active(Owner(s)))
        /\ (Owner(s) \in byRequest => Owner(s) \in byRequest')
    BY <1>4, <1>7 DEF Raced, Active
  <2>2. Steady(s)'
    BY <1>2, <1>4, <1>7, <2>1 DEF Session, Steady, At
  <2>3. Called(s)' /\ Retires(s)'
    BY <1>2, <1>3, <1>4, <2>1 DEF Session, Called, Retires
  <2>4. Guarded(s)'
    <3>1. ASSUME State(s) = "open", ~Raced(s)
          PROVE  <<s, sess[s].public>> \in sessions' \cap (L!Pending)'
      <4>1. <<s, sess[s].public>> \in sessions \cap L!Pending
        BY <3>1 DEF Session, Guarded
      <4>2. sess[s].public \in 1..MaxCalls
        BY <4>1, Constants DEF Shapes, Calls
      <4>. QED
        BY <1>3, <4>1, <4>2
    <3>. QED
      BY <1>2, <1>4, <2>1, <3>1 DEF Session, Guarded
  <2>5. Framed(s)'
    BY <1>2, <1>4, <2>1 DEF Session, Framed
  <2>6. Streamed(s)'
    <3>1. PICK read \in 0..sdk[s].said : Unread(sdk[s], read) /\ Follows(s, read)
      BY DEF Session, Streamed
    <3>2. Follows(s, read)'
      BY <1>2, <1>4, <2>1, <3>1 DEF Follows
    <3>. QED
      BY <1>2, <1>4, <3>1, <3>2 DEF Session, Streamed
  <2>. QED
    BY <1>5, <2>2, <2>3, <2>4, <2>5, <2>6 DEF Session
<1>. QED
  BY <1>6, <1>7

LEMMA Elsewhere ==
  ASSUME IInv, Shapes', NEW s0, NEW r0, Apart(s0, r0), NEW s \in Sessions, s # s0
  PROVE  Session(s)'
<1>1. Same(s) /\ long' = long /\ Shapes /\ Session(s)
  BY DEF Apart, IInv
<1>2. State(s) # "none" => /\ run'[s] = run[s] /\ run'[Owner(s)] = run[Owner(s)]
                           /\ (Owner(s) \in byRequest => Owner(s) \in byRequest')
  BY ElsewhereRuns
<1>. QED
  BY <1>1, <1>2, Unmoved

LEMMA OtherClients ==
  ASSUME IInv, Shapes', NEW s0, NEW r0, Apart(s0, r0),
         NEW r \in Requests, r # r0, At(r) # s0
  PROVE  Client(r)'
<1>1. /\ Client(r) /\ run'[r] = run[r] /\ out'[r] = out[r] /\ (r \in gone' <=> r \in gone)
      /\ (r \in byRequest' => r \in byRequest)
  BY DEF Apart, IInv
<1>2. At(r)' = At(r) /\ (Active(r)' <=> Active(r))
  BY <1>1 DEF At, Active
<1>3. ASSUME At(r) \in Sessions
      PROVE  /\ Same(At(r)) /\ State(At(r))' = State(At(r)) /\ Owner(At(r))' = Owner(At(r))
             /\ (Raced(At(r))' <=> Raced(At(r)))
  <2>1. State(At(r)) # "none"
    BY <1>1, <1>3 DEF Client, Steered
  <2>. QED
    BY <1>2, <1>3, <2>1, ElsewhereRuns, ZenonT(60) DEF Apart
<1>4. At(r) \in Sessions \cup {Nobody} /\ Nobody \notin Sessions
  BY Sorts, Constants DEF IInv, RunRecs, At
<1>5. Steered(r)'
  <2>1. /\ run[r].pc = "idle" => r \notin gone'
        /\ r \in byRequest' => r \in byRequest
        /\ At(r) \in Sessions => sess'[At(r)] = sess[At(r)]
    BY <1>1, <1>3 DEF Client, Steered, Same
  <2>2. (At(r) \in Sessions)' <=> At(r) \in Sessions
    BY <1>2
  <2>3. run[r].pc = "listening" => At(r) = r /\ State(r)' = State(r)
    BY <1>1, <1>2, <2>1 DEF Client, Steered, State, Active
  <2>. QED
    <3>1. At(r)' = At(r) /\ run'[r] = run[r] /\ out'[r] = out[r] /\ Steered(r)
      BY <1>1, <1>2 DEF Client
    <3>2. At(r) \in Sessions => /\ State(At(r))' = State(At(r)) /\ Owner(At(r))' = Owner(At(r))
                               /\ sess'[At(r)] = sess[At(r)]
      BY <1>3, <2>1
    <3>3. Active(r)' <=> Active(r)
      BY <1>2
    <3>4. (run[r].pc = "idle" => /\ At(r) = Nobody /\ r \notin gone
                           /\ out[r] = [end |-> "none", call |-> 0, usage |-> 0])'
      BY <3>1, <2>1 DEF Steered
    <3>5. (At(r) \in Sessions => State(At(r)) # "none")'
      BY <3>1, <3>2, <2>2 DEF Steered
    <3>6. (Active(r) => At(r) \in Sessions /\ Owner(At(r)) = r)'
      BY <3>1, <3>2, <3>3, <2>2 DEF Steered
    <3>7. (r \in byRequest => /\ At(r) \in Sessions /\ Owner(At(r)) = r
                        /\ State(At(r)) = "open" /\ sess[At(r)].tools)'
      BY <3>1, <3>2, <2>1, <2>2 DEF Steered
    <3>8. (run[r].pc = "listening" => At(r) = r /\ State(r) = "starting")'
      BY <3>1, <2>3 DEF Steered
    <3>9. (run[r].pc = "race" => State(At(r)) \in {"open", "returning", "closed"})'
      BY <3>1, <3>2, <3>3 DEF Steered, Active
    <3>10. (run[r].pc \in {"failed", "refused"} =>
             State(At(r)) \in {"returning", "closed"} /\ sess[At(r)].tools)'
      BY <3>1, <3>2, <3>3 DEF Steered, Active
    <3>. QED
      BY <3>4, <3>5, <3>6, <3>7, <3>8, <3>9, <3>10 DEF Steered
<1>6. Complete(r)'
  BY <1>1, <1>2, <1>3 DEF Client, Complete, Same, Closed
<1>7. Metered(r)'
  <2>1. \A q \in Requests : At(q)' = At(r) /\ At(r) \in Sessions => At(q) = At(r) /\ out'[q] = out[q]
    BY <1>4 DEF Apart, At
  <2>. QED
    BY <1>1, <1>2, <1>3, <2>1 DEF Client, Metered, Same
<1>. QED
  BY <1>5, <1>6, <1>7 DEF Client

(* So it is enough to look at that session, and at the requests there.     *)
LEMMA Lift ==
  ASSUME IInv, Shapes', NEW s0, NEW r0, Apart(s0, r0),
         s0 \in Sessions => Session(s0)',
         \A r \in Requests : r = r0 \/ At(r) = s0 => Client(r)'
  PROVE  IInv'
<1>1. \A s \in Sessions : Session(s)'
  BY Elsewhere
<1>2. \A r \in Requests : Client(r)'
  BY OtherClients
<1>. QED
  BY <1>1, <1>2 DEF IInv

(* The other requests at the session: what was said to them stays true, as *)
(* long as the step undoes nothing that is over.                           *)
Lasting(s) ==
  /\ sess[s].used => sess'[s].used
  /\ Closed(s) /\ ~Raced(s) =>
       /\ Closed(s)' /\ ~Raced(s)'
       /\ ~sdk[s].on =>
            /\ ~sdk'[s].on /\ sdk'[s].said = sdk[s].said
            /\ sdk'[s].partial = sdk[s].partial /\ heard'[s] = heard[s]
Paying(s, r0) ==
  r0 \in Requests /\ At(r0)' = s =>
    \/ out'[r0].usage = 0
    \/ out'[r0].usage = out[r0].usage /\ At(r0) = s
    \/ ~sess[s].used
(* One of the requests takes the step and drives the session, or drives it *)
(* from now on; or the step is nobody's.                                   *)
Alone(s, r0) == \A r \in Requests : r # r0 /\ At(r) = s => ~Active(r) /\ r \notin byRequest'
Nobodys(s) ==
  /\ Owner(s)' = Owner(s) /\ sess'[s].tools = sess[s].tools
  /\ \/ State(s)' = State(s)
     \/ /\ State(s) = "open" /\ State(s)' \in {"returning", "closed"}
        /\ Owner(s) \notin byRequest'
     \/ State(s) = "returning" /\ State(s)' = "closed"

LEMMA Bystanders ==
  ASSUME IInv, Shapes', NEW s0 \in Sessions, NEW r0, Apart(s0, r0),
         State(s0)' # "none", Lasting(s0), Paying(s0, r0), Alone(s0, r0) \/ Nobodys(s0),
         NEW r \in Requests, r # r0, At(r) = s0
  PROVE  Client(r)'
<1>1. /\ Client(r) /\ run'[r] = run[r] /\ out'[r] = out[r] /\ (r \in gone' <=> r \in gone)
      /\ (r \in byRequest' => r \in byRequest)
  BY DEF Apart, IInv
<1>2. At(r)' = At(r) /\ s0 # Nobody /\ (Active(r)' <=> Active(r))
  BY <1>1, Constants DEF At, Active
<1>3. run[r].pc # "idle" /\ run'[r].pc # "idle"
  BY <1>1, <1>2 DEF Client, Steered
<1>4. Steered(r)'
  <2>1. CASE Alone(s0, r0)
    <3>1. ~Active(r) /\ r \notin byRequest' /\ ~Active(r)'
      BY <1>2, <2>1 DEF Alone
    <3>. QED
      BY <1>1, <1>2, <1>3, <3>1 DEF Steered, Active
  <2>2. CASE Nobodys(s0)
    <3>1. r \in byRequest' => /\ State(s0)' = "open" /\ sess'[s0].tools
                              /\ Owner(s0)' = r
      BY <1>1, <2>2 DEF Client, Steered, Nobodys
    <3>2. Active(r)' => Owner(s0)' = r
      BY <1>1, <1>2, <2>2 DEF Client, Steered, Nobodys
    <3>3. run'[r].pc = "listening" => r = s0 /\ State(s0)' = "starting"
      BY <1>1, <2>2 DEF Client, Steered, Nobodys
    <3>4. run'[r].pc = "race" => State(s0)' \in {"open", "returning", "closed"}
      BY <1>1, <2>2 DEF Client, Steered, Nobodys
    <3>5. run'[r].pc \in {"failed", "refused"} =>
            State(s0)' \in {"returning", "closed"} /\ sess'[s0].tools
      BY <1>1, <2>2 DEF Client, Steered, Nobodys
    <3>. QED
      BY <1>2, <1>3, <3>1, <3>2, <3>3, <3>4, <3>5 DEF Steered
  <2>. QED
    BY <2>1, <2>2
<1>5. Complete(r)'
  BY <1>1, <1>2 DEF Client, Complete, Lasting
<1>6. Metered(r)'
  <2>1. SUFFICES ASSUME out[r].usage > 0 PROVE Metered(r)'
    BY <1>1 DEF Metered
  <2>2. out[r].usage = 1 /\ sess[s0].used
    BY <1>1, <2>1 DEF Client, Metered
  <2>3. sess'[s0].used
    BY <2>2 DEF Lasting
  <2>4. ASSUME NEW q \in Requests, q # r, At(q)' = s0 PROVE out'[q].usage = 0
    <3>1. CASE q # r0
      <4>1. At(q) = s0 /\ out'[q] = out[q]
        BY <2>4, <3>1 DEF Apart, At
      <4>. QED
        BY <1>1, <2>1, <2>4, <4>1 DEF Client, Metered
    <3>2. CASE q = r0
      BY <1>1, <2>1, <2>2, <2>4, <3>2 DEF Client, Metered, Paying
    <3>. QED
      BY <3>1, <3>2
  <2>. QED
    BY <1>1, <1>2, <2>2, <2>3, <2>4 DEF Metered
<1>. QED
  BY <1>4, <1>5, <1>6 DEF Client

LEMMA Basics ==
  ASSUME IInv, NEW s \in Sessions
  PROVE  /\ Session(s) /\ Shapes
         /\ sess[s] \in Sess /\ sdk[s] \in SdkRecs
         /\ heard[s] \in Seq(Nat) /\ sdk[s].unread \in Seq((Texts \cup Closers) \X Nat)
         /\ sdk[s].said \in Nat
         /\ s \in Requests /\ Owner(s) \in Requests /\ s # Nobody
<1>1. sess[s] \in Sess /\ sdk[s] \in SdkRecs /\ heard[s] \in Seq(Nat)
  BY Sorts DEF IInv
<1>2. Owner(s) \in Requests /\ sdk[s].said \in Nat
      /\ sdk[s].unread \in Seq((Texts \cup Closers) \X Nat)
  BY <1>1, SessFields, SdkFields DEF Owner
<1>. QED
  BY <1>1, <1>2, Constants DEF IInv

LEMMA NobodyLift ==
  ASSUME IInv, Shapes', NEW s \in Sessions, Apart(s, Nobody), Session(s)',
         State(s)' # "none", Lasting(s), Nobodys(s)
  PROVE  IInv'
<1>1. Nobody \notin Requests
  BY Constants
<1>2. Paying(s, Nobody)
  BY <1>1 DEF Paying
<1>3. \A r \in Requests : r = Nobody \/ At(r) = s => Client(r)'
  BY <1>1, <1>2, Bystanders
<1>. QED
  BY <1>3, Lift

LEMMA DriverLift ==
  ASSUME IInv, Shapes', NEW s \in Sessions, NEW r0 \in Requests, Apart(s, r0), Session(s)',
         Client(r0)', State(s)' # "none", Lasting(s), Paying(s, r0), Alone(s, r0)
  PROVE  IInv'
<1>1. \A r \in Requests : r = r0 \/ At(r) = s => Client(r)'
  BY Bystanders
<1>. QED
  BY <1>1, Lift

LEMMA DriverAlone ==
  ASSUME IInv, NEW s \in Sessions, NEW r0, Owner(s) = r0, Apart(s, r0)
  PROVE  Alone(s, r0)
BY DEF IInv, Client, Steered, Apart, Alone

(* The driver of a session is its owner, and the owner of a session is     *)
(* there.                                                                  *)
LEMMA Drivers ==
  ASSUME IInv, NEW r \in Requests, Active(r)
  PROVE  /\ At(r) \in Sessions /\ Owner(At(r)) = r /\ State(At(r)) # "none"
         /\ (Raced(At(r)) <=> Drives(r)) /\ Client(r)
BY DEF IInv, Client, Steered, Raced, Drives

LEMMA Whereabouts ==
  ASSUME IInv, NEW s \in Sessions, State(s) # "none"
  PROVE  At(s) = s /\ At(Owner(s)) = s
BY Basics DEF Session, Steady

(* Between the pumps' steps, no call waits for a driver.                   *)
LEMMA NothingWaits ==
  ASSUME IInv, NEW s \in Sessions, Quiet, State(s) # "none", Raced(s)
  PROVE  promise[s] \notin 1..MaxCalls
<1>1. At(Owner(s)) = s /\ Owner(s) \in Requests
  BY Basics, Whereabouts
<1>2. Drives(Owner(s)) /\ ~Offered(Owner(s))
  BY <1>1 DEF Quiet, Raced, Drives
<1>. QED
  BY <1>1, <1>2 DEF Offered, Handed

-------------------------------------------------------------------------------
(* Closing an open session, whoever does it: what is left of it.           *)
Closes(s) ==
  /\ State(s) = "open"
  /\ State(s)' = (IF sess[s].tools THEN "returning" ELSE "closed")
  /\ Owner(s)' = Owner(s) /\ sess'[s].tools = sess[s].tools
  /\ sess[s].tools => sess'[s].aborted
  /\ ~sess'[s].ttl /\ sess'[s].parked = 0 /\ items'[s] = items[s]
  /\ s \notin revived' /\ long' = long
  /\ promise'[s] \in {NoPromise, promise[s]}
  /\ \A n \in 1..MaxCalls :
       /\ <<s, n>> \notin sessions' \cup (L!Pending)'
       /\ ledger'[<<s, n>>] = "resolved" <=> ledger[<<s, n>>] = "resolved"
       /\ frames'[<<s, n>>] = "result" <=> frames[<<s, n>>] = "result"
       /\ frames'[<<s, n>>] = "pending" => frames[<<s, n>>] = "pending"
  /\ At(s)' = s /\ At(Owner(s))' = s
  /\ Raced(s)' => Raced(s) /\ promise'[s] = promise[s] /\ promise[s] \notin 1..MaxCalls

LEMMA ClosedSession ==
  ASSUME IInv, Shapes', NEW s \in Sessions, Closes(s), Streamed(s)'
  PROVE  Session(s)'
<1>1. Session(s) /\ Shapes
  BY Basics
<1>2. Steady(s)'
  BY <1>1 DEF Session, Steady, Closes
<1>3. Called(s)' /\ Guarded(s)' /\ Retires(s)'
  BY DEF Called, Guarded, Retires, Closes
<1>4. Framed(s)'
  <2>1. \A n \in 1..MaxCalls : frames'[<<s, n>>] = "pending" =>
          State(s)' = "returning" /\ sess'[s].tools
    BY <1>1 DEF Session, Framed, Closes
  <2>2. items'[s] = <<>>
    BY <1>1 DEF Session, Framed, Closes
  <2>3. ~sess[s].tools => promise'[s] = NoPromise
    BY <1>1 DEF Session, Framed, Closes
  <2>4. sess[s].tools /\ Raced(s)' => promise'[s] # NoPromise
    BY <1>1 DEF Session, Framed, Closes
  <2>. QED
    BY <2>1, <2>2, <2>3, <2>4 DEF Framed, Closes
<1>5. Delivered(s)'
  <2>1. \A n \in 1..MaxCalls : ledger'[<<s, n>>] # "pending"
    BY Constants DEF Closes, L!Pending
  <2>2. s \notin revived
    BY <1>1 DEF Session, Steady, Closes
  <2>. QED
    BY <1>1, <2>1, <2>2 DEF Session, Delivered, Closes
<1>. QED
  BY <1>2, <1>3, <1>4, <1>5 DEF Session

(* The driver leaves a session that is closed, or being closed.            *)
Leaves(s) ==
  /\ State(s) \in {"returning", "closed"} /\ State(s)' = State(s)
  /\ Active(Owner(s)) /\ ~Raced(s)'
  /\ Owner(s)' = Owner(s) /\ sess'[s].tools = sess[s].tools
  /\ sess'[s].aborted = sess[s].aborted /\ sess'[s].parked = sess[s].parked
  /\ items'[s] = items[s] /\ (s \in revived' <=> s \in revived) /\ long' = long
  /\ promise'[s] \in {NoPromise, promise[s]}
  /\ \A n \in 1..MaxCalls :
       /\ <<s, n>> \in sessions' <=> <<s, n>> \in sessions
       /\ ledger'[<<s, n>>] = ledger[<<s, n>>]
       /\ frames'[<<s, n>>] = "result" <=> frames[<<s, n>>] = "result"
       /\ frames'[<<s, n>>] = "pending" => frames[<<s, n>>] = "pending"
  /\ At(s)' = s /\ At(Owner(s))' = s

LEMMA LeftSession ==
  ASSUME IInv, Shapes', NEW s \in Sessions, Leaves(s), Streamed(s)'
  PROVE  Session(s)'
<1>1. Session(s) /\ Shapes
  BY Basics
<1>2. Steady(s)'
  BY <1>1 DEF Session, Steady, Leaves
<1>3. \A n \in 1..MaxCalls : <<s, n>> \notin sessions \cup L!Pending
  BY <1>1 DEF Session, Called, Leaves
<1>4. \A n \in 1..MaxCalls : <<s, n>> \notin sessions' \cup (L!Pending)'
  BY <1>3, Constants DEF Leaves, L!Pending
<1>5. Called(s)' /\ Guarded(s)' /\ Retires(s)'
  BY <1>4 DEF Called, Guarded, Retires, Leaves
<1>6. Framed(s)'
  BY <1>1 DEF Session, Framed, Leaves
<1>7. Delivered(s)'
  <2>1. \A n \in 1..MaxCalls : ledger[<<s, n>>] # "pending"
    BY <1>3, Constants DEF L!Pending
  <2>. QED
    BY <1>1, <2>1 DEF Session, Delivered, Leaves
<1>. QED
  BY <1>2, <1>5, <1>6, <1>7 DEF Session

LEMMA SettledCalls ==
  ASSUME NEW S, NEW fate, L!SettleSome(S, fate)
  PROVE  \A c \in Calls : /\ c \in S => ledger'[c] = fate
                          /\ c \notin S => ledger'[c] = ledger[c]
                          /\ c \in S => ledger[c] = "pending"
<1>1. /\ ledger' = [c \in Calls |-> IF c \in S THEN fate ELSE ledger[c]]
      /\ \A c \in S : ledger[c] = "pending"
  BY DEF L!SettleSome, L!Pending
<1>. QED
  BY <1>1

LEMMA OpenCloses ==
  ASSUME IInv, NEW s \in Sessions, State(s) = "open",
         NEW rec \in Sess, rec.state = "open", rec.tools = sess[s].tools,
         rec.owner = Owner(s), rec.public = sess[s].public,
         NEW fate \in {"expired", "cancelled"}, Closing(s, rec, fate)
  PROVE  /\ State(s)' = (IF sess[s].tools THEN "returning" ELSE "closed")
         /\ Owner(s)' = Owner(s) /\ sess'[s].tools = sess[s].tools
         /\ sess'[s].aborted = (sess[s].tools \/ rec.aborted)
         /\ ~sess'[s].ttl /\ sess'[s].parked = 0
         /\ sess'[s].used = rec.used /\ sess'[s].seen = rec.seen
         /\ byRequest' = byRequest \ {Owner(s)}
         /\ \A n \in 1..MaxCalls :
              /\ <<s, n>> \notin sessions' \cup (L!Pending)'
              /\ ledger'[<<s, n>>] = "resolved" <=> ledger[<<s, n>>] = "resolved"
         /\ \A t \in Sessions : t # s =>
              /\ sess'[t] = sess[t]
              /\ \A n \in 1..MaxCalls : /\ <<t, n>> \in sessions' <=> <<t, n>> \in sessions
                                        /\ ledger'[<<t, n>>] = ledger[<<t, n>>]
<1>1. sess[s] \in Sess /\ Shapes /\ Session(s)
  BY Basics
<1>2. /\ sess' = [sess EXCEPT ![s] = Retired(rec)]
      /\ sessions' = sessions \ {<<s, sess[s].public>>}
      /\ byRequest' = byRequest \ {Owner(s)}
      /\ L!SettleSome(Scope(s), fate)
  BY DEF Closing
<1>3. sess'[s] = Retired(rec) /\ \A t \in Sessions : t # s => sess'[t] = sess[t]
  BY <1>1, <1>2, Sorts
<1>4. /\ State(s)' = (IF sess[s].tools THEN "returning" ELSE "closed")
      /\ Owner(s)' = Owner(s) /\ sess'[s].tools = sess[s].tools
      /\ sess'[s].aborted = (sess[s].tools \/ rec.aborted)
      /\ ~sess'[s].ttl /\ sess'[s].parked = 0
      /\ sess'[s].used = rec.used /\ sess'[s].seen = rec.seen
  <2>1. /\ Retired(rec).state = (IF rec.tools THEN "returning" ELSE "closed")
        /\ Retired(rec).owner = rec.owner /\ Retired(rec).parked = 0
    BY RetiredFields
  <2>2. /\ Retired(rec).tools = rec.tools /\ Retired(rec).used = rec.used
        /\ Retired(rec).seen = rec.seen /\ Retired(rec).ttl = FALSE
    BY RetiredFields
  <2>3. Retired(rec).aborted = (rec.tools \/ rec.aborted)
    BY RetiredFields
  <2>4. sess'[s].aborted = (sess[s].tools \/ rec.aborted)
    BY <1>3, <2>3, Zenon
  <2>. HIDE DEF Retired
  <2>. QED
    BY <1>3, <2>1, <2>2, <2>4 DEF State, Owner
<1>5. \A c \in Calls : /\ c \in Scope(s) => ledger'[c] = fate
                       /\ c \notin Scope(s) => ledger'[c] = ledger[c]
                       /\ c \in Scope(s) => ledger[c] = "pending"
  BY <1>2, SettledCalls
<1>6. ASSUME NEW n \in 1..MaxCalls
      PROVE  /\ <<s, n>> \notin sessions' \cup (L!Pending)'
             /\ ledger'[<<s, n>>] = "resolved" <=> ledger[<<s, n>>] = "resolved"
  <2>1. <<s, n>> \in Calls
    BY Constants
  <2>2. <<s, n>> \in sessions => sess[s].public = n
    BY <1>1 DEF Session, Called
  <2>3. <<s, n>> \in Scope(s) <=> ledger[<<s, n>>] = "pending"
    BY <2>1 DEF Scope, L!Pending
  <2>4. ledger'[<<s, n>>] # "pending"
    BY <1>5, <2>1, <2>3
  <2>. QED
    BY <1>2, <1>5, <2>1, <2>2, <2>3, <2>4 DEF L!Pending
<1>7. \A t \in Sessions : t # s =>
        \A n \in 1..MaxCalls : /\ <<t, n>> \in sessions' <=> <<t, n>> \in sessions
                               /\ ledger'[<<t, n>>] = ledger[<<t, n>>]
  <2>1. \A t \in Sessions, n \in 1..MaxCalls : t # s => <<t, n>> \in Calls \ Scope(s)
    BY Constants DEF Scope
  <2>. QED
    BY <1>2, <1>5, <2>1
<1>. QED
  BY <1>2, <1>3, <1>4, <1>6, <1>7

LEMMA ShedFrames ==
  ASSUME Shapes, NEW s \in Sessions, NEW rec, NEW extra, frames' = Shed(s, rec, extra)
  PROVE  \A t \in Sessions, n \in 1..MaxCalls :
           /\ t = s => /\ frames'[<<t, n>>] = "result" <=> frames[<<t, n>>] = "result"
                       /\ frames'[<<t, n>>] = "pending" => frames[<<t, n>>] = "pending"
           /\ t # s => frames'[<<t, n>>] = frames[<<t, n>>]
BY Constants DEF Shed

(* A session that is not open has nothing to close.                        *)
LEMMA ClosingNothing ==
  ASSUME NEW s \in Sessions, Shapes, NEW rec, rec.state # "open", NEW fate, Closing(s, rec, fate)
  PROVE  /\ sess'[s] = rec /\ UNCHANGED maps
         /\ \A t \in Sessions : t # s => sess'[t] = sess[t]
BY Sorts DEF Closing

LEMMA ClosingApart ==
  ASSUME IInv, NEW s \in Sessions, State(s) = "open",
         NEW rec \in Sess, rec.state = "open", rec.tools = sess[s].tools,
         rec.owner = Owner(s), rec.public = sess[s].public,
         NEW fate \in {"expired", "cancelled"}, Closing(s, rec, fate),
         UNCHANGED <<items, revived, long>>,
         \A t \in Sessions : t # s => /\ promise'[t] = promise[t] /\ sdk'[t] = sdk[t]
                                      /\ heard'[t] = heard[t],
         \A t \in Sessions, n \in 1..MaxCalls : t # s => frames'[<<t, n>>] = frames[<<t, n>>]
  PROVE  /\ \A t \in Sessions : t # s => Same(t)
         /\ \A r \in Requests : /\ r \in byRequest' => r \in byRequest
                                /\ r \in byRequest /\ At(r) # s => r \in byRequest'
<1>1. ASSUME NEW t \in Sessions, t # s PROVE Same(t)
  <2>1. /\ sess'[t] = sess[t]
        /\ \A n \in 1..MaxCalls : /\ <<t, n>> \in sessions' <=> <<t, n>> \in sessions
                                  /\ ledger'[<<t, n>>] = ledger[<<t, n>>]
    BY <1>1, OpenCloses
  <2>. QED
    BY <1>1, <2>1 DEF Same
<1>2. byRequest' = byRequest \ {Owner(s)} /\ At(Owner(s)) = s
  BY OpenCloses, Whereabouts
<1>. QED
  BY <1>1, <1>2

(* How a reply ends.                                                       *)
LEMMA EndedFields ==
  ASSUME Shapes, NEW r \in Requests, NEW end, out' = Ended(r, end)
  PROVE  /\ out'[r].end = (IF r \in gone THEN "silent" ELSE end)
         /\ out'[r].usage = out[r].usage
         /\ \A q \in Requests : q # r => out'[q] = out[q]
BY Sorts DEF Ended, OutRecs

LEMMA WentFields ==
  ASSUME Shapes, NEW r \in Requests, NEW pc, Goto(r, pc)
  PROVE  /\ run'[r].pc = pc /\ At(r)' = At(r)
         /\ \A q \in Requests : q # r => run'[q] = run[q]
BY Sorts DEF Goto, RunRecs, At

(* A reply that has ended: nothing is asked of its request any more.       *)
LEMMA DoneClient ==
  ASSUME NEW r \in Requests, run'[r].pc = "done", r \notin byRequest',
         At(r)' \in Sessions => State(At(r))' # "none",
         Complete(r)', Metered(r)'
  PROVE  Client(r)'
BY DEF Client, Steered, Active

(* Requests that begin.                                                    *)
LEMMA Idle ==
  ASSUME IInv, NEW r \in Requests, run[r].pc = "idle"
  PROVE  /\ Client(r) /\ At(r) = Nobody /\ r \notin gone /\ r \notin byRequest
         /\ out[r].end = "none" /\ out[r].usage = 0
         /\ \A s \in Sessions : State(s) # "none" => Owner(s) # r /\ s # r
         /\ r \in Sessions => State(r) = "none" /\ \A q \in Requests : At(q) # r
<1>1. Client(r) /\ Nobody \notin Sessions
  BY Constants DEF IInv
<1>2. /\ At(r) = Nobody /\ r \notin gone
      /\ out[r].end = "none" /\ out[r].usage = 0
  BY <1>1 DEF Client, Steered
<1>3. r \notin byRequest
  BY <1>1, <1>2 DEF Client, Steered
<1>4. \A s \in Sessions : State(s) # "none" => Owner(s) # r /\ s # r
  BY <1>1, <1>2, Whereabouts
<1>5. \A q \in Requests : r \in Sessions => At(q) # r
  BY <1>4 DEF IInv, Client, Steered
<1>. QED
  BY <1>1, <1>2, <1>3, <1>4, <1>5

-------------------------------------------------------------------------------
(* Every step keeps the invariant.  First the steps that are nobody's.     *)

(* What clients heard is not disturbed by a step that reads nothing.       *)
LEMMA StreamKept ==
  ASSUME NEW s \in Sessions, Session(s),
         heard'[s] = heard[s], sdk'[s] = sdk[s], sess'[s].seen = sess[s].seen,
         State(s)' \in {"none", "starting", "open"} \/ Raced(s)' =>
           State(s) \in {"none", "starting", "open"} \/ Raced(s),
         State(s)' \in {"none", "starting"} => State(s) \in {"none", "starting"}
  PROVE  Streamed(s)'
<1>1. PICK read \in 0..sdk[s].said : Unread(sdk[s], read) /\ Follows(s, read)
  BY DEF Session, Streamed
<1>2. Follows(s, read)'
  BY <1>1 DEF Follows
<1>. QED
  BY <1>1, <1>2 DEF Session, Streamed

(* Frames fall at a session, which may be on its way to closed.            *)
Fades(s) ==
  /\ State(s) \in {"open", "returning"}
  /\ \/ State(s)' = State(s)
     \/ /\ State(s) = "returning" /\ State(s)' = "closed"
        /\ \A n \in 1..MaxCalls : frames'[<<s, n>>] # "pending"
  /\ Owner(s)' = Owner(s) /\ sess'[s].tools = sess[s].tools
  /\ sess'[s].aborted = sess[s].aborted /\ sess'[s].gate = sess[s].gate
  /\ sess'[s].parked = sess[s].parked /\ sess'[s].public = sess[s].public
  /\ sess'[s].ttl = sess[s].ttl /\ sess'[s].seen = sess[s].seen
  /\ sess'[s].used = sess[s].used
  /\ \A n \in 1..MaxCalls :
       /\ frames'[<<s, n>>] = "result" <=> frames[<<s, n>>] = "result"
       /\ frames'[<<s, n>>] = "pending" => frames[<<s, n>>] = "pending"
  /\ UNCHANGED <<promise, items, run, sdk, heard, sessions, byRequest, ledger, revived, long>>

LEMMA FadedSession ==
  ASSUME IInv, Shapes', NEW s \in Sessions, Fades(s), Quiet, long \/ State(s) = "returning"
  PROVE  Session(s)'
<1>1. Session(s)
  BY Basics
<1>2. /\ Raced(s)' <=> Raced(s)
      /\ Active(Owner(s))' <=> Active(Owner(s))
      /\ (L!Pending)' = L!Pending
      /\ At(s)' = At(s) /\ At(Owner(s))' = At(Owner(s)) /\ run'[s] = run[s]
  BY DEF Fades, Raced, Active, L!Pending, At
<1>3. Steady(s)'
  BY <1>1, <1>2 DEF Session, Steady, Fades
<1>4. Called(s)'
  BY <1>1, <1>2 DEF Session, Called, Fades
<1>5. Guarded(s)' /\ Retires(s)'
  BY <1>1, <1>2 DEF Session, Guarded, Retires, Fades
<1>6. Framed(s)'
  <2>1. Raced(s) => promise[s] \notin 1..MaxCalls
    BY NothingWaits DEF Fades
  <2>. QED
    BY <1>1, <1>2, <2>1 DEF Session, Framed, Fades
<1>7. Delivered(s)'
  <2>1. CASE long
    BY <2>1 DEF Delivered, Fades
  <2>2. CASE ~long
    <3>1. \A n \in 1..MaxCalls : ledger[<<s, n>>] = "pending" => s \in revived
      BY <1>1, <2>2, Constants DEF Session, Called, L!Pending
    <3>. QED
      BY <1>1, <3>1 DEF Session, Delivered, Fades
  <2>. QED
    BY <2>1, <2>2
<1>8. Streamed(s)'
  <2>1. /\ heard'[s] = heard[s] /\ sdk'[s] = sdk[s] /\ sess'[s].seen = sess[s].seen
        /\ State(s)' \in {"none", "starting", "open"} => State(s)' = State(s)
        /\ State(s)' # "none" /\ State(s)' # "starting"
    BY DEF Fades
  <2>. QED
    BY <1>1, <1>2, <2>1, StreamKept
<1>. QED
  BY <1>3, <1>4, <1>5, <1>6, <1>7, <1>8 DEF Session

LEMMA FadedLift ==
  ASSUME IInv, Shapes', NEW s \in Sessions, Fades(s), Quiet, long \/ State(s) = "returning",
         UNCHANGED <<out, gone>>,
         \A t \in Sessions : t # s =>
           /\ sess'[t] = sess[t]
           /\ \A n \in 1..MaxCalls : frames'[<<t, n>>] = frames[<<t, n>>]
  PROVE  IInv'
<1>1. Session(s)'
  BY FadedSession
<1>2. Apart(s, Nobody)
  BY Constants DEF Apart, Same, Fades
<1>3. Lasting(s) /\ Nobodys(s) /\ State(s)' # "none"
  BY DEF Lasting, Nobodys, Fades, Closed, Raced
<1>. QED
  BY <1>1, <1>2, <1>3, NobodyLift

LEMMA KeepFrameExpires ==
  ASSUME IInv, NEW c \in Calls, FrameExpires(c)
  PROVE  IInv'
<1> DEFINE s == c[1]
<1>1. s \in Sessions /\ c[2] \in 1..MaxCalls /\ c = <<s, c[2]>> /\ frames[c] = "pending"
      /\ Quiet /\ long
  BY Constants DEF FrameExpires
<1>2. Shapes' /\ Session(s) /\ frames \in [Calls -> FrameStatuses]
  BY <1>1, Basics, ShapesFrameExpires, Sorts
<1>3. UNCHANGED <<promise, items, run, gone, out, heard, sess, sdk, sessions, byRequest,
                  ledger, revived, long>>
  BY DEF FrameExpires, EventFrame, maps, history
<1>4. frames' = [frames EXCEPT ![c] = "error"]
  BY <1>1 DEF FrameExpires, Answered
<1>5. State(s) \in {"open", "returning"}
  BY <1>1, <1>2 DEF Session, Framed
<1>6. \A t \in Sessions, n \in 1..MaxCalls :
        /\ t # s => frames'[<<t, n>>] = frames[<<t, n>>]
        /\ frames'[<<t, n>>] = "result" <=> frames[<<t, n>>] = "result"
        /\ frames'[<<t, n>>] = "pending" => frames[<<t, n>>] = "pending"
  BY <1>1, <1>2, <1>4, Constants
<1>7. Fades(s)
  BY <1>1, <1>3, <1>5, <1>6 DEF Fades, State, Owner
<1>. QED
  BY <1>1, <1>2, <1>3, <1>6, <1>7, FadedLift

LEMMA KeepReturned ==
  ASSUME IInv, NEW s \in Sessions, Returned(s)
  PROVE  IInv'
<1>1. Shapes' /\ Session(s) /\ sess \in [Sessions -> Sess] /\ sess[s] \in Sess
      /\ Quiet /\ State(s) = "returning"
  BY Basics, ShapesReturned, Sorts DEF Returned, State
<1>2. /\ UNCHANGED <<promise, items, run, gone, out, heard, sdk, sessions, byRequest,
                    ledger, revived, long>>
      /\ sess' = [sess EXCEPT ![s].state = "closed"] /\ frames' = Dropped(s)
  BY DEF Returned, EventFrame, maps, history
<1>3. \A t \in Sessions, n \in 1..MaxCalls :
        /\ t # s => frames'[<<t, n>>] = frames[<<t, n>>]
        /\ t = s => frames'[<<t, n>>] # "pending"
        /\ frames'[<<t, n>>] = "result" <=> frames[<<t, n>>] = "result"
  BY <1>2, Constants DEF Dropped
<1>4. sess'[s] = [sess[s] EXCEPT !.state = "closed"]
      /\ \A t \in Sessions : t # s => sess'[t] = sess[t]
  BY <1>1, <1>2
<1>5. /\ sess'[s].state = "closed" /\ sess'[s].owner = sess[s].owner
      /\ sess'[s].tools = sess[s].tools /\ sess'[s].aborted = sess[s].aborted
      /\ sess'[s].gate = sess[s].gate /\ sess'[s].parked = sess[s].parked
      /\ sess'[s].public = sess[s].public /\ sess'[s].ttl = sess[s].ttl
      /\ sess'[s].seen = sess[s].seen /\ sess'[s].used = sess[s].used
  BY <1>1, <1>4 DEF Sess
<1>6. Fades(s)
  BY <1>1, <1>2, <1>3, <1>5 DEF Fades, State, Owner
<1>. QED
  BY <1>1, <1>2, <1>3, <1>4, <1>6, FadedLift

(* A session is closed by a timer, or because a frame is lost.             *)
LEMMA KeepClosing ==
  ASSUME IInv, Shapes', NEW s \in Sessions, State(s) = "open", Quiet,
         NEW fate \in {"expired", "cancelled"}, Closing(s, sess[s], fate),
         UNCHANGED <<promise, items, long, run, sdk, gone, out, heard, revived>>,
         \A t \in Sessions, n \in 1..MaxCalls :
           /\ t = s => /\ frames'[<<t, n>>] = "result" <=> frames[<<t, n>>] = "result"
                       /\ frames'[<<t, n>>] = "pending" => frames[<<t, n>>] = "pending"
           /\ t # s => frames'[<<t, n>>] = frames[<<t, n>>]
  PROVE  IInv'
<1>1. Session(s) /\ sess[s] \in Sess
  BY Basics
<1>2. /\ State(s)' = (IF sess[s].tools THEN "returning" ELSE "closed")
      /\ Owner(s)' = Owner(s) /\ sess'[s].tools = sess[s].tools
      /\ sess'[s].aborted = (sess[s].tools \/ sess[s].aborted)
      /\ ~sess'[s].ttl /\ sess'[s].parked = 0
      /\ sess'[s].used = sess[s].used /\ sess'[s].seen = sess[s].seen
      /\ byRequest' = byRequest \ {Owner(s)}
      /\ \A n \in 1..MaxCalls :
           /\ <<s, n>> \notin sessions' \cup (L!Pending)'
           /\ ledger'[<<s, n>>] = "resolved" <=> ledger[<<s, n>>] = "resolved"
  BY <1>1, OpenCloses DEF State, Owner
<1>3. Apart(s, Nobody)
  <2>1. /\ \A t \in Sessions : t # s => Same(t)
        /\ \A r \in Requests : /\ r \in byRequest' => r \in byRequest
                               /\ r \in byRequest /\ At(r) # s => r \in byRequest'
    BY <1>1, ClosingApart DEF State, Owner
  <2>. QED
    BY <2>1, Constants DEF Apart
<1>4. Raced(s)' <=> Raced(s)
  BY <1>2 DEF Raced
<1>5. Closes(s)
  <2>1. Raced(s) => promise[s] \notin 1..MaxCalls
    BY NothingWaits
  <2>2. At(s)' = s /\ At(Owner(s))' = s
    BY <1>2, Whereabouts DEF At
  <2>3. s \notin revived
    BY <1>1 DEF Session, Steady
  <2>4. \A n \in 1..MaxCalls :
          /\ frames'[<<s, n>>] = "result" <=> frames[<<s, n>>] = "result"
          /\ frames'[<<s, n>>] = "pending" => frames[<<s, n>>] = "pending"
    OBVIOUS
  <2>. QED
    BY <1>2, <1>4, <2>1, <2>2, <2>3, <2>4 DEF Closes
<1>6. Streamed(s)'
  BY <1>1, <1>2, StreamKept
<1>7. Session(s)'
  BY <1>5, <1>6, ClosedSession
<1>8. Lasting(s) /\ Nobodys(s) /\ State(s)' # "none"
  <2>1. Nobodys(s) /\ State(s)' # "none"
    BY <1>2 DEF Nobodys
  <2>2. ~Closed(s)
    BY DEF Closed
  <2>. QED
    BY <1>2, <2>1, <2>2 DEF Lasting
<1>. QED
  BY <1>3, <1>7, <1>8, NobodyLift

LEMMA KeepLoseFrame ==
  ASSUME IInv, NEW c \in Calls, LoseFrame(c)
  PROVE  IInv'
<1>1. PICK s \in Sessions, n \in 1..MaxCalls : c = <<s, n>>
  BY Constants
<1>2. /\ Quiet /\ frames[<<s, n>>] = "pending" /\ Closing(s, sess[s], "cancelled")
      /\ frames' = [Shed(s, sess[s], 0) EXCEPT ![<<s, n>>] = "lost"]
      /\ UNCHANGED <<promise, items, long, run, sdk, gone, out, heard, revived>>
  BY <1>1 DEF LoseFrame, EventFrame, history
<1>3. Shapes' /\ Session(s) /\ Shapes
  BY Basics, ShapesLoseFrame
<1>4. \A t \in Sessions, k \in 1..MaxCalls :
        /\ t = s => /\ frames'[<<t, k>>] = "result" <=> frames[<<t, k>>] = "result"
                    /\ frames'[<<t, k>>] = "pending" => frames[<<t, k>>] = "pending"
        /\ t # s => frames'[<<t, k>>] = frames[<<t, k>>]
  BY <1>2, Constants DEF Shed
<1>5. State(s) \in {"open", "returning"}
  BY <1>2, <1>3 DEF Session, Framed
<1>6. CASE State(s) = "open"
  BY <1>2, <1>3, <1>4, <1>6, KeepClosing
<1>7. CASE State(s) = "returning"
  <2>1. sess'[s] = sess[s] /\ UNCHANGED maps
        /\ \A t \in Sessions : t # s => sess'[t] = sess[t]
    BY <1>2, <1>3, <1>7, ClosingNothing DEF State
  <2>2. Fades(s)
    BY <1>2, <1>4, <1>7, <2>1 DEF Fades, State, Owner, maps
  <2>. QED
    BY <1>2, <1>3, <1>4, <1>7, <2>1, <2>2, FadedLift
<1>. QED
  BY <1>5, <1>6, <1>7

LEMMA KeepDeadline ==
  ASSUME IInv, NEW s \in Sessions, Deadline(s)
  PROVE  IInv'
<1>1. /\ Shapes' /\ Shapes /\ Session(s) /\ sess[s] \in Sess /\ Quiet /\ sess[s].ttl
      /\ sess \in [Sessions -> Sess]
  BY Basics, ShapesDeadline, Sorts DEF Deadline
<1>2. UNCHANGED <<promise, items, long, run, sdk, gone, out, heard, revived>>
  BY DEF Deadline, EventFrame, history
<1>3. State(s) # "none"
  <2>1. State(s) = "none" => Fresh(s)
    BY <1>1 DEF Session, Steady
  <2>2. Fresh(s) => ~sess[s].ttl
    BY DEF Fresh
  <2>. QED
    BY <1>1, <2>1, <2>2
<1>4. CASE State(s) = "open"
  <2>1. Closing(s, sess[s], "expired") /\ frames' = Shed(s, sess[s], 0)
    BY <1>4 DEF Deadline, CloseSession, State
  <2>2. \A t \in Sessions, n \in 1..MaxCalls :
          /\ t = s => /\ frames'[<<t, n>>] = "result" <=> frames[<<t, n>>] = "result"
                      /\ frames'[<<t, n>>] = "pending" => frames[<<t, n>>] = "pending"
          /\ t # s => frames'[<<t, n>>] = frames[<<t, n>>]
    BY <1>1, <2>1, ShedFrames
  <2>. QED
    BY <1>1, <1>2, <1>4, <2>1, <2>2, KeepClosing
<1>5. CASE State(s) # "open"
  <2>1. /\ sess' = [sess EXCEPT ![s].ttl = FALSE] /\ L!SettleSome(Scope(s), "expired")
        /\ UNCHANGED <<sessions, byRequest, frames>>
    BY <1>5 DEF Deadline, State
  <2>2. sess'[s] = [sess[s] EXCEPT !.ttl = FALSE]
        /\ \A t \in Sessions : t # s => sess'[t] = sess[t]
    BY <1>1, <2>1
  <2>3. /\ sess'[s].state = sess[s].state /\ sess'[s].owner = sess[s].owner
        /\ sess'[s].tools = sess[s].tools /\ sess'[s].aborted = sess[s].aborted
        /\ sess'[s].gate = sess[s].gate /\ sess'[s].parked = sess[s].parked
        /\ sess'[s].public = sess[s].public /\ sess'[s].ttl = FALSE
        /\ sess'[s].seen = sess[s].seen /\ sess'[s].used = sess[s].used
    BY <1>1, <2>2 DEF Sess
  <2>4. \A c \in Calls : /\ c \in Scope(s) => ledger'[c] = "expired"
                         /\ c \notin Scope(s) => ledger'[c] = ledger[c]
                         /\ c \in Scope(s) => ledger[c] = "pending"
    BY <2>1, SettledCalls
  <2>5. \A t \in Sessions, n \in 1..MaxCalls : t # s => ledger'[<<t, n>>] = ledger[<<t, n>>]
    <3>1. \A t \in Sessions, n \in 1..MaxCalls : t # s => <<t, n>> \in Calls \ Scope(s)
      BY Constants DEF Scope
    <3>. QED
      BY <2>4, <3>1
  <2>6. \A n \in 1..MaxCalls : /\ ledger'[<<s, n>>] # "pending"
                               /\ ledger'[<<s, n>>] = "resolved" <=> ledger[<<s, n>>] = "resolved"
    <3>1. \A n \in 1..MaxCalls : <<s, n>> \in Calls
                                 /\ (<<s, n>> \in Scope(s) <=> ledger[<<s, n>>] = "pending")
      BY Constants DEF Scope, L!Pending
    <3>. QED
      BY <2>4, <3>1
  <2>7. State(s)' = State(s) /\ Owner(s)' = Owner(s) /\ (Raced(s)' <=> Raced(s))
        /\ (Active(Owner(s))' <=> Active(Owner(s))) /\ run'[s] = run[s]
        /\ At(s)' = At(s) /\ At(Owner(s))' = At(Owner(s))
    BY <1>2, <2>3 DEF State, Owner, Raced, Active, At
  <2>8. Session(s)'
    <3>1. Steady(s)'
      BY <1>1, <1>2, <1>3, <2>1, <2>3, <2>7 DEF Session, Steady
    <3>2. Called(s)'
      <4>1. ASSUME NEW n \in 1..MaxCalls, <<s, n>> \in sessions' \cup (L!Pending)'
            PROVE  <<s, n>> \in sessions
        BY <2>1, <2>6, <4>1 DEF L!Pending
      <4>. QED
        BY <1>1, <1>2, <2>3, <2>7, <4>1 DEF Session, Called
    <3>3. Guarded(s)' /\ Retires(s)'
      BY <1>5, <2>3, <2>7 DEF Guarded, Retires
    <3>4. Framed(s)'
      BY <1>1, <1>2, <2>1, <2>3, <2>7 DEF Session, Framed
    <3>5. Delivered(s)'
      BY <1>1, <1>2, <2>1, <2>6 DEF Session, Delivered
    <3>6. Streamed(s)'
      BY <1>1, <1>2, <2>3, <2>7, StreamKept
    <3>. QED
      BY <3>1, <3>2, <3>3, <3>4, <3>5, <3>6 DEF Session
  <2>9. Apart(s, Nobody)
    BY <1>2, <2>1, <2>2, <2>5, Constants DEF Apart, Same
  <2>10. Lasting(s) /\ Nobodys(s) /\ State(s)' # "none"
    BY <1>2, <1>3, <2>3, <2>7 DEF Lasting, Nobodys, Closed
  <2>. QED
    BY <1>1, <2>8, <2>9, <2>10, NobodyLift
<1>. QED
  BY <1>4, <1>5

LEMMA KeepReceiveCall ==
  ASSUME IInv, NEW s \in Sessions, ReceiveCall(s)
  PROVE  IInv'
<1>1. /\ Session(s) /\ Shapes /\ Shapes' /\ Quiet /\ State(s) \in {"open", "returning"}
      /\ sess[s].tools /\ MaxCalls \in Nat /\ sess[s].gate \in BOOLEAN
  BY Basics, Constants, ShapesReceiveCall, SessFields DEF ReceiveCall, State, Lasts
<1>2. UNCHANGED <<sess, sessions, byRequest, ledger, long, run, sdk, gone, out, heard, revived>>
  BY DEF ReceiveCall, maps, EventFrame, history
<1>3. PICK n \in 1..MaxCalls : Received(s, sess[s].gate, n)
  BY <1>1, Receives, Zenon DEF ReceiveCall
<1>4. frames \in [Calls -> FrameStatuses] /\ promise \in [Sessions -> 0..(MaxCalls + 1)]
      /\ items \in [Sessions -> Seq(1..MaxCalls)]
  BY <1>1, Sorts
<1>5. \A t \in Sessions, k \in 1..MaxCalls : <<t, k>> # <<s, n>> => frames'[<<t, k>>] = frames[<<t, k>>]
  BY <1>3, <1>4, Constants DEF Received
<1>6. \A t \in Sessions : t # s => promise'[t] = promise[t] /\ items'[t] = items[t]
  BY <1>3, <1>4 DEF Received
<1>7. Apart(s, Nobody)
  BY <1>2, <1>5, <1>6, Constants DEF Apart, Same
<1>8. UNCHANGED <<State(s), Owner(s), Raced(s), Active(Owner(s))>> /\ (L!Pending)' = L!Pending
      /\ At(s)' = At(s) /\ At(Owner(s))' = At(Owner(s))
  BY <1>2 DEF State, Owner, Raced, Active, L!Pending, At
<1>9. Raced(s) => promise[s] = Waiting
  <2>1. Raced(s) => promise[s] # NoPromise /\ promise[s] \notin 1..MaxCalls
    BY <1>1, NothingWaits DEF Session, Framed
  <2>2. promise[s] \in 0..(MaxCalls + 1) /\ MaxCalls \in Nat
    BY <1>1, <1>4
  <2>. QED
    BY <2>1, <2>2 DEF NoPromise, Waiting
<1>10. State(s) = "open" /\ ~sess[s].gate => Raced(s) /\ sess[s].parked = 0
  BY <1>1 DEF Session, Guarded, Framed
<1>11. Steady(s)' /\ Called(s)' /\ Retires(s)'
  <2>1. Steady(s)'
    BY <1>1, <1>2, <1>8 DEF Session, Steady
  <2>. QED
    BY <1>1, <1>2, <1>8, <2>1 DEF Session, Called, Retires
<1>12. Guarded(s)'
  <2>1. sess[s].gate => promise'[s] = promise[s]
    BY <1>3 DEF Received
  <2>. QED
    BY <1>1, <1>2, <1>8, <1>10, <2>1 DEF Session, Guarded
<1>13. Streamed(s)'
  BY <1>1, <1>2, <1>8, StreamKept
<1>14. frames'[<<s, n>>] # "result" /\ frames'[<<s, n>>] # "unsent"
  BY <1>3, <1>4, Constants DEF Received
<1>15. Delivered(s)'
  BY <1>1, <1>2, <1>3, <1>5, <1>14 DEF Received, Session, Delivered
<1>16. Framed(s)'
  <2>1. CASE frames' = [frames EXCEPT ![<<s, n>>] = "error"] /\ UNCHANGED <<promise, items>>
    <3>1. \A k \in 1..MaxCalls : frames'[<<s, k>>] = "pending" <=> frames[<<s, k>>] = "pending"
      BY <1>3, <1>4, <2>1, Constants DEF Received
    <3>. QED
      BY <1>1, <1>2, <1>8, <2>1, <3>1 DEF Session, Framed
  <2>2. CASE /\ frames' = [frames EXCEPT ![<<s, n>>] = "pending"] /\ ~sess[s].gate
             /\ promise[s] = Waiting /\ promise' = [promise EXCEPT ![s] = n]
             /\ UNCHANGED items
    <3>1. promise'[s] = n /\ n # NoPromise /\ Waiting \notin 1..MaxCalls
      BY <1>1, <1>4, <2>2 DEF NoPromise, Waiting
    <3>2. frames'[<<s, n>>] = "pending"
      BY <1>4, <2>2, Constants
    <3>3. State(s) = "open" => \A k \in 1..MaxCalls : frames'[<<s, k>>] = "pending" => k = n
      <4>1. ASSUME State(s) = "open", NEW k \in 1..MaxCalls, k # n
            PROVE  frames'[<<s, k>>] # "pending"
        <5>1. frames'[<<s, k>>] = frames[<<s, k>>]
          BY <1>5, <4>1
        <5>2. k # promise[s] /\ k # sess[s].parked
          BY <1>1, <1>10, <2>2, <3>1, <4>1
        <5>. QED
          BY <1>1, <4>1, <5>1, <5>2 DEF Session, Framed
      <4>. QED
        BY <4>1
    <3>. QED
      BY <1>1, <1>2, <1>8, <2>2, <3>1, <3>2, <3>3 DEF Session, Framed
  <2>3. CASE /\ frames' = [frames EXCEPT ![<<s, n>>] = "pending"] /\ ~sess[s].gate
             /\ promise[s] # Waiting /\ UNCHANGED promise
    <3>1. ~Raced(s) /\ State(s) = "returning"
      BY <1>1, <1>9, <1>10, <2>3
    <3>. QED
      BY <1>1, <1>2, <1>8, <2>3, <3>1 DEF Session, Framed
  <2>. QED
    BY <1>3, <2>1, <2>2, <2>3 DEF Received
<1>17. Session(s)'
  BY <1>11, <1>12, <1>13, <1>15, <1>16 DEF Session
<1>18. Lasting(s) /\ Nobodys(s) /\ State(s)' # "none"
  BY <1>1, <1>2, <1>8 DEF Lasting, Nobodys, Closed
<1>. QED
  BY <1>1, <1>7, <1>17, <1>18, NobodyLift

(* What a query produces comes after all that it has said.                 *)
LEMMA KeepSdk ==
  ASSUME IInv, NEW s \in Sessions, Sdk(s)
  PROVE  IInv'
<1>1. /\ Session(s) /\ Shapes /\ Shapes' /\ sdk[s] \in SdkRecs /\ sdk[s].said \in Nat
      /\ sdk[s].unread \in Seq((Texts \cup Closers) \X Nat)
  BY Basics, ShapesSdk
<1>2. /\ sdk[s].on /\ Lasts(s)
      /\ UNCHANGED <<frames, promise, items, long, others, run, sess, maps, gone, history>>
      /\ \/ /\ sdk'[s].said = sdk[s].said + 1 /\ sdk'[s].on = sdk[s].on
            /\ sdk'[s].unread = Append(sdk[s].unread, Said(sdk[s].partial, sdk[s].said + 1))
         \/ /\ sdk'[s].said = sdk[s].said /\ ~sdk'[s].on
            /\ \E how \in Closers : sdk'[s].unread = Append(sdk[s].unread, <<how, 0>>)
      /\ sdk'[s].partial = sdk[s].partial
      /\ \A t \in Sessions : t # s => sdk'[t] = sdk[t]
  BY <1>1, SdkSteps
<1>3. State(s) \in {"open", "returning"}
  BY <1>2 DEF Lasts, State
<1>4. UNCHANGED <<State(s), Owner(s), Raced(s), Active(Owner(s))>> /\ (L!Pending)' = L!Pending
      /\ At(s)' = At(s) /\ At(Owner(s))' = At(Owner(s))
  BY <1>2 DEF State, Owner, Raced, Active, L!Pending, At, maps
<1>5. Steady(s)' /\ Called(s)' /\ Guarded(s)' /\ Retires(s)' /\ Framed(s)' /\ Delivered(s)'
  <2>1. Steady(s)'
    BY <1>1, <1>2, <1>3, <1>4 DEF Session, Steady, history, maps
  <2>2. Called(s)' /\ Guarded(s)' /\ Retires(s)'
    BY <1>1, <1>2, <1>4 DEF Session, Called, Guarded, Retires, history, maps
  <2>3. Framed(s)' /\ Delivered(s)'
    BY <1>1, <1>2, <1>4 DEF Session, Framed, Delivered, history, maps
  <2>. QED
    BY <2>1, <2>2, <2>3
<1>6. Streamed(s)'
  <2>1. PICK read \in 0..sdk[s].said : Unread(sdk[s], read) /\ Follows(s, read)
    BY <1>1 DEF Session, Streamed
  <2> DEFINE u == sdk[s].unread
             k == sdk[s].said - read
             p == sdk[s].partial
  <2>2. Len(u) = k /\ k \in Nat /\ read \in Nat /\ \A i \in 1..k : u[i] = Said(p, read + i)
    <3>1. Unread(sdk[s], read) /\ sdk[s].on
      BY <1>1, <1>2, <2>1, Zenon
    <3>2. Len(u) = k /\ \A i \in 1..k : u[i] = Said(p, read + i)
      BY <3>1, Zenon DEF Unread
    <3>3. k \in Nat /\ read \in Nat
      BY <1>1, <2>1
    <3>. QED
      BY <3>2, <3>3, Zenon
  <2>3. heard'[s] = heard[s] /\ sess'[s] = sess[s] /\ sdk'[s].partial = p
    BY <1>2 DEF history
  <2>4. Unread(sdk'[s], read) /\ read \in 0..sdk'[s].said
    <3>1. CASE /\ sdk'[s].said = sdk[s].said + 1
               /\ sdk'[s].unread = Append(u, Said(p, sdk[s].said + 1))
      <4> DEFINE last == Said(p, sdk[s].said + 1)
                 v == Append(u, last)
      <4>1. /\ Len(v) = k + 1 /\ \A i \in 1..k : v[i] = u[i]
            /\ v[k + 1] = last /\ read + (k + 1) = sdk[s].said + 1
            /\ (sdk[s].said + 1) - read = k + 1
        <5>1. last \in (Texts \cup Closers) \X Nat
          BY <1>1, SaidShape
        <5>2. read + (k + 1) = sdk[s].said + 1 /\ (sdk[s].said + 1) - read = k + 1
          BY <1>1
        <5> HIDE DEF last, k, u
        <5>3. u \in Seq((Texts \cup Closers) \X Nat)
          BY <1>1 DEF u
        <5>4. Len(v) = Len(u) + 1 /\ (\A i \in 1..Len(u) : v[i] = u[i]) /\ v[Len(u) + 1] = last
          BY <5>1, <5>3, AppendProperties
        <5>5. Len(v) = k + 1 /\ (\A i \in 1..k : v[i] = u[i]) /\ v[k + 1] = last
          BY <2>2, <5>4
        <5> HIDE DEF v
        <5>. QED
          BY <5>2, <5>5
      <4> HIDE DEF v
      <4>2. ASSUME NEW i \in 1..(k + 1) PROVE v[i] = Said(p, read + i)
        <5>1. i \in 1..k \/ i = k + 1
          BY <2>2
        <5>2. i = k + 1 => read + i = sdk[s].said + 1
          BY <4>1
        <5>. HIDE DEF k, p
        <5>. QED
          BY <2>2, <4>1, <5>1, <5>2 DEF p
      <4>3. read \in 0..(sdk[s].said + 1)
        BY <1>1
      <4>. QED
        BY <2>3, <3>1, <4>1, <4>2, <4>3 DEF Unread, v
    <3>2. CASE /\ sdk'[s].said = sdk[s].said /\ ~sdk'[s].on
               /\ \E how \in Closers : sdk'[s].unread = Append(u, <<how, 0>>)
      <4>1. PICK how \in Closers : sdk'[s].unread = Append(u, <<how, 0>>)
        BY <3>2
      <4> DEFINE v == Append(u, <<how, 0>>)
      <4>2. /\ Len(v) = k + 1 /\ \A i \in 1..k : v[i] = u[i]
            /\ v[k + 1] = <<how, 0>>
        BY <1>1, <2>2, SMTT(30)
      <4> HIDE DEF v
      <4>3. v[k + 1][1] \in Closers
        BY <4>2
      <4>. QED
        BY <2>2, <2>3, <3>2, <4>1, <4>2, <4>3 DEF Unread, v
    <3>. QED
      BY <1>2, <3>1, <3>2
  <2>5. Follows(s, read)'
    BY <1>4, <2>1, <2>3 DEF Follows
  <2>6. heard'[s] = [i \in 1..Len(heard'[s]) |-> i]
    BY <1>1, <2>3 DEF Session, Streamed
  <2>. QED
    BY <1>3, <1>4, <2>4, <2>5, <2>6 DEF Streamed
<1>7. Session(s)'
  BY <1>5, <1>6 DEF Session
<1>8. Apart(s, Nobody)
  BY <1>2, Constants DEF Apart, Same, maps, history
<1>9. Lasting(s) /\ Nobodys(s) /\ State(s)' # "none"
  BY <1>2, <1>3, <1>4 DEF Lasting, Nobodys, Closed, history
<1>. QED
  BY <1>1, <1>7, <1>8, <1>9, NobodyLift

(* A step that changes nothing the invariant looks at.                     *)
LEMMA KeepNothing ==
  ASSUME IInv,
         UNCHANGED <<frames, promise, items, long, run, sess, maps, sdk, gone, history>>
  PROVE  IInv'
<1>1. Shapes'
  BY DEF IInv, Shapes, maps, history
<1>2. ASSUME NEW s \in Sessions PROVE Session(s)'
  <2>1. Same(s) /\ Session(s)
    BY <1>2 DEF IInv, Same, maps, history
  <2>. QED
    BY <1>1, <2>1, Unmoved DEF IInv, maps
<1>3. ASSUME NEW r \in Requests PROVE Client(r)'
  <2>1. Client(r) /\ At(r)' = At(r) /\ run' = run /\ sess' = sess /\ out' = out
        /\ gone' = gone /\ byRequest' = byRequest /\ heard' = heard /\ sdk' = sdk
    BY <1>3 DEF IInv, At, maps, history
  <2>2. Steered(r)'
    BY <2>1 DEF Client, Steered, State, Owner, Active
  <2>3. Complete(r)' /\ Metered(r)'
    BY <2>1 DEF Client, Complete, Metered, Closed, State, Owner, Raced, At
  <2>. QED
    BY <2>2, <2>3 DEF Client
<1>. QED
  BY <1>1, <1>2, <1>3 DEF IInv

-------------------------------------------------------------------------------
(* Then the steps of requests: usage is told by one of them only.          *)
LEMMA MeteredKept ==
  ASSUME IInv, NEW s \in Sessions, NEW r \in Requests, Apart(s, r), At(r) = s, At(r)' = s,
         out'[r].usage = out[r].usage, sess[s].used => sess'[s].used
  PROVE  Metered(r)'
<1>1. Metered(r)
  BY DEF IInv, Client
<1>2. \A q \in Requests : q # r => At(q)' = At(q) /\ out'[q] = out[q]
  BY DEF Apart, At
<1>. QED
  BY <1>1, <1>2 DEF Metered

LEMMA MeteredOnce ==
  ASSUME IInv, NEW s \in Sessions, NEW r \in Requests, Apart(s, r), At(r) = s, At(r)' = s,
         out'[r].usage = out[r].usage + 1, ~sess[s].used, sess'[s].used
  PROVE  Metered(r)'
<1>1. \A q \in Requests : Metered(q) /\ out[q].usage \in Nat
  BY Sorts DEF IInv, Client, OutRecs
<1>2. \A q \in Requests : At(q) = s => out[q].usage = 0
  BY <1>1 DEF Metered
<1>3. \A q \in Requests : q # r => At(q)' = At(q) /\ out'[q] = out[q]
  BY DEF Apart, At
<1>. QED
  BY <1>2, <1>3 DEF Metered

LEMMA KeepUnmatched ==
  ASSUME IInv, NEW r \in Requests, ContinueUnmatched(r)
  PROVE  IInv'
<1>1. PICK s0 : s0 \notin Sessions \cup {Nobody}
  BY NoSetContainsEverything
<1>2. Shapes /\ run[r].pc = "idle" /\ Goto(r, "done") /\ out' = Ended(r, "error") /\ Shapes'
  BY ShapesUnmatched DEF ContinueUnmatched, Arrives, IInv
<1>3. UNCHANGED <<frames, promise, items, long, sess, maps, sdk, gone, heard, revived>>
  BY DEF ContinueUnmatched, channelVars
<1>4. At(r) = Nobody /\ r \notin gone /\ r \notin byRequest /\ out[r].usage = 0
  BY <1>2, Idle
<1>5. /\ run'[r].pc = "done" /\ At(r)' = Nobody /\ out'[r].end = "error" /\ out'[r].usage = 0
      /\ \A q \in Requests : q # r => run'[q] = run[q] /\ out'[q] = out[q]
  BY <1>2, <1>4, EndedFields, WentFields
<1>6. Apart(s0, r)
  BY <1>3, <1>4, <1>5 DEF Apart, Same, maps
<1>7. Client(r)'
  <2>1. Complete(r)' /\ Metered(r)'
    BY <1>5 DEF Complete, Metered
  <2>. QED
    BY <1>3, <1>4, <1>5, <2>1, Constants, DoneClient DEF maps
<1>8. \A q \in Requests : At(q) # s0
  BY <1>1, <1>2, Sorts DEF RunRecs, At
<1>. QED
  BY <1>1, <1>2, <1>6, <1>7, <1>8, Lift

LEMMA OpenedFields ==
  ASSUME NEW rec \in Sess, NEW tools \in BOOLEAN, NEW state
  PROVE  LET new == [rec EXCEPT !.tools = tools, !.state = state] IN
         /\ new.state = state /\ new.tools = tools /\ new.owner = rec.owner
         /\ new.aborted = rec.aborted /\ new.ttl = rec.ttl /\ new.parked = rec.parked
         /\ new.seen = rec.seen /\ new.used = rec.used
BY DEF Sess

LEMMA NothingYet ==
  ASSUME IInv, NEW s \in Sessions, State(s) \in {"none", "starting"}
  PROVE  /\ \A n \in 1..MaxCalls : /\ <<s, n>> \notin sessions \cup L!Pending
                                   /\ frames[<<s, n>>] # "pending" /\ ledger[<<s, n>>] # "pending"
         /\ items[s] = <<>> /\ promise[s] = NoPromise /\ sess[s].parked = 0
         /\ sdk[s].said = 0 /\ sdk[s].unread = <<>> /\ ~sdk[s].on
         /\ heard[s] = <<>> /\ ~sess[s].seen /\ s \notin revived
         /\ ~sess[s].tools => State(s) = "none"
<1>1. Session(s) /\ heard[s] \in Seq(Nat) /\ sess[s] \in Sess
  BY Basics
<1>2. \A n \in 1..MaxCalls : <<s, n>> \notin sessions \cup L!Pending /\ frames[<<s, n>>] # "pending"
  BY <1>1 DEF Session, Called, Framed
<1>3. \A n \in 1..MaxCalls : ledger[<<s, n>>] # "pending"
  BY <1>2, Constants DEF L!Pending
<1>4. items[s] = <<>> /\ promise[s] = NoPromise /\ sess[s].parked = 0
  BY <1>1 DEF Session, Framed
<1>5. sdk[s].said = 0 /\ sdk[s].unread = <<>> /\ ~sdk[s].on
  BY <1>1 DEF Session, Streamed
<1>6. heard[s] = <<>> /\ ~sess[s].seen
  <2>1. PICK read \in 0..sdk[s].said : Follows(s, read)
    BY <1>1 DEF Session, Streamed
  <2>2. read = 0
    BY <1>5, <2>1
  <2>3. Len(heard[s]) = Begun(sdk[s].partial, 0) /\ ~sess[s].seen
    BY <2>1, <2>2 DEF Follows
  <2>4. Begun(sdk[s].partial, 0) = 0
    BY DEF Begun
  <2>. QED
    BY <1>1, <2>3, <2>4
<1>7. s \notin revived /\ (~sess[s].tools => State(s) = "none")
  BY <1>1 DEF Session, Steady, Fresh
<1>. QED
  BY <1>2, <1>3, <1>4, <1>5, <1>6, <1>7

LEMMA NothingHeard ==
  ASSUME NEW s \in Sessions, heard'[s] = <<>>, ~sess'[s].seen,
         sdk'[s].said = 0, sdk'[s].unread = <<>>,
         State(s)' \in {"none", "starting"} => ~sdk'[s].on
  PROVE  Streamed(s)'
<1>1. heard'[s] = [i \in 1..Len(heard'[s]) |-> i]
  BY EmptySeq
<1>2. 0 \in 0..sdk'[s].said /\ Unread(sdk'[s], 0)
  BY DEF Unread
<1>3. Follows(s, 0)'
  <2>1. Begun(sdk'[s].partial, 0) = 0 /\ Len(heard'[s]) = 0
    BY DEF Begun
  <2>. QED
    BY <2>1 DEF Follows
<1>. QED
  BY <1>1, <1>2, <1>3 DEF Streamed

LEMMA KeepOpen ==
  ASSUME IInv, NEW r \in Requests, NEW tools \in BOOLEAN, NEW partial \in BOOLEAN,
         Open(r, tools, partial)
  PROVE  IInv'
<1>1. r \in Sessions /\ run[r].pc = "idle" /\ Shapes /\ Shapes'
  BY ShapesOpen DEF Open, Arrives, IInv
<1>2. /\ run' = [run EXCEPT ![r] = [pc |-> IF tools THEN "listening" ELSE "race", at |-> r]]
      /\ sess' = [sess EXCEPT ![r].tools = tools,
                              ![r].state = IF tools THEN "starting" ELSE "open"]
      /\ sdk' = [sdk EXCEPT ![r].on = ~tools, ![r].partial = partial]
      /\ UNCHANGED <<frames, promise, items, long, sessions, byRequest, ledger, gone, out,
                     heard, revived>>
  BY DEF Open, channelVars, maps, history
<1>3. /\ At(r) = Nobody /\ r \notin gone /\ r \notin byRequest /\ State(r) = "none"
      /\ out[r].end = "none" /\ out[r].usage = 0 /\ \A q \in Requests : At(q) # r
  BY <1>1, Idle
<1>4. Session(r) /\ Fresh(r) /\ sess[r] \in Sess /\ sdk[r] \in SdkRecs
  BY <1>1, <1>3, Basics DEF Session, Steady
<1>5. /\ sess[r].owner = r /\ ~sess[r].aborted /\ ~sess[r].ttl /\ sess[r].parked = 0
      /\ ~sess[r].seen /\ ~sess[r].used
  BY <1>4 DEF Fresh
<1>6. /\ run'[r].pc = (IF tools THEN "listening" ELSE "race") /\ At(r)' = r
      /\ \A q \in Requests : q # r => run'[q] = run[q]
  BY <1>1, <1>2, Sorts DEF At
<1>7. /\ sess'[r] = [sess[r] EXCEPT !.tools = tools, !.state = IF tools THEN "starting" ELSE "open"]
      /\ \A t \in Sessions : t # r => sess'[t] = sess[t]
  BY <1>1, <1>2, Sorts
<1>8. /\ State(r)' = (IF tools THEN "starting" ELSE "open") /\ Owner(r)' = r
      /\ sess'[r].tools = tools /\ ~sess'[r].aborted /\ ~sess'[r].ttl
      /\ sess'[r].parked = 0 /\ ~sess'[r].seen /\ ~sess'[r].used
  BY <1>4, <1>5, <1>7, OpenedFields DEF State, Owner
<1>9. /\ sdk'[r].on = ~tools /\ sdk'[r].said = sdk[r].said /\ sdk'[r].unread = sdk[r].unread
      /\ \A t \in Sessions : t # r => sdk'[t] = sdk[t]
  <2>1. sdk'[r] = [sdk[r] EXCEPT !.on = ~tools, !.partial = partial]
        /\ \A t \in Sessions : t # r => sdk'[t] = sdk[t]
    BY <1>1, <1>2, Sorts
  <2>. QED
    BY <1>4, <2>1 DEF SdkRecs
<1>10. /\ \A n \in 1..MaxCalls : /\ <<r, n>> \notin sessions \cup L!Pending
                                 /\ frames[<<r, n>>] # "pending" /\ ledger[<<r, n>>] # "pending"
       /\ items[r] = <<>> /\ promise[r] = NoPromise
       /\ sdk[r].said = 0 /\ sdk[r].unread = <<>> /\ heard[r] = <<>> /\ r \notin revived
  BY <1>1, <1>3, NothingYet
<1>11. (L!Pending)' = L!Pending
  BY <1>2 DEF L!Pending
<1>12. (Raced(r)' <=> ~tools) /\ (Active(r))'
  BY <1>6, <1>8 DEF Raced, Active
<1>13. Session(r)'
  <2>1. Steady(r)'
    BY <1>2, <1>6, <1>8, <1>10, <1>12 DEF Steady
  <2>2. Called(r)' /\ Guarded(r)' /\ Retires(r)'
    BY <1>2, <1>8, <1>10, <1>11, <1>12 DEF Called, Guarded, Retires
  <2>3. Framed(r)'
    BY <1>2, <1>8, <1>10, <1>12 DEF Framed, NoPromise
  <2>4. Delivered(r)'
    BY <1>2, <1>4, <1>10 DEF Session, Delivered
  <2>5. Streamed(r)'
    BY <1>1, <1>2, <1>8, <1>9, <1>10, NothingHeard
  <2>. QED
    BY <2>1, <2>2, <2>3, <2>4, <2>5 DEF Session
<1>14. Apart(r, r)
  BY <1>2, <1>3, <1>6, <1>7, <1>9 DEF Apart, Same
<1>15. Client(r)'
  BY <1>1, <1>2, <1>3, <1>6, <1>8 DEF Client, Steered, Complete, Metered, Active
<1>16. Lasting(r) /\ Paying(r, r) /\ Alone(r, r)
  BY <1>2, <1>3, <1>5 DEF Lasting, Paying, Alone, Closed
<1>. QED
  BY <1>1, <1>8, <1>13, <1>14, <1>15, <1>16, DriverLift

LEMMA KeepStartFails ==
  ASSUME IInv, NEW r \in Requests, NEW left \in {"closed", "leaked"}, StartFails(r, left)
  PROVE  IInv'
<1>1. /\ run[r].pc = "listening" /\ sess' = [sess EXCEPT ![r].state = left]
      /\ Goto(r, "done") /\ out' = Ended(r, "error")
      /\ UNCHANGED <<frames, promise, items, long, sessions, byRequest, ledger, gone, sdk,
                     heard, revived>>
  BY DEF StartFails, channelVars, maps
<1>2. /\ At(r) = r /\ r \in Sessions /\ State(r) = "starting" /\ Owner(r) = r
      /\ Client(r) /\ r \notin byRequest
  BY <1>1 DEF IInv, Client, Steered, Active
<1>3. Session(r) /\ Shapes /\ sess[r] \in Sess /\ sess \in [Sessions -> Sess] /\ Shapes'
  BY <1>2, Basics, Sorts, ShapesStartFails
<1>4. /\ sess'[r] = [sess[r] EXCEPT !.state = left]
      /\ \A t \in Sessions : t # r => sess'[t] = sess[t]
  BY <1>1, <1>2, <1>3
<1>5. /\ sess'[r].state = left /\ sess'[r].owner = sess[r].owner
      /\ sess'[r].tools = sess[r].tools /\ sess'[r].aborted = sess[r].aborted
      /\ sess'[r].ttl = sess[r].ttl /\ sess'[r].parked = sess[r].parked
      /\ sess'[r].seen = sess[r].seen /\ sess'[r].used = sess[r].used
  BY <1>3, <1>4 DEF Sess
<1>6. State(r)' = left /\ Owner(r)' = r
  BY <1>2, <1>5 DEF State, Owner
<1>7. /\ run'[r].pc = "done" /\ At(r)' = r
      /\ \A q \in Requests : q # r => run'[q] = run[q]
      /\ out'[r].end # "completed" /\ out'[r].usage = out[r].usage
      /\ \A q \in Requests : q # r => out'[q] = out[q]
  BY <1>1, <1>2, <1>3, WentFields, EndedFields
<1>8. /\ \A n \in 1..MaxCalls : /\ <<r, n>> \notin sessions \cup L!Pending
                                /\ frames[<<r, n>>] # "pending" /\ ledger[<<r, n>>] # "pending"
      /\ items[r] = <<>> /\ promise[r] = NoPromise
  BY <1>2, NothingYet
<1>9. (L!Pending)' = L!Pending /\ ~Raced(r)'
  BY <1>1, <1>6, <1>7 DEF L!Pending, Raced
<1>10. Session(r)'
  <2>1. Steady(r)'
    BY <1>3, <1>5, <1>6, <1>7, <1>9, <1>2 DEF Session, Steady
  <2>2. Called(r)' /\ Guarded(r)' /\ Retires(r)'
    BY <1>1, <1>6, <1>8, <1>9 DEF Called, Guarded, Retires
  <2>3. Framed(r)'
    BY <1>1, <1>6, <1>8, <1>9 DEF Framed
  <2>4. Delivered(r)'
    BY <1>1, <1>3, <1>8 DEF Session, Delivered
  <2>5. Streamed(r)'
    BY <1>1, <1>2, <1>3, <1>5, <1>6, <1>9, StreamKept
  <2>. QED
    BY <2>1, <2>2, <2>3, <2>4, <2>5 DEF Session
<1>11. Apart(r, r)
  BY <1>1, <1>2, <1>4, <1>7 DEF Apart, Same
<1>12. Client(r)'
  <2>1. Metered(r)'
    BY <1>2, <1>5, <1>7, <1>11, MeteredKept
  <2>2. Complete(r)'
    BY <1>7 DEF Complete
  <2>. QED
    BY <1>1, <1>2, <1>6, <1>7, <2>1, <2>2, DoneClient
<1>13. Lasting(r) /\ Paying(r, r) /\ Alone(r, r)
  <2>1. Alone(r, r)
    BY <1>2, <1>11, DriverAlone
  <2>. QED
    BY <1>2, <1>5, <1>7, <2>1 DEF Lasting, Paying, Closed
<1>. QED
  BY <1>2, <1>3, <1>6, <1>10, <1>11, <1>12, <1>13, DriverLift

LEMMA KeepStart ==
  ASSUME IInv, NEW r \in Requests, Start(r)
  PROVE  IInv'
<1>1. /\ run[r].pc = "listening" /\ sdk' = [sdk EXCEPT ![r].on = TRUE]
      /\ UNCHANGED <<long, sessions, ledger, gone, heard, revived, frames>>
  BY DEF Start, channelVars
<1>2. /\ At(r) = r /\ r \in Sessions /\ State(r) = "starting" /\ Owner(r) = r
      /\ Client(r) /\ r \notin byRequest
  BY <1>1 DEF IInv, Client, Steered, Active
<1>3. /\ Session(r) /\ Shapes /\ sess[r] \in Sess /\ sess \in [Sessions -> Sess] /\ Shapes'
      /\ sdk \in [Sessions -> SdkRecs] /\ sdk[r] \in SdkRecs
  BY <1>2, Basics, Sorts, ShapesStart
<1>4. /\ \A n \in 1..MaxCalls : /\ <<r, n>> \notin sessions \cup L!Pending
                                /\ frames[<<r, n>>] # "pending" /\ ledger[<<r, n>>] # "pending"
      /\ items[r] = <<>> /\ promise[r] = NoPromise /\ sess[r].parked = 0
      /\ sdk[r].said = 0 /\ sdk[r].unread = <<>> /\ heard[r] = <<>> /\ ~sess[r].seen
      /\ sess[r].tools /\ r \notin revived
  BY <1>2, NothingYet
<1>5. /\ sdk'[r].said = 0 /\ sdk'[r].unread = <<>>
      /\ \A t \in Sessions : t # r => sdk'[t] = sdk[t]
  <2>1. sdk'[r] = [sdk[r] EXCEPT !.on = TRUE] /\ \A t \in Sessions : t # r => sdk'[t] = sdk[t]
    BY <1>1, <1>2, <1>3
  <2>. QED
    BY <1>3, <1>4, <2>1 DEF SdkRecs
<1>6. (L!Pending)' = L!Pending /\ out[r].end # "completed"
  <2>1. out[r].end # "completed"
    BY <1>2 DEF Client, Complete, Closed
  <2>. QED
    BY <1>1, <2>1 DEF L!Pending
<1>7. ~sess[r].ttl
  BY <1>2, <1>3 DEF Session, Steady
<1>8. CASE sess[r].aborted
  <2>1. /\ sess' = [sess EXCEPT ![r] = Retired(@)]
        /\ Goto(r, "done") /\ out' = Ended(r, "silent")
        /\ UNCHANGED <<byRequest, promise, items>>
    BY <1>8 DEF Start, channelVars
  <2>2. sess'[r] = Retired(sess[r]) /\ \A t \in Sessions : t # r => sess'[t] = sess[t]
    BY <1>2, <1>3, <2>1
  <2>3. /\ State(r)' = "returning" /\ Owner(r)' = r /\ sess'[r].tools /\ sess'[r].aborted
        /\ ~sess'[r].ttl /\ sess'[r].parked = 0 /\ sess'[r].used = sess[r].used
        /\ ~sess'[r].seen
    <3>1. /\ Retired(sess[r]).state = (IF sess[r].tools THEN "returning" ELSE "closed")
          /\ Retired(sess[r]).owner = sess[r].owner /\ Retired(sess[r]).parked = 0
      BY <1>3, RetiredFields
    <3>2. /\ Retired(sess[r]).tools = sess[r].tools /\ Retired(sess[r]).used = sess[r].used
          /\ Retired(sess[r]).ttl = FALSE /\ Retired(sess[r]).seen = sess[r].seen
      BY <1>3, RetiredFields
    <3>3. Retired(sess[r]).aborted
      BY <1>3, <1>8, RetiredFields, Zenon
    <3>. HIDE DEF Retired
    <3>. QED
      BY <1>2, <1>4, <2>2, <3>1, <3>2, <3>3 DEF State, Owner
  <2>4. /\ run'[r].pc = "done" /\ At(r)' = r
        /\ \A q \in Requests : q # r => run'[q] = run[q]
        /\ out'[r].end # "completed" /\ out'[r].usage = out[r].usage
        /\ \A q \in Requests : q # r => out'[q] = out[q]
    BY <1>2, <1>3, <2>1, WentFields, EndedFields
  <2>5. ~Raced(r)'
    BY <2>3, <2>4 DEF Raced
  <2>6. Session(r)'
    <3>1. Steady(r)'
      BY <2>3, <2>4, <2>5 DEF Steady
    <3>2. Called(r)' /\ Guarded(r)' /\ Retires(r)'
      BY <1>1, <1>4, <1>6, <2>3 DEF Called, Guarded, Retires
    <3>3. Framed(r)'
      BY <1>1, <1>4, <2>1, <2>3, <2>5 DEF Framed
    <3>4. Delivered(r)'
      BY <1>1, <1>3, <1>4 DEF Session, Delivered
    <3>5. Streamed(r)'
      BY <1>1, <1>2, <1>4, <1>5, <2>3, NothingHeard
    <3>. QED
      BY <3>1, <3>2, <3>3, <3>4, <3>5 DEF Session
  <2>7. Apart(r, r)
    BY <1>1, <1>2, <1>5, <2>1, <2>2, <2>4 DEF Apart, Same
  <2>8. Client(r)'
    <3>1. Metered(r)'
      BY <1>2, <2>3, <2>4, <2>7, MeteredKept
    <3>2. Complete(r)'
      BY <2>4 DEF Complete
    <3>. QED
      BY <1>2, <2>1, <2>3, <2>4, <3>1, <3>2, DoneClient
  <2>9. Lasting(r) /\ Paying(r, r) /\ Alone(r, r)
    <3>1. Alone(r, r)
      BY <1>2, <2>7, DriverAlone
    <3>. QED
      BY <1>2, <2>3, <2>4, <3>1 DEF Lasting, Paying, Closed
  <2>. QED
    BY <1>2, <1>3, <2>3, <2>6, <2>7, <2>8, <2>9, DriverLift
<1>9. CASE ~sess[r].aborted
  <2>1. /\ sess' = [sess EXCEPT ![r].state = "open"]
        /\ byRequest' = byRequest \cup {r} /\ Ask(r) /\ Goto(r, "race") /\ UNCHANGED out
    BY <1>9 DEF Start
  <2>2. sess'[r] = [sess[r] EXCEPT !.state = "open"] /\ \A t \in Sessions : t # r => sess'[t] = sess[t]
    BY <1>2, <1>3, <2>1
  <2>3. /\ State(r)' = "open" /\ Owner(r)' = r /\ sess'[r].tools /\ ~sess'[r].aborted
        /\ sess'[r].ttl = sess[r].ttl /\ sess'[r].parked = 0 /\ sess'[r].used = sess[r].used
        /\ ~sess'[r].seen
    BY <1>2, <1>3, <1>4, <1>9, <2>2 DEF State, Owner, Sess
  <2>4. /\ run'[r].pc = "race" /\ At(r)' = r
        /\ \A q \in Requests : q # r => run'[q] = run[q]
    BY <1>2, <1>3, <2>1, WentFields
  <2>5. /\ promise'[r] = Waiting /\ items' = items
        /\ \A t \in Sessions : t # r => promise'[t] = promise[t]
    <3>1. promise \in [Sessions -> 0..(MaxCalls + 1)]
      BY <1>3, Sorts
    <3>2. promise' = [promise EXCEPT ![r] = Waiting] /\ items' = items
      BY <1>4, <2>1 DEF Ask
    <3>. QED
      BY <1>2, <3>1, <3>2
  <2>6. Raced(r)' /\ Waiting # NoPromise /\ Waiting \notin 1..MaxCalls
    BY <2>3, <2>4, Constants DEF Raced, Waiting, NoPromise
  <2>8. Session(r)'
    <3>1. Steady(r)'
      BY <1>1, <1>4, <2>1, <2>3, <2>4 DEF Steady
    <3>2. Called(r)' /\ Guarded(r)' /\ Retires(r)'
      BY <1>1, <1>4, <1>6, <1>7, <2>3, <2>6 DEF Called, Guarded, Retires
    <3>3. Framed(r)'
      BY <1>1, <1>4, <2>3, <2>5, <2>6 DEF Framed
    <3>4. Delivered(r)'
      BY <1>1, <1>3, <1>4 DEF Session, Delivered
    <3>5. Streamed(r)'
      BY <1>1, <1>2, <1>4, <1>5, <2>3, NothingHeard
    <3>. QED
      BY <3>1, <3>2, <3>3, <3>4, <3>5 DEF Session
  <2>9. Apart(r, r)
    BY <1>1, <1>2, <1>5, <2>1, <2>2, <2>4, <2>5 DEF Apart, Same
  <2>10. Client(r)'
    <3>1. Metered(r)'
      BY <1>2, <2>1, <2>3, <2>4, <2>9, MeteredKept
    <3>2. Complete(r)'
      BY <1>6, <2>1 DEF Complete
    <3>3. Steered(r)'
      BY <1>2, <2>3, <2>4 DEF Steered
    <3>. QED
      BY <3>1, <3>2, <3>3 DEF Client
  <2>11. Lasting(r) /\ Paying(r, r) /\ Alone(r, r)
    <3>1. Alone(r, r)
      BY <1>2, <2>9, DriverAlone
    <3>. QED
      BY <1>2, <2>1, <2>3, <3>1 DEF Lasting, Paying, Closed
  <2>. QED
    BY <1>2, <1>3, <2>3, <2>8, <2>9, <2>10, <2>11, DriverLift
<1>. QED
  BY <1>8, <1>9

(* An error that waited for its session to be closed.                      *)
LEMMA KeepEndFailed ==
  ASSUME IInv, NEW r \in Requests, EndFailed(r)
  PROVE  IInv'
<1>1. /\ run[r].pc \in {"failed", "refused"} /\ sess[At(r)].state = "closed" /\ Goto(r, "done")
      /\ UNCHANGED <<frames, promise, items, long, sess, maps, sdk, gone, heard, revived>>
      /\ \E end \in {"silent", "error"} : out' = Ended(r, end)
  BY DEF EndFailed, Awaited, PumpFrame, ErrorEnd
<1>2. PICK s \in Sessions : s = At(r) /\ Owner(s) = r /\ State(s) = "closed" /\ Client(r)
  BY <1>1, Drivers DEF Active, State
<1>3. Session(s) /\ Shapes /\ Shapes'
  BY <1>1, Basics, ShapesEndFailed
<1>4. /\ run'[r].pc = "done" /\ At(r)' = s
      /\ \A q \in Requests : q # r => run'[q] = run[q]
      /\ out'[r].end # "completed" /\ out'[r].usage = out[r].usage
      /\ \A q \in Requests : q # r => out'[q] = out[q]
  <2>1. PICK end \in {"silent", "error"} : out' = Ended(r, end)
    BY <1>1
  <2>. QED
    BY <1>1, <1>2, <1>3, <2>1, WentFields, EndedFields
<1>5. Apart(s, r)
  BY <1>1, <1>2, <1>4 DEF Apart, Same, maps
<1>6. UNCHANGED <<State(s), Owner(s)>> /\ ~Raced(s)'
  BY <1>1, <1>2, <1>4 DEF State, Owner, Raced
<1>7. At(s) = s /\ At(s)' = s
  <2>1. At(s) = s
    BY <1>2, Whereabouts
  <2>2. CASE s = r
    BY <1>2, <1>4, <2>1, <2>2
  <2>3. CASE s # r
    BY <1>4, <2>1, <2>3, Constants DEF At
  <2>. QED
    BY <2>1, <2>2, <2>3
<1>8. Leaves(s)
  <2>1. Active(Owner(s))
    BY <1>1, <1>2 DEF Active
  <2>2. At(Owner(s))' = s
    BY <1>2, <1>4, <1>6
  <2>. QED
    BY <1>1, <1>2, <1>6, <1>7, <2>1, <2>2 DEF Leaves, maps
<1>9. Streamed(s)'
  BY <1>1, <1>2, <1>3, <1>6, StreamKept
<1>10. Session(s)'
  BY <1>3, <1>8, <1>9, LeftSession
<1>11. r \notin byRequest'
  BY <1>1, <1>2 DEF Client, Steered, maps
<1>12. Client(r)'
  <2>1. Metered(r)'
    BY <1>1, <1>2, <1>4, <1>5, MeteredKept
  <2>2. Complete(r)'
    BY <1>4 DEF Complete
  <2>3. At(r)' \in Sessions => State(At(r))' # "none"
    BY <1>2, <1>4, <1>6 DEF State
  <2>. QED
    BY <1>4, <1>11, <2>1, <2>2, <2>3, DoneClient
<1>13. Lasting(s) /\ Paying(s, r) /\ Alone(s, r)
  <2>1. Alone(s, r)
    BY <1>2, <1>5, DriverAlone
  <2>2. ~Raced(s)
    BY <1>1, <1>2 DEF Raced
  <2>. QED
    BY <1>1, <1>2, <1>4, <1>6, <2>1 DEF Lasting, Paying, Closed
<1>. QED
  BY <1>2, <1>3, <1>6, <1>10, <1>12, <1>5, <1>13, DriverLift

(* The client of a session's driver hangs up.                              *)
LEMMA AbortedFields ==
  ASSUME NEW old \in Sess
  PROVE  LET rec == [old EXCEPT !.aborted = TRUE] IN
         /\ rec \in Sess /\ rec.state = old.state /\ rec.tools = old.tools
         /\ rec.aborted = TRUE /\ rec.gate = old.gate /\ rec.parked = old.parked
         /\ rec.public = old.public /\ rec.owner = old.owner /\ rec.ttl = old.ttl
         /\ rec.seen = old.seen /\ rec.used = old.used
BY DEF Sess

LEMMA KeepHangUp ==
  ASSUME IInv, NEW r \in Requests, HangUp(r)
  PROVE  IInv'
<1>1. /\ Quiet /\ run[r].pc \in {"listening", "race", "failed", "refused"}
      /\ gone' = gone \cup {r}
      /\ UNCHANGED <<promise, items, long, run, sdk, out, heard, revived>>
  BY DEF HangUp, history
<1>2. PICK s \in Sessions : s = At(r) /\ Owner(s) = r /\ State(s) # "none" /\ Client(r)
  BY <1>1, Drivers DEF Active
<1> DEFINE rec == IF s = r THEN [sess[s] EXCEPT !.aborted = TRUE] ELSE sess[s]
<1>3. Session(s) /\ Shapes /\ Shapes' /\ sess[s] \in Sess /\ sess \in [Sessions -> Sess]
  BY <1>2, Basics, Sorts, ShapesHangUp
<1>4. IF r \in byRequest THEN CloseSession(s, rec, 0, "cancelled")
      ELSE sess' = [sess EXCEPT ![s] = rec] /\ UNCHANGED <<maps, frames>>
  BY <1>2 DEF HangUp
<1>5. /\ rec \in Sess /\ rec.state = State(s) /\ rec.tools = sess[s].tools
      /\ rec.gate = sess[s].gate /\ rec.parked = sess[s].parked
      /\ rec.public = sess[s].public /\ rec.owner = Owner(s) /\ rec.ttl = sess[s].ttl
      /\ rec.seen = sess[s].seen /\ rec.used = sess[s].used
      /\ sess[s].aborted => rec.aborted
  BY <1>3, AbortedFields DEF State, Owner
<1> HIDE DEF rec
<1>6. At(s)' = s /\ At(r)' = s /\ At(s) = s
  BY <1>1, <1>2, Whereabouts DEF At
<1>7. Active(r)
  BY <1>1 DEF Active
<1>8. CASE r \in byRequest
  <2>1. State(s) = "open" /\ sess[s].tools
    BY <1>2, <1>8 DEF Client, Steered
  <2>2. Closing(s, rec, "cancelled") /\ frames' = Shed(s, rec, 0)
    BY <1>4, <1>8 DEF CloseSession
  <2>3. /\ State(s)' = "returning" /\ Owner(s)' = Owner(s) /\ sess'[s].tools = sess[s].tools
        /\ sess'[s].aborted /\ ~sess'[s].ttl /\ sess'[s].parked = 0
        /\ sess'[s].used = sess[s].used /\ sess'[s].seen = sess[s].seen
        /\ byRequest' = byRequest \ {Owner(s)}
        /\ \A n \in 1..MaxCalls :
             /\ <<s, n>> \notin sessions' \cup (L!Pending)'
             /\ ledger'[<<s, n>>] = "resolved" <=> ledger[<<s, n>>] = "resolved"
    <3>1. rec.state = "open" /\ rec.tools = sess[s].tools /\ rec.owner = Owner(s)
          /\ rec.public = sess[s].public /\ rec \in Sess /\ rec.used = sess[s].used
          /\ rec.seen = sess[s].seen
      BY <1>5, <2>1
    <3>2. sess'[s].aborted = (sess[s].tools \/ rec.aborted)
      BY <2>1, <2>2, <3>1, OpenCloses
    <3>3. sess'[s].aborted
      BY <2>1, <3>2, Zenon
    <3>. QED
      BY <2>1, <2>2, <3>1, <3>3, OpenCloses, ZenonT(60)
  <2>4. \A t \in Sessions, n \in 1..MaxCalls :
           /\ t = s => /\ frames'[<<t, n>>] = "result" <=> frames[<<t, n>>] = "result"
                       /\ frames'[<<t, n>>] = "pending" => frames[<<t, n>>] = "pending"
           /\ t # s => frames'[<<t, n>>] = frames[<<t, n>>]
    BY <1>3, <2>2, ShedFrames
  <2>5. Apart(s, r)
    <3>1. /\ \A t \in Sessions : t # s => Same(t)
          /\ \A q \in Requests : /\ q \in byRequest' => q \in byRequest
                                 /\ q \in byRequest /\ At(q) # s => q \in byRequest'
      BY <1>1, <1>5, <2>1, <2>2, <2>4, ClosingApart
    <3>. QED
      BY <1>1, <1>2, <1>6, <3>1 DEF Apart
  <2>6. Raced(s)' <=> Raced(s)
    BY <1>1, <2>3 DEF Raced
  <2>7. Closes(s)
    <3>1. Raced(s) => promise[s] \notin 1..MaxCalls
      BY <1>1, <1>2, NothingWaits
    <3>2. s \notin revived
      BY <1>3, <2>1 DEF Session, Steady
    <3>3. At(Owner(s))' = s
      BY <1>2, <1>6, <2>3
    <3>4. \A n \in 1..MaxCalls :
            /\ frames'[<<s, n>>] = "result" <=> frames[<<s, n>>] = "result"
            /\ frames'[<<s, n>>] = "pending" => frames[<<s, n>>] = "pending"
      BY <2>4
    <3>. QED
      BY <1>1, <1>6, <2>1, <2>3, <2>6, <3>1, <3>2, <3>3, <3>4 DEF Closes
  <2>8. Streamed(s)'
    BY <1>1, <1>3, <2>1, <2>3, <2>6, StreamKept
  <2>9. Session(s)'
    BY <1>3, <2>7, <2>8, ClosedSession
  <2>10. Client(r)'
    <3>1. Metered(r)'
      BY <1>1, <1>2, <1>6, <2>3, <2>5, MeteredKept
    <3>2. Complete(r)'
      BY <1>1, <1>2, <2>1 DEF Client, Complete, Closed
    <3>3. run[r].pc # "idle" /\ run[r].pc # "listening" /\ r \notin byRequest'
      BY <1>1, <1>2, <2>1, <2>3 DEF Client, Steered
    <3>4. Steered(r)'
      BY <1>1, <1>2, <1>6, <2>1, <2>3, <3>3 DEF Steered, State, Owner
    <3>. QED
      BY <3>1, <3>2, <3>4 DEF Client
  <2>11. Lasting(s) /\ Paying(s, r) /\ Alone(s, r)
    <3>1. Alone(s, r)
      BY <1>2, <2>5, DriverAlone
    <3>. QED
      BY <1>1, <1>2, <2>1, <2>3, <3>1 DEF Lasting, Paying, Closed
  <2>. QED
    BY <1>3, <2>3, <2>5, <2>9, <2>10, <2>11, DriverLift
<1>9. CASE r \notin byRequest
  <2>1. sess' = [sess EXCEPT ![s] = rec] /\ UNCHANGED <<maps, frames>>
    BY <1>4, <1>9
  <2>2. sess'[s] = rec /\ \A t \in Sessions : t # s => sess'[t] = sess[t]
    BY <1>3, <2>1
  <2>3. /\ State(s)' = State(s) /\ Owner(s)' = Owner(s) /\ sess'[s].tools = sess[s].tools
        /\ sess'[s].gate = sess[s].gate /\ sess'[s].parked = sess[s].parked
        /\ sess'[s].public = sess[s].public /\ sess'[s].ttl = sess[s].ttl
        /\ sess'[s].seen = sess[s].seen /\ sess'[s].used = sess[s].used
        /\ (sess[s].aborted => sess'[s].aborted)
    BY <1>5, <2>2 DEF State, Owner
  <2>4. /\ Raced(s)' <=> Raced(s)
        /\ Active(Owner(s))' /\ Active(Owner(s))
        /\ (L!Pending)' = L!Pending
    BY <1>1, <1>2, <1>7, <2>1, <2>3 DEF Raced, Active, L!Pending, maps
  <2>5. State(s) = "open" => ~sess[s].tools
    <3>1. State(s) = "open" => Raced(s)
      BY <1>1, <1>2 DEF Client, Steered, Raced
    <3>. QED
      BY <1>2, <1>3, <1>9, <3>1 DEF Session, Steady
  <2>6. \A n \in 1..MaxCalls : <<s, n>> \notin sessions \cup L!Pending
    BY <1>3, <2>4 DEF Session, Called
  <2>7. Session(s)'
    <3>1. Steady(s)'
      <4>1. At(Owner(s))' = s /\ run' = run
        BY <1>1, <1>2, <1>6, <2>3
      <4>. QED
        BY <1>1, <1>2, <1>3, <1>6, <2>3, <2>4, <2>5, <4>1 DEF Session, Steady
    <3>2. Called(s)'
      BY <2>1, <2>4, <2>6 DEF Called, maps
    <3>3. Guarded(s)' /\ Retires(s)'
      BY <1>1, <1>3, <2>1, <2>3, <2>4 DEF Session, Guarded, Retires, maps
    <3>4. Framed(s)' /\ Delivered(s)'
      BY <1>1, <1>3, <2>1, <2>3, <2>4 DEF Session, Framed, Delivered, maps
    <3>5. Streamed(s)'
      BY <1>1, <1>3, <2>3, <2>4, StreamKept
    <3>. QED
      BY <3>1, <3>2, <3>3, <3>4, <3>5 DEF Session
  <2>8. Apart(s, r)
    BY <1>1, <1>2, <1>6, <2>1, <2>2 DEF Apart, Same, maps
  <2>9. Client(r)'
    <3>1. Metered(r)'
      BY <1>1, <1>2, <1>6, <2>3, <2>8, MeteredKept
    <3>2. Complete(r)'
      BY <1>1, <1>2, <1>6, <2>3, <2>4 DEF Client, Complete, Closed, State, Raced, Owner
    <3>3. Steered(r)'
      <4>1. run'[r].pc # "idle" /\ run' = run /\ byRequest' = byRequest /\ r \notin byRequest
        BY <1>1, <1>9, <2>1 DEF maps
      <4>2. State(At(r))' = State(s) /\ Owner(At(r))' = r /\ sess'[At(r)'].tools = sess[s].tools
        BY <1>2, <1>6, <2>3 DEF State, Owner
      <4>3. run[r].pc = "listening" => r = s
        BY <1>2 DEF Client, Steered
      <4>. QED
        BY <1>2, <1>6, <4>1, <4>2, <4>3 DEF Client, Steered, State
    <3>. QED
      BY <3>1, <3>2, <3>3 DEF Client
  <2>10. Lasting(s) /\ Paying(s, r) /\ Alone(s, r)
    <3>1. Alone(s, r)
      BY <1>2, <2>8, DriverAlone
    <3>. QED
      BY <1>1, <1>2, <2>3, <2>4, <3>1 DEF Lasting, Paying, Closed
  <2>. QED
    BY <1>2, <1>3, <2>3, <2>7, <2>8, <2>9, <2>10, DriverLift
<1>. QED
  BY <1>8, <1>9

(* The pump of a session: it reads on, or closes the session and leaves.   *)
LEMMA Pumping ==
  ASSUME IInv, NEW r \in Requests, Drives(r)
  PROVE  \E s \in Sessions :
           /\ s = At(r) /\ Owner(s) = r /\ Raced(s) /\ Client(r) /\ Session(s) /\ Shapes
           /\ State(s) \in {"open", "returning", "closed"}
           /\ At(s) = s /\ sess[s] \in Sess /\ out[r].end # "completed"
           /\ \A n \in 1..MaxCalls : <<s, n>> \notin sessions \cup L!Pending
<1>1. PICK s \in Sessions : s = At(r) /\ Owner(s) = r /\ State(s) # "none" /\ Client(r) /\ Raced(s)
  BY Drivers DEF Active, Drives
<1>2. Session(s) /\ Shapes /\ sess[s] \in Sess /\ At(s) = s
  BY <1>1, Basics, Whereabouts
<1>3. State(s) \in {"open", "returning", "closed"}
  BY <1>1 DEF Client, Steered, Drives
<1>4. out[r].end # "completed"
  BY <1>1 DEF Client, Complete
<1>5. \A n \in 1..MaxCalls : <<s, n>> \notin sessions \cup L!Pending
  BY <1>1, <1>2 DEF Session, Called, Active, Raced
<1>. QED
  BY <1>1, <1>2, <1>3, <1>4, <1>5

Alike(rec, old) ==
  /\ rec.state = old.state /\ rec.tools = old.tools /\ rec.aborted = old.aborted
  /\ rec.gate = old.gate /\ rec.parked = old.parked /\ rec.public = old.public
  /\ rec.owner = old.owner /\ rec.ttl = old.ttl /\ (old.used => rec.used)

LEMMA DriverCloses ==
  ASSUME IInv, Shapes', NEW r \in Requests, Drives(r), NEW s \in Sessions, s = At(r),
         NEW rec \in Sess, Alike(rec, sess[s]), NEW extra,
         CloseSession(s, rec, extra, "cancelled"),
         NEW pc \in {"done", "failed", "refused"}, Goto(r, pc),
         UNCHANGED <<items, long, gone, revived>>,
         promise'[s] \in {NoPromise, promise[s]},
         heard'[s] = [i \in 1..Len(heard'[s]) |-> i],
         \E read \in 0..sdk'[s].said : Unread(sdk'[s], read),
         \A t \in Sessions : t # s => /\ promise'[t] = promise[t] /\ sdk'[t] = sdk[t]
                                      /\ heard'[t] = heard[t],
         \A q \in Requests : q # r => out'[q] = out[q],
         pc # "done" => State(s) = "open" /\ sess[s].tools,
         out'[r].end = "completed" =>
           ~sdk'[s].on /\ Len(heard'[s]) = Begun(sdk'[s].partial, sdk'[s].said),
         \/ out'[r].usage = out[r].usage
         \/ out'[r].usage = out[r].usage + 1 /\ ~sess[s].used /\ rec.used
  PROVE  IInv'
<1>1. /\ Owner(s) = r /\ Raced(s) /\ Client(r) /\ Session(s) /\ Shapes
      /\ State(s) \in {"open", "returning", "closed"} /\ At(s) = s /\ sess[s] \in Sess
      /\ \A n \in 1..MaxCalls : <<s, n>> \notin sessions \cup L!Pending
  BY Pumping
<1>2. /\ run'[r].pc = pc /\ At(r)' = s
      /\ \A q \in Requests : q # r => run'[q] = run[q]
  BY <1>1, WentFields
<1>3. At(s)' = s
  <2>1. CASE s = r
    BY <1>2, <2>1
  <2>2. CASE s # r
    BY <1>1, <1>2, <2>2, Constants DEF At
  <2>. QED
    BY <2>1, <2>2
<1>4. Closing(s, rec, "cancelled") /\ frames' = Shed(s, rec, extra)
  BY DEF CloseSession
<1>5. \A t \in Sessions, n \in 1..MaxCalls :
           /\ t = s => /\ frames'[<<t, n>>] = "result" <=> frames[<<t, n>>] = "result"
                       /\ frames'[<<t, n>>] = "pending" => frames[<<t, n>>] = "pending"
           /\ t # s => frames'[<<t, n>>] = frames[<<t, n>>]
  BY <1>1, <1>4, ShedFrames
<1>6. /\ Session(s)' /\ Owner(s)' = r /\ State(s)' \in {"returning", "closed"}
      /\ sess'[s].used = rec.used /\ sess'[s].tools = sess[s].tools /\ r \notin byRequest'
      /\ \A t \in Sessions : t # s => Same(t)
      /\ \A q \in Requests : /\ q \in byRequest' => q \in byRequest
                             /\ q \in byRequest /\ At(q) # s => q \in byRequest'
  <2>1. CASE State(s) = "open"
    <3>1. /\ rec.state = "open" /\ rec.tools = sess[s].tools /\ rec.owner = Owner(s)
          /\ rec.public = sess[s].public /\ rec.aborted = sess[s].aborted
      BY <2>1 DEF Alike, State, Owner
    <3>2. /\ State(s)' = (IF sess[s].tools THEN "returning" ELSE "closed")
          /\ Owner(s)' = Owner(s) /\ sess'[s].tools = sess[s].tools
          /\ sess'[s].aborted = (sess[s].tools \/ rec.aborted)
          /\ ~sess'[s].ttl /\ sess'[s].parked = 0
          /\ sess'[s].used = rec.used
          /\ byRequest' = byRequest \ {Owner(s)}
          /\ \A n \in 1..MaxCalls :
               /\ <<s, n>> \notin sessions' \cup (L!Pending)'
               /\ ledger'[<<s, n>>] = "resolved" <=> ledger[<<s, n>>] = "resolved"
      BY <1>4, <2>1, <3>1, OpenCloses
    <3>3. /\ \A t \in Sessions : t # s => Same(t)
          /\ \A q \in Requests : /\ q \in byRequest' => q \in byRequest
                                 /\ q \in byRequest /\ At(q) # s => q \in byRequest'
      BY <1>4, <1>5, <2>1, <3>1, ClosingApart
    <3>4. ~Raced(s)'
      BY <1>1, <1>2, <3>2 DEF Raced
    <3>5. Closes(s)
      <4>1. s \notin revived
        BY <1>1, <2>1 DEF Session, Steady
      <4>2. sess[s].tools => sess'[s].aborted
        <5>1. sess'[s].aborted = (sess[s].tools \/ rec.aborted)
          BY <3>2
        <5>. QED
          BY <5>1, Zenon
      <4>3. At(Owner(s))' = s
        BY <1>1, <1>2, <3>2
      <4>4. \A n \in 1..MaxCalls :
              /\ frames'[<<s, n>>] = "result" <=> frames[<<s, n>>] = "result"
              /\ frames'[<<s, n>>] = "pending" => frames[<<s, n>>] = "pending"
        BY <1>5
      <4>. QED
        BY <1>3, <2>1, <3>2, <3>4, <4>1, <4>2, <4>3, <4>4 DEF Closes
    <3>6. Session(s)'
      <4>1. Streamed(s)'
        BY <2>1, <3>2, <3>4 DEF Streamed, Follows
      <4>. QED
        BY <3>5, <4>1, ClosedSession
    <3>. QED
      BY <1>1, <3>2, <3>3, <3>6
  <2>2. CASE State(s) # "open"
    <3>1. rec.state # "open" /\ rec.state = State(s)
      BY <2>2 DEF Alike, State
    <3>2. sess'[s] = rec /\ UNCHANGED maps /\ \A t \in Sessions : t # s => sess'[t] = sess[t]
      BY <1>1, <1>4, <3>1, ClosingNothing
    <3>3. /\ State(s)' = State(s) /\ Owner(s)' = Owner(s) /\ sess'[s].tools = sess[s].tools
          /\ sess'[s].aborted = sess[s].aborted /\ sess'[s].parked = sess[s].parked
      BY <3>1, <3>2 DEF Alike, State, Owner
    <3>4. ~Raced(s)'
      BY <1>1, <1>2, <3>3 DEF Raced
    <3>5. Leaves(s)
      <4>1. Active(Owner(s))
        BY <1>1 DEF Raced, Active
      <4>2. At(Owner(s))' = s
        BY <1>1, <1>2, <3>3
      <4>3. \A n \in 1..MaxCalls :
              /\ frames'[<<s, n>>] = "result" <=> frames[<<s, n>>] = "result"
              /\ frames'[<<s, n>>] = "pending" => frames[<<s, n>>] = "pending"
        BY <1>5
      <4>. QED
        BY <1>1, <1>3, <2>2, <3>2, <3>3, <3>4, <4>1, <4>2, <4>3 DEF Leaves, maps
    <3>6. Session(s)'
      <4>1. Streamed(s)'
        BY <1>1, <2>2, <3>3, <3>4 DEF Streamed, Follows
      <4>. QED
        BY <3>5, <4>1, LeftSession
    <3>7. r \notin byRequest
      BY <1>1, <2>2 DEF Client, Steered
    <3>8. \A t \in Sessions : t # s => Same(t)
      BY <1>5, <3>2 DEF Same, maps
    <3>. QED
      BY <1>1, <2>2, <3>2, <3>3, <3>6, <3>7, <3>8 DEF maps
  <2>. QED
    BY <2>1, <2>2
<1>7. Apart(s, r)
  BY <1>1, <1>2, <1>6 DEF Apart
<1>8. ~Raced(s)'
  BY <1>2, <1>6 DEF Raced
<1>9. Client(r)'
  <2>1. Metered(r)'
    <3>1. CASE out'[r].usage = out[r].usage
      <4>1. sess[s].used => sess'[s].used
        BY <1>6 DEF Alike
      <4>. QED
        BY <1>1, <1>2, <1>7, <3>1, <4>1, MeteredKept
    <3>2. CASE out'[r].usage = out[r].usage + 1 /\ ~sess[s].used /\ rec.used
      BY <1>1, <1>2, <1>6, <1>7, <3>2, MeteredOnce
    <3>. QED
      BY <3>1, <3>2
  <2>2. Complete(r)'
    BY <1>2, <1>6, <1>8 DEF Complete, Closed, State, Raced, Owner
  <2>3. State(At(r))' = State(s)' /\ Owner(At(r))' = r /\ sess'[At(r)'].tools = sess[s].tools
    BY <1>2, <1>6 DEF State, Owner
  <2>4. Steered(r)'
    <3>1. pc # "done" => State(s)' \in {"returning", "closed"} /\ sess[s].tools
      BY <1>6
    <3>2. run'[r].pc \notin {"idle", "listening", "race"}
      BY <1>2
    <3>. QED
      BY <1>2, <1>6, <2>3, <3>1, <3>2 DEF Steered, Active
  <2>. QED
    BY <2>1, <2>2, <2>4 DEF Client
<1>10. Lasting(s) /\ Paying(s, r) /\ Alone(s, r) /\ State(s)' # "none"
  <2>1. Alone(s, r)
    BY <1>1, <1>7, DriverAlone
  <2>2. Lasting(s)
    BY <1>1, <1>6 DEF Lasting, Alike
  <2>. QED
    BY <1>6, <2>1, <2>2 DEF Paying
<1>. QED
  BY <1>6, <1>7, <1>9, <1>10, DriverLift

(* The next message is the next text, or what ended the query.             *)
LEMMA NextMessage ==
  ASSUME NEW q \in SdkRecs, q.unread # <<>>, NEW read \in 0..q.said, Unread(q, read)
  PROVE  LET m == Head(q.unread)  p == [q EXCEPT !.unread = Tail(q.unread)] IN
         /\ m[1] \in Texts \cup Closers
         /\ p.said = q.said /\ p.partial = q.partial /\ p.on = q.on
         /\ m[1] \in Texts => /\ read + 1 \in 0..q.said /\ m = Said(q.partial, read + 1)
                              /\ Unread(p, read + 1)
         /\ m[1] \in Closers => read = q.said /\ ~q.on /\ Unread(p, read)
<1> DEFINE u == q.unread
           t == Tail(u)
           k == q.said - read
           p == [q EXCEPT !.unread = Tail(q.unread)]
<1>1. u \in Seq((Texts \cup Closers) \X Nat) /\ q.said \in Nat /\ u # <<>>
  BY SdkFields
<1>2. /\ Head(u) = u[1] /\ Len(u) \in Nat \ {0} /\ Len(t) = Len(u) - 1
      /\ \A i \in 1..Len(t) : t[i] = u[i + 1]
      /\ u[1] \in (Texts \cup Closers) \X Nat
  BY <1>1
<1>3. p.unread = t /\ p.said = q.said /\ p.partial = q.partial /\ p.on = q.on
  BY DEF SdkRecs
<1>4. k \in Nat /\ read \in Nat /\ q.said = read + k
  BY <1>1
<1>5. /\ Len(u) = k \/ (Len(u) = k + 1 /\ ~q.on /\ u[k + 1][1] \in Closers)
      /\ \A i \in 1..k : u[i] = Said(q.partial, read + i)
  BY DEF Unread
<1>6. u[1][1] \in Texts \cup Closers
  BY <1>2
<1> HIDE DEF u, t, k, p
<1>7. CASE k = 0
  <2>1. Len(u) = 1 /\ ~q.on /\ u[1][1] \in Closers
    BY <1>2, <1>5, <1>7
  <2>2. Len(t) = 0 /\ read = q.said /\ p.said - read = 0
    BY <1>2, <1>3, <1>4, <1>7, <2>1
  <2>3. Unread(p, read)
    BY <1>3, <2>2 DEF Unread
  <2>4. u[1][1] \notin Texts
    BY <2>1 DEF Texts, Closers
  <2>. QED
    BY <1>2, <1>3, <1>6, <2>1, <2>2, <2>3, <2>4 DEF u, p
<1>8. CASE k # 0
  <2>1. 1 \in 1..k /\ u[1] = Said(q.partial, read + 1)
    BY <1>4, <1>5, <1>8
  <2>2. u[1][1] \in Texts /\ u[1][1] \notin Closers
    BY <2>1 DEF Said, Texts, Closers
  <2>3. read + 1 \in 0..q.said /\ p.said - (read + 1) = k - 1 /\ k - 1 \in Nat
    BY <1>3, <1>4, <1>8
  <2>4. \A i \in 1..(k - 1) : t[i] = Said(p.partial, (read + 1) + i)
    <3>1. ASSUME NEW i \in 1..(k - 1) PROVE t[i] = Said(p.partial, (read + 1) + i)
      <4>1. i + 1 \in 1..k /\ i \in 1..Len(t) /\ (read + 1) + i = read + (i + 1)
        <5>1. Len(t) \in {k - 1, k} /\ k \in Nat /\ read \in Nat /\ i \in Nat
          <6>1. Len(u) \in {k, k + 1} /\ Len(t) = Len(u) - 1 /\ k \in Nat
            BY <1>2, <1>4, <1>5
          <6>. QED
            BY <1>4, <3>1, <6>1
        <5>. QED
          BY <3>1, <5>1
      <4>2. t[i] = u[i + 1]
        BY <1>2, <4>1
      <4>3. u[i + 1] = Said(q.partial, read + (i + 1))
        BY <1>5, <4>1
      <4>4. p.partial = q.partial
        BY <1>3
      <4>. QED
        BY <4>1, <4>2, <4>3, <4>4, Zenon
    <3>. QED
      BY <3>1
  <2>5. Len(t) = k - 1 \/ (Len(t) = (k - 1) + 1 /\ ~p.on /\ t[(k - 1) + 1][1] \in Closers)
    <3>1. CASE Len(u) = k
      BY <1>2, <1>4, <3>1
    <3>2. CASE Len(u) = k + 1 /\ ~q.on /\ u[k + 1][1] \in Closers
      <4>1. (k - 1) + 1 = k /\ k \in 1..Len(t) /\ Len(t) = k
        BY <1>2, <1>4, <1>8, <3>2
      <4>. QED
        BY <1>2, <1>3, <3>2, <4>1
    <3>. QED
      BY <1>5, <3>1, <3>2
  <2>6. Unread(p, read + 1)
    BY <1>3, <2>3, <2>4, <2>5 DEF Unread
  <2>. QED
    BY <1>2, <1>3, <1>6, <2>1, <2>2, <2>3, <2>6 DEF u, p
<1>. QED
  BY <1>7, <1>8

(* An item counts once: its first part, or all of it if it has no parts.   *)
LEMMA ItemsOnce ==
  ASSUME NEW read \in Nat, NEW partial \in BOOLEAN
  PROVE  LET m == Said(partial, read + 1)
             seen == partial /\ read > 0
         IN
         /\ m[1] = "delta" => partial
         /\ partial /\ read = 0 => m[1] = "delta"
         /\ m[1] = "delta" \/ ~seen =>
              /\ m[2] = Begun(partial, read) + 1
              /\ Begun(partial, read + 1) = Begun(partial, read) + 1
         /\ ~(m[1] = "delta" \/ ~seen) => Begun(partial, read + 1) = Begun(partial, read)
<1>1. CASE ~partial
  <2>1. Said(partial, read + 1)[1] = "full" /\ Said(partial, read + 1)[2] = read + 1
    BY <1>1 DEF Said
  <2>. QED
    BY <1>1, <2>1 DEF Begun
<1>2. CASE partial /\ (read + 1) % 2 = 1
  <2>1. Said(partial, read + 1)[1] = "delta" /\ Said(partial, read + 1)[2] = ((read + 1) + 1) \div 2
    BY <1>2 DEF Said
  <2>2. ((read + 1) + 1) \div 2 = (read + 1) \div 2 + 1
    BY <1>2
  <2>. QED
    BY <1>2, <2>1, <2>2 DEF Begun
<1>3. CASE partial /\ (read + 1) % 2 # 1
  <2>1. Said(partial, read + 1)[1] = "full"
    BY <1>3 DEF Said
  <2>2. PICK j \in Nat : read + 1 = 2 * j
    BY <1>3
  <2>3. ((read + 1) + 1) \div 2 = j /\ (read + 1) \div 2 = j /\ read # 0
    BY <2>2
  <2>. QED
    <3>1. partial /\ read > 0
      BY <1>3, <2>3
    <3>2. Begun(partial, read + 1) = j /\ Begun(partial, read) = j
      BY <2>3, <3>1 DEF Begun
    <3>3. Begun(partial, read + 1) = Begun(partial, read)
      BY <3>2
    <3>4. Said(partial, read + 1)[1] # "delta"
      <4>1. "full" # "delta"
        OBVIOUS
      <4>. QED
        BY <2>1, <4>1, Zenon
    <3>5. ~(read = 0)
      BY <2>3
    <3>. QED
      BY <3>1, <3>3, <3>4, <3>5, Zenon
<1>. QED
  BY <1>1, <1>2, <1>3

(* What a pump's reading does to its query.                                *)
LEMMA Reads ==
  ASSUME IInv, NEW r \in Requests, Reading(r), Read(r), NEW s \in Sessions, s = At(r)
  PROVE  /\ sdk'[s].said = sdk[s].said /\ sdk'[s].partial = sdk[s].partial
         /\ sdk'[s].on = sdk[s].on /\ sdk[s].said \in Nat /\ sdk[s].partial \in BOOLEAN
         /\ \A t \in Sessions : t # s => sdk'[t] = sdk[t]
         /\ Message(r)[1] \in Texts \cup Closers
         /\ Message(r)[1] \in Texts =>
              \E read \in Nat :
                /\ read + 1 \in 0..sdk'[s].said /\ Unread(sdk'[s], read + 1)
                /\ Message(r) = Said(sdk[s].partial, read + 1)
                /\ Len(heard[s]) = Begun(sdk[s].partial, read)
                /\ sess[s].seen <=> sdk[s].partial /\ read > 0
         /\ Message(r)[1] \in Closers =>
              /\ ~sdk'[s].on /\ sdk'[s].said \in 0..sdk'[s].said
              /\ Unread(sdk'[s], sdk'[s].said)
              /\ Len(heard[s]) = Begun(sdk[s].partial, sdk[s].said)
<1>1. Drives(r) /\ Raced(s) /\ Session(s) /\ Shapes
  BY Pumping DEF Reading
<1>2. sdk[s] \in SdkRecs /\ sdk[s].unread # <<>> /\ sdk[s].said \in Nat /\ sdk[s].partial \in BOOLEAN
  <2>1. sdk[s] \in SdkRecs
    BY <1>1, Sorts
  <2>. QED
    BY <2>1, SdkFields DEF Reading
<1>3. PICK read \in 0..sdk[s].said : Unread(sdk[s], read) /\ Follows(s, read)
  BY <1>1 DEF Session, Streamed
<1>4. /\ Len(heard[s]) = Begun(sdk[s].partial, read)
      /\ sess[s].seen <=> sdk[s].partial /\ read > 0
  BY <1>1, <1>3 DEF Follows
<1>5. /\ sdk'[s] = [sdk[s] EXCEPT !.unread = Tail(sdk[s].unread)]
      /\ \A t \in Sessions : t # s => sdk'[t] = sdk[t]
  BY <1>1, ReadShape
<1>6. Message(r) = Head(sdk[s].unread)
  BY DEF Message
<1>7. /\ Message(r)[1] \in Texts \cup Closers
      /\ sdk'[s].said = sdk[s].said /\ sdk'[s].partial = sdk[s].partial /\ sdk'[s].on = sdk[s].on
      /\ Message(r)[1] \in Texts => /\ read + 1 \in 0..sdk[s].said
                                    /\ Message(r) = Said(sdk[s].partial, read + 1)
                                    /\ Unread(sdk'[s], read + 1)
      /\ Message(r)[1] \in Closers => read = sdk[s].said /\ ~sdk[s].on /\ Unread(sdk'[s], read)
  <2> DEFINE q == sdk[s]
             m == Head(q.unread)
             p == [q EXCEPT !.unread = Tail(q.unread)]
  <2>1. q \in SdkRecs /\ q.unread # <<>> /\ read \in 0..q.said /\ Unread(q, read)
    BY <1>2, <1>3
  <2>2. /\ m[1] \in Texts \cup Closers
        /\ p.said = q.said /\ p.partial = q.partial /\ p.on = q.on
        /\ m[1] \in Texts => /\ read + 1 \in 0..q.said /\ m = Said(q.partial, read + 1)
                             /\ Unread(p, read + 1)
        /\ m[1] \in Closers => read = q.said /\ ~q.on /\ Unread(p, read)
    <3> HIDE DEF q
    <3>. QED
      BY <2>1, NextMessage
  <2>3. sdk'[s] = p /\ Message(r) = m
    BY <1>5, <1>6
  <2> HIDE DEF p, m
  <2>. QED
    BY <2>2, <2>3
<1>8. read \in Nat
  BY <1>2
<1>9. Message(r)[1] \in Closers =>
        /\ ~sdk'[s].on /\ sdk'[s].said \in 0..sdk'[s].said
        /\ Unread(sdk'[s], sdk'[s].said)
        /\ Len(heard[s]) = Begun(sdk[s].partial, sdk[s].said)
  BY <1>2, <1>4, <1>7
<1>. QED
  BY <1>2, <1>4, <1>5, <1>7, <1>8, <1>9

LEMMA CountedFields ==
  ASSUME NEW f \in [Requests -> OutRecs], NEW r \in Requests, NEW k \in {0, 1},
         out' = [f EXCEPT ![r].usage = @ + k]
  PROVE  /\ out'[r].usage = f[r].usage + k /\ out'[r].end = f[r].end /\ f[r].usage \in Nat
         /\ \A q \in Requests : q # r => out'[q] = f[q]
<1>1. f[r] \in OutRecs
  OBVIOUS
<1>2. /\ out'[r] = [f[r] EXCEPT !.usage = @ + k]
      /\ \A q \in Requests : q # r => out'[q] = f[q]
  OBVIOUS
<1>. QED
  BY <1>1, <1>2 DEF OutRecs

(* What a pump reads keeps the text's order, if it appends nothing.        *)
LEMMA ReadOn ==
  ASSUME IInv, NEW r \in Requests, Reading(r), Read(r), NEW s \in Sessions, s = At(r),
         Message(r)[1] \in Closers, heard' = heard
  PROVE  /\ heard'[s] = [i \in 1..Len(heard'[s]) |-> i]
         /\ \E read \in 0..sdk'[s].said : Unread(sdk'[s], read)
         /\ ~sdk'[s].on /\ Len(heard'[s]) = Begun(sdk'[s].partial, sdk'[s].said)
         /\ \A t \in Sessions : t # s => sdk'[t] = sdk[t]
<1>1. Session(s)
  BY Basics
<1>2. /\ sdk'[s].said = sdk[s].said /\ sdk'[s].partial = sdk[s].partial
      /\ \A t \in Sessions : t # s => sdk'[t] = sdk[t]
      /\ ~sdk'[s].on /\ sdk'[s].said \in 0..sdk'[s].said
      /\ Unread(sdk'[s], sdk'[s].said)
      /\ Len(heard[s]) = Begun(sdk[s].partial, sdk[s].said)
  BY Reads
<1>3. heard[s] = [i \in 1..Len(heard[s]) |-> i]
  BY <1>1 DEF Session, Streamed
<1>. QED
  BY <1>2, <1>3

LEMMA KeepTakeResult ==
  ASSUME IInv, NEW r \in Requests, TakeResult(r)
  PROVE  IInv'
<1>1. /\ Drives(r) /\ Reading(r) /\ Read(r) /\ Message(r)[1] \in {"success", "failure"}
      /\ Goto(r, "done")
      /\ UNCHANGED <<heard, promise, items, long, gone, revived>>
  BY DEF TakeResult, Reading, PumpFrame
<1>2. PICK s \in Sessions : s = At(r) /\ Session(s) /\ Shapes /\ sess[s] \in Sess
  BY <1>1, Pumping
<1> DEFINE m == Message(r)
           rec == [sess[s] EXCEPT !.used = @ \/ m[1] = "success"]
           end == IF m[1] = "success" THEN "completed" ELSE "error"
           o == Ended(r, end)
           k == IF m[1] = "success" /\ Reported(r, m, sess[s]) THEN 1 ELSE 0
<1>3. CloseSession(s, rec, 0, "cancelled") /\ out' = [o EXCEPT ![r].usage = @ + k]
  BY <1>2 DEF TakeResult
<1>4. Shapes' /\ o \in [Requests -> OutRecs]
  BY <1>2, ShapesTakeResult, EndedShape
<1>5. rec \in Sess /\ Alike(rec, sess[s])
  <2>1. /\ rec \in Sess /\ rec.state = sess[s].state /\ rec.tools = sess[s].tools
        /\ rec.aborted = sess[s].aborted /\ rec.gate = sess[s].gate
        /\ rec.parked = sess[s].parked /\ rec.public = sess[s].public
        /\ rec.owner = sess[s].owner /\ rec.ttl = sess[s].ttl
        /\ rec.used = (sess[s].used \/ m[1] = "success")
    BY <1>2, SpentFields
  <2>2. sess[s].used => rec.used
    <3>1. rec.used = (sess[s].used \/ m[1] = "success")
      BY <2>1
    <3>. QED
      BY <3>1, Zenon
  <2>. HIDE DEF rec
  <2>. QED
    BY <2>1, <2>2, Zenon DEF Alike
<1>6. k = 1 => ~sess[s].used /\ rec.used
  <2>1. k = 1 => m[1] = "success" /\ ~sess[s].used
    BY DEF Reported
  <2>2. rec.used = (sess[s].used \/ m[1] = "success")
    BY <1>2, SpentFields
  <2>. HIDE DEF rec, m, k
  <2>. QED
    BY <2>1, <2>2, Zenon
<1>7. m[1] \in Closers
  BY <1>1 DEF Closers
<1>8. /\ heard'[s] = [i \in 1..Len(heard'[s]) |-> i]
      /\ \E read \in 0..sdk'[s].said : Unread(sdk'[s], read)
      /\ ~sdk'[s].on /\ Len(heard'[s]) = Begun(sdk'[s].partial, sdk'[s].said)
      /\ \A t \in Sessions : t # s => sdk'[t] = sdk[t]
  BY <1>1, <1>2, <1>7, ReadOn
<1>9. o[r].usage = out[r].usage /\ \A q \in Requests : q # r => o[q] = out[q]
  BY <1>2, Sorts DEF Ended, OutRecs
<1>10. k \in {0, 1}
  OBVIOUS
<1> HIDE DEF o, k, rec, m
<1>11. /\ out'[r].usage = out[r].usage + k /\ out[r].usage \in Nat
       /\ \A q \in Requests : q # r => out'[q] = out[q]
  <2>1. out' = [o EXCEPT ![r].usage = @ + k]
    BY <1>3
  <2>2. /\ out'[r].usage = o[r].usage + k /\ o[r].usage \in Nat
        /\ \A q \in Requests : q # r => out'[q] = o[q]
    BY <1>4, <1>10, <2>1, CountedFields
  <2>. QED
    BY <1>9, <2>2
<1>12. \/ out'[r].usage = out[r].usage
       \/ out'[r].usage = out[r].usage + 1 /\ ~sess[s].used /\ rec.used
  BY <1>6, <1>10, <1>11
<1>13. \A t \in Sessions : t # s => /\ promise'[t] = promise[t] /\ sdk'[t] = sdk[t]
                                    /\ heard'[t] = heard[t]
  BY <1>1, <1>8
<1>14. promise'[s] \in {NoPromise, promise[s]}
  BY <1>1
<1>. QED
  BY <1>1, <1>2, <1>3, <1>4, <1>5, <1>8, <1>11, <1>12, <1>13, <1>14, DriverCloses

LEMMA KeepTakeEnd ==
  ASSUME IInv, NEW r \in Requests, TakeEnd(r)
  PROVE  IInv'
<1>1. /\ Drives(r) /\ Reading(r) /\ Read(r) /\ Message(r)[1] \in {"over", "threw"}
      /\ UNCHANGED <<heard, promise, items, long, gone, revived>>
  BY DEF TakeEnd, Reading, PumpFrame
<1>2. PICK s \in Sessions :
        s = At(r) /\ Session(s) /\ Shapes /\ sess[s] \in Sess /\ out[r].end # "completed"
  BY <1>1, Pumping
<1>3. CloseSession(s, sess[s], 0, "cancelled")
  BY <1>2 DEF TakeEnd
<1>4. Shapes'
  BY <1>2, ShapesTakeEnd
<1>5. PICK pc \in {"done", "failed"} :
        /\ Goto(r, pc) /\ (pc = "failed" => State(s) = "open" /\ sess[s].tools)
        /\ out' = out \/ \E end \in {"silent", "error"} : out' = Ended(r, end)
  BY <1>2 DEF TakeEnd, ErrorEnd, State
<1>6. /\ out'[r].end # "completed" /\ out'[r].usage = out[r].usage
      /\ \A q \in Requests : q # r => out'[q] = out[q]
  <2>1. CASE out' = out
    BY <1>2, <2>1
  <2>2. CASE \E end \in {"silent", "error"} : out' = Ended(r, end)
    <3>1. PICK end \in {"silent", "error"} : out' = Ended(r, end)
      BY <2>2
    <3>. QED
      BY <1>2, <3>1, EndedFields
  <2>. QED
    BY <1>5, <2>1, <2>2
<1>7. Message(r)[1] \in Closers
  BY <1>1 DEF Closers
<1>8. /\ heard'[s] = [i \in 1..Len(heard'[s]) |-> i]
      /\ \E read \in 0..sdk'[s].said : Unread(sdk'[s], read)
      /\ \A t \in Sessions : t # s => sdk'[t] = sdk[t]
  BY <1>1, <1>2, <1>7, ReadOn
<1>9. \A t \in Sessions : t # s => /\ promise'[t] = promise[t] /\ sdk'[t] = sdk[t]
                                    /\ heard'[t] = heard[t]
  BY <1>1, <1>8
<1>10. promise'[s] \in {NoPromise, promise[s]} /\ Alike(sess[s], sess[s])
  BY <1>1 DEF Alike
<1>11. pc # "done" => State(s) = "open" /\ sess[s].tools
  BY <1>5
<1>. QED
  BY <1>1, <1>2, <1>3, <1>4, <1>5, <1>6, <1>8, <1>9, <1>10, <1>11, DriverCloses

(* A call that cannot be parked.                                           *)
LEMMA KeepRefuseCall ==
  ASSUME IInv, NEW r \in Requests, RefuseCall(r)
  PROVE  IInv'
<1>1. /\ Drives(r) /\ promise' = [promise EXCEPT ![At(r)] = NoPromise]
      /\ Handed(At(r))
      /\ UNCHANGED <<heard, items, long, gone, revived, sdk>>
  BY DEF RefuseCall, TakeCall, Offered
<1>2. PICK s \in Sessions :
        s = At(r) /\ Session(s) /\ Shapes /\ sess[s] \in Sess /\ out[r].end # "completed"
        /\ State(s) \in {"open", "returning", "closed"}
  BY <1>1, Pumping
<1>3. CloseSession(s, sess[s], promise[s], "cancelled")
  BY <1>2 DEF RefuseCall
<1>4. Shapes' /\ promise \in [Sessions -> 0..(MaxCalls + 1)]
  BY <1>2, ShapesRefuseCall, Sorts
<1>5. sess[s].tools
  <2>1. promise[s] # NoPromise
    BY <1>1, <1>2, Constants DEF Handed, NoPromise
  <2>. QED
    BY <1>2, <2>1 DEF Session, Framed
<1>6. PICK pc \in {"done", "refused"} :
        /\ Goto(r, pc) /\ (pc = "refused" => State(s) = "open")
        /\ out' = out \/ out' = Ended(r, "error")
  BY <1>2 DEF RefuseCall, State
<1>7. /\ out'[r].end # "completed" /\ out'[r].usage = out[r].usage
      /\ \A q \in Requests : q # r => out'[q] = out[q]
  <2>1. CASE out' = out
    BY <1>2, <2>1
  <2>2. CASE out' = Ended(r, "error")
    BY <1>2, <2>2, EndedFields
  <2>. QED
    BY <1>6, <2>1, <2>2
<1>8. /\ heard'[s] = [i \in 1..Len(heard'[s]) |-> i]
      /\ \E read \in 0..sdk'[s].said : Unread(sdk'[s], read)
  BY <1>1, <1>2 DEF Session, Streamed
<1>9. /\ \A t \in Sessions : t # s => /\ promise'[t] = promise[t] /\ sdk'[t] = sdk[t]
                                      /\ heard'[t] = heard[t]
      /\ promise'[s] = NoPromise
  BY <1>1, <1>2, <1>4
<1>10. promise'[s] \in {NoPromise, promise[s]} /\ Alike(sess[s], sess[s])
  BY <1>9 DEF Alike
<1>11. pc # "done" => State(s) = "open" /\ sess[s].tools
  BY <1>5, <1>6
<1>. QED
  BY <1>1, <1>2, <1>3, <1>4, <1>6, <1>7, <1>8, <1>9, <1>10, <1>11, DriverCloses

(* A step that only counts what was read.                                  *)
LEMMA CountedSession ==
  ASSUME IInv, NEW s \in Sessions, State(s) # "none", Alike(sess'[s], sess[s]),
         UNCHANGED <<run, frames, promise, items, sessions, byRequest, ledger, revived, long>>,
         Streamed(s)'
  PROVE  Session(s)'
<1>1. Session(s)
  BY Basics
<1>2. /\ State(s)' = State(s) /\ Owner(s)' = Owner(s) /\ sess'[s].tools = sess[s].tools
      /\ sess'[s].aborted = sess[s].aborted /\ sess'[s].gate = sess[s].gate
      /\ sess'[s].parked = sess[s].parked /\ sess'[s].public = sess[s].public
      /\ sess'[s].ttl = sess[s].ttl
  BY DEF Alike, State, Owner
<1>3. /\ Raced(s)' <=> Raced(s)
      /\ Active(Owner(s))' <=> Active(Owner(s))
      /\ (L!Pending)' = L!Pending
      /\ At(s)' = At(s) /\ At(Owner(s))' = At(Owner(s))
  BY <1>2 DEF Raced, Active, L!Pending, At
<1>4. Steady(s)'
  BY <1>1, <1>2, <1>3 DEF Session, Steady
<1>5. Called(s)'
  BY <1>1, <1>2, <1>3 DEF Session, Called
<1>6. Guarded(s)' /\ Retires(s)'
  BY <1>1, <1>2, <1>3 DEF Session, Guarded, Retires
<1>7. Framed(s)'
  BY <1>1, <1>2, <1>3 DEF Session, Framed
<1>8. Delivered(s)'
  BY <1>1, <1>2 DEF Session, Delivered
<1>. QED
  BY <1>4, <1>5, <1>6, <1>7, <1>8 DEF Session

(* The text that is appended is the next one.                              *)
LEMMA NextText ==
  ASSUME NEW f \in Seq(Nat), f = [i \in 1..Len(f) |-> i], NEW x \in Nat, x = Len(f) + 1
  PROVE  /\ Append(f, x) = [i \in 1..Len(Append(f, x)) |-> i]
         /\ Len(Append(f, x)) = Len(f) + 1
<1> DEFINE g == Append(f, x)
<1>1. /\ g \in Seq(Nat) /\ Len(g) = Len(f) + 1 /\ Len(f) \in Nat
      /\ \A i \in 1..Len(f) : g[i] = f[i]
      /\ g[Len(f) + 1] = x
  BY AppendProperties
<1> HIDE DEF g
<1>2. ASSUME NEW i \in 1..Len(g) PROVE g[i] = i
  <2>1. i \in 1..Len(f) \/ i = Len(f) + 1
    BY <1>1
  <2>. QED
    BY <1>1, <2>1
<1>3. g = [i \in 1..Len(g) |-> g[i]]
  BY <1>1
<1>4. g = [i \in 1..Len(g) |-> i]
  BY <1>2, <1>3
<1>. QED
  BY <1>1, <1>4 DEF g

Note(old, m) == [old EXCEPT !.seen = @ \/ m[1] = "delta", !.used = @ \/ m[1] = "full"]

LEMMA Noted ==
  ASSUME NEW old \in Sess, NEW m
  PROVE  /\ Note(old, m) \in Sess /\ Alike(Note(old, m), old)
         /\ Note(old, m).seen = (old.seen \/ m[1] = "delta")
         /\ Note(old, m).used = (old.used \/ m[1] = "full")
<1> DEFINE rec == Note(old, m)
<1>1. rec \in Sess
  BY NotedFields DEF Note
<1>2. /\ rec.state = old.state /\ rec.tools = old.tools
      /\ rec.aborted = old.aborted /\ rec.gate = old.gate /\ rec.parked = old.parked
      /\ rec.public = old.public /\ rec.owner = old.owner /\ rec.ttl = old.ttl
      /\ rec.seen = (old.seen \/ m[1] = "delta") /\ rec.used = (old.used \/ m[1] = "full")
  BY <1>1 DEF Sess, Note
<1>3. old.used => rec.used
  <2>1. rec.used = (old.used \/ m[1] = "full")
    BY <1>2
  <2>. QED
    BY <2>1, Zenon
<1>. QED
  BY <1>1, <1>2, <1>3, Zenon DEF Alike

LEMMA KeepTakeText ==
  ASSUME IInv, NEW r \in Requests, TakeText(r)
  PROVE  IInv'
<1>1. /\ Drives(r) /\ Reading(r) /\ Read(r) /\ Message(r)[1] \in Texts
      /\ UNCHANGED <<promise, items, long, gone, revived>>
  BY DEF TakeText, Reading, PumpFrame, Texts
<1>2. PICK s \in Sessions :
        s = At(r) /\ Session(s) /\ Shapes /\ sess[s] \in Sess /\ out[r].end # "completed"
        /\ State(s) \in {"open", "returning", "closed"} /\ Client(r) /\ Owner(s) = r /\ Raced(s)
  BY <1>1, Pumping
<1> DEFINE m == Message(r)
           rec == Note(sess[s], m)
           k == IF Reported(r, m, sess[s]) THEN 1 ELSE 0
           o == [out EXCEPT ![r].usage = @ + k]
           news == NewText(m, sess[s]) /\ r \notin gone
<1>3. /\ heard' = IF news THEN [heard EXCEPT ![s] = Append(@, m[2])] ELSE heard
      /\ IF Stopped(r)
         THEN /\ CloseSession(s, rec, 0, "cancelled")
              /\ Goto(r, "done") /\ out' = [o EXCEPT ![r].end = "silent"]
         ELSE /\ sess' = [sess EXCEPT ![s] = rec]
              /\ out' = o
              /\ UNCHANGED <<run, maps, frames>>
  BY <1>2 DEF TakeText, Note
<1>4. Shapes' /\ heard \in [Sessions -> Seq(Nat)] /\ sess \in [Sessions -> Sess]
      /\ out \in [Requests -> OutRecs] /\ heard[s] \in Seq(Nat)
  BY <1>2, ShapesTakeText, Sorts
<1>5. /\ rec \in Sess /\ Alike(rec, sess[s])
      /\ rec.seen = (sess[s].seen \/ m[1] = "delta")
      /\ rec.used = (sess[s].used \/ m[1] = "full")
  <2>1. sess[s] \in Sess
    BY <1>2
  <2>. HIDE DEF m
  <2>. QED
    BY <2>1, Noted, Zenon
<1>6. /\ sdk'[s].said = sdk[s].said /\ sdk'[s].partial = sdk[s].partial
      /\ sdk[s].said \in Nat /\ sdk[s].partial \in BOOLEAN
      /\ \A t \in Sessions : t # s => sdk'[t] = sdk[t]
  BY <1>1, <1>2, Reads
<1>7. PICK read \in Nat :
                /\ read + 1 \in 0..sdk'[s].said /\ Unread(sdk'[s], read + 1)
                /\ m = Said(sdk[s].partial, read + 1)
                /\ Len(heard[s]) = Begun(sdk[s].partial, read)
                /\ sess[s].seen <=> sdk[s].partial /\ read > 0
  BY <1>1, <1>2, Reads
<1>8. /\ m[1] = "delta" => sdk[s].partial
      /\ sdk[s].partial /\ read = 0 => m[1] = "delta"
      /\ NewText(m, sess[s]) =>
           /\ m[2] = Begun(sdk[s].partial, read) + 1
           /\ Begun(sdk[s].partial, read + 1) = Begun(sdk[s].partial, read) + 1
      /\ ~NewText(m, sess[s]) => Begun(sdk[s].partial, read + 1) = Begun(sdk[s].partial, read)
  <2> DEFINE p == sdk[s].partial
             w == Said(p, read + 1)
  <2>1. p \in BOOLEAN /\ m = w /\ (sess[s].seen <=> p /\ read > 0)
    BY <1>6, <1>7
  <2>2. /\ w[1] = "delta" => p
        /\ p /\ read = 0 => w[1] = "delta"
        /\ w[1] = "delta" \/ ~(p /\ read > 0) =>
              /\ w[2] = Begun(p, read) + 1
              /\ Begun(p, read + 1) = Begun(p, read) + 1
        /\ ~(w[1] = "delta" \/ ~(p /\ read > 0)) => Begun(p, read + 1) = Begun(p, read)
    <3> HIDE DEF p
    <3>. QED
      BY <2>1, ItemsOnce
  <2> HIDE DEF p, w, m
  <2>3. NewText(m, sess[s]) <=> (w[1] = "delta" \/ ~(p /\ read > 0))
    BY <2>1, Zenon DEF NewText
  <2>4. /\ m[1] = "delta" => p
        /\ p /\ read = 0 => m[1] = "delta"
        /\ NewText(m, sess[s]) => /\ m[2] = Begun(p, read) + 1
                                  /\ Begun(p, read + 1) = Begun(p, read) + 1
        /\ ~NewText(m, sess[s]) => Begun(p, read + 1) = Begun(p, read)
    BY <2>1, <2>2, <2>3, Zenon
  <2>. QED
    BY <2>4 DEF p
<1>9. /\ heard'[s] = [i \in 1..Len(heard'[s]) |-> i]
      /\ r \notin gone => Len(heard'[s]) = Begun(sdk[s].partial, read + 1)
      /\ \A t \in Sessions : t # s => heard'[t] = heard[t]
  <2>1. heard[s] = [i \in 1..Len(heard[s]) |-> i]
    BY <1>2 DEF Session, Streamed
  <2> HIDE DEF m
  <2>2. CASE news
    <3>1. m[2] = Len(heard[s]) + 1 /\ m[2] \in Nat
          /\ Begun(sdk[s].partial, read + 1) = Len(heard[s]) + 1
      <4>1. m[2] = Len(heard[s]) + 1
            /\ Begun(sdk[s].partial, read + 1) = Len(heard[s]) + 1
        BY <1>7, <1>8, <2>2
      <4>2. Len(heard[s]) \in Nat
        BY <1>4, LenProperties
      <4>. QED
        BY <4>1, <4>2
    <3>2. /\ heard'[s] = Append(heard[s], m[2])
          /\ \A t \in Sessions : t # s => heard'[t] = heard[t]
      BY <1>3, <1>4, <2>2
    <3>3. /\ Append(heard[s], m[2]) = [i \in 1..Len(Append(heard[s], m[2])) |-> i]
          /\ Len(Append(heard[s], m[2])) = Len(heard[s]) + 1
      BY <1>4, <2>1, <3>1, NextText
    <3>. QED
      BY <3>1, <3>2, <3>3
  <2>3. CASE ~news
    <3>1. heard' = heard
      BY <1>3, <2>3
    <3>2. r \notin gone => ~NewText(m, sess[s])
      BY <2>3
    <3>. QED
      BY <1>7, <1>8, <2>1, <3>1, <3>2
  <2>. QED
    BY <2>2, <2>3
<1>10. rec.seen <=> sdk[s].partial /\ read + 1 > 0
  <2>1. read + 1 > 0 /\ (read = 0 \/ read > 0)
    BY <1>7
  <2>2. rec.seen = (sess[s].seen \/ m[1] = "delta")
    BY <1>5
  <2>3. sess[s].seen <=> sdk[s].partial /\ read > 0
    BY <1>7
  <2> HIDE DEF m, rec
  <2>. QED
    BY <1>8, <2>1, <2>2, <2>3, Zenon
<1>11. k \in {0, 1} /\ (k = 1 => ~sess[s].used /\ rec.used)
  <2>1. k = 1 => m[1] # "delta" /\ ~sess[s].used
    BY DEF Reported
  <2>2. m[1] \in {"delta", "full"}
    BY <1>1 DEF Texts
  <2>3. rec.used = (sess[s].used \/ m[1] = "full")
    BY <1>5
  <2>4. k \in {0, 1}
    OBVIOUS
  <2>. HIDE DEF rec, m, k
  <2>5. m[1] # "delta" => m[1] = "full"
    BY <2>2
  <2>. QED
    BY <2>1, <2>3, <2>4, <2>5, Zenon
<1> HIDE DEF m, rec, k
<1>12. /\ o \in [Requests -> OutRecs] /\ o[r].usage = out[r].usage + k /\ out[r].usage \in Nat
       /\ o[r].end = out[r].end
       /\ \A q \in Requests : q # r => o[q] = out[q]
  <2>1. out[r] \in OutRecs
    BY <1>4
  <2>2. o[r] = [out[r] EXCEPT !.usage = @ + k] /\ \A q \in Requests : q # r => o[q] = out[q]
    BY <1>4
  <2>3. o \in [Requests -> OutRecs]
    BY <1>2, <1>4, <1>11, CountedShape
  <2>. HIDE DEF o
  <2>. QED
    BY <2>1, <2>2, <2>3 DEF OutRecs
<1> HIDE DEF o
<1>13. CASE Stopped(r)
  <2>1. /\ CloseSession(s, rec, 0, "cancelled") /\ Goto(r, "done")
        /\ out' = [o EXCEPT ![r].end = "silent"]
    BY <1>3, <1>13
  <2>2. /\ out'[r].usage = out[r].usage + k /\ out'[r].end # "completed"
        /\ \A q \in Requests : q # r => out'[q] = out[q]
    <3>1. o[r] \in OutRecs
      BY <1>12
    <3>2. out'[r] = [o[r] EXCEPT !.end = "silent"] /\ \A q \in Requests : q # r => out'[q] = o[q]
      BY <1>12, <2>1
    <3>. QED
      BY <1>12, <3>1, <3>2 DEF OutRecs
  <2>3. \/ out'[r].usage = out[r].usage
        \/ out'[r].usage = out[r].usage + 1 /\ ~sess[s].used /\ rec.used
    BY <1>11, <1>12, <2>2
  <2>4. \E n \in 0..sdk'[s].said : Unread(sdk'[s], n)
    BY <1>7
  <2>5. \A t \in Sessions : t # s => /\ promise'[t] = promise[t] /\ sdk'[t] = sdk[t]
                                     /\ heard'[t] = heard[t]
    BY <1>1, <1>6, <1>9
  <2>6. promise'[s] \in {NoPromise, promise[s]} /\ heard'[s] = [i \in 1..Len(heard'[s]) |-> i]
    BY <1>1, <1>9
  <2>. QED
    BY <1>1, <1>2, <1>4, <1>5, <2>1, <2>2, <2>3, <2>4, <2>5, <2>6, DriverCloses
<1>14. CASE ~Stopped(r)
  <2>1. /\ sess'[s] = rec /\ \A t \in Sessions : t # s => sess'[t] = sess[t]
        /\ out' = o /\ UNCHANGED <<run, sessions, byRequest, ledger, frames>>
        /\ r \notin gone
    BY <1>3, <1>4, <1>14 DEF maps, Stopped
  <2>2. State(s)' = State(s) /\ Owner(s)' = Owner(s) /\ (Raced(s)' <=> Raced(s))
        /\ sess'[s].tools = sess[s].tools /\ (sess[s].used => sess'[s].used)
    BY <1>5, <2>1 DEF Alike, State, Owner, Raced
  <2>3. Streamed(s)'
    <3>1. Follows(s, read + 1)'
      <4>1. Len(heard'[s]) = Begun(sdk'[s].partial, read + 1)
        BY <1>6, <1>9, <2>1
      <4>2. sess'[s].seen <=> sdk'[s].partial /\ read + 1 > 0
        BY <1>6, <1>10, <2>1
      <4>. QED
        BY <4>1, <4>2 DEF Follows
    <3>2. State(s)' \notin {"none", "starting"}
      BY <1>2, <2>2
    <3>. QED
      BY <1>7, <1>9, <3>1, <3>2 DEF Streamed
  <2>4. Session(s)'
    <3>1. State(s) # "none" /\ Alike(sess'[s], sess[s])
      BY <1>2, <1>5, <2>1
    <3>. QED
      BY <1>1, <2>1, <2>3, <3>1, CountedSession
  <2>5. Apart(s, r)
    BY <1>1, <1>2, <1>6, <1>9, <1>12, <2>1 DEF Apart, Same, At
  <2>6. At(r)' = s /\ At(r) = s
    BY <1>2, <2>1 DEF At
  <2>7. Client(r)'
    <3>1. Metered(r)'
      <4>1. CASE k = 0
        BY <1>12, <2>1, <2>2, <2>5, <2>6, <4>1, MeteredKept
      <4>2. CASE k = 1
        BY <1>11, <1>12, <2>1, <2>5, <2>6, <4>2, MeteredOnce
      <4>. QED
        BY <1>11, <4>1, <4>2
    <3>2. Complete(r)'
      BY <1>2, <1>12, <2>1 DEF Complete
    <3>3. Steered(r)'
      BY <1>1, <1>2, <2>1, <2>2, <2>6 DEF Client, Steered, Drives, Active, State, Owner
    <3>. QED
      BY <3>1, <3>2, <3>3 DEF Client
  <2>8. Lasting(s) /\ Paying(s, r) /\ Alone(s, r)
    <3>1. Alone(s, r)
      BY <1>2, <2>5, DriverAlone
    <3>2. Lasting(s)
      BY <1>2, <2>2 DEF Lasting
    <3>3. Paying(s, r)
      BY <1>11, <1>12, <2>1, <2>6 DEF Paying
    <3>. QED
      BY <3>1, <3>2, <3>3
  <2>. QED
    BY <1>2, <1>4, <2>2, <2>4, <2>5, <2>7, <2>8, DriverLift
<1>. QED
  BY <1>13, <1>14

(* A call is parked: the reply ends with it, and nobody drives the query.  *)
LEMMA KeepParkCall ==
  ASSUME IInv, NEW r \in Requests, ParkCall(r)
  PROVE  IInv'
<1>1. /\ Drives(r) /\ promise' = [promise EXCEPT ![At(r)] = NoPromise]
      /\ Handed(At(r)) /\ Goto(r, "done")
      /\ UNCHANGED <<heard, items, long, gone, sdk, frames>>
  BY DEF ParkCall, TakeCall, Offered
<1>2. PICK s \in Sessions :
        s = At(r) /\ Session(s) /\ Shapes /\ sess[s] \in Sess /\ out[r].end # "completed"
        /\ State(s) \in {"open", "returning", "closed"} /\ Client(r) /\ Owner(s) = r
        /\ Raced(s) /\ At(s) = s
        /\ \A n \in 1..MaxCalls : <<s, n>> \notin sessions \cup L!Pending
  BY <1>1, Pumping
<1>3. PICK n \in 1..MaxCalls : n = promise[s]
  BY <1>1, <1>2 DEF Handed
<1>4. /\ sess' = [sess EXCEPT ![s] = Parked(sess[s], n)]
      /\ L!Park(<<s, n>>) /\ sessions' = sessions \cup {<<s, n>>}
      /\ byRequest' = IF s = r THEN byRequest ELSE byRequest \ {r}
      /\ out' = [Ended(r, "tool_calls") EXCEPT ![r].call = n]
      /\ revived' = IF State(s) = "open" THEN revived ELSE revived \cup {s}
  BY <1>2, <1>3, Sorts DEF ParkCall, State
<1>5. /\ Shapes' /\ sess \in [Sessions -> Sess] /\ promise \in [Sessions -> 0..(MaxCalls + 1)]
      /\ ledger \in [Calls -> L!Statuses]
  BY <1>2, ShapesParkCall, Sorts
<1>6. frames[<<s, n>>] = "pending" /\ State(s) \in {"open", "returning"} /\ sess[s].tools
  BY <1>2, <1>3 DEF Session, Framed
<1>7. /\ State(s)' = State(s) /\ Owner(s)' = r /\ sess'[s].tools
      /\ sess'[s].aborted = sess[s].aborted /\ sess'[s].gate /\ sess'[s].parked = n
      /\ sess'[s].public = n /\ sess'[s].ttl
      /\ sess'[s].seen = sess[s].seen /\ sess'[s].used = sess[s].used
      /\ \A t \in Sessions : t # s => sess'[t] = sess[t]
  <2>1. sess'[s] = Parked(sess[s], n) /\ \A t \in Sessions : t # s => sess'[t] = sess[t]
    BY <1>4, <1>5
  <2>2. LET new == Parked(sess[s], n) IN
         /\ new.state = sess[s].state /\ new.tools = sess[s].tools
         /\ new.aborted = sess[s].aborted /\ new.gate /\ new.parked = n /\ new.public = n
         /\ new.owner = sess[s].owner /\ new.ttl
         /\ new.seen = sess[s].seen /\ new.used = sess[s].used
    BY <1>2, <1>3, ParkedFields
  <2>. QED
    BY <1>2, <1>6, <2>1, <2>2 DEF State, Owner
<1>8. /\ ledger[<<s, n>>] = "unborn" /\ ledger'[<<s, n>>] = "pending"
      /\ \A d \in Calls : d # <<s, n>> => ledger'[d] = ledger[d]
  <2>1. <<s, n>> \in Calls
    BY Constants
  <2>. QED
    BY <1>4, <1>5, <2>1 DEF L!Park
<1>9. /\ <<s, n>> \in sessions' \cap (L!Pending)'
      /\ \A k \in 1..MaxCalls : k # n => /\ <<s, k>> \notin sessions' \cup (L!Pending)'
                                         /\ ledger'[<<s, k>>] = ledger[<<s, k>>]
                                         /\ ledger[<<s, k>>] # "pending"
  <2>1. \A k \in 1..MaxCalls : <<s, k>> \in Calls
    BY Constants
  <2>2. \A k \in 1..MaxCalls : k # n => <<s, k>> # <<s, n>>
    OBVIOUS
  <2>. QED
    BY <1>2, <1>4, <1>8, <2>1, <2>2 DEF L!Pending
<1>10. /\ run'[r].pc = "done" /\ At(r)' = s
       /\ \A q \in Requests : q # r => run'[q] = run[q]
  BY <1>1, <1>2, WentFields
<1>11. /\ out'[r].end # "completed" /\ out'[r].usage = out[r].usage
       /\ \A q \in Requests : q # r => out'[q] = out[q]
  <2> DEFINE o == Ended(r, "tool_calls")
  <2>1. o \in [Requests -> OutRecs]
    BY <1>2, EndedShape
  <2>2. /\ o[r].end # "completed" /\ o[r].usage = out[r].usage
        /\ \A q \in Requests : q # r => o[q] = out[q]
    BY <1>2, Sorts DEF Ended, OutRecs
  <2> HIDE DEF o
  <2>3. o[r] \in OutRecs
    BY <2>1
  <2>4. out'[r] = [o[r] EXCEPT !.call = n] /\ \A q \in Requests : q # r => out'[q] = o[q]
    BY <1>4, <2>1 DEF o
  <2>. QED
    BY <2>2, <2>3, <2>4 DEF OutRecs
<1>12. At(s)' = s
  <2>1. CASE s = r
    BY <1>10, <2>1
  <2>2. CASE s # r
    BY <1>2, <1>10, <2>2, Constants DEF At
  <2>. QED
    BY <2>1, <2>2
<1>13. promise'[s] = NoPromise /\ \A t \in Sessions : t # s => promise'[t] = promise[t]
  BY <1>1, <1>2, <1>5
<1>14. /\ ~Raced(s)' /\ ~Active(r)'
       /\ revived \subseteq revived' /\ (State(s) = "open" => revived' = revived)
       /\ (State(s) # "open" => s \in revived')
  BY <1>4, <1>7, <1>10 DEF Raced, Active
<1>15. Session(s)'
  <2>1. Steady(s)'
    <3>1. State(s) = "open" => s \notin revived
      BY <1>2 DEF Session, Steady
    <3>2. /\ State(s) = "open" => ~sess[s].aborted
          /\ State(s) = "returning" => sess[s].aborted
      BY <1>2, <1>6 DEF Session, Steady
    <3>3. At(Owner(s))' = s
      BY <1>7, <1>10
    <3>. QED
      BY <1>6, <1>7, <1>12, <1>14, <3>1, <3>2, <3>3 DEF Steady
  <2>2. Called(s)'
    <3>1. State(s) = "returning" => sess[s].aborted
      BY <1>2 DEF Session, Steady
    <3>. QED
      BY <1>6, <1>7, <1>9, <1>14, <3>1 DEF Called
  <2>3. Guarded(s)' /\ Retires(s)'
    BY <1>7, <1>9, <1>13, <1>14 DEF Guarded, Retires
  <2>4. Framed(s)'
    <3>1. \A k \in 1..MaxCalls :
            frames'[<<s, k>>] = "pending" /\ State(s) = "open" => k = n
      BY <1>1, <1>2, <1>3 DEF Session, Framed
    <3>2. State(s) = "open" => items[s] = <<>>
      BY <1>2 DEF Session, Framed
    <3>. QED
      BY <1>1, <1>6, <1>7, <1>13, <1>14, <3>1, <3>2 DEF Framed
  <2>5. Delivered(s)'
    <3>1. SUFFICES ASSUME ~long, s \notin revived', NEW k \in 1..MaxCalls
                   PROVE  /\ ledger'[<<s, k>>] = "resolved" <=> frames[<<s, k>>] = "result"
                          /\ ledger'[<<s, k>>] = "pending" =>
                               sess'[s].parked = k /\ frames[<<s, k>>] = "pending"
      BY <1>1 DEF Delivered
    <3>2. ledger[<<s, k>>] = "resolved" <=> frames[<<s, k>>] = "result"
      BY <1>2, <1>14, <3>1 DEF Session, Delivered
    <3>3. CASE k = n
      BY <1>6, <1>7, <1>8, <3>3
    <3>4. CASE k # n
      BY <1>9, <3>2, <3>4
    <3>. QED
      BY <3>3, <3>4
  <2>6. Streamed(s)'
    BY <1>1, <1>2, <1>6, <1>7, <1>14, StreamKept
  <2>. QED
    BY <2>1, <2>2, <2>3, <2>4, <2>5, <2>6 DEF Session
<1>16. Apart(s, r)
  <2>1. \A t \in Sessions, k \in 1..MaxCalls : t # s => <<t, k>> # <<s, n>> /\ <<t, k>> \in Calls
    BY Constants
  <2>2. \A t \in Sessions : t # s => Same(t)
    BY <1>1, <1>4, <1>7, <1>8, <1>13, <2>1 DEF Same
  <2>. QED
    BY <1>1, <1>2, <1>4, <1>10, <1>11, <2>2 DEF Apart
<1>17. Client(r)'
  <2>1. Metered(r)'
    BY <1>2, <1>7, <1>10, <1>11, <1>16, MeteredKept
  <2>2. Complete(r)'
    BY <1>11 DEF Complete
  <2>3. State(At(r))' = State(s) /\ Owner(At(r))' = r /\ sess'[At(r)'].tools
    BY <1>7, <1>10 DEF State, Owner
  <2>4. r \in byRequest' => State(s) = "open"
    BY <1>2, <1>4 DEF Client, Steered
  <2>5. Steered(r)'
    BY <1>2, <1>10, <1>14, <2>3, <2>4 DEF Steered
  <2>. QED
    BY <2>1, <2>2, <2>5 DEF Client
<1>18. Lasting(s) /\ Paying(s, r) /\ Alone(s, r) /\ State(s)' # "none"
  <2>1. Alone(s, r)
    BY <1>2, <1>16, DriverAlone
  <2>. QED
    BY <1>2, <1>7, <1>11, <2>1 DEF Lasting, Paying
<1>. QED
  BY <1>5, <1>15, <1>16, <1>17, <1>18, DriverLift

(* A client's result for a parked call.                                    *)
Heard(s) == sess[s].parked # 0 /\ frames[<<s, sess[s].parked>>] = "pending"

LEMMA ContinuedFields ==
  ASSUME Shapes, NEW r \in Requests, NEW c \in Calls, Continue(r, c), NEW s \in Sessions, s = c[1]
  PROVE  /\ State(s)' = State(s) /\ Owner(s)' = r /\ sess'[s].tools = sess[s].tools
         /\ sess'[s].aborted = sess[s].aborted /\ sess'[s].parked = 0
         /\ sess'[s].seen = sess[s].seen /\ sess'[s].used = sess[s].used
         /\ Heard(s) => ~sess'[s].ttl
         /\ \A t \in Sessions : t # s => sess'[t] = sess[t]
         /\ Heard(s) => frames'[<<s, sess[s].parked>>] = "result"
         /\ \A t \in Sessions, k \in 1..MaxCalls :
              ~(Heard(s) /\ t = s /\ k = sess[s].parked) => frames'[<<t, k>>] = frames[<<t, k>>]
<1> DEFINE rec == [sess[s] EXCEPT !.public = 0, !.owner = r]
           low == [rec EXCEPT !.parked = 0]
<1>1. sess \in [Sessions -> Sess] /\ sess[s] \in Sess /\ frames \in [Calls -> FrameStatuses]
  BY Sorts
<1>2. CASE Heard(s)
  <2>1. /\ frames' = Answered(<<s, sess[s].parked>>, "result")
        /\ sess' = [sess EXCEPT ![s] = Resumed(rec)]
    BY <1>2 DEF Continue, Heard
  <2>2. /\ Resumed(rec).state = sess[s].state /\ Resumed(rec).tools = sess[s].tools
        /\ Resumed(rec).aborted = sess[s].aborted
        /\ Resumed(rec).parked = 0
        /\ Resumed(rec).owner = r /\ ~Resumed(rec).ttl
        /\ Resumed(rec).seen = sess[s].seen /\ Resumed(rec).used = sess[s].used
    BY <1>1, ResumedFields
  <2> HIDE DEF rec
  <2>3. sess'[s] = Resumed(rec) /\ \A t \in Sessions : t # s => sess'[t] = sess[t]
    BY <1>1, <2>1
  <2>4. <<s, sess[s].parked>> \in Calls
    <3>1. sess[s].parked \in 0..MaxCalls /\ sess[s].parked # 0
      BY <1>1, <1>2, SessFields DEF Heard
    <3>2. sess[s].parked \in 1..MaxCalls
      BY <3>1, Constants
    <3>. QED
      BY <3>2, Constants
  <2>5. frames'[<<s, sess[s].parked>>] = "result"
    BY <1>1, <1>2, <2>1, <2>4 DEF Answered, Heard
  <2>6. \A t \in Sessions, k \in 1..MaxCalls :
          ~(t = s /\ k = sess[s].parked) => frames'[<<t, k>>] = frames[<<t, k>>]
    <3>1. \A d \in Calls : d # <<s, sess[s].parked>> => frames'[d] = frames[d]
      BY <1>1, <2>1 DEF Answered
    <3>2. \A t \in Sessions, k \in 1..MaxCalls :
            <<t, k>> \in Calls /\ (<<t, k>> = <<s, sess[s].parked>> => t = s /\ k = sess[s].parked)
      BY Constants
    <3>. QED
      BY <3>1, <3>2
  <2>. QED
    BY <1>2, <2>2, <2>3, <2>5, <2>6 DEF State, Owner
<1>3. CASE ~Heard(s)
  <2>1. sess' = [sess EXCEPT ![s] = low] /\ frames' = frames
    BY <1>3 DEF Continue, Heard
  <2>2. /\ low.state = sess[s].state /\ low.tools = sess[s].tools
        /\ low.aborted = sess[s].aborted
        /\ low.parked = 0 /\ low.owner = r
        /\ low.seen = sess[s].seen /\ low.used = sess[s].used
    <3>1. low \in Sess
      BY <1>1, UnheardFields
    <3>. QED
      BY <1>1, <3>1 DEF Sess
  <2> HIDE DEF low
  <2>3. sess'[s] = low /\ \A t \in Sessions : t # s => sess'[t] = sess[t]
    BY <1>1, <2>1
  <2>. QED
    BY <1>3, <2>1, <2>2, <2>3 DEF State, Owner
<1>. QED
  BY <1>2, <1>3

LEMMA KeepContinue ==
  ASSUME IInv, NEW r \in Requests, NEW c \in Calls, Continue(r, c)
  PROVE  IInv'
<1>1. PICK s \in Sessions, n \in 1..MaxCalls : s = c[1] /\ n = c[2] /\ c = <<s, n>>
  BY Constants
<1>2. /\ run[r].pc = "idle" /\ L!SettleSome({c}, "resolved") /\ sessions' = sessions \ {c}
      /\ UNCHANGED <<long, sdk, gone, heard, revived>>
  BY DEF Continue, Arrives
<1>3. /\ ledger[c] = "pending" /\ ledger'[c] = "resolved"
      /\ \A d \in Calls : d # c => ledger'[d] = ledger[d]
  BY <1>2, SettledCalls
<1>4. Session(s) /\ Shapes /\ sess[s] \in Sess /\ Shapes'
  BY Basics, ShapesContinue
<1>5. /\ sess[s].tools /\ ~Active(Owner(s)) /\ ~Raced(s)
      /\ State(s) \in {"open", "returning", "closed"}
      /\ State(s) # "open" => s \in revived /\ sess[s].aborted
      /\ State(s) = "open" => ~sess[s].aborted /\ s \notin revived
  <2>1. <<s, n>> \in L!Pending
    BY <1>1, <1>3 DEF L!Pending
  <2>. QED
    BY <1>4, <2>1 DEF Session, Called, Steady, Raced, Active
<1>6. \A k \in 1..MaxCalls : /\ <<s, k>> \notin sessions' \cup (L!Pending)'
                             /\ k # n => ledger'[<<s, k>>] = ledger[<<s, k>>]
                             /\ ledger'[<<s, k>>] # "pending"
  <2>1. \A k \in 1..MaxCalls : k # n => <<s, k>> # c /\ <<s, k>> \notin sessions \cup L!Pending
    <3>1. <<s, n>> \in L!Pending
      BY <1>1, <1>3 DEF L!Pending
    <3>. QED
      BY <1>1, <1>4, <3>1 DEF Session, Called
  <2>2. \A k \in 1..MaxCalls : <<s, k>> \in Calls
    BY Constants
  <2>. QED
    BY <1>1, <1>2, <1>3, <2>1, <2>2 DEF L!Pending
<1>7. /\ State(s)' = State(s) /\ Owner(s)' = r /\ sess'[s].tools = sess[s].tools
      /\ sess'[s].aborted = sess[s].aborted /\ sess'[s].parked = 0
      /\ sess'[s].seen = sess[s].seen /\ sess'[s].used = sess[s].used
      /\ Heard(s) => ~sess'[s].ttl
      /\ \A t \in Sessions : t # s => sess'[t] = sess[t]
      /\ Heard(s) => frames'[<<s, sess[s].parked>>] = "result"
      /\ \A t \in Sessions, k \in 1..MaxCalls :
           ~(Heard(s) /\ t = s /\ k = sess[s].parked) => frames'[<<t, k>>] = frames[<<t, k>>]
  BY <1>1, <1>4, ContinuedFields
<1>8. /\ Client(r) /\ At(r) = Nobody /\ r \notin gone /\ r \notin byRequest
      /\ out[r].end = "none" /\ out[r].usage = 0 /\ Owner(s) # r /\ s # r
      /\ Owner(s) \in Requests /\ At(s) = s /\ At(Owner(s)) = s
  <2>1. State(s) # "none"
    BY <1>5
  <2>. QED
    BY <1>2, <2>1, Idle, Basics, Whereabouts
<1>9. \A t \in Sessions : t # s =>
        /\ sdk'[t] = sdk[t] /\ heard'[t] = heard[t] /\ (t \in revived' <=> t \in revived)
        /\ \A k \in 1..MaxCalls : /\ frames'[<<t, k>>] = frames[<<t, k>>]
                                  /\ <<t, k>> \in sessions' <=> <<t, k>> \in sessions
                                  /\ ledger'[<<t, k>>] = ledger[<<t, k>>]
  <2>1. \A t \in Sessions, k \in 1..MaxCalls : t # s => <<t, k>> # c /\ <<t, k>> \in Calls
    BY <1>1, Constants
  <2>. QED
    BY <1>2, <1>3, <1>7, <2>1
<1>10. CASE sess[s].aborted
  <2>1. /\ run' = [run EXCEPT ![r] = [pc |-> "done", at |-> s]]
        /\ out' = Ended(r, "silent")
        /\ byRequest' = byRequest \ {Owner(s)}
        /\ promise' = promise /\ items' = items
    BY <1>1, <1>10 DEF Continue, Owner
  <2>2. /\ run'[r].pc = "done" /\ At(r)' = s
        /\ \A q \in Requests : q # r => run'[q] = run[q] /\ out'[q] = out[q]
        /\ out'[r].end = "silent" /\ out'[r].usage = 0
    BY <1>4, <1>8, <2>1, Sorts, EndedFields DEF At
  <2>3. /\ ~Raced(s)' /\ State(s) \in {"returning", "closed"} /\ s \in revived'
        /\ At(s)' = s /\ At(Owner(s))' = s
    BY <1>2, <1>5, <1>7, <1>8, <1>10, <2>2, Constants DEF Raced, At
  <2>4. Session(s)'
    <3>1. Steady(s)'
      BY <1>5, <1>7, <1>10, <2>3 DEF Steady
    <3>2. Called(s)' /\ Guarded(s)' /\ Retires(s)'
      BY <1>6, <1>7, <2>3 DEF Called, Guarded, Retires
    <3>3. Framed(s)'
      <4>1. \A k \in 1..MaxCalls : frames'[<<s, k>>] = "pending" => State(s) = "returning"
        BY <1>4, <1>7, <2>3 DEF Session, Framed
      <4>. QED
        BY <1>5, <1>7, <2>3, <4>1 DEF Framed
    <3>4. Delivered(s)'
      BY <2>3 DEF Delivered
    <3>5. Streamed(s)'
      BY <1>2, <1>4, <1>7, <2>3, StreamKept
    <3>. QED
      BY <3>1, <3>2, <3>3, <3>4, <3>5 DEF Session
  <2>5. Apart(s, r)
    BY <1>2, <1>7, <1>8, <1>9, <2>1, <2>2 DEF Apart, Same
  <2>6. Client(r)'
    <3>1. Complete(r)' /\ Metered(r)'
      BY <2>2 DEF Complete, Metered
    <3>2. State(At(r))' # "none" /\ r \notin byRequest'
      BY <1>5, <1>7, <1>8, <2>1, <2>2 DEF State
    <3>. QED
      BY <2>2, <3>1, <3>2, DoneClient
  <2>7. Lasting(s) /\ Paying(s, r) /\ Alone(s, r) /\ State(s)' # "none"
    <3>1. Alone(s, r)
      BY <1>5, <2>1 DEF IInv, Client, Steered, Alone
    <3>2. Lasting(s)
      BY <1>2, <1>7, <2>3 DEF Lasting, Closed
    <3>. QED
      BY <1>5, <1>7, <2>2, <3>1, <3>2 DEF Paying
  <2>. QED
    BY <1>4, <2>4, <2>5, <2>6, <2>7, DriverLift
<1>11. CASE ~sess[s].aborted
  <2>1. /\ run' = [run EXCEPT ![r] = [pc |-> "race", at |-> s]] /\ out' = out
        /\ byRequest' = (byRequest \ {Owner(s)}) \cup {r} /\ Ask(s)
    BY <1>1, <1>11 DEF Continue, Rebound, Owner
  <2>2. State(s) = "open" /\ s \notin revived
    BY <1>5, <1>11
  <2>3. /\ run'[r].pc = "race" /\ At(r)' = s
        /\ \A q \in Requests : q # r => run'[q] = run[q]
    BY <1>4, <2>1, Sorts DEF At
  <2>4. /\ Raced(s)' /\ At(s)' = s /\ At(Owner(s))' = s
    BY <1>7, <1>8, <2>3, Constants DEF Raced, At
  <2>5. promise[s] = NoPromise /\ items[s] = <<>>
    BY <1>4, <1>5, <2>2 DEF Session, Guarded, Framed
  <2>6. /\ promise'[s] = Waiting /\ items' = items
        /\ \A t \in Sessions : t # s => promise'[t] = promise[t]
    <3>1. promise \in [Sessions -> 0..(MaxCalls + 1)]
      BY <1>4, Sorts
    <3>2. promise' = [promise EXCEPT ![s] = Waiting] /\ items' = items
      BY <2>1, <2>5 DEF Ask
    <3>. QED
      BY <3>1, <3>2
  <2>7. Waiting # NoPromise /\ Waiting \notin 1..MaxCalls
    BY Constants DEF Waiting, NoPromise
  <2>8. \A k \in 1..MaxCalls : frames'[<<s, k>>] # "pending"
    <3>1. SUFFICES ASSUME NEW k \in 1..MaxCalls, frames'[<<s, k>>] = "pending" PROVE FALSE
      OBVIOUS
    <3>2. CASE Heard(s) /\ k = sess[s].parked
      BY <1>7, <3>1, <3>2
    <3>3. CASE ~(Heard(s) /\ k = sess[s].parked)
      <4>1. frames[<<s, k>>] = "pending"
        BY <1>7, <3>1, <3>3
      <4>2. k = sess[s].parked /\ k # 0
        BY <1>4, <2>2, <2>5, <4>1 DEF Session, Framed, NoPromise
      <4>. QED
        BY <3>3, <4>1, <4>2 DEF Heard
    <3>. QED
      BY <3>2, <3>3
  <2>9. ~long => Heard(s) /\ sess[s].parked = n
    <3>1. SUFFICES ASSUME ~long PROVE Heard(s) /\ sess[s].parked = n
      OBVIOUS
    <3>2. sess[s].parked = n /\ frames[<<s, n>>] = "pending"
      BY <1>1, <1>3, <1>4, <2>2, <3>1 DEF Session, Delivered
    <3>. QED
      BY <3>2 DEF Heard
  <2>10. Session(s)'
    <3>1. Steady(s)'
      BY <1>2, <1>5, <1>7, <1>11, <2>1, <2>2, <2>4 DEF Steady
    <3>2. Called(s)' /\ Guarded(s)' /\ Retires(s)'
      BY <1>2, <1>6, <1>7, <2>4, <2>9 DEF Called, Guarded, Retires
    <3>3. Framed(s)'
      BY <1>5, <1>7, <2>2, <2>5, <2>6, <2>7, <2>8 DEF Framed
    <3>4. Delivered(s)'
      <4>1. SUFFICES ASSUME ~long, NEW k \in 1..MaxCalls
                     PROVE  ledger'[<<s, k>>] = "resolved" <=> frames'[<<s, k>>] = "result"
        BY <1>2, <1>6 DEF Delivered
      <4>2. CASE k = n
        BY <1>1, <1>3, <1>7, <2>9, <4>1, <4>2
      <4>3. CASE k # n
        <5>1. ledger[<<s, k>>] = "resolved" <=> frames[<<s, k>>] = "result"
          BY <1>4, <2>2, <4>1 DEF Session, Delivered
        <5>2. ledger'[<<s, k>>] = ledger[<<s, k>>] /\ frames'[<<s, k>>] = frames[<<s, k>>]
          BY <1>6, <1>7, <2>9, <4>1, <4>3
        <5>. QED
          BY <5>1, <5>2
      <4>. QED
        BY <4>2, <4>3
    <3>5. Streamed(s)'
      BY <1>2, <1>4, <1>7, <2>2, StreamKept
    <3>. QED
      BY <3>1, <3>2, <3>3, <3>4, <3>5 DEF Session
  <2>11. Apart(s, r)
    BY <1>2, <1>7, <1>8, <1>9, <2>1, <2>3, <2>6 DEF Apart, Same
  <2>12. Client(r)'
    <3>1. Complete(r)' /\ Metered(r)'
      BY <1>8, <2>1 DEF Complete, Metered
    <3>2. State(At(r))' = "open" /\ Owner(At(r))' = r /\ sess'[At(r)'].tools
      BY <1>5, <1>7, <2>2, <2>3 DEF State, Owner
    <3>3. Steered(r)'
      BY <2>3, <3>2 DEF Steered, State
    <3>. QED
      BY <3>1, <3>3 DEF Client
  <2>13. Lasting(s) /\ Paying(s, r) /\ Alone(s, r) /\ State(s)' # "none"
    <3>1. Alone(s, r)
      BY <1>5, <2>1 DEF IInv, Client, Steered, Alone
    <3>2. Lasting(s)
      BY <1>7, <2>2 DEF Lasting, Closed
    <3>. QED
      BY <1>7, <1>8, <2>1, <2>2, <3>1, <3>2 DEF Paying
  <2>. QED
    BY <1>4, <2>10, <2>11, <2>12, <2>13, DriverLift
<1>. QED
  BY <1>10, <1>11

-------------------------------------------------------------------------------
(* The invariant holds at the start, and every step keeps it.              *)
LEMMA Initially ==
  ASSUME Init
  PROVE  IInv
<1>1. Nobody \notin Sessions /\ Sessions \subseteq Requests /\ MaxCalls \in Nat
  BY Constants
<1>2. /\ frames = [c \in Calls |-> "unsent"] /\ promise = [s \in Sessions |-> NoPromise]
      /\ items = [s \in Sessions |-> <<>>]
      /\ ledger = [c \in Calls |-> "unborn"]
      /\ sessions = {} /\ byRequest = {} /\ gone = {} /\ revived = {} /\ long \in BOOLEAN
      /\ run = [r \in Requests |-> [pc |-> "idle", at |-> Nobody]]
      /\ out = [r \in Requests |-> [end |-> "none", call |-> 0, usage |-> 0]]
      /\ heard = [s \in Sessions |-> <<>>]
  BY DEF Init, ChannelInit, L!LedgerInit
<1>3. /\ sess = [s \in Sessions |->
           [state |-> "none", tools |-> FALSE, aborted |-> FALSE, gate |-> FALSE,
            parked |-> 0, public |-> 0, owner |-> s, ttl |-> FALSE,
            seen |-> FALSE, used |-> FALSE]]
      /\ sdk = [s \in Sessions |->
           [on |-> FALSE, partial |-> FALSE, said |-> 0, unread |-> <<>>]]
  BY DEF Init
<1>4. Shapes
  <2>1. frames \in [Calls -> FrameStatuses] /\ ledger \in [Calls -> L!Statuses]
    BY <1>2 DEF FrameStatuses, L!Statuses
  <2>2. promise \in [Sessions -> 0..(MaxCalls + 1)] /\ items \in [Sessions -> Seq(1..MaxCalls)]
        /\ heard \in [Sessions -> Seq(Nat)]
    BY <1>1, <1>2 DEF NoPromise
  <2>3. run \in [Requests -> RunRecs] /\ out \in [Requests -> OutRecs]
    BY <1>2 DEF RunRecs, OutRecs
  <2>4. sess \in [Sessions -> Sess]
    <3>1. \A s \in Sessions :
            [state |-> "none", tools |-> FALSE, aborted |-> FALSE, gate |-> FALSE,
             parked |-> 0, public |-> 0, owner |-> s, ttl |-> FALSE,
             seen |-> FALSE, used |-> FALSE] \in Sess
      BY <1>1 DEF Sess
    <3>. QED
      BY <1>3, <3>1
  <2>5. sdk \in [Sessions -> SdkRecs]
    <3>1. [on |-> FALSE, partial |-> FALSE, said |-> 0, unread |-> <<>>] \in SdkRecs
      BY DEF SdkRecs
    <3>. QED
      BY <1>3, <3>1
  <2>. QED
    BY <1>2, <2>1, <2>2, <2>3, <2>4, <2>5 DEF Shapes
<1>5. ASSUME NEW s \in Sessions PROVE Session(s)
  <2>1. Fresh(s) /\ State(s) = "none" /\ Owner(s) = s /\ ~sess[s].tools /\ ~sess[s].ttl
        /\ sess[s].parked = 0 /\ ~sess[s].seen
    BY <1>2, <1>3 DEF Fresh, State, Owner
  <2>2. /\ promise[s] = NoPromise /\ items[s] = <<>> /\ heard[s] = <<>>
        /\ ~sdk[s].on /\ ~sdk[s].partial /\ sdk[s].said = 0 /\ sdk[s].unread = <<>>
    BY <1>2, <1>3
  <2>3. \A n \in 1..MaxCalls : /\ frames[<<s, n>>] = "unsent" /\ ledger[<<s, n>>] = "unborn"
                               /\ <<s, n>> \notin sessions \cup L!Pending
    BY <1>2, Constants DEF L!Pending
  <2>4. run[s].pc = "idle" /\ ~Raced(s)
    BY <1>1, <1>2, <2>1 DEF Raced
  <2>5. Steady(s) /\ Called(s) /\ Guarded(s) /\ Retires(s)
    BY <2>1, <2>3, <2>4 DEF Steady, Called, Guarded, Retires
  <2>6. Framed(s) /\ Delivered(s)
    BY <2>1, <2>2, <2>3, <2>4 DEF Framed, Delivered
  <2>7. Streamed(s)
    <3>1. Unread(sdk[s], 0)
      BY <2>2 DEF Unread
    <3>2. Follows(s, 0)
      BY <2>1, <2>2 DEF Follows, Begun
    <3>3. heard[s] = [i \in 1..Len(heard[s]) |-> i]
      BY <2>2
    <3>. QED
      BY <2>2, <3>1, <3>2, <3>3 DEF Streamed
  <2>. QED
    BY <2>5, <2>6, <2>7 DEF Session
<1>6. ASSUME NEW r \in Requests PROVE Client(r)
  <2>1. /\ run[r].pc = "idle" /\ At(r) = Nobody /\ r \notin gone /\ r \notin byRequest
        /\ out[r] = [end |-> "none", call |-> 0, usage |-> 0]
    BY <1>2 DEF At
  <2>2. Steered(r)
    BY <1>1, <2>1 DEF Steered, Active
  <2>3. Complete(r) /\ Metered(r)
    BY <2>1 DEF Complete, Metered
  <2>. QED
    BY <2>2, <2>3 DEF Client
<1>. QED
  BY <1>4, <1>5, <1>6 DEF IInv

LEMMA Steps ==
  ASSUME IInv, [Next]_vars
  PROVE  IInv'
<1>1. ASSUME NEW r \in Requests, Request(r) PROVE IInv'
  BY <1>1, KeepOpen, KeepContinue, KeepUnmatched, KeepHangUp DEF Request
<1>2. ASSUME NEW r \in Requests, Start(r) PROVE IInv'
  BY <1>2, KeepStart
<1>3. ASSUME NEW r \in Requests, PumpStep(r) PROVE IInv'
  BY <1>3, KeepTakeText, KeepTakeResult, KeepTakeEnd, KeepEndFailed, KeepRefuseCall,
     KeepParkCall DEF PumpStep
<1>4. ASSUME NEW r \in Requests, NEW left \in {"closed", "leaked"}, StartFails(r, left)
      PROVE  IInv'
  BY <1>4, KeepStartFails
<1>5. ASSUME NEW s \in Sessions, Deadline(s) \/ ReceiveCall(s) \/ Returned(s) \/ Sdk(s)
      PROVE  IInv'
  BY <1>5, KeepDeadline, KeepReceiveCall, KeepReturned, KeepSdk
<1>6. ASSUME NEW c \in Calls, FrameExpires(c) \/ LoseFrame(c) PROVE IInv'
  BY <1>6, KeepFrameExpires, KeepLoseFrame
<1>7. ASSUME NEW n \in {0, MaxPending}, OthersPark(n) PROVE IInv'
  BY <1>7, KeepNothing DEF OthersPark, channelVars
<1>8. ASSUME UNCHANGED vars PROVE IInv'
  BY <1>8, KeepNothing DEF vars, channelVars
<1>. QED
  BY <1>1, <1>2, <1>3, <1>4, <1>5, <1>6, <1>7, <1>8 DEF Next

-------------------------------------------------------------------------------
(* The invariant holds: every live query has one request that drives it,   *)
(* or one parked call with a deadline, whatever order messages, calls,     *)
(* results, timers, failures and hang-ups come in (ClaudeAdapter).         *)
THEOREM Invariance == Spec => []IInv
<1>1. Init => IInv
  BY Initially
<1>2. IInv /\ [Next]_vars => IInv'
  BY Steps
<1>. QED
  BY <1>1, <1>2, PTL DEF Spec

(* A driven session is one whose owner is in its race.                     *)
LEMMA RacedIsDriven ==
  ASSUME IInv, NEW s \in Sessions, State(s) # "none"
  PROVE  Raced(s) <=> Driven(s)
<1>1. Owner(s) \in Requests /\ At(Owner(s)) = s
  BY Basics, Whereabouts
<1>2. \A r \in Requests : Drives(r) /\ At(r) = s => Owner(s) = r
  BY Drivers DEF Active, Drives
<1>. QED
  BY <1>1, <1>2 DEF Raced, Driven, Drives

(* The text of a conversation reaches its clients in order, each item      *)
(* once, whoever drives the query when it comes; a reply that is complete  *)
(* has all of it, and the usage is told to one client only                 *)
(* (drainSession, drainPlain).                                             *)
THEOREM TextsAreFaithful == Spec => []RepliesFaithful
<1>1. IInv => RepliesFaithful
  <2>. SUFFICES ASSUME IInv, NEW s \in Sessions
                PROVE  /\ heard[s] = [i \in 1..Len(heard[s]) |-> i]
                       /\ \A r \in Requests :
                            At(r) = s /\ out[r].end = "completed" => Len(heard[s]) = Items(s)
                       /\ \A q, r \in Requests :
                            At(q) = s /\ At(r) = s /\ out[q].usage > 0 /\ out[r].usage > 0
                              => q = r /\ out[r].usage = 1
    BY DEF RepliesFaithful
  <2>1. heard[s] = [i \in 1..Len(heard[s]) |-> i]
    BY DEF IInv, Session, Streamed
  <2>2. ASSUME NEW r \in Requests, At(r) = s, out[r].end = "completed"
        PROVE  Len(heard[s]) = Items(s)
    <3>1. Len(heard[s]) = Begun(sdk[s].partial, sdk[s].said)
      BY <2>2 DEF IInv, Client, Complete
    <3>. QED
      BY <3>1 DEF Begun, Items
  <2>3. ASSUME NEW q \in Requests, NEW r \in Requests, At(q) = s, At(r) = s,
               out[q].usage > 0, out[r].usage > 0
        PROVE  q = r /\ out[r].usage = 1
    <3>1. Metered(r)
      BY DEF IInv, Client
    <3>2. out[r].usage = 1 /\ (q # r => out[q].usage = 0)
      BY <2>3, <3>1 DEF Metered
    <3>. QED
      BY <2>3, <3>2
  <2>. QED
    BY <2>1, <2>2, <2>3
<1>. QED
  BY <1>1, Invariance, PTL

(* A live query that no request drives is parked, with a deadline, and can *)
(* be continued or times out (parkToolCall).                               *)
THEOREM UndrivenQueriesAreGuarded == Spec => []UndrivenIsGuarded
<1>1. IInv => UndrivenIsGuarded
  <2>. SUFFICES ASSUME IInv, NEW s \in Sessions, sess[s].state = "open", ~Driven(s)
                PROVE  /\ sess[s].ttl /\ sess[s].gate
                       /\ <<s, sess[s].public>> \in sessions \cap L!Pending
    BY DEF UndrivenIsGuarded
  <2>1. State(s) = "open" /\ Session(s)
    BY Basics DEF State
  <2>2. ~Raced(s)
    BY <2>1, RacedIsDriven
  <2>. QED
    BY <2>1, <2>2 DEF Session, Guarded
<1>. QED
  BY <1>1, Invariance, PTL

(* No deadline runs against a session that is being driven, as long as it  *)
(* does not outlast the frame's (run retires it with the result).          *)
THEOREM DeadlinesAreRetired == Spec => []DeadlineRetired
<1>1. IInv => DeadlineRetired
  <2>. SUFFICES ASSUME IInv, NEW s \in Sessions, ~long, sess[s].ttl, Driven(s)
                PROVE  FALSE
    BY DEF DeadlineRetired
  <2>1. Session(s) /\ sess[s] \in Sess
    BY Basics
  <2>2. ~Raced(s)
    BY <2>1 DEF Session, Retires
  <2>3. State(s) # "none"
    BY <2>1 DEF Session, Steady, Fresh
  <2>. QED
    BY <2>2, <2>3, RacedIsDriven
<1>. QED
  BY <1>1, Invariance, PTL

(* A result that was accepted from a client has reached the frame it was   *)
(* for, and no frame was answered otherwise (run, replacing a parked call  *)
(* by its result).                                                         *)
THEOREM AcceptedResultsArrive == Spec => []ResultsDelivered
<1>1. IInv => ResultsDelivered
  <2>. SUFFICES ASSUME IInv, NEW c \in Calls, ~long, c[1] \notin revived
                PROVE  ledger[c] = "resolved" <=> frames[c] = "result"
    BY DEF ResultsDelivered
  <2>1. c[1] \in Sessions /\ c[2] \in 1..MaxCalls /\ c = <<c[1], c[2]>>
    BY Constants
  <2>2. Session(c[1])
    BY <2>1, Basics
  <2>. QED
    BY <2>1, <2>2 DEF Session, Delivered
<1>. QED
  BY <1>1, Invariance, PTL

(* No frame of the bridge is left to itself: one that is not answered is   *)
(* parked, or its session's pump or closeSession will come to it.          *)
THEOREM NoFrameIsForgotten == Spec => []FramesAccounted
<1>1. IInv => FramesAccounted
  <2>. SUFFICES ASSUME IInv, NEW c \in Calls, frames[c] = "pending", NEW s, s = c[1]
                PROVE  \/ sess[s].state = "returning"
                       \/ sess[s].state = "open" /\ ~Driven(s) /\ sess[s].parked = c[2]
                       \/ sess[s].state = "open" /\ Driven(s) /\ promise[s] = c[2]
    BY DEF FramesAccounted
  <2>1. s \in Sessions /\ c[2] \in 1..MaxCalls /\ c = <<s, c[2]>>
    BY Constants
  <2>2. Session(s)
    BY <2>1, Basics
  <2>3. /\ State(s) \in {"open", "returning"}
        /\ State(s) = "open" => c[2] \in {promise[s], sess[s].parked}
    BY <2>1, <2>2 DEF Session, Framed
  <2>4. Driven(s) => sess[s].parked = 0
    BY <2>1, <2>2, <2>3, RacedIsDriven DEF Session, Framed
  <2>5. State(s) = "open" /\ ~Driven(s) => promise[s] = NoPromise
    BY <2>1, <2>2, <2>3, RacedIsDriven DEF Session, Guarded
  <2>6. c[2] # 0 /\ c[2] # NoPromise
    BY <2>1, Constants DEF NoPromise
  <2>. QED
    BY <2>3, <2>4, <2>5, <2>6 DEF State
<1>. QED
  BY <1>1, Invariance, PTL

-------------------------------------------------------------------------------
(* Types: what the shapes leave open is how much is queued and unread.     *)
Queues(s) ==
  /\ Len(items[s]) <= QueueSize
  /\ Len(sdk[s].unread) <= IF sdk[s].on THEN MaxUnread ELSE MaxUnread + 1
Bounded == others \in {0, MaxPending} /\ \A s \in Sessions : Queues(s)

(* A queue of frames is only taken from, or gains one while there is room. *)
Moves(s) ==
  \/ items'[s] = items[s]
  \/ items[s] # <<>> /\ items'[s] = Tail(items[s])
  \/ \E n \in 1..MaxCalls : Len(items[s]) < QueueSize /\ items'[s] = Append(items[s], n)

(* Unread messages are only read, or gain one while the query is on.       *)
Flows(s) ==
  \/ sdk'[s].unread = sdk[s].unread /\ (sdk'[s].on => sdk[s].on \/ sdk[s].unread = <<>>)
  \/ /\ sdk[s].unread # <<>> /\ sdk'[s].unread = Tail(sdk[s].unread)
     /\ sdk'[s].on = sdk[s].on
  \/ \E m \in (Texts \cup Closers) \X Nat :
       /\ sdk[s].on /\ sdk'[s].unread = Append(sdk[s].unread, m)
       /\ sdk'[s].on => Len(sdk[s].unread) < MaxUnread

LEMMA QueuesKept ==
  ASSUME Shapes, NEW s \in Sessions, Queues(s), Moves(s), Flows(s)
  PROVE  Queues(s)'
<1>1. /\ items[s] \in Seq(1..MaxCalls) /\ sdk[s].unread \in Seq((Texts \cup Closers) \X Nat)
      /\ Len(items[s]) \in Nat /\ Len(sdk[s].unread) \in Nat
      /\ QueueSize \in Nat /\ MaxUnread \in Nat /\ sdk[s].on \in BOOLEAN
  BY Sorts, SdkFields, BoundsAssumption, FramesAssumption DEF Shapes
<1>2. Len(items'[s]) <= QueueSize
  <2>1. CASE items'[s] = items[s]
    BY <2>1 DEF Queues
  <2>2. CASE items[s] # <<>> /\ items'[s] = Tail(items[s])
    <3>1. Len(Tail(items[s])) = Len(items[s]) - 1
      BY <1>1, <2>2
    <3>. QED
      BY <1>1, <2>2, <3>1 DEF Queues
  <2>3. CASE \E n \in 1..MaxCalls : Len(items[s]) < QueueSize /\ items'[s] = Append(items[s], n)
    BY <1>1, <2>3
  <2>. QED
    BY <2>1, <2>2, <2>3 DEF Moves
<1>3. Len(sdk'[s].unread) <= IF sdk'[s].on THEN MaxUnread ELSE MaxUnread + 1
  <2>1. Len(sdk[s].unread) <= IF sdk[s].on THEN MaxUnread ELSE MaxUnread + 1
    BY DEF Queues
  <2>2. CASE sdk'[s].unread = sdk[s].unread /\ (sdk'[s].on => sdk[s].on \/ sdk[s].unread = <<>>)
    <3>1. CASE sdk[s].on
      BY <1>1, <2>1, <2>2, <3>1
    <3>2. CASE sdk[s].unread = <<>>
      BY <1>1, <2>2, <3>2
    <3>3. CASE ~sdk'[s].on
      BY <1>1, <2>1, <2>2, <3>3
    <3>. QED
      BY <2>2, <3>1, <3>2, <3>3
  <2>3. CASE /\ sdk[s].unread # <<>> /\ sdk'[s].unread = Tail(sdk[s].unread)
             /\ sdk'[s].on = sdk[s].on
    <3>1. Len(Tail(sdk[s].unread)) = Len(sdk[s].unread) - 1
      BY <1>1, <2>3
    <3>. QED
      BY <1>1, <2>1, <2>3, <3>1
  <2>4. ASSUME NEW m \in (Texts \cup Closers) \X Nat,
               sdk[s].on /\ sdk'[s].unread = Append(sdk[s].unread, m),
               sdk'[s].on => Len(sdk[s].unread) < MaxUnread
        PROVE  Len(sdk'[s].unread) <= IF sdk'[s].on THEN MaxUnread ELSE MaxUnread + 1
    <3>1. Len(sdk'[s].unread) = Len(sdk[s].unread) + 1
      BY <1>1, <2>4, AppendProperties
    <3>. QED
      BY <1>1, <2>1, <2>4, <3>1
  <2>. QED
    BY <2>2, <2>3, <2>4 DEF Flows
<1>. QED
  BY <1>2, <1>3 DEF Queues

(* The steps that touch neither.                                           *)
LEMMA StaysBounded ==
  ASSUME Shapes, Bounded, others' \in {0, MaxPending},
         \A s \in Sessions : Moves(s) /\ Flows(s)
  PROVE  Bounded'
BY QueuesKept DEF Bounded

LEMMA AskMoves ==
  ASSUME Shapes, NEW s \in Sessions, Ask(s)
  PROVE  \A t \in Sessions : Moves(t)
<1>1. items \in [Sessions -> Seq(1..MaxCalls)]
  BY DEF Shapes
<1>2. CASE promise[s] # NoPromise \/ items[s] = <<>>
  BY <1>2 DEF Ask, Moves
<1>3. CASE promise[s] = NoPromise /\ items[s] # <<>>
  <2>1. items' = [items EXCEPT ![s] = Tail(items[s])]
    BY <1>1, <1>3 DEF Ask
  <2>. QED
    BY <1>1, <1>3, <2>1 DEF Moves
<1>. QED
  BY <1>2, <1>3

LEMMA BoundedStep ==
  ASSUME IInv, Bounded, [Next]_vars
  PROVE  Bounded'
<1>1. /\ Shapes /\ others \in {0, MaxPending}
      /\ items \in [Sessions -> Seq(1..MaxCalls)] /\ sdk \in [Sessions -> SdkRecs]
      /\ run \in [Requests -> RunRecs]
  BY Sorts DEF IInv, Bounded, Shapes
<1>2. \A s \in Sessions : State(s) \in {"none", "starting"} => sdk[s].unread = <<>>
  BY DEF IInv, Session, Streamed
<1>3. ASSUME UNCHANGED <<items, sdk, others>> PROVE Bounded'
  BY <1>1, <1>3, StaysBounded DEF Moves, Flows
<1>4. ASSUME NEW r \in Requests, Request(r) PROVE Bounded'
  <2>1. ASSUME NEW tools \in BOOLEAN, NEW partial \in BOOLEAN, Open(r, tools, partial)
        PROVE  Bounded'
    <3>1. /\ r \in Sessions /\ UNCHANGED <<items, others>>
          /\ sdk' = [sdk EXCEPT ![r].on = ~tools, ![r].partial = partial]
      BY <2>1 DEF Open, channelVars
    <3>2. State(r) \in {"none", "starting"}
      <4>1. run[r].pc = "idle" /\ r \in Requests
        BY <2>1 DEF Open, Arrives
      <4>2. At(r) = Nobody /\ r # Nobody
        BY <2>1, <4>1, Constants DEF IInv, Client, Steered, Open
      <4>. QED
        BY <3>1, <4>2 DEF IInv, Session, Steady
    <3>3. sdk'[r].unread = sdk[r].unread
      BY <1>1, <3>1 DEF SdkRecs
    <3>4. \A s \in Sessions : s # r => sdk'[s] = sdk[s]
      BY <1>1, <3>1
    <3>. QED
      BY <1>1, <1>2, <3>1, <3>2, <3>3, <3>4, StaysBounded DEF Moves, Flows
  <2>2. ASSUME NEW c \in Calls, Continue(r, c) PROVE Bounded'
    <3>1. UNCHANGED <<sdk, others>> /\ c[1] \in Sessions
          /\ (Ask(c[1]) \/ UNCHANGED items)
      BY <2>2 DEF Continue, Calls
    <3>. QED
      BY <1>1, <3>1, AskMoves, StaysBounded DEF Moves, Flows
  <2>3. ASSUME ContinueUnmatched(r) \/ HangUp(r) PROVE Bounded'
    BY <1>3, <2>3 DEF ContinueUnmatched, HangUp, channelVars
  <2>. QED
    BY <1>4, <2>1, <2>2, <2>3 DEF Request
<1>5. ASSUME NEW r \in Requests, Start(r) PROVE Bounded'
  <2>1. /\ UNCHANGED others /\ sdk' = [sdk EXCEPT ![r].on = TRUE]
        /\ Ask(r) \/ UNCHANGED items
    BY <1>5 DEF Start, channelVars
  <2>2. r \in Sessions /\ State(r) = "starting"
    BY <1>5 DEF Start, IInv, Client, Steered, Active
  <2>3. /\ sdk'[r].unread = sdk[r].unread
        /\ \A s \in Sessions : s # r => sdk'[s] = sdk[s]
    BY <1>1, <2>1, <2>2 DEF SdkRecs
  <2>. QED
    BY <1>1, <1>2, <2>1, <2>2, <2>3, AskMoves, StaysBounded DEF Moves, Flows
<1>6. ASSUME NEW r \in Requests, PumpStep(r) PROVE Bounded'
  <2>1. UNCHANGED <<items, others>>
    BY <1>6 DEF PumpStep, TakeText, TakeResult, TakeEnd, EndFailed, RefuseCall, ParkCall,
                TakeCall, PumpFrame
  <2>2. CASE UNCHANGED sdk
    BY <1>3, <2>1, <2>2
  <2>3. CASE Reading(r) /\ Read(r)
    <3>1. At(r) \in Sessions
      BY <2>3 DEF Reading, Drives, IInv, Client, Steered, Active
    <3>2. /\ sdk'[At(r)] = [sdk[At(r)] EXCEPT !.unread = Tail(sdk[At(r)].unread)]
          /\ \A t \in Sessions : t # At(r) => sdk'[t] = sdk[t]
      BY <1>1, <2>3, <3>1, ReadShape
    <3>3. sdk'[At(r)].unread = Tail(sdk[At(r)].unread) /\ sdk'[At(r)].on = sdk[At(r)].on
      BY <1>1, <3>1, <3>2 DEF SdkRecs
    <3>4. sdk[At(r)].unread # <<>>
      BY <2>3 DEF Reading
    <3>. QED
      BY <1>1, <2>1, <3>1, <3>2, <3>3, <3>4, StaysBounded DEF Moves, Flows
  <2>. QED
    BY <1>6, <2>2, <2>3 DEF PumpStep, TakeText, TakeResult, TakeEnd, EndFailed, RefuseCall,
                            ParkCall, TakeCall
<1>7. ASSUME NEW r \in Requests, NEW left \in {"closed", "leaked"}, StartFails(r, left)
      PROVE  Bounded'
  BY <1>3, <1>7 DEF StartFails, channelVars
<1>8. ASSUME NEW s \in Sessions, Deadline(s) \/ Returned(s) PROVE Bounded'
  BY <1>3, <1>8 DEF Deadline, Returned, EventFrame
<1>9. ASSUME NEW s \in Sessions, ReceiveCall(s) PROVE Bounded'
  <2>1. UNCHANGED <<sdk, others>> /\ ReceiveFrame(s, sess[s].gate)
    BY <1>9 DEF ReceiveCall, EventFrame
  <2> DEFINE n == CHOOSE k \in Unsent(s) : \A j \in Unsent(s) : k <= j
  <2>2. n \in 1..MaxCalls
    BY <2>1, FirstUnsent DEF ReceiveFrame
  <2>3. \/ UNCHANGED items
        \/ /\ Len(items[s]) < QueueSize
           /\ items' = [items EXCEPT ![s] = Append(items[s], n)]
    BY <1>1, <2>1 DEF ReceiveFrame, Push, Accepts
  <2> HIDE DEF n
  <2>. QED
    BY <1>1, <2>1, <2>2, <2>3, StaysBounded DEF Moves, Flows
<1>10. ASSUME NEW s \in Sessions, Sdk(s) PROVE Bounded'
  <2>1. /\ sdk[s].on /\ UNCHANGED <<items, others>>
        /\ \A t \in Sessions : t # s => sdk'[t] = sdk[t]
        /\ \E m \in (Texts \cup Closers) \X Nat : sdk'[s].unread = Append(sdk[s].unread, m)
    <3>1. \A how \in Closers : <<how, 0>> \in (Texts \cup Closers) \X Nat
      OBVIOUS
    <3>2. Said(sdk[s].partial, sdk[s].said + 1) \in (Texts \cup Closers) \X Nat
      BY <1>1, SdkFields, SaidShape
    <3>. QED
      BY <1>1, <1>10, <3>1, <3>2, SdkSteps
  <2>2. sdk'[s].on => Len(sdk[s].unread) < MaxUnread
    BY <1>1, <1>10 DEF Sdk, SdkText, SdkResult, SdkStops, Says, SdkRecs
  <2>. QED
    BY <1>1, <2>1, <2>2, StaysBounded DEF Moves, Flows
<1>11. ASSUME NEW c \in Calls, FrameExpires(c) \/ LoseFrame(c) PROVE Bounded'
  BY <1>3, <1>11 DEF FrameExpires, LoseFrame, EventFrame
<1>12. ASSUME NEW n \in {0, MaxPending}, OthersPark(n) PROVE Bounded'
  BY <1>1, <1>12, StaysBounded DEF OthersPark, channelVars, Moves, Flows
<1>13. ASSUME UNCHANGED vars PROVE Bounded'
  BY <1>3, <1>13 DEF vars, channelVars
<1>. QED
  BY <1>4, <1>5, <1>6, <1>7, <1>8, <1>9, <1>10, <1>11, <1>12, <1>13 DEF Next

(* Every variable keeps its type; in particular the hand-off queue never   *)
(* holds more than its bound (BoundedQueue), and a query is at most        *)
(* MaxUnread messages ahead, and how it ended.                             *)
THEOREM Typed == Spec => []TypeOK
<1>1. Init => Bounded
  BY BoundsAssumption, FramesAssumption DEF Init, ChannelInit, Bounded, Queues
<1>2. IInv /\ Bounded /\ [Next]_vars => Bounded'
  BY BoundedStep
<1>3. IInv /\ Bounded => TypeOK
  <2> SUFFICES ASSUME IInv, Bounded PROVE TypeOK
    OBVIOUS
  <2>1. Shapes
    BY DEF IInv
  <2>2. ChannelTypeOK
    BY <2>1, Constants DEF Shapes, ChannelTypeOK, Bounded, Queues, NoPromise, Waiting
  <2>3. \A r \in Requests : out[r].end \in {"none", "silent", "completed", "error", "tool_calls"}
    BY <2>1 DEF Shapes, OutRecs
  <2>4. \A s \in Sessions : Len(sdk[s].unread) <= MaxUnread + 1
    <3> TAKE s \in Sessions
    <3>1. Len(sdk[s].unread) \in Nat /\ MaxUnread \in Nat
      BY <2>1, Sorts, SdkFields, BoundsAssumption
    <3>. QED
      BY <3>1 DEF Bounded, Queues
  <2>. QED
    BY <2>1, <2>2, <2>3, <2>4 DEF TypeOK, Shapes, Bounded, RunRecs
<1>. QED
  BY <1>1, <1>2, <1>3, Invariance, PTL DEF Spec

===============================================================================
