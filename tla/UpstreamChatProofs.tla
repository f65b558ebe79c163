-------------------------- MODULE UpstreamChatProofs --------------------------
(***************************************************************************)
(* Proofs about one request to an HTTP provider: whatever the catalog, the *)
(* conversation and the records are, and however many are read, the run    *)
(* tells its end once, takes no tool call back, and holds nothing after.   *)
(***************************************************************************)
EXTENDS UpstreamChat, SequenceTheorems, TLAPS

(* The types.                                                              *)
Calls == [id : Ids \cup {NoId}, name : Names \cup {NoName}]
CallEvents == {<<"call", i, d, n>> : i \in Indexes, d \in Ids \cup {NoId},
                                     n \in Names \cup {NoName}}
Whys == {"none", "stop", "length", "tool_calls", "tool_use", "max_tokens",
         "end_turn", "auth", "protocol", "mapped", "unavailable", "timeout"}
Endings == {<<k, why>> : k \in {"completed", "error", "threw"}, why \in Whys}
Events == {<<"text">>, <<"usage">>} \cup CallEvents \cup Endings

IsRun(r) ==
  r \in [phase : {"idle", "headers", "body", "error body", "over"}, wire : {r.wire},
         upstream : {"none", "open", "closed", "left"},
         refused : BOOLEAN, timer : BOOLEAN, bodyTimer : BOOLEAN,
         listening : BOOLEAN, hooked : BOOLEAN, pending : BOOLEAN,
         expired : BOOLEAN, aborted : BOOLEAN,
         calls : [Indexes -> Calls], usedTool : BOOLEAN,
         tokens : BOOLEAN,
         reason : Whys, out : Seq(Events)]

Running(r) == r.phase \in {"headers", "body", "error body"}
Bare(r) == ~(r.timer \/ r.bodyTimer \/ r.listening \/ r.hooked \/ r.pending)

(* What a run holds.                                                       *)
Resources(r) ==
  /\ ~Running(r) => Bare(r) /\ r.upstream # "open"
  /\ Running(r) => r.timer \/ r.aborted
  /\ r.bodyTimer => r.phase = "error body" /\ r.wire # "cavoti"
  /\ r.phase = "error body" => r.refused
  /\ r.upstream = "left" => /\ r.wire # "cavoti" /\ r.phase = "over"
                            /\ r.out # <<>> /\ Terminal(Last(r.out))

(* How it ends.                                                            *)
Quiet(out) == \A i \in 1..Len(out) : ~Terminal(out[i])
Ended(out) == /\ out # <<>> /\ Terminal(Last(out))
              /\ \A i \in 1..Len(out) : Terminal(out[i]) => i = Len(out)
Lost(r)    == r.expired /\ r.refused /\ r.wire # "cavoti"
Told(r) ==
  /\ r.phase # "over" => Quiet(r.out) /\ ~r.expired
  /\ r.aborted => Quiet(r.out)
  /\ Quiet(r.out) \/ Ended(r.out)
  /\ r.phase = "over" /\ ~r.aborted /\ ~Lost(r) =>
       Ended(r.out) /\ (r.expired => Last(r.out) = Timeout)

(* What it says of tool calls.                                             *)
IsCall(e) == e[1] = "call"
Agree(r, e, f) ==
  /\ e[3] = f[3]
  /\ e[4] # NoName => f[4] # NoName
  /\ r.wire = "cavoti" => e[4] \in {NoName, f[4]}
Known(r, e) ==
  LET c == r.calls[e[2]] IN
  /\ e[2] \in Indexes /\ e[3] # NoId
  /\ e[3] = c.id
  /\ e[4] # NoName => c.name # NoName
  /\ r.wire = "cavoti" => e[4] \in {NoName, c.name}
Faith(r) ==
  /\ \A i \in 1..Len(r.out) : IsCall(r.out[i]) =>
       /\ r.out[i][4] \in Declared \cup {NoName}
       /\ r.wire # "messages" => Known(r, r.out[i])
       /\ r.wire = "messages" => r.usedTool
  /\ r.wire # "messages" =>
       \A i, j \in 1..Len(r.out) :
         IsCall(r.out[i]) /\ IsCall(r.out[j]) /\ i < j /\ r.out[i][2] = r.out[j][2] =>
           Agree(r, r.out[i], r.out[j])
  /\ r.wire = "messages" =>
       \A i \in Indexes : r.calls[i] # NoCall =>
         r.calls[i].name \in Declared /\ r.usedTool

(* Usage on the messages wire comes with the completion.                   *)
NoUsage(out) == \A i \in 1..Len(out) : out[i][1] # "usage"
Usage(r) ==
  r.wire = "messages" =>
    /\ r.phase # "over" => NoUsage(r.out)
    /\ \A i \in 1..Len(r.out) : r.out[i][1] = "usage" => i < Len(r.out)
CompletesAsOne(r) ==
  r.wire = "messages" /\ r.out # <<>> /\ Last(r.out)[1] = "completed" =>
    \/ Last(r.out) = <<"completed", "tool_calls">>
    \/ \A i \in 1..Len(r.out) : ~IsCall(r.out[i])

Good(r) == /\ IsRun(r) /\ Resources(r) /\ Told(r) /\ Faith(r) /\ Usage(r)
           /\ CompletesAsOne(r)

(* The inductive invariant.                                                *)
IInv == Good(run)

-------------------------------------------------------------------------------
(* The events.                                                             *)
LEMMA EventKinds ==
  ASSUME NEW e \in Events
  PROVE  /\ e \in CallEvents <=> IsCall(e)
         /\ e \in Endings <=> Terminal(e)
         /\ IsCall(e) => ~Terminal(e) /\ e[1] # "usage"
         /\ Terminal(e) => e[1] # "usage"
BY DEF Events, CallEvents, Endings, IsCall, Terminal

LEMMA SimpleEvents ==
  /\ <<"text">> \in Events /\ ~IsCall(<<"text">>) /\ ~Terminal(<<"text">>)
  /\ <<"text">>[1] # "usage"
  /\ <<"usage">> \in Events /\ ~IsCall(<<"usage">>) /\ ~Terminal(<<"usage">>)
  /\ \A why \in Whys : /\ <<"error", why>> \in Events /\ Terminal(<<"error", why>>)
                         /\ <<"threw", why>> \in Events /\ Terminal(<<"threw", why>>)
                         /\ <<"completed", why>> \in Events /\ Terminal(<<"completed", why>>)
BY DEF Events, Endings, IsCall, Terminal

(* An event is added at the end, and nothing else of the run changes.      *)
LEMMA EmitRun ==
  ASSUME NEW r, IsRun(r), NEW e \in Events
  PROVE  LET x == Emit(r, e)  n == Len(r.out) IN
         /\ IsRun(x) /\ n \in Nat
         /\ x.out # <<>> /\ Len(x.out) = n + 1 /\ Last(x.out) = e
         /\ x.out[n + 1] = e
         /\ \A i \in 1..n : x.out[i] = r.out[i]
         /\ x = [r EXCEPT !.out = x.out]
<1> DEFINE o == Append(r.out, e)
<1>1. r.out \in Seq(Events)
  BY DEF IsRun
<1>2. /\ o \in Seq(Events) /\ o # <<>> /\ Len(o) = Len(r.out) + 1 /\ Len(r.out) \in Nat
      /\ \A i \in 1..Len(r.out) : o[i] = r.out[i]
      /\ o[Len(r.out) + 1] = e
  BY <1>1, AppendProperties, LenProperties
<1> HIDE DEF o
<1>3. Emit(r, e) = [r EXCEPT !.out = o]
  BY DEF Emit, o, IsRun
<1>4. IsRun([r EXCEPT !.out = o]) /\ [r EXCEPT !.out = o].out = o
  BY <1>2 DEF IsRun
<1>5. Last(o) = e
  BY <1>2 DEF Last
<1>. QED
  BY <1>2, <1>3, <1>4, <1>5

(* What is common to a run and what becomes of it when it closes.          *)
SameTold(r, x) == /\ x.wire = r.wire /\ x.calls = r.calls /\ x.usedTool = r.usedTool
                  /\ x.aborted = r.aborted /\ x.expired = r.expired
                  /\ x.refused = r.refused

LEMMA ClosingRun ==
  ASSUME NEW r, IsRun(r), NEW x \in {Closed(r), Stopped(r)}
  PROVE  /\ IsRun(x) /\ x.phase = "over" /\ Bare(x) /\ x.out = r.out /\ SameTold(r, x)
         /\ x.upstream \in {"closed", "left"}
         /\ x.upstream = "left" => r.wire # "cavoti" /\ x = Stopped(r)
<1> DEFINE y == Finally(r)
<1>1. /\ IsRun(y) /\ y.phase = "over" /\ Bare(y) /\ y.out = r.out /\ SameTold(r, y)
  BY DEF Finally, Cleanup, IsRun, Bare, SameTold
<1> HIDE DEF y
<1>2. ASSUME NEW how \in {"closed", "left"}, x = [y EXCEPT !.upstream = how]
      PROVE  /\ IsRun(x) /\ x.phase = "over" /\ Bare(x) /\ x.out = r.out /\ SameTold(r, x)
             /\ x.upstream = how
  <2>1. /\ IsRun(x) /\ x.upstream = how
    BY <1>1, <1>2 DEF IsRun
  <2>2. /\ x.phase = y.phase /\ x.out = y.out /\ x.wire = y.wire /\ x.calls = y.calls
        /\ x.usedTool = y.usedTool /\ x.aborted = y.aborted /\ x.expired = y.expired
        /\ x.refused = y.refused /\ x.timer = y.timer /\ x.bodyTimer = y.bodyTimer
        /\ x.listening = y.listening /\ x.hooked = y.hooked /\ x.pending = y.pending
    BY <1>1, <1>2 DEF IsRun
  <2>. QED
    BY <1>1, <2>1, <2>2 DEF SameTold, Bare
<1>3. CASE x = Closed(r)
  BY <1>2, <1>3 DEF Closed, y
<1>4. CASE x = Stopped(r)
  BY <1>2, <1>4 DEF Stopped, y
<1>. QED
  BY <1>3, <1>4

LEMMA EmittedRun ==
  ASSUME NEW r, IsRun(r), NEW e \in Events
  PROVE  SameTold(r, Emit(r, e))
BY DEF Emit, IsRun, SameTold

(* An event that is no tool call leaves what was said of calls as it was.  *)
LEMMA FaithAdds ==
  ASSUME NEW r, IsRun(r), Faith(r), NEW x, NEW e,
         x.wire = r.wire, x.calls = r.calls, x.usedTool = r.usedTool,
         Len(x.out) = Len(r.out) + 1, x.out[Len(r.out) + 1] = e, ~IsCall(e),
         \A i \in 1..Len(r.out) : x.out[i] = r.out[i]
  PROVE  Faith(x)
<1>1. Len(r.out) \in Nat
  BY LenProperties DEF IsRun
<1>2. \A i \in 1..Len(x.out) : IsCall(x.out[i]) => i \in 1..Len(r.out) /\ x.out[i] = r.out[i]
  BY <1>1
<1>3. \A c : Known(x, c) <=> Known(r, c)
  BY DEF Known
<1>4. \A c, d : Agree(x, c, d) <=> Agree(r, c, d)
  BY DEF Agree
<1>. QED
  BY <1>2, <1>3, <1>4, SMTT(30) DEF Faith

LEMMA FaithKept ==
  ASSUME NEW r, Faith(r), NEW x,
         x.wire = r.wire, x.calls = r.calls, x.usedTool = r.usedTool, x.out = r.out
  PROVE  Faith(x)
<1>3. \A c : Known(x, c) <=> Known(r, c)
  BY DEF Known
<1>4. \A c, d : Agree(x, c, d) <=> Agree(r, c, d)
  BY DEF Agree
<1>. QED
  BY <1>3, <1>4 DEF Faith

(* A run that tells its end, once and last.                                *)
LEMMA Finish ==
  ASSUME NEW r, IsRun(r), ~r.aborted, Quiet(r.out), Faith(r),
         NEW e \in Endings, r.expired => e = Timeout,
         r.wire = "messages" /\ e[1] = "completed" =>
           e = <<"completed", "tool_calls">> \/ \A i \in 1..Len(r.out) : ~IsCall(r.out[i]),
         NEW x \in {Closed(Emit(r, e)), Stopped(Emit(r, e))}
  PROVE  Good(x)
<1> DEFINE m == Emit(r, e)
           n == Len(r.out)
<1>1. e \in Events /\ Terminal(e) /\ ~IsCall(e) /\ e[1] # "usage"
  <2>1. e \in Events
    BY DEF Events
  <2>. QED
    BY <2>1, EventKinds
<1>2. /\ IsRun(m) /\ n \in Nat
      /\ m.out # <<>> /\ Len(m.out) = n + 1 /\ Last(m.out) = e /\ m.out[n + 1] = e
      /\ \A i \in 1..n : m.out[i] = r.out[i]
  BY <1>1, EmitRun
<1>3. SameTold(r, m)
  BY <1>1, EmittedRun
<1> HIDE DEF m
<1>4. /\ IsRun(x) /\ x.phase = "over" /\ Bare(x) /\ x.out = m.out /\ SameTold(m, x)
      /\ x.upstream \in {"closed", "left"}
      /\ x.upstream = "left" => m.wire # "cavoti"
  BY <1>2, ClosingRun DEF m
<1>5. SameTold(r, x)
  BY <1>3, <1>4 DEF SameTold
<1> DEFINE o == x.out
<1>6. /\ o # <<>> /\ Len(o) = n + 1 /\ Last(o) = e /\ o[n + 1] = e
      /\ \A i \in 1..n : o[i] = r.out[i]
  BY <1>2, <1>4
<1>7. Ended(o)
  <2>1. \A i \in 1..Len(o) : Terminal(o[i]) => i = Len(o)
    BY <1>2, <1>6 DEF Quiet
  <2>. QED
    BY <1>1, <1>6, <2>1 DEF Ended
<1>8. Resources(x)
  BY <1>1, <1>3, <1>4, <1>6 DEF Resources, Running, SameTold, Bare
<1>9. Told(x)
  BY <1>4, <1>5, <1>6, <1>7 DEF Told, SameTold
<1>10. Faith(x)
  BY <1>1, <1>5, <1>6, FaithAdds DEF SameTold
<1>11. Usage(x)
  <2>1. \A i \in 1..Len(o) : o[i][1] = "usage" => i < Len(o)
    BY <1>1, <1>2, <1>6
  <2>. QED
    BY <1>4, <2>1 DEF Usage
<1>12. CompletesAsOne(x)
  <2>1. (\A i \in 1..n : ~IsCall(r.out[i])) => \A i \in 1..Len(o) : ~IsCall(o[i])
    BY <1>1, <1>2, <1>6
  <2>. QED
    BY <1>5, <1>6, <2>1 DEF CompletesAsOne, SameTold
<1>. QED
  BY <1>4, <1>8, <1>9, <1>10, <1>11, <1>12 DEF Good

(* A run that ends without a word: its caller hung up, or both timers of   *)
(* an error body were due.                                                 *)
LEMMA Silently ==
  ASSUME NEW r, IsRun(r), Quiet(r.out), Faith(r),
         r.aborted \/ Lost(r), r.wire = "messages" => NoUsage(r.out)
  PROVE  Good(Silent(r))
<1> DEFINE x == Closed(r)
<1>1. /\ IsRun(x) /\ x.phase = "over" /\ Bare(x) /\ x.out = r.out /\ SameTold(r, x)
  BY ClosingRun
<1>2. x.upstream = "closed"
  BY DEF Closed, Finally, Cleanup, IsRun
<1> HIDE DEF x
<1>3. Resources(x)
  BY <1>1, <1>2 DEF Resources, Running, Bare
<1>4. Told(x)
  BY <1>1 DEF Told, SameTold, Lost
<1>5. Faith(x)
  BY <1>1, FaithKept DEF SameTold
<1>6. Usage(x)
  BY <1>1 DEF Usage, NoUsage, SameTold
<1>7. CompletesAsOne(x)
  <2>1. ASSUME x.out # <<>> PROVE ~Terminal(Last(x.out))
    <3>1. Len(x.out) \in 1..Len(x.out)
      <4>1. x.out \in Seq(Events)
        BY <1>1 DEF IsRun
      <4>. QED
        BY <2>1, <4>1, EmptySeq, LenProperties
    <3>. QED
      BY <1>1, <3>1 DEF Quiet, Last
  <2>. QED
    BY <2>1 DEF CompletesAsOne, Terminal
<1>. QED
  BY <1>1, <1>3, <1>4, <1>5, <1>6, <1>7 DEF Good, Silent, x

-------------------------------------------------------------------------------
(* Reading on: a run that is neither over nor aborted.                     *)
Reading(r) == Good(r) /\ Running(r) /\ ~r.aborted

LEMMA ReadingIsQuiet ==
  ASSUME NEW r, Reading(r)
  PROVE  Quiet(r.out) /\ ~r.expired /\ r.phase # "over" /\ r.timer
BY DEF Reading, Good, Told, Running, Resources

(* Whatever does not touch its end keeps a run good: fields that only the  *)
(* reader looks at change, and an event that is no end may be added.       *)
SameHeld(r, x) ==
  /\ x.phase = r.phase /\ x.wire = r.wire /\ x.upstream = r.upstream
  /\ x.timer = r.timer /\ x.bodyTimer = r.bodyTimer /\ x.listening = r.listening
  /\ x.hooked = r.hooked /\ x.pending = r.pending /\ x.expired = r.expired
  /\ x.aborted = r.aborted /\ x.refused = r.refused

LEMMA ReadsOn ==
  ASSUME NEW r, Reading(r), NEW x, IsRun(x), SameHeld(r, x), Faith(x), NEW n \in Nat,
         n = Len(r.out),
         \A i \in 1..n : x.out[i] = r.out[i],
         \/ x.out = r.out
         \/ /\ Len(x.out) = n + 1 /\ ~Terminal(x.out[n + 1])
            /\ r.wire = "messages" => x.out[n + 1][1] # "usage"
  PROVE  Reading(x)
<1>1. Quiet(r.out) /\ ~r.expired /\ r.phase # "over" /\ r.timer
  BY ReadingIsQuiet
<1>2. Quiet(x.out)
  BY <1>1 DEF Quiet
<1>3. Resources(x)
  BY <1>1 DEF Resources, Running, Reading, Good, SameHeld
<1>4. Told(x)
  BY <1>1, <1>2 DEF Told, SameHeld
<1>5. Usage(x)
  BY <1>1 DEF Usage, NoUsage, Reading, Good, SameHeld
<1>6. CompletesAsOne(x)
  <2>1. ASSUME x.out # <<>> PROVE ~Terminal(Last(x.out))
    <3>1. Len(x.out) \in 1..Len(x.out)
      <4>1. x.out \in Seq(Events)
        BY DEF IsRun
      <4>. QED
        BY <2>1, <4>1, EmptySeq, LenProperties
    <3>. QED
      BY <1>2, <3>1 DEF Quiet, Last
  <2>. QED
    BY <2>1 DEF CompletesAsOne, Terminal
<1>. QED
  BY <1>3, <1>4, <1>5, <1>6 DEF Good, Reading, Running, SameHeld

LEMMA Says ==
  ASSUME NEW r, Reading(r), NEW e \in {<<"text">>, <<"usage">>},
         r.wire = "messages" => e = <<"text">>
  PROVE  Reading(Emit(r, e)) /\ SameHeld(r, Emit(r, e))
<1>1. e \in Events /\ ~IsCall(e) /\ ~Terminal(e) /\ (r.wire = "messages" => e[1] # "usage")
  BY SimpleEvents
<1>2. IsRun(r) /\ Faith(r)
  BY DEF Reading, Good
<1> DEFINE x == Emit(r, e)
           n == Len(r.out)
<1>3. /\ IsRun(x) /\ n \in Nat /\ Len(x.out) = n + 1 /\ x.out[n + 1] = e
      /\ \A i \in 1..n : x.out[i] = r.out[i]
  BY <1>1, <1>2, EmitRun
<1>4. SameHeld(r, x) /\ x.calls = r.calls /\ x.usedTool = r.usedTool
  BY <1>2 DEF Emit, IsRun, SameHeld
<1> HIDE DEF x
<1>5. Faith(x)
  BY <1>1, <1>2, <1>3, <1>4, FaithAdds DEF SameHeld
<1>6. Reading(x)
  BY <1>1, <1>3, <1>4, <1>5, ReadsOn
<1>. QED
  BY <1>4, <1>6 DEF x

(* What only the reader looks at.                                          *)
LEMMA Notes ==
  ASSUME NEW r, Reading(r), NEW x, IsRun(x), SameHeld(r, x), x.out = r.out, Faith(x)
  PROVE  Reading(x)
<1>1. Len(r.out) \in Nat
  BY LenProperties DEF Reading, Good, IsRun
<1>. QED
  BY <1>1, ReadsOn

LEMMA Fails ==
  ASSUME NEW r, Reading(r), NEW why \in Whys
  PROVE  /\ Good(Failed(r, why))
         /\ Good(Stopped(Emit(r, <<"error", why>>)))
         /\ Stopped(Emit(r, <<"error", why>>)).phase = "over"
<1> DEFINE e == <<"error", why>>
<1>1. Quiet(r.out) /\ ~r.expired /\ IsRun(r) /\ ~r.aborted /\ Faith(r)
  BY ReadingIsQuiet DEF Reading, Good
<1>2. e \in Endings /\ e[1] # "completed"
  <2>1. e \in Endings
    BY DEF Endings
  <2>. QED
    BY <2>1
<1>3. e \in Events
  BY <1>2 DEF Events
<1> HIDE DEF e
<1>4. Good(Closed(Emit(r, e))) /\ Good(Stopped(Emit(r, e)))
  BY <1>1, <1>2, Finish
<1>5. Stopped(Emit(r, e)).phase = "over"
  <2>1. IsRun(Emit(r, e))
    BY <1>1, <1>3, EmitRun
  <2>. QED
    BY <2>1, ClosingRun
<1>. QED
  BY <1>4, <1>5 DEF Failed, e

LEMMA Rejects ==
  ASSUME NEW r, Reading(r)
  PROVE  Good(Reject(r)) /\ Reject(r).phase = "over"
<1>1. "protocol" \in Whys
  BY DEF Whys
<1>. QED
  BY <1>1, Fails DEF Reject

LEMMA Completes ==
  ASSUME NEW r, Reading(r), NEW why \in Whys, r.wire # "messages"
  PROVE  Good(Stopped(Complete(r, why))) /\ Good(Closed(Complete(r, why)))
<1>1. Quiet(r.out) /\ ~r.expired /\ IsRun(r) /\ ~r.aborted /\ Faith(r)
  BY ReadingIsQuiet DEF Reading, Good
<1>2. <<"completed", why>> \in Endings
  BY DEF Endings
<1>. QED
  BY <1>1, <1>2, Finish DEF Complete

-------------------------------------------------------------------------------
(* The records of a chat-completions stream.                               *)

(* A fragment that contradicts nothing leaves its call's id as it was, and *)
(* takes no name back.                                                     *)
LEMMA ResolvedAgrees ==
  ASSUME NEW wire, NEW known \in Calls, NEW f \in Fragments \cup {NoFragment},
         ~Contradicts(wire, known, f), NoName \notin Names, NoId \notin Ids
  PROVE  LET call == Resolved(wire, known, f) IN
         /\ call \in Calls /\ call.id # NoId
         /\ known.id # NoId => call.id = known.id
         /\ known.name # NoName => call.name # NoName
         /\ wire = "cavoti" => known.name \in {NoName, call.name}
<1>1. /\ f.id \in Ids \cup {NoId} /\ f.name \in Names \cup {NoName}
      /\ known.id \in Ids \cup {NoId} /\ known.name \in Names \cup {NoName}
  BY DEF Fragments, NoFragment, Calls
<1>. QED
  BY <1>1 DEF Contradicts, Resolved, Named, Calls

LEMMA FragmentRead ==
  ASSUME NEW r, Reading(r), r.wire # "messages", NEW f \in Fragments \cup {NoFragment},
         NoName \notin Names, NoId \notin Ids
  PROVE  LET x == OnFragment(r, f) IN
         /\ Good(x)
         /\ x.phase # "over" => Reading(x) /\ x.wire = r.wire
<1> DEFINE known == r.calls[f.index]
           call == Resolved(r.wire, known, f)
           e == <<"call", f.index, call.id, call.name>>
           y == [r EXCEPT !.calls[f.index] = call]
           x == Emit(y, e)
           n == Len(r.out)
<1>1. CASE \/ f.index = NoIndex \/ Contradicts(r.wire, known, f)
           \/ call.name \notin Declared \cup {NoName}
  <2>1. OnFragment(r, f) = Reject(r)
    BY <1>1 DEF OnFragment
  <2>. QED
    BY <2>1, Rejects
<1>2. CASE /\ f.index # NoIndex /\ ~Contradicts(r.wire, known, f)
           /\ call.name \in Declared \cup {NoName}
  <2>1. OnFragment(r, f) = x
    BY <1>2 DEF OnFragment
  <2>2. f \in Fragments /\ f.index \in Indexes
    BY <1>2 DEF Fragments, NoFragment
  <2>3. IsRun(r) /\ Faith(r) /\ known \in Calls
    BY <2>2 DEF Reading, Good, IsRun
  <2>4. /\ call \in Calls /\ call.id # NoId
        /\ known.id # NoId => call.id = known.id
        /\ known.name # NoName => call.name # NoName
        /\ r.wire = "cavoti" => known.name \in {NoName, call.name}
    BY <1>2, <2>2, <2>3, ResolvedAgrees
  <2>5. call.id \in Ids \cup {NoId} /\ call.name \in Names \cup {NoName}
    BY <2>4 DEF Calls
  <2> HIDE DEF known, call
  <2>6. /\ e \in CallEvents /\ e \in Events
        /\ e[1] = "call" /\ e[2] = f.index /\ e[3] = call.id /\ e[4] = call.name
    BY <2>2, <2>5 DEF CallEvents, Events
  <2> HIDE DEF e
  <2>7. /\ IsRun(y) /\ y.out = r.out /\ SameHeld(r, y)
        /\ y.calls[f.index] = call
        /\ \A i \in Indexes : i # f.index => y.calls[i] = r.calls[i]
    BY <2>2, <2>3, <2>4 DEF IsRun, SameHeld
  <2> HIDE DEF y
  <2>8. /\ IsRun(x) /\ n \in Nat /\ Len(x.out) = n + 1 /\ x.out[n + 1] = e
        /\ \A i \in 1..n : x.out[i] = r.out[i]
    <3>1. /\ IsRun(x) /\ Len(y.out) \in Nat /\ Len(x.out) = Len(y.out) + 1
          /\ x.out[Len(y.out) + 1] = e
          /\ \A i \in 1..Len(y.out) : x.out[i] = y.out[i]
      <4>1. IsRun(y) /\ e \in Events
        BY <2>6, <2>7
      <4>. QED
        BY <4>1, EmitRun
    <3>2. y.out = r.out
      BY <2>7
    <3>. QED
      BY <3>1, <3>2
  <2>9. x.calls = y.calls /\ SameHeld(r, x)
    BY <2>7 DEF Emit, IsRun, SameHeld
  <2> HIDE DEF x
  <2>10. x.wire = r.wire
    BY <2>9 DEF SameHeld
  <2>11. Faith(x)
    <3>1. \A i \in 1..n : IsCall(x.out[i]) =>
            /\ x.out[i][4] \in Declared \cup {NoName}
            /\ Known(r, x.out[i])
      BY <2>3, <2>8 DEF Faith
    <3>2. ASSUME NEW c, Known(r, c)
          PROVE  Known(x, c) /\ (c[2] = f.index => Agree(x, c, e))
      <4>1. CASE c[2] = f.index
        BY <3>2, <4>1, <2>4, <2>6, <2>7, <2>9, <2>10 DEF Known, Agree, known
      <4>2. CASE c[2] # f.index
        BY <3>2, <4>2, <2>7, <2>9, <2>10 DEF Known
      <4>. QED
        BY <4>1, <4>2
    <3>3. Known(x, e)
      BY <2>2, <2>4, <2>6, <2>7, <2>9 DEF Known
    <3>4. \A i \in 1..Len(x.out) : i \in 1..n \/ (i = n + 1 /\ x.out[i] = e)
      BY <2>8
    <3>5. ASSUME NEW i \in 1..Len(x.out), IsCall(x.out[i])
          PROVE  x.out[i][4] \in Declared \cup {NoName} /\ Known(x, x.out[i])
      BY <1>2, <2>6, <3>1, <3>2, <3>3, <3>4, <3>5
    <3>6. ASSUME NEW i \in 1..Len(x.out), NEW j \in 1..Len(x.out),
                 IsCall(x.out[i]), IsCall(x.out[j]), i < j, x.out[i][2] = x.out[j][2]
          PROVE  Agree(x, x.out[i], x.out[j])
      <4>1. i \in 1..n
        BY <2>8, <3>6
      <4>2. CASE j \in 1..n
        <5>1. Agree(r, r.out[i], r.out[j])
          BY <2>3, <2>8, <3>6, <4>1, <4>2 DEF Faith
        <5>. QED
          BY <5>1, <2>8, <2>10, <4>1, <4>2 DEF Agree
      <4>3. CASE x.out[j] = e
        BY <2>6, <3>1, <3>2, <3>6, <4>1, <4>3
      <4>. QED
        BY <3>4, <4>2, <4>3
    <3>. QED
      BY <2>10, <3>5, <3>6 DEF Faith
  <2>12. ~Terminal(x.out[n + 1])
    BY <2>6, <2>8 DEF Terminal
  <2>13. Reading(x)
    BY <2>8, <2>9, <2>11, <2>12, ReadsOn
  <2>. QED
    BY <2>1, <2>10, <2>13 DEF x, y, e, call, known, Reading
<1>. QED
  BY <1>1, <1>2

LEMMA ChatRecordRead ==
  ASSUME NEW r, Reading(r), r.wire # "messages", NEW f \in ChatRecords,
         NoName \notin Names, NoId \notin Ids
  PROVE  Good(OnChatRecord(r, f))
<1>1. /\ f.kind \in {"malformed", "error", "call", "text", "nothing"}
      /\ f.call \in Fragments \cup {NoFragment} /\ f.finish \in Reasons
      /\ f.usage \in BOOLEAN
  <2>1. ASSUME NEW k \in {"malformed", "error", "call", "text", "nothing"}
        PROVE  /\ Plain(k) \in [kind : {k}, call : {NoFragment}, usage : {FALSE},
                                finish : {"none"}]
    BY DEF Plain
  <2>2. ASSUME NEW g \in Fragments, f = Calling(g)
        PROVE  f.kind = "call" /\ f.call = g /\ f.finish = "none" /\ f.usage = FALSE
    BY <2>1, <2>2 DEF Calling
  <2>3. ASSUME NEW k \in {"text", "nothing"}, NEW u \in BOOLEAN, NEW q \in Reasons,
               f = Telling(k, u, q)
        PROVE  f.kind = k /\ f.call = NoFragment /\ f.finish = q /\ f.usage = u
    BY <2>1, <2>3 DEF Telling
  <2>4. "none" \in Reasons
    BY DEF Reasons
  <2>5. CASE f \in {Plain("malformed"), Plain("error"), Plain("call")}
    BY <2>1, <2>4, <2>5
  <2>6. CASE f \in {Calling(g) : g \in Fragments}
    <3>1. PICK g \in Fragments : f = Calling(g)
      BY <2>6
    <3>2. f.kind = "call" /\ f.call = g /\ f.finish = "none" /\ f.usage = FALSE
      BY <2>2, <3>1
    <3>. QED
      BY <2>4, <3>2
  <2>7. CASE f \in {Telling(k, u, q) :
                      k \in {"text", "nothing"}, u \in BOOLEAN, q \in Reasons}
    <3>1. PICK k \in {"text", "nothing"}, u \in BOOLEAN, q \in Reasons :
            f = Telling(k, u, q)
      BY <2>7
    <3>2. f.kind = k /\ f.call = NoFragment /\ f.finish = q /\ f.usage = u
      BY <2>3, <3>1
    <3>. QED
      BY <3>2
  <2>. QED
    BY <2>5, <2>6, <2>7 DEF ChatRecords
<1>2. CASE f.kind \in {"malformed", "error"}
  BY <1>2, Rejects DEF OnChatRecord
<1>3. CASE f.kind \notin {"malformed", "error"}
  <2> DEFINE read == OnContent(r, f)
             used == OnUsage(read, f)
  <2>1. Good(read) /\ (read.phase # "over" => Reading(read) /\ read.wire = r.wire)
    <3>1. CASE f.kind = "text"
      BY <3>1, Says DEF OnContent, SameHeld, Reading
    <3>2. CASE f.kind = "call"
      <4>1. read = OnFragment(r, f.call)
        BY <3>2 DEF OnContent
      <4>. QED
        BY <1>1, <4>1, FragmentRead
    <3>3. CASE f.kind = "nothing"
      BY <3>3 DEF OnContent, Reading
    <3>. QED
      BY <1>1, <1>3, <3>1, <3>2, <3>3
  <2>2. OnChatRecord(r, f) = IF read.phase = "over" THEN read ELSE OnFinish(used, f)
    BY <1>3 DEF OnChatRecord
  <2>3. CASE read.phase = "over"
    BY <2>1, <2>2, <2>3
  <2>4. CASE read.phase # "over"
    <3> HIDE DEF read
    <3>1. Reading(used) /\ used.wire = r.wire
      BY <2>1, <2>4, Says DEF OnUsage, SameHeld
    <3> HIDE DEF used
    <3>2. Good(OnFinish(used, f))
      <4>1. CASE f.finish = "none"
        BY <3>1, <4>1 DEF OnFinish, Reading
      <4>2. CASE f.finish # "none" /\ used.wire = "cavoti"
        <5> DEFINE x == [used EXCEPT !.reason = f.finish]
        <5>1. IsRun(used) /\ Faith(used)
          BY <3>1 DEF Reading, Good
        <5>2. /\ IsRun(x) /\ SameHeld(used, x) /\ x.out = used.out
              /\ x.calls = used.calls /\ x.usedTool = used.usedTool
          BY <1>1, <5>1 DEF IsRun, SameHeld, Reasons, Whys
        <5>3. OnFinish(used, f) = x
          BY <4>2 DEF OnFinish
        <5> HIDE DEF x
        <5>4. Faith(x)
          BY <5>1, <5>2, FaithKept DEF SameHeld
        <5>. QED
          BY <3>1, <5>2, <5>3, <5>4, Notes DEF Reading
      <4>3. CASE f.finish # "none" /\ used.wire # "cavoti"
        BY <1>1, <3>1, <4>3, Completes DEF OnFinish, Reasons, Whys
      <4>. QED
        BY <4>1, <4>2, <4>3
    <3>. QED
      BY <2>2, <2>4, <3>2
  <2>. QED
    BY <2>3, <2>4
<1>. QED
  BY <1>2, <1>3

-------------------------------------------------------------------------------
(* The records of a messages stream.                                       *)
LEMMA MessageStopped ==
  ASSUME NEW r, Reading(r), r.wire = "messages"
  PROVE  Good(MessageStop(r))
<1> DEFINE told == IF r.tokens THEN Emit(r, <<"usage">>) ELSE r
           why == IF r.usedTool \/ r.reason = "tool_use" THEN "tool_calls"
                  ELSE IF r.reason = "max_tokens" THEN "length" ELSE "stop"
           e == <<"completed", why>>
           n == Len(r.out)
<1>1. Quiet(r.out) /\ ~r.expired /\ IsRun(r) /\ ~r.aborted /\ Faith(r)
  BY ReadingIsQuiet DEF Reading, Good
<1>2. /\ IsRun(told) /\ Quiet(told.out) /\ Faith(told) /\ SameTold(r, told)
      /\ (\A i \in 1..n : ~IsCall(r.out[i])) =>
            \A i \in 1..Len(told.out) : ~IsCall(told.out[i])
  <2>1. CASE ~r.tokens
    BY <1>1, <2>1 DEF SameTold
  <2>2. CASE r.tokens
    <3> DEFINE x == Emit(r, <<"usage">>)
    <3>1. /\ <<"usage">> \in Events /\ ~IsCall(<<"usage">>) /\ ~Terminal(<<"usage">>)
      BY SimpleEvents
    <3>2. /\ IsRun(x) /\ n \in Nat /\ Len(x.out) = n + 1 /\ x.out[n + 1] = <<"usage">>
          /\ \A i \in 1..n : x.out[i] = r.out[i]
      BY <1>1, <3>1, EmitRun
    <3>3. SameTold(r, x)
      BY <1>1, <3>1, EmittedRun
    <3> HIDE DEF x
    <3>4. Faith(x)
      BY <1>1, <3>1, <3>2, <3>3, FaithAdds DEF SameTold
    <3>5. Quiet(x.out)
      BY <1>1, <3>1, <3>2, SMTT(30) DEF Quiet
    <3>6. (\A i \in 1..n : ~IsCall(r.out[i])) => \A i \in 1..Len(x.out) : ~IsCall(x.out[i])
      BY <3>1, <3>2
    <3>7. told = x
      BY <2>2 DEF x
    <3>. QED
      BY <3>2, <3>3, <3>4, <3>5, <3>6, <3>7
  <2>. QED
    BY <2>1, <2>2
<1>3. e \in Endings
  BY DEF Endings, Whys
<1>4. r.usedTool \/ \A i \in 1..n : ~IsCall(r.out[i])
  BY <1>1 DEF Faith
<1>5. e = <<"completed", "tool_calls">> \/ \A i \in 1..Len(told.out) : ~IsCall(told.out[i])
  BY <1>2, <1>4
<1>6. MessageStop(r) = Stopped(Emit(told, e))
  BY DEF MessageStop, Complete
<1> HIDE DEF told, e
<1>7. ~told.aborted /\ ~told.expired
  BY <1>1, <1>2 DEF SameTold
<1>8. Good(Stopped(Emit(told, e)))
  BY <1>2, <1>3, <1>5, <1>7, Finish
<1>. QED
  BY <1>6, <1>8

(* A block is announced: its name is declared.                             *)
LEMMA BlockStarted ==
  ASSUME NEW r, Reading(r), r.wire = "messages",
         NEW i \in Indexes, NEW d \in Ids, NEW m \in Names, m \in Declared
  PROVE  Good([r EXCEPT !.calls[i] = [id |-> d, name |-> m], !.usedTool = TRUE])
<1> DEFINE c == [id |-> d, name |-> m]
           x == [r EXCEPT !.calls[i] = c, !.usedTool = TRUE]
<1>1. IsRun(r) /\ Faith(r)
  BY DEF Reading, Good
<1>2. c \in Calls /\ c.name = m
  BY DEF Calls
<1> HIDE DEF c
<1>3. /\ IsRun(x) /\ SameHeld(r, x) /\ x.out = r.out /\ x.usedTool
      /\ x.calls[i] = c /\ \A j \in Indexes : j # i => x.calls[j] = r.calls[j]
  BY <1>1, <1>2 DEF IsRun, SameHeld
<1> HIDE DEF x
<1>4. x.wire = "messages"
  BY <1>3 DEF SameHeld
<1>5. Faith(x)
  BY <1>1, <1>2, <1>3, <1>4 DEF Faith
<1>6. Reading(x)
  BY <1>3, <1>5, Notes
<1>. QED
  BY <1>6 DEF Reading, x, c

(* A piece of a block tells of the call that was announced.                *)
LEMMA PieceTold ==
  ASSUME NEW r, Reading(r), r.wire = "messages",
         NEW i \in Indexes, r.calls[i] # NoCall
  PROVE  Good(Emit(r, <<"call", i, r.calls[i].id, r.calls[i].name>>))
<1> DEFINE c == r.calls[i]
           e == <<"call", i, c.id, c.name>>
           x == Emit(r, e)
           n == Len(r.out)
<1>1. IsRun(r) /\ Faith(r)
  BY DEF Reading, Good
<1>2. c \in Calls /\ c.name \in Declared
  BY <1>1 DEF IsRun, Faith
<1>3. c.id \in Ids \cup {NoId} /\ c.name \in Names \cup {NoName}
  BY <1>2 DEF Calls
<1> HIDE DEF c
<1>4. e \in Events /\ e[1] = "call" /\ e[4] = c.name
  BY <1>3 DEF Events, CallEvents
<1>5. r.usedTool
  BY <1>1 DEF Faith
<1> HIDE DEF e
<1>6. /\ IsRun(x) /\ n \in Nat /\ Len(x.out) = n + 1 /\ x.out[n + 1] = e
      /\ \A j \in 1..n : x.out[j] = r.out[j]
  BY <1>1, <1>4, EmitRun
<1>7. SameHeld(r, x) /\ x.calls = r.calls /\ x.usedTool = r.usedTool
  BY <1>1 DEF Emit, IsRun, SameHeld
<1> HIDE DEF x
<1>8. x.wire = "messages"
  BY <1>7 DEF SameHeld
<1>9. \A j \in 1..Len(x.out) : j \in 1..n \/ x.out[j] = e
  BY <1>6
<1>10. Faith(x)
  <2>1. ASSUME NEW j \in 1..Len(x.out), IsCall(x.out[j])
        PROVE  x.out[j][4] \in Declared \cup {NoName}
    BY <1>1, <1>2, <1>4, <1>6, <1>9, <2>1 DEF Faith
  <2>2. \A j \in Indexes : x.calls[j] # NoCall => x.calls[j].name \in Declared /\ x.usedTool
    BY <1>1, <1>7 DEF Faith
  <2>. QED
    BY <1>5, <1>7, <1>8, <2>1, <2>2 DEF Faith
<1>11. ~Terminal(x.out[n + 1]) /\ x.out[n + 1][1] # "usage"
  BY <1>4, <1>6 DEF Terminal
<1>12. Reading(x)
  BY <1>6, <1>7, <1>10, <1>11, ReadsOn
<1>. QED
  BY <1>12 DEF Reading, x, e, c

LEMMA MessagesRecordRead ==
  ASSUME NEW r, Reading(r), r.wire = "messages", NEW f \in MessagesRecords
  PROVE  Good(OnMessagesRecord(r, f))
<1> DEFINE kinds == {"text", "tokens", "tool_use", "max_tokens", "end_turn", "stop",
                     "error", "malformed"}
<1>1. \/ f.kind \in kinds
      \/ f.kind = "start" /\ f.index \in Indexes /\ f.id \in Ids /\ f.name \in Names
      \/ f.kind = "piece" /\ f.index \in Indexes
  BY DEF MessagesRecords, Event
<1>2. IsRun(r) /\ Faith(r)
  BY DEF Reading, Good
<1>3. CASE f.kind \in {"malformed", "error"}
  <2>1. OnMessagesRecord(r, f) = Reject(r)
    BY <1>3 DEF OnMessagesRecord
  <2>. QED
    BY <2>1, Rejects
<1>4. CASE f.kind = "text"
  <2>1. OnMessagesRecord(r, f) = Emit(r, <<"text">>)
    BY <1>4 DEF OnMessagesRecord
  <2>. QED
    BY <2>1, Says DEF Reading
<1>5. CASE f.kind = "start" /\ f.index \in Indexes /\ f.id \in Ids /\ f.name \in Names
  <2>1. CASE f.name \notin Declared
    <3>1. OnMessagesRecord(r, f) = Reject(r)
      BY <1>5, <2>1 DEF OnMessagesRecord
    <3>. QED
      BY <3>1, Rejects
  <2>2. CASE f.name \in Declared
    <3>1. OnMessagesRecord(r, f) =
            [r EXCEPT !.calls[f.index] = [id |-> f.id, name |-> f.name], !.usedTool = TRUE]
      BY <1>5, <2>2 DEF OnMessagesRecord
    <3>2. Good([r EXCEPT !.calls[f.index] = [id |-> f.id, name |-> f.name], !.usedTool = TRUE])
      <4>1. /\ f.index \in Indexes /\ f.id \in Ids /\ f.name \in Names /\ f.name \in Declared
        BY <1>5, <2>2
      <4>. QED
        BY <4>1, BlockStarted
    <3>. QED
      BY <3>1, <3>2
  <2>. QED
    BY <2>1, <2>2
<1>6. CASE f.kind = "piece" /\ f.index \in Indexes
  <2>1. CASE r.calls[f.index] = NoCall
    <3>1. OnMessagesRecord(r, f) = Reject(r)
      BY <1>6, <2>1 DEF OnMessagesRecord
    <3>. QED
      BY <3>1, Rejects
  <2>2. CASE r.calls[f.index] # NoCall
    <3>1. OnMessagesRecord(r, f) =
            Emit(r, <<"call", f.index, r.calls[f.index].id, r.calls[f.index].name>>)
      BY <1>6, <2>2 DEF OnMessagesRecord
    <3>. QED
      BY <1>6, <2>2, <3>1, PieceTold
  <2>. QED
    BY <2>1, <2>2
<1>7. CASE f.kind = "stop"
  <2>1. OnMessagesRecord(r, f) = MessageStop(r)
    BY <1>7 DEF OnMessagesRecord
  <2>. QED
    BY <2>1, MessageStopped
<1>8. ASSUME NEW x, IsRun(x), SameHeld(r, x), x.out = r.out, x.calls = r.calls,
             x.usedTool = r.usedTool
      PROVE  Good(x)
  <2>1. Faith(x)
    BY <1>2, <1>8, FaithKept DEF SameHeld
  <2>2. Reading(x)
    BY <1>8, <2>1, Notes
  <2>. QED
    BY <2>2 DEF Reading
<1>9. CASE f.kind = "tokens"
  <2> DEFINE x == [r EXCEPT !.tokens = TRUE]
  <2>1. OnMessagesRecord(r, f) = x
    BY <1>9 DEF OnMessagesRecord
  <2>2. /\ IsRun(x) /\ SameHeld(r, x) /\ x.out = r.out /\ x.calls = r.calls
        /\ x.usedTool = r.usedTool
    BY <1>2 DEF IsRun, SameHeld
  <2>. QED
    BY <1>8, <2>1, <2>2
<1>10. CASE f.kind \in {"tool_use", "max_tokens", "end_turn"}
  <2> DEFINE x == [r EXCEPT !.reason = f.kind]
  <2>1. OnMessagesRecord(r, f) = x
    BY <1>10 DEF OnMessagesRecord
  <2>2. /\ IsRun(x) /\ SameHeld(r, x) /\ x.out = r.out /\ x.calls = r.calls
        /\ x.usedTool = r.usedTool
    BY <1>2, <1>10 DEF IsRun, SameHeld, Whys
  <2>. QED
    BY <1>8, <2>1, <2>2
<1>. QED
  BY <1>1, <1>3, <1>4, <1>5, <1>6, <1>7, <1>9, <1>10

-------------------------------------------------------------------------------
(* The end of a stream, the deadlines and the hang-up.                     *)
LEMMA StreamEnded ==
  ASSUME NEW r, Reading(r)
  PROVE  Good(EndOfStream(r))
<1>1. CASE r.wire = "cavoti" /\ r.reason # "none"
  <2>1. EndOfStream(r) = Closed(Complete(r, r.reason))
    BY <1>1 DEF EndOfStream
  <2>. QED
    <3>1. r.reason \in Whys /\ r.wire # "messages"
      BY <1>1 DEF Reading, Good, IsRun
    <3>2. Good(Closed(Complete(r, r.reason)))
      BY <3>1, Completes
    <3>. QED
      BY <2>1, <3>2
<1>2. CASE ~(r.wire = "cavoti" /\ r.reason # "none")
  <2>1. EndOfStream(r) = Failed(r, "protocol") /\ "protocol" \in Whys
    BY <1>2 DEF EndOfStream, Whys
  <2>. QED
    BY <2>1, Fails
<1>. QED
  BY <1>1, <1>2

LEMMA DeadlinePassed ==
  ASSUME NEW r, Reading(r)
  PROVE  Good(OnDeadline(r))
<1> DEFINE x == [r EXCEPT !.expired = TRUE, !.timer = FALSE]
           e == <<"error", "timeout">>
<1>1. /\ Quiet(r.out) /\ ~r.aborted /\ IsRun(r) /\ Faith(r)
      /\ r.wire = "messages" => NoUsage(r.out)
      /\ r.phase = "error body" => r.refused
  BY ReadingIsQuiet DEF Reading, Good, Usage, Resources
<1>2. /\ IsRun(x) /\ x.out = r.out /\ x.calls = r.calls /\ x.usedTool = r.usedTool
      /\ x.wire = r.wire /\ x.refused = r.refused /\ x.aborted = r.aborted /\ x.expired
  BY <1>1 DEF IsRun
<1>3. OnDeadline(r) = IF r.phase = "error body" /\ r.wire # "cavoti" THEN Silent(x)
                      ELSE Closed(Emit(x, e))
  BY DEF OnDeadline, TimedOut, Failed
<1> HIDE DEF x
<1>4. Faith(x)
  BY <1>1, <1>2, FaithKept
<1>5. CASE r.phase = "error body" /\ r.wire # "cavoti"
  <2>1. Lost(x)
    BY <1>1, <1>2, <1>5 DEF Lost
  <2>. QED
    BY <1>1, <1>2, <1>3, <1>4, <1>5, <2>1, Silently
<1>6. CASE ~(r.phase = "error body" /\ r.wire # "cavoti")
  <2>1. e \in Endings /\ e = Timeout
    BY DEF Endings, Whys, Timeout
  <2>2. e[1] # "completed"
    OBVIOUS
  <2> HIDE DEF e
  <2>3. Good(Closed(Emit(x, e)))
    BY <1>1, <1>2, <1>4, <2>1, <2>2, Finish
  <2>. QED
    BY <1>3, <1>6, <2>3
<1>. QED
  BY <1>5, <1>6

LEMMA BodyDeadlinePassed ==
  ASSUME NEW r, Reading(r)
  PROVE  Good(Stopped(Emit([r EXCEPT !.expired = TRUE], <<"error", "timeout">>)))
<1> DEFINE x == [r EXCEPT !.expired = TRUE]
           e == <<"error", "timeout">>
<1>1. /\ Quiet(r.out) /\ ~r.aborted /\ IsRun(r) /\ Faith(r)
  BY ReadingIsQuiet DEF Reading, Good
<1>2. /\ IsRun(x) /\ x.out = r.out /\ x.calls = r.calls /\ x.usedTool = r.usedTool
      /\ x.wire = r.wire /\ x.aborted = r.aborted
  BY <1>1 DEF IsRun
<1> HIDE DEF x
<1>3. Faith(x)
  BY <1>1, <1>2, FaithKept
<1>4. e \in Endings /\ e = Timeout
  BY DEF Endings, Whys, Timeout
<1>5. e[1] # "completed"
  OBVIOUS
<1> HIDE DEF e
<1>6. Good(Stopped(Emit(x, e)))
  BY <1>1, <1>2, <1>3, <1>4, <1>5, Finish
<1>. QED
  BY <1>6 DEF x, e

(* Fields of a run that is read on and that say nothing of its end.        *)
LEMMA HeadersRead ==
  ASSUME NEW r, Reading(r), r.phase = "headers", NEW ok \in BOOLEAN
  PROVE  Good(IF ok THEN [Rearmed(r) EXCEPT !.phase = "body"]
              ELSE [r EXCEPT !.phase = "error body", !.refused = TRUE,
                             !.bodyTimer = r.wire # "cavoti"])
<1> DEFINE x == IF ok THEN [Rearmed(r) EXCEPT !.phase = "body"]
                ELSE [r EXCEPT !.phase = "error body", !.refused = TRUE,
                               !.bodyTimer = r.wire # "cavoti"]
<1>1. IsRun(r) /\ Faith(r) /\ Quiet(r.out) /\ ~r.expired /\ ~r.aborted /\ r.timer
      /\ r.upstream # "left"
  BY ReadingIsQuiet DEF Reading, Good, Resources
<1>2. /\ IsRun(x) /\ x.out = r.out /\ x.calls = r.calls /\ x.usedTool = r.usedTool
      /\ x.wire = r.wire /\ x.aborted = r.aborted /\ x.expired = r.expired
      /\ x.timer = r.timer /\ x.upstream = r.upstream
      /\ x.phase \in {"body", "error body"}
  BY <1>1 DEF IsRun, Rearmed
<1>3. /\ x.phase = "error body" => x.refused
      /\ x.bodyTimer => x.phase = "error body" /\ x.wire # "cavoti"
  BY <1>1 DEF IsRun, Rearmed, Reading, Good, Resources
<1> HIDE DEF x
<1>4. Faith(x)
  BY <1>1, <1>2, FaithKept
<1>5. Resources(x)
  BY <1>1, <1>2, <1>3 DEF Resources, Running
<1>6. Told(x)
  BY <1>1, <1>2 DEF Told
<1>7. Usage(x)
  BY <1>1, <1>2 DEF Usage, Reading, Good
<1>8. CompletesAsOne(x)
  BY <1>2 DEF CompletesAsOne, Reading, Good
<1>. QED
  BY <1>2, <1>4, <1>5, <1>6, <1>7, <1>8 DEF Good, x

LEMMA HungUp ==
  ASSUME NEW r, Reading(r)
  PROVE  Good([r EXCEPT !.aborted = TRUE, !.pending = FALSE, !.hooked = FALSE,
                        !.listening = FALSE, !.timer = r.wire = "cavoti"])
<1> DEFINE x == [r EXCEPT !.aborted = TRUE, !.pending = FALSE, !.hooked = FALSE,
                          !.listening = FALSE, !.timer = r.wire = "cavoti"]
<1>1. IsRun(r) /\ Faith(r) /\ Quiet(r.out) /\ ~r.expired /\ r.phase # "over"
  BY ReadingIsQuiet DEF Reading, Good
<1>2. /\ IsRun(x) /\ x.out = r.out /\ x.calls = r.calls /\ x.usedTool = r.usedTool
      /\ x.wire = r.wire /\ x.aborted /\ x.expired = r.expired /\ x.phase = r.phase
      /\ x.bodyTimer = r.bodyTimer /\ x.upstream = r.upstream /\ x.refused = r.refused
  <2>1. (r.wire = "cavoti") \in BOOLEAN
    OBVIOUS
  <2>. QED
    BY <1>1, <2>1 DEF IsRun
<1> HIDE DEF x
<1>3. Faith(x)
  BY <1>1, <1>2, FaithKept
<1>4. Resources(x)
  BY <1>1, <1>2 DEF Resources, Running, Reading, Good
<1>5. Told(x)
  BY <1>1, <1>2 DEF Told
<1>6. Usage(x)
  BY <1>1, <1>2 DEF Usage, Reading, Good
<1>7. CompletesAsOne(x)
  BY <1>2 DEF CompletesAsOne, Reading, Good
<1>. QED
  BY <1>2, <1>3, <1>4, <1>5, <1>6, <1>7 DEF Good, x

-------------------------------------------------------------------------------
(* The first state of a run, and its start.                                *)
LEMMA FreshRun ==
  /\ Fresh.phase = "idle" /\ Fresh.out = <<>> /\ ~Fresh.expired /\ ~Fresh.aborted
  /\ Fresh.upstream = "none" /\ Bare(Fresh) /\ ~Fresh.refused
  /\ Fresh.calls = [i \in Indexes |-> NoCall] /\ IsRun(Fresh)
<1>1. NoCall \in Calls /\ "none" \in Whys
  BY DEF NoCall, Calls, Whys
<1>2. [i \in Indexes |-> NoCall] \in [Indexes -> Calls]
  BY <1>1
<1>3. <<>> \in Seq(Events)
  BY EmptySeq
<1>. QED
  BY <1>1, <1>2, <1>3 DEF Fresh, IsRun, Bare

(* A run that has said nothing.                                            *)
LEMMA NothingSaid ==
  ASSUME NEW r, IsRun(r), r.out = <<>>, r.calls = [i \in Indexes |-> NoCall]
  PROVE  Quiet(r.out) /\ Faith(r) /\ Usage(r) /\ CompletesAsOne(r) /\ NoUsage(r.out)
<1>1. \A i \in 1..Len(r.out) : FALSE
  BY EmptySeq
<1>. QED
  BY <1>1 DEF Quiet, Faith, Usage, CompletesAsOne, NoUsage

LEMMA StartsGood ==
  ASSUME NEW wire
  PROVE  /\ Good(Sent(wire)) /\ Good(Fresh)
         /\ \A e \in {<<"error", "auth">>, <<"threw", "protocol">>, <<"error", "protocol">>} :
              Good(NotSent(wire, e))
<1>1. Good(Fresh)
  <2>1. Quiet(Fresh.out) /\ Faith(Fresh) /\ Usage(Fresh) /\ CompletesAsOne(Fresh)
    BY FreshRun, NothingSaid
  <2>2. Resources(Fresh) /\ Told(Fresh)
    BY <2>1, FreshRun DEF Resources, Told, Running, Bare
  <2>. QED
    BY <2>1, <2>2, FreshRun DEF Good
<1>2. Good(Sent(wire))
  <2> DEFINE x == Sent(wire)
  <2>1. /\ IsRun(x) /\ x.phase = "headers" /\ x.out = <<>> /\ ~x.expired /\ ~x.aborted
        /\ x.upstream = "open" /\ x.timer /\ ~x.bodyTimer
        /\ x.calls = [i \in Indexes |-> NoCall]
    BY FreshRun DEF Sent, IsRun, Bare
  <2> HIDE DEF x
  <2>2. Resources(x) /\ Told(x)
    BY <2>1, NothingSaid DEF Resources, Told, Running
  <2>. QED
    BY <2>1, <2>2, NothingSaid DEF Good, x
<1>3. ASSUME NEW e \in {<<"error", "auth">>, <<"threw", "protocol">>, <<"error", "protocol">>}
      PROVE  Good(NotSent(wire, e))
  <2> DEFINE x == NotSent(wire, e)
  <2>1. e \in Endings /\ e[1] # "completed"
    BY DEF Endings, Whys
  <2>2. e \in Events /\ Terminal(e) /\ ~IsCall(e) /\ e[1] # "usage"
    <3>1. e \in Events
      BY <2>1 DEF Events
    <3>. QED
      BY <2>1, <3>1, EventKinds
  <2> HIDE DEF Events, Terminal, IsCall
  <2>3. <<e>> \in Seq(Events) /\ Len(<<e>>) = 1 /\ <<e>>[1] = e /\ <<e>> # <<>>
    BY <2>2
  <2>4. Last(<<e>>) = e
    BY <2>3 DEF Last
  <2>5. /\ IsRun(x) /\ x.phase = "over" /\ x.out = <<e>> /\ ~x.expired /\ ~x.aborted
        /\ x.upstream = "none" /\ Bare(x)
        /\ x.calls = [i \in Indexes |-> NoCall]
    BY FreshRun, <2>3 DEF NotSent, IsRun, Bare
  <2> HIDE DEF x
  <2>6. \A i \in 1..Len(x.out) : i = 1 /\ x.out[i] = e
    BY <2>3, <2>5
  <2>7. Ended(x.out)
    BY <2>2, <2>3, <2>4, <2>5, <2>6 DEF Ended
  <2>8. Resources(x) /\ Told(x)
    BY <2>5, <2>7 DEF Resources, Told, Running, Bare
  <2>9. Faith(x) /\ Usage(x)
    BY <2>2, <2>5, <2>6 DEF Faith, Usage
  <2>10. CompletesAsOne(x)
    BY <2>1, <2>4, <2>5 DEF CompletesAsOne
  <2>. QED
    BY <2>5, <2>8, <2>9, <2>10 DEF Good, x
<1>. QED
  BY <1>1, <1>2, <1>3

-------------------------------------------------------------------------------
(* The invariant.  A step reads on, ends the run, or leaves it alone.      *)
LEMMA Begins == Init => IInv
BY StartsGood DEF Init, IInv

LEMMA StartKeeps ==
  ASSUME IInv, NEW m, NEW h, Start(m, h)
  PROVE  IInv'
<1>1. run' \in {Sent(m.wire), NotSent(m.wire, <<"error", "auth">>),
                NotSent(m.wire, <<"threw", "protocol">>),
                NotSent(m.wire, <<"error", "protocol">>)}
  BY DEF Start, Started
<1>. QED
  BY <1>1, StartsGood DEF IInv

LEMMA ReadKeeps ==
  ASSUME IInv, NEW f \in Records(run.wire), Read(f)
  PROVE  IInv'
<1>1. Reading(run) /\ run' = OnRecord(run, f)
  BY DEF Read, Reading, Running, IInv
<1>2. CASE run.wire = "messages"
  <2>1. f \in MessagesRecords /\ OnRecord(run, f) = OnMessagesRecord(run, f)
    BY <1>2 DEF Records, OnRecord
  <2>. QED
    BY <1>1, <1>2, <2>1, MessagesRecordRead DEF IInv
<1>3. CASE run.wire # "messages"
  <2>1. f \in ChatRecords /\ OnRecord(run, f) = OnChatRecord(run, f)
    BY <1>3 DEF Records, OnRecord
  <2>. QED
    BY <1>1, <1>3, <2>1, ChatRecordRead, NamesAssumption DEF IInv
<1>. QED
  BY <1>2, <1>3

LEMMA AbortKeeps ==
  ASSUME IInv, Abort
  PROVE  IInv'
<1>1. /\ IsRun(run) /\ Quiet(run.out) /\ Faith(run) /\ run.aborted
      /\ run.wire = "messages" => NoUsage(run.out)
  BY DEF Abort, IInv, Good, Told, Usage
<1>. QED
  BY <1>1, Silently DEF Abort, Step, IInv

LEMMA StepKeeps ==
  ASSUME IInv, [Next]_vars
  PROVE  IInv'
<1>1. CASE run' = run
  BY <1>1 DEF IInv
<1>2. CASE \E m \in listed, h \in Histories : Start(m, h)
  BY <1>2, StartKeeps
<1>3. ASSUME NEW ok \in BOOLEAN, Headers(ok)
      PROVE  IInv'
  <2>1. Reading(run) /\ run.phase = "headers"
    BY <1>3 DEF Headers, Reading, Running, IInv
  <2>. QED
    BY <1>3, <2>1, HeadersRead DEF Headers, Step, IInv
<1>4. CASE Break \/ ErrorBody
  <2>1. Reading(run) /\ "unavailable" \in Whys /\ "mapped" \in Whys
    BY <1>4 DEF Break, ErrorBody, Reading, Running, IInv, Whys
  <2>. QED
    BY <1>4, <2>1, Fails DEF Break, ErrorBody, Step, IInv
<1>5. CASE \E f \in Records(run.wire) : Read(f)
  BY <1>5, ReadKeeps
<1>6. CASE Oversize
  <2>1. Reading(run)
    BY <1>6 DEF Oversize, Reading, Running, IInv
  <2>. QED
    BY <1>6, <2>1, Rejects DEF Oversize, Step, IInv
<1>7. CASE End
  <2>1. Reading(run)
    BY <1>7 DEF End, Reading, Running, IInv
  <2>. QED
    BY <1>7, <2>1, StreamEnded DEF End, Step, IInv
<1>8. CASE Deadline
  <2>1. Reading(run)
    BY <1>8 DEF Deadline, Reading, IInv, Good, Resources, Bare
  <2>. QED
    BY <1>8, <2>1, DeadlinePassed DEF Deadline, Step, IInv
<1>9. CASE BodyDeadline
  <2>1. Reading(run)
    BY <1>9 DEF BodyDeadline, Reading, IInv, Good, Resources, Bare
  <2>. QED
    BY <1>9, <2>1, BodyDeadlinePassed DEF BodyDeadline, Step, IInv
<1>10. CASE HangUp
  <2>1. Reading(run)
    BY <1>10 DEF HangUp, Reading, Running, IInv
  <2>. QED
    BY <1>10, <2>1, HungUp DEF HangUp, IInv
<1>11. CASE Abort
  BY <1>11, AbortKeeps
<1>12. CASE \E c \in Catalogs, ok \in BOOLEAN : Discover(c[1], c[2], ok)
  BY <1>1, <1>12 DEF Discover
<1>13. CASE Acknowledge
  BY <1>1, <1>13 DEF Acknowledge
<1>. QED
  BY <1>1, <1>2, <1>3, <1>4, <1>5, <1>6, <1>7, <1>8, <1>9, <1>10, <1>11, <1>12, <1>13
  DEF Next, vars

(* However many records are read, and whatever they say: the run is good.  *)
THEOREM Invariance == Spec => []IInv
<1>1. Init => IInv
  BY Begins
<1>2. IInv /\ [Next]_vars => IInv'
  BY StepKeeps
<1>. QED
  BY <1>1, <1>2, PTL DEF Spec

-------------------------------------------------------------------------------
(* A run that is over holds no timer, no listener of those its cleanup     *)
(* takes back and no connection, and one that is not has a deadline or an  *)
(* abort on its way, whatever the provider sent: the cleanup of every path *)
(* out of the clients and of the adapters' finally blocks.                 *)
THEOREM NothingIsHeld == Spec => []HoldsNothing
<1>1. IInv => HoldsNothing
  BY DEF IInv, Good, Resources, Running, Bare, HoldsNothing, Over
<1>. QED
  BY <1>1, Invariance, PTL

(* Whoever reads the events of a run learns once, and last, how it ended;  *)
(* only a caller who hung up, or the one deadline nobody maps, ends it     *)
(* without a word.                                                         *)
THEOREM EndIsToldOnce == Spec => []OneTerminal
<1>1. ASSUME IInv PROVE OneTerminal
  <2>1. IsRun(run) /\ Told(run)
    BY <1>1 DEF IInv, Good
  <2>2. (Over /\ ~run.aborted /\ ~LostDeadline) =>
          Ended(run.out) /\ (run.expired => Last(run.out) = Timeout)
    BY <2>1 DEF Told, Lost, LostDeadline, Over
  <2>3. run.aborted => Quiet(run.out)
    BY <2>1 DEF Told
  <2>4. ~Over => Quiet(run.out)
    BY <2>1 DEF Told, Over
  <2>5. Quiet(run.out) \/ Ended(run.out)
    BY <2>1 DEF Told
  <2>6. \A i \in 1..Len(run.out) : Terminal(run.out[i]) => i = Len(run.out) /\ Over
    BY <2>4, <2>5 DEF Quiet, Ended
  <2>. QED
    BY <2>2, <2>3, <2>6 DEF OneTerminal, Quiet, Ended
<1>. QED
  BY <1>1, Invariance, PTL

(* Every tool call told is declared and stays the call it was, an index    *)
(* keeps its id and does not lose its name, and on the messages wire a run *)
(* that told of a call completes as one, its usage told before: the ACLs   *)
(* of both adapters and the calls they keep by upstream index.             *)
THEOREM CallsStayTrue == Spec => []CallsKeepFaith
<1>1. ASSUME IInv PROVE CallsKeepFaith
  <2>1. Faith(run) /\ Usage(run) /\ CompletesAsOne(run) /\ IsRun(run)
    BY <1>1 DEF IInv, Good
  <2>2. \A i \in 1..Len(run.out) : CallAt(i) => run.out[i][4] \in Declared \cup {NoName}
    BY <2>1 DEF Faith, CallAt, IsCall
  <2>3. ASSUME NEW i \in 1..Len(run.out), NEW j \in 1..Len(run.out), run.wire # "messages",
               CallAt(i), CallAt(j), i < j, run.out[i][2] = run.out[j][2]
        PROVE  Agree(run, run.out[i], run.out[j])
    BY <2>1, <2>3 DEF Faith, CallAt, IsCall
  <2>4. ASSUME NEW i \in 1..Len(run.out)
        PROVE  /\ CallAt(i) /\ run.wire = "messages" /\ Last(run.out)[1] = "completed" =>
                    Last(run.out) = <<"completed", "tool_calls">>
               /\ run.wire = "messages" /\ run.out[i][1] = "usage" => i < Len(run.out)
    <3>1. run.out # <<>>
      BY EmptySeq
    <3>. QED
      BY <2>1, <3>1 DEF CompletesAsOne, Usage, CallAt, IsCall
  <2>. QED
    BY <2>2, <2>3, <2>4 DEF CallsKeepFaith, Agree
<1>. QED
  BY <1>1, Invariance, PTL

-------------------------------------------------------------------------------
(* What discovery listed is what its catalog says, for the catalog is read *)
(* again only while nothing is listed.                                     *)
Catalogued ==
  \A m \in listed : m.provider = "command-code" =>
    /\ Entitlement(Entry(catalog, m.id)) # "excluded"
    /\ m.wire = Wire(Entry(catalog, m.id))

LEMMA CatalogueKept ==
  ASSUME Catalogued, [Next]_vars
  PROVE  Catalogued'
<1>1. CASE UNCHANGED <<catalog, listed>>
  BY <1>1 DEF Catalogued
<1>2. ASSUME NEW c \in Catalogs, NEW ok \in BOOLEAN, Discover(c[1], c[2], ok)
      PROVE  Catalogued'
  <2>1. \A m \in CommandCodeModels(c[2]) :
          /\ Entitlement(Entry(c[2], m.id)) # "excluded"
          /\ m.wire = Wire(Entry(c[2], m.id))
    BY DEF CommandCodeModels, ModelOf
  <2>2. \A m \in CavotiModels(c[2]) : m.provider = "cavoti"
    BY DEF CavotiModels
  <2>. QED
    BY <1>2, <2>1, <2>2 DEF Discover, Catalogued
<1>3. ASSUME NEW r, Step(r) PROVE UNCHANGED <<catalog, listed>>
  BY <1>3 DEF Step
<1>4. CASE \/ Break \/ ErrorBody \/ Oversize \/ End \/ Deadline \/ BodyDeadline \/ Abort
           \/ \E ok \in BOOLEAN : Headers(ok)
  BY <1>1, <1>3, <1>4 DEF Break, ErrorBody, Oversize, End, Deadline, BodyDeadline,
                          Abort, Headers
<1>5. CASE \/ Acknowledge \/ HangUp
           \/ \E m \in listed, h \in Histories : Start(m, h)
           \/ \E f \in Records(run.wire) : Read(f)
  BY <1>1, <1>5 DEF Acknowledge, HangUp, Start, Read
<1>6. CASE UNCHANGED vars
  BY <1>1, <1>6 DEF vars
<1>. QED
  BY <1>2, <1>4, <1>5, <1>6 DEF Next

(* Only the start of a run lets a request leave.                           *)
LEMMA OnlyStartSends ==
  ASSUME [Next]_vars, Leaves
  PROVE  \E m \in listed, h \in Histories : Start(m, h)
<1>1. ASSUME NEW r, Step(r) PROVE request' = NoBody
  BY <1>1 DEF Step
<1>2. CASE \/ Break \/ ErrorBody \/ Oversize \/ End \/ Deadline \/ BodyDeadline \/ Abort
           \/ \E ok \in BOOLEAN : Headers(ok)
  BY <1>1, <1>2 DEF Leaves, Break, ErrorBody, Oversize, End, Deadline, BodyDeadline,
                    Abort, Headers
<1>3. CASE \/ Acknowledge \/ HangUp \/ UNCHANGED vars
           \/ \E f \in Records(run.wire) : Read(f)
           \/ \E c \in Catalogs, ok \in BOOLEAN : Discover(c[1], c[2], ok)
  BY <1>3 DEF Leaves, vars, Acknowledge, HangUp, Read, Discover
<1>. QED
  BY <1>2, <1>3 DEF Next

LEMMA StartIsAllowed ==
  ASSUME NEW m, NEW h, Start(m, h), Leaves
  PROVE  request'[1] = m /\ enabled /\ m.id # "extra"
<1>1. run'.phase = "headers" /\ request' = <<m, h, Body(m.wire, h)>>
  BY DEF Start, Leaves
<1>2. \A e : NotSent(m.wire, e).phase = "over"
  BY DEF NotSent, Fresh
<1>. QED
  BY <1>1, <1>2 DEF Start, Started

(* A request leaves only under an acknowledgement valid at that moment,    *)
(* never for a model that names a spending path, and for a Command Code    *)
(* model only as its catalog entry allows: requireEnabled, assertNoSpend-  *)
(* Path, discoverModels and wireForModel.                                  *)
THEOREM OnlyAllowedIsSent == Spec => SendsAllowed
<1>1. Init => Catalogued
  BY DEF Init, Catalogued
<1>2. Catalogued /\ [Next]_vars => Catalogued'
  BY CatalogueKept
<1>3. ASSUME Catalogued, [Next]_vars, Leaves
      PROVE  LET m == request'[1] IN
             /\ enabled /\ m.id # "extra"
             /\ m.provider = "command-code" =>
                  /\ Entitlement(Entry(catalog, m.id)) # "excluded"
                  /\ m.wire = Wire(Entry(catalog, m.id))
  <2>1. PICK m \in listed, h \in Histories : Start(m, h)
    BY <1>3, OnlyStartSends
  <2>2. request'[1] = m /\ enabled /\ m.id # "extra"
    BY <1>3, <2>1, StartIsAllowed
  <2>. QED
    BY <1>3, <2>1, <2>2 DEF Catalogued
<1>. QED
  BY <1>1, <1>2, <1>3, PTL DEF Spec, SendsAllowed
===============================================================================
