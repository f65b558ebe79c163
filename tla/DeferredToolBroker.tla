-------------------------- MODULE DeferredToolBroker --------------------------
(***************************************************************************)
(* The broker shared by every provider adapter: the only record of a tool  *)
(* call between the HTTP reply that surfaced it and the HTTP request that  *)
(* brings its result.  Source: src/src/core/deferred-tool-broker.ts.       *)
(*                                                                         *)
(* Each method of the class runs to completion (JavaScript is single       *)
(* threaded), so one method call, one timer callback or one abort event is *)
(* one action.  What interleaves is their order.                           *)
(*                                                                         *)
(* A public id is a fresh UUID at every creation, so the n-th creation's   *)
(* public id is n; `calls` keeps, as history, what became of each creation *)
(* and `settled` the order in which calls were settled.  A composite id    *)
(* (profile|provider|session|turn|call) is a record, and may come back     *)
(* after its call was settled: createPendingCall allows it.                *)
(***************************************************************************)
EXTENDS Naturals, Sequences, FiniteSets, Functions

CONSTANTS
  Keys,         \* composite ids, records with profile, provider, sessionId
  Profiles,     \* CHAT and AGENT
  AnyProfile,   \* a claim that names no expected profile
  Signals,      \* the callers' AbortSignals
  NoSignal,     \* a creation without a signal
  Waiters,      \* callers of awaitCall
  MaxPending,   \* the broker's bound (64 in the code)
  MaxCalls      \* bound on this model: creations in one behaviour

ASSUME KeysAssumption ==
  /\ IsFiniteSet(Keys)
  /\ \A k \in Keys : k.profile \in Profiles
ASSUME BoundAssumption == MaxPending \in Nat \ {0} /\ MaxCalls \in Nat
ASSUME SignalAssumption == NoSignal \notin Signals
ASSUME ProfileAssumption == AnyProfile \notin Profiles /\ "nobody" \notin Profiles

VARIABLES
  entries,         \* composite id -> the creation whose Entry it holds
  publicIndex,     \* public id -> composite id
  terminal,        \* ordered map: composite id -> terminal state
  publicTerminal,  \* ordered map: public id -> terminal state
  timers,          \* creations whose setTimeout is armed
  listeners,       \* abort listeners, as <<signal, creation>>
  aborted,         \* signals that have fired
  waiters,         \* promises handed out by awaitCall
  calls,           \* history: each creation's composite id, fate, claimant
  settled          \* history: creations in the order they were settled

brokerVars == <<entries, publicIndex, terminal, publicTerminal, timers,
                listeners, aborted, waiters>>
vars == <<brokerVars, calls, settled>>

Publics   == 1..MaxCalls
Claimants == Profiles \cup {AnyProfile, "nobody"}
Fates     == {"resolved", "expired", "cancelled"}
Outcomes  == {"resolved", "duplicate", "stale", "unknown"}
Idle      == [on |-> 0, got |-> "none"]

-------------------------------------------------------------------------------
(* JavaScript Maps keep insertion order; the two terminal maps are trimmed *)
(* from their oldest entry.  Both are written only with ids they lack: an  *)
(* id leaves `terminal` when it is created again, and public ids are never *)
(* issued twice.  So a write is an append.                                 *)
Trim(m) ==
  IF Len(m) > MaxPending THEN SubSeq(m, Len(m) - MaxPending + 1, Len(m)) ELSE m

Holds(m, id) == \E i \in DOMAIN m : m[i].id = id
StateOf(m, id) == m[CHOOSE i \in DOMAIN m : m[i].id = id].state

(* Map.delete: the rest keeps its order.                                   *)
Without(m, id) ==
  IF Holds(m, id)
  THEN LET at == CHOOSE i \in DOMAIN m : m[i].id = id
       IN  [i \in 1..(Len(m) - 1) |-> IF i < at THEN m[i] ELSE m[i + 1]]
  ELSE m

(* How a late result is answered from a terminal map.  Mutant: whatever is *)
(* remembered counts as a duplicate.                                       *)
ClassifyLate(m, id) == IF Holds(m, id) THEN "duplicate" ELSE "unknown"
Classify(m, id) ==
  IF ~Holds(m, id) THEN "unknown"
  ELSE IF StateOf(m, id) = "resolved" THEN "duplicate"
  ELSE "stale"

Put(f, x, v) == [y \in DOMAIN f \cup {x} |-> IF y = x THEN v ELSE f[y]]

Live == DOMAIN entries
PublicOf(k) == CHOOSE p \in DOMAIN publicIndex : publicIndex[p] = k

-------------------------------------------------------------------------------
(* Each mutant below forgets one of the things a settlement has to do.     *)
TakenFrom(gone) == {entries[k] : k \in gone}

EntriesWithout(gone) == Restrict(entries, Live \ gone)

IndexKept(gone) == publicIndex
IndexWithout(gone) ==
  Restrict(publicIndex, DOMAIN publicIndex \ {PublicOf(k) : k \in gone})

TimersKept(gone) == timers
TimersCleared(gone) == timers \ TakenFrom(gone)

WaitersReleased(gone, how) ==
  [w \in Waiters |->
     IF waiters[w].got = "pending" /\ waiters[w].on \in TakenFrom(gone)
     THEN [on  |-> waiters[w].on,
           got |-> IF how = "resolved" THEN "resolved" ELSE "rejected"]
     ELSE waiters[w]]

(* Taking entries out, in the given order, and recording how they ended:   *)
(* `take`, `resolveCall` and `failEntry` share it, with rememberTerminal.  *)
(* `order` is a sequence of live composite ids.  Mutant: none is deleted.  *)
NoneDeleted(order) == {}
Deleted(order) == Range(order)

Settle(order, how, by) ==
  LET gone == Deleted(order) IN
  /\ entries' = EntriesWithout(gone)
  /\ publicIndex' = IndexWithout(gone)
  /\ publicTerminal' = Trim(publicTerminal \o
        [i \in DOMAIN order |-> [id |-> PublicOf(order[i]), state |-> how]])
  /\ terminal' = Trim(terminal \o
        [i \in DOMAIN order |-> [id |-> order[i], state |-> how]])
  /\ waiters' = WaitersReleased(gone, how)
  /\ calls' = [p \in DOMAIN calls |->
        IF p \in TakenFrom(gone)
        THEN [key |-> calls[p].key, fate |-> how, by |-> by] ELSE calls[p]]
  /\ settled' = settled \o [i \in DOMAIN order |-> entries[order[i]]]

(* The arrangements of the live ids M in increasing rank.                  *)
InOrder(M, rank) ==
  {o \in Bijection(1..Cardinality(M), M) :
     \A i, j \in 1..Cardinality(M) : i < j => rank[o[i]] < rank[o[j]]}

Init ==
  /\ entries = <<>>
  /\ publicIndex = <<>>
  /\ terminal = <<>>
  /\ publicTerminal = <<>>
  /\ timers = {}
  /\ listeners = {}
  /\ aborted = {}
  /\ waiters = [w \in Waiters |-> Idle]
  /\ calls = <<>>
  /\ settled = <<>>

-------------------------------------------------------------------------------
(* createPendingCall.  A composite id already live is refused and nothing  *)
(* changes.  At capacity the call is refused too, but its terminal record  *)
(* has been deleted by then.                                               *)
(* Mutant: the bound is off by one.                                        *)
AtCapacityLate == Cardinality(Live) > MaxPending
AtCapacity == Cardinality(Live) >= MaxPending

CreateRefused(k) ==
  /\ k \notin Live
  /\ AtCapacity
  /\ terminal' = Without(terminal, k)
  /\ UNCHANGED <<entries, publicIndex, publicTerminal, timers, listeners,
                 aborted, waiters, calls, settled>>

(* Mutant: the deadline is not armed.                                      *)
Unarmed(p) == timers
Armed(p) == timers \cup {p}

(* The entry is stored, its deadline armed, its public id indexed, and the *)
(* caller's signal listened to.                                            *)
CreateParked(k, s) ==
  LET p == Len(calls) + 1 IN
  /\ Len(calls) < MaxCalls
  /\ k \notin Live
  /\ ~AtCapacity
  /\ s \notin aborted
  /\ entries' = Put(entries, k, p)
  /\ publicIndex' = Put(publicIndex, p, k)
  /\ terminal' = Without(terminal, k)
  /\ timers' = Armed(p)
  /\ listeners' = IF s = NoSignal THEN listeners ELSE listeners \cup {<<s, p>>}
  /\ calls' = Append(calls, [key |-> k, fate |-> "pending", by |-> "nobody"])
  /\ UNCHANGED <<publicTerminal, aborted, waiters, settled>>

(* The signal had already fired: the stored entry is failed before the     *)
(* method returns, so only the terminal records are left of it.            *)
CreateBornCancelled(k, s) ==
  LET p == Len(calls) + 1 IN
  /\ Len(calls) < MaxCalls
  /\ k \notin Live
  /\ ~AtCapacity
  /\ s \in aborted
  /\ terminal' = Trim(Append(Without(terminal, k), [id |-> k, state |-> "cancelled"]))
  /\ publicTerminal' = Trim(Append(publicTerminal, [id |-> p, state |-> "cancelled"]))
  /\ calls' = Append(calls, [key |-> k, fate |-> "cancelled", by |-> "nobody"])
  /\ settled' = Append(settled, p)
  /\ UNCHANGED <<entries, publicIndex, timers, listeners, aborted, waiters>>

(* awaitCall: a promise on the live entry, or one already rejected.        *)
AwaitCall(w, k) ==
  /\ waiters[w].got = "none"
  /\ waiters' = [waiters EXCEPT ![w] =
       IF k \in Live THEN [on |-> entries[k], got |-> "pending"]
       ELSE [on |-> 0, got |-> "rejected"]]
  /\ UNCHANGED <<entries, publicIndex, terminal, publicTerminal, timers,
                 listeners, aborted, calls, settled>>

-------------------------------------------------------------------------------
(* claimByPublicToolCallId: what a claim is answered, and the one answer   *)
(* that changes the state.  Mutant of the profile check: it is skipped.    *)
NoProfileCheck(k, by) == FALSE
Foreign(k, by) == by # AnyProfile /\ k.profile # by

Answer(p, by) ==
  IF p \notin DOMAIN publicIndex THEN Classify(publicTerminal, p)
  ELSE IF Foreign(publicIndex[p], by) THEN "unknown"
  ELSE IF publicIndex[p] \notin Live THEN Classify(terminal, publicIndex[p])
  ELSE "resolved"

Claim(p, by) ==
  /\ Answer(p, by) = "resolved"
  /\ Settle(<<publicIndex[p]>>, "resolved", by)
  /\ timers' = TimersCleared({publicIndex[p]})
  /\ UNCHANGED <<listeners, aborted>>

(* claimCall and resolveCall, by composite id.  A miss is only answered    *)
(* (from `terminal`).                                                      *)
TakeByKey(k) ==
  /\ k \in Live
  /\ Settle(<<k>>, "resolved", AnyProfile)
  /\ timers' = TimersCleared({k})
  /\ UNCHANGED <<listeners, aborted>>

-------------------------------------------------------------------------------
(* The deadline of creation p: the callback holds p's composite id and     *)
(* fails whatever entry is live under it, if any.  Mutant: the late state  *)
(* is not one of the three the maps know.                                  *)
ExpireMislabelled(p) ==
  LET hit == {calls[p].key} \cap Live IN
  /\ p \in timers
  /\ \E order \in InOrder(hit, entries) : Settle(order, "timeout", "nobody")
  /\ timers' = TimersCleared(hit) \ {p}
  /\ UNCHANGED <<listeners, aborted>>

Expire(p) ==
  LET hit == {calls[p].key} \cap Live IN
  /\ p \in timers
  /\ \E order \in InOrder(hit, entries) : Settle(order, "expired", "nobody")
  /\ timers' = TimersCleared(hit) \ {p}
  /\ UNCHANGED <<listeners, aborted>>

(* A caller's signal fires.  Its listeners run in the order they were      *)
(* added, each failing whatever entry is live under its composite id: a    *)
(* listener is never removed when its own call is settled.                 *)
Abort(s) ==
  LET mine == {p \in Publics : <<s, p>> \in listeners}
      hit  == {k \in Live : \E p \in mine : calls[p].key = k}
      rank == [k \in hit |-> CHOOSE p \in mine : /\ calls[p].key = k
                                /\ \A q \in mine : calls[q].key = k => p <= q]
  IN
  /\ s \notin aborted
  /\ aborted' = aborted \cup {s}
  /\ listeners' = {l \in listeners : l[1] # s}
  /\ \E order \in InOrder(hit, rank) : Settle(order, "cancelled", "nobody")
  /\ timers' = TimersCleared(hit)

(* cancelScope, with either half of the filter possibly left out: the live *)
(* entries are visited in the order they were created.                     *)
CancelScope(inScope) ==
  /\ \E order \in InOrder(inScope, entries) : Settle(order, "cancelled", "nobody")
  /\ timers' = TimersCleared(inScope)
  /\ UNCHANGED <<listeners, aborted>>

Scopes ==
  {{k \in Live : k.provider = q.provider} : q \in Keys} \cup
  {{k \in Live : k.sessionId = q.sessionId} : q \in Keys} \cup
  {{k \in Live : k.provider = q.provider /\ k.sessionId = q.sessionId} : q \in Keys}

Create == \E k \in Keys :
  \/ CreateRefused(k)
  \/ \E s \in Signals \cup {NoSignal} :
       CreateParked(k, s) \/ CreateBornCancelled(k, s)

Next ==
  \/ Create
  \/ \E w \in Waiters, k \in Keys : AwaitCall(w, k)
  \/ \E p \in Publics, by \in Profiles \cup {AnyProfile} : Claim(p, by)
  \/ \E k \in Keys : TakeByKey(k)
  \/ \E p \in Publics : Expire(p)
  \/ \E s \in Signals : Abort(s)
  \/ \E inScope \in Scopes : CancelScope(inScope)

(* An armed timer fires: setTimeout is the only thing the code leaves to   *)
(* the scheduler.  Nobody is obliged to claim, abort or cancel.            *)
Spec == Init /\ [][Next]_vars
FairSpec == Spec /\ \A p \in Publics : WF_vars(Expire(p))

-------------------------------------------------------------------------------
MapOf(Ids) == [id : Ids, state : Fates]

TypeOK ==
  /\ entries \in [Live -> Publics] /\ Live \subseteq Keys
  /\ publicIndex \in [DOMAIN publicIndex -> Keys]
  /\ DOMAIN publicIndex \subseteq Publics
  /\ terminal \in Seq(MapOf(Keys))
  /\ publicTerminal \in Seq(MapOf(Publics))
  /\ timers \subseteq Publics
  /\ listeners \subseteq Signals \X Publics
  /\ aborted \subseteq Signals
  /\ waiters \in [Waiters -> [on : {0} \cup Publics,
                     got : {"none", "pending", "resolved", "rejected"}]]
  /\ calls \in Seq([key : Keys, fate : {"pending"} \cup Fates, by : Claimants])
  /\ Len(calls) <= MaxCalls
  /\ settled \in Seq(Publics)

(* The live entries, the public index and the history describe the same    *)
(* calls: each live entry is the pending creation of its composite id, its *)
(* public id leads back to it, and no other public id does.  The break     *)
(* after the first match in rememberTerminal and the claim that finds an   *)
(* id in the index rely on it.                                             *)
IndexConsistent ==
  /\ \A k \in Live : /\ entries[k] \in DOMAIN publicIndex
                     /\ publicIndex[entries[k]] = k
  /\ \A p \in DOMAIN publicIndex : /\ publicIndex[p] \in Live
                                   /\ entries[publicIndex[p]] = p
                                   /\ p \in DOMAIN calls
                                   /\ calls[p].key = publicIndex[p]
                                   /\ calls[p].fate = "pending"
  /\ \A p \in DOMAIN calls : calls[p].fate = "pending" => p \in DOMAIN publicIndex

(* Every parked call has its own deadline armed, and no deadline outlives  *)
(* its call: an old one would expire a later call of the same composite    *)
(* id.                                                                     *)
DeadlinesMatchCalls == timers = {entries[k] : k \in Live}

(* A pending call can be settled only once: the settlements are all of     *)
(* different creations, none of them still pending.                        *)
SettledOnce ==
  /\ \A i, j \in DOMAIN settled : settled[i] = settled[j] => i = j
  /\ \A i \in DOMAIN settled : /\ settled[i] \in DOMAIN calls
                               /\ calls[settled[i]].fate # "pending"
  /\ \A p \in DOMAIN calls : calls[p].fate # "pending" =>
       \E i \in DOMAIN settled : settled[i] = p

(* No continuation of one profile ever consumes the call of the other.     *)
OwnerOnly ==
  \A p \in DOMAIN calls : calls[p].by \in Profiles => calls[p].by = calls[p].key.profile

(* The broker's memory is bounded: a full broker refuses the new call.     *)
Bounded ==
  /\ Cardinality(Live) <= MaxPending
  /\ Len(terminal) <= MaxPending
  /\ Len(publicTerminal) <= MaxPending

(* What is remembered of settled public ids is exactly the last MaxPending *)
(* settlements, oldest first, each with how it really ended.               *)
MemoryIsRecent ==
  LET n == Len(publicTerminal) IN
  /\ n = IF Len(settled) < MaxPending THEN Len(settled) ELSE MaxPending
  /\ \A i \in 1..n :
       LET p == settled[Len(settled) - n + i] IN
       publicTerminal[i] = [id |-> p, state |-> calls[p].fate]

(* A remembered composite id has no live call, and is remembered as the    *)
(* latest call under it ended.                                             *)
TerminalIsLatest ==
  \A i \in DOMAIN terminal :
    LET k  == terminal[i].id
        ps == {p \in DOMAIN calls : calls[p].key = k}
    IN  /\ k \notin Live
        /\ \E p \in ps : /\ \A q \in ps : q <= p
                         /\ calls[p].fate = terminal[i].state

SettledAfter(p) ==
  {i \in DOMAIN settled : \E j \in 1..(i - 1) : settled[j] = p}

(* Whatever public id a claim names, and whoever makes it, the answer is   *)
(* the truth: the call is handed out only while pending and only to its    *)
(* owner (or to a claim that names no profile), "duplicate" is said only   *)
(* of a resolved call, "stale" only of an expired or cancelled one, and    *)
(* "unknown" only of an id never issued, another profile's call, or one    *)
(* settled so long ago that MaxPending others have been settled since.     *)
TruthfulAnswer(p, by) ==
  LET fate == IF p \in DOMAIN calls THEN calls[p].fate ELSE "unborn"
      mine == by = AnyProfile \/ calls[p].key.profile = by
  IN
  CASE Answer(p, by) = "resolved"  -> fate = "pending" /\ mine
    [] Answer(p, by) = "duplicate" -> fate = "resolved"
    [] Answer(p, by) = "stale"     -> fate \in {"expired", "cancelled"}
    [] OTHER -> \/ fate = "unborn"
                \/ fate = "pending" /\ ~mine
                \/ fate \in Fates /\ Cardinality(SettledAfter(p)) >= MaxPending

AnswersTruthful ==
  \A p \in Publics, by \in Profiles \cup {AnyProfile} : TruthfulAnswer(p, by)

(* A promise of awaitCall waits only on a live call, and is kept or broken *)
(* as that very call was settled, also when its composite id is in use     *)
(* again.                                                                  *)
WaitersFollowTheirCall ==
  \A w \in Waiters :
    LET p == waiters[w].on IN
    CASE waiters[w].got = "pending"  -> p \in DOMAIN calls /\ calls[p].fate = "pending"
      [] waiters[w].got = "resolved" -> p \in DOMAIN calls /\ calls[p].fate = "resolved"
      [] waiters[w].got = "rejected" ->
           p = 0 \/ (p \in DOMAIN calls /\ calls[p].fate \in {"expired", "cancelled"})
      [] OTHER -> TRUE

-------------------------------------------------------------------------------
(* The ledger behind the maps.                                             *)
StatusOf(p) ==
  IF p \in DOMAIN publicIndex THEN "pending"
  ELSE IF p \in DOMAIN calls THEN calls[p].fate ELSE "unborn"

statusBar == [p \in Publics |-> StatusOf(p)]

L == INSTANCE ToolCallLedger WITH Calls <- Publics, status <- statusBar

(* Every step of the broker is a step of the ledger.                       *)
ImplementsLedger == L!Ledger

(* Every parked call is settled in the end, by its deadline if by nothing  *)
(* else.                                                                   *)
EveryCallSettles == L!Settles
===============================================================================
