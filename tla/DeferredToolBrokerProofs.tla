----------------------- MODULE DeferredToolBrokerProofs -----------------------
(***************************************************************************)
(* Proofs about the broker, for every set of composite ids, profiles,      *)
(* signals and waiters, every bound MaxPending and every MaxCalls.         *)
(***************************************************************************)
EXTENDS DeferredToolBroker, SequenceTheorems, FiniteSetTheorems, TLAPS

CallRecs == [key : Keys, fate : {"pending"} \cup Fates, by : Claimants]

(* The listeners belong to calls that were created.                        *)
ListenersCreated == \A l \in listeners : l[2] \in DOMAIN calls

(* The inductive invariant.  IndexConsistent is what makes a settlement    *)
(* move the right public id, and DeadlinesMatchCalls what makes a deadline *)
(* find its own call.                                                      *)
IInv ==
  /\ TypeOK
  /\ IndexConsistent
  /\ DeadlinesMatchCalls
  /\ ListenersCreated
  /\ SettledOnce
  /\ OwnerOnly
  /\ Bounded

(* A settlement order: distinct live ids.                                  *)
IsOrder(o) == o \in Seq(Live) /\ IsInjective(o)

-------------------------------------------------------------------------------
(* Trimming keeps the type of a sequence and bounds its length.            *)
LEMMA TrimProperties ==
  ASSUME NEW S, NEW m \in Seq(S)
  PROVE  Trim(m) \in Seq(S) /\ Len(Trim(m)) \in Nat /\ Len(Trim(m)) <= MaxPending
<1>1. Len(m) \in Nat /\ \A i \in 1..Len(m) : m[i] \in S
  BY LenProperties, ElementOfSeq
<1>2. MaxPending \in Nat /\ MaxPending > 0
  BY BoundAssumption
<1>3. CASE Len(m) > MaxPending
  <2> DEFINE a == Len(m) - MaxPending + 1
             b == Len(m)
  <2>1. a \in Int /\ b \in Int /\ a <= b /\ \A i \in a..b : m[i] \in S
    BY <1>1, <1>2, <1>3
  <2> HIDE DEF a, b
  <2>2. SubSeq(m, a, b) \in Seq(S) /\ Len(SubSeq(m, a, b)) = b - a + 1
    BY <2>1, SubSeqProperties
  <2>3. Trim(m) = SubSeq(m, a, b)
    BY <1>3 DEF Trim, a, b
  <2>4. b - a + 1 = MaxPending
    BY <1>1, <1>2 DEF a, b
  <2>. QED
    BY <2>2, <2>3, <2>4, <1>2
<1>4. CASE ~(Len(m) > MaxPending)
  BY <1>1, <1>2, <1>4 DEF Trim
<1>. QED
  BY <1>3, <1>4

(* Deleting an id from an ordered map keeps its type and does not lengthen *)
(* it.                                                                     *)
LEMMA WithoutProperties ==
  ASSUME NEW S, NEW m \in Seq(S), NEW id
  PROVE  /\ Without(m, id) \in Seq(S)
         /\ Len(Without(m, id)) \in Nat
         /\ Len(Without(m, id)) <= Len(m)
<1>1. CASE Holds(m, id)
  <2> DEFINE at == CHOOSE i \in DOMAIN m : m[i].id = id
             w  == [i \in 1..(Len(m) - 1) |-> IF i < at THEN m[i] ELSE m[i + 1]]
  <2>1. Len(m) \in Nat /\ DOMAIN m = 1..Len(m) /\ \A i \in 1..Len(m) : m[i] \in S
    BY LenProperties, ElementOfSeq
  <2>2. Len(m) >= 1
    BY <1>1, <2>1 DEF Holds
  <2>3. \A i \in 1..(Len(m) - 1) : (IF i < at THEN m[i] ELSE m[i + 1]) \in S
    BY <2>1, <2>2
  <2>4. w \in [1..(Len(m) - 1) -> S]
    BY <2>3
  <2>5. w \in Seq(S) /\ Len(w) = Len(m) - 1
    BY <2>4, <2>1, <2>2
  <2>6. Without(m, id) = w
    BY <1>1 DEF Without
  <2>. QED
    BY <2>1, <2>2, <2>5, <2>6
<1>2. CASE ~Holds(m, id)
  BY <1>2, LenProperties DEF Without
<1>. QED
  BY <1>1, <1>2

(* Under a consistent index, the public id found for a live composite id   *)
(* is the one its entry was created with.                                  *)
LEMMA PublicOfLive ==
  ASSUME IndexConsistent, NEW k \in Live
  PROVE  PublicOf(k) = entries[k]
<1>1. entries[k] \in DOMAIN publicIndex /\ publicIndex[entries[k]] = k
  BY DEF IndexConsistent
<1>2. \A p \in DOMAIN publicIndex : publicIndex[p] = k => p = entries[k]
  BY DEF IndexConsistent
<1>. QED
  BY <1>1, <1>2 DEF PublicOf

(* An arrangement of live ids is a settlement order, and covers them.      *)
LEMMA InOrderIsOrder ==
  ASSUME TypeOK, NEW M, M \subseteq Live, NEW rank, NEW o \in InOrder(M, rank)
  PROVE  IsOrder(o) /\ Range(o) = M
<1>1. IsFiniteSet(Keys) /\ M \subseteq Keys
  BY KeysAssumption DEF TypeOK
<1>2. IsFiniteSet(M) /\ Cardinality(M) \in Nat
  BY <1>1, FS_Subset, FS_CardinalityType
<1>3. o \in [1..Cardinality(M) -> M] /\ IsInjective(o)
      /\ \A x \in M : \E i \in 1..Cardinality(M) : o[i] = x
  BY DEF InOrder, Bijection, Injection, Surjection
<1>4. o \in Seq(M)
  BY <1>2, <1>3
<1>5. o \in Seq(Live)
  BY <1>4, SeqMonotonic
<1>6. Range(o) = M
  BY <1>3 DEF Range
<1>. QED
  BY <1>3, <1>5, <1>6 DEF IsOrder

(* A single live id is a settlement order.                                 *)
LEMMA SingleIsOrder ==
  ASSUME NEW k \in Live
  PROVE  IsOrder(<<k>>) /\ Range(<<k>>) = {k}
<1>1. <<k>> \in Seq(Live)
  OBVIOUS
<1>2. IsInjective(<<k>>) /\ Range(<<k>>) = {k}
  BY DEF IsInjective, Range
<1>. QED
  BY <1>1, <1>2 DEF IsOrder

-------------------------------------------------------------------------------
(* What one settlement does to each map, from the inductive invariant.     *)
LEMMA SettleMaps ==
  ASSUME IInv, NEW order, IsOrder(order), NEW how \in Fates, NEW by \in Claimants,
         Settle(order, how, by)
  PROVE  LET gone == Range(order) IN
         /\ gone \subseteq Live
         /\ Live' = Live \ gone
         /\ \A k \in Live' : entries'[k] = entries[k]
         /\ DOMAIN publicIndex' = DOMAIN publicIndex \ TakenFrom(gone)
         /\ \A p \in DOMAIN publicIndex' : publicIndex'[p] = publicIndex[p]
         /\ entries' \in [Live' -> Publics]
         /\ DOMAIN calls' = DOMAIN calls
         /\ \A p \in DOMAIN calls : calls'[p] =
              IF p \in TakenFrom(gone)
              THEN [key |-> calls[p].key, fate |-> how, by |-> by] ELSE calls[p]
<1> DEFINE gone == Range(order)
<1>1. gone \subseteq Live
  BY RangeOfSeq DEF IsOrder
<1>2. entries' = [k \in Live \ gone |-> entries[k]]
  BY DEF Deleted, Settle, EntriesWithout, Restrict
<1>3. {PublicOf(k) : k \in gone} = TakenFrom(gone)
  <2>1. \A k \in gone : PublicOf(k) = entries[k]
    BY <1>1, PublicOfLive DEF IInv
  <2>. QED
    BY <2>1 DEF TakenFrom
<1>4. publicIndex' = [p \in DOMAIN publicIndex \ TakenFrom(gone) |-> publicIndex[p]]
  BY <1>3 DEF Deleted, Settle, IndexWithout, Restrict
<1>5. calls' = [p \in DOMAIN calls |-> IF p \in TakenFrom(gone)
                  THEN [key |-> calls[p].key, fate |-> how, by |-> by] ELSE calls[p]]
  BY DEF Deleted, Settle
<1>6. entries \in [Live -> Publics]
  BY DEF IInv, TypeOK
<1>. QED
  BY <1>1, <1>2, <1>4, <1>5, <1>6 DEF Live

(* A settlement keeps the types.                                           *)
LEMMA SettleTypes ==
  ASSUME IInv, NEW order, IsOrder(order), NEW how \in Fates, NEW by \in Claimants,
         Settle(order, how, by), timers' \subseteq timers,
         listeners' \subseteq listeners, aborted' \subseteq Signals
  PROVE  TypeOK' /\ Len(terminal') <= MaxPending /\ Len(publicTerminal') <= MaxPending
<1> USE DEF IInv
<1> DEFINE gone == Range(order)
           recs == [i \in DOMAIN order |-> [id |-> order[i], state |-> how]]
           pubs == [i \in DOMAIN order |-> [id |-> PublicOf(order[i]), state |-> how]]
           objs == [i \in DOMAIN order |-> entries[order[i]]]
<1>1. Len(order) \in Nat /\ DOMAIN order = 1..Len(order)
      /\ \A i \in DOMAIN order : order[i] \in Live
  BY LenProperties, ElementOfSeq DEF IsOrder
<1>2. Live \subseteq Keys /\ entries \in [Live -> Publics]
  BY DEF TypeOK
<1>3. \A i \in DOMAIN order : /\ order[i] \in Keys
                              /\ entries[order[i]] \in Publics
                              /\ PublicOf(order[i]) = entries[order[i]]
  BY <1>1, <1>2, PublicOfLive
<1>4. recs \in Seq(MapOf(Keys)) /\ pubs \in Seq(MapOf(Publics)) /\ objs \in Seq(Publics)
  <2>1. recs \in [1..Len(order) -> MapOf(Keys)]
    BY <1>1, <1>3 DEF MapOf
  <2>2. pubs \in [1..Len(order) -> MapOf(Publics)]
    BY <1>1, <1>3 DEF MapOf
  <2>3. objs \in [1..Len(order) -> Publics]
    BY <1>1, <1>3
  <2> HIDE DEF recs, pubs, objs
  <2>. QED
    BY <1>1, <2>1, <2>2, <2>3
<1>5. /\ terminal' = Trim(terminal \o recs)
      /\ publicTerminal' = Trim(publicTerminal \o pubs)
      /\ settled' = settled \o objs
  BY DEF Deleted, Settle
<1> HIDE DEF recs, pubs, objs
<1>6. /\ terminal \o recs \in Seq(MapOf(Keys))
      /\ publicTerminal \o pubs \in Seq(MapOf(Publics))
      /\ settled \o objs \in Seq(Publics)
  BY <1>4, ConcatProperties DEF TypeOK
<1>7. /\ terminal' \in Seq(MapOf(Keys)) /\ Len(terminal') <= MaxPending
      /\ publicTerminal' \in Seq(MapOf(Publics)) /\ Len(publicTerminal') <= MaxPending
  BY <1>5, <1>6, TrimProperties
<1>8. entries' \in [Live' -> Publics] /\ Live' \subseteq Keys
  BY SettleMaps, <1>2
<1>9. publicIndex' \in [DOMAIN publicIndex' -> Keys] /\ DOMAIN publicIndex' \subseteq Publics
  <2>1. publicIndex' = Restrict(publicIndex, DOMAIN publicIndex \ {PublicOf(k) : k \in gone})
    BY DEF Deleted, Settle, IndexWithout
  <2>. QED
    BY <2>1 DEF TypeOK, Restrict
<1>10. waiters' \in [Waiters -> [on : {0} \cup Publics,
                     got : {"none", "pending", "resolved", "rejected"}]]
  <2>1. waiters' = WaitersReleased(gone, how)
    BY DEF Deleted, Settle
  <2>. QED
    BY <2>1 DEF WaitersReleased, TypeOK
<1>11. calls' \in Seq(CallRecs) /\ Len(calls') = Len(calls)
  <2>1. calls \in Seq(CallRecs)
    BY DEF TypeOK, CallRecs
  <2>2. Len(calls) \in Nat /\ DOMAIN calls = 1..Len(calls)
        /\ \A p \in DOMAIN calls : calls[p] \in CallRecs
    BY <2>1, LenProperties, ElementOfSeq
  <2>3. \A p \in DOMAIN calls : [key |-> calls[p].key, fate |-> how, by |-> by] \in CallRecs
    BY <2>2 DEF CallRecs
  <2>4. calls' = [p \in DOMAIN calls |-> IF p \in TakenFrom(gone)
                    THEN [key |-> calls[p].key, fate |-> how, by |-> by] ELSE calls[p]]
    BY DEF Deleted, Settle
  <2>5. calls' \in [1..Len(calls) -> CallRecs]
    BY <2>2, <2>3, <2>4
  <2>. QED
    BY <2>2, <2>5
<1>12. Len(calls) <= MaxCalls
  BY DEF TypeOK
<1>13. timers' \subseteq Publics /\ listeners' \subseteq Signals \X Publics
  BY DEF TypeOK
<1>. QED
  BY <1>5, <1>6, <1>7, <1>8, <1>9, <1>10, <1>11, <1>12, <1>13 DEF TypeOK, CallRecs

(* A settlement keeps index, entries and history in step.                  *)
LEMMA SettleIndex ==
  ASSUME IInv, NEW order, IsOrder(order), NEW how \in Fates, NEW by \in Claimants,
         Settle(order, how, by)
  PROVE  IndexConsistent'
<1> USE DEF IInv
<1> DEFINE gone == Range(order)
           T == TakenFrom(gone)
<1>1. /\ gone \subseteq Live
      /\ Live' = Live \ gone
      /\ \A k \in Live' : entries'[k] = entries[k]
      /\ DOMAIN publicIndex' = DOMAIN publicIndex \ T
      /\ \A p \in DOMAIN publicIndex' : publicIndex'[p] = publicIndex[p]
      /\ DOMAIN calls' = DOMAIN calls
      /\ \A p \in DOMAIN calls : calls'[p] =
           IF p \in T THEN [key |-> calls[p].key, fate |-> how, by |-> by] ELSE calls[p]
  BY SettleMaps
<1>2. \A k \in Live' : entries[k] \notin T
  BY <1>1 DEF IndexConsistent, TakenFrom
<1>3. \A k \in Live' : entries'[k] \in DOMAIN publicIndex' /\ publicIndex'[entries'[k]] = k
  BY <1>1, <1>2 DEF IndexConsistent
<1>4. \A p \in DOMAIN publicIndex' : publicIndex[p] \notin gone
  BY <1>1 DEF IndexConsistent, TakenFrom
<1>5. \A p \in DOMAIN publicIndex' :
        /\ publicIndex'[p] \in Live' /\ entries'[publicIndex'[p]] = p
        /\ p \in DOMAIN calls' /\ calls'[p].key = publicIndex'[p]
        /\ calls'[p].fate = "pending"
  BY <1>1, <1>4 DEF IndexConsistent
<1>6. \A p \in DOMAIN calls' : calls'[p].fate = "pending" => p \in DOMAIN publicIndex'
  <2> SUFFICES ASSUME NEW p \in DOMAIN calls, calls'[p].fate = "pending"
               PROVE  p \in DOMAIN publicIndex'
    BY <1>1
  <2>1. calls[p] \in CallRecs
    BY ElementOfSeq, LenProperties DEF TypeOK, CallRecs
  <2>2. p \notin T
    BY <1>1, <2>1 DEF Fates, CallRecs
  <2>. QED
    BY <1>1, <2>2 DEF IndexConsistent
<1>. QED
  BY <1>3, <1>5, <1>6 DEF IndexConsistent

(* A settlement adds to the settlements creations that were pending, each  *)
(* once.                                                                   *)
LEMMA SettleOnce ==
  ASSUME IInv, NEW order, IsOrder(order), NEW how \in Fates, NEW by \in Claimants,
         Settle(order, how, by)
  PROVE  SettledOnce'
<1> USE DEF IInv
<1> DEFINE gone == Range(order)
           T    == TakenFrom(gone)
           objs == [i \in DOMAIN order |-> entries[order[i]]]
           n    == Len(settled)
<1>1. /\ gone \subseteq Live
      /\ DOMAIN calls' = DOMAIN calls
      /\ \A p \in DOMAIN calls : calls'[p] =
           IF p \in T THEN [key |-> calls[p].key, fate |-> how, by |-> by] ELSE calls[p]
  BY SettleMaps
<1>2. Len(order) \in Nat /\ DOMAIN order = 1..Len(order)
      /\ \A i \in DOMAIN order : order[i] \in Live
  BY LenProperties, ElementOfSeq DEF IsOrder
<1>3. \A i \in DOMAIN order : entries[order[i]] \in Publics
  BY <1>2 DEF TypeOK
<1>4. objs \in Seq(Publics) /\ Len(objs) = Len(order) /\ DOMAIN objs = DOMAIN order
  <2>1. objs \in [1..Len(order) -> Publics]
    BY <1>2, <1>3
  <2>. QED
    BY <1>2, <2>1
<1>5. \A i \in DOMAIN order : objs[i] \in T /\ objs[i] \in DOMAIN calls
                              /\ calls[objs[i]].fate = "pending"
  BY <1>2 DEF IndexConsistent, TakenFrom, Range
<1>6. \A i, j \in DOMAIN order : objs[i] = objs[j] => i = j
  BY <1>2 DEF IndexConsistent, IsOrder, IsInjective
<1>7. \A t \in T : \E i \in DOMAIN order : objs[i] = t
  BY DEF TakenFrom, Range
<1>8. settled' = settled \o objs
  BY DEF Deleted, Settle
<1>9. settled \in Seq(Publics) /\ n \in Nat /\ DOMAIN settled = 1..n
  BY LenProperties DEF TypeOK
<1> HIDE DEF objs
<1>10. /\ Len(settled') = n + Len(order)
       /\ DOMAIN settled' = 1..(n + Len(order))
       /\ \A i \in 1..(n + Len(order)) :
            settled'[i] = IF i <= n THEN settled[i] ELSE objs[i - n]
  <2>1. settled' \in Seq(Publics) /\ Len(settled') = n + Len(order)
        /\ \A i \in 1..(n + Len(order)) :
             settled'[i] = IF i <= n THEN settled[i] ELSE objs[i - n]
    BY <1>4, <1>8, <1>9, ConcatProperties
  <2>. QED
    BY <2>1, LenProperties
<1> HIDE DEF n
<1>11. \A i \in 1..(n + Len(order)) : i <= n =>
         settled'[i] \in DOMAIN calls /\ calls[settled'[i]].fate # "pending"
  BY <1>9, <1>10 DEF SettledOnce
<1>12. \A i \in 1..(n + Len(order)) : ~(i <= n) =>
         /\ i - n \in DOMAIN order /\ settled'[i] = objs[i - n]
         /\ settled'[i] \in T /\ settled'[i] \in DOMAIN calls
         /\ calls[settled'[i]].fate = "pending"
  BY <1>2, <1>5, <1>9, <1>10
<1>13. \A i, j \in DOMAIN settled' : settled'[i] = settled'[j] => i = j
  <2> SUFFICES ASSUME NEW i \in 1..(n + Len(order)), NEW j \in 1..(n + Len(order)),
                      settled'[i] = settled'[j]
               PROVE  i = j
    BY <1>10
  <2>1. CASE i <= n /\ j <= n
    <3>1. i \in DOMAIN settled /\ j \in DOMAIN settled
      BY <2>1, <1>2, <1>9
    <3>2. settled[i] = settled[j]
      BY <2>1, <1>10
    <3>. QED
      BY <3>1, <3>2 DEF SettledOnce
  <2>2. CASE ~(i <= n) /\ ~(j <= n)
    <3>1. i - n = j - n
      BY <2>2, <1>6, <1>12
    <3>. QED
      BY <3>1, <1>2, <1>9
  <2>3. CASE (i <= n) # (j <= n)
    BY <2>3, <1>11, <1>12
  <2>. QED
    BY <2>1, <2>2, <2>3
<1>14. \A i \in DOMAIN settled' :
         settled'[i] \in DOMAIN calls' /\ calls'[settled'[i]].fate # "pending"
  BY <1>1, <1>10, <1>11, <1>12 DEF Fates
<1>15. \A p \in DOMAIN calls' : calls'[p].fate # "pending" =>
         \E i \in DOMAIN settled' : settled'[i] = p
  <2> SUFFICES ASSUME NEW p \in DOMAIN calls, calls'[p].fate # "pending"
               PROVE  \E i \in DOMAIN settled' : settled'[i] = p
    BY <1>1
  <2>1. CASE p \in T
    <3>1. PICK i \in DOMAIN order : objs[i] = p
      BY <2>1, <1>7
    <3>2. i + n \in 1..(n + Len(order)) /\ ~(i + n <= n) /\ (i + n) - n = i
      BY <1>2, <1>9
    <3>. QED
      BY <3>1, <3>2, <1>10
  <2>2. CASE p \notin T
    <3>1. PICK i \in DOMAIN settled : settled[i] = p
      BY <2>2, <1>1 DEF SettledOnce
    <3>2. i \in 1..(n + Len(order)) /\ i <= n
      BY <1>2, <1>9
    <3>. QED
      BY <3>1, <3>2, <1>10
  <2>. QED
    BY <2>1, <2>2
<1>. QED
  BY <1>13, <1>14, <1>15 DEF SettledOnce

(* Removing live calls keeps the number of live calls within its bound.    *)
LEMMA FewerLive ==
  ASSUME IInv, Live' \subseteq Live
  PROVE  Cardinality(Live') <= MaxPending
<1>1. IsFiniteSet(Live)
  BY KeysAssumption, FS_Subset DEF IInv, TypeOK
<1>2. /\ IsFiniteSet(Live') /\ Cardinality(Live') <= Cardinality(Live)
  BY <1>1, FS_Subset
<1>3. Cardinality(Live) <= MaxPending /\ Cardinality(Live) \in Nat /\ Cardinality(Live') \in Nat
  BY <1>1, <1>2, FS_CardinalityType DEF IInv, Bounded
<1>. QED
  BY <1>2, <1>3, BoundAssumption

(* A settlement that clears the timers of what it takes, and that only     *)
(* lets an owner claim, preserves the whole invariant.                     *)
LEMMA SettleInv ==
  ASSUME IInv, NEW order, IsOrder(order), NEW how \in Fates, NEW by \in Claimants,
         Settle(order, how, by),
         by \in Profiles => \A k \in Range(order) : k.profile = by,
         timers' = TimersCleared(Range(order)),
         listeners' \subseteq listeners, aborted' \subseteq Signals
  PROVE  IInv'
<1> USE DEF IInv
<1> DEFINE gone == Range(order)
           T == TakenFrom(gone)
<1>1. /\ gone \subseteq Live
      /\ Live' = Live \ gone
      /\ \A k \in Live' : entries'[k] = entries[k]
      /\ DOMAIN calls' = DOMAIN calls
      /\ \A p \in DOMAIN calls : calls'[p] =
           IF p \in T THEN [key |-> calls[p].key, fate |-> how, by |-> by] ELSE calls[p]
  BY SettleMaps
<1>2. timers' \subseteq timers
  BY DEF TimersCleared
<1>3. TypeOK' /\ Len(terminal') <= MaxPending /\ Len(publicTerminal') <= MaxPending
  BY <1>2, SettleTypes
<1>4. IndexConsistent'
  BY SettleIndex
<1>5. DeadlinesMatchCalls'
  <2>1. timers' = {entries[k] : k \in Live} \ T
    BY DEF TimersCleared, DeadlinesMatchCalls
  <2>2. \A k \in Live \ gone : entries[k] \notin T
    BY <1>1 DEF IndexConsistent, TakenFrom
  <2>3. \A k \in gone : entries[k] \in T
    BY DEF TakenFrom
  <2>4. timers' = {entries[k] : k \in Live \ gone}
    BY <2>1, <2>2, <2>3
  <2>. QED
    BY <2>4, <1>1 DEF DeadlinesMatchCalls
<1>6. ListenersCreated'
  BY <1>1 DEF ListenersCreated
<1>7. SettledOnce'
  BY SettleOnce
<1>8. OwnerOnly'
  <2> SUFFICES ASSUME NEW p \in DOMAIN calls, calls'[p].by \in Profiles
               PROVE  calls'[p].by = calls'[p].key.profile
    BY <1>1 DEF OwnerOnly
  <2>1. CASE p \in T
    <3>1. PICK k \in gone : p = entries[k]
      BY <2>1 DEF TakenFrom
    <3>2. calls[p].key = k
      BY <3>1, <1>1 DEF IndexConsistent
    <3>. QED
      BY <2>1, <3>1, <3>2, <1>1
  <2>2. CASE p \notin T
    BY <2>2, <1>1 DEF OwnerOnly
  <2>. QED
    BY <2>1, <2>2
<1>9. Bounded'
  BY <1>1, <1>3, FewerLive DEF Bounded
<1>. QED
  BY <1>3, <1>4, <1>5, <1>6, <1>7, <1>8, <1>9

-------------------------------------------------------------------------------
(* Facts about the claim, the deadline and the creation that the theorem   *)
(* needs.                                                                  *)

(* The deadline of p finds the live entry p was created for, and no other. *)
LEMMA DeadlineFindsItsCall ==
  ASSUME IInv, NEW p \in timers
  PROVE  /\ calls[p].key \in Live
         /\ {calls[p].key} \cap Live = {calls[p].key}
         /\ entries[calls[p].key] = p
  BY DEF IInv, DeadlinesMatchCalls, IndexConsistent

(* The new call of a creation: what it is appended as.                     *)
LEMMA CreationAppends ==
  ASSUME IInv, NEW k \in Keys, NEW fate \in {"pending"} \cup Fates,
         Len(calls) < MaxCalls,
         calls' = Append(calls, [key |-> k, fate |-> fate, by |-> "nobody"])
  PROVE  LET p == Len(calls) + 1 IN
         /\ calls' \in Seq(CallRecs) /\ Len(calls') <= MaxCalls
         /\ p \in Publics /\ p \notin DOMAIN calls
         /\ DOMAIN calls' = DOMAIN calls \cup {p}
         /\ \A q \in DOMAIN calls : calls'[q] = calls[q]
         /\ calls'[p] = [key |-> k, fate |-> fate, by |-> "nobody"]
<1> DEFINE r == [key |-> k, fate |-> fate, by |-> "nobody"]
<1>1. r \in CallRecs
  BY DEF CallRecs, Claimants
<1>2. calls \in Seq(CallRecs)
  BY DEF IInv, TypeOK, CallRecs
<1>3. Len(calls) \in Nat /\ DOMAIN calls = 1..Len(calls) /\ MaxCalls \in Nat
  BY <1>2, LenProperties, BoundAssumption
<1>4. /\ calls' \in Seq(CallRecs) /\ Len(calls') = Len(calls) + 1
      /\ \A q \in 1..Len(calls) : calls'[q] = calls[q]
      /\ calls'[Len(calls) + 1] = r
  BY <1>1, <1>2, AppendProperties
<1>5. DOMAIN calls' = 1..Len(calls')
  BY <1>4, LenProperties
<1>. QED
  BY <1>3, <1>4, <1>5 DEF Publics

LEMMA InitInv == Init => IInv
<1> SUFFICES ASSUME Init PROVE IInv
  OBVIOUS
<1> USE DEF Init
<1>1. Live = {} /\ DOMAIN publicIndex = {} /\ DOMAIN calls = {}
      /\ DOMAIN settled = {} /\ Len(calls) = 0
  BY DEF Live
<1>2. TypeOK
  BY <1>1, BoundAssumption DEF TypeOK, Idle, Publics
<1>3. Bounded
  BY <1>1, BoundAssumption, FS_EmptySet DEF Bounded
<1>. QED
  BY <1>1, <1>2, <1>3 DEF IInv, IndexConsistent, DeadlinesMatchCalls,
                          ListenersCreated, SettledOnce, OwnerOnly

-------------------------------------------------------------------------------
(* Each action preserves the invariant.                                    *)

LEMMA CreateParkedInv ==
  ASSUME IInv, NEW k \in Keys, NEW s \in Signals \cup {NoSignal}, CreateParked(k, s)
  PROVE  IInv'
<1> USE DEF IInv
<1> DEFINE p == Len(calls) + 1
<1>1. /\ calls' \in Seq(CallRecs) /\ Len(calls') <= MaxCalls
      /\ p \in Publics /\ p \notin DOMAIN calls
      /\ DOMAIN calls' = DOMAIN calls \cup {p}
      /\ \A q \in DOMAIN calls : calls'[q] = calls[q]
      /\ calls'[p] = [key |-> k, fate |-> "pending", by |-> "nobody"]
  BY CreationAppends DEF CreateParked
<1>2. /\ k \notin Live /\ ~AtCapacity
      /\ entries' = [y \in Live \cup {k} |-> IF y = k THEN p ELSE entries[y]]
      /\ publicIndex' = [y \in DOMAIN publicIndex \cup {p} |->
                           IF y = p THEN k ELSE publicIndex[y]]
      /\ terminal' = Without(terminal, k)
      /\ timers' = timers \cup {p}
      /\ listeners' \subseteq listeners \cup {<<s, p>>}
      /\ s = NoSignal => listeners' = listeners
      /\ UNCHANGED <<publicTerminal, aborted, waiters, settled>>
  BY DEF CreateParked, Put, Live, Armed
<1> HIDE DEF p
<1>3. Live' = Live \cup {k} /\ DOMAIN publicIndex' = DOMAIN publicIndex \cup {p}
  BY <1>2 DEF Live
<1>4. p \notin DOMAIN publicIndex
  BY <1>1 DEF IndexConsistent
<1>5. terminal' \in Seq(MapOf(Keys)) /\ Len(terminal') <= MaxPending
  <2>1. /\ Without(terminal, k) \in Seq(MapOf(Keys))
        /\ Len(Without(terminal, k)) \in Nat
        /\ Len(Without(terminal, k)) <= Len(terminal)
    BY WithoutProperties DEF TypeOK
  <2>2. Len(terminal) \in Nat /\ Len(terminal) <= MaxPending
    BY LenProperties DEF TypeOK, Bounded
  <2>. QED
    BY <1>2, <2>1, <2>2, BoundAssumption
<1>6. TypeOK'
  <2>1. entries' \in [Live' -> Publics] /\ Live' \subseteq Keys
    BY <1>1, <1>2, <1>3 DEF TypeOK
  <2>2. publicIndex' \in [DOMAIN publicIndex' -> Keys] /\ DOMAIN publicIndex' \subseteq Publics
    BY <1>1, <1>2, <1>3 DEF TypeOK
  <2>3. timers' \subseteq Publics /\ listeners' \subseteq Signals \X Publics
    BY <1>1, <1>2 DEF TypeOK
  <2>. QED
    BY <1>1, <1>2, <1>5, <2>1, <2>2, <2>3 DEF TypeOK, CallRecs
<1>7. IndexConsistent'
  BY <1>1, <1>2, <1>3, <1>4 DEF IndexConsistent
<1>8. DeadlinesMatchCalls'
  <2>1. {entries'[y] : y \in Live'} = {entries[y] : y \in Live} \cup {p}
    BY <1>2, <1>3
  <2>. QED
    BY <1>2, <2>1 DEF DeadlinesMatchCalls
<1>9. ListenersCreated'
  BY <1>1, <1>2 DEF ListenersCreated
<1>10. SettledOnce'
  BY <1>1, <1>2 DEF SettledOnce
<1>11. OwnerOnly'
  BY <1>1, ProfileAssumption DEF OwnerOnly
<1>12. Bounded'
  <2>1. IsFiniteSet(Live)
    BY KeysAssumption, FS_Subset DEF TypeOK
  <2>2. Cardinality(Live') = Cardinality(Live) + 1 /\ Cardinality(Live) \in Nat
    BY <1>2, <1>3, <2>1, FS_AddElement, FS_CardinalityType
  <2>3. Cardinality(Live') <= MaxPending
    BY <1>2, <2>2, BoundAssumption DEF AtCapacity
  <2>. QED
    BY <1>2, <1>5, <2>3 DEF Bounded
<1>. QED
  BY <1>6, <1>7, <1>8, <1>9, <1>10, <1>11, <1>12

LEMMA CreateBornCancelledInv ==
  ASSUME IInv, NEW k \in Keys, NEW s \in Signals \cup {NoSignal},
         CreateBornCancelled(k, s)
  PROVE  IInv'
<1> USE DEF IInv
<1> DEFINE p == Len(calls) + 1
           n == Len(settled)
<1>1. /\ calls' \in Seq(CallRecs) /\ Len(calls') <= MaxCalls
      /\ p \in Publics /\ p \notin DOMAIN calls
      /\ DOMAIN calls' = DOMAIN calls \cup {p}
      /\ \A q \in DOMAIN calls : calls'[q] = calls[q]
      /\ calls'[p] = [key |-> k, fate |-> "cancelled", by |-> "nobody"]
  BY CreationAppends DEF CreateBornCancelled, Fates
<1>2. /\ terminal' = Trim(Append(Without(terminal, k), [id |-> k, state |-> "cancelled"]))
      /\ publicTerminal' = Trim(Append(publicTerminal, [id |-> p, state |-> "cancelled"]))
      /\ settled' = Append(settled, p)
      /\ UNCHANGED <<entries, publicIndex, timers, listeners, aborted, waiters>>
  BY DEF CreateBornCancelled
<1>3. Live' = Live
  BY <1>2 DEF Live
<1> HIDE DEF p
<1>4. terminal' \in Seq(MapOf(Keys)) /\ Len(terminal') <= MaxPending
  <2>1. [id |-> k, state |-> "cancelled"] \in MapOf(Keys)
    BY DEF MapOf, Fates
  <2>2. Append(Without(terminal, k), [id |-> k, state |-> "cancelled"]) \in Seq(MapOf(Keys))
    BY <2>1, WithoutProperties, AppendProperties DEF TypeOK
  <2>. QED
    BY <1>2, <2>2, TrimProperties
<1>5. publicTerminal' \in Seq(MapOf(Publics)) /\ Len(publicTerminal') <= MaxPending
  <2>1. [id |-> p, state |-> "cancelled"] \in MapOf(Publics)
    BY <1>1 DEF MapOf, Fates
  <2>2. Append(publicTerminal, [id |-> p, state |-> "cancelled"]) \in Seq(MapOf(Publics))
    BY <2>1, AppendProperties DEF TypeOK
  <2>. QED
    BY <1>2, <2>2, TrimProperties
<1>6. /\ settled' \in Seq(Publics) /\ n \in Nat
      /\ DOMAIN settled = 1..n /\ DOMAIN settled' = 1..(n + 1)
      /\ \A i \in 1..n : settled'[i] = settled[i]
      /\ settled'[n + 1] = p
  <2>1. settled \in Seq(Publics)
    BY DEF TypeOK
  <2>2. /\ settled' \in Seq(Publics) /\ Len(settled') = n + 1
        /\ \A i \in 1..n : settled'[i] = settled[i]
        /\ settled'[n + 1] = p
    BY <1>1, <1>2, <2>1, AppendProperties
  <2>. QED
    BY <2>1, <2>2, LenProperties
<1> HIDE DEF n
<1>7. TypeOK'
  BY <1>1, <1>2, <1>3, <1>4, <1>5, <1>6 DEF TypeOK, CallRecs
<1>8. IndexConsistent'
  BY <1>1, <1>2, <1>3 DEF IndexConsistent
<1>9. DeadlinesMatchCalls' /\ ListenersCreated'
  BY <1>1, <1>2, <1>3 DEF DeadlinesMatchCalls, ListenersCreated
<1>10. SettledOnce'
  <2>1. \A i \in 1..n : settled[i] \in DOMAIN calls /\ calls[settled[i]].fate # "pending"
    BY <1>6 DEF SettledOnce
  <2>2. \A i, j \in 1..(n + 1) : settled'[i] = settled'[j] => i = j
    <3> SUFFICES ASSUME NEW i \in 1..(n + 1), NEW j \in 1..(n + 1),
                        settled'[i] = settled'[j]
                 PROVE  i = j
      OBVIOUS
    <3>1. CASE i \in 1..n /\ j \in 1..n
      BY <3>1, <1>6 DEF SettledOnce
    <3>2. CASE i = n + 1 \/ j = n + 1
      <4>1. \A m \in 1..n : settled'[m] # settled'[n + 1]
        BY <1>1, <1>6, <2>1
      <4>. QED
        BY <3>2, <4>1, <1>6
    <3>. QED
      BY <3>1, <3>2, <1>6
  <2>3. \A i \in 1..(n + 1) : /\ settled'[i] \in DOMAIN calls'
                              /\ calls'[settled'[i]].fate # "pending"
    <3> SUFFICES ASSUME NEW i \in 1..(n + 1)
                 PROVE  /\ settled'[i] \in DOMAIN calls'
                        /\ calls'[settled'[i]].fate # "pending"
      OBVIOUS
    <3>1. CASE i \in 1..n
      BY <3>1, <1>1, <1>6, <2>1
    <3>2. CASE i = n + 1
      BY <3>2, <1>1, <1>6
    <3>. QED
      BY <3>1, <3>2, <1>6
  <2>4. \A q \in DOMAIN calls' : calls'[q].fate # "pending" =>
          \E i \in 1..(n + 1) : settled'[i] = q
    <3> SUFFICES ASSUME NEW q \in DOMAIN calls', calls'[q].fate # "pending"
                 PROVE  \E i \in 1..(n + 1) : settled'[i] = q
      OBVIOUS
    <3>1. CASE q = p
      BY <3>1, <1>6
    <3>2. CASE q \in DOMAIN calls
      <4>1. PICK i \in 1..n : settled[i] = q
        BY <3>2, <1>1, <1>6 DEF SettledOnce
      <4>. QED
        BY <4>1, <1>6
    <3>. QED
      BY <3>1, <3>2, <1>1
  <2>. QED
    BY <2>2, <2>3, <2>4, <1>6 DEF SettledOnce
<1>11. OwnerOnly'
  BY <1>1, ProfileAssumption DEF OwnerOnly
<1>12. Bounded'
  BY <1>2, <1>3, <1>4, <1>5 DEF Bounded
<1>. QED
  BY <1>7, <1>8, <1>9, <1>10, <1>11, <1>12

LEMMA CreateRefusedInv ==
  ASSUME IInv, NEW k \in Keys, CreateRefused(k)
  PROVE  IInv'
<1> USE DEF IInv
<1>1. /\ terminal' = Without(terminal, k)
      /\ UNCHANGED <<entries, publicIndex, publicTerminal, timers, listeners,
                     aborted, waiters, calls, settled>>
  BY DEF CreateRefused
<1>2. terminal' \in Seq(MapOf(Keys)) /\ Len(terminal') <= MaxPending
  <2>1. /\ Without(terminal, k) \in Seq(MapOf(Keys))
        /\ Len(Without(terminal, k)) \in Nat
        /\ Len(Without(terminal, k)) <= Len(terminal)
    BY WithoutProperties DEF TypeOK
  <2>2. Len(terminal) \in Nat /\ Len(terminal) <= MaxPending
    BY LenProperties DEF TypeOK, Bounded
  <2>. QED
    BY <1>1, <2>1, <2>2, BoundAssumption
<1>3. TypeOK' /\ Bounded'
  BY <1>1, <1>2 DEF TypeOK, Bounded, Live
<1>. QED
  BY <1>1, <1>3 DEF IndexConsistent, DeadlinesMatchCalls, ListenersCreated,
                    SettledOnce, OwnerOnly, Live

LEMMA AwaitCallInv ==
  ASSUME IInv, NEW w \in Waiters, NEW k \in Keys, AwaitCall(w, k)
  PROVE  IInv'
<1> USE DEF IInv
<1>1. /\ waiters' = [waiters EXCEPT ![w] =
           IF k \in Live THEN [on |-> entries[k], got |-> "pending"]
           ELSE [on |-> 0, got |-> "rejected"]]
      /\ UNCHANGED <<entries, publicIndex, terminal, publicTerminal, timers,
                     listeners, aborted, calls, settled>>
  BY DEF AwaitCall
<1>2. waiters' \in [Waiters -> [on : {0} \cup Publics,
                      got : {"none", "pending", "resolved", "rejected"}]]
  BY <1>1 DEF TypeOK
<1>3. TypeOK' /\ Bounded'
  BY <1>1, <1>2 DEF TypeOK, Bounded, Live
<1>. QED
  BY <1>1, <1>3 DEF IndexConsistent, DeadlinesMatchCalls, ListenersCreated,
                    SettledOnce, OwnerOnly, Live

(* The settling actions hand an order to SettleInv.                        *)
LEMMA SettlingInv ==
  ASSUME IInv,
         \/ \E p \in Publics, by \in Profiles \cup {AnyProfile} : Claim(p, by)
         \/ \E k \in Keys : TakeByKey(k)
         \/ \E p \in Publics : Expire(p)
         \/ \E s \in Signals : Abort(s)
         \/ \E inScope \in Scopes : CancelScope(inScope)
  PROVE  IInv'
<1>1. ASSUME NEW p \in Publics, NEW by \in Profiles \cup {AnyProfile}, Claim(p, by)
      PROVE  IInv'
  <2> DEFINE k == publicIndex[p]
  <2>1. /\ p \in DOMAIN publicIndex /\ k \in Live /\ ~Foreign(k, by)
    <3>1. Answer(p, by) = "resolved"
      BY <1>1 DEF Claim
    <3>2. \A m, id : Classify(m, id) # "resolved"
      BY DEF Classify
    <3>. QED
      BY <3>1, <3>2 DEF Answer
  <2>2. by \in Profiles => k.profile = by
    BY <2>1, ProfileAssumption DEF Foreign
  <2>3. IsOrder(<<k>>) /\ Range(<<k>>) = {k}
    BY <2>1, SingleIsOrder
  <2>4. /\ Settle(<<k>>, "resolved", by) /\ timers' = TimersCleared({k})
        /\ listeners' = listeners /\ aborted' = aborted
    BY <1>1 DEF Claim
  <2>5. by \in Claimants /\ "resolved" \in Fates /\ aborted \subseteq Signals
    BY DEF Claimants, Fates, IInv, TypeOK
  <2> HIDE DEF k
  <2>. QED
    BY <2>2, <2>3, <2>4, <2>5, SettleInv
<1>2. ASSUME NEW k \in Keys, TakeByKey(k)
      PROVE  IInv'
  <2>1. /\ k \in Live
        /\ Settle(<<k>>, "resolved", AnyProfile) /\ timers' = TimersCleared({k})
        /\ listeners' = listeners /\ aborted' = aborted
    BY <1>2 DEF TakeByKey
  <2>2. IsOrder(<<k>>) /\ Range(<<k>>) = {k}
    BY <2>1, SingleIsOrder
  <2>3. AnyProfile \in Claimants /\ AnyProfile \notin Profiles
        /\ "resolved" \in Fates /\ aborted \subseteq Signals
    BY ProfileAssumption DEF Claimants, Fates, IInv, TypeOK
  <2>. QED
    BY <2>1, <2>2, <2>3, SettleInv
<1>3. ASSUME NEW p \in Publics, Expire(p)
      PROVE  IInv'
  <2> DEFINE hit == {calls[p].key} \cap Live
  <2>1. PICK order \in InOrder(hit, entries) : Settle(order, "expired", "nobody")
    BY <1>3 DEF Expire
  <2>2. /\ p \in timers /\ timers' = TimersCleared(hit) \ {p}
        /\ listeners' = listeners /\ aborted' = aborted
    BY <1>3 DEF Expire
  <2>3. IsOrder(order) /\ Range(order) = hit
    BY InOrderIsOrder DEF IInv
  <2>4. p \in TakenFrom(hit)
    BY <2>2, DeadlineFindsItsCall DEF TakenFrom
  <2>5. timers' = TimersCleared(Range(order))
    BY <2>2, <2>3, <2>4 DEF TimersCleared
  <2>6. "nobody" \in Claimants /\ "nobody" \notin Profiles
        /\ "expired" \in Fates /\ aborted \subseteq Signals
    BY ProfileAssumption DEF Claimants, Fates, IInv, TypeOK
  <2>. QED
    BY <2>1, <2>2, <2>3, <2>5, <2>6, SettleInv
<1>4. ASSUME NEW s \in Signals, Abort(s)
      PROVE  IInv'
  <2> DEFINE mine == {p \in Publics : <<s, p>> \in listeners}
             hit  == {k \in Live : \E p \in mine : calls[p].key = k}
             rank == [k \in hit |-> CHOOSE p \in mine : /\ calls[p].key = k
                                /\ \A q \in mine : calls[q].key = k => p <= q]
  <2>1. PICK order \in InOrder(hit, rank) : Settle(order, "cancelled", "nobody")
    BY <1>4 DEF Abort
  <2>2. /\ timers' = TimersCleared(hit)
        /\ listeners' \subseteq listeners /\ aborted' = aborted \cup {s}
    BY <1>4 DEF Abort
  <2>3. hit \subseteq Live
    OBVIOUS
  <2> HIDE DEF hit, rank
  <2>4. IsOrder(order) /\ Range(order) = hit
    BY <2>3, InOrderIsOrder DEF IInv
  <2>5. "nobody" \in Claimants /\ "nobody" \notin Profiles
        /\ "cancelled" \in Fates /\ aborted' \subseteq Signals
    BY <2>2, ProfileAssumption DEF Claimants, Fates, IInv, TypeOK
  <2>. QED
    BY <2>1, <2>2, <2>4, <2>5, SettleInv
<1>5. ASSUME NEW inScope \in Scopes, CancelScope(inScope)
      PROVE  IInv'
  <2>1. PICK order \in InOrder(inScope, entries) : Settle(order, "cancelled", "nobody")
    BY <1>5 DEF CancelScope
  <2>2. /\ timers' = TimersCleared(inScope)
        /\ listeners' = listeners /\ aborted' = aborted
    BY <1>5 DEF CancelScope
  <2>3. inScope \subseteq Live
    BY DEF Scopes
  <2>4. IsOrder(order) /\ Range(order) = inScope
    BY <2>3, InOrderIsOrder DEF IInv
  <2>5. "nobody" \in Claimants /\ "nobody" \notin Profiles
        /\ "cancelled" \in Fates /\ aborted \subseteq Signals
    BY ProfileAssumption DEF Claimants, Fates, IInv, TypeOK
  <2>. QED
    BY <2>1, <2>2, <2>4, <2>5, SettleInv
<1>. QED
  BY <1>1, <1>2, <1>3, <1>4, <1>5

LEMMA NextInv == IInv /\ [Next]_vars => IInv'
<1> SUFFICES ASSUME IInv, [Next]_vars PROVE IInv'
  OBVIOUS
<1>1. CASE Create
  BY <1>1, CreateRefusedInv, CreateParkedInv, CreateBornCancelledInv DEF Create
<1>2. CASE \E w \in Waiters, k \in Keys : AwaitCall(w, k)
  BY <1>2, AwaitCallInv
<1>3. CASE \/ \E p \in Publics, by \in Profiles \cup {AnyProfile} : Claim(p, by)
           \/ \E k \in Keys : TakeByKey(k)
           \/ \E p \in Publics : Expire(p)
           \/ \E s \in Signals : Abort(s)
           \/ \E inScope \in Scopes : CancelScope(inScope)
  BY <1>3, SettlingInv
<1>4. CASE UNCHANGED vars
  BY <1>4 DEF vars, brokerVars, IInv, TypeOK, IndexConsistent, DeadlinesMatchCalls,
              ListenersCreated, SettledOnce, OwnerOnly, Bounded, Live
<1>. QED
  BY <1>1, <1>2, <1>3, <1>4 DEF Next

(* The invariant holds in every reachable state.                           *)
THEOREM Invariance == Spec => []IInv
<1>. QED
  BY InitInv, NextInv, PTL DEF Spec

(* Every variable keeps its type, however calls are created, claimed,      *)
(* cancelled, aborted or left to expire.                                   *)
THEOREM TypeCorrect == Spec => []TypeOK
<1>1. IInv => TypeOK
  BY DEF IInv
<1>. QED
  BY <1>1, Invariance, PTL

(* A tool call is settled at most once, and what is settled was created    *)
(* and is no longer pending.                                               *)
THEOREM SettledAtMostOnce == Spec => []SettledOnce
<1>1. IInv => SettledOnce
  BY DEF IInv
<1>. QED
  BY <1>1, Invariance, PTL

(* A continuation authenticated as one profile never consumes a call       *)
(* parked under the other.                                                 *)
THEOREM ProfilesIsolated == Spec => []OwnerOnly
<1>1. IInv => OwnerOnly
  BY DEF IInv
<1>. QED
  BY <1>1, Invariance, PTL

(* The public index, the entries and the creations' history always agree.  *)
THEOREM IndexAgrees == Spec => []IndexConsistent
<1>1. IInv => IndexConsistent
  BY DEF IInv
<1>. QED
  BY <1>1, Invariance, PTL

(* The armed deadlines are exactly those of the live calls.                *)
THEOREM DeadlinesAgree == Spec => []DeadlinesMatchCalls
<1>1. IInv => DeadlinesMatchCalls
  BY DEF IInv
<1>. QED
  BY <1>1, Invariance, PTL

(* Pending and remembered calls stay within MaxPending.                    *)
THEOREM MemoryBounded == Spec => []Bounded
<1>1. IInv => Bounded
  BY DEF IInv
<1>. QED
  BY <1>1, Invariance, PTL

-------------------------------------------------------------------------------
(* The broker implements the ledger.                                       *)

LEMMA SameCardinality == \A S : L!Cardinality(S) = Cardinality(S)
BY DEF L!Cardinality, Cardinality

(* The ledger's pending calls are the indexed ones, as many as live ids.   *)
LEMMA LedgerPending ==
  ASSUME IInv
  PROVE  /\ L!Pending = DOMAIN publicIndex
         /\ Cardinality(L!Pending) = Cardinality(Live)
<1> USE DEF IInv
<1>1. DOMAIN publicIndex \subseteq Publics
  BY DEF TypeOK
<1>2. \A p \in Publics : statusBar[p] = "pending" <=> p \in DOMAIN publicIndex
  BY DEF statusBar, StatusOf, IndexConsistent
<1>3. L!Pending = DOMAIN publicIndex
  BY <1>1, <1>2 DEF L!Pending
<1>4. entries \in Bijection(Live, DOMAIN publicIndex)
  BY DEF IndexConsistent, TypeOK, Bijection, Injection, Surjection, IsInjective
<1>5. IsFiniteSet(Live)
  BY KeysAssumption, FS_Subset DEF TypeOK
<1>6. Cardinality(DOMAIN publicIndex) = Cardinality(Live)
  BY <1>4, <1>5, FS_Bijection DEF ExistsBijection
<1>. QED
  BY <1>3, <1>6

(* A settlement is the ledger's settlement of the calls it takes.          *)
LEMMA SettleRefines ==
  ASSUME IInv, NEW order, IsOrder(order), NEW how \in Fates, NEW by \in Claimants,
         Settle(order, how, by),
         how = "resolved" => \E k \in Live : Range(order) = {k}
  PROVE  L!LedgerNext
<1> USE DEF IInv
<1> DEFINE T == TakenFrom(Range(order))
<1>1. /\ Range(order) \subseteq Live
      /\ DOMAIN publicIndex' = DOMAIN publicIndex \ T
      /\ DOMAIN calls' = DOMAIN calls
      /\ \A p \in DOMAIN calls : calls'[p] =
           IF p \in T THEN [key |-> calls[p].key, fate |-> how, by |-> by] ELSE calls[p]
  BY SettleMaps
<1>2. T \subseteq DOMAIN publicIndex /\ T \subseteq DOMAIN calls
  BY <1>1 DEF IndexConsistent, TakenFrom
<1>3. T \subseteq L!Pending
  BY <1>2, LedgerPending
<1>4. \A p \in Publics : StatusOf(p)' = IF p \in T THEN how ELSE StatusOf(p)
  BY <1>1, <1>2 DEF StatusOf
<1>5. statusBar' = [p \in Publics |-> IF p \in T THEN how ELSE statusBar[p]]
  BY <1>4 DEF statusBar
<1>6. how = "resolved" => Cardinality(T) = 1
  <2> SUFFICES ASSUME NEW k \in Live, Range(order) = {k} PROVE Cardinality(T) = 1
    OBVIOUS
  <2>1. T = {entries[k]}
    BY DEF TakenFrom
  <2>. QED
    BY <2>1, FS_Singleton
<1>7. L!SettleSome(T, how)
  BY <1>3, <1>5, <1>6, SameCardinality DEF L!SettleSome
<1>8. T \in SUBSET L!Pending /\ how \in L!Fates
  BY <1>3 DEF Fates, L!Fates
<1>. QED
  BY <1>7, <1>8 DEF L!LedgerNext

LEMMA StepRefines ==
  ASSUME IInv, [Next]_vars
  PROVE  [L!LedgerNext]_statusBar
<1> USE DEF IInv
<1>1. ASSUME NEW k \in Keys, NEW s \in Signals \cup {NoSignal}, CreateParked(k, s)
      PROVE  L!LedgerNext
  <2>0. Len(calls) + 1 \in Publics
    BY <1>1, CreationAppends DEF CreateParked
  <2> PICK p \in Publics : p = Len(calls) + 1
    BY <2>0
  <2>1. /\ p \notin DOMAIN calls
        /\ DOMAIN calls' = DOMAIN calls \cup {p}
        /\ \A q \in DOMAIN calls : calls'[q] = calls[q]
    BY <1>1, CreationAppends DEF CreateParked
  <2>2. DOMAIN publicIndex' = DOMAIN publicIndex \cup {p}
    BY <1>1 DEF CreateParked, Put
  <2>3. Cardinality(Live) < MaxPending
    <3>1. Cardinality(Live) \in Nat
      BY KeysAssumption, FS_Subset, FS_CardinalityType DEF TypeOK
    <3>. QED
      BY <1>1, <3>1, BoundAssumption DEF CreateParked, AtCapacity
  <2>4. p \notin DOMAIN publicIndex
    BY <2>1 DEF IndexConsistent
  <2>5. StatusOf(p) = "unborn" /\ StatusOf(p)' = "pending"
    BY <2>1, <2>2, <2>4 DEF StatusOf
  <2>6. \A q \in Publics : q # p => StatusOf(q)' = StatusOf(q)
    BY <2>1, <2>2 DEF StatusOf
  <2>7. statusBar' = [statusBar EXCEPT ![p] = "pending"] /\ statusBar[p] = "unborn"
    BY <2>1, <2>5, <2>6 DEF statusBar
  <2>8. L!Cardinality(L!Pending) < MaxPending
    BY <2>3, LedgerPending, SameCardinality
  <2>9. L!Park(p)
    BY <2>7, <2>8 DEF L!Park
  <2>. QED
    BY <2>1, <2>9 DEF L!LedgerNext
<1>2. ASSUME NEW k \in Keys, NEW s \in Signals \cup {NoSignal}, CreateBornCancelled(k, s)
      PROVE  L!LedgerNext
  <2>0. Len(calls) + 1 \in Publics
    BY <1>2, CreationAppends DEF CreateBornCancelled, Fates
  <2> PICK p \in Publics : p = Len(calls) + 1
    BY <2>0
  <2>1. /\ p \notin DOMAIN calls
        /\ DOMAIN calls' = DOMAIN calls \cup {p}
        /\ \A q \in DOMAIN calls : calls'[q] = calls[q]
        /\ calls'[p].fate = "cancelled"
    BY <1>2, CreationAppends DEF CreateBornCancelled, Fates
  <2>2. publicIndex' = publicIndex
    BY <1>2 DEF CreateBornCancelled
  <2>3. p \notin DOMAIN publicIndex
    BY <2>1 DEF IndexConsistent
  <2>4. StatusOf(p) = "unborn" /\ StatusOf(p)' = "cancelled"
    BY <2>1, <2>2, <2>3 DEF StatusOf
  <2>5. \A q \in Publics : q # p => StatusOf(q)' = StatusOf(q)
    BY <2>1, <2>2 DEF StatusOf
  <2>6. statusBar' = [statusBar EXCEPT ![p] = "cancelled"] /\ statusBar[p] = "unborn"
    BY <2>1, <2>4, <2>5 DEF statusBar
  <2>7. L!ParkCancelled(p)
    BY <2>6 DEF L!ParkCancelled
  <2>. QED
    BY <2>1, <2>7 DEF L!LedgerNext
<1>3. ASSUME UNCHANGED <<publicIndex, calls>> PROVE UNCHANGED statusBar
  BY <1>3 DEF statusBar, StatusOf
<1>4. ASSUME NEW k \in Keys, CreateRefused(k) PROVE UNCHANGED statusBar
  BY <1>3, <1>4 DEF CreateRefused
<1>5. ASSUME NEW w \in Waiters, NEW k \in Keys, AwaitCall(w, k) PROVE UNCHANGED statusBar
  BY <1>3, <1>5 DEF AwaitCall
<1>6. ASSUME NEW p \in Publics, NEW by \in Profiles \cup {AnyProfile}, Claim(p, by)
      PROVE  L!LedgerNext
  <2> DEFINE k == publicIndex[p]
  <2>1. k \in Live
    <3>1. \A m, id : Classify(m, id) # "resolved"
      BY DEF Classify
    <3>. QED
      BY <1>6, <3>1 DEF Claim, Answer
  <2>2. IsOrder(<<k>>) /\ Range(<<k>>) = {k}
    BY <2>1, SingleIsOrder
  <2>3. by \in Claimants /\ "resolved" \in Fates /\ Settle(<<k>>, "resolved", by)
    BY <1>6 DEF Claim, Claimants, Fates
  <2> HIDE DEF k
  <2>. QED
    BY <2>1, <2>2, <2>3, SettleRefines
<1>7. ASSUME NEW k \in Keys, TakeByKey(k) PROVE L!LedgerNext
  <2>1. k \in Live /\ Settle(<<k>>, "resolved", AnyProfile)
    BY <1>7 DEF TakeByKey
  <2>2. IsOrder(<<k>>) /\ Range(<<k>>) = {k}
    BY <2>1, SingleIsOrder
  <2>3. AnyProfile \in Claimants /\ "resolved" \in Fates
    BY DEF Claimants, Fates
  <2>. QED
    BY <2>1, <2>2, <2>3, SettleRefines
<1>8. ASSUME NEW how \in {"expired", "cancelled"}, NEW M, M \subseteq Live, NEW rank,
             NEW order \in InOrder(M, rank), Settle(order, how, "nobody")
      PROVE  L!LedgerNext
  <2>1. IsOrder(order)
    BY <1>8, InOrderIsOrder
  <2>2. "nobody" \in Claimants /\ how \in Fates /\ how # "resolved"
    BY DEF Claimants, Fates
  <2>. QED
    BY <1>8, <2>1, <2>2, SettleRefines
<1>9. ASSUME NEW p \in Publics, Expire(p) PROVE L!LedgerNext
  <2> DEFINE hit == {calls[p].key} \cap Live
  <2>1. PICK order \in InOrder(hit, entries) : Settle(order, "expired", "nobody")
    BY <1>9 DEF Expire
  <2>2. hit \subseteq Live
    OBVIOUS
  <2> HIDE DEF hit
  <2>. QED
    BY <2>1, <2>2, <1>8
<1>10. ASSUME NEW s \in Signals, Abort(s) PROVE L!LedgerNext
  <2> DEFINE mine == {p \in Publics : <<s, p>> \in listeners}
             hit  == {k \in Live : \E p \in mine : calls[p].key = k}
             rank == [k \in hit |-> CHOOSE p \in mine : /\ calls[p].key = k
                                /\ \A q \in mine : calls[q].key = k => p <= q]
  <2>1. PICK order \in InOrder(hit, rank) : Settle(order, "cancelled", "nobody")
    BY <1>10 DEF Abort
  <2>2. hit \subseteq Live
    OBVIOUS
  <2> HIDE DEF hit, rank
  <2>. QED
    BY <2>1, <2>2, <1>8
<1>11. ASSUME NEW inScope \in Scopes, CancelScope(inScope) PROVE L!LedgerNext
  <2>1. PICK order \in InOrder(inScope, entries) : Settle(order, "cancelled", "nobody")
    BY <1>11 DEF CancelScope
  <2>2. inScope \subseteq Live
    BY DEF Scopes
  <2>. QED
    BY <2>1, <2>2, <1>8
<1>12. ASSUME UNCHANGED vars PROVE UNCHANGED statusBar
  BY <1>3, <1>12 DEF vars, brokerVars
<1>. QED
  BY <1>1, <1>2, <1>4, <1>5, <1>6, <1>7, <1>9, <1>10, <1>11, <1>12 DEF Next, Create

(* Every behaviour of the broker is a behaviour of the ledger: each call   *)
(* goes from unborn to pending to one fate, MaxPending at a time, and only *)
(* one call is resolved in a step.                                         *)
THEOREM BrokerImplementsLedger == Spec => ImplementsLedger
<1>1. Init => L!LedgerInit
  BY DEF Init, L!LedgerInit, statusBar, StatusOf
<1>2. IInv /\ [Next]_vars => [L!LedgerNext]_statusBar
  BY StepRefines
<1>. QED
  BY <1>1, <1>2, Invariance, PTL DEF Spec, ImplementsLedger, L!Ledger

-------------------------------------------------------------------------------
(* What the broker remembers and what it answers.                          *)

(* What is left of a trimmed map is its newest part.                       *)
LEMMA TrimKeepsNewest ==
  ASSUME NEW S, NEW m \in Seq(S)
  PROVE  /\ Len(Trim(m)) = IF Len(m) <= MaxPending THEN Len(m) ELSE MaxPending
         /\ \A i \in 1..Len(Trim(m)) : Trim(m)[i] = m[Len(m) - Len(Trim(m)) + i]
<1>1. Len(m) \in Nat /\ \A i \in 1..Len(m) : m[i] \in S
  BY LenProperties, ElementOfSeq
<1>2. MaxPending \in Nat /\ MaxPending > 0
  BY BoundAssumption
<1>3. CASE Len(m) > MaxPending
  <2> DEFINE a == Len(m) - MaxPending + 1
             b == Len(m)
  <2>1. a \in Int /\ b \in Int /\ a <= b /\ \A i \in a..b : m[i] \in S
    BY <1>1, <1>2, <1>3
  <2> HIDE DEF a, b
  <2>2. /\ Len(SubSeq(m, a, b)) = b - a + 1
        /\ \A i \in 1..(b - a + 1) : SubSeq(m, a, b)[i] = m[a + i - 1]
    BY <2>1, SubSeqProperties
  <2>3. Trim(m) = SubSeq(m, a, b)
    BY <1>3 DEF Trim, a, b
  <2>4. b - a + 1 = MaxPending /\ \A i \in Int : a + i - 1 = Len(m) - MaxPending + i
    BY <1>1, <1>2 DEF a, b
  <2>5. Len(Trim(m)) = MaxPending
    BY <2>2, <2>3, <2>4
  <2>6. ASSUME NEW i \in 1..MaxPending
        PROVE  Trim(m)[i] = m[Len(m) - MaxPending + i]
    <3>1. Trim(m)[i] = m[a + i - 1]
      BY <2>2, <2>3, <2>4
    <3>2. a + i - 1 = Len(m) - MaxPending + i
      BY <1>2, <2>4
    <3>. QED
      BY <3>1, <3>2
  <2>. QED
    BY <1>1, <1>2, <1>3, <2>5, <2>6
<1>4. CASE ~(Len(m) > MaxPending)
  BY <1>1, <1>2, <1>4 DEF Trim
<1>. QED
  BY <1>3, <1>4

(* Where the elements of a concatenation are.                              *)
LEMMA ConcatElements ==
  ASSUME NEW S, NEW a \in Seq(S), NEW b \in Seq(S), NEW ab, ab = a \o b
  PROVE  /\ ab \in Seq(S) /\ Len(ab) = Len(a) + Len(b)
         /\ \A i \in 1..Len(a) : ab[i] = a[i]
         /\ \A i \in 1..Len(b) : ab[Len(a) + i] = b[i]
<1>1. Len(a) \in Nat /\ Len(b) \in Nat
  BY LenProperties
<1>2. /\ ab \in Seq(S) /\ Len(ab) = Len(a) + Len(b)
      /\ \A i \in 1..(Len(a) + Len(b)) : ab[i] = IF i <= Len(a) THEN a[i] ELSE b[i - Len(a)]
  BY ConcatProperties
<1>3. \A i \in 1..Len(a) : ab[i] = a[i]
  BY <1>1, <1>2
<1>4. ASSUME NEW i \in 1..Len(b) PROVE ab[Len(a) + i] = b[i]
  <2>1. /\ Len(a) + i \in 1..(Len(a) + Len(b)) /\ ~(Len(a) + i <= Len(a))
        /\ Len(a) + i - Len(a) = i
    BY <1>1
  <2>2. ab[Len(a) + i] = b[Len(a) + i - Len(a)]
    BY <1>2, <2>1
  <2>. QED
    BY <2>1, <2>2
<1>. QED
  BY <1>2, <1>3, <1>4

(* One step of the memory: k settlements are added to the history, and to  *)
(* the public terminal map, which is then trimmed.                         *)
LEMMA MemoryGrows ==
  ASSUME IInv, MemoryIsRecent, NEW k \in Nat,
         NEW c \in Seq(MapOf(Publics)), publicTerminal' = Trim(c),
         Len(c) = Len(publicTerminal) + k,
         Len(settled') = Len(settled) + k,
         \A i \in 1..Len(publicTerminal) : c[i] = publicTerminal[i],
         \A i \in 1..Len(settled) : settled'[i] = settled[i],
         \A i \in 1..k : c[Len(publicTerminal) + i] =
           [id |-> settled'[Len(settled) + i], state |-> calls'[settled'[Len(settled) + i]].fate],
         \A i \in DOMAIN settled : calls'[settled[i]].fate = calls[settled[i]].fate
  PROVE  MemoryIsRecent'
<1> DEFINE n == Len(publicTerminal)
           N == Len(settled)
           nn == Len(publicTerminal')
           NN == Len(settled')
<1>1. n \in Nat /\ N \in Nat /\ DOMAIN settled = 1..N /\ MaxPending \in Nat
  BY LenProperties, BoundAssumption DEF IInv, TypeOK
<1>2. n = IF N < MaxPending THEN N ELSE MaxPending
  BY DEF MemoryIsRecent
<1>3. \A i \in 1..n : publicTerminal[i] =
        [id |-> settled[N - n + i], state |-> calls[settled[N - n + i]].fate]
  BY DEF MemoryIsRecent
<1>4. /\ nn = IF n + k <= MaxPending THEN n + k ELSE MaxPending
      /\ \A i \in 1..nn : publicTerminal'[i] = c[n + k - nn + i]
  <2>1. /\ Len(Trim(c)) = IF Len(c) <= MaxPending THEN Len(c) ELSE MaxPending
        /\ \A i \in 1..Len(Trim(c)) : Trim(c)[i] = c[Len(c) - Len(Trim(c)) + i]
    BY TrimKeepsNewest
  <2>2. Trim(c) = publicTerminal' /\ Len(c) = n + k
    OBVIOUS
  <2>3. Len(Trim(c)) = nn
    BY <2>2
  <2> HIDE DEF n, nn
  <2>4. nn = IF n + k <= MaxPending THEN n + k ELSE MaxPending
    BY <2>1, <2>2, <2>3
  <2>5. ASSUME NEW i \in 1..nn PROVE Trim(c)[i] = c[n + k - nn + i]
    <3>1. Trim(c)[i] = c[Len(c) - Len(Trim(c)) + i]
      BY <2>1, <2>3
    <3>2. Len(c) - Len(Trim(c)) + i = n + k - nn + i
      BY <1>1, <2>2, <2>3, <2>4
    <3>. QED
      BY <3>1, <3>2
  <2>. QED
    BY <2>2, <2>4, <2>5
<1>5. NN = N + k /\ nn = IF NN < MaxPending THEN NN ELSE MaxPending
  <2>1. NN = N + k
    OBVIOUS
  <2> HIDE DEF n, N, nn, NN
  <2>. QED
    BY <1>1, <1>2, <1>4, <2>1
<1>6. ASSUME NEW i \in 1..nn
      PROVE  publicTerminal'[i] = [id    |-> settled'[NN - nn + i],
                                   state |-> calls'[settled'[NN - nn + i]].fate]
  <2> DEFINE j == n + k - nn + i
             at == NN - nn + i
  <2>1. nn \in Nat /\ nn <= n + k /\ j \in 1..(n + k) /\ at = N - n + j
    <3> HIDE DEF n, N, nn, NN
    <3>. QED
      BY <1>1, <1>2, <1>4, <1>5
  <2>2. publicTerminal'[i] = c[j]
    BY <1>4
  <2> HIDE DEF j, at, n, N, nn, NN
  <2>3. CASE j <= n
    <3>1. j \in 1..n /\ at \in 1..N
      BY <1>1, <1>2, <2>1, <2>3
    <3>2. c[j] = [id |-> settled[at], state |-> calls[settled[at]].fate]
      BY <1>3, <2>1, <3>1 DEF n
    <3>3. settled'[at] = settled[at] /\ calls'[settled[at]].fate = calls[settled[at]].fate
      BY <1>1, <3>1 DEF N
    <3>. QED
      BY <2>2, <3>2, <3>3 DEF at
  <2>4. CASE ~(j <= n)
    <3>1. j - n \in 1..k /\ n + (j - n) = j /\ N + (j - n) = at
      BY <1>1, <2>1, <2>4
    <3>2. c[n + (j - n)] = [id |-> settled'[N + (j - n)], state |-> calls'[settled'[N + (j - n)]].fate]
      BY <3>1 DEF n, N
    <3>. QED
      BY <2>2, <3>1, <3>2 DEF at
  <2>. QED
    BY <2>3, <2>4
<1>7. \A i \in 1..nn : publicTerminal'[i] = [id    |-> settled'[NN - nn + i],
                                              state |-> calls'[settled'[NN - nn + i]].fate]
  BY <1>6
<1>. QED
  BY <1>5, <1>7 DEF MemoryIsRecent

(* The steps that settle, and how.                                         *)
LEMMA SettlingStep ==
  ASSUME IInv,
         \/ \E p \in Publics, by \in Profiles \cup {AnyProfile} : Claim(p, by)
         \/ \E k \in Keys : TakeByKey(k)
         \/ \E p \in Publics : Expire(p)
         \/ \E s \in Signals : Abort(s)
         \/ \E inScope \in Scopes : CancelScope(inScope)
  PROVE  \E order : \E how \in Fates, by \in Claimants :
           IsOrder(order) /\ Settle(order, how, by)
<1>1. ASSUME NEW p \in Publics, NEW by \in Profiles \cup {AnyProfile}, Claim(p, by)
      PROVE  \E order : \E how \in Fates, b \in Claimants : IsOrder(order) /\ Settle(order, how, b)
  <2>1. publicIndex[p] \in Live
    <3>1. \A m, id : Classify(m, id) # "resolved"
      BY DEF Classify
    <3>. QED
      BY <1>1, <3>1 DEF Claim, Answer
  <2>2. "resolved" \in Fates /\ by \in Claimants
    BY DEF Fates, Claimants
  <2>. QED
    BY <1>1, <2>1, <2>2, SingleIsOrder DEF Claim
<1>2. ASSUME NEW k \in Keys, TakeByKey(k)
      PROVE  \E order : \E how \in Fates, b \in Claimants : IsOrder(order) /\ Settle(order, how, b)
  <2>1. "resolved" \in Fates /\ AnyProfile \in Claimants
    BY DEF Fates, Claimants
  <2>. QED
    BY <1>2, <2>1, SingleIsOrder DEF TakeByKey
<1>3. ASSUME NEW how \in {"expired", "cancelled"}, NEW M, M \subseteq Live, NEW rank,
             NEW order \in InOrder(M, rank), Settle(order, how, "nobody")
      PROVE  \E o : \E h \in Fates, b \in Claimants : IsOrder(o) /\ Settle(o, h, b)
  <2>1. IsOrder(order)
    BY <1>3, InOrderIsOrder DEF IInv
  <2>2. "nobody" \in Claimants /\ how \in Fates
    BY DEF Claimants, Fates
  <2>. QED
    BY <1>3, <2>1, <2>2
<1>4. ASSUME NEW p \in Publics, Expire(p)
      PROVE  \E order : \E how \in Fates, b \in Claimants : IsOrder(order) /\ Settle(order, how, b)
  <2> DEFINE hit == {calls[p].key} \cap Live
  <2>1. PICK order \in InOrder(hit, entries) : Settle(order, "expired", "nobody")
    BY <1>4 DEF Expire
  <2>2. hit \subseteq Live
    OBVIOUS
  <2> HIDE DEF hit
  <2>. QED
    BY <2>1, <2>2, <1>3
<1>5. ASSUME NEW s \in Signals, Abort(s)
      PROVE  \E order : \E how \in Fates, b \in Claimants : IsOrder(order) /\ Settle(order, how, b)
  <2> DEFINE mine == {p \in Publics : <<s, p>> \in listeners}
             hit  == {k \in Live : \E p \in mine : calls[p].key = k}
             rank == [k \in hit |-> CHOOSE p \in mine : /\ calls[p].key = k
                                /\ \A q \in mine : calls[q].key = k => p <= q]
  <2>1. PICK order \in InOrder(hit, rank) : Settle(order, "cancelled", "nobody")
    BY <1>5 DEF Abort
  <2>2. hit \subseteq Live
    OBVIOUS
  <2> HIDE DEF hit, rank
  <2>. QED
    BY <2>1, <2>2, <1>3
<1>6. ASSUME NEW inScope \in Scopes, CancelScope(inScope)
      PROVE  \E order : \E how \in Fates, b \in Claimants : IsOrder(order) /\ Settle(order, how, b)
  <2>1. PICK order \in InOrder(inScope, entries) : Settle(order, "cancelled", "nobody")
    BY <1>6 DEF CancelScope
  <2>2. inScope \subseteq Live
    BY DEF Scopes
  <2>. QED
    BY <2>1, <2>2, <1>3
<1>. QED
  BY <1>1, <1>2, <1>4, <1>5, <1>6

(* A settlement is remembered as it happened.                              *)
LEMMA SettleRemembers ==
  ASSUME IInv, MemoryIsRecent, NEW order, IsOrder(order), NEW how \in Fates,
         NEW by \in Claimants, Settle(order, how, by)
  PROVE  MemoryIsRecent'
<1> DEFINE pubs == [i \in DOMAIN order |-> [id |-> PublicOf(order[i]), state |-> how]]
           objs == [i \in DOMAIN order |-> entries[order[i]]]
           T == TakenFrom(Range(order))
           k == Len(order)
<1>1. /\ DOMAIN calls' = DOMAIN calls
      /\ \A p \in DOMAIN calls : calls'[p] =
           IF p \in T THEN [key |-> calls[p].key, fate |-> how, by |-> by] ELSE calls[p]
      /\ Range(order) \subseteq Live
  BY SettleMaps
<1>2. /\ k \in Nat /\ DOMAIN order = 1..k
      /\ \A i \in 1..k : order[i] \in Live
  BY LenProperties, ElementOfSeq DEF IsOrder
<1>3. \A i \in 1..k : /\ PublicOf(order[i]) = entries[order[i]]
                      /\ entries[order[i]] \in Publics
                      /\ entries[order[i]] \in T
                      /\ entries[order[i]] \in DOMAIN calls
  <2>1. \A i \in 1..k : PublicOf(order[i]) = entries[order[i]]
    BY <1>2, PublicOfLive DEF IInv
  <2>2. \A i \in 1..k : entries[order[i]] \in Publics /\ entries[order[i]] \in DOMAIN calls
    BY <1>2 DEF IInv, TypeOK, IndexConsistent
  <2>3. \A i \in 1..k : entries[order[i]] \in T
    BY <1>2 DEF TakenFrom, Range
  <2>. QED
    BY <2>1, <2>2, <2>3
<1>4. pubs \in Seq(MapOf(Publics)) /\ Len(pubs) = k
      /\ objs \in Seq(Publics) /\ Len(objs) = k
  <2>1. pubs \in [1..k -> MapOf(Publics)] /\ objs \in [1..k -> Publics]
    BY <1>2, <1>3 DEF MapOf
  <2> HIDE DEF pubs, objs
  <2>. QED
    BY <1>2, <2>1
<1>5. \A i \in 1..k : /\ pubs[i] = [id |-> objs[i], state |-> how]
                      /\ objs[i] \in T /\ objs[i] \in DOMAIN calls
  BY <1>2, <1>3
<1>6. publicTerminal' = Trim(publicTerminal \o pubs) /\ settled' = settled \o objs
  BY DEF Settle
<1> HIDE DEF pubs, objs
<1>7. /\ publicTerminal \in Seq(MapOf(Publics)) /\ settled \in Seq(Publics)
      /\ Len(publicTerminal) \in Nat /\ Len(settled) \in Nat /\ DOMAIN settled = 1..Len(settled)
  BY LenProperties DEF IInv, TypeOK
<1> DEFINE c == publicTerminal \o pubs
<1>8. /\ c \in Seq(MapOf(Publics)) /\ Len(c) = Len(publicTerminal) + Len(pubs)
      /\ \A i \in 1..Len(publicTerminal) : c[i] = publicTerminal[i]
      /\ \A i \in 1..Len(pubs) : c[Len(publicTerminal) + i] = pubs[i]
  <2>1. publicTerminal \in Seq(MapOf(Publics)) /\ pubs \in Seq(MapOf(Publics))
        /\ c = publicTerminal \o pubs
    BY <1>4, <1>7
  <2> HIDE DEF c
  <2>. QED
    BY <2>1, ConcatElements
<1>9. /\ Len(settled') = Len(settled) + Len(objs)
      /\ \A i \in 1..Len(settled) : settled'[i] = settled[i]
      /\ \A i \in 1..Len(objs) : settled'[Len(settled) + i] = objs[i]
  <2>1. settled \in Seq(Publics) /\ objs \in Seq(Publics) /\ settled' = settled \o objs
    BY <1>4, <1>6, <1>7
  <2>. QED
    BY <2>1, ConcatElements
<1> HIDE DEF c, T, k
<1>12. ASSUME NEW i \in 1..k
       PROVE  c[Len(publicTerminal) + i] =
                [id |-> settled'[Len(settled) + i], state |-> calls'[settled'[Len(settled) + i]].fate]
  <2>1. c[Len(publicTerminal) + i] = pubs[i] /\ settled'[Len(settled) + i] = objs[i]
    BY <1>4, <1>8, <1>9
  <2>2. objs[i] \in T /\ objs[i] \in DOMAIN calls /\ pubs[i] = [id |-> objs[i], state |-> how]
    BY <1>5
  <2>3. calls'[objs[i]] = [key |-> calls[objs[i]].key, fate |-> how, by |-> by]
    BY <1>1, <2>2
  <2>4. calls'[objs[i]].fate = how
    BY <2>3
  <2>. QED
    BY <2>1, <2>2, <2>4
<1>13. \A i \in DOMAIN settled : calls'[settled[i]].fate = calls[settled[i]].fate
  <2>1. \A i \in DOMAIN settled : settled[i] \in DOMAIN calls /\ calls[settled[i]].fate # "pending"
    BY DEF IInv, SettledOnce
  <2>2. \A t \in T : calls[t].fate = "pending"
    BY <1>1 DEF T, TakenFrom, IInv, IndexConsistent
  <2>. QED
    BY <1>1, <2>1, <2>2
<1>14. publicTerminal' = Trim(c)
  BY <1>6 DEF c
<1>15. /\ k \in Nat /\ c \in Seq(MapOf(Publics))
       /\ Len(c) = Len(publicTerminal) + k /\ Len(settled') = Len(settled) + k
  BY <1>2, <1>4, <1>8, <1>9
<1>16. /\ \A i \in 1..Len(publicTerminal) : c[i] = publicTerminal[i]
       /\ \A i \in 1..Len(settled) : settled'[i] = settled[i]
  BY <1>8, <1>9
<1>. QED
  BY <1>12, <1>13, <1>14, <1>15, <1>16, MemoryGrows, Zenon

(* So is a call that is cancelled as it is created.                        *)
LEMMA BornCancelledRemembers ==
  ASSUME IInv, MemoryIsRecent, NEW k \in Keys, NEW s, CreateBornCancelled(k, s)
  PROVE  MemoryIsRecent'
<1> DEFINE p == Len(calls) + 1
           rec == [id |-> p, state |-> "cancelled"]
           c == Append(publicTerminal, rec)
<1>1. /\ p \in Publics /\ p \notin DOMAIN calls
      /\ \A q \in DOMAIN calls : calls'[q] = calls[q]
      /\ calls'[p] = [key |-> k, fate |-> "cancelled", by |-> "nobody"]
  BY CreationAppends DEF CreateBornCancelled, Fates
<1>2. publicTerminal' = Trim(c) /\ settled' = Append(settled, p)
  BY DEF CreateBornCancelled
<1> HIDE DEF p
<1>3. /\ publicTerminal \in Seq(MapOf(Publics)) /\ settled \in Seq(Publics)
      /\ Len(publicTerminal) \in Nat /\ Len(settled) \in Nat
  BY LenProperties DEF IInv, TypeOK
<1>4. rec \in MapOf(Publics)
  BY <1>1 DEF MapOf, Fates
<1>5. /\ c \in Seq(MapOf(Publics)) /\ Len(c) = Len(publicTerminal) + 1
      /\ \A i \in 1..Len(publicTerminal) : c[i] = publicTerminal[i]
      /\ c[Len(publicTerminal) + 1] = rec
  BY <1>3, <1>4, AppendProperties
<1>6. /\ Len(settled') = Len(settled) + 1
      /\ \A i \in 1..Len(settled) : settled'[i] = settled[i]
      /\ settled'[Len(settled) + 1] = p
  BY <1>1, <1>2, <1>3, AppendProperties
<1>7. \A i \in DOMAIN settled : calls'[settled[i]].fate = calls[settled[i]].fate
  BY <1>1 DEF IInv, SettledOnce
<1>8. \A i \in 1..1 : c[Len(publicTerminal) + i] =
        [id |-> settled'[Len(settled) + i], state |-> calls'[settled'[Len(settled) + i]].fate]
  BY <1>1, <1>5, <1>6
<1> HIDE DEF c
<1>. QED
  BY <1>2, <1>5, <1>6, <1>7, <1>8, MemoryGrows

(* A creation that parks its call forgets nothing that was settled.        *)
LEMMA ParkedRemembers ==
  ASSUME IInv, MemoryIsRecent, NEW k \in Keys, NEW s, CreateParked(k, s)
  PROVE  MemoryIsRecent'
<1>1. \A q \in DOMAIN calls : calls'[q] = calls[q]
  BY CreationAppends DEF CreateParked
<1>2. publicTerminal' = publicTerminal /\ settled' = settled
  BY DEF CreateParked
<1>3. Len(publicTerminal) \in Nat /\ Len(settled) \in Nat /\ DOMAIN settled = 1..Len(settled)
      /\ MaxPending \in Nat
  BY LenProperties, BoundAssumption DEF IInv, TypeOK
<1> DEFINE n == Len(publicTerminal)
<1>4. ASSUME NEW i \in 1..n
      PROVE  calls'[settled[Len(settled) - n + i]] = calls[settled[Len(settled) - n + i]]
  <2>1. n <= Len(settled)
    BY <1>3 DEF MemoryIsRecent
  <2>2. Len(settled) - n + i \in DOMAIN settled
    BY <1>3, <2>1
  <2>. QED
    BY <1>1, <2>2 DEF IInv, SettledOnce
<1>. QED
  BY <1>2, <1>4 DEF MemoryIsRecent

(* The late answers come from a memory of exactly the last MaxPending      *)
(* settlements, each as it really ended.                                   *)
THEOREM RemembersTheLatest == Spec => []MemoryIsRecent
<1>1. Init => MemoryIsRecent
  BY BoundAssumption DEF Init, MemoryIsRecent
<1>2. IInv /\ MemoryIsRecent /\ [Next]_vars => MemoryIsRecent'
  <2> SUFFICES ASSUME IInv, MemoryIsRecent, [Next]_vars PROVE MemoryIsRecent'
    OBVIOUS
  <2>1. CASE UNCHANGED <<publicTerminal, settled, calls>>
    BY <2>1 DEF MemoryIsRecent
  <2>2. CASE Create
    <3>1. ASSUME NEW k \in Keys, CreateRefused(k) PROVE MemoryIsRecent'
      BY <2>1, <3>1 DEF CreateRefused
    <3>. QED
      BY <2>2, <3>1, ParkedRemembers, BornCancelledRemembers DEF Create
  <2>3. CASE \E w \in Waiters, k \in Keys : AwaitCall(w, k)
    BY <2>1, <2>3 DEF AwaitCall
  <2>4. CASE \/ \E p \in Publics, by \in Profiles \cup {AnyProfile} : Claim(p, by)
             \/ \E k \in Keys : TakeByKey(k)
             \/ \E p \in Publics : Expire(p)
             \/ \E s \in Signals : Abort(s)
             \/ \E inScope \in Scopes : CancelScope(inScope)
    BY <2>4, SettlingStep, SettleRemembers
  <2>5. CASE UNCHANGED vars
    BY <2>1, <2>5 DEF vars, brokerVars
  <2>. QED
    BY <2>2, <2>3, <2>4, <2>5 DEF Next
<1>. QED
  BY <1>1, <1>2, Invariance, PTL DEF Spec

(* What a public id that is not pending is answered.                       *)
LEMMA LateAnswer ==
  ASSUME IInv, MemoryIsRecent, NEW p \in Publics, p \notin DOMAIN publicIndex
  PROVE  /\ Holds(publicTerminal, p) =>
              /\ p \in DOMAIN calls /\ calls[p].fate \in Fates
              /\ StateOf(publicTerminal, p) = calls[p].fate
         /\ ~Holds(publicTerminal, p) /\ p \in DOMAIN calls =>
              calls[p].fate \in Fates /\ Cardinality(SettledAfter(p)) >= MaxPending
<1> DEFINE n == Len(publicTerminal)
           N == Len(settled)
<1>1. /\ n \in Nat /\ N \in Nat /\ MaxPending \in Nat
      /\ DOMAIN publicTerminal = 1..n /\ DOMAIN settled = 1..N
  BY LenProperties, BoundAssumption DEF IInv, TypeOK
<1>2. n = IF N < MaxPending THEN N ELSE MaxPending
  BY DEF MemoryIsRecent
<1>3. \A i \in 1..n : publicTerminal[i] =
        [id |-> settled[N - n + i], state |-> calls[settled[N - n + i]].fate]
  BY DEF MemoryIsRecent
<1>4. \A q \in DOMAIN calls : calls[q].fate \in {"pending"} \cup Fates
  <2>1. calls \in Seq(CallRecs)
    BY DEF IInv, TypeOK, CallRecs
  <2>2. \A q \in DOMAIN calls : calls[q] \in CallRecs
    BY <2>1, ElementOfSeq, LenProperties
  <2>. QED
    BY <2>2 DEF CallRecs
<1>5. \A i \in 1..n : N - n + i \in DOMAIN settled
  BY <1>1, <1>2
<1> HIDE DEF n, N
<1>6. ASSUME Holds(publicTerminal, p)
      PROVE  /\ p \in DOMAIN calls /\ calls[p].fate \in Fates
             /\ StateOf(publicTerminal, p) = calls[p].fate
  <2> DEFINE i == CHOOSE j \in DOMAIN publicTerminal : publicTerminal[j].id = p
  <2>1. i \in 1..n /\ publicTerminal[i].id = p
    BY <1>1, <1>6 DEF Holds
  <2>2. StateOf(publicTerminal, p) = publicTerminal[i].state
    BY DEF StateOf
  <2> HIDE DEF i
  <2>3. settled[N - n + i] = p /\ publicTerminal[i].state = calls[p].fate
    <3>1. publicTerminal[i] = [id |-> settled[N - n + i], state |-> calls[settled[N - n + i]].fate]
      BY <1>3, <2>1
    <3>. QED
      BY <2>1, <3>1
  <2>4. p \in DOMAIN calls /\ calls[p].fate # "pending"
    BY <1>5, <2>1, <2>3 DEF IInv, SettledOnce
  <2>. QED
    BY <1>4, <2>2, <2>3, <2>4
<1>7. ASSUME ~Holds(publicTerminal, p), p \in DOMAIN calls
      PROVE  calls[p].fate \in Fates /\ Cardinality(SettledAfter(p)) >= MaxPending
  <2>1. calls[p].fate # "pending"
    BY <1>7 DEF IInv, IndexConsistent
  <2>2. PICK j \in DOMAIN settled : settled[j] = p
    BY <1>7, <2>1 DEF IInv, SettledOnce
  <2>3. ~(j > N - n)
    <3> SUFFICES ASSUME j > N - n PROVE FALSE
      OBVIOUS
    <3>1. j - (N - n) \in 1..n /\ N - n + (j - (N - n)) = j
      BY <1>1, <1>2, <2>2
    <3>2. publicTerminal[j - (N - n)].id = p
      <4>1. publicTerminal[j - (N - n)] =
              [id    |-> settled[N - n + (j - (N - n))],
               state |-> calls[settled[N - n + (j - (N - n))]].fate]
        BY <1>3, <3>1
      <4>. QED
        BY <2>2, <3>1, <4>1
    <3>. QED
      BY <1>1, <1>7, <3>1, <3>2 DEF Holds
  <2>4. n = MaxPending /\ j \in 1..N /\ j + 1 \in Int /\ N \in Int /\ j + MaxPending <= N
    BY <1>1, <1>2, <2>2, <2>3
  <2>5. (j + 1)..N \subseteq SettledAfter(p)
    <3> SUFFICES ASSUME NEW i \in (j + 1)..N PROVE i \in SettledAfter(p)
      OBVIOUS
    <3>1. i \in DOMAIN settled /\ j \in 1..(i - 1)
      BY <1>1, <2>4
    <3>. QED
      BY <2>2, <3>1 DEF SettledAfter
  <2>6. SettledAfter(p) \subseteq 1..N
    BY <1>1 DEF SettledAfter
  <2>7. IsFiniteSet(SettledAfter(p))
    BY <1>1, <2>6, FS_Interval, FS_Subset
  <2>8. Cardinality((j + 1)..N) <= Cardinality(SettledAfter(p))
    BY <2>5, <2>7, FS_Subset
  <2>9. Cardinality((j + 1)..N) = N - j
    <3>1. Cardinality((j + 1)..N) = IF j + 1 > N THEN 0 ELSE N - (j + 1) + 1
      BY <2>4, FS_Interval
    <3>. QED
      BY <1>1, <2>4, <3>1
  <2>10. Cardinality(SettledAfter(p)) \in Nat
    BY <2>7, FS_CardinalityType
  <2>. QED
    BY <1>1, <1>4, <1>7, <2>1, <2>4, <2>8, <2>9, <2>10
<1>. QED
  BY <1>6, <1>7

(* Whatever a late, early, foreign or repeated claim is answered is true.  *)
THEOREM AnswersAreTrue == Spec => []AnswersTruthful
<1>1. IInv /\ MemoryIsRecent => AnswersTruthful
  <2> SUFFICES ASSUME IInv, MemoryIsRecent, NEW p \in Publics,
                      NEW by \in Profiles \cup {AnyProfile}
               PROVE  TruthfulAnswer(p, by)
    BY DEF AnswersTruthful
  <2> DEFINE fate == IF p \in DOMAIN calls THEN calls[p].fate ELSE "unborn"
             mine == by = AnyProfile \/ calls[p].key.profile = by
  <2>1. CASE p \in DOMAIN publicIndex
    <3>1. /\ publicIndex[p] \in Live /\ p \in DOMAIN calls
          /\ calls[p].key = publicIndex[p] /\ calls[p].fate = "pending"
      BY <2>1 DEF IInv, IndexConsistent
    <3>2. Foreign(publicIndex[p], by) <=> ~mine
      BY <3>1 DEF Foreign
    <3>3. Answer(p, by) = IF mine THEN "resolved" ELSE "unknown"
      BY <2>1, <3>1, <3>2 DEF Answer
    <3>4. fate = "pending"
      BY <3>1
    <3>. QED
      BY <3>3, <3>4 DEF TruthfulAnswer
  <2>2. CASE p \notin DOMAIN publicIndex
    <3>1. Answer(p, by) = Classify(publicTerminal, p)
      BY <2>2 DEF Answer
    <3>2. CASE Holds(publicTerminal, p)
      <4>1. p \in DOMAIN calls /\ calls[p].fate \in Fates
            /\ StateOf(publicTerminal, p) = calls[p].fate
        BY <2>2, <3>2, LateAnswer
      <4>2. Answer(p, by) = IF fate = "resolved" THEN "duplicate" ELSE "stale"
        BY <3>1, <3>2, <4>1 DEF Classify
      <4>3. fate \in Fates
        BY <4>1
      <4>. QED
        BY <4>2, <4>3 DEF TruthfulAnswer, Fates
    <3>3. CASE ~Holds(publicTerminal, p)
      <4>1. Answer(p, by) = "unknown"
        BY <3>1, <3>3 DEF Classify
      <4>2. p \in DOMAIN calls =>
              calls[p].fate \in Fates /\ Cardinality(SettledAfter(p)) >= MaxPending
        BY <2>2, <3>3, LateAnswer
      <4>. QED
        BY <4>1, <4>2 DEF TruthfulAnswer
    <3>. QED
      BY <3>2, <3>3
  <2>. QED
    BY <2>1, <2>2
<1>. QED
  BY <1>1, Invariance, RemembersTheLatest, PTL

-------------------------------------------------------------------------------
(* The promises of awaitCall.                                              *)

(* One waiter's part of WaitersFollowTheirCall.                            *)
Follows(w) ==
  LET p == waiters[w].on IN
  /\ waiters[w].got = "pending"  => p \in DOMAIN calls /\ calls[p].fate = "pending"
  /\ waiters[w].got = "resolved" => p \in DOMAIN calls /\ calls[p].fate = "resolved"
  /\ waiters[w].got = "rejected" =>
       p = 0 \/ (p \in DOMAIN calls /\ calls[p].fate \in {"expired", "cancelled"})

LEMMA FollowsAll == WaitersFollowTheirCall <=> \A w \in Waiters : Follows(w)
BY DEF WaitersFollowTheirCall, Follows

(* A settlement releases exactly the waiters on what it settles.           *)
LEMMA SettleReleases ==
  ASSUME IInv, NEW order, IsOrder(order), NEW how \in Fates, NEW by \in Claimants,
         Settle(order, how, by), NEW w \in Waiters, Follows(w)
  PROVE  Follows(w)'
<1> DEFINE T == TakenFrom(Range(order))
<1>1. /\ DOMAIN calls' = DOMAIN calls
      /\ \A p \in DOMAIN calls : calls'[p] =
           IF p \in T THEN [key |-> calls[p].key, fate |-> how, by |-> by] ELSE calls[p]
      /\ Range(order) \subseteq Live
  BY SettleMaps
<1>2. \A p \in T : p \in DOMAIN calls /\ calls[p].fate = "pending"
  BY <1>1 DEF TakenFrom, IInv, IndexConsistent
<1>3. waiters'[w] = IF waiters[w].got = "pending" /\ waiters[w].on \in T
                    THEN [on  |-> waiters[w].on,
                          got |-> IF how = "resolved" THEN "resolved" ELSE "rejected"]
                    ELSE waiters[w]
  BY DEF Settle, Deleted, WaitersReleased
<1>4. \A p \in T : calls'[p].fate = how
  BY <1>1, <1>2
<1>5. how \in {"resolved", "expired", "cancelled"}
  BY DEF Fates
<1> HIDE DEF T
<1>6. CASE waiters[w].got = "pending" /\ waiters[w].on \in T
  <2>1. /\ waiters'[w].on = waiters[w].on
        /\ waiters'[w].got = IF how = "resolved" THEN "resolved" ELSE "rejected"
    BY <1>3, <1>6
  <2>. QED
    BY <1>1, <1>2, <1>4, <1>5, <1>6, <2>1 DEF Follows
<1>7. CASE ~(waiters[w].got = "pending" /\ waiters[w].on \in T)
  <2>1. waiters'[w] = waiters[w]
    BY <1>3, <1>7
  <2>2. waiters[w].on \notin T \/ waiters[w].got \notin {"pending", "resolved"}
    BY <1>2, <1>7 DEF Follows
  <2>3. waiters[w].on \in T /\ waiters[w].got = "rejected" => waiters[w].on = 0
    BY <1>2 DEF Follows
  <2>. QED
    BY <1>1, <2>1, <2>2, <2>3 DEF Follows
<1>. QED
  BY <1>6, <1>7

(* A promise of awaitCall is kept or broken as the very call it waited on  *)
(* was settled, whatever becomes of its composite id afterwards.           *)
THEOREM WaitersAreFaithful == Spec => []WaitersFollowTheirCall
<1>1. Init => WaitersFollowTheirCall
  BY FollowsAll DEF Init, Follows, Idle
<1>2. IInv /\ WaitersFollowTheirCall /\ [Next]_vars => WaitersFollowTheirCall'
  <2> SUFFICES ASSUME IInv, \A w \in Waiters : Follows(w), [Next]_vars, NEW w \in Waiters
               PROVE  Follows(w)'
    BY FollowsAll DEF WaitersFollowTheirCall, Follows
  <2>1. ASSUME UNCHANGED waiters, \A p \in DOMAIN calls : calls'[p] = calls[p],
               DOMAIN calls \subseteq DOMAIN calls'
        PROVE  Follows(w)'
    BY <2>1 DEF Follows
  <2>2. CASE Create
    <3>1. ASSUME NEW k \in Keys, CreateRefused(k) PROVE Follows(w)'
      BY <2>1, <3>1 DEF CreateRefused
    <3>2. ASSUME NEW k \in Keys, NEW s, CreateParked(k, s) PROVE Follows(w)'
      BY <2>1, <3>2, CreationAppends DEF CreateParked
    <3>3. ASSUME NEW k \in Keys, NEW s, CreateBornCancelled(k, s) PROVE Follows(w)'
      BY <2>1, <3>3, CreationAppends DEF CreateBornCancelled, Fates
    <3>. QED
      BY <2>2, <3>1, <3>2, <3>3 DEF Create
  <2>3. ASSUME NEW v \in Waiters, NEW k \in Keys, AwaitCall(v, k) PROVE Follows(w)'
    <3>1. waiters' = [waiters EXCEPT ![v] =
            IF k \in Live THEN [on |-> entries[k], got |-> "pending"]
            ELSE [on |-> 0, got |-> "rejected"]]
          /\ calls' = calls
      BY <2>3 DEF AwaitCall
    <3>2. k \in Live => entries[k] \in DOMAIN calls /\ calls[entries[k]].fate = "pending"
      BY DEF IInv, IndexConsistent
    <3>3. waiters \in [Waiters -> [on : {0} \cup Publics,
                         got : {"none", "pending", "resolved", "rejected"}]]
      BY DEF IInv, TypeOK
    <3>4. CASE w = v /\ k \in Live
      <4>1. waiters'[w] = [on |-> entries[k], got |-> "pending"]
        BY <3>1, <3>3, <3>4
      <4>. QED
        BY <3>1, <3>2, <3>4, <4>1 DEF Follows
    <3>5. CASE w = v /\ k \notin Live
      <4>1. waiters'[w] = [on |-> 0, got |-> "rejected"]
        BY <3>1, <3>3, <3>5
      <4>. QED
        BY <3>1, <4>1 DEF Follows
    <3>6. CASE w # v
      <4>1. waiters'[w] = waiters[w]
        BY <3>1, <3>3, <3>6
      <4>. QED
        BY <3>1, <4>1 DEF Follows
    <3>. QED
      BY <3>4, <3>5, <3>6
  <2>4. CASE \/ \E p \in Publics, by \in Profiles \cup {AnyProfile} : Claim(p, by)
             \/ \E k \in Keys : TakeByKey(k)
             \/ \E p \in Publics : Expire(p)
             \/ \E s \in Signals : Abort(s)
             \/ \E inScope \in Scopes : CancelScope(inScope)
    BY <2>4, SettlingStep, SettleReleases
  <2>5. CASE UNCHANGED vars
    BY <2>1, <2>5 DEF vars, brokerVars
  <2>. QED
    BY <2>2, <2>3, <2>4, <2>5 DEF Next
<1>. QED
  BY <1>1, <1>2, Invariance, PTL DEF Spec

-------------------------------------------------------------------------------
(* What the broker remembers of composite ids.                             *)
Latest(c, k, p) ==
  /\ p \in DOMAIN c /\ c[p].key = k
  /\ \A q \in DOMAIN c : c[q].key = k => q <= p
Remembered(x) ==
  /\ x.id \notin Live
  /\ \E p \in DOMAIN calls : Latest(calls, x.id, p) /\ calls[p].fate = x.state
Distinct(m) == \A i, j \in DOMAIN m : m[i].id = m[j].id => i = j
Within(c, m) == \A i \in DOMAIN c : \E j \in DOMAIN m : c[i] = m[j]

(* The inductive form: an id is remembered once, so deleting it forgets    *)
(* it; and the live entry of an id is its latest creation.                 *)
KeysInv ==
  /\ Distinct(terminal)
  /\ \A k \in Live : Latest(calls, k, entries[k])
  /\ \A i \in DOMAIN terminal : Remembered(terminal[i])

(* A trimmed map holds only what the map held, and no id twice.            *)
LEMMA TrimWithin ==
  ASSUME NEW S, NEW m \in Seq(S), Distinct(m)
  PROVE  Distinct(Trim(m)) /\ Within(Trim(m), m)
<1> DEFINE n == Len(m)
           t == Len(Trim(m))
<1>1. /\ n \in Nat /\ DOMAIN m = 1..n /\ MaxPending \in Nat
      /\ t \in Nat /\ DOMAIN Trim(m) = 1..t
  BY LenProperties, TrimProperties, BoundAssumption
<1>2. /\ t = IF n <= MaxPending THEN n ELSE MaxPending
      /\ \A i \in 1..t : Trim(m)[i] = m[n - t + i]
  BY TrimKeepsNewest
<1> HIDE DEF n, t
<1>3. \A i \in 1..t : n - t + i \in DOMAIN m
  BY <1>1, <1>2
<1>4. ASSUME NEW i \in 1..t, NEW j \in 1..t, m[n - t + i].id = m[n - t + j].id
      PROVE  i = j
  <2>1. n - t + i \in DOMAIN m /\ n - t + j \in DOMAIN m
    BY <1>3
  <2>2. n - t + i = n - t + j
    BY <1>4, <2>1, Zenon DEF Distinct
  <2>. QED
    BY <1>1, <2>2
<1>5. Distinct(Trim(m))
  <2> SUFFICES ASSUME NEW i \in 1..t, NEW j \in 1..t, Trim(m)[i].id = Trim(m)[j].id
               PROVE  i = j
    BY <1>1 DEF Distinct
  <2>1. Trim(m)[i] = m[n - t + i] /\ Trim(m)[j] = m[n - t + j]
    BY <1>2
  <2>. QED
    BY <1>4, <2>1
<1>6. Within(Trim(m), m)
  BY <1>1, <1>2, <1>3, Zenon DEF Within
<1>. QED
  BY <1>5, <1>6

(* After a deletion an id is gone, and the others are as they were.        *)
LEMMA WithoutWithin ==
  ASSUME NEW S, NEW m \in Seq(S), NEW id, Distinct(m)
  PROVE  /\ Distinct(Without(m, id)) /\ Within(Without(m, id), m)
         /\ \A i \in DOMAIN Without(m, id) : Without(m, id)[i].id # id
<1>1. CASE Holds(m, id)
  <2> DEFINE n  == Len(m)
             at == CHOOSE i \in DOMAIN m : m[i].id = id
             w  == Without(m, id)
             From(i) == IF i < at THEN i ELSE i + 1
  <2>1. n \in Nat /\ DOMAIN m = 1..n /\ at \in 1..n /\ m[at].id = id
    BY <1>1, LenProperties DEF Holds
  <2>2. w = [i \in 1..(n - 1) |-> IF i < at THEN m[i] ELSE m[i + 1]]
    BY <1>1 DEF Without
  <2> HIDE DEF n, at, w
  <2>3. \A i \in 1..(n - 1) : From(i) \in 1..n /\ From(i) # at
    BY <2>1
  <2>4. \A i, j \in 1..(n - 1) : From(i) = From(j) => i = j
    BY <2>1
  <2>5. DOMAIN w = 1..(n - 1) /\ \A i \in 1..(n - 1) : w[i] = m[From(i)]
    BY <2>2
  <2> HIDE DEF From
  <2>6. Distinct(w) /\ Within(w, m)
    BY <2>1, <2>3, <2>4, <2>5 DEF Distinct, Within
  <2>7. \A i \in DOMAIN w : w[i].id # id
    BY <2>1, <2>3, <2>5 DEF Distinct
  <2>. QED
    BY <2>6, <2>7 DEF w
<1>2. CASE ~Holds(m, id)
  BY <1>2 DEF Without, Holds, Within
<1>. QED
  BY <1>1, <1>2

(* A creation forgets the id it is for, and is its latest.                 *)
LEMMA CreationIsLatest ==
  ASSUME IInv, KeysInv, NEW k \in Keys, k \notin Live, NEW fate \in {"pending"} \cup Fates,
         Len(calls) < MaxCalls,
         calls' = Append(calls, [key |-> k, fate |-> fate, by |-> "nobody"])
  PROVE  LET p == Len(calls) + 1 IN
         /\ Latest(calls', k, p) /\ calls'[p].fate = fate
         /\ \A j \in Keys, q \in DOMAIN calls : j # k /\ Latest(calls, j, q) => Latest(calls', j, q)
         /\ \A i \in DOMAIN terminal : terminal[i].id # k =>
              \E q \in DOMAIN calls : /\ Latest(calls', terminal[i].id, q)
                                      /\ calls'[q].fate = terminal[i].state
<1> DEFINE p == Len(calls) + 1
<1>1. /\ p \in Publics /\ p \notin DOMAIN calls
      /\ DOMAIN calls' = DOMAIN calls \cup {p}
      /\ \A q \in DOMAIN calls : calls'[q] = calls[q]
      /\ calls'[p] = [key |-> k, fate |-> fate, by |-> "nobody"]
  BY CreationAppends
<1>2. calls \in Seq(CallRecs) /\ DOMAIN calls = 1..Len(calls) /\ Len(calls) \in Nat
  BY LenProperties DEF IInv, TypeOK, CallRecs
<1>3. \A q \in DOMAIN calls' : q <= p
  BY <1>1, <1>2
<1> HIDE DEF p
<1>4. calls'[p].key = k /\ calls'[p].fate = fate
  BY <1>1
<1>5. Latest(calls', k, p)
  BY <1>1, <1>3, <1>4 DEF Latest
<1>6. \A j, q : j # k /\ Latest(calls, j, q) => Latest(calls', j, q) /\ q \in DOMAIN calls
  BY <1>1, <1>4 DEF Latest
<1>7. \A i \in DOMAIN terminal : terminal[i].id # k =>
         \E q \in DOMAIN calls : Latest(calls', terminal[i].id, q) /\ calls'[q].fate = terminal[i].state
  BY <1>1, <1>6 DEF KeysInv, Remembered
<1>. QED
  BY <1>4, <1>5, <1>6, <1>7 DEF p

(* What a deletion before a creation leaves is still the truth after it.   *)
LEMMA ParkedIsLatest ==
  ASSUME IInv, KeysInv, NEW k \in Keys, NEW s, CreateParked(k, s)
  PROVE  KeysInv'
<1> DEFINE p == Len(calls) + 1
           w == Without(terminal, k)
<1>1. /\ terminal' = w /\ entries' = Put(entries, k, p) /\ k \notin Live
      /\ calls' = Append(calls, [key |-> k, fate |-> "pending", by |-> "nobody"])
      /\ Len(calls) < MaxCalls
  BY DEF CreateParked
<1>2. terminal \in Seq(MapOf(Keys)) /\ Distinct(terminal) /\ Live \subseteq Keys
  BY DEF IInv, TypeOK, KeysInv
<1>3. /\ Distinct(w) /\ Within(w, terminal)
      /\ \A i \in DOMAIN w : w[i].id # k
  BY <1>2, WithoutWithin
<1>4. /\ Latest(calls', k, p)
      /\ \A j \in Keys, q \in DOMAIN calls : j # k /\ Latest(calls, j, q) => Latest(calls', j, q)
      /\ \A i \in DOMAIN terminal : terminal[i].id # k =>
           \E q \in DOMAIN calls : Latest(calls', terminal[i].id, q) /\ calls'[q].fate = terminal[i].state
  BY <1>1, CreationIsLatest
<1>5. /\ Live' = Live \cup {k} /\ entries'[k] = p
      /\ \A j \in Live : entries'[j] = entries[j]
  BY <1>1 DEF Put, Live
<1> HIDE DEF p, w
<1>6. \A j \in Live' : Latest(calls', j, entries'[j])
  <2>1. \A j \in Live : Latest(calls, j, entries[j]) /\ entries[j] \in DOMAIN calls /\ j # k
    BY <1>1 DEF KeysInv, Latest
  <2>2. \A j \in Live : Latest(calls', j, entries[j])
    BY <1>2, <1>4, <2>1, <1>5 DEF Latest
  <2>. QED
    BY <1>4, <1>5, <2>2 DEF Latest
<1>7. \A i \in DOMAIN w : w[i].id \notin Live' /\ \E q : Latest(calls', w[i].id, q) /\ calls'[q].fate = w[i].state
  <2> TAKE i \in DOMAIN w
  <2>1. PICK j \in DOMAIN terminal : w[i] = terminal[j]
    BY <1>3 DEF Within
  <2>2. terminal[j].id # k /\ terminal[j].id \notin Live
    BY <1>3, <2>1 DEF KeysInv, Remembered
  <2>. QED
    BY <1>4, <1>5, <2>1, <2>2
<1>. QED
  BY <1>1, <1>3, <1>6, <1>7 DEF KeysInv, Remembered, Latest, Distinct

(* So is what a call that is cancelled as it is created leaves behind.     *)
LEMMA BornCancelledIsLatest ==
  ASSUME IInv, KeysInv, NEW k \in Keys, NEW s, CreateBornCancelled(k, s)
  PROVE  KeysInv'
<1> DEFINE p == Len(calls) + 1
           w == Without(terminal, k)
           x == [id |-> k, state |-> "cancelled"]
           c == Append(w, x)
<1>1. /\ terminal' = Trim(c) /\ entries' = entries /\ k \notin Live
      /\ calls' = Append(calls, [key |-> k, fate |-> "cancelled", by |-> "nobody"])
      /\ Len(calls) < MaxCalls
  BY DEF CreateBornCancelled
<1>2. terminal \in Seq(MapOf(Keys)) /\ Distinct(terminal) /\ Live \subseteq Keys
  BY DEF IInv, TypeOK, KeysInv
<1>3. /\ w \in Seq(MapOf(Keys)) /\ Distinct(w) /\ Within(w, terminal)
      /\ \A i \in DOMAIN w : w[i].id # k
  BY <1>2, WithoutWithin, WithoutProperties
<1>4. /\ Latest(calls', k, p) /\ calls'[p].fate = "cancelled"
      /\ \A j \in Keys, q \in DOMAIN calls : j # k /\ Latest(calls, j, q) => Latest(calls', j, q)
      /\ \A i \in DOMAIN terminal : terminal[i].id # k =>
           \E q \in DOMAIN calls : Latest(calls', terminal[i].id, q) /\ calls'[q].fate = terminal[i].state
  BY <1>1, CreationIsLatest DEF Fates
<1> HIDE DEF p, w
<1>5. /\ c \in Seq(MapOf(Keys)) /\ DOMAIN w = 1..Len(w) /\ Len(w) \in Nat
      /\ DOMAIN c = 1..(Len(w) + 1) /\ c[Len(w) + 1] = x
      /\ \A i \in 1..Len(w) : c[i] = w[i]
  <2>1. x \in MapOf(Keys)
    BY DEF MapOf, Fates
  <2>2. /\ c \in Seq(MapOf(Keys)) /\ Len(c) = Len(w) + 1 /\ c[Len(w) + 1] = x
        /\ \A i \in 1..Len(w) : c[i] = w[i]
    BY <1>3, <2>1, AppendProperties
  <2>. QED
    BY <1>3, <2>2, LenProperties
<1>6. Distinct(c)
  BY <1>3, <1>5 DEF Distinct
<1>7. \A i \in DOMAIN c : c[i].id \notin Live' /\
        \E q : Latest(calls', c[i].id, q) /\ calls'[q].fate = c[i].state
  <2> TAKE i \in DOMAIN c
  <2>1. CASE i = Len(w) + 1
    <3>1. c[i].id = k /\ c[i].state = "cancelled"
      BY <1>5, <2>1
    <3>2. k \notin Live'
      BY <1>1 DEF Live
    <3>. QED
      BY <1>4, <3>1, <3>2
  <2>2. CASE i # Len(w) + 1
    <3>1. i \in DOMAIN w /\ c[i] = w[i]
      BY <1>5, <2>2
    <3>2. PICK j \in DOMAIN terminal : w[i] = terminal[j]
      BY <1>3, <3>1 DEF Within
    <3>3. terminal[j].id # k /\ terminal[j].id \notin Live
      BY <1>3, <3>1, <3>2 DEF KeysInv, Remembered
    <3>. QED
      BY <1>1, <1>4, <3>1, <3>2, <3>3 DEF Live
  <2>. QED
    BY <2>1, <2>2
<1>8. Distinct(Trim(c)) /\ Within(Trim(c), c)
  BY <1>5, <1>6, TrimWithin
<1> HIDE DEF c
<1>9. \A j \in Live' : Latest(calls', j, entries'[j])
  <2>1. \A j \in Live : Latest(calls, j, entries[j]) /\ entries[j] \in DOMAIN calls /\ j # k
    BY <1>1 DEF KeysInv, Latest
  <2>. QED
    BY <1>1, <1>2, <1>4, <2>1 DEF Live
<1>10. \A i \in DOMAIN terminal' : Remembered(terminal[i])'
  <2> TAKE i \in DOMAIN terminal'
  <2>1. PICK j \in DOMAIN c : terminal'[i] = c[j]
    BY <1>1, <1>8 DEF Within
  <2>. QED
    BY <1>7, <2>1 DEF Remembered, Latest
<1>. QED
  BY <1>1, <1>8, <1>9, <1>10 DEF KeysInv, Distinct

(* A settlement remembers live ids, each with how its latest call ended.   *)
LEMMA SettleIsLatest ==
  ASSUME IInv, KeysInv, NEW order, IsOrder(order), NEW how \in Fates,
         NEW by \in Claimants, Settle(order, how, by)
  PROVE  KeysInv'
<1> DEFINE gone == Range(order)
           T == TakenFrom(gone)
           n == Len(order)
           new == [i \in DOMAIN order |-> [id |-> order[i], state |-> how]]
           m == Len(terminal)
           c == terminal \o new
<1>1. /\ gone \subseteq Live /\ Live' = Live \ gone
      /\ \A k \in Live' : entries'[k] = entries[k]
      /\ DOMAIN calls' = DOMAIN calls
      /\ \A p \in DOMAIN calls : calls'[p] =
           IF p \in T THEN [key |-> calls[p].key, fate |-> how, by |-> by] ELSE calls[p]
  BY SettleMaps
<1>2. terminal' = Trim(c)
  BY DEF Settle
<1>3. /\ n \in Nat /\ DOMAIN order = 1..n /\ IsInjective(order)
      /\ \A i \in 1..n : order[i] \in Live /\ order[i] \in gone
  BY LenProperties, ElementOfSeq DEF IsOrder, Range
<1>4. /\ terminal \in Seq(MapOf(Keys)) /\ Live \subseteq Keys
      /\ m \in Nat /\ DOMAIN terminal = 1..m
  BY LenProperties DEF IInv, TypeOK
<1>5. /\ new \in Seq(MapOf(Keys)) /\ Len(new) = n
      /\ \A i \in 1..n : new[i].id = order[i] /\ new[i].state = how
  <2>1. new \in [1..n -> MapOf(Keys)]
    BY <1>3, <1>4 DEF MapOf
  <2>2. \A i \in 1..n : new[i] = [id |-> order[i], state |-> how]
    BY <1>3
  <2> HIDE DEF new
  <2>. QED
    BY <1>3, <2>1, <2>2
<1>6. /\ \A k \in Keys, p \in DOMAIN calls : Latest(calls, k, p) => Latest(calls', k, p)
      /\ \A p \in DOMAIN calls : p \in T => calls'[p].fate = how
      /\ \A p \in DOMAIN calls : p \notin T => calls'[p].fate = calls[p].fate
  <2>1. \A p \in DOMAIN calls : calls'[p].key = calls[p].key
    BY <1>1
  <2>. QED
    BY <1>1, <2>1 DEF Latest
<1>7. \A p \in T : p \in DOMAIN calls /\ calls[p].key \in Live
  BY <1>1 DEF TakenFrom, IInv, IndexConsistent
<1>8. \A k \in gone : entries[k] \in T /\ Latest(calls', k, entries[k]) /\ calls'[entries[k]].fate = how
  <2>1. \A k \in gone : entries[k] \in T /\ entries[k] \in DOMAIN calls /\ Latest(calls, k, entries[k])
    BY <1>1 DEF TakenFrom, KeysInv, Latest
  <2>. QED
    BY <1>1, <1>4, <1>6, <2>1
<1> HIDE DEF gone, T, n, new, m
<1>9. /\ c \in Seq(MapOf(Keys)) /\ DOMAIN c = 1..(m + n)
      /\ \A i \in 1..m : c[i] = terminal[i]
      /\ \A i \in 1..n : c[m + i] = new[i]
  <2>1. /\ c \in Seq(MapOf(Keys)) /\ Len(c) = Len(terminal) + Len(new)
        /\ \A i \in 1..Len(terminal) : c[i] = terminal[i]
        /\ \A i \in 1..Len(new) : c[Len(terminal) + i] = new[i]
    <3>1. terminal \in Seq(MapOf(Keys)) /\ new \in Seq(MapOf(Keys)) /\ c = terminal \o new
      BY <1>4, <1>5
    <3> HIDE DEF c
    <3>. QED
      BY <3>1, ConcatElements
  <2> HIDE DEF c
  <2>2. DOMAIN c = 1..Len(c)
    BY <2>1, LenProperties
  <2>. QED
    BY <1>5, <2>1, <2>2 DEF m
<1> HIDE DEF c
<1>10. \A i \in DOMAIN c : i \in 1..m \/ \E j \in 1..n : i = m + j
  <2> TAKE i \in DOMAIN c
  <2>1. i \in 1..m \/ (i - m \in 1..n /\ i = m + (i - m))
    BY <1>3, <1>4, <1>9
  <2>. QED
    BY <2>1
<1>11. \A i \in 1..m : c[i].id \notin Live
  BY <1>4, <1>9 DEF KeysInv, Remembered
<1>12. \A i \in 1..n : c[m + i].id = order[i] /\ c[m + i].state = how
  BY <1>5, <1>9
<1>13. Distinct(c)
  <2> SUFFICES ASSUME NEW i \in DOMAIN c, NEW j \in DOMAIN c, c[i].id = c[j].id
               PROVE  i = j
    BY DEF Distinct
  <2>1. CASE i \in 1..m /\ j \in 1..m
    BY <1>4, <1>9, <2>1 DEF KeysInv, Distinct
  <2>2. CASE \E a, b \in 1..n : i = m + a /\ j = m + b
    BY <1>3, <1>12, <2>2 DEF IsInjective
  <2>3. CASE (i \in 1..m /\ \E b \in 1..n : j = m + b) \/ (j \in 1..m /\ \E a \in 1..n : i = m + a)
    BY <1>3, <1>11, <1>12, <2>3
  <2>. QED
    BY <1>10, <2>1, <2>2, <2>3
<1>14. \A i \in DOMAIN c : c[i].id \notin Live' /\
         \E q : Latest(calls', c[i].id, q) /\ calls'[q].fate = c[i].state
  <2> TAKE i \in DOMAIN c
  <2>1. CASE i \in 1..m
    <3>1. PICK q \in DOMAIN calls :
            Latest(calls, terminal[i].id, q) /\ calls[q].fate = terminal[i].state
      BY <1>4, <2>1 DEF KeysInv, Remembered
    <3>2. terminal[i].id \in Keys /\ terminal[i].id \notin Live /\ c[i] = terminal[i]
      <4>1. terminal[i] \in MapOf(Keys)
        BY <1>4, <2>1, ElementOfSeq
      <4>. QED
        BY <1>9, <1>11, <2>1, <4>1 DEF MapOf
    <3>3. q \notin T
      BY <1>7, <3>1, <3>2 DEF Latest
    <3>. QED
      BY <1>1, <1>6, <3>1, <3>2, <3>3
  <2>2. CASE \E j \in 1..n : i = m + j
    BY <1>1, <1>3, <1>8, <1>12, <2>2
  <2>. QED
    BY <1>10, <2>1, <2>2
<1>15. Distinct(Trim(c)) /\ Within(Trim(c), c)
  BY <1>9, <1>13, TrimWithin
<1>16. \A j \in Live' : Latest(calls', j, entries'[j])
  BY <1>1, <1>4, <1>6 DEF KeysInv, Latest
<1>17. \A i \in DOMAIN terminal' : Remembered(terminal[i])'
  <2> TAKE i \in DOMAIN terminal'
  <2>1. PICK j \in DOMAIN c : terminal'[i] = c[j]
    BY <1>2, <1>15 DEF Within
  <2>. QED
    BY <1>14, <2>1 DEF Remembered, Latest
<1>. QED
  BY <1>2, <1>15, <1>16, <1>17 DEF KeysInv, Distinct

(* The terminal record of a composite id is what its latest call came to,  *)
(* so claimCall and resolveCall answer truthfully too, and an id that is   *)
(* live again has none.                                                    *)
THEOREM RecordsAreLatest == Spec => []TerminalIsLatest
<1>1. Init => KeysInv
  BY DEF Init, KeysInv, Distinct, Live
<1>2. IInv /\ KeysInv /\ [Next]_vars => KeysInv'
  <2> SUFFICES ASSUME IInv, KeysInv, [Next]_vars PROVE KeysInv'
    OBVIOUS
  <2>1. CASE UNCHANGED <<entries, terminal, calls>>
    BY <2>1 DEF KeysInv, Remembered, Live
  <2>2. CASE Create
    <3>1. ASSUME NEW k \in Keys, CreateRefused(k) PROVE KeysInv'
      <4>1. /\ terminal' = Without(terminal, k) /\ entries' = entries /\ calls' = calls
        BY <3>1 DEF CreateRefused
      <4>2. Distinct(terminal') /\ Within(terminal', terminal)
        BY <4>1, WithoutWithin DEF IInv, TypeOK, KeysInv
      <4>3. \A i \in DOMAIN terminal' : Remembered(terminal[i])'
        BY <4>1, <4>2 DEF Within, KeysInv, Remembered, Live
      <4>. QED
        BY <4>1, <4>2, <4>3 DEF KeysInv, Live, Distinct
    <3>. QED
      BY <2>2, <3>1, ParkedIsLatest, BornCancelledIsLatest DEF Create
  <2>3. CASE \E w \in Waiters, k \in Keys : AwaitCall(w, k)
    BY <2>1, <2>3 DEF AwaitCall
  <2>4. CASE \/ \E p \in Publics, by \in Profiles \cup {AnyProfile} : Claim(p, by)
             \/ \E k \in Keys : TakeByKey(k)
             \/ \E p \in Publics : Expire(p)
             \/ \E s \in Signals : Abort(s)
             \/ \E inScope \in Scopes : CancelScope(inScope)
    BY <2>4, SettlingStep, SettleIsLatest
  <2>5. CASE UNCHANGED vars
    BY <2>1, <2>5 DEF vars, brokerVars
  <2>. QED
    BY <2>2, <2>3, <2>4, <2>5 DEF Next
<1>3. KeysInv => TerminalIsLatest
  BY DEF KeysInv, Remembered, Latest, TerminalIsLatest
<1>. QED
  BY <1>1, <1>2, <1>3, Invariance, PTL DEF Spec

===============================================================================
