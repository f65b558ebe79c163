--------------------------- MODULE HttpExchangeProofs ---------------------------
(***************************************************************************)
(* Proofs about the exchanges on the three HTTP surfaces: for any number   *)
(* of exchanges, events and tool calls.                                    *)
(***************************************************************************)
EXTENDS HttpExchange, SequenceTheorems, FiniteSetTheorems, WellFoundedInduction, TLAPS

-------------------------------------------------------------------------------
(* Numbers and sequences.                                                  *)

(* Every set of natural numbers has a least element.                       *)
LEMMA LeastNumber ==
  ASSUME NEW T, T \subseteq Nat, T # {}
  PROVE  \E m \in T : \A k \in T : m <= k
<1> DEFINE R == {ss \in Nat \X Nat : ss[1] < ss[2]}
<1>1. IsWellFoundedOn(R, Nat)
  BY NatLessThanWellFounded DEF OpToRel
<1>2. \A k, m \in Nat : <<k, m>> \in R <=> k < m
  OBVIOUS
<1> HIDE DEF R
<1>3. PICK m \in T : \A k \in T : ~ (<<k, m>> \in R)
  BY <1>1, WFMin
<1>4. ASSUME NEW k \in T PROVE m <= k
  <2>1. k \in Nat /\ m \in Nat /\ ~(<<k, m>> \in R)
    BY <1>3
  <2>. QED
    BY <1>2, <2>1
<1>. QED
  BY <1>4

(* Induction, over a set of natural numbers.                               *)
LEMMA Induction ==
  ASSUME NEW T, T \subseteq Nat, 0 \in T, \A n \in T : n + 1 \in T
  PROVE  T = Nat
<1>1. SUFFICES ASSUME Nat \ T # {} PROVE FALSE
  OBVIOUS
<1>2. PICK m \in Nat \ T : \A k \in Nat \ T : m <= k
  BY <1>1, LeastNumber
<1>3. m # 0 /\ m - 1 \in Nat /\ m - 1 \in T
  BY <1>2
<1>. QED
  BY <1>2, <1>3

(* FlattenSeq is a recursive function, and there is one: it concatenates   *)
(* one sequence after the other.                                           *)
Flattens(g, s, n) ==
  \A i \in 1..n : g[i] = IF i = 1 THEN s[i] ELSE g[i-1] \o s[i]

LEMMA FlattenExists ==
  ASSUME NEW S, NEW s \in Seq(Seq(S)), NEW N \in Nat, N = Len(s)
  PROVE  \E g \in [1..N -> Seq(S)] : Flattens(g, s, N)
<1> DEFINE T == {n \in Nat : n <= N => \E g \in [1..n -> Seq(S)] : Flattens(g, s, n)}
<1>1. 0 \in T
  <2>1. Flattens([i \in 1..0 |-> <<>>], s, 0) /\ [i \in 1..0 |-> <<>>] \in [1..0 -> Seq(S)]
    BY DEF Flattens
  <2>. QED
    BY <2>1
<1>2. ASSUME NEW n \in T PROVE n + 1 \in T
  <2>1. SUFFICES ASSUME n + 1 <= N
                 PROVE  \E g \in [1..(n+1) -> Seq(S)] : Flattens(g, s, n+1)
    OBVIOUS
  <2>2. PICK g \in [1..n -> Seq(S)] : Flattens(g, s, n)
    BY <2>1
  <2>3. n \in Nat /\ s[n+1] \in Seq(S)
    BY <2>1, ElementOfSeq
  <2> DEFINE last == IF n = 0 THEN s[1] ELSE g[n] \o s[n+1]
             h == [i \in 1..(n+1) |-> IF i <= n THEN g[i] ELSE last]
  <2>4. last \in Seq(S)
    BY <2>2, <2>3, ConcatProperties
  <2>5. h \in [1..(n+1) -> Seq(S)]
    BY <2>2, <2>3, <2>4
  <2>6. ASSUME NEW i \in 1..(n+1) PROVE h[i] = IF i = 1 THEN s[i] ELSE h[i-1] \o s[i]
    <3>1. CASE i <= n
      <4>1. i \in 1..n /\ h[i] = g[i] /\ (i # 1 => i - 1 \in 1..(n+1) /\ h[i-1] = g[i-1])
        BY <2>3, <3>1
      <4>. QED
        BY <2>2, <4>1 DEF Flattens
    <3>2. CASE i = n + 1
      <4>1. h[i] = last /\ (i # 1 => i - 1 = n /\ n \in 1..(n+1) /\ h[n] = g[n])
        BY <2>3, <3>2
      <4>. QED
        BY <2>3, <3>2, <4>1
    <3>. QED
      BY <2>3, <3>1, <3>2
  <2>. QED
    BY <2>5, <2>6 DEF Flattens
<1> HIDE DEF T
<1>3. T = Nat
  BY <1>1, <1>2, Induction DEF T
<1>. QED
  BY <1>3 DEF T

LEMMA FlattenIs ==
  ASSUME NEW S, NEW s \in Seq(Seq(S)), NEW N \in Nat, N = Len(s), N # 0
  PROVE  \E g : /\ FlattenSeq(s) = g[N]
                /\ Flattens(g, s, N)
<1> DEFINE F(g) == g = [i \in 1..N |-> IF i = 1 THEN s[i] ELSE g[i-1] \o s[i]]
<1>1. PICK g \in [1..N -> Seq(S)] : Flattens(g, s, N)
  BY FlattenExists
<1>2. F(g)
  BY <1>1 DEF Flattens
<1>3. F(CHOOSE f : F(f))
  BY <1>2
<1>4. FlattenSeq(s) = (CHOOSE f : F(f))[N]
  BY DEF FlattenSeq
<1>5. ASSUME NEW f, F(f) PROVE Flattens(f, s, N)
  BY <1>5 DEF Flattens
<1>. QED
  BY <1>3, <1>4, <1>5

-------------------------------------------------------------------------------
(* The types.                                                              *)
CallRecs == [index : Calls, item : Nat, pieces : Nat]
Frames == {<<k>> : k \in {"error", "finish", "done", "stop"}}
            \cup {<<k, n>> : k \in {"text", "open", "shut"}, n \in Nat}
            \cup {<<"call", c, n>> : c \in Calls, n \in Nat}

ExchangeRecs ==
        [phase : {"idle", "asking", "running", "replied", "closed"},
         surface : {"chat", "responses", "anthropic"},
         stream : BOOLEAN, gone : BOOLEAN, late : BOOLEAN, aborted : BOOLEAN,
         cancelled : BOOLEAN, completed : BOOLEAN,
         calls : Seq(CallRecs), items : Nat, open : Nat \cup {NoItem},
         frames : Seq(Frames),
         provider : {"none", "running", "completed", "failed", "threw", "ended", "left"}]

(* A buffered call is found by its index.                                  *)
Distinct(calls) ==
  \A i, j \in 1..Len(calls) : calls[i].index = calls[j].index => i = j

-------------------------------------------------------------------------------
(* Sorting the calls by index: a permutation.                              *)
LEMMA Ranked ==
  ASSUME NEW calls \in Seq(CallRecs), Distinct(calls), NEW n \in Nat, n = Len(calls)
  PROVE  \A k \in 1..n : \E i \in 1..n : Rank(calls, i) = k - 1
<1> DEFINE Below(i) == {j \in 1..n : calls[j].index < calls[i].index}
           R == [i \in 1..n |-> Rank(calls, i)]
<1>1. \A i \in 1..n : calls[i].index \in Nat
  <2>1. \A i \in 1..n : calls[i] \in CallRecs
    BY ElementOfSeq
  <2>. QED
    BY <2>1, CallsAssumption DEF CallRecs
<1>2. IsFiniteSet(1..n) /\ Cardinality(1..n) = n
  <2>1. 1 \in Int /\ n \in Int /\ (1 > n => n = 0)
    OBVIOUS
  <2>2. IsFiniteSet(1..n) /\ Cardinality(1..n) = IF 1 > n THEN 0 ELSE n - 1 + 1
    BY <2>1, FS_Interval
  <2>. QED
    BY <2>1, <2>2
<1>3. ASSUME NEW i \in 1..n
      PROVE  /\ Below(i) \in SUBSET (1..n) /\ IsFiniteSet(Below(i))
             /\ Rank(calls, i) = Cardinality(Below(i)) /\ Rank(calls, i) \in Nat
  <2>1. Below(i) \in SUBSET (1..n) /\ Rank(calls, i) = Cardinality(Below(i))
    BY DEF Rank
  <2> HIDE DEF Below
  <2>2. IsFiniteSet(Below(i))
    BY <1>2, <2>1, FS_Subset
  <2>. QED
    BY <2>1, <2>2, FS_CardinalityType
<1>4. ASSUME NEW i \in 1..n, NEW j \in 1..n, calls[i].index < calls[j].index
      PROVE  Rank(calls, i) < Rank(calls, j)
  <2>1. i \notin Below(i) /\ Below(i) \cup {i} \in SUBSET Below(j)
    BY <1>1, <1>4
  <2> HIDE DEF Below
  <2>2. Cardinality(Below(i) \cup {i}) = Cardinality(Below(i)) + 1
    BY <1>3, <2>1, FS_AddElement
  <2>3. Cardinality(Below(i) \cup {i}) <= Cardinality(Below(j))
    BY <1>3, <2>1, FS_Subset
  <2>. QED
    BY <1>3, <2>2, <2>3
<1>5. ASSUME NEW i \in 1..n PROVE Rank(calls, i) \in 0..(n - 1)
  <2>1. i \notin Below(i) /\ Below(i) \cup {i} \in SUBSET (1..n)
    BY <1>1
  <2> HIDE DEF Below
  <2>2. Cardinality(Below(i) \cup {i}) = Cardinality(Below(i)) + 1
    BY <1>3, <2>1, FS_AddElement
  <2>3. Cardinality(Below(i) \cup {i}) <= n
    BY <1>2, <2>1, FS_Subset
  <2>. QED
    BY <1>3, <2>2, <2>3
<1>6. ASSUME NEW i \in 1..n, NEW j \in 1..n, Rank(calls, i) = Rank(calls, j)
      PROVE  i = j
  <2>1. calls[i].index = calls[j].index
    <3>1. calls[i].index \in Nat /\ calls[j].index \in Nat /\ Rank(calls, i) \in Nat
      BY <1>1, <1>3
    <3>2. ~(calls[i].index < calls[j].index) /\ ~(calls[j].index < calls[i].index)
      BY <1>4, <1>6, <3>1
    <3>. QED
      BY <3>1, <3>2
  <2>. QED
    BY <2>1 DEF Distinct
<1>7. R \in Injection(1..n, 0..(n - 1))
  BY <1>5, <1>6 DEF Injection, IsInjective
<1>8. IsFiniteSet(0..(n - 1)) /\ Cardinality(0..(n - 1)) = n
  <2> DEFINE m == n - 1
  <2>1. 0 \in Int /\ m \in Int /\ (0 > m => n = 0) /\ m - 0 + 1 = n
    OBVIOUS
  <2> HIDE DEF m
  <2>2. IsFiniteSet(0..m) /\ Cardinality(0..m) = IF 0 > m THEN 0 ELSE m - 0 + 1
    BY <2>1, FS_Interval
  <2>. QED
    BY <2>1, <2>2 DEF m
<1> HIDE DEF R
<1>9. R \in Surjection(1..n, 0..(n - 1))
  BY <1>2, <1>7, <1>8, FS_Injection
<1>10. ASSUME NEW k \in 1..n PROVE \E i \in 1..n : Rank(calls, i) = k - 1
  <2>1. k - 1 \in 0..(n - 1)
    OBVIOUS
  <2>2. PICK i \in 1..n : R[i] = k - 1
    BY <1>9, <2>1 DEF Surjection
  <2>. QED
    BY <2>2 DEF R
<1>. QED
  BY <1>10

LEMMA Sorted ==
  ASSUME NEW calls \in Seq(CallRecs), Distinct(calls), NEW n \in Nat, n = Len(calls)
  PROVE  /\ ByIndex(calls) \in Seq(CallRecs) /\ Len(ByIndex(calls)) = n
         /\ \E p \in [1..n -> 1..n] :
              /\ \A k \in 1..n : ByIndex(calls)[k] = calls[p[k]]
              /\ \A i \in 1..n : \E k \in 1..n : p[k] = i
<1> DEFINE P == [k \in 1..n |-> CHOOSE i \in 1..n : Rank(calls, i) = k - 1]
<1>1. \A k \in 1..n : P[k] \in 1..n /\ Rank(calls, P[k]) = k - 1
  BY Ranked
<1>2. ByIndex(calls) = [k \in 1..n |-> calls[P[k]]]
  BY DEF ByIndex
<1>3. P \in [1..n -> 1..n]
  BY <1>1
<1> HIDE DEF P
<1>4. \A k \in 1..n : calls[P[k]] \in CallRecs
  BY <1>1, ElementOfSeq
<1>5. ByIndex(calls) \in Seq(CallRecs) /\ Len(ByIndex(calls)) = n
  BY <1>2, <1>4
<1>6. P \in Injection(1..n, 1..n)
  <2>1. ASSUME NEW k \in 1..n, NEW l \in 1..n, P[k] = P[l] PROVE k = l
    BY <1>1, <2>1
  <2>. QED
    BY <1>3, <2>1 DEF Injection, IsInjective
<1>7. P \in Surjection(1..n, 1..n)
  <2>1. IsFiniteSet(1..n)
    BY FS_Interval
  <2>. QED
    BY <1>6, <2>1, FS_Injection
<1>. QED
  BY <1>2, <1>3, <1>5, <1>7 DEF Surjection

-------------------------------------------------------------------------------
(* What the frames of a reply say.                                         *)
PlacesIn(f, k) == {i \in 1..Len(f) : f[i][1] = k}
ItemsOf(f, k)  == {f[i][2] : i \in PlacesIn(f, k)}

(* Frames that end nothing yet: the items opened and shut, each once, the  *)
(* calls shown and how many, and all text within its item.                 *)
Laid(f, q) ==
  /\ f \in Seq(Frames)
  /\ \A i \in 1..Len(f) : f[i][1] \in {"open", "text", "shut", "call"}
  /\ ItemsOf(f, "open") = q.opened /\ ItemsOf(f, "shut") = q.shut
  /\ IsFiniteSet(q.opened) /\ IsFiniteSet(q.shut)
  /\ Cardinality(PlacesIn(f, "open")) = Cardinality(q.opened)
  /\ Cardinality(PlacesIn(f, "shut")) = Cardinality(q.shut)
  /\ ItemsOf(f, "call") = q.told /\ Cardinality(PlacesIn(f, "call")) = q.count
  /\ \A i \in PlacesIn(f, "call") : f[i][3] \in {0, 2}
  /\ \A i \in PlacesIn(f, "text") :
       /\ \E j \in PlacesIn(f, "open") : j < i /\ f[j][2] = f[i][2]
       /\ f[i][2] \in q.shut => \E j \in PlacesIn(f, "shut") : j > i /\ f[j][2] = f[i][2]

State(opened, shut, told, count) ==
  [opened |-> opened, shut |-> shut, told |-> told, count |-> count]

(* What one more frame changes, for the frames of each kind.               *)
Kinds == {"open", "text", "shut", "call"}
OneMore(f, g, fr, n) ==
  /\ g \in Seq(Frames) /\ Len(g) = n + 1 /\ g[n + 1] = fr
  /\ \A i \in 1..n : g[i] = f[i]
  /\ \A k \in Kinds :
       /\ PlacesIn(f, k) \subseteq 1..n
       /\ fr[1] = k => /\ PlacesIn(g, k) = PlacesIn(f, k) \cup {n + 1}
                       /\ ItemsOf(g, k) = ItemsOf(f, k) \cup {fr[2]}
                       /\ Cardinality(PlacesIn(g, k)) = Cardinality(PlacesIn(f, k)) + 1
       /\ fr[1] # k => PlacesIn(g, k) = PlacesIn(f, k) /\ ItemsOf(g, k) = ItemsOf(f, k)

LEMMA Appended ==
  ASSUME NEW f \in Seq(Frames), NEW fr \in Frames
  PROVE  OneMore(f, Append(f, fr), fr, Len(f))
<1> DEFINE g == Append(f, fr)
           n == Len(f)
<1>. n \in Nat
  BY LenProperties
<1>1. /\ g \in Seq(Frames) /\ Len(g) = n + 1 /\ g[n + 1] = fr
      /\ \A i \in 1..n : g[i] = f[i]
  BY AppendProperties
<1>2. SUFFICES OneMore(f, g, fr, n)
  OBVIOUS
<1>3. n = Len(f)
  OBVIOUS
<1> HIDE DEF g, n
<1>4. \A i \in 1..(n + 1) : i \in 1..n \/ i = n + 1
  OBVIOUS
<1>0. ASSUME NEW k \in Kinds
      PROVE  /\ PlacesIn(f, k) \subseteq 1..n
             /\ fr[1] = k => /\ PlacesIn(g, k) = PlacesIn(f, k) \cup {n + 1}
                             /\ ItemsOf(g, k) = ItemsOf(f, k) \cup {fr[2]}
                             /\ Cardinality(PlacesIn(g, k)) = Cardinality(PlacesIn(f, k)) + 1
             /\ fr[1] # k => PlacesIn(g, k) = PlacesIn(f, k) /\ ItemsOf(g, k) = ItemsOf(f, k)
  <2>1. n + 1 \notin PlacesIn(f, k) /\ PlacesIn(f, k) \in SUBSET (1..n)
    BY <1>3 DEF PlacesIn
  <2>2. IsFiniteSet(PlacesIn(f, k)) /\ Cardinality(PlacesIn(f, k)) \in Nat
    <3>1. IsFiniteSet(1..n)
      BY FS_Interval
    <3>. QED
      BY <2>1, <3>1, FS_Subset, FS_CardinalityType
  <2>3. \A i \in PlacesIn(f, k) : g[i] = f[i]
    BY <1>1, <2>1
  <2>4. CASE fr[1] = k
    <3>1. PlacesIn(g, k) = PlacesIn(f, k) \cup {n + 1}
      BY <1>1, <1>3, <1>4, <2>4 DEF PlacesIn
    <3>2. ItemsOf(g, k) = ItemsOf(f, k) \cup {fr[2]}
      <4>1. ItemsOf(f, k) \subseteq ItemsOf(g, k)
        BY <2>3, <3>1 DEF ItemsOf
      <4>2. fr[2] \in ItemsOf(g, k)
        BY <1>1, <3>1 DEF ItemsOf
      <4>3. ASSUME NEW i \in PlacesIn(g, k) PROVE g[i][2] \in ItemsOf(f, k) \cup {fr[2]}
        <5>1. CASE i \in PlacesIn(f, k)
          BY <2>3, <5>1 DEF ItemsOf
        <5>2. CASE i = n + 1
          BY <1>1, <5>2
        <5>. QED
          BY <3>1, <5>1, <5>2
      <4>. QED
        BY <4>1, <4>2, <4>3 DEF ItemsOf
    <3>3. Cardinality(PlacesIn(g, k)) = Cardinality(PlacesIn(f, k)) + 1
      BY <2>1, <2>2, <3>1, FS_AddElement
    <3>. QED
      BY <2>1, <2>4, <3>1, <3>2, <3>3
  <2>5. CASE fr[1] # k
    <3>1. PlacesIn(g, k) = PlacesIn(f, k)
      BY <1>1, <1>3, <1>4, <2>5 DEF PlacesIn
    <3>2. ItemsOf(g, k) = ItemsOf(f, k)
      BY <2>3, <3>1 DEF ItemsOf
    <3>. QED
      BY <2>1, <2>5, <3>1, <3>2
  <2>. QED
    BY <2>4, <2>5
<1>. QED
  BY <1>0, <1>1, <1>2 DEF OneMore

LEMMA Grown ==
  ASSUME NEW S, IsFiniteSet(S), NEW e, e \notin S
  PROVE  IsFiniteSet(S \cup {e}) /\ Cardinality(S \cup {e}) = Cardinality(S) + 1
BY FS_AddElement

(* One more frame of each kind.                                            *)
LEMMA LaysOpen ==
  ASSUME NEW f, NEW q, Laid(f, q), NEW m \in Nat, m \notin q.opened
  PROVE  Laid(Append(f, <<"open", m>>), State(q.opened \cup {m}, q.shut, q.told, q.count))
<1> DEFINE fr == <<"open", m>>
           g == Append(f, fr)
           n == Len(f)
<1>1. f \in Seq(Frames) /\ n \in Nat /\ fr \in Frames /\ fr[1] = "open" /\ fr[2] = m
  BY LenProperties DEF Laid, Frames
<1>8. n = Len(f) /\ g = Append(f, fr)
  OBVIOUS
<1> HIDE DEF fr, g, n
<1>2. /\ g \in Seq(Frames) /\ Len(g) = n + 1 /\ g[n + 1] = fr
      /\ \A i \in 1..n : g[i] = f[i]
      /\ OneMore(f, g, fr, n)
  <2>1. OneMore(f, g, fr, n)
    BY <1>1, <1>8, Appended
  <2>. QED
    BY <2>1 DEF OneMore
<1>3. \A k \in Kinds : \A i \in PlacesIn(f, k) : i \in 1..n /\ g[i] = f[i]
  BY <1>2 DEF OneMore
<1>4. IsFiniteSet(q.opened \cup {m}) /\ Cardinality(q.opened \cup {m}) = Cardinality(q.opened) + 1
  BY Grown DEF Laid
<1>5. \A i \in 1..Len(g) : g[i][1] \in {"open", "text", "shut", "call"}
  <2>1. \A i \in 1..Len(g) : i \in 1..n \/ g[i] = fr
    BY <1>1, <1>2
  <2>. QED
    BY <1>1, <1>2, <1>8, <2>1 DEF Laid
<1>6. \A i \in PlacesIn(g, "call") : g[i][3] \in {0, 2}
  BY <1>1, <1>2, <1>3 DEF Laid, OneMore, Kinds
<1>7. \A i \in PlacesIn(g, "text") :
        /\ \E j \in PlacesIn(g, "open") : j < i /\ g[j][2] = g[i][2]
        /\ g[i][2] \in State(q.opened \cup {m}, q.shut, q.told, q.count).shut =>
             \E j \in PlacesIn(g, "shut") : j > i /\ g[j][2] = g[i][2]
  <2> DEFINE S == State(q.opened \cup {m}, q.shut, q.told, q.count).shut
  <2>1. /\ PlacesIn(g, "text") = PlacesIn(f, "text") /\ PlacesIn(f, "open") \subseteq PlacesIn(g, "open")
        /\ PlacesIn(g, "shut") = PlacesIn(f, "shut") /\ S = q.shut
    BY <1>1, <1>2 DEF State, OneMore, Kinds
  <2>2. \A k \in {"open", "text", "shut"} : \A i \in PlacesIn(f, k) : g[i] = f[i]
    BY <1>3 DEF Kinds
  <2> HIDE DEF S
  <2>. QED
    BY <2>1, <2>2 DEF Laid, S
<1>. QED
  BY <1>1, <1>2, <1>4, <1>5, <1>6, <1>7 DEF Laid, State, OneMore, Kinds, g, fr

LEMMA LaysShut ==
  ASSUME NEW f, NEW q, Laid(f, q), NEW m \in Nat, m \notin q.shut
  PROVE  Laid(Append(f, <<"shut", m>>), State(q.opened, q.shut \cup {m}, q.told, q.count))
<1> DEFINE fr == <<"shut", m>>
           g == Append(f, fr)
           n == Len(f)
<1>1. f \in Seq(Frames) /\ n \in Nat /\ fr \in Frames /\ fr[1] = "shut" /\ fr[2] = m
  BY LenProperties DEF Laid, Frames
<1>8. n = Len(f) /\ g = Append(f, fr)
  OBVIOUS
<1> HIDE DEF fr, g, n
<1>2. /\ g \in Seq(Frames) /\ Len(g) = n + 1 /\ g[n + 1] = fr
      /\ \A i \in 1..n : g[i] = f[i]
      /\ OneMore(f, g, fr, n)
  <2>1. OneMore(f, g, fr, n)
    BY <1>1, <1>8, Appended
  <2>. QED
    BY <2>1 DEF OneMore
<1>3. \A k \in Kinds : \A i \in PlacesIn(f, k) : i \in 1..n /\ g[i] = f[i]
  BY <1>2 DEF OneMore
<1>4. IsFiniteSet(q.shut \cup {m}) /\ Cardinality(q.shut \cup {m}) = Cardinality(q.shut) + 1
  BY Grown DEF Laid
<1>5. \A i \in 1..Len(g) : g[i][1] \in {"open", "text", "shut", "call"}
  <2>1. \A i \in 1..Len(g) : i \in 1..n \/ g[i] = fr
    BY <1>1, <1>2
  <2>. QED
    BY <1>1, <1>2, <1>8, <2>1 DEF Laid
<1>6. \A i \in PlacesIn(g, "call") : g[i][3] \in {0, 2}
  BY <1>1, <1>2, <1>3 DEF Laid, OneMore, Kinds
<1>7. \A i \in PlacesIn(g, "text") :
        /\ \E j \in PlacesIn(g, "open") : j < i /\ g[j][2] = g[i][2]
        /\ g[i][2] \in State(q.opened, q.shut \cup {m}, q.told, q.count).shut =>
             \E j \in PlacesIn(g, "shut") : j > i /\ g[j][2] = g[i][2]
  <2> DEFINE S == State(q.opened, q.shut \cup {m}, q.told, q.count).shut
  <2>1. /\ PlacesIn(g, "text") = PlacesIn(f, "text") /\ PlacesIn(f, "open") = PlacesIn(g, "open")
        /\ PlacesIn(g, "shut") = PlacesIn(f, "shut") \cup {n + 1} /\ S = q.shut \cup {m}
    BY <1>1, <1>2 DEF State, OneMore, Kinds
  <2>2. \A k \in {"open", "text", "shut"} : \A i \in PlacesIn(f, k) : g[i] = f[i]
    BY <1>3 DEF Kinds
  <2> HIDE DEF S
  <2>3. ASSUME NEW i \in PlacesIn(g, "text")
        PROVE  \E j \in PlacesIn(g, "open") : j < i /\ g[j][2] = g[i][2]
    BY <2>1, <2>2 DEF Laid
  <2>4. ASSUME NEW i \in PlacesIn(g, "text"), g[i][2] \in S
        PROVE  \E j \in PlacesIn(g, "shut") : j > i /\ g[j][2] = g[i][2]
    <3>1. CASE g[i][2] = m
      <4>1. i \in 1..n /\ n + 1 > i /\ g[n + 1][2] = m
        BY <1>1, <1>2, <1>3, <2>1 DEF OneMore, Kinds
      <4>. QED
        BY <2>1, <3>1, <4>1
    <3>2. CASE g[i][2] # m
      BY <2>1, <2>2, <2>4, <3>2 DEF Laid
    <3>. QED
      BY <3>1, <3>2
  <2>. QED
    BY <2>3, <2>4 DEF S
<1>. QED
  BY <1>1, <1>2, <1>4, <1>5, <1>6, <1>7 DEF Laid, State, OneMore, Kinds, g, fr

LEMMA LaysText ==
  ASSUME NEW f, NEW q, Laid(f, q), NEW m \in Nat, m \in q.opened, m \notin q.shut
  PROVE  Laid(Append(f, <<"text", m>>), State(q.opened, q.shut, q.told, q.count))
<1> DEFINE fr == <<"text", m>>
           g == Append(f, fr)
           n == Len(f)
<1>1. f \in Seq(Frames) /\ n \in Nat /\ fr \in Frames /\ fr[1] = "text" /\ fr[2] = m
  BY LenProperties DEF Laid, Frames
<1>8. n = Len(f) /\ g = Append(f, fr)
  OBVIOUS
<1> HIDE DEF fr, g, n
<1>2. /\ g \in Seq(Frames) /\ Len(g) = n + 1 /\ g[n + 1] = fr
      /\ \A i \in 1..n : g[i] = f[i]
      /\ OneMore(f, g, fr, n)
  <2>1. OneMore(f, g, fr, n)
    BY <1>1, <1>8, Appended
  <2>. QED
    BY <2>1 DEF OneMore
<1>3. \A k \in Kinds : \A i \in PlacesIn(f, k) : i \in 1..n /\ g[i] = f[i]
  BY <1>2 DEF OneMore
<1>5. \A i \in 1..Len(g) : g[i][1] \in {"open", "text", "shut", "call"}
  <2>1. \A i \in 1..Len(g) : i \in 1..n \/ g[i] = fr
    BY <1>1, <1>2
  <2>. QED
    BY <1>1, <1>2, <1>8, <2>1 DEF Laid
<1>6. \A i \in PlacesIn(g, "call") : g[i][3] \in {0, 2}
  BY <1>1, <1>2, <1>3 DEF Laid, OneMore, Kinds
<1>7. \A i \in PlacesIn(g, "text") :
        /\ \E j \in PlacesIn(g, "open") : j < i /\ g[j][2] = g[i][2]
        /\ g[i][2] \in State(q.opened, q.shut, q.told, q.count).shut =>
             \E j \in PlacesIn(g, "shut") : j > i /\ g[j][2] = g[i][2]
  <2> DEFINE S == State(q.opened, q.shut, q.told, q.count).shut
  <2>1. /\ PlacesIn(g, "text") = PlacesIn(f, "text") \cup {n + 1}
        /\ PlacesIn(f, "open") = PlacesIn(g, "open")
        /\ PlacesIn(g, "shut") = PlacesIn(f, "shut") /\ S = q.shut
    BY <1>1, <1>2 DEF State, OneMore, Kinds
  <2>2. \A k \in {"open", "text", "shut"} : \A i \in PlacesIn(f, k) : g[i] = f[i]
    BY <1>3 DEF Kinds
  <2> HIDE DEF S
  <2>3. ASSUME NEW i \in PlacesIn(g, "text")
        PROVE  \E j \in PlacesIn(g, "open") : j < i /\ g[j][2] = g[i][2]
    <3>1. CASE i = n + 1
      <4>1. PICK j \in PlacesIn(f, "open") : f[j][2] = m
        BY DEF Laid, ItemsOf
      <4>2. j \in 1..n /\ j < n + 1 /\ g[j][2] = m /\ g[n + 1][2] = m
        BY <1>1, <1>2, <1>3, <4>1 DEF Kinds
      <4>. QED
        BY <2>1, <3>1, <4>1, <4>2
    <3>2. CASE i \in PlacesIn(f, "text")
      BY <2>1, <2>2, <3>2 DEF Laid
    <3>. QED
      BY <2>1, <3>1, <3>2
  <2>4. ASSUME NEW i \in PlacesIn(g, "text"), g[i][2] \in S
        PROVE  \E j \in PlacesIn(g, "shut") : j > i /\ g[j][2] = g[i][2]
    <3>1. i # n + 1
      BY <1>1, <1>2, <2>1, <2>4
    <3>. QED
      BY <2>1, <2>2, <2>4, <3>1 DEF Laid
  <2>. QED
    BY <2>3, <2>4 DEF S
<1>. QED
  BY <1>1, <1>2, <1>5, <1>6, <1>7 DEF Laid, State, OneMore, Kinds, g, fr

LEMMA LaysCall ==
  ASSUME NEW f, NEW q, Laid(f, q), NEW c \in Calls, NEW pieces \in {0, 2}
  PROVE  Laid(Append(f, <<"call", c, pieces>>), State(q.opened, q.shut, q.told \cup {c}, q.count + 1))
<1> DEFINE fr == <<"call", c, pieces>>
           g == Append(f, fr)
           n == Len(f)
<1>1. f \in Seq(Frames) /\ n \in Nat /\ fr \in Frames /\ fr[1] = "call" /\ fr[2] = c
  BY LenProperties DEF Laid, Frames
<1>0. fr[3] = pieces
  OBVIOUS
<1>8. n = Len(f) /\ g = Append(f, fr)
  OBVIOUS
<1> HIDE DEF fr, g, n
<1>2. /\ g \in Seq(Frames) /\ Len(g) = n + 1 /\ g[n + 1] = fr
      /\ \A i \in 1..n : g[i] = f[i]
      /\ OneMore(f, g, fr, n)
  <2>1. OneMore(f, g, fr, n)
    BY <1>1, <1>8, Appended
  <2>. QED
    BY <2>1 DEF OneMore
<1>3. \A k \in Kinds : \A i \in PlacesIn(f, k) : i \in 1..n /\ g[i] = f[i]
  BY <1>2 DEF OneMore
<1>5. \A i \in 1..Len(g) : g[i][1] \in {"open", "text", "shut", "call"}
  <2>1. \A i \in 1..Len(g) : i \in 1..n \/ g[i] = fr
    BY <1>1, <1>2
  <2>. QED
    BY <1>1, <1>2, <1>8, <2>1 DEF Laid
<1>6. \A i \in PlacesIn(g, "call") : g[i][3] \in {0, 2}
  BY <1>1, <1>2, <1>3, <1>0 DEF Laid, OneMore, Kinds
<1>7. \A i \in PlacesIn(g, "text") :
        /\ \E j \in PlacesIn(g, "open") : j < i /\ g[j][2] = g[i][2]
        /\ g[i][2] \in State(q.opened, q.shut, q.told \cup {c}, q.count + 1).shut =>
             \E j \in PlacesIn(g, "shut") : j > i /\ g[j][2] = g[i][2]
  <2> DEFINE S == State(q.opened, q.shut, q.told \cup {c}, q.count + 1).shut
  <2>1. /\ PlacesIn(g, "text") = PlacesIn(f, "text") /\ PlacesIn(f, "open") \subseteq PlacesIn(g, "open")
        /\ PlacesIn(g, "shut") = PlacesIn(f, "shut") /\ S = q.shut
    BY <1>1, <1>2 DEF State, OneMore, Kinds
  <2>2. \A k \in {"open", "text", "shut"} : \A i \in PlacesIn(f, k) : g[i] = f[i]
    BY <1>3 DEF Kinds
  <2> HIDE DEF S
  <2>. QED
    BY <2>1, <2>2 DEF Laid, S
<1>. QED
  BY <1>1, <1>2, <1>5, <1>6, <1>7 DEF Laid, State, OneMore, Kinds, g, fr

-------------------------------------------------------------------------------
(* The inductive invariant.                                                *)

(* Frames that do not end a reply, and the calls among them: each whole.   *)
Listed(f, told, count) ==
  /\ f \in Seq(Frames)
  /\ \A i \in 1..Len(f) : f[i][1] \in Kinds
  /\ ItemsOf(f, "call") = told /\ Cardinality(PlacesIn(f, "call")) = count
  /\ \A i \in PlacesIn(f, "call") : f[i][3] \in {0, 2}

Indices(calls) == {calls[i].index : i \in 1..Len(calls)}
TextItems(e) ==
  {m \in 0..(e.items - 1) : \A i \in 1..Len(e.calls) : e.calls[i].item # m}

(* Every call has an item of its own, and the text being written one that  *)
(* is no call's.                                                           *)
Placed(e) ==
  /\ \A i \in 1..Len(e.calls) : e.calls[i].item < e.items
  /\ \A i, j \in 1..Len(e.calls) : e.calls[i].item = e.calls[j].item => i = j
  /\ e.open # NoItem => e.open \in TextItems(e)

Flow(e) ==
  /\ ~e.completed /\ e.aborted = e.cancelled
  /\ e.late => e.gone
  /\ e.cancelled <=> e.gone /\ ~e.late
  /\ Distinct(e.calls) /\ Placed(e)
  /\ Listed(e.frames, {}, 0)
  /\ ~e.stream => e.frames = <<>>
  /\ e.stream /\ ~e.gone /\ e.surface # "chat" =>
       Laid(e.frames, State(TextItems(e), TextItems(e) \ {e.open}, {}, 0))

(* A reply that is over: what was laid out, and what ended it.             *)
Tails == {<<>>, <<<<"done">>>>, <<<<"error">>>>, <<<<"error">>, <<"done">>>>,
          <<<<"error">>, <<"stop">>>>, <<<<"finish">>>>, <<<<"finish">>, <<"done">>>>}
Finishes(t) == t # <<>> /\ t[1] = <<"finish">>
Whole(e, f) ==
  /\ e.completed /\ ~e.cancelled /\ ~e.gone
  /\ Listed(f, Indices(e.calls), Len(e.calls))
  /\ e.stream /\ e.surface # "chat" =>
       Laid(f, State(0..(e.items - 1), 0..(e.items - 1), Indices(e.calls), Len(e.calls)))
Ends(e, f, t) ==
  /\ e.frames = f \o t
  /\ \E told, count : Listed(f, told, count)
  /\ Finishes(t) => Whole(e, f)
Shown(e) == \E f \in Seq(Frames), t \in Tails : Ends(e, f, t)
Over(e) == e.provider # "running" /\ Shown(e)

Life(e) ==
  /\ e.phase \in {"idle", "asking"} =>
       /\ e.provider = "none" /\ ~e.aborted /\ ~e.cancelled /\ ~e.completed
       /\ e.calls = <<>> /\ e.items = 0 /\ e.open = NoItem /\ e.frames = <<>>
       /\ e.gone = e.late
  /\ e.phase = "running" => e.provider = "running" /\ Flow(e)
  /\ e.phase \in {"replied", "closed"} => Over(e)

Outcomes == {"success", "cancelled", "error", "provider_error"}
Store ==
  /\ active \subseteq Exchanges
  /\ records \in Seq(Exchanges \X Outcomes) /\ Len(records) <= MaxRecords
  /\ \A i, j \in 1..Len(records) : records[i][1] = records[j][1] => i = j
  /\ \A r \in Exchanges : x[r].phase = "running" => r \in active
  /\ \A r \in active :
       /\ Reached(r)
       /\ \A i \in 1..Len(records) : records[i][1] # r
       /\ x[r].phase # "running" => x[r].gone /\ x[r].late /\ x[r].stream
  /\ \A i \in 1..Len(records) :
       /\ Reached(records[i][1])
       /\ records[i][2] = "success" => x[records[i][1]].provider = "completed"
       /\ records[i][2] = "cancelled" => x[records[i][1]].gone /\ ~x[records[i][1]].late
  /\ Len(records) < MaxRecords =>
       \A r \in Exchanges : Reached(r) =>
         r \in active \/ \E i \in 1..Len(records) : records[i][1] = r

Typed ==
  /\ cache \in [answer : Answers \cup {"none"}, fresh : BOOLEAN]
  /\ cache.fresh => cache.answer # "none"
  /\ events \in Nat
  /\ x \in [Exchanges -> ExchangeRecs]
  /\ \A r \in Exchanges : Life(x[r])

IInv == Typed /\ Store

-------------------------------------------------------------------------------
(* What a reply that is over shows.                                        *)
LEMMA TailKinds ==
  ASSUME NEW t \in Tails
  PROVE  /\ t \in Seq(Frames) /\ Len(t) \in 0..2
         /\ Len(t) >= 1 => t[1][1] \in {"done", "error", "finish"}
         /\ Len(t) = 2 => t[2][1] \in {"done", "stop"}
         /\ Finishes(t) <=> Len(t) >= 1 /\ t[1][1] = "finish"
<1>1. /\ <<"error">> \in Frames /\ <<"finish">> \in Frames
      /\ <<"done">> \in Frames /\ <<"stop">> \in Frames
  BY DEF Frames
<1>2. CASE t = <<>>
  BY <1>2 DEF Finishes
<1>3. CASE t = <<<<"done">>>>
  BY <1>1, <1>3 DEF Finishes
<1>4. CASE t = <<<<"error">>>>
  BY <1>1, <1>4 DEF Finishes
<1>5. CASE t = <<<<"error">>, <<"done">>>>
  BY <1>1, <1>5 DEF Finishes
<1>6. CASE t = <<<<"error">>, <<"stop">>>>
  BY <1>1, <1>6 DEF Finishes
<1>7. CASE t = <<<<"finish">>>>
  BY <1>1, <1>7 DEF Finishes
<1>8. CASE t = <<<<"finish">>, <<"done">>>>
  BY <1>1, <1>8 DEF Finishes
<1>. QED
  BY <1>2, <1>3, <1>4, <1>5, <1>6, <1>7, <1>8 DEF Tails

LEMMA Tailed ==
  ASSUME NEW f \in Seq(Frames), \A i \in 1..Len(f) : f[i][1] \in Kinds,
         NEW t \in Tails
  PROVE  /\ f \o t \in Seq(Frames)
         /\ \A i \in 1..Len(f) : (f \o t)[i] = f[i]
         /\ \A k \in Kinds : PlacesIn(f \o t, k) = PlacesIn(f, k)
         /\ PlacesIn(f \o t, "finish") = IF Finishes(t) THEN {Len(f) + 1} ELSE {}
         /\ PlacesIn(f \o t, "error") \subseteq {Len(f) + 1}
         /\ \A j \in 1..Len(f \o t) : j > Len(f) + 1 => (f \o t)[j][1] \in {"done", "stop"}
<1> DEFINE g == f \o t
           n == Len(f)
<1>1. n \in Nat /\ n = Len(f)
  BY LenProperties
<1>2. /\ t \in Seq(Frames) /\ Len(t) \in 0..2
      /\ Len(t) >= 1 => t[1][1] \in {"done", "error", "finish"}
      /\ Len(t) = 2 => t[2][1] \in {"done", "stop"}
      /\ Finishes(t) <=> Len(t) >= 1 /\ t[1][1] = "finish"
  BY TailKinds
<1>3. /\ g \in Seq(Frames) /\ Len(g) = n + Len(t)
      /\ \A i \in 1..n + Len(t) : g[i] = IF i <= n THEN f[i] ELSE t[i - n]
  BY <1>2, ConcatProperties
<1> HIDE DEF g, n
<1>4. \A i \in 1..n : i \in 1..Len(g) /\ g[i] = f[i] /\ f[i][1] \in Kinds
  BY <1>1, <1>2, <1>3
<1>5. \A i \in 1..Len(g) : i > n => \/ i = n + 1 /\ Len(t) >= 1 /\ g[i] = t[1]
                                    \/ i = n + 2 /\ Len(t) = 2 /\ g[i] = t[2]
  <2>1. ASSUME NEW i \in 1..Len(g), i > n
        PROVE  \/ i = n + 1 /\ Len(t) >= 1 /\ g[i] = t[1]
               \/ i = n + 2 /\ Len(t) = 2 /\ g[i] = t[2]
    <3>1. g[i] = t[i - n] /\ Len(t) >= i - n /\ (i = n + 1 \/ i = n + 2)
      <4> DEFINE l == Len(t)
      <4>1. l \in {0, 1, 2}
        BY <1>2
      <4> HIDE DEF l
      <4>2. i \in 1..(n + l) /\ ~(i <= n)
        BY <1>1, <1>3, <2>1 DEF l
      <4>3. g[i] = t[i - n]
        BY <1>3, <4>2 DEF l
      <4>4. l >= i - n /\ (i = n + 1 \/ i = n + 2)
        BY <1>1, <4>1, <4>2
      <4>. QED
        BY <4>3, <4>4 DEF l
    <3>2. CASE i = n + 1
      <4>1. i - n = 1
        BY <1>1, <3>2
      <4>. QED
        BY <3>1, <3>2, <4>1
    <3>3. CASE i = n + 2
      <4>1. i - n = 2 /\ Len(t) = 2
        BY <1>1, <1>2, <3>1, <3>3
      <4>. QED
        BY <3>1, <3>3, <4>1
    <3>. QED
      BY <3>1, <3>2, <3>3
  <2>. QED
    BY <2>1
<1>6. Len(t) >= 1 => n + 1 \in 1..Len(g) /\ g[n + 1] = t[1]
  BY <1>1, <1>2, <1>3, SMTT(30)
<1>7. \A i \in 1..Len(g) : i > n => g[i][1] \in {"done", "error", "finish", "stop"}
  BY <1>2, <1>5
<1>8. ASSUME NEW k \in Kinds PROVE PlacesIn(g, k) = PlacesIn(f, k)
  <2>1. k \notin {"done", "error", "finish", "stop"}
    BY DEF Kinds
  <2>2. \A i \in 1..Len(g) : g[i][1] = k => i \in 1..n
    BY <1>1, <1>7, <2>1
  <2>. QED
    BY <1>1, <1>4, <2>2 DEF PlacesIn
<1>9. \A i \in 1..Len(g) : g[i][1] \in {"finish", "error"} => i = n + 1
  <2>1. \A i \in 1..n : g[i][1] \notin {"finish", "error"}
    BY <1>4 DEF Kinds
  <2>2. \A i \in 1..Len(g) : i \notin 1..n => i > n
    BY <1>1, <1>2, <1>3
  <2>. QED
    BY <1>2, <1>5, <2>1, <2>2
<1>10. PlacesIn(g, "finish") = IF Finishes(t) THEN {n + 1} ELSE {}
  <2>1. CASE Finishes(t)
    BY <1>2, <1>6, <1>9, <2>1 DEF PlacesIn
  <2>2. CASE ~Finishes(t)
    <3>1. \A i \in 1..Len(g) : g[i][1] # "finish"
      BY <1>1, <1>2, <1>5, <1>9, <2>2
    <3>. QED
      BY <2>2, <3>1 DEF PlacesIn
  <2>. QED
    BY <2>1, <2>2
<1>11. PlacesIn(g, "error") \subseteq {n + 1}
  BY <1>9 DEF PlacesIn
<1>12. \A j \in 1..Len(g) : j > n + 1 => g[j][1] \in {"done", "stop"}
  BY <1>1, <1>2, <1>5
<1>. QED
  BY <1>1, <1>3, <1>4, <1>8, <1>10, <1>11, <1>12 DEF g, n

(* The properties, of one exchange.                                        *)
WholeIn(e) ==
  /\ \A i \in PlacesIn(e.frames, "call") : e.frames[i][3] \in {0, 2}
  /\ PlacesIn(e.frames, "finish") # {} =>
       /\ ~e.cancelled
       /\ Cardinality(PlacesIn(e.frames, "call")) = Len(e.calls)
       /\ ItemsOf(e.frames, "call") = Indices(e.calls)

OrderIn(e) ==
  LET f == e.frames last == PlacesIn(f, "finish") \cup PlacesIn(f, "error") IN
  /\ Cardinality(last) <= 1
  /\ \A i \in last, j \in 1..Len(f) : j > i => f[j][1] \in {"done", "stop"}
  /\ PlacesIn(f, "finish") # {} /\ e.stream /\ e.surface # "chat" =>
       /\ ItemsOf(f, "open") = 0..(e.items - 1)
       /\ ItemsOf(f, "shut") = ItemsOf(f, "open")
       /\ Cardinality(PlacesIn(f, "open")) = e.items
       /\ Cardinality(PlacesIn(f, "shut")) = e.items
       /\ \A i \in PlacesIn(f, "text") :
            /\ \E j \in PlacesIn(f, "open") : j < i /\ f[j][2] = f[i][2]
            /\ \E j \in PlacesIn(f, "shut") : j > i /\ f[j][2] = f[i][2]

LEMMA ShownIsWhole ==
  ASSUME NEW e \in ExchangeRecs, Shown(e)
  PROVE  WholeIn(e) /\ OrderIn(e)
<1>1. PICK f \in Seq(Frames), t \in Tails :
        /\ e.frames = f \o t
        /\ \E told, count : Listed(f, told, count)
        /\ Finishes(t) => Whole(e, f)
  BY DEF Shown, Ends
<1>2. PICK told, count : Listed(f, told, count)
  BY <1>1
<1> DEFINE g == e.frames
           n == Len(f)
<1>3. n \in Nat /\ n = Len(f) /\ g = f \o t
  BY <1>1, LenProperties
<1>4. /\ g \in Seq(Frames)
      /\ \A i \in 1..n : g[i] = f[i]
      /\ \A k \in Kinds : PlacesIn(g, k) = PlacesIn(f, k)
      /\ PlacesIn(g, "finish") = IF Finishes(t) THEN {n + 1} ELSE {}
      /\ PlacesIn(g, "error") \subseteq {n + 1}
      /\ \A j \in 1..Len(g) : j > n + 1 => g[j][1] \in {"done", "stop"}
  BY <1>1, <1>2, Tailed DEF Listed
<1>5. e.items \in Nat
  BY DEF ExchangeRecs
<1> HIDE DEF g, n
<1>6. \A k \in Kinds : ItemsOf(g, k) = ItemsOf(f, k) /\ \A i \in PlacesIn(g, k) : g[i] = f[i]
  <2>1. \A k \in Kinds : \A i \in PlacesIn(g, k) : g[i] = f[i]
    BY <1>3, <1>4 DEF PlacesIn
  <2>. QED
    BY <1>4, <2>1 DEF ItemsOf
<1>7. WholeIn(e)
  <2>1. \A i \in PlacesIn(g, "call") : g[i][3] \in {0, 2}
    BY <1>2, <1>4, <1>6 DEF Listed, Kinds
  <2>2. ASSUME Finishes(t)
        PROVE  /\ ~e.cancelled
               /\ Cardinality(PlacesIn(g, "call")) = Len(e.calls)
               /\ ItemsOf(g, "call") = Indices(e.calls)
    BY <1>1, <1>4, <1>6, <2>2 DEF Whole, Listed, Kinds
  <2>. QED
    BY <1>4, <2>1, <2>2 DEF WholeIn, g
<1>8. OrderIn(e)
  <2> DEFINE last == PlacesIn(g, "finish") \cup PlacesIn(g, "error")
  <2>1. last \subseteq {n + 1}
    BY <1>4
  <2>2. Cardinality(last) <= 1
    <3>1. IsFiniteSet({n + 1}) /\ Cardinality({n + 1}) = 1
      BY FS_Singleton
    <3>. QED
      BY <2>1, <3>1, FS_Subset
  <2>3. \A i \in last, j \in 1..Len(g) : j > i => g[j][1] \in {"done", "stop"}
    BY <1>4, <2>1
  <2>4. ASSUME Finishes(t), e.stream, e.surface # "chat"
        PROVE  /\ ItemsOf(g, "open") = 0..(e.items - 1)
               /\ ItemsOf(g, "shut") = ItemsOf(g, "open")
               /\ Cardinality(PlacesIn(g, "open")) = e.items
               /\ Cardinality(PlacesIn(g, "shut")) = e.items
               /\ \A i \in PlacesIn(g, "text") :
                    /\ \E j \in PlacesIn(g, "open") : j < i /\ g[j][2] = g[i][2]
                    /\ \E j \in PlacesIn(g, "shut") : j > i /\ g[j][2] = g[i][2]
    <3> DEFINE All == 0..(e.items - 1)
    <3>1. Laid(f, State(All, All, Indices(e.calls), Len(e.calls)))
      BY <1>1, <2>4 DEF Whole
    <3>2. Cardinality(All) = e.items
      <4> DEFINE m == e.items - 1
      <4>1. 0 \in Int /\ m \in Int /\ (0 > m => e.items = 0) /\ m - 0 + 1 = e.items
        BY <1>5
      <4> HIDE DEF m
      <4>2. Cardinality(0..m) = IF 0 > m THEN 0 ELSE m - 0 + 1
        BY <4>1, FS_Interval
      <4>. QED
        BY <4>1, <4>2 DEF m
    <3> HIDE DEF All
    <3>3. /\ ItemsOf(f, "open") = All /\ ItemsOf(f, "shut") = All
          /\ Cardinality(PlacesIn(f, "open")) = e.items
          /\ Cardinality(PlacesIn(f, "shut")) = e.items
          /\ \A i \in PlacesIn(f, "text") :
               /\ \E j \in PlacesIn(f, "open") : j < i /\ f[j][2] = f[i][2]
               /\ f[i][2] \in All => \E j \in PlacesIn(f, "shut") : j > i /\ f[j][2] = f[i][2]
      BY <3>1, <3>2 DEF Laid, State
    <3>4. /\ PlacesIn(g, "open") = PlacesIn(f, "open") /\ PlacesIn(g, "shut") = PlacesIn(f, "shut")
          /\ PlacesIn(g, "text") = PlacesIn(f, "text")
          /\ ItemsOf(g, "open") = ItemsOf(f, "open") /\ ItemsOf(g, "shut") = ItemsOf(f, "shut")
          /\ \A k \in {"open", "shut", "text"} : \A i \in PlacesIn(f, k) : g[i] = f[i]
      BY <1>4, <1>6 DEF Kinds
    <3>5. ASSUME NEW i \in PlacesIn(f, "text") PROVE f[i][2] \in All
      <4>1. PICK j \in PlacesIn(f, "open") : f[j][2] = f[i][2]
        BY <3>3, <3>5
      <4>. QED
        BY <3>3, <4>1 DEF ItemsOf
    <3>6. ItemsOf(g, "open") = All /\ ItemsOf(g, "shut") = All
      BY <3>3, <3>4
    <3>7. \A i \in PlacesIn(g, "text") :
            /\ \E j \in PlacesIn(g, "open") : j < i /\ g[j][2] = g[i][2]
            /\ \E j \in PlacesIn(g, "shut") : j > i /\ g[j][2] = g[i][2]
      <4>1. ASSUME NEW i \in PlacesIn(f, "text")
            PROVE  \E j \in PlacesIn(f, "open") : j < i /\ g[j][2] = g[i][2]
        BY <3>3, <3>4, <4>1
      <4>2. ASSUME NEW i \in PlacesIn(f, "text")
            PROVE  \E j \in PlacesIn(f, "shut") : j > i /\ g[j][2] = g[i][2]
        BY <3>3, <3>4, <3>5, <4>2
      <4>. QED
        BY <3>4, <4>1, <4>2
    <3>. QED
      BY <3>3, <3>4, <3>6, <3>7 DEF All
  <2>. QED
    BY <1>4, <2>2, <2>3, <2>4 DEF OrderIn, g
<1>. QED
  BY <1>7, <1>8

-------------------------------------------------------------------------------
(* The calls of a reply, laid out one after the other.                     *)

LEMMA Further ==
  ASSUME NEW a \in Seq(Frames), NEW b \in Seq(Frames), NEW c \in Seq(Frames)
  PROVE  a \o (b \o c) = (a \o b) \o c
BY ConcatAssociative

(* What holds of every prefix, holds of the whole.  L is the set of the    *)
(* pairs of how many are laid out and all that is.                         *)
LEMMA FrameByFrame ==
  ASSUME NEW s \in Seq(Frames), NEW f \in Seq(Frames), NEW N \in Nat, N = Len(s),
         NEW L, <<0, f>> \in L,
         \A j \in 0..(N - 1) : \A h \in Seq(Frames) :
           <<j, h>> \in L => <<j + 1, Append(h, s[j + 1])>> \in L
  PROVE  <<N, f \o s>> \in L
<1> DEFINE T == {n \in Nat : n <= N => <<n, f \o SubSeq(s, 1, n)>> \in L}
<1>1. 0 \in T
  <2>1. SubSeq(s, 1, 0) = <<>>
    BY SubSeqEmpty
  <2>2. f \o <<>> = f
    BY ConcatEmptySeq
  <2>. QED
    BY <2>1, <2>2
<1>2. ASSUME NEW n \in T PROVE n + 1 \in T
  <2>1. SUFFICES ASSUME n + 1 <= N PROVE <<n + 1, f \o SubSeq(s, 1, n + 1)>> \in L
    OBVIOUS
  <2>2. n \in Nat /\ <<n, f \o SubSeq(s, 1, n)>> \in L
    BY <2>1
  <2>3. SubSeq(s, 1, n) \in Seq(Frames)
    <3>1. 1 \in Int /\ n \in Int /\ \A i \in 1..n : s[i] \in Frames
      BY <2>1, <2>2, ElementOfSeq
    <3>. QED
      BY <3>1, SubSeqProperties
  <2>4. s[n + 1] \in Frames /\ <<s[n + 1]>> \in Seq(Frames)
    <3>1. n + 1 \in 1..Len(s)
      BY <2>1, <2>2
    <3>. QED
      BY <3>1, ElementOfSeq
  <2>5. SubSeq(s, 1, n + 1) = SubSeq(s, 1, n) \o <<s[n + 1]>>
    <3>1. 1 \in 1..Len(s) /\ n + 1 \in 1..Len(s) /\ n + 1 - 1 = n
      BY <2>1, <2>2
    <3>. QED
      BY <3>1, SubSeqRecursiveSecond
  <2>6. f \o SubSeq(s, 1, n + 1) = (f \o SubSeq(s, 1, n)) \o <<s[n + 1]>>
    <3>1. f \o (SubSeq(s, 1, n) \o <<s[n + 1]>>) = (f \o SubSeq(s, 1, n)) \o <<s[n + 1]>>
      BY <2>3, <2>4, Further
    <3>. QED
      BY <2>5, <3>1
  <2>7. f \o SubSeq(s, 1, n) \in Seq(Frames)
    BY <2>3, ConcatProperties
  <2>8. f \o SubSeq(s, 1, n + 1) = Append(f \o SubSeq(s, 1, n), s[n + 1])
    BY <2>4, <2>6, <2>7, AppendIsConcat
  <2>9. n \in 0..(N - 1)
    BY <2>1, <2>2
  <2>. QED
    BY <2>2, <2>7, <2>8, <2>9
<1> HIDE DEF T
<1>3. T = Nat
  BY <1>1, <1>2, Induction DEF T
<1>4. SubSeq(s, 1, N) = s
  BY SubSeqFull
<1>5. N \in T
  BY <1>3
<1>6. <<N, f \o SubSeq(s, 1, N)>> \in L
  BY <1>5 DEF T
<1>. QED
  BY <1>4, <1>6

LEMMA BlockByBlock ==
  ASSUME NEW s \in Seq(Seq(Frames)), NEW f \in Seq(Frames), NEW N \in Nat, N = Len(s),
         NEW L, <<0, f>> \in L,
         \A j \in 0..(N - 1) : \A h \in Seq(Frames) :
           <<j, h>> \in L => <<j + 1, h \o s[j + 1]>> \in L
  PROVE  <<N, f \o FlattenSeq(s)>> \in L /\ FlattenSeq(s) \in Seq(Frames)
<1>1. CASE N = 0
  <2>1. s = <<>>
    BY <1>1, EmptySeq
  <2>2. FlattenSeq(s) = <<>>
    BY <1>1, <2>1 DEF FlattenSeq
  <2>3. f \o <<>> = f /\ <<>> \in Seq(Frames)
    BY ConcatEmptySeq
  <2>. QED
    BY <1>1, <2>2, <2>3
<1>2. CASE N # 0
  <2>1. PICK g : FlattenSeq(s) = g[N] /\ Flattens(g, s, N)
    BY <1>2, FlattenIs
  <2>2. \A i \in 1..N : g[i] = IF i = 1 THEN s[i] ELSE g[i-1] \o s[i]
    BY <2>1 DEF Flattens
  <2> DEFINE T == {n \in Nat : n + 1 <= N => g[n + 1] \in Seq(Frames) /\ <<n + 1, f \o g[n + 1]>> \in L}
  <2>3. 0 \in T
    <3>1. g[1] = s[1] /\ s[1] \in Seq(Frames)
      <4>1. 1 \in 1..Len(s)
        BY <1>2
      <4>. QED
        BY <2>2, <4>1, ElementOfSeq
    <3>2. 0 \in 0..(N - 1) /\ 0 + 1 = 1
      BY <1>2
    <3>3. <<0 + 1, f \o s[0 + 1]>> \in L
      BY <3>2
    <3>. QED
      BY <3>1, <3>2, <3>3
  <2>4. ASSUME NEW n \in T PROVE n + 1 \in T
    <3>1. SUFFICES ASSUME n + 1 + 1 <= N
                   PROVE  g[n + 1 + 1] \in Seq(Frames) /\ <<n + 1 + 1, f \o g[n + 1 + 1]>> \in L
      OBVIOUS
    <3> DEFINE m == n + 1
    <3>2. m \in Nat /\ m \in 0..(N - 1) /\ m + 1 \in 1..N /\ m + 1 # 1 /\ m + 1 - 1 = m
      BY <3>1
    <3>3. g[m] \in Seq(Frames) /\ <<m, f \o g[m]>> \in L
      BY <3>1
    <3> HIDE DEF m
    <3>4. g[m + 1] = g[m] \o s[m + 1]
      <4> DEFINE k == m + 1
      <4>1. k \in 1..N /\ k # 1 /\ k - 1 = m
        BY <3>2
      <4> HIDE DEF k
      <4>2. g[k] = g[k - 1] \o s[k]
        BY <2>2, <4>1
      <4>. QED
        BY <4>1, <4>2 DEF k
    <3>5. s[m + 1] \in Seq(Frames)
      BY <3>2, ElementOfSeq
    <3>6. g[m + 1] \in Seq(Frames)
      BY <3>3, <3>4, <3>5, ConcatProperties
    <3>7. f \o g[m] \in Seq(Frames)
      BY <3>3, ConcatProperties
    <3>8. f \o g[m + 1] = (f \o g[m]) \o s[m + 1]
      <4>1. f \o (g[m] \o s[m + 1]) = (f \o g[m]) \o s[m + 1]
        BY <3>3, <3>5, Further, ZenonT(60)
      <4>. QED
        BY <3>4, <4>1
    <3>. QED
      BY <3>2, <3>3, <3>6, <3>7, <3>8 DEF m
  <2> HIDE DEF T
  <2>5. T = Nat
    BY <2>3, <2>4, Induction DEF T
  <2>6. N - 1 \in T /\ N - 1 + 1 = N
    BY <1>2, <2>5
  <2>. QED
    BY <2>1, <2>6 DEF T
<1>. QED
  BY <1>1, <1>2

(* One more frame, with what the frames then say.                          *)
LEMMA Opened ==
  ASSUME NEW f, NEW O, NEW S, NEW W, NEW c, Laid(f, State(O, S, W, c)),
         NEW m \in Nat, m \notin O
  PROVE  Laid(Append(f, <<"open", m>>), State(O \cup {m}, S, W, c))
<1> DEFINE q == State(O, S, W, c)
<1>1. q.opened = O /\ q.shut = S /\ q.told = W /\ q.count = c /\ Laid(f, q)
  BY DEF State
<1> HIDE DEF q
<1>. QED
  BY <1>1, LaysOpen

LEMMA Closed ==
  ASSUME NEW f, NEW O, NEW S, NEW W, NEW c, Laid(f, State(O, S, W, c)),
         NEW m \in Nat, m \notin S
  PROVE  Laid(Append(f, <<"shut", m>>), State(O, S \cup {m}, W, c))
<1> DEFINE q == State(O, S, W, c)
<1>1. q.opened = O /\ q.shut = S /\ q.told = W /\ q.count = c /\ Laid(f, q)
  BY DEF State
<1> HIDE DEF q
<1>. QED
  BY <1>1, LaysShut

LEMMA Written ==
  ASSUME NEW f, NEW O, NEW S, NEW W, NEW c, Laid(f, State(O, S, W, c)),
         NEW m \in Nat, m \in O, m \notin S
  PROVE  Laid(Append(f, <<"text", m>>), State(O, S, W, c))
<1> DEFINE q == State(O, S, W, c)
<1>1. q.opened = O /\ q.shut = S /\ q.told = W /\ q.count = c /\ Laid(f, q)
  BY DEF State
<1> HIDE DEF q
<1>. QED
  BY <1>1, LaysText

LEMMA Called ==
  ASSUME NEW f, NEW O, NEW S, NEW W, NEW c, Laid(f, State(O, S, W, c)),
         NEW m \in Calls, NEW pieces \in {0, 2}
  PROVE  Laid(Append(f, <<"call", m, pieces>>), State(O, S, W \cup {m}, c + 1))
<1> DEFINE q == State(O, S, W, c)
<1>1. q.opened = O /\ q.shut = S /\ q.told = W /\ q.count = c /\ Laid(f, q)
  BY DEF State
<1> HIDE DEF q
<1>. QED
  BY <1>1, LaysCall

LEMMA Paired ==
  ASSUME NEW a \in Frames, NEW b \in Frames
  PROVE  <<a>> \o <<b>> = <<a, b>>
<1> DEFINE l == <<a>> \o <<b>>
           r == <<a, b>>
<1>1. <<a>> \in Seq(Frames) /\ <<b>> \in Seq(Frames)
  OBVIOUS
<1>2. l \in Seq(Frames) /\ Len(l) = 2 /\ l[1] = a /\ l[2] = b
  BY <1>1, ConcatProperties
<1>3. r \in Seq(Frames) /\ Len(r) = 2 /\ r[1] = a /\ r[2] = b
  OBVIOUS
<1> HIDE DEF l, r
<1>4. Len(l) = Len(r) /\ \A i \in 1..Len(l) : l[i] = r[i]
  BY <1>2, <1>3
<1>5. l = r
  BY <1>2, <1>3, <1>4, SeqEqual
<1>. QED
  BY <1>5 DEF l, r

LEMMA TwoMore ==
  ASSUME NEW h \in Seq(Frames), NEW a \in Frames, NEW b \in Frames
  PROVE  h \o <<a, b>> = Append(Append(h, a), b) /\ <<a, b>> \in Seq(Frames)
<1>1. <<a>> \in Seq(Frames) /\ <<b>> \in Seq(Frames) /\ <<a, b>> \in Seq(Frames)
  OBVIOUS
<1>2. <<a, b>> = <<a>> \o <<b>>
  BY Paired
<1>3. h \o (<<a>> \o <<b>>) = (h \o <<a>>) \o <<b>>
  BY <1>1, Further
<1>4. Append(h, a) = h \o <<a>> /\ Append(h, a) \in Seq(Frames)
  BY AppendIsConcat, AppendProperties
<1>5. Append(Append(h, a), b) = Append(h, a) \o <<b>>
  BY <1>4, AppendIsConcat
<1>. QED
  BY <1>1, <1>2, <1>3, <1>4, <1>5

LEMMA ThreeMore ==
  ASSUME NEW h \in Seq(Frames), NEW a \in Frames, NEW b \in Frames, NEW c \in Frames
  PROVE  h \o <<a, b, c>> = Append(Append(Append(h, a), b), c) /\ <<a, b, c>> \in Seq(Frames)
<1>1. <<a, b>> \in Seq(Frames) /\ <<c>> \in Seq(Frames) /\ <<a, b, c>> \in Seq(Frames)
  OBVIOUS
<1>2. <<a, b, c>> = <<a, b>> \o <<c>>
  OBVIOUS
<1>3. h \o (<<a, b>> \o <<c>>) = (h \o <<a, b>>) \o <<c>>
  BY <1>1, Further
<1>4. h \o <<a, b>> = Append(Append(h, a), b) /\ Append(Append(h, a), b) \in Seq(Frames)
  BY TwoMore, AppendProperties
<1>5. Append(Append(Append(h, a), b), c) = Append(Append(h, a), b) \o <<c>>
  BY <1>4, AppendIsConcat
<1>. QED
  BY <1>1, <1>2, <1>3, <1>4, <1>5

(* The calls of a reply: each whole, each with an item of its own.         *)
CallItems(calls, n)   == {calls[i].item : i \in 1..n}
CallIndices(calls, n) == {calls[i].index : i \in 1..n}
Surfaceable(calls, O) ==
  /\ calls \in Seq(CallRecs)
  /\ \A i \in 1..Len(calls) : calls[i].pieces \in {0, 2} /\ calls[i].item \notin O
  /\ \A i, j \in 1..Len(calls) : calls[i].item = calls[j].item => i = j

LEMMA NextCall ==
  ASSUME NEW calls, NEW O, Surfaceable(calls, O), NEW j \in 0..(Len(calls) - 1)
  PROVE  /\ calls[j + 1] \in CallRecs /\ calls[j + 1].item \in Nat
         /\ calls[j + 1].index \in Calls /\ calls[j + 1].pieces \in {0, 2}
         /\ calls[j + 1].item \notin O /\ calls[j + 1].item \notin CallItems(calls, j)
         /\ CallItems(calls, j + 1) = CallItems(calls, j) \cup {calls[j + 1].item}
         /\ CallIndices(calls, j + 1) = CallIndices(calls, j) \cup {calls[j + 1].index}
<1>1. Len(calls) \in Nat /\ j \in Nat /\ j + 1 \in 1..Len(calls) /\ calls \in Seq(CallRecs)
  BY LenProperties DEF Surfaceable
<1>2. calls[j + 1] \in CallRecs
  BY <1>1, ElementOfSeq
<1>3. \A i \in 1..(j + 1) : i \in 1..j \/ i = j + 1
  BY <1>1
<1>4. \A i \in 1..j : i \in 1..(j + 1) /\ i \in 1..Len(calls) /\ i # j + 1
  BY <1>1
<1>5. calls[j + 1].item \notin CallItems(calls, j)
  BY <1>1, <1>4 DEF CallItems, Surfaceable
<1>6. j + 1 \in 1..(j + 1)
  BY <1>1
<1>7. CallItems(calls, j + 1) = CallItems(calls, j) \cup {calls[j + 1].item}
  BY <1>3, <1>4, <1>6 DEF CallItems
<1>8. CallIndices(calls, j + 1) = CallIndices(calls, j) \cup {calls[j + 1].index}
  BY <1>3, <1>4, <1>6 DEF CallIndices
<1>. QED
  BY <1>1, <1>2, <1>5, <1>7, <1>8 DEF CallRecs, Surfaceable

LEMMA ResponsesLaid ==
  ASSUME NEW calls, NEW O, NEW f, Laid(f, State(O, O, {}, 0)), Surfaceable(calls, O),
         NEW n \in Nat, n = Len(calls)
  PROVE  Laid(f \o FlattenSeq([i \in 1..Len(calls) |-> ResponsesCall(calls[i])]),
              State(O \cup CallItems(calls, n), O \cup CallItems(calls, n),
                    CallIndices(calls, n), n))
<1> DEFINE s == [i \in 1..n |-> ResponsesCall(calls[i])]
           Q(j) == State(O \cup CallItems(calls, j), O \cup CallItems(calls, j),
                         CallIndices(calls, j), j)
           L == {p \in (0..n) \X Seq(Frames) : Laid(p[2], Q(p[1]))}
<1>1. ASSUME NEW i \in 1..n
      PROVE  /\ <<"open", calls[i].item>> \in Frames /\ <<"shut", calls[i].item>> \in Frames
             /\ <<"call", calls[i].index, calls[i].pieces>> \in Frames
  <2>1. calls[i] \in CallRecs
    BY ElementOfSeq DEF Surfaceable
  <2>. QED
    BY <2>1 DEF Frames, CallRecs
<1>2. s \in Seq(Seq(Frames)) /\ Len(s) = n /\ \A i \in 1..n : s[i] = ResponsesCall(calls[i])
  <2>1. \A i \in 1..n : ResponsesCall(calls[i]) \in Seq(Frames)
    BY <1>1, EmptySeq, ThreeMore DEF ResponsesCall
  <2>. QED
    BY <2>1
<1>3. <<0, f>> \in L
  <2>1. CallItems(calls, 0) = {} /\ CallIndices(calls, 0) = {} /\ O \cup {} = O
    BY DEF CallItems, CallIndices
  <2>2. f \in Seq(Frames) /\ Laid(f, Q(0))
    BY <2>1 DEF Laid
  <2> HIDE DEF Q
  <2>3. <<0, f>> \in (0..n) \X Seq(Frames)
    BY <2>2
  <2>. QED
    BY <2>2, <2>3
<1>4. ASSUME NEW j \in 0..(n - 1), NEW h \in Seq(Frames), <<j, h>> \in L
      PROVE  <<j + 1, h \o s[j + 1]>> \in L
  <2> DEFINE c == calls[j + 1]
             I == CallItems(calls, j)
             X == CallIndices(calls, j)
             h1 == Append(h, <<"open", c.item>>)
             h2 == Append(h1, <<"call", c.index, c.pieces>>)
             h3 == Append(h2, <<"shut", c.item>>)
  <2>1. j + 1 \in 1..n /\ j + 1 \in 0..n
    OBVIOUS
  <2>2. /\ c.item \in Nat /\ c.index \in Calls /\ c.pieces \in {0, 2}
        /\ c.item \notin O /\ c.item \notin I
        /\ CallItems(calls, j + 1) = I \cup {c.item}
        /\ CallIndices(calls, j + 1) = X \cup {c.index}
    BY NextCall
  <2>3. Laid(h, State(O \cup I, O \cup I, X, j))
    BY <1>4
  <2>4. s[j + 1] = <<<<"open", c.item>>, <<"call", c.index, c.pieces>>, <<"shut", c.item>>>>
    BY <1>2, <2>1 DEF ResponsesCall
  <2>5. h \o s[j + 1] = h3
    <3>1. /\ <<"open", c.item>> \in Frames /\ <<"shut", c.item>> \in Frames
          /\ <<"call", c.index, c.pieces>> \in Frames
      BY <1>1, <2>1
    <3>2. h \o <<<<"open", c.item>>, <<"call", c.index, c.pieces>>, <<"shut", c.item>>>> = h3
      BY <3>1, ThreeMore
    <3>. QED
      BY <2>4, <3>2
  <2> HIDE DEF c, I, X, s, h1, h2, h3, L
  <2>6. Laid(h1, State((O \cup I) \cup {c.item}, O \cup I, X, j))
    BY <2>2, <2>3, Opened DEF h1
  <2>7. Laid(h2, State((O \cup I) \cup {c.item}, O \cup I, X \cup {c.index}, j + 1))
    BY <2>2, <2>6, Called DEF h2
  <2>8. Laid(h3, State((O \cup I) \cup {c.item}, (O \cup I) \cup {c.item}, X \cup {c.index}, j + 1))
    BY <2>2, <2>7, Closed DEF h3
  <2>9. (O \cup I) \cup {c.item} = O \cup CallItems(calls, j + 1)
    BY <2>2
  <2>10. Laid(h3, Q(j + 1))
    BY <2>2, <2>8, <2>9
  <2>11. h3 \in Seq(Frames)
    BY <2>8 DEF Laid
  <2>. QED
    BY <2>1, <2>5, <2>10, <2>11 DEF L
<1> HIDE DEF L, s
<1>5. f \in Seq(Frames)
  BY DEF Laid
<1>6. <<n, f \o FlattenSeq(s)>> \in L
  BY <1>2, <1>3, <1>4, <1>5, BlockByBlock
<1>. QED
  BY <1>6 DEF L, s

LEMMA AnthropicLaid ==
  ASSUME NEW calls, NEW O, NEW S, NEW f, Laid(f, State(O, S, {}, 0)), Surfaceable(calls, O),
         NEW n \in Nat, n = Len(calls)
  PROVE  Laid(f \o Surfaced(calls),
              State(O \cup CallItems(calls, n), S, CallIndices(calls, n), n))
<1> DEFINE s == [i \in 1..n |-> AnthropicCall(calls[i])]
           Q(j) == State(O \cup CallItems(calls, j), S, CallIndices(calls, j), j)
           L == {p \in (0..n) \X Seq(Frames) : Laid(p[2], Q(p[1]))}
<1>1. ASSUME NEW i \in 1..n
      PROVE  /\ <<"open", calls[i].item>> \in Frames
             /\ <<"call", calls[i].index, calls[i].pieces>> \in Frames
  <2>1. calls[i] \in CallRecs
    BY ElementOfSeq DEF Surfaceable
  <2>. QED
    BY <2>1 DEF Frames, CallRecs
<1>2. s \in Seq(Seq(Frames)) /\ Len(s) = n /\ \A i \in 1..n : s[i] = AnthropicCall(calls[i])
  <2>1. \A i \in 1..n : AnthropicCall(calls[i]) \in Seq(Frames)
    BY <1>1, EmptySeq, TwoMore DEF AnthropicCall
  <2>. QED
    BY <2>1
<1>3. <<0, f>> \in L
  <2>1. CallItems(calls, 0) = {} /\ CallIndices(calls, 0) = {} /\ O \cup {} = O
    BY DEF CallItems, CallIndices
  <2>2. f \in Seq(Frames) /\ Laid(f, Q(0))
    BY <2>1 DEF Laid
  <2> HIDE DEF Q
  <2>3. <<0, f>> \in (0..n) \X Seq(Frames)
    BY <2>2
  <2>. QED
    BY <2>2, <2>3
<1>4. ASSUME NEW j \in 0..(n - 1), NEW h \in Seq(Frames), <<j, h>> \in L
      PROVE  <<j + 1, h \o s[j + 1]>> \in L
  <2> DEFINE c == calls[j + 1]
             I == CallItems(calls, j)
             X == CallIndices(calls, j)
             h1 == Append(h, <<"open", c.item>>)
             h2 == Append(h1, <<"call", c.index, c.pieces>>)
  <2>1. j + 1 \in 1..n /\ j + 1 \in 0..n
    OBVIOUS
  <2>2. /\ c.item \in Nat /\ c.index \in Calls /\ c.pieces \in {0, 2}
        /\ c.item \notin O /\ c.item \notin I
        /\ CallItems(calls, j + 1) = I \cup {c.item}
        /\ CallIndices(calls, j + 1) = X \cup {c.index}
    BY NextCall
  <2>3. Laid(h, State(O \cup I, S, X, j))
    BY <1>4
  <2>4. s[j + 1] = <<<<"open", c.item>>, <<"call", c.index, c.pieces>>>>
    BY <1>2, <2>1 DEF AnthropicCall
  <2>5. h \o s[j + 1] = h2
    <3>1. /\ <<"open", c.item>> \in Frames
          /\ <<"call", c.index, c.pieces>> \in Frames
      BY <1>1, <2>1
    <3>2. h \o <<<<"open", c.item>>, <<"call", c.index, c.pieces>>>> = h2
      BY <3>1, TwoMore
    <3>. QED
      BY <2>4, <3>2
  <2> HIDE DEF c, I, X, s, h1, h2, L
  <2>6. Laid(h1, State((O \cup I) \cup {c.item}, S, X, j))
    BY <2>2, <2>3, Opened DEF h1
  <2>7. Laid(h2, State((O \cup I) \cup {c.item}, S, X \cup {c.index}, j + 1))
    BY <2>2, <2>6, Called DEF h2
  <2>9. (O \cup I) \cup {c.item} = O \cup CallItems(calls, j + 1)
    BY <2>2
  <2>10. Laid(h2, Q(j + 1))
    BY <2>2, <2>7, <2>9
  <2>11. h2 \in Seq(Frames)
    BY <2>7 DEF Laid
  <2>. QED
    BY <2>1, <2>5, <2>10, <2>11 DEF L
<1> HIDE DEF L, s
<1>5. f \in Seq(Frames)
  BY DEF Laid
<1>6. <<n, f \o FlattenSeq(s)>> \in L
  BY <1>2, <1>3, <1>4, <1>5, BlockByBlock
<1>. QED
  BY <1>6 DEF L, s, Surfaced

(* All tool blocks are stopped together.                                   *)
LEMMA StoppedLaid ==
  ASSUME NEW calls, NEW O, NEW S, NEW W, NEW c, NEW f, Laid(f, State(O, S, W, c)),
         Surfaceable(calls, S), NEW n \in Nat, n = Len(calls)
  PROVE  Laid(f \o Stopped(calls), State(O, S \cup CallItems(calls, n), W, c))
<1> DEFINE s == [i \in 1..n |-> <<"shut", calls[i].item>>]
           Q(j) == State(O, S \cup CallItems(calls, j), W, c)
           L == {p \in (0..n) \X Seq(Frames) : Laid(p[2], Q(p[1]))}
<1>1. ASSUME NEW i \in 1..n PROVE <<"shut", calls[i].item>> \in Frames
  <2>1. calls[i] \in CallRecs
    BY ElementOfSeq DEF Surfaceable
  <2>. QED
    BY <2>1 DEF Frames, CallRecs
<1>2. s \in Seq(Frames) /\ Len(s) = n /\ \A i \in 1..n : s[i] = <<"shut", calls[i].item>>
  BY <1>1
<1>3. <<0, f>> \in L
  <2>1. CallItems(calls, 0) = {} /\ S \cup {} = S
    BY DEF CallItems
  <2>2. f \in Seq(Frames) /\ Laid(f, Q(0))
    BY <2>1 DEF Laid
  <2> HIDE DEF Q
  <2>3. <<0, f>> \in (0..n) \X Seq(Frames)
    BY <2>2
  <2>. QED
    BY <2>2, <2>3
<1>4. ASSUME NEW j \in 0..(n - 1), NEW h \in Seq(Frames), <<j, h>> \in L
      PROVE  <<j + 1, Append(h, s[j + 1])>> \in L
  <2> DEFINE m == calls[j + 1].item
             I == CallItems(calls, j)
             h1 == Append(h, <<"shut", m>>)
  <2>1. j + 1 \in 1..n /\ j + 1 \in 0..n
    OBVIOUS
  <2>2. m \in Nat /\ m \notin S /\ m \notin I /\ CallItems(calls, j + 1) = I \cup {m}
    BY NextCall
  <2>3. Laid(h, State(O, S \cup I, W, c))
    BY <1>4
  <2>4. Append(h, s[j + 1]) = h1
    BY <1>2, <2>1
  <2> HIDE DEF m, I, s, h1, L
  <2>5. Laid(h1, State(O, (S \cup I) \cup {m}, W, c))
    BY <2>2, <2>3, Closed DEF h1
  <2>6. (S \cup I) \cup {m} = S \cup CallItems(calls, j + 1)
    BY <2>2
  <2>7. Laid(h1, Q(j + 1)) /\ h1 \in Seq(Frames)
    BY <2>5, <2>6 DEF Laid
  <2>. QED
    BY <2>1, <2>4, <2>7 DEF L
<1> HIDE DEF L, s
<1>5. f \in Seq(Frames)
  BY DEF Laid
<1>6. <<n, f \o s>> \in L
  BY <1>2, <1>3, <1>4, <1>5, FrameByFrame
<1>. QED
  BY <1>6 DEF L, s, Stopped

(* The calls of a chat, in the order of their indices.                     *)
LEMMA ListsCall ==
  ASSUME NEW f, NEW W, NEW c, Listed(f, W, c), NEW m \in Calls, NEW pieces \in {0, 2}
  PROVE  Listed(Append(f, <<"call", m, pieces>>), W \cup {m}, c + 1)
<1> DEFINE fr == <<"call", m, pieces>>
           g == Append(f, fr)
           n == Len(f)
<1>1. /\ f \in Seq(Frames) /\ n \in Nat /\ fr \in Frames /\ fr[1] = "call"
      /\ fr[2] = m /\ fr[3] = pieces /\ n = Len(f)
  BY LenProperties DEF Listed, Frames
<1>2. OneMore(f, g, fr, n)
  BY <1>1, Appended
<1> HIDE DEF fr, g, n
<1>3. /\ g \in Seq(Frames) /\ Len(g) = n + 1 /\ g[n + 1] = fr
      /\ \A i \in 1..n : g[i] = f[i]
      /\ PlacesIn(f, "call") \subseteq 1..n
      /\ PlacesIn(g, "call") = PlacesIn(f, "call") \cup {n + 1}
      /\ ItemsOf(g, "call") = ItemsOf(f, "call") \cup {m}
      /\ Cardinality(PlacesIn(g, "call")) = Cardinality(PlacesIn(f, "call")) + 1
  BY <1>1, <1>2 DEF OneMore, Kinds
<1>4. \A i \in 1..Len(g) : g[i][1] \in Kinds
  <2>1. \A i \in 1..Len(g) : i \in 1..n \/ g[i] = fr
    BY <1>1, <1>3
  <2>2. "call" \in Kinds
    BY DEF Kinds
  <2>. QED
    BY <1>1, <1>3, <2>1, <2>2 DEF Listed
<1>5. \A i \in PlacesIn(g, "call") : g[i][3] \in {0, 2}
  BY <1>1, <1>3 DEF Listed
<1>. QED
  BY <1>3, <1>4, <1>5 DEF Listed, g, fr

LEMMA ChatListed ==
  ASSUME NEW calls \in Seq(CallRecs), NEW f, Listed(f, {}, 0), NEW n \in Nat, n = Len(calls),
         \A i \in 1..n : calls[i].pieces \in {0, 2}
  PROVE  Listed(f \o [i \in 1..n |-> ChatCall(calls[i])], CallIndices(calls, n), n)
<1> DEFINE s == [i \in 1..n |-> ChatCall(calls[i])]
           L == {p \in (0..n) \X Seq(Frames) : Listed(p[2], CallIndices(calls, p[1]), p[1])}
<1>1. ASSUME NEW i \in 1..n
      PROVE  /\ calls[i].index \in Calls /\ calls[i].pieces \in {0, 2}
             /\ ChatCall(calls[i]) \in Frames
  <2>1. calls[i] \in CallRecs
    BY ElementOfSeq
  <2>. QED
    BY <2>1 DEF Frames, CallRecs, ChatCall
<1>2. s \in Seq(Frames) /\ Len(s) = n /\ \A i \in 1..n : s[i] = ChatCall(calls[i])
  BY <1>1
<1>3. <<0, f>> \in L
  <2>1. CallIndices(calls, 0) = {}
    BY DEF CallIndices
  <2>2. f \in Seq(Frames) /\ Listed(f, CallIndices(calls, 0), 0)
    BY <2>1 DEF Listed
  <2>3. <<0, f>> \in (0..n) \X Seq(Frames)
    BY <2>2
  <2>. QED
    BY <2>2, <2>3
<1>4. ASSUME NEW j \in 0..(n - 1), NEW h \in Seq(Frames), <<j, h>> \in L
      PROVE  <<j + 1, Append(h, s[j + 1])>> \in L
  <2> DEFINE c == calls[j + 1]
             X == CallIndices(calls, j)
             h1 == Append(h, <<"call", c.index, c.pieces>>)
  <2>1. j + 1 \in 1..n /\ j + 1 \in 0..n /\ \A i \in 1..(j + 1) : i \in 1..j \/ i = j + 1
    OBVIOUS
  <2>2. c.index \in Calls /\ c.pieces \in {0, 2}
    BY <1>1, <2>1
  <2>3. CallIndices(calls, j + 1) = X \cup {c.index}
    <3>1. \A i \in 1..j : i \in 1..(j + 1)
      OBVIOUS
    <3>. QED
      BY <2>1, <3>1 DEF CallIndices
  <2>4. Listed(h, X, j)
    BY <1>4
  <2>5. Append(h, s[j + 1]) = h1
    BY <1>2, <2>1 DEF ChatCall
  <2> HIDE DEF c, X, s, h1, L
  <2>6. Listed(h1, X \cup {c.index}, j + 1)
    BY <2>2, <2>4, ListsCall DEF h1
  <2>7. h1 \in Seq(Frames)
    BY <2>6 DEF Listed
  <2>. QED
    BY <2>1, <2>3, <2>5, <2>6, <2>7 DEF L
<1> HIDE DEF L, s
<1>5. f \in Seq(Frames)
  BY DEF Listed
<1>6. <<n, f \o s>> \in L
  BY <1>2, <1>3, <1>4, <1>5, FrameByFrame
<1>. QED
  BY <1>6 DEF L, s

-------------------------------------------------------------------------------
(* What an event does to an exchange that runs.                            *)
LEMMA LaidLists ==
  ASSUME NEW f, NEW O, NEW S, NEW W, NEW c, Laid(f, State(O, S, W, c))
  PROVE  Listed(f, W, c)
BY DEF Laid, State, Listed, Kinds

LEMMA ListsOther ==
  ASSUME NEW f, NEW W, NEW c, Listed(f, W, c), NEW fr \in Frames, fr[1] \in Kinds \ {"call"}
  PROVE  Listed(Append(f, fr), W, c)
<1> DEFINE g == Append(f, fr)
           n == Len(f)
<1>1. f \in Seq(Frames) /\ n \in Nat /\ n = Len(f)
  BY LenProperties DEF Listed
<1>2. OneMore(f, g, fr, n)
  BY <1>1, Appended
<1> HIDE DEF g, n
<1>3. /\ g \in Seq(Frames) /\ Len(g) = n + 1 /\ g[n + 1] = fr
      /\ \A i \in 1..n : g[i] = f[i]
      /\ PlacesIn(f, "call") \subseteq 1..n
      /\ PlacesIn(g, "call") = PlacesIn(f, "call") /\ ItemsOf(g, "call") = ItemsOf(f, "call")
  BY <1>1, <1>2 DEF OneMore, Kinds
<1>4. \A i \in 1..Len(g) : g[i][1] \in Kinds
  <2>1. \A i \in 1..Len(g) : i \in 1..n \/ g[i] = fr
    BY <1>1, <1>3
  <2>. QED
    BY <1>1, <1>3, <2>1 DEF Listed
<1>5. \A i \in PlacesIn(g, "call") : g[i][3] \in {0, 2}
  BY <1>3 DEF Listed
<1>. QED
  BY <1>3, <1>4, <1>5 DEF Listed, g

(* What sending does, by how much is sent.                                 *)
WithFrames(e, f) == [e EXCEPT !.frames = f]

LEMMA SentOne ==
  ASSUME NEW e \in ExchangeRecs, NEW fr \in Frames
  PROVE  /\ Send(e, <<fr>>) = IF e.gone THEN e ELSE WithFrames(e, Append(e.frames, fr))
         /\ Append(e.frames, fr) \in Seq(Frames)
<1>1. e.frames \in Seq(Frames)
  BY DEF ExchangeRecs
<1>2. Append(e.frames, fr) = e.frames \o <<fr>> /\ Append(e.frames, fr) \in Seq(Frames)
  BY <1>1, AppendIsConcat, AppendProperties
<1>. QED
  BY <1>2 DEF Send, WithFrames

LEMMA SentTwo ==
  ASSUME NEW e \in ExchangeRecs, NEW a \in Frames, NEW b \in Frames
  PROVE  /\ Send(e, <<a, b>>) =
              IF e.gone THEN e ELSE WithFrames(e, Append(Append(e.frames, a), b))
         /\ Append(Append(e.frames, a), b) \in Seq(Frames)
<1>1. e.frames \in Seq(Frames)
  BY DEF ExchangeRecs
<1>2. e.frames \o <<a, b>> = Append(Append(e.frames, a), b)
  BY <1>1, TwoMore
<1>3. Append(e.frames, a) \in Seq(Frames) /\ Append(Append(e.frames, a), b) \in Seq(Frames)
  BY <1>1, AppendProperties
<1>. QED
  BY <1>2, <1>3 DEF Send, WithFrames

LEMMA WithFramesType ==
  ASSUME NEW e \in ExchangeRecs, NEW f \in Seq(Frames)
  PROVE  /\ WithFrames(e, f) \in ExchangeRecs
         /\ WithFrames(e, f).frames = f
         /\ WithFrames(e, f).phase = e.phase /\ WithFrames(e, f).surface = e.surface
         /\ WithFrames(e, f).stream = e.stream /\ WithFrames(e, f).gone = e.gone
         /\ WithFrames(e, f).late = e.late /\ WithFrames(e, f).aborted = e.aborted
         /\ WithFrames(e, f).cancelled = e.cancelled /\ WithFrames(e, f).completed = e.completed
         /\ WithFrames(e, f).calls = e.calls /\ WithFrames(e, f).items = e.items
         /\ WithFrames(e, f).open = e.open /\ WithFrames(e, f).provider = e.provider
BY DEF WithFrames, ExchangeRecs

(* What no event of a running exchange changes.                            *)
Steady(e, d) ==
  /\ d.phase = e.phase /\ d.surface = e.surface /\ d.stream = e.stream
  /\ d.gone = e.gone /\ d.late = e.late /\ d.aborted = e.aborted
  /\ d.cancelled = e.cancelled /\ d.completed = e.completed /\ d.provider = e.provider

LEMMA TextItemsAre ==
  ASSUME NEW e \in ExchangeRecs, Placed(e)
  PROVE  /\ TextItems(e) \subseteq Nat /\ e.items \notin TextItems(e)
         /\ NoItem \notin TextItems(e)
         /\ \A i \in 1..Len(e.calls) : e.calls[i].item \notin TextItems(e)
         /\ e.items \in Nat
BY DEF ExchangeRecs, TextItems, NoItem

LEMMA NewItemStep ==
  ASSUME NEW e \in ExchangeRecs, Placed(e), e.open = NoItem
  PROVE  /\ NewItem(e) \in ExchangeRecs /\ Steady(e, NewItem(e))
         /\ NewItem(e).frames = e.frames /\ NewItem(e).calls = e.calls
         /\ NewItem(e).items = e.items + 1 /\ NewItem(e).open = e.items
         /\ Placed(NewItem(e))
         /\ TextItems(NewItem(e)) = TextItems(e) \cup {e.items}
<1> DEFINE d == NewItem(e)
<1>1. /\ d \in ExchangeRecs /\ Steady(e, d)
      /\ d.frames = e.frames /\ d.calls = e.calls
      /\ d.items = e.items + 1 /\ d.open = e.items
  <2>1. e.items \in Nat /\ e.items + 1 \in Nat
    BY DEF ExchangeRecs
  <2>2. d = [[e EXCEPT !.open = e.items] EXCEPT !.items = e.items + 1]
    BY DEF NewItem, ExchangeRecs
  <2>3. d \in ExchangeRecs
    BY <2>1, <2>2 DEF ExchangeRecs
  <2>4. /\ Steady(e, d) /\ d.frames = e.frames /\ d.calls = e.calls
        /\ d.items = e.items + 1 /\ d.open = e.items
    BY <2>1, <2>2 DEF ExchangeRecs, Steady
  <2>. QED
    BY <2>3, <2>4
<1> HIDE DEF d
<1>2. e.items \in Nat /\ \A i \in 1..Len(e.calls) : e.calls[i].item < e.items /\ e.calls[i].item \in Nat
  <2>1. \A i \in 1..Len(e.calls) : e.calls[i] \in CallRecs
    BY ElementOfSeq DEF ExchangeRecs
  <2>. QED
    BY <2>1 DEF ExchangeRecs, Placed, CallRecs
<1>3. \A m \in 0..(d.items - 1) : m \in 0..(e.items - 1) \/ m = e.items
  BY <1>1, <1>2
<1>4. \A m \in 0..(e.items - 1) : m \in 0..(d.items - 1)
  BY <1>1, <1>2
<1>5. e.items \in 0..(d.items - 1) /\ \A i \in 1..Len(e.calls) : e.calls[i].item # e.items
  BY <1>1, <1>2
<1>6. TextItems(d) = TextItems(e) \cup {e.items}
  BY <1>1, <1>3, <1>4, <1>5 DEF TextItems
<1>7. \A i \in 1..Len(d.calls) : d.calls[i].item < d.items
  BY <1>1, <1>2
<1>8. Placed(d)
  BY <1>1, <1>6, <1>7 DEF Placed
<1>. QED
  BY <1>1, <1>6, <1>8 DEF d

LEMMA SameItems ==
  ASSUME NEW e, NEW d, d.calls = e.calls, d.items = e.items
  PROVE  /\ TextItems(d) = TextItems(e)
         /\ d.open = e.open /\ Placed(e) => Placed(d)
BY DEF TextItems, Placed

LEMMA RunsOn ==
  ASSUME NEW e \in ExchangeRecs, NEW d \in ExchangeRecs, Flow(e), Steady(e, d),
         Distinct(d.calls), Placed(d), Listed(d.frames, {}, 0),
         ~e.stream => d.frames = <<>>,
         e.stream /\ ~e.gone /\ e.surface # "chat" =>
           Laid(d.frames, State(TextItems(d), TextItems(d) \ {d.open}, {}, 0))
  PROVE  Flow(d)
BY DEF Flow, Steady

LEMMA TextStep ==
  ASSUME NEW e \in ExchangeRecs, Flow(e)
  PROVE  OnText(e) \in ExchangeRecs /\ Flow(OnText(e)) /\ Steady(e, OnText(e))
<1>0. Steady(e, e)
  BY DEF Steady
<1>1. CASE ~e.stream
  BY <1>0, <1>1 DEF OnText
<1> DEFINE T == TextItems(e)
<1>2. /\ T \subseteq Nat /\ e.items \notin T /\ NoItem \notin T /\ e.items \in Nat
      /\ Placed(e) /\ Distinct(e.calls) /\ Listed(e.frames, {}, 0)
  BY TextItemsAre DEF Flow
<1> HIDE DEF T
<1>3. CASE e.stream /\ e.surface = "chat"
  <2> DEFINE fr == <<"text", 0>>
             f == Append(e.frames, fr)
             d == WithFrames(e, f)
  <2>1. OnText(e) = Send(e, <<fr>>)
    BY <1>3 DEF OnText
  <2>2. fr \in Frames /\ fr[1] \in Kinds \ {"call"}
    BY DEF Frames, Kinds
  <2> HIDE DEF fr
  <2>3. /\ f \in Seq(Frames) /\ OnText(e) = IF e.gone THEN e ELSE d
    BY <2>1, <2>2, SentOne
  <2>4. Listed(f, {}, 0)
    BY <1>2, <2>2, ListsOther
  <2> HIDE DEF f
  <2>5. d \in ExchangeRecs /\ Steady(e, d) /\ d.frames = f /\ Placed(d) /\ Distinct(d.calls)
    BY <1>2, <2>3, WithFramesType, SameItems DEF Steady
  <2> HIDE DEF d
  <2>6. Flow(d)
    BY <1>3, <2>4, <2>5, RunsOn
  <2>. QED
    BY <1>0, <2>3, <2>5, <2>6
<1>4. CASE e.stream /\ e.surface # "chat"
  <2>0. OnText(e) = ResponsesText(e)
    BY <1>4 DEF OnText, AnthropicText, ExchangeRecs
  <2>1. ~e.gone => Laid(e.frames, State(T, T \ {e.open}, {}, 0))
    BY <1>4 DEF Flow, T
  <2>2. CASE e.open = NoItem
    <3> DEFINE m == e.items
               b == NewItem(e)
               o == <<"open", m>>
               w == <<"text", m>>
               f == Append(Append(e.frames, o), w)
               d == WithFrames(b, f)
    <3>1. /\ b \in ExchangeRecs /\ Steady(e, b) /\ b.frames = e.frames /\ b.calls = e.calls
          /\ b.open = m /\ Placed(b) /\ TextItems(b) = T \cup {m}
      BY <1>2, <2>2, NewItemStep DEF T
    <3>2. o \in Frames /\ w \in Frames
      BY <1>2 DEF Frames
    <3>3. OnText(e) = Send(b, <<o, w>>)
      BY <2>0, <2>2 DEF ResponsesText
    <3> HIDE DEF b, o, w
    <3>4. f \in Seq(Frames) /\ OnText(e) = IF b.gone THEN b ELSE d
      BY <3>1, <3>2, <3>3, SentTwo
    <3>5. CASE e.gone
      <4>1. OnText(e) = b
        BY <3>1, <3>4, <3>5 DEF Steady
      <4>2. ~e.stream => b.frames = <<>>
        BY <1>4
      <4>3. Flow(b)
        BY <1>2, <3>1, <3>5, <4>2, RunsOn
      <4>. QED
        BY <3>1, <4>1, <4>3
    <3>6. CASE ~e.gone
      <4>1. T \ {e.open} = T
        BY <1>2, <2>2
      <4>2. Laid(Append(e.frames, o), State(T \cup {m}, T, {}, 0))
        BY <1>2, <2>1, <3>6, <4>1, Opened DEF o
      <4>3. Laid(f, State(T \cup {m}, T, {}, 0))
        BY <1>2, <4>2, Written DEF w
      <4>4. Listed(f, {}, 0)
        BY <4>3, LaidLists
      <4> HIDE DEF f
      <4>5. /\ d \in ExchangeRecs /\ Steady(b, d) /\ d.frames = f
            /\ d.calls = b.calls /\ d.items = b.items /\ d.open = b.open
        BY <3>1, <3>4, WithFramesType DEF Steady
      <4>6. OnText(e) = d
        BY <3>1, <3>4, <3>6 DEF Steady
      <4> HIDE DEF d, m
      <4>7. Placed(d) /\ TextItems(d) = T \cup {m} /\ Distinct(d.calls) /\ Steady(e, d)
        <5>1. Placed(d) /\ TextItems(d) = TextItems(b)
          BY <3>1, <4>5, SameItems
        <5>. QED
          BY <1>2, <3>1, <4>5, <5>1 DEF Steady
      <4>8. (T \cup {m}) \ {d.open} = T
        BY <1>2, <3>1, <4>5 DEF m
      <4>9. Flow(d)
        BY <1>4, <4>3, <4>4, <4>5, <4>7, <4>8, RunsOn
      <4>. QED
        BY <4>5, <4>6, <4>7, <4>9
    <3>. QED
      BY <3>5, <3>6
  <2>3. CASE e.open # NoItem
    <3> DEFINE m == e.open
               w == <<"text", m>>
               f == Append(e.frames, w)
               d == WithFrames(e, f)
    <3>1. m \in T /\ m \in Nat
      BY <1>2, <2>3 DEF Placed, T
    <3>2. w \in Frames
      BY <3>1 DEF Frames
    <3>3. OnText(e) = Send(e, <<w>>)
      BY <2>0, <2>3 DEF ResponsesText
    <3> HIDE DEF w
    <3>4. f \in Seq(Frames) /\ OnText(e) = IF e.gone THEN e ELSE d
      BY <3>2, <3>3, SentOne
    <3>5. CASE e.gone
      BY <1>0, <3>4, <3>5
    <3>6. CASE ~e.gone
      <4>1. Laid(f, State(T, T \ {m}, {}, 0))
        BY <2>1, <3>1, <3>6, Written DEF w
      <4>2. Listed(f, {}, 0)
        BY <4>1, LaidLists
      <4> HIDE DEF f
      <4>3. /\ d \in ExchangeRecs /\ Steady(e, d) /\ d.frames = f
            /\ d.calls = e.calls /\ d.items = e.items /\ d.open = m
        BY <3>4, WithFramesType DEF Steady
      <4> HIDE DEF d, m
      <4>4. Placed(d) /\ TextItems(d) = T
        BY <1>2, <4>3, SameItems DEF m, T
      <4>5. Flow(d)
        BY <1>2, <1>4, <4>1, <4>2, <4>3, <4>4, RunsOn
      <4>. QED
        BY <3>4, <3>6, <4>3, <4>5 DEF d
    <3>. QED
      BY <3>5, <3>6
  <2>. QED
    BY <2>2, <2>3
<1>. QED
  BY <1>1, <1>3, <1>4

LEMMA ShutIs ==
  ASSUME NEW e \in ExchangeRecs, Flow(e), e.stream, e.surface # "chat"
  PROVE  /\ Shut(e) \in ExchangeRecs /\ Steady(e, Shut(e))
         /\ Shut(e).calls = e.calls /\ Shut(e).items = e.items /\ Shut(e).open = e.open
         /\ Listed(Shut(e).frames, {}, 0)
         /\ ~e.gone => Laid(Shut(e).frames, State(TextItems(e), TextItems(e), {}, 0))
<1> DEFINE T == TextItems(e)
<1>0. Steady(e, e)
  BY DEF Steady
<1>1. /\ T \subseteq Nat /\ NoItem \notin T
      /\ Placed(e) /\ Listed(e.frames, {}, 0)
      /\ ~e.gone => Laid(e.frames, State(T, T \ {e.open}, {}, 0))
  BY TextItemsAre DEF Flow
<1> HIDE DEF T
<1>2. CASE e.open = NoItem
  <2>1. Shut(e) = e /\ T \ {e.open} = T
    BY <1>1, <1>2 DEF Shut
  <2>. QED
    BY <1>0, <1>1, <2>1 DEF T
<1>3. CASE e.open # NoItem
  <2> DEFINE m == e.open
             w == <<"shut", m>>
             f == Append(e.frames, w)
             d == WithFrames(e, f)
  <2>1. m \in T /\ m \in Nat
    BY <1>1, <1>3 DEF Placed, T
  <2>2. w \in Frames /\ w[1] \in Kinds \ {"call"}
    BY <2>1 DEF Frames, Kinds
  <2>3. Shut(e) = Send(e, <<w>>)
    BY <1>3 DEF Shut
  <2> HIDE DEF w
  <2>4. f \in Seq(Frames) /\ Shut(e) = IF e.gone THEN e ELSE d
    BY <2>2, <2>3, SentOne
  <2>5. Listed(f, {}, 0)
    BY <1>1, <2>2, ListsOther
  <2>6. ~e.gone => Laid(f, State(T, T, {}, 0))
    <3>1. SUFFICES ASSUME ~e.gone PROVE Laid(f, State(T, T, {}, 0))
      OBVIOUS
    <3>2. m \notin T \ {m} /\ (T \ {m}) \cup {m} = T
      BY <2>1
    <3>3. Laid(e.frames, State(T, T \ {m}, {}, 0))
      BY <1>1, <3>1
    <3> HIDE DEF m
    <3>4. Laid(f, State(T, (T \ {m}) \cup {m}, {}, 0))
      BY <2>1, <3>2, <3>3, Closed DEF w
    <3>. QED
      BY <3>2, <3>4
  <2> HIDE DEF f
  <2>7. /\ d \in ExchangeRecs /\ Steady(e, d) /\ d.frames = f
        /\ d.calls = e.calls /\ d.items = e.items /\ d.open = e.open
    BY <2>4, WithFramesType, ZenonT(60) DEF Steady
  <2> HIDE DEF d
  <2>8. CASE e.gone
    BY <1>0, <1>1, <2>4, <2>8
  <2>9. CASE ~e.gone
    BY <2>4, <2>5, <2>6, <2>7, <2>9 DEF T
  <2>. QED
    BY <2>8, <2>9
<1>. QED
  BY <1>2, <1>3

LEMMA AnthropicShutIs ==
  ASSUME NEW e \in ExchangeRecs, Flow(e), e.stream, e.surface = "anthropic"
  PROVE  /\ AnthropicShut(e) \in ExchangeRecs /\ Steady(e, AnthropicShut(e))
         /\ Flow(AnthropicShut(e))
         /\ AnthropicShut(e).calls = e.calls /\ AnthropicShut(e).items = e.items
         /\ Listed(AnthropicShut(e).frames, {}, 0)
         /\ ~e.gone => Laid(AnthropicShut(e).frames, State(TextItems(e), TextItems(e), {}, 0))
<1> DEFINE s == Shut(e)
           d == AnthropicShut(e)
           T == TextItems(e)
<1>1. /\ s \in ExchangeRecs /\ Steady(e, s)
      /\ s.calls = e.calls /\ s.items = e.items
      /\ Listed(s.frames, {}, 0)
      /\ ~e.gone => Laid(s.frames, State(T, T, {}, 0))
  BY ShutIs
<1> HIDE DEF s
<1>2. d = [s EXCEPT !.open = NoItem]
  BY DEF AnthropicShut, s
<1> HIDE DEF d
<1>3. /\ d \in ExchangeRecs /\ d.open = NoItem /\ d.calls = s.calls /\ d.items = s.items
      /\ d.frames = s.frames /\ Steady(s, d)
  BY <1>1, <1>2 DEF ExchangeRecs, Steady
<1>4. Steady(e, d)
  BY <1>1, <1>3 DEF Steady
<1>5. TextItems(d) = T /\ Placed(d) /\ Distinct(d.calls)
  <2>1. d.calls = e.calls /\ d.items = e.items
    BY <1>1, <1>3
  <2>. QED
    BY <1>3, <2>1 DEF TextItems, Placed, Flow
<1>6. T \ {d.open} = T
  BY <1>3, TextItemsAre DEF Flow
<1> HIDE DEF T
<1>8. /\ d.calls = e.calls /\ d.items = e.items /\ Listed(d.frames, {}, 0)
      /\ ~e.gone => Laid(d.frames, State(T, T, {}, 0))
  BY <1>1, <1>3
<1>7. Flow(d)
  <2>1. ~e.gone => Laid(d.frames, State(TextItems(d), TextItems(d) \ {d.open}, {}, 0))
    BY <1>5, <1>6, <1>8
  <2>. QED
    BY <1>3, <1>4, <1>5, <1>8, <2>1, RunsOn
<1>. QED
  BY <1>3, <1>4, <1>7, <1>8 DEF d, T

LEMMA BufferStep ==
  ASSUME NEW e \in ExchangeRecs, Flow(e), NEW c \in Calls, NEW n \in 0..1
  PROVE  Buffer(e, c, n) \in ExchangeRecs /\ Flow(Buffer(e, c, n)) /\ Steady(e, Buffer(e, c, n))
<1> DEFINE N == Len(e.calls)
           d == Buffer(e, c, n)
<1>0. /\ Distinct(e.calls) /\ Placed(e) /\ Listed(e.frames, {}, 0)
      /\ ~e.stream => e.frames = <<>>
      /\ e.stream /\ ~e.gone /\ e.surface # "chat" =>
           Laid(e.frames, State(TextItems(e), TextItems(e) \ {e.open}, {}, 0))
  BY DEF Flow
<1>1. /\ e.calls \in Seq(CallRecs) /\ N \in Nat /\ N = Len(e.calls) /\ e.items \in Nat
      /\ \A i \in 1..N : e.calls[i] \in CallRecs
  BY ElementOfSeq, LenProperties DEF ExchangeRecs
<1> HIDE DEF N
<1>2. CASE Buffered(e, c)
  <2> DEFINE G(i) == IF e.calls[i].index = c
                     THEN [e.calls[i] EXCEPT !.pieces = @ + n]
                     ELSE e.calls[i]
             g == [i \in 1..N |-> G(i)]
  <2>1. d = [e EXCEPT !.calls = g]
    <3>1. Lengthened(e.calls, c, n) = g
      BY DEF Lengthened, N
    <3> HIDE DEF g
    <3>. QED
      BY <1>2, <3>1 DEF Buffer
  <2>0. ASSUME NEW i \in 1..N
        PROVE  G(i) \in CallRecs /\ G(i).index = e.calls[i].index /\ G(i).item = e.calls[i].item
    <3>1. e.calls[i] \in CallRecs
      BY <1>1
    <3>2. e.calls[i].pieces + n \in Nat
      BY <3>1 DEF CallRecs
    <3>. QED
      BY <3>1, <3>2 DEF CallRecs
  <2> HIDE DEF G
  <2>3. g \in Seq(CallRecs) /\ Len(g) = N
    BY <1>1, <2>0
  <2>2. \A i \in 1..N : g[i].index = e.calls[i].index /\ g[i].item = e.calls[i].item
    BY <2>0
  <2> HIDE DEF g, d
  <2>4. /\ d \in ExchangeRecs /\ Steady(e, d) /\ d.calls = g /\ d.items = e.items
        /\ d.open = e.open /\ d.frames = e.frames
    BY <2>1, <2>3 DEF ExchangeRecs, Steady
  <2>5. Distinct(d.calls)
    BY <1>0, <1>1, <2>2, <2>3, <2>4 DEF Distinct
  <2>6. TextItems(d) = TextItems(e)
    BY <1>1, <2>2, <2>3, <2>4 DEF TextItems
  <2>7. Placed(d)
    BY <1>0, <1>1, <2>2, <2>3, <2>4, <2>6 DEF Placed
  <2>8. Flow(d)
    BY <1>0, <2>4, <2>5, <2>6, <2>7, RunsOn
  <2>. QED
    BY <2>4, <2>8 DEF d
<1>3. CASE ~Buffered(e, c)
  <2> DEFINE k == [index |-> c, item |-> e.items, pieces |-> n]
             g == Append(e.calls, k)
  <2>1. k \in CallRecs /\ k.index = c /\ k.item = e.items
    BY <1>1 DEF CallRecs
  <2>2. d = [[e EXCEPT !.calls = g] EXCEPT !.items = e.items + 1]
    BY <1>1, <1>3 DEF Buffer, ExchangeRecs
  <2> HIDE DEF k
  <2>3. /\ g \in Seq(CallRecs) /\ Len(g) = N + 1 /\ g[N + 1] = k
        /\ \A i \in 1..N : g[i] = e.calls[i]
    BY <1>1, <2>1, AppendProperties
  <2> HIDE DEF g, d
  <2>4. /\ d \in ExchangeRecs /\ Steady(e, d) /\ d.calls = g /\ d.items = e.items + 1
        /\ d.open = e.open /\ d.frames = e.frames
    <3>1. e.items + 1 \in Nat
      BY <1>1
    <3>. QED
      BY <2>2, <2>3, <3>1 DEF ExchangeRecs, Steady
  <2>5. \A i \in 1..(N + 1) : i \in 1..N \/ i = N + 1
    BY <1>1
  <2>6. \A i \in 1..N : e.calls[i].index # c /\ e.calls[i].item < e.items /\ e.calls[i].item \in Nat
    BY <1>0, <1>1, <1>3 DEF Buffered, Placed, CallRecs
  <2>7. Distinct(d.calls)
    <3>1. \A i \in 1..N : g[i].index # g[N + 1].index
      BY <2>1, <2>3, <2>6
    <3>2. ASSUME NEW i \in 1..(N + 1), NEW j \in 1..(N + 1), g[i].index = g[j].index
          PROVE  i = j
      <4>1. CASE i \in 1..N /\ j \in 1..N
        BY <1>0, <1>1, <2>3, <3>2, <4>1 DEF Distinct
      <4>2. CASE i = N + 1
        BY <2>5, <3>1, <3>2, <4>2
      <4>3. CASE j = N + 1
        BY <2>5, <3>1, <3>2, <4>3
      <4>. QED
        BY <2>5, <4>1, <4>2, <4>3
    <3>. QED
      BY <2>3, <2>4, <3>2 DEF Distinct
  <2>8. TextItems(d) = TextItems(e)
    <3>1. ASSUME NEW m \in TextItems(e) PROVE m \in TextItems(d)
      <4>1. m \in 0..(d.items - 1) /\ m # e.items
        BY <1>1, <2>4 DEF TextItems
      <4>2. \A i \in 1..(N + 1) : g[i].item # m
        BY <1>1, <2>1, <2>3, <2>5, <4>1 DEF TextItems
      <4>. QED
        BY <2>3, <2>4, <4>1, <4>2 DEF TextItems
    <3>2. ASSUME NEW m \in TextItems(d) PROVE m \in TextItems(e)
      <4>1. m \in 0..e.items /\ \A i \in 1..(N + 1) : g[i].item # m
        BY <1>1, <2>3, <2>4 DEF TextItems
      <4>2. N + 1 \in 1..(N + 1) /\ \A i \in 1..N : i \in 1..(N + 1)
        BY <1>1
      <4>3. m # e.items /\ \A i \in 1..N : e.calls[i].item # m
        BY <2>1, <2>3, <4>1, <4>2
      <4>. QED
        BY <1>1, <4>1, <4>3 DEF TextItems
    <3>. QED
      BY <3>1, <3>2
  <2>9. Placed(d)
    <3>1. \A i \in 1..(N + 1) : g[i].item < d.items
      <4>1. \A i \in 1..N : g[i].item < d.items
        BY <1>1, <2>3, <2>4, <2>6, SMTT(30)
      <4>2. g[N + 1].item < d.items
        BY <1>1, <2>1, <2>3, <2>4
      <4>. QED
        BY <2>5, <4>1, <4>2
    <3>2. \A i \in 1..N : g[i].item # g[N + 1].item
      BY <1>1, <2>1, <2>3, <2>6
    <3>3. ASSUME NEW i \in 1..(N + 1), NEW j \in 1..(N + 1), g[i].item = g[j].item
          PROVE  i = j
      <4>1. CASE i \in 1..N /\ j \in 1..N
        BY <1>0, <1>1, <2>3, <3>3, <4>1 DEF Placed
      <4>2. CASE i = N + 1
        BY <2>5, <3>2, <3>3, <4>2
      <4>3. CASE j = N + 1
        BY <2>5, <3>2, <3>3, <4>3
      <4>. QED
        BY <2>5, <4>1, <4>2, <4>3
    <3>. QED
      BY <1>0, <2>3, <2>4, <2>8, <3>1, <3>3 DEF Placed
  <2>10. Flow(d)
    BY <1>0, <2>4, <2>7, <2>8, <2>9, RunsOn
  <2>. QED
    BY <2>4, <2>10 DEF d
<1>. QED
  BY <1>2, <1>3

LEMMA CallStep ==
  ASSUME NEW e \in ExchangeRecs, Flow(e), NEW c \in Calls, NEW n \in 0..1
  PROVE  OnCall(e, c, n) \in ExchangeRecs /\ Flow(OnCall(e, c, n)) /\ Steady(e, OnCall(e, c, n))
<1>1. CASE e.stream /\ e.surface = "anthropic"
  <2> DEFINE b == AnthropicShut(e)
  <2>1. b \in ExchangeRecs /\ Flow(b) /\ Steady(e, b) /\ OnCall(e, c, n) = Buffer(b, c, n)
    BY <1>1, AnthropicShutIs DEF OnCall
  <2> HIDE DEF b
  <2>2. Buffer(b, c, n) \in ExchangeRecs /\ Flow(Buffer(b, c, n)) /\ Steady(b, Buffer(b, c, n))
    BY <2>1, BufferStep
  <2>. QED
    BY <2>1, <2>2 DEF Steady
<1>2. CASE ~(e.stream /\ e.surface = "anthropic")
  BY <1>2, BufferStep DEF OnCall
<1>. QED
  BY <1>1, <1>2

-------------------------------------------------------------------------------
(* How an exchange ends.                                                   *)
LEMMA FlattenType ==
  ASSUME NEW s \in Seq(Seq(Frames))
  PROVE  FlattenSeq(s) \in Seq(Frames)
<1> DEFINE N == Len(s)
           L == Nat \X Seq(Frames)
<1>1. N \in Nat /\ N = Len(s) /\ <<>> \in Seq(Frames)
  BY LenProperties
<1>2. <<0, <<>>>> \in L
  BY <1>1
<1>3. ASSUME NEW j \in 0..(N - 1), NEW h \in Seq(Frames), <<j, h>> \in L
      PROVE  <<j + 1, h \o s[j + 1]>> \in L
  <2>1. j + 1 \in 1..Len(s) /\ j + 1 \in Nat
    BY <1>1
  <2>2. s[j + 1] \in Seq(Frames)
    BY <2>1, ElementOfSeq
  <2>3. h \o s[j + 1] \in Seq(Frames)
    BY <2>2, ConcatProperties
  <2>. QED
    BY <2>1, <2>3
<1> HIDE DEF N, L
<1>. QED
  BY <1>1, <1>2, <1>3, BlockByBlock

(* What the end of a run never changes.                                    *)
After(e, d) ==
  /\ d.gone = e.gone /\ d.late = e.late /\ d.stream = e.stream
  /\ d.provider = e.provider /\ d.surface = e.surface

LEMMA WholeSame ==
  ASSUME NEW e, NEW d, NEW f, Whole(e, f), d.completed = e.completed,
         d.cancelled = e.cancelled, d.gone = e.gone, d.calls = e.calls,
         d.items = e.items, d.stream = e.stream, d.surface = e.surface
  PROVE  Whole(d, f)
BY DEF Whole

LEMMA StreamOverIs ==
  ASSUME NEW e \in ExchangeRecs, NEW f \in Seq(Frames), NEW t \in Tails, Ends(e, f, t),
         e.provider # "running",
         e.surface = "anthropic" \/ t \in {<<>>, <<<<"error">>>>, <<<<"finish">>>>}
  PROVE  /\ StreamOver(e) \in ExchangeRecs /\ StreamOver(e).phase = "replied"
         /\ Over(StreamOver(e)) /\ After(e, StreamOver(e))
<1> DEFINE b == Done(e)
           d == StreamOver(e)
           fr == <<"done">>
<1>0. fr \in Frames
  BY DEF Frames
<1>1. d = [b EXCEPT !.phase = "replied"]
  BY DEF StreamOver, Replied
<1>2. ASSUME b \in ExchangeRecs, b.provider = e.provider, After(e, b), Shown(b)
      PROVE  /\ d \in ExchangeRecs /\ d.phase = "replied"
             /\ Over(d) /\ After(e, d)
  <2> HIDE DEF b, d
  <2>1. /\ d \in ExchangeRecs /\ d.phase = "replied" /\ d.frames = b.frames /\ After(b, d)
        /\ d.completed = b.completed /\ d.cancelled = b.cancelled /\ d.calls = b.calls
        /\ d.items = b.items
    BY <1>1, <1>2 DEF ExchangeRecs, After
  <2>2. PICK g \in Seq(Frames), u \in Tails : Ends(b, g, u)
    BY <1>2 DEF Shown
  <2>3. Finishes(u) => Whole(d, g)
    BY <2>1, <2>2, WholeSame DEF Ends, After
  <2>4. Shown(d)
    BY <2>1, <2>2, <2>3 DEF Ends, Shown
  <2>. QED
    BY <1>2, <2>1, <2>4 DEF Over, After
<1>3. CASE e.surface = "anthropic" \/ e.gone
  <2>1. b = e
    BY <1>3 DEF Done, Send
  <2>2. After(e, e) /\ Shown(e)
    BY DEF After, Shown
  <2>. QED
    BY <1>2, <2>1, <2>2
<1>4. CASE e.surface # "anthropic" /\ ~e.gone
  <2> DEFINE g == Append(e.frames, fr)
  <2>1. b = WithFrames(e, g) /\ g \in Seq(Frames)
    <3>1. b = Send(e, <<fr>>)
      BY <1>4 DEF Done
    <3> HIDE DEF b, fr
    <3>. QED
      BY <1>0, <1>4, <3>1, SentOne
  <2>2. PICK u \in Tails : g = f \o u /\ (Finishes(u) => Finishes(t))
    <3>1. t \in Seq(Frames) /\ <<fr>> \in Seq(Frames) /\ Append(e.frames, fr) = e.frames \o <<fr>>
      BY <1>0, TailKinds, AppendIsConcat DEF ExchangeRecs
    <3>2. g = f \o (t \o <<fr>>)
      <4>1. f \o (t \o <<fr>>) = (f \o t) \o <<fr>>
        BY <3>1, Further
      <4>. QED
        BY <3>1, <4>1 DEF Ends
    <3>3. CASE t = <<>>
      <4>1. t \o <<fr>> = <<fr>> /\ <<fr>> \in Tails /\ ~Finishes(<<fr>>)
        BY <3>1, <3>3, ConcatEmptySeq DEF Tails, Finishes
      <4>. QED
        BY <3>2, <4>1
    <3>4. CASE t = <<<<"error">>>>
      <4>0. <<"error">> \in Frames
        BY DEF Frames
      <4>2. t \o <<fr>> = <<<<"error">>, fr>>
        BY <1>0, <3>4, <4>0, Paired
      <4>1. <<<<"error">>, fr>> \in Tails /\ ~Finishes(<<<<"error">>, fr>>)
        BY <3>4 DEF Tails, Finishes
      <4>. QED
        BY <3>2, <4>1, <4>2
    <3>5. CASE t = <<<<"finish">>>>
      <4>0. <<"finish">> \in Frames
        BY DEF Frames
      <4>2. t \o <<fr>> = <<<<"finish">>, fr>>
        BY <1>0, <3>5, <4>0, Paired
      <4>1. <<<<"finish">>, fr>> \in Tails /\ Finishes(t)
        BY <3>5 DEF Tails, Finishes
      <4>. QED
        BY <3>2, <4>1, <4>2
    <3>. QED
      BY <1>4, <3>3, <3>4, <3>5
  <2> HIDE DEF g, b
  <2>3. b \in ExchangeRecs /\ After(e, b) /\ b.frames = g /\ b.completed = e.completed
        /\ b.cancelled = e.cancelled /\ b.calls = e.calls /\ b.items = e.items
    BY <2>1, WithFramesType DEF After
  <2>4. Finishes(u) => Whole(b, f)
    BY <2>2, <2>3, WholeSame DEF After, Ends
  <2>5. Shown(b)
    BY <2>2, <2>3, <2>4 DEF Shown, Ends
  <2>. QED
    BY <1>2, <2>3, <2>5 DEF After, b
<1>. QED
  BY <1>3, <1>4

(* A reply that completes, with what it sent.                              *)
Ending(e, f) == [WithFrames(e, f) EXCEPT !.completed = TRUE]

LEMMA EndingType ==
  ASSUME NEW e \in ExchangeRecs, NEW f \in Seq(Frames)
  PROVE  /\ Ending(e, f) \in ExchangeRecs /\ After(e, Ending(e, f))
         /\ Ending(e, f).frames = f /\ Ending(e, f).completed
         /\ Ending(e, f).cancelled = e.cancelled /\ Ending(e, f).calls = e.calls
         /\ Ending(e, f).items = e.items
<1> DEFINE b == WithFrames(e, f)
           d == Ending(e, f)
<1>1. /\ b \in ExchangeRecs /\ b.frames = f /\ After(e, b) /\ b.cancelled = e.cancelled
      /\ b.calls = e.calls /\ b.items = e.items
  BY WithFramesType DEF After
<1>2. d = [b EXCEPT !.completed = TRUE]
  BY DEF Ending
<1> HIDE DEF b, d
<1>3. d \in ExchangeRecs
  BY <1>1, <1>2 DEF ExchangeRecs
<1>4. /\ After(b, d) /\ d.frames = b.frames /\ d.completed /\ d.cancelled = b.cancelled
      /\ d.calls = b.calls /\ d.items = b.items
  BY <1>1, <1>2 DEF ExchangeRecs, After
<1>. QED
  BY <1>1, <1>3, <1>4 DEF After, d

LEMMA SentEnding ==
  ASSUME NEW e \in ExchangeRecs, NEW a \in Seq(Frames), NEW t \in Tails
  PROVE  /\ [Send(e, a \o t) EXCEPT !.completed = TRUE] =
              IF e.gone THEN Ending(e, e.frames) ELSE Ending(e, (e.frames \o a) \o t)
         /\ e.frames \in Seq(Frames) /\ e.frames \o a \in Seq(Frames)
         /\ (e.frames \o a) \o t \in Seq(Frames)
<1>1. e.frames \in Seq(Frames) /\ t \in Seq(Frames)
  BY TailKinds DEF ExchangeRecs
<1>2. e.frames \o (a \o t) = (e.frames \o a) \o t
  BY <1>1, Further
<1>3. e.frames \o a \in Seq(Frames) /\ (e.frames \o a) \o t \in Seq(Frames)
  BY <1>1, ConcatProperties
<1>4. e = WithFrames(e, e.frames)
  BY DEF WithFrames, ExchangeRecs
<1>5. Send(e, a \o t) = IF e.gone THEN WithFrames(e, e.frames)
                        ELSE WithFrames(e, (e.frames \o a) \o t)
  BY <1>2, <1>4 DEF Send, WithFrames
<1>. QED
  BY <1>1, <1>3, <1>5 DEF Ending

(* A client that is gone sees nothing more.                                *)
LEMMA GoneEnds ==
  ASSUME NEW e \in ExchangeRecs, NEW W, NEW c, Listed(e.frames, W, c),
         NEW d, d.frames = e.frames
  PROVE  e.frames \in Seq(Frames) /\ <<>> \in Tails /\ Ends(d, e.frames, <<>>)
<1>1. e.frames \in Seq(Frames) /\ e.frames \o <<>> = e.frames
  BY ConcatEmptySeq DEF ExchangeRecs
<1>. QED
  BY <1>1 DEF Ends, Finishes, Tails

Plain == {<<>>, <<<<"error">>>>, <<<<"finish">>>>}

(* An error after what there is.                                           *)
LEMMA ErrorEnds ==
  ASSUME NEW e \in ExchangeRecs, NEW W, NEW c, Listed(e.frames, W, c)
  PROVE  LET d == [Send(e, <<<<"error">>>>) EXCEPT !.completed = TRUE] IN
         /\ d \in ExchangeRecs /\ After(e, d)
         /\ \E f \in Seq(Frames), t \in Plain : Ends(d, f, t)
<1> DEFINE d == [Send(e, <<<<"error">>>>) EXCEPT !.completed = TRUE]
           t == <<<<"error">>>>
<1>1. t \in Tails /\ t \in Plain /\ <<>> \in Plain /\ ~Finishes(t) /\ t \in Seq(Frames)
  BY TailKinds DEF Tails, Plain, Finishes
<1>2. <<>> \o t = t /\ <<>> \in Seq(Frames)
  BY <1>1, ConcatEmptySeq
<1>3. e.frames \o <<>> = e.frames /\ e.frames \in Seq(Frames)
  BY ConcatEmptySeq DEF ExchangeRecs
<1>4. /\ d = IF e.gone THEN Ending(e, e.frames) ELSE Ending(e, e.frames \o t)
      /\ e.frames \o t \in Seq(Frames)
  <2> HIDE DEF t
  <2>1. [Send(e, <<>> \o t) EXCEPT !.completed = TRUE] =
              IF e.gone THEN Ending(e, e.frames) ELSE Ending(e, (e.frames \o <<>>) \o t)
    BY <1>1, <1>2, SentEnding, ZenonT(60)
  <2>2. (e.frames \o <<>>) \o t \in Seq(Frames)
    BY <1>1, <1>2, SentEnding
  <2>. QED
    BY <1>2, <1>3, <2>1, <2>2 DEF t
<1> HIDE DEF d, t
<1>5. CASE e.gone
  <2>1. d \in ExchangeRecs /\ After(e, d) /\ d.frames = e.frames
    BY <1>3, <1>4, <1>5, EndingType
  <2>. QED
    BY <1>1, <2>1, GoneEnds DEF d
<1>6. CASE ~e.gone
  <2>1. d \in ExchangeRecs /\ After(e, d) /\ d.frames = e.frames \o t
    BY <1>4, <1>6, EndingType
  <2>. QED
    BY <1>1, <1>3, <2>1 DEF d, Ends
<1>. QED
  BY <1>5, <1>6

(* A chat that completes, and the one reply of a request that does not     *)
(* stream.                                                                 *)
LEMMA AggregatedIs ==
  ASSUME NEW e \in ExchangeRecs, Flow(e), e.stream => e.surface = "chat"
  PROVE  /\ Aggregated(e) \in ExchangeRecs /\ After(e, Aggregated(e))
         /\ \E f \in Seq(Frames), t \in Plain : Ends(Aggregated(e), f, t)
<1>0. Listed(e.frames, {}, 0) /\ Distinct(e.calls) /\ (e.cancelled <=> e.gone /\ ~e.late)
  BY DEF Flow
<1>1. CASE Malformed(e)
  <2>1. Aggregated(e) = [Send(e, <<<<"error">>>>) EXCEPT !.completed = TRUE]
    BY <1>1 DEF Aggregated
  <2>. QED
    BY <1>0, <2>1, ErrorEnds
<1>2. CASE ~Malformed(e)
  <2> DEFINE n == Len(e.calls)
             B == ByIndex(e.calls)
             C == [i \in 1..n |-> ChatCall(B[i])]
             t == <<<<"finish">>>>
             d == Aggregated(e)
             f == e.frames \o C
  <2>1. e.calls \in Seq(CallRecs) /\ n \in Nat /\ n = Len(e.calls) /\ e.frames \in Seq(Frames)
    BY LenProperties DEF ExchangeRecs
  <2>2. t \in Tails /\ t \in Plain /\ <<>> \in Plain
    BY DEF Tails, Plain
  <2>3. d = [Send(e, C \o t) EXCEPT !.completed = TRUE]
    BY <1>2 DEF Aggregated
  <2>4. \A i \in 1..n : e.calls[i].pieces \in {0, 2}
    BY <1>2 DEF Malformed, Usable
  <2> HIDE DEF n, B, t, d
  <2>5. B \in Seq(CallRecs) /\ Len(B) = n
    BY <1>0, <2>1, Sorted DEF B
  <2>6. PICK p \in [1..n -> 1..n] : /\ \A k \in 1..n : B[k] = e.calls[p[k]]
                                   /\ \A i \in 1..n : \E k \in 1..n : p[k] = i
    BY <1>0, <2>1, Sorted DEF B
  <2>7. \A k \in 1..n : B[k].pieces \in {0, 2}
    <3>1. \A k \in 1..n : p[k] \in 1..n /\ B[k] = e.calls[p[k]]
      BY <2>6
    <3>. QED
      BY <2>4, <3>1
  <2>8. CallIndices(B, n) = Indices(e.calls)
    <3>1. CallIndices(B, n) \subseteq Indices(e.calls)
      <4>1. ASSUME NEW k \in 1..n PROVE B[k].index \in Indices(e.calls)
        BY <2>1, <2>6, ZenonT(60) DEF Indices
      <4>. QED
        BY <4>1 DEF CallIndices
    <3>2. Indices(e.calls) \subseteq CallIndices(B, n)
      <4>1. ASSUME NEW i \in 1..n PROVE e.calls[i].index \in CallIndices(B, n)
        <5>1. PICK k \in 1..n : p[k] = i
          BY <2>6
        <5>. QED
          BY <2>6, <5>1 DEF CallIndices
      <4>. QED
        BY <2>1, <4>1 DEF Indices
    <3>. QED
      BY <3>1, <3>2
  <2>9. Listed(f, Indices(e.calls), n)
    BY <1>0, <2>1, <2>5, <2>7, <2>8, ChatListed
  <2>10. C \in Seq(Frames)
    <3>1. \A i \in 1..n : B[i] \in CallRecs
      BY <2>5, ElementOfSeq
    <3>2. \A i \in 1..n : ChatCall(B[i]) \in Frames
      BY <3>1 DEF ChatCall, Frames, CallRecs
    <3>. QED
      BY <2>1, <3>2
  <2> HIDE DEF C
  <2>11. /\ d = IF e.gone THEN Ending(e, e.frames) ELSE Ending(e, f \o t)
         /\ f \in Seq(Frames) /\ f \o t \in Seq(Frames)
    BY <2>2, <2>3, <2>10, SentEnding
  <2> HIDE DEF f
  <2>12. CASE e.gone
    <3>1. d \in ExchangeRecs /\ After(e, d) /\ d.frames = e.frames
      BY <2>1, <2>11, <2>12, EndingType
    <3>. QED
      BY <1>0, <2>2, <3>1, GoneEnds DEF d
  <2>13. CASE ~e.gone
    <3>1. /\ d \in ExchangeRecs /\ After(e, d) /\ d.frames = f \o t /\ d.completed
          /\ d.cancelled = e.cancelled /\ d.calls = e.calls
      BY <2>11, <2>13, EndingType
    <3>2. Whole(d, f)
      <4>1. ~d.gone /\ ~d.cancelled /\ d.completed
        BY <1>0, <2>13, <3>1 DEF After
      <4>2. Listed(f, Indices(d.calls), Len(d.calls))
        BY <2>1, <2>9, <3>1
      <4>3. ~(d.stream /\ d.surface # "chat")
        BY <3>1 DEF After
      <4>. QED
        BY <4>1, <4>2, <4>3 DEF Whole
    <3>3. Ends(d, f, t)
      BY <2>9, <3>1, <3>2 DEF Ends
    <3>. QED
      BY <2>2, <2>11, <3>1, <3>3 DEF d
  <2>. QED
    BY <2>12, <2>13
<1>. QED
  BY <1>1, <1>2

LEMMA AllItems ==
  ASSUME NEW e \in ExchangeRecs, Placed(e), ~Malformed(e)
  PROVE  /\ Surfaceable(e.calls, TextItems(e))
         /\ TextItems(e) \cup CallItems(e.calls, Len(e.calls)) = 0..(e.items - 1)
         /\ CallIndices(e.calls, Len(e.calls)) = Indices(e.calls)
<1>1. e.calls \in Seq(CallRecs) /\ e.items \in Nat
  BY DEF ExchangeRecs
<1>2. \A i \in 1..Len(e.calls) : e.calls[i] \in CallRecs
  BY <1>1, ElementOfSeq
<1>3. \A i \in 1..Len(e.calls) : e.calls[i].item \notin TextItems(e)
  BY TextItemsAre
<1>4. \A i \in 1..Len(e.calls) : e.calls[i].pieces \in {0, 2}
  BY DEF Malformed, Usable
<1>5. Surfaceable(e.calls, TextItems(e))
  BY <1>1, <1>3, <1>4 DEF Surfaceable, Placed
<1>6. \A i \in 1..Len(e.calls) : e.calls[i].item \in 0..(e.items - 1)
  BY <1>1, <1>2 DEF Placed, CallRecs
<1>7. TextItems(e) \cup CallItems(e.calls, Len(e.calls)) = 0..(e.items - 1)
  BY <1>6 DEF TextItems, CallItems
<1>. QED
  BY <1>5, <1>7 DEF CallIndices, Indices

LEMMA ResponsesIs ==
  ASSUME NEW e \in ExchangeRecs, Flow(e), e.stream, e.surface = "responses", ~e.gone
  PROVE  /\ ResponsesCompleted(e) \in ExchangeRecs /\ After(e, ResponsesCompleted(e))
         /\ \E f \in Seq(Frames), t \in Plain : Ends(ResponsesCompleted(e), f, t)
<1> DEFINE s == Shut(e)
           d == ResponsesCompleted(e)
           T == TextItems(e)
           n == Len(e.calls)
<1>1. /\ s \in ExchangeRecs /\ Steady(e, s) /\ s.calls = e.calls /\ s.items = e.items
      /\ Listed(s.frames, {}, 0) /\ Laid(s.frames, State(T, T, {}, 0))
  BY ShutIs
<1>2. Placed(e) /\ ~e.cancelled /\ n \in Nat /\ n = Len(e.calls)
  BY LenProperties DEF Flow, ExchangeRecs
<1>3. CASE Malformed(e)
  <2>1. d = [Send(s, <<<<"error">>>>) EXCEPT !.completed = TRUE]
    BY <1>3 DEF ResponsesCompleted
  <2> HIDE DEF s, d
  <2>2. d \in ExchangeRecs /\ After(s, d) /\ \E f \in Seq(Frames), t \in Plain : Ends(d, f, t)
    BY <1>1, <2>1, ErrorEnds
  <2>. QED
    BY <1>1, <2>2 DEF After, Steady, d
<1>4. CASE ~Malformed(e)
  <2> DEFINE F == FlattenSeq([i \in 1..Len(e.calls) |-> ResponsesCall(e.calls[i])])
             t == <<<<"finish">>>>
             f == s.frames \o F
             All == 0..(e.items - 1)
  <2>1. d = [Send(s, F \o t) EXCEPT !.completed = TRUE]
    BY <1>4 DEF ResponsesCompleted
  <2>2. t \in Tails /\ t \in Plain
    BY DEF Tails, Plain
  <2>3. /\ Surfaceable(e.calls, T) /\ T \cup CallItems(e.calls, n) = All
        /\ CallIndices(e.calls, n) = Indices(e.calls)
    BY <1>2, <1>4, AllItems
  <2>4. F \in Seq(Frames)
    <3>1. ASSUME NEW i \in 1..n PROVE ResponsesCall(e.calls[i]) \in Seq(Frames)
      <4>1. e.calls[i] \in CallRecs
        BY ElementOfSeq DEF ExchangeRecs
      <4>2. /\ <<"open", e.calls[i].item>> \in Frames /\ <<"shut", e.calls[i].item>> \in Frames
            /\ <<"call", e.calls[i].index, e.calls[i].pieces>> \in Frames
        BY <4>1 DEF Frames, CallRecs
      <4>. QED
        BY <4>2, EmptySeq, ThreeMore DEF ResponsesCall
    <3>2. [i \in 1..n |-> ResponsesCall(e.calls[i])] \in Seq(Seq(Frames))
      BY <1>2, <3>1
    <3>. QED
      BY <3>2, FlattenType
  <2> HIDE DEF s, d, T, n, t, All
  <2>5. Laid(f, State(All, All, Indices(e.calls), n))
    <3>1. Laid(f, State(T \cup CallItems(e.calls, n), T \cup CallItems(e.calls, n),
                        CallIndices(e.calls, n), n))
      BY <1>1, <1>2, <2>3, ResponsesLaid
    <3>. QED
      BY <2>3, <3>1
  <2> HIDE DEF F
  <2>6. ~s.gone /\ After(e, s) /\ s.cancelled = e.cancelled
    BY <1>1 DEF Steady, After
  <2>7. d = Ending(s, f \o t) /\ f \in Seq(Frames) /\ f \o t \in Seq(Frames)
    BY <1>1, <2>1, <2>2, <2>4, <2>6, SentEnding
  <2>8. Listed(f, Indices(e.calls), n)
    BY <2>5, LaidLists
  <2> HIDE DEF f
  <2>9. /\ d \in ExchangeRecs /\ After(s, d) /\ d.frames = f \o t /\ d.completed
        /\ d.cancelled = e.cancelled /\ d.calls = e.calls /\ d.items = e.items
    BY <1>1, <2>6, <2>7, EndingType
  <2>10. After(e, d)
    BY <2>6, <2>9 DEF After
  <2>11. Whole(d, f)
    <3>1. d.completed /\ ~d.cancelled /\ ~d.gone
      BY <1>2, <2>9, <2>10 DEF After
    <3>2. Listed(f, Indices(d.calls), Len(d.calls))
      BY <1>2, <2>8, <2>9
    <3>3. Laid(f, State(0..(d.items - 1), 0..(d.items - 1), Indices(d.calls), Len(d.calls)))
      BY <1>2, <2>5, <2>9 DEF All
    <3>. QED
      BY <3>1, <3>2, <3>3 DEF Whole
  <2>12. Ends(d, f, t)
    BY <2>8, <2>9, <2>11 DEF Ends
  <2>. QED
    BY <2>2, <2>7, <2>9, <2>10, <2>12 DEF d
<1>. QED
  BY <1>3, <1>4

LEMMA Prefix ==
  ASSUME NEW S, NEW s \in Seq(S), NEW k \in 0..Len(s)
  PROVE  /\ SubSeq(s, 1, k) \in Seq(S) /\ Len(SubSeq(s, 1, k)) = k
         /\ \A i \in 1..k : SubSeq(s, 1, k)[i] = s[i]
<1> DEFINE p == SubSeq(s, 1, k)
<1>1. 1 \in Int /\ k \in Int /\ k \in Nat /\ \A i \in 1..k : i \in 1..Len(s)
  BY LenProperties
<1>2. \A i \in 1..k : s[i] \in S
  BY <1>1, ElementOfSeq
<1>3. p \in Seq(S)
  BY <1>1, <1>2, SubSeqProperties
<1>4. Len(p) = k
  <2>1. Len(p) = IF 1 <= k THEN k - 1 + 1 ELSE 0
    BY <1>1, <1>2, SubSeqProperties
  <2> HIDE DEF p
  <2>. QED
    BY <1>1, <2>1
<1>5. ASSUME NEW i \in 1..k PROVE p[i] = s[i]
  <2>1. i \in 1..(k - 1 + 1) /\ 1 + i - 1 = i
    BY <1>1
  <2>2. p[i] = s[1 + i - 1]
    BY <1>1, <1>2, <2>1, SubSeqProperties
  <2>. QED
    BY <2>1, <2>2
<1>. QED
  BY <1>3, <1>4, <1>5

LEMMA SurfacedType ==
  ASSUME NEW calls \in Seq(CallRecs)
  PROVE  Surfaced(calls) \in Seq(Frames) /\ Stopped(calls) \in Seq(Frames)
<1> DEFINE n == Len(calls)
<1>1. n \in Nat
  BY LenProperties
<1>2. ASSUME NEW i \in 1..n
      PROVE  AnthropicCall(calls[i]) \in Seq(Frames) /\ <<"shut", calls[i].item>> \in Frames
  <2>1. calls[i] \in CallRecs
    BY ElementOfSeq
  <2>2. /\ <<"open", calls[i].item>> \in Frames /\ <<"shut", calls[i].item>> \in Frames
        /\ <<"call", calls[i].index, calls[i].pieces>> \in Frames
    BY <2>1 DEF Frames, CallRecs
  <2>. QED
    BY <2>2, EmptySeq, TwoMore DEF AnthropicCall
<1>3. [i \in 1..n |-> AnthropicCall(calls[i])] \in Seq(Seq(Frames))
  <2>1. \A i \in 1..n : AnthropicCall(calls[i]) \in Seq(Frames)
    BY <1>2
  <2>. QED
    BY <1>1, <2>1
<1>4. Surfaced(calls) \in Seq(Frames)
  BY <1>3, FlattenType DEF Surfaced
<1>5. Stopped(calls) \in Seq(Frames)
  BY <1>1, <1>2 DEF Stopped
<1>. QED
  BY <1>4, <1>5

(* The calls before the first malformed one are all whole.                 *)
LEMMA BeforeMalformedIs ==
  ASSUME NEW e \in ExchangeRecs, Placed(e), Malformed(e),
         NEW c, c = SubSeq(e.calls, 1, BeforeMalformed(e.calls))
  PROVE  Surfaceable(c, TextItems(e))
<1> DEFINE n == Len(e.calls)
           I == {i \in 1..n : ~Usable(e.calls[i])}
           b == BeforeMalformed(e.calls)
<1>1. e.calls \in Seq(CallRecs) /\ n \in Nat /\ n = Len(e.calls)
  BY LenProperties DEF ExchangeRecs
<1>2. I # {} /\ I \subseteq Nat
  BY DEF Malformed
<1>3. PICK m \in I : \A k \in I : m <= k
  BY <1>2, LeastNumber
<1>4. Min(I) \in I /\ \A k \in I : Min(I) <= k
  BY <1>3 DEF Min
<1>5. b = Min(I) - 1
  BY <1>2 DEF BeforeMalformed, SelectInSeq
<1>6. b \in Nat /\ b < n /\ \A i \in 1..b : Usable(e.calls[i])
  <2>1. Min(I) \in 1..n
    BY <1>4
  <2> DEFINE l == Min(I)
  <2>2. l \in 1..n /\ b = l - 1 /\ \A k \in I : l <= k
    BY <1>4, <1>5, <2>1
  <2> HIDE DEF l, b
  <2>3. b \in Nat /\ b < n /\ \A i \in 1..b : i \in 1..n /\ ~(l <= i)
    BY <1>1, <2>2
  <2>. QED
    BY <2>2, <2>3
<1> HIDE DEF b, I, n
<1>7. \A i \in 1..b : i \in 1..n
  BY <1>1, <1>6
<1>8. c \in Seq(CallRecs) /\ Len(c) = b /\ \A i \in 1..b : c[i] = e.calls[i]
  <2>1. \A i \in 1..b : e.calls[i] \in CallRecs
    BY <1>1, <1>7, ElementOfSeq
  <2>2. c = SubSeq(e.calls, 1, b)
    BY DEF b
  <2>3. b \in 0..Len(e.calls)
    BY <1>1, <1>6
  <2>. QED
    BY <1>1, <2>2, <2>3, Prefix, ZenonT(60)
<1>9. \A i \in 1..n : e.calls[i].item \notin TextItems(e)
  BY <1>1, TextItemsAre
<1>. QED
  BY <1>1, <1>6, <1>7, <1>8, <1>9 DEF Surfaceable, Usable, Placed

LEMMA AnthropicIs ==
  ASSUME NEW e \in ExchangeRecs, Flow(e), e.stream, e.surface = "anthropic", ~e.gone
  PROVE  /\ AnthropicCompleted(e) \in ExchangeRecs /\ After(e, AnthropicCompleted(e))
         /\ \E f \in Seq(Frames), t \in Tails : Ends(AnthropicCompleted(e), f, t)
<1> DEFINE s == AnthropicShut(e)
           d == AnthropicCompleted(e)
           T == TextItems(e)
           n == Len(e.calls)
<1>1. /\ s \in ExchangeRecs /\ Steady(e, s) /\ s.calls = e.calls /\ s.items = e.items
      /\ Listed(s.frames, {}, 0) /\ Laid(s.frames, State(T, T, {}, 0))
      /\ ~s.gone /\ After(e, s) /\ s.cancelled = e.cancelled /\ s.frames \in Seq(Frames)
  BY AnthropicShutIs DEF Steady, After, Listed
<1>2. Placed(e) /\ ~e.cancelled /\ n \in Nat /\ n = Len(e.calls) /\ e.calls \in Seq(CallRecs)
  BY LenProperties DEF Flow, ExchangeRecs
<1>3. CASE Malformed(e)
  <2> DEFINE c == SubSeq(e.calls, 1, BeforeMalformed(e.calls))
             t == <<<<"error">>, <<"stop">>>>
             f == s.frames \o Surfaced(c)
  <2>1. d = [Send(s, Surfaced(c) \o t) EXCEPT !.completed = TRUE]
    BY <1>3 DEF AnthropicCompleted
  <2>2. t \in Tails /\ ~Finishes(t)
    BY DEF Tails, Finishes
  <2>3. Surfaceable(c, T)
    BY <1>2, <1>3, BeforeMalformedIs
  <2> HIDE DEF s, d, T, n, c, t
  <2>4. c \in Seq(CallRecs) /\ Len(c) \in Nat
    BY <2>3, LenProperties DEF Surfaceable
  <2>5. Surfaced(c) \in Seq(Frames)
    BY <2>4, SurfacedType
  <2>6. Laid(f, State(T \cup CallItems(c, Len(c)), T, CallIndices(c, Len(c)), Len(c)))
    BY <1>1, <2>3, <2>4, AnthropicLaid
  <2>7. Listed(f, CallIndices(c, Len(c)), Len(c))
    BY <2>6, LaidLists
  <2>8. d = Ending(s, f \o t) /\ f \in Seq(Frames) /\ f \o t \in Seq(Frames)
    BY <1>1, <2>1, <2>2, <2>5, SentEnding
  <2> HIDE DEF f
  <2>9. d \in ExchangeRecs /\ After(s, d) /\ d.frames = f \o t
    BY <1>1, <2>8, EndingType
  <2>10. After(e, d)
    BY <1>1, <2>9 DEF After
  <2>11. Ends(d, f, t)
    BY <2>2, <2>7, <2>9 DEF Ends
  <2>. QED
    BY <2>2, <2>8, <2>9, <2>10, <2>11 DEF d
<1>4. CASE ~Malformed(e)
  <2> DEFINE A == Surfaced(e.calls)
             B == Stopped(e.calls)
             t == <<<<"finish">>>>
             f == s.frames \o (A \o B)
             All == 0..(e.items - 1)
  <2>1. d = [Send(s, (A \o B) \o t) EXCEPT !.completed = TRUE]
    BY <1>4 DEF AnthropicCompleted
  <2>2. t \in Tails
    BY DEF Tails
  <2>3. /\ Surfaceable(e.calls, T) /\ T \cup CallItems(e.calls, n) = All
        /\ CallIndices(e.calls, n) = Indices(e.calls)
    BY <1>2, <1>4, AllItems
  <2>4. A \in Seq(Frames) /\ B \in Seq(Frames) /\ A \o B \in Seq(Frames)
    BY <1>2, SurfacedType, ConcatProperties
  <2> HIDE DEF s, d, T, n, t, All
  <2>5. Laid(f, State(All, All, Indices(e.calls), n))
    <3>1. Laid(s.frames \o A, State(T \cup CallItems(e.calls, n), T, CallIndices(e.calls, n), n))
      BY <1>1, <1>2, <2>3, AnthropicLaid
    <3>2. Laid(s.frames \o A, State(All, T, Indices(e.calls), n))
      BY <2>3, <3>1
    <3>3. Laid((s.frames \o A) \o B, State(All, T \cup CallItems(e.calls, n), Indices(e.calls), n))
      BY <1>2, <2>3, <3>2, StoppedLaid
    <3>4. (s.frames \o A) \o B = f
      BY <1>1, <2>4, Further
    <3>. QED
      BY <2>3, <3>3, <3>4
  <2> HIDE DEF A, B
  <2>6. d = Ending(s, f \o t) /\ f \in Seq(Frames) /\ f \o t \in Seq(Frames)
    <3> DEFINE C == A \o B
    <3>1. C \in Seq(Frames) /\ d = [Send(s, C \o t) EXCEPT !.completed = TRUE] /\ f = s.frames \o C
      BY <2>1, <2>4
    <3> HIDE DEF C, f
    <3>2. /\ [Send(s, C \o t) EXCEPT !.completed = TRUE] = Ending(s, (s.frames \o C) \o t)
          /\ s.frames \o C \in Seq(Frames) /\ (s.frames \o C) \o t \in Seq(Frames)
      BY <1>1, <2>2, <3>1, SentEnding
    <3>. QED
      BY <3>1, <3>2
  <2>7. Listed(f, Indices(e.calls), n)
    BY <2>5, LaidLists
  <2> HIDE DEF f
  <2>8. /\ d \in ExchangeRecs /\ After(s, d) /\ d.frames = f \o t /\ d.completed
        /\ d.cancelled = e.cancelled /\ d.calls = e.calls /\ d.items = e.items
    BY <1>1, <2>6, EndingType
  <2>9. After(e, d)
    BY <1>1, <2>8 DEF After
  <2>10. Whole(d, f)
    <3>1. d.completed /\ ~d.cancelled /\ ~d.gone
      BY <1>2, <2>8, <2>9 DEF After
    <3>2. Listed(f, Indices(d.calls), Len(d.calls))
      BY <1>2, <2>7, <2>8
    <3>3. Laid(f, State(0..(d.items - 1), 0..(d.items - 1), Indices(d.calls), Len(d.calls)))
      BY <1>2, <2>5, <2>8 DEF All
    <3>. QED
      BY <3>1, <3>2, <3>3 DEF Whole
  <2>11. Ends(d, f, t)
    BY <2>7, <2>8, <2>10 DEF Ends
  <2>. QED
    BY <2>2, <2>6, <2>8, <2>9, <2>11 DEF d
<1>. QED
  BY <1>3, <1>4

(* An exchange is over, and what it was is kept.                           *)
IsOver(e, d) ==
  d \in ExchangeRecs /\ d.phase = "replied" /\ Over(d) /\ After(e, d)

LEMMA RepliedIs ==
  ASSUME NEW e \in ExchangeRecs, NEW f \in Seq(Frames), NEW t \in Tails, Ends(e, f, t),
         e.provider # "running"
  PROVE  IsOver(e, Replied(e))
<1> DEFINE d == Replied(e)
<1>1. /\ d \in ExchangeRecs /\ d.phase = "replied" /\ After(e, d) /\ d.frames = e.frames
      /\ d.completed = e.completed /\ d.cancelled = e.cancelled /\ d.calls = e.calls
      /\ d.items = e.items
  BY DEF Replied, ExchangeRecs, After
<1> HIDE DEF d
<1>2. Finishes(t) => Whole(d, f)
  BY <1>1, WholeSame DEF After, Ends
<1>3. Shown(d)
  BY <1>1, <1>2 DEF Shown, Ends
<1>. QED
  BY <1>1, <1>3 DEF IsOver, Over, After, d

LEMMA PlainTails ==
  Plain \subseteq Tails
BY DEF Plain, Tails

LEMMA JsonReplyIs ==
  ASSUME NEW e \in ExchangeRecs, Flow(e), ~e.stream, e.provider # "running"
  PROVE  IsOver(e, JsonReply(e))
<1> DEFINE a == Aggregated(e)
<1>1. a \in ExchangeRecs /\ After(e, a) /\ \E f \in Seq(Frames), t \in Plain : Ends(a, f, t)
  BY AggregatedIs
<1>2. JsonReply(e) = Replied(a)
  BY DEF JsonReply
<1> HIDE DEF a
<1>3. PICK f \in Seq(Frames), t \in Plain : Ends(a, f, t)
  BY <1>1
<1>4. IsOver(a, Replied(a))
  BY <1>1, <1>3, PlainTails, RepliedIs DEF After
<1>. QED
  BY <1>1, <1>2, <1>4 DEF IsOver, After

LEMMA TornDown ==
  ASSUME NEW e \in ExchangeRecs
  PROVE  /\ TearDown(e) \in ExchangeRecs /\ After(e, TearDown(e))
         /\ TearDown(e).frames = e.frames /\ TearDown(e).phase = e.phase
         /\ TearDown(e).calls = e.calls /\ TearDown(e).items = e.items
         /\ TearDown(e).completed = e.completed
BY DEF TearDown, ExchangeRecs, After

(* A stream whose client is gone.                                          *)
LEMMA GoneIs ==
  ASSUME NEW e \in ExchangeRecs, Listed(e.frames, {}, 0), e.provider # "running"
  PROVE  IsOver(e, StreamOver(e))
<1>1. e.frames \in Seq(Frames) /\ <<>> \in Tails /\ Ends(e, e.frames, <<>>)
  BY GoneEnds
<1>. QED
  BY <1>1, StreamOverIs DEF IsOver

LEMMA CompletedIs ==
  ASSUME NEW e \in ExchangeRecs, Flow(e), e.provider # "running"
  PROVE  IsOver(e, OnCompleted(e))
<1>1. CASE ~e.stream
  BY <1>1, JsonReplyIs DEF OnCompleted
<1>2. CASE e.stream /\ e.gone
  <2> DEFINE b == TearDown(e)
  <2>1. /\ b \in ExchangeRecs /\ After(e, b) /\ Listed(b.frames, {}, 0)
        /\ OnCompleted(e) = StreamOver(b)
    BY <1>2, TornDown DEF OnCompleted, Flow
  <2> HIDE DEF b
  <2>2. IsOver(b, StreamOver(b))
    BY <2>1, GoneIs DEF After
  <2>. QED
    BY <2>1, <2>2 DEF IsOver, After
<1>3. CASE e.stream /\ ~e.gone
  <2>1. ASSUME NEW b \in ExchangeRecs, After(e, b), OnCompleted(e) = StreamOver(b),
               NEW f \in Seq(Frames), NEW t \in Tails, Ends(b, f, t),
               b.surface = "anthropic" \/ t \in Plain
        PROVE  IsOver(e, OnCompleted(e))
    <3>1. IsOver(b, StreamOver(b))
      BY <2>1, StreamOverIs DEF IsOver, After, Plain
    <3>. QED
      BY <2>1, <3>1 DEF IsOver, After
  <2>2. CASE e.surface = "chat"
    <3>1. OnCompleted(e) = StreamOver(Aggregated(e))
      BY <1>3, <2>2 DEF OnCompleted, ChatCompleted, Aggregated
    <3>2. /\ Aggregated(e) \in ExchangeRecs /\ After(e, Aggregated(e))
          /\ \E f \in Seq(Frames), t \in Plain : Ends(Aggregated(e), f, t)
      BY <1>3, <2>2, AggregatedIs
    <3>. QED
      BY <2>1, <3>1, <3>2, PlainTails
  <2>3. CASE e.surface = "responses"
    <3>1. OnCompleted(e) = StreamOver(ResponsesCompleted(e))
      BY <1>3, <2>3 DEF OnCompleted
    <3>2. /\ ResponsesCompleted(e) \in ExchangeRecs /\ After(e, ResponsesCompleted(e))
          /\ \E f \in Seq(Frames), t \in Plain : Ends(ResponsesCompleted(e), f, t)
      BY <1>3, <2>3, ResponsesIs
    <3>. QED
      BY <2>1, <3>1, <3>2, PlainTails
  <2>4. CASE e.surface = "anthropic"
    <3>1. OnCompleted(e) = StreamOver(AnthropicCompleted(e))
      BY <1>3, <2>4 DEF OnCompleted
    <3>2. /\ AnthropicCompleted(e) \in ExchangeRecs /\ After(e, AnthropicCompleted(e))
          /\ \E f \in Seq(Frames), t \in Tails : Ends(AnthropicCompleted(e), f, t)
      BY <1>3, <2>4, AnthropicIs
    <3>. QED
      BY <2>1, <2>4, <3>1, <3>2 DEF After
  <2>. QED
    BY <2>2, <2>3, <2>4 DEF ExchangeRecs
<1>. QED
  BY <1>1, <1>2, <1>3


(* An error, and nothing after it yet.                                     *)
LEMMA ErrorSent ==
  ASSUME NEW e \in ExchangeRecs, NEW W, NEW c, Listed(e.frames, W, c)
  PROVE  /\ Send(e, <<<<"error">>>>) \in ExchangeRecs
         /\ After(e, Send(e, <<<<"error">>>>))
         /\ \E f \in Seq(Frames), t \in Plain :
              /\ Send(e, <<<<"error">>>>).frames = f \o t
              /\ ~Finishes(t) /\ \E told, count : Listed(f, told, count)
<1> DEFINE t == <<<<"error">>>>
           d == Send(e, t)
<1>1. t \in Tails /\ t \in Plain /\ <<>> \in Plain /\ ~Finishes(t) /\ ~Finishes(<<>>) /\ t \in Seq(Frames)
  BY TailKinds DEF Tails, Plain, Finishes
<1>2. e.frames \in Seq(Frames) /\ e.frames \o <<>> = e.frames /\ e.frames \o t \in Seq(Frames)
  BY <1>1, ConcatEmptySeq, ConcatProperties DEF ExchangeRecs
<1> HIDE DEF t
<1>3. CASE e.gone
  <2>1. d = e
    BY <1>3 DEF Send
  <2>. QED
    BY <1>1, <1>2, <2>1 DEF After, t
<1>4. CASE ~e.gone
  <2>1. d = WithFrames(e, e.frames \o t)
    BY <1>4 DEF Send, WithFrames
  <2> HIDE DEF d
  <2>2. d \in ExchangeRecs /\ d.frames = e.frames \o t /\ After(e, d)
    BY <1>2, <2>1, WithFramesType DEF After
  <2>. QED
    BY <1>1, <1>2, <2>2 DEF t, d
<1>. QED
  BY <1>3, <1>4

LEMMA FailedIs ==
  ASSUME NEW e \in ExchangeRecs, Flow(e), e.provider # "running"
  PROVE  IsOver(e, OnError(e))
<1>0. Listed(e.frames, {}, 0)
  BY DEF Flow
<1>1. CASE ~e.stream
  <2> DEFINE b == Send(e, <<<<"error">>>>)
             v == (e.surface # "anthropic")
             d == [b EXCEPT !.completed = v]
  <2>1. b \in ExchangeRecs /\ After(e, b)
    BY <1>0, ErrorSent
  <2>2. PICK f \in Seq(Frames), t \in Plain :
          b.frames = f \o t /\ ~Finishes(t) /\ \E told, count : Listed(f, told, count)
    BY <1>0, ErrorSent
  <2>3. OnError(e) = Replied(d) /\ v \in BOOLEAN
    BY <1>1 DEF OnError
  <2> HIDE DEF b, v
  <2>4. d \in ExchangeRecs
    BY <2>1, <2>3 DEF ExchangeRecs
  <2>5. d.frames = b.frames /\ After(b, d)
    BY <2>1 DEF ExchangeRecs, After
  <2> HIDE DEF d
  <2>6. Ends(d, f, t) /\ t \in Tails /\ d.provider # "running" /\ After(e, d)
    BY <2>1, <2>2, <2>5, PlainTails DEF Ends, After
  <2>7. IsOver(d, Replied(d))
    BY <2>4, <2>6, RepliedIs
  <2>. QED
    BY <2>3, <2>6, <2>7 DEF IsOver, After
<1>2. CASE e.stream /\ e.gone
  <2> DEFINE b == TearDown(e)
  <2>1. /\ b \in ExchangeRecs /\ After(e, b) /\ Listed(b.frames, {}, 0)
        /\ OnError(e) = StreamOver(b)
    BY <1>0, <1>2, TornDown DEF OnError
  <2> HIDE DEF b
  <2>2. IsOver(b, StreamOver(b))
    BY <2>1, GoneIs DEF After
  <2>. QED
    BY <2>1, <2>2 DEF IsOver, After
<1>3. CASE e.stream /\ ~e.gone
  <2> DEFINE d == [Send(e, <<<<"error">>>>) EXCEPT !.completed = TRUE]
  <2>1. /\ d \in ExchangeRecs /\ After(e, d)
        /\ \E f \in Seq(Frames), t \in Plain : Ends(d, f, t)
    BY <1>0, ErrorEnds
  <2>2. OnError(e) = StreamOver(d)
    BY <1>3 DEF OnError
  <2> HIDE DEF d
  <2>3. PICK f \in Seq(Frames), t \in Plain : Ends(d, f, t)
    BY <2>1
  <2>4. IsOver(d, StreamOver(d))
    BY <2>1, <2>3, PlainTails, StreamOverIs DEF IsOver, After, Plain
  <2>. QED
    BY <2>1, <2>2, <2>4 DEF IsOver, After
<1>. QED
  BY <1>1, <1>2, <1>3

LEMMA ThrewIs ==
  ASSUME NEW e \in ExchangeRecs, Flow(e), e.provider # "running"
  PROVE  /\ IsOver(e, StreamOver(Send(e, <<<<"error">>>>)))
         /\ IsOver(e, Replied(Send(e, <<<<"error">>>>)))
<1> DEFINE b == Send(e, <<<<"error">>>>)
<1>0. Listed(e.frames, {}, 0)
  BY DEF Flow
<1>1. b \in ExchangeRecs /\ After(e, b)
  BY <1>0, ErrorSent
<1>2. PICK f \in Seq(Frames), t \in Plain :
        b.frames = f \o t /\ ~Finishes(t) /\ \E told, count : Listed(f, told, count)
  BY <1>0, ErrorSent
<1> HIDE DEF b
<1>3. Ends(b, f, t) /\ t \in Tails /\ b.provider # "running"
  BY <1>1, <1>2, PlainTails DEF Ends, After
<1>4. IsOver(b, Replied(b))
  BY <1>1, <1>3, RepliedIs
<1>5. IsOver(b, StreamOver(b))
  BY <1>1, <1>3, StreamOverIs DEF IsOver, After, Plain
<1>. QED
  BY <1>1, <1>4, <1>5 DEF IsOver, After, b

-------------------------------------------------------------------------------
(* What each step does to an exchange.                                     *)
LEMMA NothingYet ==
  /\ <<>> \in Seq(Frames) /\ Listed(<<>>, {}, 0) /\ Laid(<<>>, State({}, {}, {}, 0))
<1>1. \A k : PlacesIn(<<>>, k) = {} /\ ItemsOf(<<>>, k) = {}
  BY DEF PlacesIn, ItemsOf
<1>2. IsFiniteSet({}) /\ Cardinality({}) = 0
  BY FS_EmptySet
<1>3. <<>> \in Seq(Frames) /\ Len(<<>>) = 0
  OBVIOUS
<1> DEFINE S == State({}, {}, {}, 0)
           f == <<>>
<1>5. S.opened = {} /\ S.shut = {} /\ S.told = {} /\ S.count = 0
  BY DEF State
<1>6. /\ f \in Seq(Frames) /\ IsFiniteSet({}) /\ Cardinality({}) = 0
      /\ PlacesIn(f, "call") = {} /\ ItemsOf(f, "call") = {}
      /\ PlacesIn(f, "open") = {} /\ ItemsOf(f, "open") = {}
      /\ PlacesIn(f, "shut") = {} /\ ItemsOf(f, "shut") = {}
      /\ PlacesIn(f, "text") = {} /\ 1..Len(f) = {}
  BY <1>1, <1>2, <1>3
<1> HIDE DEF S, f
<1>4. Listed(f, {}, 0)
  BY <1>6 DEF Listed
<1>7. Laid(f, S)
  BY <1>5, <1>6 DEF Laid
<1>. QED
  BY <1>3, <1>4, <1>7 DEF S, f

LEMMA DecidedIs ==
  ASSUME NEW e \in ExchangeRecs, e.phase \in {"idle", "asking"}, Life(e), NEW answer
  PROVE  /\ Decided(e, answer) \in ExchangeRecs /\ Life(Decided(e, answer))
         /\ answer = "listed" => /\ Decided(e, answer).phase = "running"
                                 /\ Decided(e, answer).provider = "running"
         /\ answer # "listed" => /\ Decided(e, answer).phase = "replied"
                                 /\ Decided(e, answer).provider = "none"
<1>0. /\ e.provider = "none" /\ ~e.aborted /\ ~e.cancelled /\ ~e.completed
      /\ e.calls = <<>> /\ e.items = 0 /\ e.open = NoItem /\ e.frames = <<>>
      /\ e.gone = e.late
  BY DEF Life
<1>1. CASE answer = "listed"
  <2> DEFINE b == [e EXCEPT !.phase = "running"]
             d == Begun(e)
  <2>1. /\ b \in ExchangeRecs /\ b.phase = "running" /\ ~b.aborted /\ ~b.cancelled /\ ~b.completed
        /\ b.calls = <<>> /\ b.items = 0 /\ b.open = NoItem /\ b.frames = <<>>
        /\ b.gone = b.late
    BY <1>0 DEF ExchangeRecs
  <2>2. d = [b EXCEPT !.provider = "running"]
    BY DEF Begun, ExchangeRecs
  <2> HIDE DEF b, d
  <2>3. /\ d \in ExchangeRecs /\ d.phase = "running" /\ d.provider = "running"
        /\ ~d.aborted /\ ~d.cancelled /\ ~d.completed
        /\ d.calls = <<>> /\ d.items = 0 /\ d.open = NoItem /\ d.frames = <<>>
        /\ d.gone = d.late
    BY <2>1, <2>2 DEF ExchangeRecs
  <2>4. TextItems(d) = {}
    BY <2>3 DEF TextItems
  <2>5. Distinct(d.calls) /\ Placed(d)
    BY <2>3 DEF Distinct, Placed
  <2>6. Flow(d)
    <3>1. Listed(d.frames, {}, 0) /\ TextItems(d) \ {d.open} = {}
      BY <2>3, <2>4, NothingYet
    <3>2. Laid(d.frames, State(TextItems(d), TextItems(d) \ {d.open}, {}, 0))
      BY <2>3, <2>4, <3>1, NothingYet
    <3>. QED
      BY <2>3, <2>5, <3>1, <3>2 DEF Flow, ExchangeRecs
  <2>7. Life(d)
    BY <2>3, <2>6 DEF Life
  <2>. QED
    BY <1>1, <2>3, <2>7 DEF Decided, d
<1>2. CASE answer # "listed"
  <2> DEFINE f == IF e.gone THEN <<>> ELSE <<<<"error">>>>
             b == WithFrames(e, f)
             d == Refused(e)
  <2>1. f \in Tails /\ f \in Seq(Frames) /\ ~Finishes(f) /\ <<>> \o f = f
    <3>1. f \in Tails /\ ~Finishes(f)
      BY DEF Tails, Finishes
    <3> HIDE DEF f
    <3>2. f \in Seq(Frames)
      BY <3>1, TailKinds
    <3>. QED
      BY <3>1, <3>2, ConcatEmptySeq
  <2>2. d = [b EXCEPT !.phase = "replied"]
    BY <1>0 DEF Refused, WithFrames, ExchangeRecs
  <2> HIDE DEF f, b, d
  <2>3. b \in ExchangeRecs /\ b.frames = f /\ b.provider = "none"
    BY <1>0, <2>1, WithFramesType DEF b
  <2>4. d \in ExchangeRecs /\ d.phase = "replied" /\ d.frames = f /\ d.provider = "none"
    BY <2>2, <2>3 DEF ExchangeRecs
  <2>5. Ends(d, <<>>, f)
    BY <2>1, <2>4, NothingYet DEF Ends
  <2>6. Life(d)
    BY <2>1, <2>4, <2>5, NothingYet DEF Life, Over, Shown
  <2>. QED
    BY <1>2, <2>4, <2>6 DEF Decided, d
<1>. QED
  BY <1>1, <1>2

Newcomer(surface, stream) == [Idle EXCEPT !.surface = surface, !.stream = stream]
Asking(e) == [e EXCEPT !.phase = "asking"]

LEMMA Arrived ==
  ASSUME NEW surface \in {"chat", "responses", "anthropic"}, NEW stream \in BOOLEAN
  PROVE  LET e == Newcomer(surface, stream) IN
         /\ e \in ExchangeRecs /\ e.phase = "idle" /\ Life(e)
         /\ Asking(e) \in ExchangeRecs /\ Life(Asking(e))
         /\ Asking(e).phase = "asking" /\ Asking(e).provider = "none"
<1> DEFINE b == [Idle EXCEPT !.surface = surface]
           e == [Idle EXCEPT !.surface = surface, !.stream = stream]
           d == [e EXCEPT !.phase = "asking"]
<1>0. <<>> \in Seq(CallRecs) /\ <<>> \in Seq(Frames)
  OBVIOUS
<1>1. /\ Idle \in ExchangeRecs /\ Idle.phase = "idle" /\ Life(Idle)
  BY <1>0 DEF Idle, ExchangeRecs, Life, NoItem
<1> DEFINE i == Idle
<1>2. i \in ExchangeRecs /\ i.phase = "idle" /\ Life(i)
  BY <1>1
<1>3. b = [i EXCEPT !.surface = surface] /\ e = [b EXCEPT !.stream = stream]
  BY <1>1 DEF ExchangeRecs
<1> HIDE DEF i, b, e
<1>4. /\ b \in ExchangeRecs /\ b.phase = "idle" /\ Life(b)
  BY <1>2, <1>3 DEF ExchangeRecs, Life
<1>5. /\ e \in ExchangeRecs /\ e.phase = "idle" /\ Life(e)
  BY <1>3, <1>4 DEF ExchangeRecs, Life
<1>6. /\ d \in ExchangeRecs /\ d.phase = "asking" /\ Life(d) /\ d.provider = "none"
  BY <1>5 DEF ExchangeRecs, Life
<1>. QED
  BY <1>5, <1>6 DEF e, Newcomer, Asking

(* The provider's run ends for good, or is left.                           *)
LEMMA ProviderIs ==
  ASSUME NEW e \in ExchangeRecs, Flow(e),
         NEW p \in {"completed", "failed", "threw", "ended", "left"}
  PROVE  LET d == [e EXCEPT !.provider = p] IN
         /\ d \in ExchangeRecs /\ Flow(d) /\ d.provider = p /\ p # "running"
         /\ d.gone = e.gone /\ d.late = e.late /\ d.stream = e.stream
         /\ d.aborted = e.aborted /\ d.surface = e.surface
<1> DEFINE d == [e EXCEPT !.provider = p]
<1>1. /\ d \in ExchangeRecs /\ d.provider = p /\ p # "running"
      /\ d.gone = e.gone /\ d.late = e.late /\ d.stream = e.stream /\ d.surface = e.surface
      /\ d.aborted = e.aborted /\ d.cancelled = e.cancelled /\ d.completed = e.completed
      /\ d.calls = e.calls /\ d.items = e.items /\ d.open = e.open /\ d.frames = e.frames
  BY DEF ExchangeRecs
<1> HIDE DEF d
<1>2. TextItems(d) = TextItems(e) /\ Placed(d) /\ Distinct(d.calls)
  BY <1>1, SameItems DEF Flow
<1>3. Flow(d)
  BY <1>1, <1>2 DEF Flow
<1>. QED
  BY <1>1, <1>3 DEF d

(* The client goes away from a run.                                        *)
LEMMA HungUp ==
  ASSUME NEW e \in ExchangeRecs, Flow(e), ~e.gone
  PROVE  LET d == OnClose([e EXCEPT !.gone = TRUE]) IN
         /\ d \in ExchangeRecs /\ Flow(d)
         /\ d.provider = e.provider /\ d.gone /\ ~d.late /\ d.stream = e.stream
         /\ d.phase = e.phase
<1> DEFINE a == [e EXCEPT !.gone = TRUE]
           d == TearDown(a)
<1>1. /\ a \in ExchangeRecs /\ a.provider = e.provider /\ a.gone
      /\ a.late = e.late /\ a.stream = e.stream /\ a.surface = e.surface /\ a.phase = e.phase
      /\ a.completed = e.completed
      /\ a.calls = e.calls /\ a.items = e.items /\ a.open = e.open /\ a.frames = e.frames
  BY DEF ExchangeRecs
<1>2. OnClose(a) = d
  BY <1>1 DEF OnClose, Flow
<1> HIDE DEF a
<1> DEFINE b == [a EXCEPT !.aborted = TRUE]
<1>3. d = [b EXCEPT !.cancelled = TRUE]
  BY <1>1 DEF TearDown, ExchangeRecs
<1>4. /\ b \in ExchangeRecs /\ b.provider = a.provider /\ b.gone /\ b.aborted
      /\ b.late = a.late /\ b.stream = a.stream /\ b.surface = a.surface /\ b.phase = a.phase
      /\ b.completed = a.completed
      /\ b.calls = a.calls /\ b.items = a.items /\ b.open = a.open /\ b.frames = a.frames
  BY <1>1 DEF ExchangeRecs
<1> HIDE DEF b, d
<1>5. /\ d \in ExchangeRecs /\ d.provider = b.provider /\ d.gone /\ d.aborted /\ d.cancelled
      /\ d.late = b.late /\ d.stream = b.stream /\ d.surface = b.surface /\ d.phase = b.phase
      /\ d.completed = b.completed
      /\ d.calls = b.calls /\ d.items = b.items /\ d.open = b.open /\ d.frames = b.frames
  BY <1>3, <1>4 DEF ExchangeRecs
<1>6. /\ d.provider = e.provider /\ d.late = e.late /\ d.stream = e.stream
      /\ d.surface = e.surface /\ d.phase = e.phase /\ d.completed = e.completed
      /\ d.calls = e.calls /\ d.items = e.items /\ d.open = e.open /\ d.frames = e.frames
  BY <1>1, <1>4, <1>5
<1>7. TextItems(d) = TextItems(e) /\ Placed(d) /\ Distinct(d.calls)
  BY <1>6, SameItems DEF Flow
<1>8. ~e.late /\ ~d.late
  BY <1>6 DEF Flow
<1>9. Flow(d)
  BY <1>5, <1>6, <1>7, <1>8 DEF Flow
<1>. QED
  BY <1>2, <1>5, <1>6, <1>8, <1>9 DEF a

LEMMA ClosedIs ==
  ASSUME NEW e \in ExchangeRecs, Over(e)
  PROVE  LET d == [AfterReply(e) EXCEPT !.phase = "closed"] IN
         /\ d \in ExchangeRecs /\ Life(d) /\ After(e, d) /\ d.phase = "closed"
<1> DEFINE b == AfterReply(e)
           d == [b EXCEPT !.phase = "closed"]
<1>1. /\ b \in ExchangeRecs /\ After(e, b) /\ b.frames = e.frames /\ b.completed = e.completed
      /\ b.calls = e.calls /\ b.items = e.items
      /\ b.completed => b.cancelled = e.cancelled
  <2>1. b = e \/ (b = TearDown(e) /\ ~e.completed)
    BY DEF AfterReply, OnClose
  <2> HIDE DEF b
  <2>2. CASE b = e
    BY <2>2 DEF After
  <2>3. CASE b = TearDown(e) /\ ~e.completed
    BY <2>3, TornDown
  <2>. QED
    BY <2>1, <2>2, <2>3
<1> HIDE DEF b
<1>2. /\ d \in ExchangeRecs /\ After(b, d) /\ d.phase = "closed" /\ d.frames = b.frames
      /\ d.completed = b.completed /\ d.cancelled = b.cancelled
      /\ d.calls = b.calls /\ d.items = b.items
  BY <1>1 DEF ExchangeRecs, After
<1> HIDE DEF d
<1>3. /\ After(e, d) /\ d.frames = e.frames /\ d.completed = e.completed
      /\ d.calls = e.calls /\ d.items = e.items
      /\ d.completed => d.cancelled = e.cancelled
  BY <1>1, <1>2 DEF After
<1>4. PICK f \in Seq(Frames), t \in Tails : Ends(e, f, t)
  BY DEF Over, Shown
<1>5. Finishes(t) => Whole(d, f)
  <2>1. SUFFICES ASSUME Finishes(t) PROVE Whole(d, f)
    OBVIOUS
  <2>2. Whole(e, f) /\ e.completed
    BY <1>4, <2>1 DEF Ends, Whole
  <2>. QED
    BY <1>3, <2>2, WholeSame DEF After
<1>6. Ends(d, f, t)
  BY <1>3, <1>4, <1>5 DEF Ends
<1>7. Life(d)
  BY <1>2, <1>3, <1>6 DEF Life, Over, Shown, After
<1>. QED
  BY <1>2, <1>3, <1>7 DEF d, b

-------------------------------------------------------------------------------
(* The usage store.                                                        *)
Recs == Exchanges \X Outcomes

(* One more record: the oldest goes when there are too many.               *)
LEMMA KeptIs ==
  ASSUME NEW R \in Seq(Recs), Len(R) <= MaxRecords, NEW p \in Recs
  PROVE  LET K == Kept(Append(R, p)) IN
         /\ K \in Seq(Recs) /\ Len(K) <= MaxRecords
         /\ Len(K) < MaxRecords => Len(K) = Len(R) + 1
         /\ Len(K) >= 1 /\ K[Len(K)] = p
         /\ \E s \in 0..1 : /\ Len(K) = Len(R) + 1 - s
                            /\ \A i \in 1..(Len(K) - 1) : i + s \in 1..Len(R) /\ K[i] = R[i + s]
<1> DEFINE n == Len(R)
           A == Append(R, p)
           K == Kept(A)
<1>1. n \in Nat /\ n = Len(R) /\ MaxRecords \in Nat /\ MaxRecords >= 1
  BY LenProperties, BoundsAssumption
<1>2. /\ A \in Seq(Recs) /\ Len(A) = n + 1 /\ A[n + 1] = p
      /\ \A i \in 1..n : A[i] = R[i]
  BY AppendProperties
<1> HIDE DEF A, n
<1>3. CASE n + 1 <= MaxRecords
  <2>1. K = A
    BY <1>1, <1>2, <1>3 DEF Kept
  <2> HIDE DEF K
  <2>2. K \in Seq(Recs) /\ Len(K) = n + 1 /\ K[n + 1] = p /\ \A i \in 1..n : K[i] = R[i]
    BY <1>2, <2>1
  <2>3. Len(K) - 1 = n /\ Len(K) >= 1 /\ Len(K) <= MaxRecords /\ Len(K) = n + 1 - 0
    BY <1>1, <1>3, <2>2
  <2>4. \A i \in 1..n : i + 0 \in 1..n /\ K[i] = R[i + 0]
    BY <1>1, <2>2
  <2>. QED
    BY <1>1, <2>2, <2>3, <2>4 DEF K, A
<1>4. CASE ~(n + 1 <= MaxRecords)
  <2>1. n = MaxRecords
    BY <1>1, <1>4
  <2>2. K = SubSeq(A, 2, n + 1)
    <3>1. Len(A) > MaxRecords /\ Len(A) - MaxRecords + 1 = 2 /\ Len(A) = n + 1
      BY <1>1, <1>2, <2>1
    <3>. QED
      BY <3>1 DEF Kept
  <2> HIDE DEF K
  <2>3. \A i \in 2..(n + 1) : A[i] \in Recs
    <3>1. \A i \in 2..(n + 1) : i \in 1..Len(A)
      BY <1>1, <1>2
    <3>. QED
      BY <1>2, <3>1, ElementOfSeq
  <2>4. /\ K \in Seq(Recs) /\ Len(K) = n /\ \A i \in 1..n : K[i] = A[i + 1]
    <3>1. K = [i \in 1..n |-> A[i + 1]]
      <4>1. K = [i \in 1..(n + 1) - 2 + 1 |-> A[i + 2 - 1]]
        BY <1>1, <2>2
      <4>2. (n + 1) - 2 + 1 = n /\ \A i \in 1..n : i + 2 - 1 = i + 1
        BY <1>1
      <4>. QED
        BY <4>1, <4>2
    <3>2. \A i \in 1..n : i + 1 \in 2..(n + 1)
      BY <1>1
    <3>. QED
      BY <1>1, <2>3, <3>1, <3>2
  <2>5. K[n] = p /\ Len(K) >= 1 /\ Len(K) <= MaxRecords /\ Len(K) = n + 1 - 1
    <3>1. n \in 1..n
      BY <1>1, <2>1
    <3>. QED
      BY <1>1, <1>2, <2>1, <2>4, <3>1
  <2>6. \A i \in 1..(n - 1) : i + 1 \in 1..n /\ K[i] = R[i + 1]
    <3>1. \A i \in 1..(n - 1) : i \in 1..n /\ i + 1 \in 1..n
      BY <1>1
    <3>. QED
      BY <1>2, <2>4, <3>1
  <2>. QED
    BY <1>1, <2>1, <2>4, <2>5, <2>6 DEF K, A
<1>. QED
  BY <1>3, <1>4

(* A step of one exchange that the store does not see.                     *)
LEMMA StoreKept ==
  ASSUME x \in [Exchanges -> ExchangeRecs], Store, UNCHANGED <<active, records>>,
         NEW r \in Exchanges, NEW d, x' = [x EXCEPT ![r] = d],
         d.provider # "none" <=> x[r].provider # "none",
         x[r].provider = "completed" => d.provider = "completed",
         x[r].gone /\ ~x[r].late => d.gone /\ ~d.late,
         d.phase = "running" => x[r].phase = "running",
         d.phase # "running" /\ r \in active => d.gone /\ d.late /\ d.stream
  PROVE  Store'
<1>1. x' \in [Exchanges -> ExchangeRecs \cup {d}] /\ x'[r] = d
      /\ \A q \in Exchanges : q # r => x'[q] = x[q]
  OBVIOUS
<1>2. \A i \in 1..Len(records) : records[i][1] \in Exchanges
  <2>1. \A i \in 1..Len(records) : records[i] \in Exchanges \X Outcomes
    BY ElementOfSeq DEF Store
  <2>. QED
    BY <2>1
<1>3. active' = active /\ records' = records
  OBVIOUS
<1>4. \A q \in Exchanges : /\ (x'[q].provider # "none" <=> x[q].provider # "none")
                           /\ x[q].provider = "completed" => x'[q].provider = "completed"
                           /\ x[q].gone /\ ~x[q].late => x'[q].gone /\ ~x'[q].late
                           /\ x'[q].phase = "running" => x[q].phase = "running"
  BY <1>1
<1>5. \A q \in active : x'[q].phase # "running" => x'[q].gone /\ x'[q].late /\ x'[q].stream
  BY <1>1 DEF Store
<1>6. \A i \in 1..Len(records) :
       /\ x'[records[i][1]].provider # "none"
       /\ records[i][2] = "success" => x'[records[i][1]].provider = "completed"
       /\ records[i][2] = "cancelled" => x'[records[i][1]].gone /\ ~x'[records[i][1]].late
  BY <1>2, <1>4 DEF Store, Reached
<1>7. /\ \A q \in Exchanges : x'[q].phase = "running" => q \in active
      /\ \A q \in active : x'[q].provider # "none"
      /\ Len(records) < MaxRecords =>
           \A q \in Exchanges : x'[q].provider # "none" =>
             q \in active \/ \E i \in 1..Len(records) : records[i][1] = q
  BY <1>4 DEF Store, Reached
<1>. QED
  BY <1>3, <1>5, <1>6, <1>7 DEF Store, Reached

(* The provider's run begins.                                              *)
LEMMA StoreBegun ==
  ASSUME x \in [Exchanges -> ExchangeRecs], Store, NEW r \in Exchanges,
         active' = active \cup {r}, UNCHANGED records, NEW d, x' = [x EXCEPT ![r] = d],
         x[r].provider = "none", d.provider = "running", d.phase = "running"
  PROVE  Store'
<1>1. x'[r] = d /\ \A q \in Exchanges : q # r => x'[q] = x[q]
  OBVIOUS
<1>2. \A i \in 1..Len(records) : records[i][1] \in Exchanges /\ records[i][1] # r
  <2>1. \A i \in 1..Len(records) : records[i] \in Exchanges \X Outcomes
    BY ElementOfSeq DEF Store
  <2>2. \A i \in 1..Len(records) : records[i][1] # r
    BY DEF Store, Reached
  <2>. QED
    BY <2>1, <2>2
<1>3. \A i \in 1..Len(records) : x'[records[i][1]] = x[records[i][1]]
  BY <1>1, <1>2
<1>4. \A i \in 1..Len(records) :
       /\ x'[records[i][1]].provider # "none"
       /\ records[i][2] = "success" => x'[records[i][1]].provider = "completed"
       /\ records[i][2] = "cancelled" => x'[records[i][1]].gone /\ ~x'[records[i][1]].late
  BY <1>3 DEF Store, Reached
<1>5. \A q \in active \cup {r} :
       /\ x'[q].provider # "none"
       /\ \A i \in 1..Len(records) : records[i][1] # q
       /\ x'[q].phase # "running" => x'[q].gone /\ x'[q].late /\ x'[q].stream
  <2>1. CASE TRUE
    <3>1. ASSUME NEW q \in active, q # r
          PROVE  /\ x'[q].provider # "none"
                 /\ \A i \in 1..Len(records) : records[i][1] # q
                 /\ x'[q].phase # "running" => x'[q].gone /\ x'[q].late /\ x'[q].stream
      BY <1>1, <3>1 DEF Store, Reached
    <3>. QED
      BY <1>1, <1>2, <3>1
  <2>. QED
    BY <2>1
<1>6. /\ \A q \in Exchanges : x'[q].phase = "running" => q \in active \cup {r}
      /\ Len(records) < MaxRecords =>
           \A q \in Exchanges : x'[q].provider # "none" =>
             q \in active \cup {r} \/ \E i \in 1..Len(records) : records[i][1] = q
  BY <1>1 DEF Store, Reached
<1>. QED
  BY <1>4, <1>5, <1>6 DEF Store, Reached

(* The request ends, once: it was active, so it has no record.             *)
LEMMA StoreEnded ==
  ASSUME x \in [Exchanges -> ExchangeRecs], Store,
         NEW r \in Exchanges, x[r].phase = "running", x[r].provider # "none",
         NEW outcome \in Outcomes, EndOnce(r, outcome),
         NEW d, x' = [x EXCEPT ![r] = d], d.phase # "running", d.provider # "none",
         outcome = "success" => d.provider = "completed",
         outcome = "cancelled" => d.gone /\ ~d.late
  PROVE  Store'
<1> DEFINE K == Kept(Append(records, <<r, outcome>>))
           n == Len(records)
           m == Len(K)
<1>1. x'[r] = d /\ \A q \in Exchanges : q # r => x'[q] = x[q]
  OBVIOUS
<1>2. /\ records \in Seq(Recs) /\ n <= MaxRecords /\ <<r, outcome>> \in Recs
      /\ r \in active /\ n \in Nat /\ n = Len(records)
      /\ \A i \in 1..n : records[i][1] # r
  BY LenProperties DEF Store, Recs
<1>3. /\ K \in Seq(Recs) /\ m <= MaxRecords /\ (m < MaxRecords => m = n + 1)
      /\ m >= 1 /\ K[m] = <<r, outcome>> /\ m \in Nat /\ m = Len(K)
  BY <1>2, KeptIs, LenProperties
<1>4. PICK s \in 0..1 : /\ m = n + 1 - s
                        /\ \A i \in 1..(m - 1) : i + s \in 1..n /\ K[i] = records[i + s]
  BY <1>2, KeptIs
<1>5. records' = K /\ active' = active \ {r}
  BY DEF EndOnce
<1> HIDE DEF K, n, m
<1>6. \A i \in 1..m : i = m \/ i \in 1..(m - 1)
  BY <1>3
<1>7. \A i \in 1..n : records[i][1] \in Exchanges
  <2>1. \A i \in 1..n : records[i] \in Recs
    BY <1>2, ElementOfSeq
  <2>. QED
    BY <2>1 DEF Recs
<1>8. K[m][1] = r /\ K[m][2] = outcome
  BY <1>3
<1>9. \A i \in 1..(m - 1) : K[i][1] \in Exchanges /\ K[i][1] # r /\ K[i][1] \notin active
  BY <1>2, <1>4, <1>7 DEF Store
<1>10. ASSUME NEW i \in 1..m, NEW j \in 1..m, K[i][1] = K[j][1] PROVE i = j
  <2>1. CASE i = m \/ j = m
    BY <1>6, <1>8, <1>9, <1>10, <2>1
  <2>2. CASE i \in 1..(m - 1) /\ j \in 1..(m - 1)
    <3>1. i + s = j + s
      BY <1>2, <1>4, <1>10, <2>2 DEF Store
    <3>. QED
      BY <1>4, <3>1
  <2>. QED
    BY <1>6, <2>1, <2>2
<1>11. ASSUME NEW i \in 1..m
       PROVE  /\ x'[K[i][1]].provider # "none"
              /\ K[i][2] = "success" => x'[K[i][1]].provider = "completed"
              /\ K[i][2] = "cancelled" => x'[K[i][1]].gone /\ ~x'[K[i][1]].late
  <2>1. CASE i = m
    BY <1>1, <1>8, <2>1
  <2>2. CASE i \in 1..(m - 1)
    <3>1. /\ K[i] = records[i + s] /\ i + s \in 1..Len(records)
          /\ x'[K[i][1]] = x[K[i][1]]
      BY <1>1, <1>2, <1>4, <1>9, <2>2
    <3>. QED
      BY <3>1 DEF Store, Reached
  <2>. QED
    BY <1>6, <2>1, <2>2
<1>12. ASSUME NEW q \in active \ {r}
       PROVE  /\ q \in Exchanges /\ x'[q].provider # "none"
              /\ \A i \in 1..m : K[i][1] # q
              /\ x'[q].phase # "running" => x'[q].gone /\ x'[q].late /\ x'[q].stream
  <2>1. q \in Exchanges /\ x'[q] = x[q]
    BY <1>1 DEF Store
  <2>2. \A i \in 1..m : K[i][1] # q
    BY <1>6, <1>8, <1>9
  <2>. QED
    BY <2>1, <2>2 DEF Store, Reached
<1>13. ASSUME NEW q \in Exchanges
       PROVE  /\ x'[q].phase = "running" => q \in active \ {r}
              /\ m < MaxRecords /\ x'[q].provider # "none" =>
                   q \in active \ {r} \/ \E i \in 1..m : K[i][1] = q
  <2>1. CASE q = r
    <3>1. m \in 1..m
      BY <1>3
    <3>. QED
      BY <1>1, <1>8, <2>1, <3>1
  <2>2. CASE q # r
    <3>1. x'[q] = x[q] /\ (x[q].phase = "running" => q \in active)
      BY <1>1, <2>2 DEF Store
    <3>2. ASSUME m < MaxRecords, x[q].provider # "none", q \notin active
          PROVE  \E i \in 1..m : K[i][1] = q
      <4>1. n < MaxRecords /\ s = 0 /\ m = n + 1
        <5>1. m = n + 1 /\ MaxRecords \in Nat
          BY <1>3, <3>2, BoundsAssumption
        <5>2. m = n + 1 - s /\ s \in 0..1
          BY <1>4
        <5>. QED
          BY <1>2, <1>3, <3>2, <5>1, <5>2
      <4>2. PICK i \in 1..n : records[i][1] = q
        BY <1>2, <3>2, <4>1 DEF Store, Reached
      <4>3. i \in 1..(m - 1) /\ i + s = i /\ i \in 1..m
        BY <1>2, <4>1
      <4>. QED
        BY <1>4, <4>2, <4>3
    <3>. QED
      BY <2>2, <3>1, <3>2
  <2>. QED
    BY <2>1, <2>2
<1>14. active \ {r} \subseteq Exchanges
  BY DEF Store
<1>15. m = Len(records')
  BY <1>3, <1>5
<1> DEFINE A == active \ {r}
<1>16. /\ active' = A /\ records' = K
       /\ A \subseteq Exchanges
       /\ K \in Seq(Exchanges \X Outcomes) /\ Len(K) <= MaxRecords
       /\ \A i, j \in 1..Len(K) : K[i][1] = K[j][1] => i = j
       /\ \A q \in Exchanges : x'[q].phase = "running" => q \in A
  BY <1>3, <1>5, <1>10, <1>13, <1>14 DEF Recs
<1>17. /\ \A q \in A :
            /\ x'[q].provider # "none"
            /\ \A i \in 1..Len(K) : K[i][1] # q
            /\ x'[q].phase # "running" => x'[q].gone /\ x'[q].late /\ x'[q].stream
       /\ \A i \in 1..Len(K) :
            /\ x'[K[i][1]].provider # "none"
            /\ K[i][2] = "success" => x'[K[i][1]].provider = "completed"
            /\ K[i][2] = "cancelled" => x'[K[i][1]].gone /\ ~x'[K[i][1]].late
  BY <1>3, <1>11, <1>12
<1>18. Len(K) < MaxRecords =>
         \A q \in Exchanges : x'[q].provider # "none" =>
           q \in A \/ \E i \in 1..Len(K) : K[i][1] = q
  BY <1>3, <1>13
<1> HIDE DEF A
<1>. QED
  BY <1>16, <1>17, <1>18 DEF Store, Reached

-------------------------------------------------------------------------------
(* Every step keeps the inductive invariant.                               *)
LEMMA OneTyped ==
  ASSUME Typed, NEW r \in Exchanges, NEW d \in ExchangeRecs, Life(d),
         x' = [x EXCEPT ![r] = d], events' \in Nat, UNCHANGED cache
  PROVE  Typed'
<1>1. x' \in [Exchanges -> ExchangeRecs]
  BY DEF Typed
<1>2. \A q \in Exchanges : x'[q] = IF q = r THEN d ELSE x[q]
  BY DEF Typed
<1>3. \A q \in Exchanges : Life(x'[q])
  BY <1>2 DEF Typed
<1>. QED
  BY <1>1, <1>3 DEF Typed

LEMMA RunningIs ==
  ASSUME IInv, NEW r \in Exchanges, x[r].phase = "running"
  PROVE  /\ x[r] \in ExchangeRecs /\ Flow(x[r]) /\ x[r].provider = "running"
         /\ r \in active /\ (x[r].aborted <=> x[r].gone /\ ~x[r].late)
<1>1. x[r] \in ExchangeRecs /\ Life(x[r]) /\ r \in active
  BY DEF IInv, Typed, Store
<1>2. Flow(x[r]) /\ x[r].provider = "running"
  BY <1>1 DEF Life
<1>3. x[r].aborted <=> x[r].gone /\ ~x[r].late
  BY <1>2 DEF Flow
<1>. QED
  BY <1>1, <1>2, <1>3

(* The request ends with the step, and the exchange is over.               *)
LEMMA OverStep ==
  ASSUME IInv, NEW r \in Exchanges, x[r].phase = "running",
         NEW outcome \in Outcomes, EndOnce(r, outcome),
         NEW e, NEW d, IsOver(e, d), x' = [x EXCEPT ![r] = d],
         e.gone = x[r].gone, e.late = x[r].late, e.provider # "none",
         outcome = "success" => e.provider = "completed",
         outcome = "cancelled" => x[r].aborted,
         events' \in Nat, UNCHANGED cache
  PROVE  IInv'
<1>1. /\ x \in [Exchanges -> ExchangeRecs] /\ x[r].provider # "none"
      /\ (x[r].aborted <=> x[r].gone /\ ~x[r].late)
  BY RunningIs DEF IInv, Typed
<1>2. /\ d \in ExchangeRecs /\ d.phase = "replied" /\ Over(d) /\ d.gone = e.gone
      /\ d.late = e.late /\ d.provider = e.provider
  BY DEF IsOver, After
<1>3. Life(d)
  BY <1>2 DEF Life
<1>4. Typed'
  BY <1>2, <1>3, OneTyped DEF IInv
<1>5. Store'
  BY <1>1, <1>2, StoreEnded, ZenonT(60) DEF IInv
<1>. QED
  BY <1>4, <1>5 DEF IInv

LEMMA ArriveStep ==
  ASSUME IInv, NEW a \in Asks, Arrive(a[1], a[2], a[3])
  PROVE  IInv'
<1>1. /\ a[1] \in Exchanges /\ a[2] \in {"chat", "responses", "anthropic"}
      /\ a[3] \in BOOLEAN
  BY AsksAssumption
<1>0. PICK r \in Exchanges, surface \in {"chat", "responses", "anthropic"}, stream \in BOOLEAN :
        a[1] = r /\ a[2] = surface /\ a[3] = stream
  BY <1>1
<1> DEFINE e == Newcomer(surface, stream)
           d == Asking(e)
<1>2. /\ e \in ExchangeRecs /\ e.phase = "idle" /\ Life(e)
      /\ d \in ExchangeRecs /\ Life(d) /\ d.phase = "asking" /\ d.provider = "none"
  BY Arrived
<1>3. /\ x[r].phase = "idle" /\ UNCHANGED <<cache, records, events>>
      /\ IF cache.answer # "none" /\ cache.fresh
         THEN /\ x' = [x EXCEPT ![r] = Decided(e, cache.answer)]
              /\ active' = Tracking(r, cache.answer)
         ELSE /\ x' = [x EXCEPT ![r] = d]
              /\ UNCHANGED active
  BY <1>0 DEF Arrive, Newcomer, Asking
<1> HIDE DEF e, d
<1>4. /\ x \in [Exchanges -> ExchangeRecs] /\ x[r].provider = "none" /\ r \notin active
      /\ ~(x[r].gone /\ ~x[r].late) /\ events' \in Nat
  BY <1>1, <1>3 DEF IInv, Typed, Life, Store, Reached
<1>5. CASE cache.answer # "none" /\ cache.fresh
  <2> DEFINE D == Decided(e, cache.answer)
  <2>1. /\ D \in ExchangeRecs /\ Life(D) /\ x' = [x EXCEPT ![r] = D]
        /\ cache.answer = "listed" => D.phase = "running" /\ D.provider = "running"
        /\ cache.answer # "listed" => D.phase = "replied" /\ D.provider = "none"
    BY <1>2, <1>3, <1>5, DecidedIs
  <2> HIDE DEF D
  <2>2. Typed'
    BY <1>1, <1>3, <1>4, <2>1, OneTyped DEF IInv
  <2>3. CASE cache.answer = "listed"
    <3>1. active' = active \cup {r}
      BY <1>3, <1>5, <2>3 DEF Tracking
    <3>2. Store'
      BY <1>1, <1>3, <1>4, <2>1, <2>3, <3>1, StoreBegun DEF IInv
    <3>. QED
      BY <2>2, <3>2 DEF IInv
  <2>4. CASE cache.answer # "listed"
    <3>1. active' = active
      BY <1>3, <1>5, <2>4 DEF Tracking
    <3>2. Store'
      BY <1>1, <1>3, <1>4, <2>1, <2>4, <3>1, StoreKept DEF IInv
    <3>. QED
      BY <2>2, <3>2 DEF IInv
  <2>. QED
    BY <2>3, <2>4
<1>6. CASE ~(cache.answer # "none" /\ cache.fresh)
  <2>1. x' = [x EXCEPT ![r] = d] /\ active' = active
    BY <1>3, <1>6
  <2>2. Typed'
    BY <1>1, <1>2, <1>3, <1>4, <2>1, OneTyped DEF IInv
  <2>3. Store'
    BY <1>1, <1>2, <1>3, <1>4, <2>1, StoreKept DEF IInv
  <2>. QED
    BY <2>2, <2>3 DEF IInv
<1>. QED
  BY <1>5, <1>6

LEMMA DiscoveredStep ==
  ASSUME IInv, NEW r \in Exchanges, NEW answer \in Answers, Discovered(r, answer)
  PROVE  IInv'
<1> DEFINE e == x[r]
           D == Decided(e, answer)
<1>1. /\ e.phase = "asking" /\ x' = [x EXCEPT ![r] = D]
      /\ cache' = [answer |-> answer, fresh |-> TRUE]
      /\ active' = Tracking(r, answer) /\ records' = records /\ events' = events
  BY DEF Discovered
<1>2. /\ e \in ExchangeRecs /\ Life(e) /\ x \in [Exchanges -> ExchangeRecs]
      /\ e.provider = "none" /\ r \notin active /\ ~(e.gone /\ ~e.late)
  BY <1>1 DEF IInv, Typed, Life, Store, Reached
<1>3. /\ D \in ExchangeRecs /\ Life(D)
      /\ answer = "listed" => D.phase = "running" /\ D.provider = "running"
      /\ answer # "listed" => D.phase = "replied" /\ D.provider = "none"
  BY <1>1, <1>2, DecidedIs
<1> HIDE DEF D
<1>4. Typed'
  <2>1. \A q \in Exchanges : x'[q] = IF q = r THEN D ELSE x[q]
    BY <1>1, <1>2
  <2>2. x' \in [Exchanges -> ExchangeRecs] /\ \A q \in Exchanges : Life(x'[q])
    BY <1>1, <1>2, <1>3, <2>1 DEF IInv, Typed
  <2>3. cache' \in [answer : Answers \cup {"none"}, fresh : BOOLEAN] /\ cache'.answer # "none"
    BY <1>1 DEF Answers
  <2>. QED
    BY <1>1, <2>2, <2>3 DEF IInv, Typed
<1>5. CASE answer = "listed"
  <2>1. active' = active \cup {r}
    BY <1>1, <1>5 DEF Tracking
  <2>2. Store'
    BY <1>1, <1>2, <1>3, <1>5, <2>1, StoreBegun DEF IInv
  <2>. QED
    BY <1>4, <2>2 DEF IInv
<1>6. CASE answer # "listed"
  <2>1. active' = active
    BY <1>1, <1>6 DEF Tracking
  <2>2. Store'
    BY <1>1, <1>2, <1>3, <1>6, <2>1, StoreKept DEF IInv
  <2>. QED
    BY <1>4, <2>2 DEF IInv
<1>. QED
  BY <1>5, <1>6

LEMMA HangUpStep ==
  ASSUME IInv, NEW r \in Exchanges, HangUp(r)
  PROVE  IInv'
<1> DEFINE e == x[r]
<1>1. /\ e.phase \in {"asking", "running"} /\ ~e.gone
      /\ x' = [x EXCEPT ![r] = IF e.phase = "asking"
                               THEN [e EXCEPT !.gone = TRUE, !.late = TRUE]
                               ELSE OnClose([e EXCEPT !.gone = TRUE])]
      /\ UNCHANGED <<cache, active, records, events>>
  BY DEF HangUp
<1>2. e \in ExchangeRecs /\ Life(e) /\ x \in [Exchanges -> ExchangeRecs] /\ events \in Nat
  BY DEF IInv, Typed
<1>3. CASE e.phase = "asking"
  <2> DEFINE b == [e EXCEPT !.gone = TRUE]
             d == [e EXCEPT !.gone = TRUE, !.late = TRUE]
  <2>1. d = [b EXCEPT !.late = TRUE] /\ x' = [x EXCEPT ![r] = d]
    BY <1>1, <1>2, <1>3 DEF ExchangeRecs
  <2>2. /\ b \in ExchangeRecs /\ b.phase = "asking" /\ b.gone
        /\ b.provider = "none" /\ ~b.aborted /\ ~b.cancelled /\ ~b.completed
        /\ b.calls = <<>> /\ b.items = 0 /\ b.open = NoItem /\ b.frames = <<>>
    BY <1>2, <1>3 DEF ExchangeRecs, Life
  <2> HIDE DEF b, d
  <2>3. /\ d \in ExchangeRecs /\ d.phase = "asking" /\ d.gone /\ d.late
        /\ d.provider = "none" /\ ~d.aborted /\ ~d.cancelled /\ ~d.completed
        /\ d.calls = <<>> /\ d.items = 0 /\ d.open = NoItem /\ d.frames = <<>>
    BY <2>1, <2>2 DEF ExchangeRecs
  <2>4. Life(d) /\ e.provider = "none" /\ r \notin active
    BY <1>2, <1>3, <2>3 DEF Life, IInv, Store, Reached
  <2>5. Typed'
    BY <1>1, <1>2, <2>1, <2>3, <2>4, OneTyped DEF IInv
  <2>6. Store'
    BY <1>1, <1>2, <2>1, <2>3, <2>4, StoreKept DEF IInv
  <2>. QED
    BY <2>5, <2>6 DEF IInv
<1>4. CASE e.phase = "running"
  <2> DEFINE d == OnClose([e EXCEPT !.gone = TRUE])
  <2>1. Flow(e) /\ e.provider = "running"
    BY <1>4, RunningIs
  <2>2. /\ d \in ExchangeRecs /\ Flow(d) /\ d.provider = e.provider /\ d.gone /\ ~d.late
        /\ d.phase = e.phase
    BY <1>1, <1>2, <2>1, HungUp
  <2>3. x' = [x EXCEPT ![r] = d]
    BY <1>1, <1>4
  <2> HIDE DEF d
  <2>4. Life(d)
    BY <1>4, <2>1, <2>2 DEF Life
  <2>5. Typed'
    BY <1>1, <1>2, <2>2, <2>3, <2>4, OneTyped DEF IInv
  <2>6. Store'
    BY <1>1, <1>2, <1>4, <2>1, <2>2, <2>3, StoreKept DEF IInv
  <2>. QED
    BY <2>5, <2>6 DEF IInv
<1>. QED
  BY <1>1, <1>3, <1>4

LEMMA CloseStep ==
  ASSUME IInv, NEW r \in Exchanges, Close(r)
  PROVE  IInv'
<1> DEFINE e == x[r]
           d == [AfterReply(e) EXCEPT !.phase = "closed"]
<1>1. /\ e.phase = "replied" /\ x' = [x EXCEPT ![r] = d]
      /\ UNCHANGED <<cache, active, records, events>>
  BY DEF Close
<1>2. /\ e \in ExchangeRecs /\ Over(e) /\ x \in [Exchanges -> ExchangeRecs] /\ events \in Nat
  BY <1>1 DEF IInv, Typed, Life
<1>3. d \in ExchangeRecs /\ Life(d) /\ After(e, d) /\ d.phase = "closed"
  BY <1>2, ClosedIs
<1> HIDE DEF d
<1>4. r \in active => e.gone /\ e.late /\ e.stream
  BY <1>1 DEF IInv, Store
<1>5. Typed'
  BY <1>1, <1>2, <1>3, OneTyped DEF IInv
<1>6. Store'
  BY <1>1, <1>2, <1>3, <1>4, StoreKept DEF IInv, After
<1>. QED
  BY <1>5, <1>6 DEF IInv

(* An event that is not the last, as e takes it.                           *)
LEMMA EmitStep ==
  ASSUME IInv, NEW r \in Exchanges, NEW e, Emit(r, e),
         e \in ExchangeRecs, Flow(e), Steady(x[r], e)
  PROVE  IInv'
<1> DEFINE o == x[r]
           a == TearDown(o)
           b == [a EXCEPT !.provider = "left"]
           c == [e EXCEPT !.provider = "left"]
<1>1. /\ o.phase = "running" /\ events' = events + 1 /\ UNCHANGED cache
      /\ IF o.aborted THEN EndOnce(r, "cancelled") ELSE UNCHANGED <<active, records>>
  BY DEF Emit
<1>2. /\ o \in ExchangeRecs /\ Flow(o) /\ o.provider = "running" /\ r \in active
      /\ (o.aborted <=> o.gone /\ ~o.late) /\ x \in [Exchanges -> ExchangeRecs]
      /\ events \in Nat
  BY <1>1, RunningIs DEF IInv, Typed
<1>3. /\ e.gone = o.gone /\ e.late = o.late /\ e.stream = o.stream /\ e.phase = o.phase
      /\ e.provider = o.provider /\ e.aborted = o.aborted
  BY DEF Steady
<1>4. ASSUME NEW d, x' = [x EXCEPT ![r] = d], NEW z, IsOver(z, d),
             z.gone = o.gone, z.late = o.late, z.stream = o.stream, z.provider = "left",
             o.aborted \/ (o.stream /\ o.gone)
      PROVE  IInv'
  <2>1. events' \in Nat
    BY <1>1, <1>2
  <2>2. CASE o.aborted
    BY <1>1, <1>2, <1>4, <2>1, <2>2, OverStep DEF Outcomes
  <2>3. CASE ~o.aborted
    <3>1. /\ d \in ExchangeRecs /\ d.phase = "replied" /\ Over(d) /\ d.gone = z.gone
          /\ d.late = z.late /\ d.provider = z.provider /\ d.stream = z.stream
      BY <1>4 DEF IsOver, After
    <3>2. Life(d)
      BY <3>1 DEF Life
    <3>3. Typed'
      BY <1>1, <1>4, <2>1, <3>1, <3>2, OneTyped DEF IInv
    <3>4. o.stream /\ o.gone /\ o.late
      BY <1>2, <1>4, <2>3 DEF ExchangeRecs
    <3>5. Store'
      BY <1>1, <1>2, <1>4, <2>3, <3>1, <3>4, StoreKept DEF IInv
    <3>. QED
      BY <3>3, <3>5 DEF IInv
  <2>. QED
    BY <2>2, <2>3
<1>5. CASE o.stream /\ o.gone
  <2>1. x' = [x EXCEPT ![r] = StreamOver(b)]
    BY <1>5 DEF Emit
  <2>2. a \in ExchangeRecs /\ After(o, a) /\ Listed(a.frames, {}, 0)
    BY <1>2, TornDown DEF Flow
  <2> HIDE DEF a
  <2>3. /\ b \in ExchangeRecs /\ b.frames = a.frames /\ b.provider = "left"
        /\ b.gone = a.gone /\ b.late = a.late /\ b.stream = a.stream
    BY <2>2 DEF ExchangeRecs
  <2> HIDE DEF b
  <2>4. IsOver(b, StreamOver(b))
    BY <2>2, <2>3, GoneIs
  <2>. QED
    BY <1>4, <1>5, <2>1, <2>2, <2>3, <2>4 DEF After
<1>6. CASE ~o.stream /\ o.aborted
  <2>1. x' = [x EXCEPT ![r] = JsonReply(c)]
    BY <1>6 DEF Emit
  <2>2. /\ c \in ExchangeRecs /\ Flow(c) /\ c.provider = "left"
        /\ c.gone = e.gone /\ c.late = e.late /\ c.stream = e.stream
    BY ProviderIs
  <2> HIDE DEF c
  <2>3. IsOver(c, JsonReply(c))
    BY <1>3, <1>6, <2>2, JsonReplyIs
  <2>. QED
    BY <1>3, <1>4, <1>6, <2>1, <2>2, <2>3
<1>7. CASE ~(o.stream /\ o.gone) /\ ~(~o.stream /\ o.aborted)
  <2>1. x' = [x EXCEPT ![r] = e] /\ ~o.aborted
    <3>1. ~o.aborted
      BY <1>2, <1>7
    <3>. QED
      BY <1>7, <3>1 DEF Emit
  <2>2. Life(e)
    BY <1>1, <1>2, <1>3 DEF Life
  <2>3. Typed'
    <3>1. events' \in Nat /\ cache' = cache /\ Typed
      BY <1>1, <1>2 DEF IInv
    <3>. QED
      BY <2>1, <2>2, <3>1, OneTyped
  <2>4. Store'
    BY <1>1, <1>2, <1>3, <2>1, StoreKept DEF IInv
  <2>. QED
    BY <2>3, <2>4 DEF IInv
<1>. QED
  BY <1>5, <1>6, <1>7

LEMMA EndStep ==
  ASSUME IInv, NEW r \in Exchanges, Completed(r) \/ Failed(r) \/ Threw(r) \/ Ended(r)
  PROVE  IInv'
<1> DEFINE o == x[r]
           as(p) == [o EXCEPT !.provider = p]
<1>1. o.phase = "running" /\ UNCHANGED <<cache, events>>
  <2>1. Completed(r) => o.phase = "running" /\ UNCHANGED <<cache, events>>
    BY DEF Completed
  <2>2. Failed(r) => o.phase = "running" /\ UNCHANGED <<cache, events>>
    BY DEF Failed
  <2>3. Threw(r) => o.phase = "running" /\ UNCHANGED <<cache, events>>
    BY DEF Threw
  <2>4. Ended(r) => o.phase = "running" /\ UNCHANGED <<cache, events>>
    BY DEF Ended
  <2>. QED
    BY <2>1, <2>2, <2>3, <2>4
<1>2. o \in ExchangeRecs /\ Flow(o) /\ o.provider = "running" /\ events' \in Nat
  BY <1>1, RunningIs DEF IInv, Typed
<1>3. ASSUME NEW p \in {"completed", "failed", "threw", "ended", "left"}
      PROVE  /\ as(p) \in ExchangeRecs /\ Flow(as(p)) /\ as(p).provider = p
             /\ as(p).gone = o.gone /\ as(p).late = o.late /\ as(p).stream = o.stream
  BY <1>2, ProviderIs, ZenonT(60)
<1>4. CASE Completed(r)
  <2> DEFINE e == as("completed")
  <2>1. x' = [x EXCEPT ![r] = OnCompleted(e)]
        /\ EndOnce(r, IF o.aborted THEN "cancelled" ELSE "success")
    BY <1>4 DEF Completed
  <2>2. /\ e \in ExchangeRecs /\ Flow(e) /\ e.provider = "completed"
        /\ e.gone = o.gone /\ e.late = o.late
    BY <1>3
  <2> HIDE DEF e
  <2>3. IsOver(e, OnCompleted(e))
    BY <2>2, CompletedIs
  <2>4. CASE o.aborted
    BY <1>1, <1>2, <2>1, <2>2, <2>3, <2>4, OverStep DEF Outcomes
  <2>5. CASE ~o.aborted
    BY <1>1, <1>2, <2>1, <2>2, <2>3, <2>5, OverStep DEF Outcomes
  <2>. QED
    BY <2>4, <2>5
<1>5. CASE Failed(r)
  <2> DEFINE e == as("failed")
  <2>1. x' = [x EXCEPT ![r] = OnError(e)]
        /\ EndOnce(r, IF o.aborted THEN "cancelled" ELSE "error")
    BY <1>5 DEF Failed
  <2>2. /\ e \in ExchangeRecs /\ Flow(e) /\ e.provider = "failed"
        /\ e.gone = o.gone /\ e.late = o.late
    BY <1>3
  <2> HIDE DEF e
  <2>3. IsOver(e, OnError(e))
    BY <2>2, FailedIs
  <2>4. CASE o.aborted
    BY <1>1, <1>2, <2>1, <2>2, <2>3, <2>4, OverStep DEF Outcomes
  <2>5. CASE ~o.aborted
    BY <1>1, <1>2, <2>1, <2>2, <2>3, <2>5, OverStep DEF Outcomes
  <2>. QED
    BY <2>4, <2>5
<1>6. CASE Threw(r)
  <2> DEFINE e == as("threw")
             b == Send(e, <<<<"error">>>>)
             d == IF e.stream THEN StreamOver(b) ELSE Replied(b)
  <2>2. /\ e \in ExchangeRecs /\ Flow(e) /\ e.provider = "threw"
        /\ e.gone = o.gone /\ e.late = o.late /\ e.stream = o.stream
    BY <1>3
  <2>1. EndOnce(r, "provider_error") /\ x' = [x EXCEPT ![r] = d]
    <3>1. b.stream = e.stream
      BY <2>2 DEF Send, ExchangeRecs
    <3>. QED
      BY <1>6, <3>1 DEF Threw
  <2> HIDE DEF e
  <2>3. IsOver(e, d)
    BY <2>2, ThrewIs
  <2> HIDE DEF d
  <2>. QED
    BY <1>1, <1>2, <2>1, <2>2, <2>3, OverStep DEF Outcomes
<1>7. CASE Ended(r)
  <2> DEFINE e == as("ended")
             d == IF e.stream THEN StreamOver(e) ELSE JsonReply(e)
  <2>1. EndOnce(r, "provider_error") /\ x' = [x EXCEPT ![r] = d]
    BY <1>7 DEF Ended
  <2>2. /\ e \in ExchangeRecs /\ Flow(e) /\ e.provider = "ended"
        /\ e.gone = o.gone /\ e.late = o.late /\ Listed(e.frames, {}, 0)
    BY <1>3 DEF Flow
  <2> HIDE DEF e
  <2>3. IsOver(e, d)
    <3>1. CASE e.stream
      BY <2>2, <3>1, GoneIs
    <3>2. CASE ~e.stream
      BY <2>2, <3>2, JsonReplyIs
    <3>. QED
      BY <3>1, <3>2
  <2> HIDE DEF d
  <2>. QED
    BY <1>1, <1>2, <2>1, <2>2, <2>3, OverStep DEF Outcomes
<1>. QED
  BY <1>4, <1>5, <1>6, <1>7

LEMMA NextStep ==
  ASSUME IInv, [Next]_vars
  PROVE  IInv'
<1>1. CASE UNCHANGED vars
  BY <1>1 DEF vars, IInv, Typed, Store, Reached
<1>2. ASSUME NEW a \in Asks, Arrive(a[1], a[2], a[3]) PROVE IInv'
  BY <1>2, ArriveStep
<1>3. ASSUME NEW r \in Exchanges, NEW a \in Answers, Discovered(r, a) PROVE IInv'
  BY <1>3, DiscoveredStep
<1>4. CASE Age
  <2>1. cache' = [cache EXCEPT !.fresh = FALSE] /\ UNCHANGED <<x, active, records, events>>
    BY <1>4 DEF Age
  <2>2. cache' \in [answer : Answers \cup {"none"}, fresh : BOOLEAN] /\ ~cache'.fresh
    BY <2>1 DEF IInv, Typed
  <2>. QED
    BY <2>1, <2>2 DEF IInv, Typed, Store, Reached
<1>5. ASSUME NEW r \in Exchanges, HangUp(r) \/ Close(r) PROVE IInv'
  BY <1>5, HangUpStep, CloseStep
<1>6. ASSUME NEW r \in Exchanges, EmitText(r) PROVE IInv'
  <2>1. x[r] \in ExchangeRecs /\ Flow(x[r])
    BY <1>6, RunningIs DEF EmitText, Emit
  <2>2. OnText(x[r]) \in ExchangeRecs /\ Flow(OnText(x[r])) /\ Steady(x[r], OnText(x[r]))
    BY <2>1, TextStep
  <2>. QED
    BY <1>6, <2>2, EmitStep DEF EmitText
<1>7. ASSUME NEW r \in Exchanges, NEW c \in Calls, NEW n \in 0..1, EmitCall(r, c, n)
      PROVE  IInv'
  <2> DEFINE e == OnCall(x[r], c, n)
  <2>1. x[r] \in ExchangeRecs /\ Flow(x[r])
    BY <1>7, RunningIs DEF EmitCall, Emit
  <2>2. e \in ExchangeRecs /\ Flow(e) /\ Steady(x[r], e)
    BY <2>1, CallStep
  <2>3. Emit(r, e)
    BY <1>7 DEF EmitCall
  <2> HIDE DEF e
  <2>. QED
    BY <2>2, <2>3, EmitStep
<1>8. ASSUME NEW r \in Exchanges, Completed(r) \/ Failed(r) \/ Threw(r) \/ Ended(r) PROVE IInv'
  BY <1>8, EndStep
<1>. QED
  BY <1>1, <1>2, <1>3, <1>4, <1>5, <1>6, <1>7, <1>8 DEF Next, Provider

LEMMA InitIs ==
  ASSUME Init
  PROVE  IInv
<1>1. Idle \in ExchangeRecs /\ Life(Idle) /\ Idle.phase = "idle" /\ Idle.provider = "none"
  <2>1. <<>> \in Seq(CallRecs) /\ <<>> \in Seq(Frames)
    OBVIOUS
  <2>. QED
    BY <2>1 DEF Idle, ExchangeRecs, Life, NoItem
<1>2. Typed
  BY <1>1 DEF Init, Typed, Answers
<1>3. Store
  BY <1>1, BoundsAssumption DEF Init, Store, Reached
<1>. QED
  BY <1>2, <1>3 DEF IInv

(* The types, what every exchange has shown in the phase it is in, and     *)
(* what the usage store knows of it: what the properties follow from.      *)
THEOREM Invariance == Spec => []IInv
<1>1. Init => IInv
  BY InitIs
<1>2. IInv /\ [Next]_vars => IInv'
  BY NextStep
<1>. QED
  BY <1>1, <1>2, PTL DEF Spec

-------------------------------------------------------------------------------
(* The properties.                                                         *)

(* In every phase a reply is whole as far as it has come.                  *)
LEMMA AlwaysWhole ==
  ASSUME IInv, NEW r \in Exchanges
  PROVE  x[r] \in ExchangeRecs /\ WholeIn(x[r]) /\ OrderIn(x[r])
<1> DEFINE e == x[r]
<1>1. e \in ExchangeRecs /\ Life(e)
  BY DEF IInv, Typed
<1> HIDE DEF e
<1>2. Listed(e.frames, {}, 0) => Shown(e)
  <2>1. SUFFICES ASSUME Listed(e.frames, {}, 0) PROVE Shown(e)
    OBVIOUS
  <2>2. e.frames \in Seq(Frames) /\ <<>> \in Tails /\ Ends(e, e.frames, <<>>)
    BY <1>1, <2>1, GoneEnds
  <2>. QED
    BY <2>2 DEF Shown
<1>3. CASE e.phase \in {"idle", "asking"}
  <2>1. e.frames = <<>>
    BY <1>1, <1>3 DEF Life
  <2>. QED
    BY <1>1, <1>2, <2>1, NothingYet, ShownIsWhole DEF e
<1>4. CASE e.phase = "running"
  BY <1>1, <1>2, <1>4, ShownIsWhole DEF e, Life, Flow
<1>5. CASE e.phase \in {"replied", "closed"}
  BY <1>1, <1>5, ShownIsWhole DEF e, Life, Over
<1>. QED
  BY <1>1, <1>3, <1>4, <1>5 DEF ExchangeRecs

(* A reply that told its client it is complete was not cancelled, and a    *)
(* run whose client left with somebody listening was.                      *)
THEOREM CompletionIsNotCancelled == Spec => []CompletedSurvives
<1>1. ASSUME IInv, NEW r \in Exchanges
      PROVE  /\ Told(r, "finish") => ~x[r].cancelled
             /\ x[r].phase = "running" /\ x[r].gone /\ ~x[r].late => x[r].cancelled
  <2>1. Told(r, "finish") => PlacesIn(x[r].frames, "finish") # {}
    BY DEF Told, PlacesIn
  <2>2. Told(r, "finish") => ~x[r].cancelled
    BY <1>1, <2>1, AlwaysWhole DEF WholeIn
  <2>3. x[r].phase = "running" => Flow(x[r])
    BY <1>1, RunningIs
  <2>. QED
    BY <2>2, <2>3 DEF Flow
<1>2. IInv => CompletedSurvives
  BY <1>1 DEF CompletedSurvives
<1>. QED
  BY <1>2, Invariance, PTL

(* A client sees only whole calls, and all of them in a reply that         *)
(* finishes.                                                               *)
THEOREM CallsAreWhole == Spec => []OnlyWholeCalls
<1>1. ASSUME IInv, NEW r \in Exchanges
      PROVE  LET shown == Places(r, "call") f == x[r].frames IN
             /\ \A i \in shown : f[i][3] \in {0, 2}
             /\ Told(r, "finish") =>
                  /\ Cardinality(shown) = Len(x[r].calls)
                  /\ {f[i][2] : i \in shown} = {x[r].calls[i].index : i \in 1..Len(x[r].calls)}
  <2>1. WholeIn(x[r])
    BY <1>1, AlwaysWhole
  <2>2. /\ Places(r, "call") = PlacesIn(x[r].frames, "call")
        /\ Told(r, "finish") => PlacesIn(x[r].frames, "finish") # {}
    BY DEF Places, PlacesIn, Told
  <2>. QED
    BY <2>1, <2>2 DEF WholeIn, ItemsOf, Indices
<1>2. IInv => OnlyWholeCalls
  BY <1>1 DEF OnlyWholeCalls
<1>. QED
  BY <1>2, Invariance, PTL

(* One last frame, and items that are numbered, opened and shut as the     *)
(* wire wants it.                                                          *)
THEOREM TheWireIsInOrder == Spec => []WireOrder
<1>1. ASSUME IInv, NEW r \in Exchanges
      PROVE  LET f == x[r].frames last == Places(r, "finish") \cup Places(r, "error") IN
             /\ Cardinality(last) <= 1
             /\ \A i \in last, j \in 1..Len(f) : j > i => f[j][1] \in {"done", "stop"}
             /\ Told(r, "finish") /\ x[r].stream /\ x[r].surface # "chat" =>
                  /\ ItemsIn(r, "open") = 0..(x[r].items - 1)
                  /\ ItemsIn(r, "shut") = ItemsIn(r, "open")
                  /\ Cardinality(Places(r, "open")) = x[r].items
                  /\ Cardinality(Places(r, "shut")) = x[r].items
                  /\ \A i \in Places(r, "text") :
                       /\ \E j \in Places(r, "open") : j < i /\ f[j][2] = f[i][2]
                       /\ \E j \in Places(r, "shut") : j > i /\ f[j][2] = f[i][2]
  <2>1. OrderIn(x[r])
    BY <1>1, AlwaysWhole
  <2>2. /\ \A k : Places(r, k) = PlacesIn(x[r].frames, k)
        /\ \A k : ItemsIn(r, k) = ItemsOf(x[r].frames, k)
        /\ Told(r, "finish") => Places(r, "finish") # {}
    BY DEF Places, PlacesIn, Told, ItemsIn, ItemsOf
  <2>3. /\ Places(r, "finish") = PlacesIn(x[r].frames, "finish")
        /\ Places(r, "error") = PlacesIn(x[r].frames, "error")
        /\ Places(r, "open") = PlacesIn(x[r].frames, "open")
        /\ Places(r, "shut") = PlacesIn(x[r].frames, "shut")
        /\ Places(r, "text") = PlacesIn(x[r].frames, "text")
        /\ ItemsIn(r, "open") = ItemsOf(x[r].frames, "open")
        /\ ItemsIn(r, "shut") = ItemsOf(x[r].frames, "shut")
    BY <2>2
  <2>. QED
    BY <2>1, <2>2, <2>3 DEF OrderIn
<1>2. IInv => WireOrder
  BY <1>1 DEF WireOrder
<1>. QED
  BY <1>2, Invariance, PTL

LEMMA AtMostOne ==
  ASSUME NEW S, NEW n \in Nat, S \subseteq 1..n, \A i, j \in S : i = j
  PROVE  Cardinality(S) <= 1
<1>1. CASE S = {}
  BY <1>1, FS_EmptySet
<1>2. CASE S # {}
  <2>1. PICK i \in S : S = {i}
    BY <1>2
  <2>. QED
    BY <2>1, FS_Singleton
<1>. QED
  BY <1>1, <1>2

(* The usage store knows every request once, and what became of it.        *)
THEOREM UsageIsAccounted == Spec => []UsageAccounted
<1>1. ASSUME IInv
      PROVE  /\ \A r \in active : Reached(r) /\ RecordsOf(r) = {}
             /\ \A r \in Exchanges : Cardinality(RecordsOf(r)) <= 1
             /\ Len(records) < MaxRecords =>
                  \A r \in Exchanges : Reached(r) => r \in active \/ RecordsOf(r) # {}
  <2>1. Len(records) \in Nat
    BY <1>1, LenProperties DEF IInv, Store
  <2>2. ASSUME NEW r \in Exchanges PROVE Cardinality(RecordsOf(r)) <= 1
    <3>1. RecordsOf(r) \subseteq 1..Len(records) /\ \A i, j \in RecordsOf(r) : i = j
      BY <1>1 DEF IInv, Store, RecordsOf
    <3>. QED
      BY <2>1, <3>1, AtMostOne
  <2>. QED
    BY <1>1, <2>2 DEF IInv, Store, RecordsOf
<1>2. IInv => UsageAccounted
  BY <1>1 DEF UsageAccounted, IInv, Store
<1>. QED
  BY <1>2, Invariance, PTL
===============================================================================
