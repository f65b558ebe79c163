--------------------------- MODULE CodexAdapterProofs ---------------------------
(***************************************************************************)
(* Proofs about the Codex adapter and its client: for any number of        *)
(* threads, requests, items and calls, and any bounds.                     *)
(***************************************************************************)
EXTENDS CodexAdapter, SequenceTheorems, WellFoundedInduction, TLAPS

-------------------------------------------------------------------------------
(* The inductive invariant.                                                *)

(* Shapes.                                                                 *)
Lines == ({"delta", "item"} \X Threads \X (1..MaxItems)) \cup ({"usage", "done"} \X Threads \X {0})
Notes == {None, Waiting, Failed} \cup Lines
RunRecs == [pc : {"idle", "starting", "begin", "loop", "race", "done"},
            at : Threads \cup {Nobody}, tools : ToolSets \cup {{}},
            acl : ToolSets \cup {{}}, note : Notes, tool : ToolPromises,
            first : {"none", "note", "tool"}, seen : SUBSET (1..MaxItems)]
WaiterRecs == [kind : {"note", "tool"}, by : Requests, on : Threads, live : BOOLEAN]
OutRecs == [text : Seq(Threads \X (1..MaxItems)),
            end : {"none", "silent", "error", "completed", "tool_calls"}]
UpRecs == [on : BOOLEAN, items : 0..MaxItems, said : SUBSET (1..MaxItems),
           usage : Nat, asked : 0..MaxCalls]

(* A bounded map of the adapter, by its keys in order.                     *)
Bounded(m) ==
  /\ m \in Seq(Requests) /\ Len(m) <= MaxTracked
  /\ \A i, j \in DOMAIN m : m[i] = m[j] => i = j

Shapes ==
  /\ run \in [Requests -> RunRecs] /\ out \in [Requests -> OutRecs]
  /\ cancel \in [Requests -> {"no", "gone", "asked", "answered"}]
  /\ queue \in Seq(Lines) /\ Len(queue) <= QueueLimit
  /\ waiters \in Seq(WaiterRecs)
  /\ upstream \in [Threads -> UpRecs]
  /\ ledger \in [Calls -> L!Statuses] /\ answers \in [Calls -> Nat]
  /\ activeTurns \subseteq Requests /\ lost \subseteq Threads
  /\ Bounded(parkedTurns) /\ Bounded(threadToolAcl)
  /\ down \in BOOLEAN /\ draining \in BOOLEAN /\ protocolFailed \in BOOLEAN

Note(r)   == run[r].note
Tool(r)   == run[r].tool
Held(r)   == Tool(r)[1] = "call"
Active(r) == run[r].pc \in {"starting", "begin", "loop", "race"}
Parked(t) == \E c \in L!Pending : c[1] = t
Untouched(c) == ledger[c] = "unborn" /\ answers[c] = 0

(* Threads: an active request is alone on its thread, no call of which is  *)
(* parked then; after a hang-up nobody comes to the thread any more.       *)
Alone(r) == \A q \in Requests : q # r /\ At(q) = At(r) => ~Active(q) /\ ~Aborted(q)
Steered(r) ==
  /\ run[r].pc = "idle" => run[r] = Fresh /\ cancel[r] = "no"
  /\ Active(r) \/ Aborted(r) => At(r) \in Threads /\ ~Parked(At(r))
  /\ Active(r) => Alone(r)
  /\ At(r) \in Threads => At(At(r)) = At(r)
  /\ run[r].pc = "starting" => At(r) = r
  /\ r \in activeTurns => Pumping(r)
  /\ ~Pumping(r) => Note(r) = None /\ Tool(r) = None /\ run[r].first = "none"
Allowed(r) == Active(r) =>
  /\ At(r) = r => run[r].acl = run[r].tools
  /\ Contains(threadToolAcl, At(r)) => run[r].acl = Declared(At(r))

(* Promises: what a pump waits for, and the waiters that keep them.        *)
Awaiting(r) == Pumping(r) =>
  /\ Tool(r) = None <=> run[r].acl = {}
  /\ Note(r) \in Lines => Note(r)[2] = At(r)
  /\ Held(r) => /\ Tool(r)[2] = At(r) /\ Tool(r)[3] <= upstream[At(r)].asked
                /\ Untouched(Asked(r))
  /\ run[r].pc = "loop" => Note(r) = None /\ run[r].first = "none"
  /\ run[r].pc = "race" => Note(r) # None
  /\ run[r].pc = "race" /\ run[r].first = "none" => Note(r) = Waiting /\ ~Settled(Tool(r))
  /\ run[r].first = "note" => Settled(Note(r))
  /\ run[r].first = "tool" => Settled(Tool(r))
  /\ Note(r) = Waiting => Listens(r, "note")
  /\ Tool(r) = Waiting => Listens(r, "tool")
Serves(w) ==
  /\ Pumping(w.by) /\ w.on = At(w.by)
  /\ w.kind = "tool" => w.live
  /\ w.live => (IF w.kind = "note" THEN Note(w.by) ELSE Tool(w.by)) = Waiting
  /\ w.kind = "note" /\ protocolFailed => w.on \in lost
  /\ w.live \/ run[w.by].acl # {}
Waits ==
  /\ \A i \in DOMAIN waiters : Serves(waiters[i])
  /\ \A i, j \in DOMAIN waiters : waiters[i] = waiters[j] /\ waiters[i].live => i = j

(* Calls: the app-server's n-th call of a thread is new when it arrives.   *)
Counted(c) ==
  /\ answers[c] <= (IF ledger[c] \in {"unborn", "resolved"} THEN 1 ELSE 0)
  /\ c[2] > upstream[c[1]].asked => Untouched(c)
Single == \A c, d \in L!Pending : c[1] = d[1] => c = d

(* Text: what is buffered comes after what was told, in order.             *)
Quieted(t) == \A i \in DOMAIN queue : queue[i][2] # t
Later(t, k) == \A i \in DOMAIN queue : queue[i][1] = "delta" /\ queue[i][2] = t => k < queue[i][3]
Past(t, k) == k <= upstream[t].items + 1 /\ (k = upstream[t].items + 1 => k \in upstream[t].said)
Buffers ==
  /\ \A i \in DOMAIN queue : LET n == queue[i] IN
       /\ n[1] # "item" /\ n[2] \notin lost
       /\ n[1] = "delta" => n[3] \in upstream[n[2]].said
       /\ n[1] = "done" => ~upstream[n[2]].on
  /\ \A i, j \in DOMAIN queue :
       i < j /\ queue[i][1] = "delta" /\ queue[j][1] = "delta" /\ queue[i][2] = queue[j][2]
         => queue[i][3] < queue[j][3]
Speech(t) ==
  /\ \A k \in upstream[t].said : k <= upstream[t].items + 1
  /\ At(t) # t \/ run[t].pc = "starting" =>
       ~upstream[t].on /\ upstream[t].said = {} /\ upstream[t].asked = 0 /\ Quieted(t)
InOrder(r) == LET text == out[r].text  t == At(r)  n == Note(r) IN
  /\ run[r].pc \in {"idle", "starting", "begin"} => text = <<>> /\ out[r].end = "none"
  /\ \A i \in DOMAIN text : text[i][1] = t
  /\ \A i, j \in DOMAIN text : i < j => text[i][2] < text[j][2]
  /\ Pumping(r) => \A i \in DOMAIN text : LET k == text[i][2] IN
       /\ k \in run[r].seen /\ Past(t, k) /\ Later(t, k)
       /\ n[1] = "delta" => k < n[3]
       /\ n[1] = "item"  => k <= n[3]
  /\ n \in Lines /\ n[1] \in {"delta", "item"} => Past(t, n[3]) /\ Later(t, n[3])
  /\ n \in Lines /\ n[1] = "item" => n[3] <= upstream[t].items
  /\ n[1] = "done" => ~upstream[t].on
  /\ n = Waiting => Quieted(t)

(* A thread without tools: what it said is told, noted or buffered.        *)
Plain(r) == r \in Openers /\ At(r) = r /\ Declared(r) = {}
Told(r, k)   == \E i \in DOMAIN out[r].text : out[r].text[i] = <<r, k>>
Queued(t, k) == \E i \in DOMAIN queue : queue[i] = <<"delta", t, k>>
Whole(r) == Plain(r) =>
  /\ ~Parked(r) /\ \A q \in Requests : At(q) = r => q = r
  /\ Active(r) /\ run[r].pc # "starting" /\ ~Aborted(r) /\ r \notin evicted =>
       IF Note(r)[1] = "done" THEN \A k \in upstream[r].said : Told(r, k)
       ELSE r \in lost \/ protocolFailed \/ \A k \in upstream[r].said :
              Told(r, k) \/ Note(r) = <<"delta", r, k>> \/ Queued(r, k)
  /\ out[r].end = "completed" /\ r \notin evicted =>
       run[r].pc = "done" /\ ~upstream[r].on /\ \A k \in upstream[r].said : Told(r, k)

Client(r) == Steered(r) /\ Allowed(r) /\ Awaiting(r) /\ InOrder(r) /\ Whole(r)
IInv == /\ Shapes /\ Waits /\ Single /\ Buffers
        /\ \A c \in Calls : Counted(c)
        /\ \A t \in Threads : Speech(t)
        /\ \A r \in Requests : Client(r)

-------------------------------------------------------------------------------
(* Numbers and sequences.                                                  *)

(* Every set of natural numbers has a least element.                       *)
LEMMA LeastNumber ==
  ASSUME NEW T, T \subseteq Nat, T # {}
  PROVE  \E m \in T : \A k \in T : m <= k
<1> DEFINE R == {ss \in Nat \X Nat : ss[1] < ss[2]}
<1>1. IsWellFoundedOn(R, Nat)
  BY NatLessThanWellFounded DEF OpToRel
<1>2. \A k, m \in Nat : <<k, m>> \in R <=> k < m
  OBVIOUS
<1> HIDE DEF R
<1>3. PICK m \in T : \A k \in T : ~ (<<k, m>> \in R)
  BY <1>1, WFMin
<1>4. ASSUME NEW k \in T PROVE m <= k
  <2>1. k \in Nat /\ m \in Nat /\ ~(<<k, m>> \in R)
    BY <1>3
  <2>. QED
    BY <1>2, <2>1
<1>. QED
  BY <1>4

(* Induction, over a set of natural numbers.                               *)
LEMMA Induction ==
  ASSUME NEW T, T \subseteq Nat, 0 \in T, \A n \in T : n + 1 \in T
  PROVE  T = Nat
<1>1. SUFFICES ASSUME Nat \ T # {} PROVE FALSE
  OBVIOUS
<1>2. PICK m \in Nat \ T : \A k \in Nat \ T : m <= k
  BY <1>1, LeastNumber
<1>3. m # 0 /\ m - 1 \in Nat /\ m - 1 \in T
  BY <1>2
<1>. QED
  BY <1>2, <1>3

(* One sequence is within another: it has some of its entries, in order.   *)
Within(w, s) ==
  /\ Len(w) <= Len(s)
  /\ \A i \in DOMAIN w : \E a \in DOMAIN s : w[i] = s[a]
  /\ \A i, j \in DOMAIN w : i < j =>
       \E a, b \in DOMAIN s : a < b /\ w[i] = s[a] /\ w[j] = s[b]

(* The recursion of Without has a solution.                                *)
Solves(g, s, S, n) ==
  g = [i \in 0..n |-> IF i = 0 THEN <<>>
                      ELSE IF s[i] \in S THEN g[i - 1] ELSE Append(g[i - 1], s[i])]

LEMMA WithoutExists ==
  ASSUME NEW s, NEW S, NEW N \in Nat
  PROVE  \E g : Solves(g, s, S, N)
<1> DEFINE T == {n \in Nat : \E g : Solves(g, s, S, n)}
<1>1. 0 \in T
  <2>1. Solves([i \in 0..0 |-> <<>>], s, S, 0)
    BY DEF Solves
  <2>. QED
    BY <2>1
<1>2. ASSUME NEW n \in T PROVE n + 1 \in T
  <2>1. PICK g : Solves(g, s, S, n)
    BY <1>2
  <2> DEFINE h == [i \in 0..(n + 1) |->
                     IF i = n + 1
                     THEN IF s[n + 1] \in S THEN g[n] ELSE Append(g[n], s[n + 1])
                     ELSE g[i]]
  <2>2. n \in Nat
    OBVIOUS
  <2>3. ASSUME NEW i \in 0..(n + 1)
        PROVE  h[i] = IF i = 0 THEN <<>>
                      ELSE IF s[i] \in S THEN h[i - 1] ELSE Append(h[i - 1], s[i])
    <3>1. CASE i = n + 1
      <4>1. h[i] = (IF s[i] \in S THEN g[n] ELSE Append(g[n], s[i])) /\ h[i - 1] = g[n] /\ i # 0
        BY <2>2, <3>1
      <4>. QED
        BY <4>1
    <3>2. CASE i # n + 1 /\ i # 0
      <4>1. i \in 0..n /\ i - 1 \in 0..n /\ i - 1 # n + 1
        BY <2>2, <2>3, <3>2
      <4>2. h[i] = g[i] /\ h[i - 1] = g[i - 1]
        BY <2>2, <2>3, <3>2, <4>1
      <4>3. g[i] = IF s[i] \in S THEN g[i - 1] ELSE Append(g[i - 1], s[i])
        BY <2>1, <3>2, <4>1 DEF Solves
      <4>. QED
        BY <3>2, <4>2, <4>3
    <3>3. CASE i # n + 1 /\ i = 0
      <4>1. h[i] = g[0]
        BY <2>2, <3>3
      <4>2. g[0] = <<>>
        BY <2>1, <2>2 DEF Solves
      <4>. QED
        BY <3>3, <4>1, <4>2
    <3>. QED
      BY <3>1, <3>2, <3>3
  <2>4. h = [i \in 0..(n + 1) |-> h[i]]
    OBVIOUS
  <2> HIDE DEF h
  <2>5. Solves(h, s, S, n + 1)
    BY <2>3, <2>4 DEF Solves
  <2>. QED
    BY <2>2, <2>5
<1>3. T = Nat
  <2>1. T \subseteq Nat
    OBVIOUS
  <2> HIDE DEF T
  <2>. QED
    BY <1>1, <1>2, <2>1, Induction
<1>. QED
  BY <1>3

(* What Without returns, for the first n entries of s.                     *)
Left(w, s, S, n) ==
  /\ Len(w) <= n
  /\ \A i \in 1..Len(w) : w[i] \notin S /\ \E a \in 1..n : w[i] = s[a]
  /\ \A i, j \in 1..Len(w) : i < j => \E a, b \in 1..n : a < b /\ w[i] = s[a] /\ w[j] = s[b]
  /\ \A a \in 1..n : s[a] \notin S => \E i \in 1..Len(w) : w[i] = s[a]
  /\ \A i \in 1..Len(w) : \E a \in 1..n : w[i] = s[a] /\ Len(w) + a <= n + i

LEMMA LeftGrows ==
  ASSUME NEW A, NEW w \in Seq(A), NEW s, NEW S, NEW n \in Nat, s[n + 1] \in A, Left(w, s, S, n)
  PROVE  Left(IF s[n + 1] \in S THEN w ELSE Append(w, s[n + 1]), s, S, n + 1)
<1>0. Len(w) \in Nat /\ \A a \in 1..n : a \in 1..(n + 1) /\ a < n + 1
  OBVIOUS
<1>1. CASE s[n + 1] \in S
  <2>1. \A a \in 1..(n + 1) : s[a] \notin S => a \in 1..n
    BY <1>1
  <2>2. ASSUME NEW i \in 1..Len(w) PROVE \E a \in 1..(n + 1) : w[i] = s[a] /\ Len(w) + a <= (n + 1) + i
    <3>1. PICK a \in 1..n : w[i] = s[a] /\ Len(w) + a <= n + i
      BY DEF Left
    <3>. QED
      BY <1>0, <3>1
  <2>3. Left(w, s, S, n + 1)
    <3>1. Len(w) <= n + 1
      BY <1>0 DEF Left
    <3>2. \A i \in 1..Len(w) : w[i] \notin S /\ \E a \in 1..(n + 1) : w[i] = s[a]
      BY <1>0 DEF Left
    <3>3. \A i, j \in 1..Len(w) : i < j => \E a, b \in 1..(n + 1) : a < b /\ w[i] = s[a] /\ w[j] = s[b]
      BY <1>0 DEF Left
    <3>4. \A a \in 1..(n + 1) : s[a] \notin S => \E i \in 1..Len(w) : w[i] = s[a]
      BY <2>1 DEF Left
    <3>. QED
      BY <2>2, <3>1, <3>2, <3>3, <3>4, Zenon DEF Left
  <2>. QED
    BY <1>1, <2>3
<1>2. CASE s[n + 1] \notin S
  <2> DEFINE v == Append(w, s[n + 1])
  <2>1. /\ Len(v) = Len(w) + 1 /\ v[Len(w) + 1] = s[n + 1]
        /\ \A i \in 1..Len(w) : v[i] = w[i]
        /\ \A i \in 1..Len(v) : i \in 1..Len(w) \/ i = Len(w) + 1
    OBVIOUS
  <2> HIDE DEF v
  <2>2. Len(v) <= n + 1
    BY <1>0, <2>1 DEF Left
  <2>3. \A i \in 1..Len(v) : v[i] \notin S /\ \E a \in 1..(n + 1) : v[i] = s[a]
    <3>1. \A i \in 1..Len(w) : w[i] \notin S /\ \E a \in 1..n : w[i] = s[a]
      BY DEF Left
    <3>2. n + 1 \in 1..(n + 1)
      OBVIOUS
    <3>. QED
      BY <1>0, <1>2, <2>1, <3>1, <3>2
  <2>4. ASSUME NEW i \in 1..Len(v), NEW j \in 1..Len(v), i < j
        PROVE  \E a, b \in 1..(n + 1) : a < b /\ v[i] = s[a] /\ v[j] = s[b]
    <3>1. i \in 1..Len(w)
      BY <1>0, <2>1, <2>4
    <3>2. PICK c \in 1..n : v[i] = s[c]
      <4>1. PICK c \in 1..n : w[i] = s[c]
        BY <3>1 DEF Left
      <4>. QED
        BY <2>1, <3>1, <4>1
    <3>3. CASE j \in 1..Len(w)
      <4>1. PICK a, b \in 1..n : a < b /\ w[i] = s[a] /\ w[j] = s[b]
        BY <2>4, <3>1, <3>3 DEF Left
      <4>. QED
        BY <1>0, <2>1, <3>1, <3>3, <4>1
    <3>4. CASE j = Len(w) + 1
      <4>1. c \in 1..(n + 1) /\ n + 1 \in 1..(n + 1) /\ c < n + 1 /\ v[j] = s[n + 1]
        BY <1>0, <2>1, <3>4
      <4>. QED
        BY <3>2, <4>1
    <3>. QED
      BY <2>1, <3>3, <3>4
  <2>5. ASSUME NEW a \in 1..(n + 1), s[a] \notin S PROVE \E i \in 1..Len(v) : v[i] = s[a]
    <3>1. CASE a = n + 1
      BY <1>0, <2>1, <3>1
    <3>2. CASE a \in 1..n
      <4>1. PICK i \in 1..Len(w) : w[i] = s[a]
        BY <2>5, <3>2 DEF Left
      <4>. QED
        BY <1>0, <2>1, <4>1
    <3>. QED
      BY <3>1, <3>2
  <2>6. ASSUME NEW i \in 1..Len(v) PROVE \E a \in 1..(n + 1) : v[i] = s[a] /\ Len(v) + a <= (n + 1) + i
    <3>1. CASE i \in 1..Len(w)
      <4>1. PICK a \in 1..n : w[i] = s[a] /\ Len(w) + a <= n + i
        BY <3>1 DEF Left
      <4>. QED
        BY <1>0, <2>1, <3>1, <4>1
    <3>2. CASE i = Len(w) + 1
      <4>1. n + 1 \in 1..(n + 1) /\ Len(v) + (n + 1) <= (n + 1) + i
        BY <1>0, <2>1, <3>2
      <4>. QED
        BY <2>1, <3>2, <4>1
    <3>. QED
      BY <2>1, <3>1, <3>2
  <2>7. Left(v, s, S, n + 1)
    BY <2>2, <2>3, <2>4, <2>5, <2>6 DEF Left
  <2>. QED
    BY <1>2, <2>7 DEF v
<1>. QED
  BY <1>1, <1>2

LEMMA WithoutLeft ==
  ASSUME NEW A, NEW s \in Seq(A), NEW S
  PROVE  Without(s, S) \in Seq(A) /\ Left(Without(s, S), s, S, Len(s))
<1> DEFINE N == Len(s)
           left == CHOOSE g : Solves(g, s, S, N)
<1>1. N \in Nat /\ \A i \in 1..N : s[i] \in A
  OBVIOUS
<1>2. Solves(left, s, S, N)
  BY <1>1, WithoutExists, Zenon
<1>3. Without(s, S) = left[N]
  BY DEF Without, Solves
<1> HIDE DEF left, N
<1>4. left[0] = <<>>
  BY <1>1, <1>2 DEF Solves
<1>5. ASSUME NEW n \in Nat, n + 1 <= N
      PROVE  left[n + 1] = IF s[n + 1] \in S THEN left[n] ELSE Append(left[n], s[n + 1])
  <2>1. n + 1 \in 0..N /\ n + 1 # 0 /\ (n + 1) - 1 = n
    BY <1>1, <1>5
  <2>. QED
    BY <1>2, <2>1 DEF Solves
<1> DEFINE T == {n \in Nat : n <= N => left[n] \in Seq(A) /\ Left(left[n], s, S, n)}
<1>6. 0 \in T
  <2>1. Left(<<>>, s, S, 0) /\ <<>> \in Seq(A)
    BY DEF Left
  <2>. QED
    BY <1>4, <2>1
<1>7. ASSUME NEW n \in T PROVE n + 1 \in T
  <2>1. SUFFICES ASSUME n + 1 <= N
                 PROVE  left[n + 1] \in Seq(A) /\ Left(left[n + 1], s, S, n + 1)
    OBVIOUS
  <2>2. n \in Nat /\ left[n] \in Seq(A) /\ Left(left[n], s, S, n) /\ s[n + 1] \in A
    BY <1>1, <1>7, <2>1
  <2>3. Left(left[n + 1], s, S, n + 1)
    BY <1>5, <2>1, <2>2, LeftGrows
  <2>4. left[n + 1] \in Seq(A)
    <3>1. left[n + 1] = IF s[n + 1] \in S THEN left[n] ELSE Append(left[n], s[n + 1])
      BY <1>5, <2>1, <2>2
    <3>2. Append(left[n], s[n + 1]) \in Seq(A)
      BY <2>2
    <3>. QED
      BY <2>2, <3>1, <3>2, Zenon
  <2>. QED
    BY <2>3, <2>4
<1>8. T = Nat
  <2>1. T \subseteq Nat
    OBVIOUS
  <2> HIDE DEF T
  <2>. QED
    BY <1>6, <1>7, <2>1, Induction
<1>9. left[N] \in Seq(A) /\ Left(left[N], s, S, N)
  BY <1>1, <1>8
<1>. QED
  BY <1>3, <1>9 DEF N

LEMMA Withouts ==
  ASSUME NEW A, NEW s \in Seq(A), NEW S
  PROVE  /\ Without(s, S) \in Seq(A) /\ Within(Without(s, S), s)
         /\ \A i \in DOMAIN Without(s, S) : Without(s, S)[i] \notin S
         /\ \A a \in DOMAIN s : s[a] \notin S =>
              \E i \in DOMAIN Without(s, S) : Without(s, S)[i] = s[a]
<1> DEFINE N == Len(s)  w == Without(s, S)
<1>9. w \in Seq(A) /\ Left(w, s, S, N)
  BY WithoutLeft
<1> HIDE DEF w
<1>10. w \in Seq(A) /\ Left(w, s, S, N) /\ DOMAIN w = 1..Len(w) /\ DOMAIN s = 1..N /\ N = Len(s)
  BY <1>9 DEF N
<1> HIDE DEF N
<1>11. /\ Within(w, s) /\ \A i \in DOMAIN w : w[i] \notin S
       /\ \A a \in DOMAIN s : s[a] \notin S => \E i \in DOMAIN w : w[i] = s[a]
  <2>1. Len(w) <= Len(s) /\ \A i \in DOMAIN w : \E a \in DOMAIN s : w[i] = s[a]
    <3>1. Len(w) <= N /\ \A i \in 1..Len(w) : \E a \in 1..N : w[i] = s[a]
      BY <1>10 DEF Left
    <3>. QED
      BY <1>10, <3>1, Zenon
  <2>2. ASSUME NEW i \in DOMAIN w, NEW j \in DOMAIN w, i < j
        PROVE  \E a, b \in DOMAIN s : a < b /\ w[i] = s[a] /\ w[j] = s[b]
    <3>1. i \in 1..Len(w) /\ j \in 1..Len(w) /\ Left(w, s, S, N)
      BY <1>10, <2>2
    <3>2. PICK a, b \in 1..N : a < b /\ w[i] = s[a] /\ w[j] = s[b]
      BY <2>2, <3>1, Zenon DEF Left
    <3>. QED
      BY <1>10, <3>2
  <2>3. /\ \A i \in DOMAIN w : w[i] \notin S
        /\ \A a \in DOMAIN s : s[a] \notin S => \E i \in DOMAIN w : w[i] = s[a]
    BY <1>10 DEF Left
  <2>. QED
    BY <2>1, <2>2, <2>3, Zenon DEF Within
<1>. QED
  BY <1>10, <1>11 DEF w

(* Other ways to leave out entries of a sequence.                          *)
LEMMA WithinItself ==
  ASSUME NEW A, NEW s \in Seq(A)
  PROVE  Within(s, s)
BY DEF Within

LEMMA Tails ==
  ASSUME NEW A, NEW s \in Seq(A), s # <<>>
  PROVE  /\ Tail(s) \in Seq(A) /\ Len(Tail(s)) = Len(s) - 1 /\ Head(s) = s[1] /\ 1 \in DOMAIN s
         /\ \A i \in DOMAIN Tail(s) : i + 1 \in DOMAIN s /\ Tail(s)[i] = s[i + 1]
         /\ \A a \in DOMAIN s : a = 1 \/ (a - 1 \in DOMAIN Tail(s) /\ Tail(s)[a - 1] = s[a])
         /\ Within(Tail(s), s)
<1>1. Tail(s) \in Seq(A) /\ Len(Tail(s)) = Len(s) - 1 /\ Head(s) = s[1] /\ 1 \in DOMAIN s
  OBVIOUS
<1>2. \A i \in DOMAIN Tail(s) : i + 1 \in DOMAIN s /\ Tail(s)[i] = s[i + 1]
  OBVIOUS
<1>3. \A a \in DOMAIN s : a = 1 \/ (a - 1 \in DOMAIN Tail(s) /\ Tail(s)[a - 1] = s[a])
  BY <1>1, <1>2
<1>4. \A i, j \in DOMAIN Tail(s) : i < j => i + 1 < j + 1
  BY <1>1
<1>5. Len(Tail(s)) <= Len(s)
  BY <1>1
<1>. QED
  BY <1>1, <1>2, <1>3, <1>4, <1>5 DEF Within

LEMMA Removes ==
  ASSUME NEW A, NEW s \in Seq(A), NEW k \in DOMAIN s
  PROVE  LET w == RemoveAt(s, k) IN
         /\ w \in Seq(A) /\ Len(w) = Len(s) - 1
         /\ \A i \in DOMAIN w : w[i] = (IF i < k THEN s[i] ELSE s[i + 1]) /\ i \in DOMAIN s /\ i + 1 \in DOMAIN s
         /\ \A a \in DOMAIN s : a # k => \E i \in DOMAIN w : w[i] = s[a]
         /\ Within(w, s)
<1> DEFINE w == RemoveAt(s, k)  u == SubSeq(s, 1, k - 1)  v == SubSeq(s, k + 1, Len(s))
<1>1. k \in 1..Len(s) /\ Len(s) \in Nat /\ \A i \in 1..Len(s) : s[i] \in A
  OBVIOUS
<1>2. u \in Seq(A) /\ Len(u) = k - 1 /\ \A i \in 1..(k - 1) : u[i] = s[i]
  BY <1>1, SubSeqProperties
<1>3. v \in Seq(A) /\ Len(v) = Len(s) - k /\ \A i \in 1..(Len(s) - k) : v[i] = s[k + i]
  BY <1>1, SubSeqProperties
<1>4. w = u \o v
  BY DEF RemoveAt
<1> HIDE DEF u, v, w
<1>5. w \in Seq(A) /\ Len(w) = Len(s) - 1
  BY <1>1, <1>2, <1>3, <1>4
<1>6. ASSUME NEW i \in 1..(Len(s) - 1) PROVE w[i] = IF i < k THEN s[i] ELSE s[i + 1]
  <2>1. CASE i < k
    <3>1. i \in 1..Len(u)
      BY <1>1, <1>2, <2>1
    <3>2. w[i] = u[i]
      BY <1>2, <1>3, <1>4, <3>1, ConcatProperties
    <3>. QED
      BY <1>2, <2>1, <3>1, <3>2
  <2>2. CASE ~(i < k)
    <3>1. k \in Nat /\ Len(s) \in Nat /\ i \in Nat /\ 1 <= k /\ k <= i /\ i <= Len(s) - 1
      BY <1>1, <2>2
    <3>2. i - (k - 1) \in 1..(Len(s) - k) /\ i \in 1..((k - 1) + (Len(s) - k)) /\ ~(i <= k - 1)
      BY <3>1
    <3>3. i - Len(u) \in 1..Len(v) /\ i \in 1..(Len(u) + Len(v)) /\ ~(i <= Len(u))
      BY <1>2, <1>3, <3>2
    <3>4. w[i] = v[i - Len(u)]
      BY <1>2, <1>3, <1>4, <3>3, ConcatProperties
    <3>5. v[i - Len(u)] = s[k + (i - Len(u))]
      BY <1>3, <3>3
    <3>6. k + (i - Len(u)) = i + 1
      BY <1>1, <1>2
    <3>. QED
      BY <2>2, <3>4, <3>5, <3>6
  <2>. QED
    BY <2>1, <2>2
<1>7. DOMAIN w = 1..(Len(s) - 1)
  BY <1>5
<1>8. \A a \in DOMAIN s : a # k => \E i \in DOMAIN w : w[i] = s[a]
  <2>1. ASSUME NEW a \in 1..Len(s), a # k PROVE \E i \in 1..(Len(s) - 1) : w[i] = s[a]
    <3>1. CASE a < k
      BY <1>1, <1>6, <3>1
    <3>2. CASE a > k
      <4>1. a - 1 \in 1..(Len(s) - 1) /\ ~(a - 1 < k) /\ (a - 1) + 1 = a
        BY <1>1, <3>2
      <4>. QED
        BY <1>6, <4>1
    <3>. QED
      BY <1>1, <2>1, <3>1, <3>2
  <2>2. DOMAIN s = 1..Len(s)
    OBVIOUS
  <2>. QED
    BY <1>7, <2>1, <2>2, Zenon
<1>9. Within(w, s)
  <2> DEFINE f(i) == IF i < k THEN i ELSE i + 1
  <2>1. \A i \in 1..(Len(s) - 1) : f(i) \in 1..Len(s) /\ w[i] = s[f(i)]
    BY <1>1, <1>6
  <2>2. \A i, j \in 1..(Len(s) - 1) : i < j => f(i) < f(j)
    BY <1>1
  <2>3. DOMAIN s = 1..Len(s) /\ Len(w) <= Len(s)
    BY <1>1, <1>5
  <2> HIDE DEF f
  <2>. QED
    BY <1>7, <2>1, <2>2, <2>3, Zenon DEF Within
<1>. QED
  BY <1>1, <1>5, <1>6, <1>7, <1>8, <1>9 DEF w

LEMMA Minimum ==
  ASSUME NEW I, I \subseteq Nat, I # {}
  PROVE  Min(I) \in I /\ \A k \in I : Min(I) <= k
<1>1. \E m \in I : \A k \in I : m <= k
  BY LeastNumber
<1>. QED
  BY <1>1, Zenon DEF Min

-------------------------------------------------------------------------------
(* The client's buffer and its waiters.                                    *)
LEMMA Constants ==
  /\ MaxItems \in Nat /\ MaxCalls \in Nat /\ QueueLimit \in Nat \ {0} /\ MaxTracked \in Nat \ {0}
  /\ Threads \subseteq Requests /\ Nobody \notin Requests /\ Nobody \notin Threads
  /\ \A c \in Calls : c[1] \in Threads /\ c[2] \in 1..MaxCalls /\ c = <<c[1], c[2]>>
  /\ \A t \in Threads, n \in 1..MaxCalls : <<t, n>> \in Calls
BY TrackedAssumption, BoundsAssumption, OpenersAssumption, QueueLimitAssumption DEF Threads, Calls

LEMMA Sorts ==
  ASSUME Shapes
  PROVE  /\ run \in [Requests -> RunRecs] /\ out \in [Requests -> OutRecs]
         /\ cancel \in [Requests -> {"no", "gone", "asked", "answered"}]
         /\ queue \in Seq(Lines) /\ Len(queue) <= QueueLimit
         /\ waiters \in Seq(WaiterRecs) /\ upstream \in [Threads -> UpRecs]
         /\ ledger \in [Calls -> L!Statuses] /\ answers \in [Calls -> Nat]
         /\ activeTurns \subseteq Requests /\ lost \subseteq Threads
         /\ Bounded(parkedTurns) /\ Bounded(threadToolAcl)
BY Zenon DEF Shapes

LEMMA LineFields ==
  ASSUME NEW n \in Lines
  PROVE  /\ n[1] \in {"delta", "item", "usage", "done"} /\ n[2] \in Threads /\ n[3] \in 0..MaxItems
         /\ n[1] \in {"delta", "item"} => n[3] \in 1..MaxItems
         /\ n = <<n[1], n[2], n[3]>>
BY Constants DEF Lines

LEMMA Promises ==
  /\ None \notin Lines /\ Waiting \notin Lines /\ Failed \notin Lines
  /\ None # Waiting /\ None # Failed /\ Waiting # Failed /\ None # Released /\ Waiting # Released
  /\ None[1] = "none" /\ Waiting[1] = "waiting" /\ Failed[1] = "failed" /\ Released[1] = "released"
  /\ \A n \in Lines : Settled(n)
  /\ Settled(Failed) /\ Settled(Released) /\ ~Settled(None) /\ ~Settled(Waiting)
<1>1. /\ None[1] = "none" /\ Waiting[1] = "waiting" /\ Failed[1] = "failed" /\ Released[1] = "released"
  BY DEF None, Waiting, Failed, Released
<1>2. \A n \in Lines : n[1] \in {"delta", "item", "usage", "done"}
  BY LineFields
<1>3. None \notin Lines /\ Waiting \notin Lines /\ Failed \notin Lines
  BY <1>1, <1>2
<1>4. None # Waiting /\ None # Failed /\ Waiting # Failed /\ None # Released /\ Waiting # Released
  BY <1>1
<1>. QED
  BY <1>1, <1>3, <1>4 DEF Settled

LEMMA Matches ==
  ASSUME NEW A, waiters \in Seq(A), NEW kind, NEW t, NEW i, i = Match(kind, t)
  PROVE  \/ i = 0 /\ \A j \in DOMAIN waiters : ~(waiters[j].kind = kind /\ waiters[j].on = t)
         \/ i # 0 /\ i \in DOMAIN waiters /\ waiters[i].kind = kind /\ waiters[i].on = t
<1> DEFINE I == {j \in 1..Len(waiters) : waiters[j].kind = kind /\ waiters[j].on = t}
<1>1. i = IF I # {} THEN Min(I) ELSE 0
  BY DEF Match, SelectInSeq
<1>2. I \subseteq Nat /\ I \subseteq DOMAIN waiters /\ 0 \notin I
  OBVIOUS
<1>3. CASE I # {}
  <2>1. i \in I
    BY <1>1, <1>2, <1>3, Minimum
  <2>. QED
    BY <1>2, <2>1
<1>4. CASE I = {}
  BY <1>1, <1>4
<1>. QED
  BY <1>3, <1>4

FirstAt(kind, t, i) ==
  \/ i = 0 /\ \A j \in DOMAIN queue : ~(queue[j][1] = kind /\ queue[j][2] = t)
  \/ /\ i # 0 /\ i \in DOMAIN queue /\ queue[i][1] = kind /\ queue[i][2] = t
     /\ \A j \in DOMAIN queue : queue[j][1] = kind /\ queue[j][2] = t => i <= j
LEMMA BufferedAts ==
  ASSUME queue \in Seq(Lines), NEW kind, NEW t
  PROVE  FirstAt(kind, t, BufferedAt(kind, t))
<1> DEFINE i == BufferedAt(kind, t)
<1> DEFINE I == {j \in 1..Len(queue) : queue[j][1] = kind /\ queue[j][2] = t}
<1>1. i = IF I # {} THEN Min(I) ELSE 0
  BY DEF BufferedAt, SelectInSeq
<1> HIDE DEF i
<1>2. I \subseteq Nat /\ I \subseteq DOMAIN queue /\ 0 \notin I
  OBVIOUS
<1>3. I # {} => FirstAt(kind, t, i)
  <2>. HAVE I # {}
  <2>1. i \in I /\ \A k \in I : i <= k
    BY <1>1, <1>2, Minimum
  <2>. QED
    BY <1>2, <2>1 DEF FirstAt
<1>4. I = {} => FirstAt(kind, t, i)
  BY <1>1 DEF FirstAt
<1>. QED
  BY <1>3, <1>4 DEF i

(* A pump takes the first text before anything else.                       *)
LEMMA NextBuffereds ==
  ASSUME queue \in Seq(Lines), NEW t, NEW i, i = NextBuffered(t)
  PROVE  \/ i = 0 /\ Quieted(t)
         \/ /\ i # 0 /\ i \in DOMAIN queue /\ queue[i][2] = t
            /\ \A j \in DOMAIN queue : queue[j][1] = "delta" /\ queue[j][2] = t =>
                 queue[i][1] = "delta" /\ i <= j
<1> DEFINE I == {k \in 1..Len(Awaited) : BufferedAt(Awaited[k], t) # 0}
           k == IF I # {} THEN Min(I) ELSE 0
<1>1. i = IF k = 0 THEN 0 ELSE BufferedAt(Awaited[k], t)
  BY DEF NextBuffered, SelectInSeq
<1>2. /\ I \subseteq 1..4 /\ Awaited[1] = "delta" /\ Awaited[2] = "item"
      /\ Awaited[3] = "usage" /\ Awaited[4] = "done" /\ Len(Awaited) = 4
  BY DEF Awaited
<1>3. CASE I # {}
  <2>1. I \subseteq Nat
    BY <1>2
  <2>2. k \in I /\ \A j \in I : k <= j
    BY <1>3, <2>1, Minimum
  <2> DEFINE kind == Awaited[k]
  <2>3. i = BufferedAt(kind, t) /\ i # 0 /\ k \in 1..4
    BY <1>1, <1>2, <2>2
  <2> HIDE DEF k, kind
  <2>4. /\ i \in DOMAIN queue /\ queue[i][1] = kind /\ queue[i][2] = t
        /\ \A j \in DOMAIN queue : queue[j][1] = kind /\ queue[j][2] = t => i <= j
    <3>1. FirstAt(kind, t, i)
      BY <2>3, BufferedAts, Zenon
    <3>. QED
      BY <2>3, <3>1 DEF FirstAt
  <2>5. ASSUME NEW j \in DOMAIN queue, queue[j][1] = "delta", queue[j][2] = t
        PROVE  kind = "delta"
    <3>1. BufferedAt("delta", t) # 0
      <4>1. FirstAt("delta", t, BufferedAt("delta", t))
        BY BufferedAts, Zenon
      <4>. QED
        BY <2>5, <4>1 DEF FirstAt
    <3>2. 1 \in I
      BY <1>2, <3>1
    <3>3. k = 1
      BY <2>2, <2>3, <3>2
    <3>. QED
      BY <1>2, <3>3 DEF kind
  <2>. QED
    BY <2>3, <2>4, <2>5
<1>4. CASE I = {}
  <2>1. \A m \in 1..4 : BufferedAt(Awaited[m], t) = 0
    BY <1>2, <1>4
  <2>2. ASSUME NEW j \in DOMAIN queue, queue[j][2] = t PROVE FALSE
    <3>1. queue[j] \in Lines
      BY <2>2
    <3>2. PICK m \in 1..4 : Awaited[m] = queue[j][1]
      BY <1>2, <3>1, LineFields
    <3>3. FirstAt(Awaited[m], t, BufferedAt(Awaited[m], t))
      BY BufferedAts, Zenon
    <3>. QED
      BY <2>1, <2>2, <3>2, <3>3 DEF FirstAt
  <2>. QED
    BY <1>1, <1>4, <2>2 DEF Quieted
<1>. QED
  BY <1>3, <1>4

-------------------------------------------------------------------------------
(* What the steps do to the requests' records.                             *)
LEMMA RunFields ==
  ASSUME NEW rec \in RunRecs
  PROVE  /\ rec.pc \in {"idle", "starting", "begin", "loop", "race", "done"}
         /\ rec.at \in Threads \cup {Nobody} /\ rec.tools \in ToolSets \cup {{}}
         /\ rec.acl \in ToolSets \cup {{}} /\ rec.note \in Notes /\ rec.tool \in ToolPromises
         /\ rec.first \in {"none", "note", "tool"} /\ rec.seen \in SUBSET (1..MaxItems)
         /\ \A v \in {"idle", "starting", "begin", "loop", "race", "done"} : [rec EXCEPT !.pc = v] \in RunRecs
         /\ \A v \in Threads \cup {Nobody} : [rec EXCEPT !.at = v] \in RunRecs
         /\ \A v \in ToolSets \cup {{}} : [rec EXCEPT !.tools = v] \in RunRecs
         /\ \A v \in ToolSets \cup {{}} : [rec EXCEPT !.acl = v] \in RunRecs
         /\ \A v \in Notes : [rec EXCEPT !.note = v] \in RunRecs
         /\ \A v \in ToolPromises : [rec EXCEPT !.tool = v] \in RunRecs
         /\ \A v \in {"none", "note", "tool"} : [rec EXCEPT !.first = v] \in RunRecs
         /\ \A v \in SUBSET (1..MaxItems) : [rec EXCEPT !.seen = v] \in RunRecs
BY DEF RunRecs

LEMMA FreshFields ==
  /\ Fresh \in RunRecs
  /\ Fresh.pc = "idle" /\ Fresh.at = Nobody /\ Fresh.tools = {} /\ Fresh.acl = {}
  /\ Fresh.note = None /\ Fresh.tool = None /\ Fresh.first = "none" /\ Fresh.seen = {}
<1>1. None \in Notes /\ None \in ToolPromises /\ {} \in SUBSET (1..MaxItems)
      /\ {} \in ToolSets \cup {{}} /\ Nobody \in Threads \cup {Nobody}
  BY DEF Notes, ToolPromises
<1>. QED
  BY <1>1 DEF Fresh, RunRecs

LEMMA OutFields ==
  ASSUME NEW rec \in OutRecs
  PROVE  /\ rec.text \in Seq(Threads \X (1..MaxItems))
         /\ rec.end \in {"none", "silent", "error", "completed", "tool_calls"}
         /\ \A v \in {"none", "silent", "error", "completed", "tool_calls"} : [rec EXCEPT !.end = v] \in OutRecs
         /\ \A v \in Seq(Threads \X (1..MaxItems)) : [rec EXCEPT !.text = v] \in OutRecs
BY DEF OutRecs

LEMMA UpFields ==
  ASSUME NEW rec \in UpRecs
  PROVE  /\ rec.on \in BOOLEAN /\ rec.items \in 0..MaxItems /\ rec.said \in SUBSET (1..MaxItems)
         /\ rec.usage \in Nat /\ rec.asked \in 0..MaxCalls
         /\ \A v \in BOOLEAN : [rec EXCEPT !.on = v] \in UpRecs
         /\ \A v \in 0..MaxItems : [rec EXCEPT !.items = v] \in UpRecs
         /\ \A v \in SUBSET (1..MaxItems) : [rec EXCEPT !.said = v] \in UpRecs
         /\ \A v \in Nat : [rec EXCEPT !.usage = v] \in UpRecs
         /\ \A v \in 0..MaxCalls : [rec EXCEPT !.asked = v] \in UpRecs
BY DEF UpRecs

LEMMA Forgets ==
  ASSUME NEW m, Bounded(m), NEW S
  PROVE  /\ Bounded(Without(m, S))
         /\ \A x : Contains(Without(m, S), x) => Contains(m, x)
<1>1. m \in Seq(Requests) /\ Len(m) <= MaxTracked /\ Len(m) \in Nat /\ DOMAIN m = 1..Len(m)
  BY DEF Bounded
<1>2. /\ Without(m, S) \in Seq(Requests) /\ Within(Without(m, S), m)
  BY <1>1, Withouts
<1> DEFINE w == Without(m, S)
<1>3. Len(w) \in Nat /\ DOMAIN w = 1..Len(w) /\ Len(w) <= MaxTracked
  BY <1>1, <1>2, Constants DEF Within
<1> HIDE DEF w
<1>4. ASSUME NEW i \in DOMAIN w, NEW j \in DOMAIN w, w[i] = w[j] PROVE i = j
  <2>1. \A a, b \in DOMAIN w : a < b => w[a] # w[b]
    <3>1. SUFFICES ASSUME NEW a \in DOMAIN w, NEW b \in DOMAIN w, a < b PROVE w[a] # w[b]
      OBVIOUS
    <3>2. PICK k, l \in DOMAIN m : k < l /\ w[a] = m[k] /\ w[b] = m[l]
      BY <1>2, <3>1 DEF Within, w
    <3>3. m[k] = m[l] => k = l
      BY DEF Bounded
    <3>. QED
      BY <1>1, <3>2, <3>3
  <2>. QED
    BY <1>3, <1>4, <2>1
<1>5. \A x : Contains(w, x) => Contains(m, x)
  BY <1>1, <1>2, <1>3 DEF Within, Contains, w
<1>. QED
  BY <1>2, <1>3, <1>4, <1>5 DEF Bounded, w

LEMMA Remembers ==
  ASSUME NEW m, Bounded(m), NEW x \in Requests
  PROVE  /\ Bounded(Remembered(m, x))
         /\ \A y : Contains(Remembered(m, x), y) => y = x \/ Contains(m, y)
<1> DEFINE w == Without(m, {x})  a == Append(w, x)
<1>1. w \in Seq(Requests) /\ \A i \in DOMAIN w : w[i] # x
  BY Withouts DEF Bounded
<1>2. Bounded(w) /\ \A y : Contains(w, y) => Contains(m, y)
  BY Forgets
<1> HIDE DEF w
<1>3. /\ a \in Seq(Requests) /\ Len(a) = Len(w) + 1 /\ a[Len(w) + 1] = x /\ Len(w) \in Nat
      /\ \A i \in 1..Len(w) : a[i] = w[i]
  BY <1>1
<1>4. \A i, j \in DOMAIN a : a[i] = a[j] => i = j
  <2>1. ASSUME NEW i \in 1..Len(a), NEW j \in 1..Len(a), a[i] = a[j] PROVE i = j
    <3>1. CASE i \in 1..Len(w) /\ j \in 1..Len(w)
      <4>1. w[i] = w[j] /\ i \in DOMAIN w /\ j \in DOMAIN w
        BY <1>1, <1>3, <2>1, <3>1
      <4>. QED
        BY <1>2, <4>1 DEF Bounded
    <3>2. CASE i \in 1..Len(w) /\ j = Len(w) + 1
      BY <1>1, <1>3, <2>1, <3>2
    <3>3. CASE j \in 1..Len(w) /\ i = Len(w) + 1
      BY <1>1, <1>3, <2>1, <3>3
    <3>. QED
      BY <1>3, <3>1, <3>2, <3>3
  <2>2. DOMAIN a = 1..Len(a)
    BY <1>3
  <2> HIDE DEF a
  <2>. QED
    BY <2>1, <2>2
<1>5. \A y : Contains(a, y) => y = x \/ Contains(m, y)
  <2>1. \A y : Contains(a, y) => y = x \/ Contains(w, y)
    BY <1>3 DEF Contains
  <2>. QED
    BY <1>2, <2>1
<1>6. Len(w) <= MaxTracked /\ MaxTracked \in Nat \ {0}
  BY <1>2, Constants DEF Bounded
<1> HIDE DEF a
<1>7. Remembered(m, x) = IF Len(a) > MaxTracked THEN Tail(a) ELSE a
  BY DEF Remembered, a, w
<1>8. CASE Len(a) > MaxTracked
  <2>1. /\ Tail(a) \in Seq(Requests) /\ Len(Tail(a)) = Len(a) - 1
        /\ \A i \in DOMAIN Tail(a) : i + 1 \in DOMAIN a /\ Tail(a)[i] = a[i + 1]
    BY <1>3, <1>6, <1>8, Tails
  <2>2. ASSUME NEW i \in DOMAIN Tail(a), NEW j \in DOMAIN Tail(a), Tail(a)[i] = Tail(a)[j]
        PROVE  i = j
    <3>1. i + 1 = j + 1
      BY <1>4, <2>1, <2>2
    <3>. QED
      BY <2>1, <3>1
  <2>3. \A y : Contains(Tail(a), y) => Contains(a, y)
    <3>1. DOMAIN Tail(a) = 1..Len(Tail(a)) /\ DOMAIN a = 1..Len(a)
      BY <1>3, <2>1
    <3>. QED
      BY <2>1, <3>1 DEF Contains
  <2>4. Bounded(Tail(a))
    BY <1>3, <1>6, <2>1, <2>2 DEF Bounded
  <2>. QED
    BY <1>5, <1>7, <1>8, <2>3, <2>4
<1>9. CASE ~(Len(a) > MaxTracked)
  <2>1. Bounded(a)
    BY <1>3, <1>4, <1>6, <1>9 DEF Bounded
  <2>. QED
    BY <1>5, <1>7, <1>9, <2>1
<1>. QED
  BY <1>8, <1>9

(* A scope that is discarded: no line and no waiter of thread t is left,   *)
(* and all the others are.                                                 *)
PurgesQueue(t) ==
  /\ queue' \in Seq(Lines) /\ Within(queue', queue)
  /\ \A i \in DOMAIN queue' : queue'[i][2] # t
  /\ \A a \in DOMAIN queue : queue[a][2] # t => \E i \in DOMAIN queue' : queue'[i] = queue[a]
PurgesWaiters(t) ==
  /\ waiters' \in Seq(WaiterRecs) /\ Within(waiters', waiters)
  /\ \A i \in DOMAIN waiters' : waiters'[i].on # t
  /\ \A a \in DOMAIN waiters : waiters[a].on # t => \E i \in DOMAIN waiters' : waiters'[i] = waiters[a]

LEMMA QueuePurged ==
  ASSUME Shapes, NEW t, queue' = QueueWithout(t)
  PROVE  PurgesQueue(t) /\ Len(queue') <= QueueLimit
<1> DEFINE S == {n \in Range(queue) : n[2] = t}  w == Without(queue, S)
<1>1. queue \in Seq(Lines) /\ Len(queue) <= QueueLimit /\ QueueLimit \in Nat /\ Len(queue) \in Nat
  BY Sorts, Constants
<1>2. \A a \in DOMAIN queue : queue[a] \in S <=> queue[a][2] = t
  BY DEF Range
<1>3. queue' = w
  BY DEF QueueWithout
<1> HIDE DEF S
<1>4. /\ w \in Seq(Lines) /\ Within(w, queue) /\ \A i \in DOMAIN w : w[i] \notin S
      /\ \A a \in DOMAIN queue : queue[a] \notin S => \E i \in DOMAIN w : w[i] = queue[a]
  BY <1>1, Withouts
<1> HIDE DEF w
<1>5. \A i \in DOMAIN w : w[i][2] # t
  <2>1. ASSUME NEW i \in DOMAIN w PROVE w[i][2] # t
    <3>1. PICK a \in DOMAIN queue : w[i] = queue[a]
      BY <1>4 DEF Within
    <3>. QED
      BY <1>2, <1>4, <3>1
  <2>. QED
    BY <2>1
<1>6. Len(w) <= Len(queue) /\ Len(w) \in Nat
  BY <1>4 DEF Within
<1>7. Len(w) <= QueueLimit
  BY <1>1, <1>6
<1>8. \A a \in DOMAIN queue : queue[a][2] # t => \E i \in DOMAIN w : w[i] = queue[a]
  BY <1>2, <1>4
<1>. QED
  BY <1>3, <1>4, <1>5, <1>7, <1>8, Zenon DEF PurgesQueue

LEMMA WaitersPurged ==
  ASSUME Shapes, NEW t, waiters' = WaitersWithout(t)
  PROVE  PurgesWaiters(t)
<1> DEFINE S == {n \in Range(waiters) : n.on = t}  w == Without(waiters, S)
<1>1. waiters \in Seq(WaiterRecs)
  BY Sorts
<1>2. \A a \in DOMAIN waiters : waiters[a] \in S <=> waiters[a].on = t
  BY DEF Range
<1>3. waiters' = w
  BY DEF WaitersWithout
<1> HIDE DEF S
<1>4. /\ w \in Seq(WaiterRecs) /\ Within(w, waiters) /\ \A i \in DOMAIN w : w[i] \notin S
      /\ \A a \in DOMAIN waiters : waiters[a] \notin S => \E i \in DOMAIN w : w[i] = waiters[a]
  BY <1>1, Withouts
<1> HIDE DEF w
<1>5. \A i \in DOMAIN w : w[i].on # t
  <2>1. ASSUME NEW i \in DOMAIN w PROVE w[i].on # t
    <3>1. PICK a \in DOMAIN waiters : w[i] = waiters[a]
      BY <1>4 DEF Within
    <3>. QED
      BY <1>2, <1>4, <3>1
  <2>. QED
    BY <2>1
<1>6. \A a \in DOMAIN waiters : waiters[a].on # t => \E i \in DOMAIN w : w[i] = waiters[a]
  BY <1>2, <1>4
<1>. QED
  BY <1>3, <1>4, <1>5, <1>6, Zenon DEF PurgesWaiters

(* A request's record changes, and no other's does.                        *)
OnlyRun(r) == run' \in [Requests -> RunRecs] /\ \A q \in Requests : q # r => run'[q] = run[q]
OnlyOut(r) == out' \in [Requests -> OutRecs] /\ \A q \in Requests : q # r => out'[q] = out[q]
Ends == {"silent", "error", "completed", "tool_calls"}

LEMMA Finishes ==
  ASSUME Shapes, NEW r \in Requests, NEW end \in Ends, Finish(r, end)
  PROVE  /\ OnlyRun(r) /\ OnlyOut(r)
         /\ run'[r].pc = "done" /\ run'[r].at = At(r) /\ run'[r].tools = run[r].tools
         /\ run'[r].acl = {} /\ run'[r].note = None /\ run'[r].tool = None /\ run'[r].first = "none"
         /\ out'[r].text = out[r].text /\ out'[r].end = (IF Aborted(r) THEN "silent" ELSE end)
         /\ activeTurns' = activeTurns \ {r}
         /\ PurgesQueue(At(r)) /\ Len(queue') <= QueueLimit /\ PurgesWaiters(At(r))
<1>1. run \in [Requests -> RunRecs] /\ out \in [Requests -> OutRecs]
  BY Sorts
<1> DEFINE new == [Fresh EXCEPT !.pc = "done", !.at = At(r), !.tools = run[r].tools]
<1>2. At(r) \in Threads \cup {Nobody} /\ run[r].tools \in ToolSets \cup {{}}
  BY <1>1, RunFields DEF At
<1>3. /\ new \in RunRecs /\ new.pc = "done" /\ new.at = At(r) /\ new.tools = run[r].tools
      /\ new.acl = {} /\ new.note = None /\ new.tool = None /\ new.first = "none"
  <2>1. [Fresh EXCEPT !.pc = "done"] \in RunRecs
    BY FreshFields, RunFields
  <2>2. [Fresh EXCEPT !.pc = "done", !.at = At(r)] \in RunRecs
    BY <1>2, <2>1, RunFields
  <2>3. new \in RunRecs
    BY <1>2, <2>2, RunFields
  <2>. QED
    BY <2>3 DEF Fresh
<1>4. run' = [run EXCEPT ![r] = new]
  BY DEF Finish
<1> HIDE DEF new
<1>5. OnlyRun(r) /\ run'[r] = new
  BY <1>1, <1>3, <1>4 DEF OnlyRun
<1>6. /\ out' = [out EXCEPT ![r].end = IF Aborted(r) THEN "silent" ELSE end]
      /\ activeTurns' = activeTurns \ {r}
      /\ queue' = QueueWithout(At(r)) /\ waiters' = WaitersWithout(At(r))
  BY DEF Finish
<1>7. (IF Aborted(r) THEN "silent" ELSE end) \in {"none", "silent", "error", "completed", "tool_calls"}
  BY DEF Ends
<1>8. OnlyOut(r) /\ out'[r].text = out[r].text /\ out'[r].end = (IF Aborted(r) THEN "silent" ELSE end)
  <2>1. out[r] \in OutRecs
    BY <1>1
  <2>2. [out[r] EXCEPT !.end = IF Aborted(r) THEN "silent" ELSE end] \in OutRecs
    BY <1>7, <2>1, OutFields
  <2>3. out' = [out EXCEPT ![r] = [out[r] EXCEPT !.end = IF Aborted(r) THEN "silent" ELSE end]]
    BY <1>1, <1>6
  <2>. QED
    BY <1>1, <2>1, <2>2, <2>3 DEF OnlyOut, OutRecs
<1>. QED
  BY <1>3, <1>5, <1>6, <1>8, QueuePurged, WaitersPurged

-------------------------------------------------------------------------------
(* What carries the parts of the invariant over a step.                    *)
LEMMA Basics ==
  ASSUME IInv
  PROVE  /\ Shapes /\ Waits /\ Single /\ Buffers
         /\ \A c \in Calls : Counted(c)
         /\ \A t \in Threads : Speech(t)
         /\ \A r \in Requests : Steered(r) /\ Allowed(r) /\ Awaiting(r) /\ InOrder(r) /\ Whole(r)
BY DEF IInv, Client

LEMMA Pending ==
  /\ \A c : c \in L!Pending <=> c \in Calls /\ ledger[c] = "pending"
  /\ \A c : c \in (L!Pending)' <=> c \in Calls /\ ledger'[c] = "pending"
BY DEF L!Pending

(* Requests that stay on their threads, or leave them.                     *)
Moved(q) ==
  /\ run'[q].at = run[q].at /\ run'[q].tools = run[q].tools
  /\ cancel'[q] = "no" <=> cancel[q] = "no"
  /\ Active(q)' => Active(q) /\ run'[q].acl = run[q].acl
  /\ run'[q].pc = "idle" => run[q].pc = "idle" /\ run'[q] = run[q]
  /\ run'[q].pc = "starting" => run[q].pc = "starting"
  /\ ~Pumping(q)' => run'[q].note = None /\ run'[q].tool = None /\ run'[q].first = "none"
  /\ q \in activeTurns' => Pumping(q)'

LEMMA Onward ==
  ASSUME IInv, \A q \in Requests : Moved(q),
         \A c \in Calls : ledger'[c] = "pending" =>
            \/ ledger[c] = "pending"
            \/ \E r \in Requests : c[1] = At(r) /\ Active(r) /\ ~Active(r)' /\ ~Aborted(r),
         \A t : Contains(threadToolAcl, t)' =>
            Contains(threadToolAcl, t) \/ (t \in Requests /\ Active(t) /\ At(t) = t)
  PROVE  \A q \in Requests : Steered(q)' /\ Allowed(q)'
<1>. SUFFICES ASSUME NEW q \in Requests PROVE Steered(q)' /\ Allowed(q)'
  OBVIOUS
<1>1. Steered(q) /\ Allowed(q) /\ Moved(q) /\ Threads \subseteq Requests
  BY Basics, Constants
<1>2. \A p \in Requests : /\ At(p)' = At(p) /\ (Aborted(p)' <=> Aborted(p)) /\ Declared(p)' = Declared(p)
                          /\ Active(p)' => Active(p)
  BY DEF Moved, At, Aborted, Declared
<1>3. Active(q) \/ Aborted(q) => At(q) \in Threads
  BY <1>1 DEF Steered
<1>4. ASSUME Active(q)' \/ Aborted(q), Parked(At(q))' PROVE FALSE
  <2>1. PICK c \in Calls : ledger'[c] = "pending" /\ c[1] = At(q)
    BY <1>2, <1>4, Pending DEF Parked
  <2>2. ledger[c] # "pending"
    BY <1>1, <1>2, <1>4, <2>1, Pending DEF Steered, Parked
  <2>3. PICK r \in Requests : c[1] = At(r) /\ Active(r) /\ ~Active(r)' /\ ~Aborted(r)
    BY <2>1, <2>2
  <2>4. Steered(r)
    BY Basics
  <2>5. Alone(r)
    BY <2>3, <2>4 DEF Steered
  <2>. QED
    BY <1>2, <1>4, <2>1, <2>3, <2>5 DEF Alone
<1>5. Active(q)' => Alone(q)'
  BY <1>1, <1>2 DEF Steered, Alone
<1>6. At(q) \in Threads => At(At(q))' = At(q)
  BY <1>1, <1>2 DEF Steered
<1>7. run'[q].pc = "idle" => run'[q] = Fresh /\ cancel'[q] = "no"
  BY <1>1 DEF Steered, Moved
<1>8. run'[q].pc = "starting" => At(q) = q
  BY <1>1 DEF Steered, Moved
<1>9. Steered(q)'
  BY <1>1, <1>2, <1>3, <1>4, <1>5, <1>6, <1>7, <1>8 DEF Steered, Moved, Note, Tool
<1>10. Allowed(q)'
  <2>1. SUFFICES ASSUME Active(q)'
                 PROVE  /\ At(q) = q => run'[q].acl = run'[q].tools
                        /\ Contains(threadToolAcl, At(q))' => run'[q].acl = Declared(At(q))'
    BY <1>2 DEF Allowed
  <2>2. Active(q) /\ run'[q].acl = run[q].acl /\ run'[q].tools = run[q].tools
        /\ Declared(At(q))' = Declared(At(q))
    BY <1>1, <1>2, <1>3, <2>1 DEF Moved
  <2>3. At(q) = q => run'[q].acl = run'[q].tools
    BY <1>1, <2>2 DEF Allowed
  <2>4. ASSUME Contains(threadToolAcl, At(q))' PROVE run[q].acl = Declared(At(q))
    <3>1. CASE Contains(threadToolAcl, At(q))
      BY <1>1, <2>2, <3>1 DEF Allowed
    <3>2. CASE At(q) \in Requests /\ Active(At(q)) /\ At(At(q)) = At(q)
      <4>1. At(q) = q
        <5>1. Steered(At(q))
          BY <3>2, Basics
        <5>. QED
          BY <2>2, <3>2, <5>1 DEF Steered, Alone
      <4>. QED
        BY <1>1, <2>2, <4>1 DEF Allowed, Declared
    <3>. QED
      BY <1>2, <2>4, <3>1, <3>2
  <2>. QED
    BY <2>2, <2>3, <2>4
<1>. QED
  BY <1>9, <1>10

(* What may become of a call in a step.                                    *)
CallStep(c) ==
  \/ ledger'[c] = ledger[c] /\ answers'[c] = answers[c]
  \/ ledger[c] = "pending" /\ ledger'[c] \in {"expired", "cancelled"} /\ answers'[c] = answers[c]
  \/ ledger[c] = "pending" /\ ledger'[c] = "resolved" /\ answers'[c] = answers[c] + 1
  \/ /\ Untouched(c) /\ c[2] <= upstream'[c[1]].asked
     /\ \/ ledger'[c] = "unborn" /\ answers'[c] \in {0, 1}
        \/ ledger'[c] \in {"pending", "cancelled"} /\ answers'[c] = 0

LEMMA Counts ==
  ASSUME IInv, \A c \in Calls : CallStep(c),
         \A t \in Threads : upstream'[t].asked \in Nat /\ upstream'[t].asked >= upstream[t].asked,
         \A c, d \in Calls : ledger'[c] = "pending" /\ ledger'[d] = "pending" /\ c[1] = d[1]
                             /\ ledger[c] # "pending" => c = d
  PROVE  Single' /\ \A c \in Calls : Counted(c)'
<1>1. ASSUME NEW c \in Calls PROVE Counted(c)'
  <2>1. Counted(c) /\ CallStep(c) /\ answers[c] \in Nat
    BY Basics, Sorts
  <2>2. /\ c[2] \in Nat /\ upstream[c[1]].asked \in Nat /\ upstream'[c[1]].asked \in Nat
        /\ upstream'[c[1]].asked >= upstream[c[1]].asked
    <3>1. c[1] \in Threads /\ c[2] \in Nat
      BY Constants
    <3>2. upstream[c[1]] \in UpRecs /\ MaxCalls \in Nat
      BY <3>1, Basics, Sorts, Constants
    <3>. QED
      BY <3>1, <3>2, UpFields
  <2>3. c[2] > upstream'[c[1]].asked => c[2] > upstream[c[1]].asked
    BY <2>2
  <2>4. CASE ledger'[c] = ledger[c] /\ answers'[c] = answers[c]
    BY <2>1, <2>3, <2>4 DEF Counted, Untouched
  <2>5. CASE /\ ledger[c] = "pending"
             /\ \/ ledger'[c] \in {"expired", "cancelled"} /\ answers'[c] = answers[c]
                \/ ledger'[c] = "resolved" /\ answers'[c] = answers[c] + 1
    BY <2>1, <2>3, <2>5 DEF Counted, Untouched
  <2>6. CASE /\ Untouched(c) /\ c[2] <= upstream'[c[1]].asked
             /\ \/ ledger'[c] = "unborn" /\ answers'[c] \in {0, 1}
                \/ ledger'[c] \in {"pending", "cancelled"} /\ answers'[c] = 0
    BY <2>2, <2>6 DEF Counted
  <2>. QED
    BY <2>1, <2>4, <2>5, <2>6 DEF CallStep
<1>2. ASSUME NEW c \in Calls, NEW d \in Calls, ledger'[c] = "pending", ledger'[d] = "pending", c[1] = d[1]
      PROVE  c = d
  <2>1. CASE ledger[c] # "pending" \/ ledger[d] # "pending"
    BY <1>2, <2>1
  <2>2. CASE ledger[c] = "pending" /\ ledger[d] = "pending"
    BY <1>2, <2>2, Basics, Pending DEF Single
  <2>. QED
    BY <2>1, <2>2
<1>3. Single'
  BY <1>2, Pending DEF Single
<1>. QED
  BY <1>1, <1>3

(* A thread of which a step changes nothing that its pump relies on.       *)
Calm(t) ==
  /\ \A i \in DOMAIN queue' : queue'[i][2] = t => \E a \in DOMAIN queue : queue[a] = queue'[i]
  /\ upstream'[t].items = upstream[t].items /\ upstream'[t].said = upstream[t].said
  /\ upstream'[t].asked \in Nat /\ upstream'[t].asked >= upstream[t].asked
  /\ upstream'[t].on => upstream[t].on \/ run[t].pc = "starting"
  /\ t \in evicted => t \in evicted'
  /\ t \in lost \/ (protocolFailed /\ At(t) = t) => t \in lost' \/ protocolFailed'

(* A request whose promises are at most rejected, and then of its pump.    *)
Clauses(r) ==
  /\ run[r].pc = "loop" => Note(r) = None /\ run[r].first = "none"
  /\ run[r].pc = "race" /\ run[r].first = "none" => Note(r) = Waiting /\ ~Settled(Tool(r))
  /\ run[r].first = "note" => Settled(Note(r))
  /\ run[r].first = "tool" => Settled(Tool(r))
  /\ Note(r) = Waiting => Listens(r, "note")
  /\ Tool(r) = Waiting => Listens(r, "tool")
  /\ Held(r) => /\ Tool(r)[2] = At(r) /\ Tool(r)[3] <= upstream[At(r)].asked
                /\ Untouched(Asked(r))
Carried(q) ==
  /\ run'[q].pc = run[q].pc /\ run'[q].at = run[q].at /\ run'[q].tools = run[q].tools
  /\ run'[q].acl = run[q].acl /\ run'[q].seen = run[q].seen
  /\ run'[q].note = run[q].note \/ (run[q].note = Waiting /\ run'[q].note = Failed)
  /\ run'[q].tool = run[q].tool \/ (run[q].tool = Waiting /\ run'[q].tool # None)
  /\ out'[q] = out[q] /\ (Aborted(q) => Aborted(q)')
  /\ Pumping(q) => Clauses(q)'
  /\ Active(q) /\ At(q) = q /\ ~Aborted(q)' /\ q \notin lost' /\ ~protocolFailed' =>
       \A k : Queued(q, k) => Queued(q, k)' \/ q \in evicted'
(* Nobody is led to a thread that has not parked a call.                   *)
Roads == \A p \in Requests : At(p)' = At(p) \/ At(p)' = p \/ Parked(At(p)')
Parks == \A c \in Calls : ledger'[c] = "pending" =>
           ledger[c] = "pending" \/ \E r \in Requests : c[1] = At(r) /\ Active(r) /\ run[r].acl # {}

LEMMA Carries ==
  ASSUME IInv, NEW q \in Requests, Carried(q), At(q) \in Threads => Calm(At(q))
  PROVE  Awaiting(q)' /\ InOrder(q)'
<1> DEFINE t == At(q)
<1>1. /\ Steered(q) /\ Awaiting(q) /\ InOrder(q) /\ Carried(q) /\ t' = t
      /\ (Pumping(q)' <=> Pumping(q))
  BY Basics DEF Carried, At, Pumping
<1>2. /\ run[q].note \in Lines => Pumping(q)
      /\ run[q].note[1] \in {"delta", "item", "done"} => Pumping(q)
      /\ run[q].note = Waiting => Pumping(q)
  BY <1>1, Promises DEF Steered, Note
<1>3. Pumping(q) => t \in Threads /\ Calm(t)
  BY <1>1 DEF Steered, Active, Pumping
<1>4. /\ run'[q].note \in Lines => run'[q].note = run[q].note
      /\ run'[q].note[1] \in {"delta", "item", "done"} => run'[q].note = run[q].note
      /\ run'[q].note = Waiting => run'[q].note = run[q].note
      /\ run'[q].note = None <=> run[q].note = None
  BY <1>1, Promises DEF Carried
<1>5. run'[q].tool = None <=> run[q].tool = None
  BY <1>1, Promises DEF Carried
<1>6. Awaiting(q)'
  <2>1. SUFFICES ASSUME Pumping(q)' PROVE Awaiting(q)'
    BY DEF Awaiting
  <2>2. Pumping(q) /\ Clauses(q)' /\ t \in Threads /\ Calm(t)
    BY <1>1, <1>3, <2>1 DEF Carried
  <2>3. /\ run'[q].tool = None <=> run'[q].acl = {}
        /\ run'[q].note \in Lines => run'[q].note[2] = At(q)'
        /\ run'[q].pc = "race" => run'[q].note # None
    BY <1>1, <1>4, <1>5, <2>2 DEF Awaiting, Note, Tool, Carried
  <2>. QED
    BY <2>1, <2>2, <2>3 DEF Awaiting, Clauses, Note, Tool
<1>7. InOrder(q)'
  <2>1. /\ run'[q].pc \in {"idle", "starting", "begin"} => out'[q].text = <<>> /\ out'[q].end = "none"
        /\ \A i \in DOMAIN out'[q].text : out'[q].text[i][1] = t
        /\ \A i, j \in DOMAIN out'[q].text : i < j => out'[q].text[i][2] < out'[q].text[j][2]
    BY <1>1 DEF InOrder, Carried
  <2>2. ASSUME Calm(t), NEW k
        PROVE (Past(t, k) => Past(t, k)') /\ (Later(t, k) => Later(t, k)') /\ (Quieted(t) => Quieted(t)')
    BY <1>1, <2>2 DEF Past, Later, Quieted, Calm
  <2>3. ASSUME Pumping(q), NEW i \in DOMAIN out[q].text, NEW k, k = out[q].text[i][2]
        PROVE  /\ k \in run'[q].seen /\ Past(t, k)' /\ Later(t, k)'
               /\ run'[q].note[1] = "delta" => k < run'[q].note[3]
               /\ run'[q].note[1] = "item"  => k <= run'[q].note[3]
    <3>1. /\ k \in run[q].seen /\ Past(t, k) /\ Later(t, k)
          /\ run[q].note[1] = "delta" => k < run[q].note[3]
          /\ run[q].note[1] = "item"  => k <= run[q].note[3]
      BY <1>1, <2>3 DEF InOrder, Note
    <3>. QED
      BY <1>1, <1>3, <1>4, <2>2, <2>3, <3>1 DEF Carried
  <2>4. ASSUME run'[q].note \in Lines, NEW k, k = run'[q].note[3]
        PROVE  /\ run'[q].note[1] \in {"delta", "item"} => Past(t, k)' /\ Later(t, k)'
               /\ run'[q].note[1] = "item" => k <= upstream'[t].items
    <3>1. /\ run[q].note[1] \in {"delta", "item"} => Past(t, k) /\ Later(t, k)
          /\ run[q].note[1] = "item" => k <= upstream[t].items
      BY <1>1, <1>4, <2>4 DEF InOrder, Note
    <3>2. Calm(t) /\ upstream'[t].items = upstream[t].items
      BY <1>2, <1>3, <1>4, <2>4 DEF Calm
    <3>. QED
      BY <1>4, <2>2, <2>4, <3>1, <3>2
  <2>5. run'[q].note = Waiting => Quieted(t)'
    BY <1>1, <1>2, <1>3, <1>4, <2>2 DEF InOrder, Note
  <2>6. run'[q].note[1] = "done" => ~upstream'[t].on
    <3>1. SUFFICES ASSUME run[q].note[1] = "done", Pumping(q), ~upstream[t].on
                   PROVE  ~upstream'[t].on
      BY <1>1, <1>2, <1>4 DEF InOrder, Note
    <3>2. run[t].pc # "starting"
      <4>1. t \in Requests /\ Steered(t) /\ Active(q)
        BY <1>3, <3>1, Basics, Constants DEF Active, Pumping
      <4>2. t # q => ~Active(t)
        BY <1>1, <1>3, <3>1, <4>1 DEF Steered, Alone
      <4>. QED
        BY <3>1, <4>2 DEF Active, Pumping
    <3>. QED
      BY <1>3, <3>1, <3>2 DEF Calm
  <2>. QED
    BY <1>1, <2>1, <2>3, <2>4, <2>6, <2>5 DEF InOrder, Note, Carried
<1>. QED
  BY <1>6, <1>7

LEMMA Spared ==
  ASSUME IInv, Roads, Parks, NEW q \in Requests, Plain(q)
  PROVE  ~Parked(q)' /\ \A p \in Requests : At(p)' = q => p = q
<1>1. Whole(q) /\ Allowed(q) /\ At(q) = q /\ run[q].tools = {}
  BY Basics DEF Plain, Declared
<1>2. ~Parked(q) /\ \A p \in Requests : At(p) = q => p = q
  BY <1>1 DEF Whole
<1>3. ASSUME NEW c \in Calls, ledger'[c] = "pending", c[1] = q PROVE FALSE
  <2>1. ledger[c] # "pending"
    BY <1>2, <1>3, Pending DEF Parked
  <2>2. PICK r \in Requests : c[1] = At(r) /\ Active(r) /\ run[r].acl # {}
    BY <1>3, <2>1 DEF Parks
  <2>3. r = q
    BY <1>2, <1>3, <2>2
  <2>. QED
    BY <1>1, <2>2, <2>3 DEF Allowed
<1>4. ~Parked(q)'
  BY <1>3, Pending DEF Parked
<1>5. ASSUME NEW p \in Requests, At(p)' = q PROVE p = q
  BY <1>2, <1>5 DEF Roads
<1>. QED
  BY <1>4, <1>5

LEMMA CarriesWhole ==
  ASSUME IInv, Roads, Parks, NEW q \in Requests, Carried(q), At(q) \in Threads => Calm(At(q))
  PROVE  Whole(q)'
<1>1. SUFFICES ASSUME Plain(q)' PROVE Whole(q)'
  BY DEF Whole
<1>2. /\ Plain(q) /\ At(q)' = At(q) /\ At(q) = q /\ q \in Threads /\ q \in Requests
      /\ (Active(q)' <=> Active(q)) /\ run'[q].pc = run[q].pc /\ out'[q] = out[q]
      /\ Whole(q) /\ Steered(q) /\ Calm(q)
  BY <1>1, Basics, Constants DEF Plain, Declared, Carried, At, Active, Threads
<1>3. ~Parked(q)' /\ \A p \in Requests : At(p)' = q => p = q
  BY <1>2, Spared
<1>4. upstream'[q].said = upstream[q].said /\ (q \in evicted => q \in evicted')
  BY <1>2 DEF Calm
<1>5. \A k : Told(q, k)' <=> Told(q, k)
  BY <1>2 DEF Told
<1>6. ASSUME Active(q)', run'[q].pc # "starting", ~Aborted(q)', q \notin evicted'
      PROVE  IF run'[q].note[1] = "done" THEN \A k \in upstream'[q].said : Told(q, k)'
             ELSE q \in lost' \/ protocolFailed' \/ \A k \in upstream'[q].said :
               Told(q, k)' \/ run'[q].note = <<"delta", q, k>> \/ Queued(q, k)'
  <2>1. /\ Active(q) /\ run[q].pc # "starting" /\ ~Aborted(q) /\ q \notin evicted
        /\ IF run[q].note[1] = "done" THEN \A k \in upstream[q].said : Told(q, k)
           ELSE q \in lost \/ protocolFailed \/ \A k \in upstream[q].said :
             Told(q, k) \/ run[q].note = <<"delta", q, k>> \/ Queued(q, k)
    BY <1>2, <1>4, <1>6 DEF Whole, Note, Carried
  <2>2. CASE run[q].note[1] = "done"
    <3>1. run'[q].note = run[q].note
      BY <2>2, Promises DEF Carried
    <3>. QED
      BY <1>4, <1>5, <2>1, <2>2, <3>1
  <2>3. CASE run[q].note[1] # "done"
    <3>1. run'[q].note[1] # "done" /\ \A k : run[q].note = <<"delta", q, k>> => run'[q].note = run[q].note
      <4>1. \A k : <<"delta", q, k>>[1] = "delta"
        OBVIOUS
      <4>2. Waiting[1] # "delta" /\ Failed[1] # "done"
        BY Promises
      <4>3. run'[q].note = run[q].note \/ (run[q].note = Waiting /\ run'[q].note = Failed)
        BY DEF Carried
      <4>. QED
        BY <2>3, <4>1, <4>2, <4>3
    <3>2. CASE q \in lost \/ protocolFailed
      BY <1>2, <3>1, <3>2 DEF Calm
    <3>3. CASE ~(q \in lost \/ protocolFailed) /\ ~(q \in lost' \/ protocolFailed')
      <4>1. \A k : Queued(q, k) => Queued(q, k)'
        BY <1>2, <1>6, <2>1, <3>3 DEF Carried
      <4>. QED
        BY <1>4, <1>5, <2>1, <2>3, <3>1, <3>3, <4>1
    <3>4. CASE q \in lost' \/ protocolFailed'
      BY <3>1, <3>4
    <3>. QED
      BY <3>2, <3>3, <3>4
  <2>. QED
    BY <2>2, <2>3
<1>7. ASSUME out'[q].end = "completed", q \notin evicted'
      PROVE  run'[q].pc = "done" /\ ~upstream'[q].on /\ \A k \in upstream'[q].said : Told(q, k)'
  <2>1. run[q].pc = "done" /\ ~upstream[q].on /\ \A k \in upstream[q].said : Told(q, k)
    BY <1>2, <1>4, <1>7 DEF Whole
  <2>. QED
    BY <1>2, <1>4, <1>5, <2>1 DEF Calm
<1>. QED
  BY <1>3, <1>6, <1>7 DEF Whole, Note

(* The buffer, and what a thread may not have said yet.                    *)
LEMMA BuffersKept ==
  ASSUME IInv, queue' \in Seq(Lines), Within(queue', queue),
         \A t \in Threads : Calm(t) /\ (t \in lost' => t \in lost \/ \A i \in DOMAIN queue' : queue'[i][2] # t)
  PROVE  Buffers'
<1>1. Buffers /\ queue \in Seq(Lines)
  BY Basics, Sorts
<1>2. ASSUME NEW i \in DOMAIN queue'
      PROVE  LET n == queue'[i] IN
             /\ n[1] # "item" /\ n[2] \notin lost'
             /\ n[1] = "delta" => n[3] \in upstream'[n[2]].said
             /\ n[1] = "done" => ~upstream'[n[2]].on
  <2> DEFINE n == queue'[i]
  <2>1. PICK a \in DOMAIN queue : queue[a] = n
    BY <1>2 DEF Within
  <2>2. /\ n[1] # "item" /\ n[2] \notin lost /\ n[2] \in Threads
        /\ n[1] = "delta" => n[3] \in upstream[n[2]].said
        /\ n[1] = "done" => ~upstream[n[2]].on
    <3>1. n \in Lines
      BY <1>1, <2>1
    <3>. QED
      BY <1>1, <2>1, <3>1, LineFields DEF Buffers
  <2>3. run[n[2]].pc # "starting"
    BY <2>1, <2>2, Basics DEF Speech, Quieted
  <2>. QED
    BY <1>2, <2>2, <2>3 DEF Calm
<1>3. ASSUME NEW i \in DOMAIN queue', NEW j \in DOMAIN queue', i < j,
             queue'[i][1] = "delta", queue'[j][1] = "delta", queue'[i][2] = queue'[j][2]
      PROVE  queue'[i][3] < queue'[j][3]
  <2>1. PICK a, b \in DOMAIN queue : a < b /\ queue'[i] = queue[a] /\ queue'[j] = queue[b]
    BY <1>3 DEF Within
  <2>. QED
    BY <1>1, <1>3, <2>1 DEF Buffers
<1>. QED
  BY <1>2, <1>3 DEF Buffers

LEMMA SpeechKept ==
  ASSUME IInv, NEW t \in Threads, Calm(t),
         At(t)' # t \/ run'[t].pc = "starting" => At(t) # t \/ run[t].pc = "starting",
         upstream'[t].on => upstream[t].on \/ (At(t)' = t /\ run'[t].pc # "starting"),
         upstream'[t].asked # upstream[t].asked => upstream[t].on
  PROVE  Speech(t)'
<1>1. Speech(t) /\ upstream'[t].said = upstream[t].said /\ upstream'[t].items = upstream[t].items
  BY Basics DEF Calm
<1>2. ASSUME At(t)' # t \/ run'[t].pc = "starting"
      PROVE  ~upstream'[t].on /\ upstream'[t].said = {} /\ upstream'[t].asked = 0 /\ Quieted(t)'
  <2>1. At(t) # t \/ run[t].pc = "starting"
    BY <1>2
  <2>2. ~upstream[t].on /\ upstream[t].said = {} /\ upstream[t].asked = 0 /\ Quieted(t)
    BY <1>1, <2>1 DEF Speech
  <2>3. Quieted(t)'
    BY <2>2 DEF Calm, Quieted
  <2>. QED
    BY <1>1, <1>2, <2>2, <2>3
<1>. QED
  BY <1>1, <1>2 DEF Speech

(* Waiters that go, and what keeps the others.                             *)
LEMMA StillWaits ==
  ASSUME IInv, waiters' \in Seq(WaiterRecs), Within(waiters', waiters),
         \A w \in WaiterRecs : (\E i \in DOMAIN waiters' : waiters'[i] = w) => Serves(w)'
  PROVE  Waits'
<1>1. Waits /\ waiters \in Seq(WaiterRecs)
  BY Basics, Sorts
<1>2. DOMAIN waiters' = 1..Len(waiters') /\ Len(waiters') \in Nat
      /\ DOMAIN waiters = 1..Len(waiters) /\ Len(waiters) \in Nat
  BY <1>1
<1>3. ASSUME NEW i \in DOMAIN waiters', NEW j \in DOMAIN waiters', i < j,
             waiters'[i] = waiters'[j], waiters'[i].live
      PROVE  FALSE
  <2>1. PICK a, b \in DOMAIN waiters : a < b /\ waiters'[i] = waiters[a] /\ waiters'[j] = waiters[b]
    BY <1>3 DEF Within
  <2>2. a = b
    BY <1>1, <1>3, <2>1 DEF Waits
  <2>. QED
    BY <1>2, <2>1, <2>2
<1>4. \A i, j \in DOMAIN waiters' : waiters'[i] = waiters'[j] /\ waiters'[i].live => i = j
  <2>1. \A i, j \in DOMAIN waiters' : i < j \/ j < i \/ i = j
    BY <1>2
  <2>. QED
    BY <1>3, <2>1
<1>5. ASSUME NEW i \in DOMAIN waiters', NEW w, w = waiters'[i] PROVE Serves(w)'
  BY <1>5
<1>6. (\A i \in DOMAIN waiters : Serves(waiters[i]))'
  BY <1>5
<1>. QED
  BY <1>4, <1>6 DEF Waits

(* The call a pump holds.                                                  *)
LEMMA HeldCall ==
  ASSUME IInv, NEW q \in Requests, Pumping(q), Held(q)
  PROVE  /\ Asked(q) \in Calls /\ Asked(q)[1] = At(q) /\ Untouched(Asked(q))
         /\ Asked(q)[2] <= upstream[At(q)].asked
<1>1. Awaiting(q) /\ run[q] \in RunRecs
  BY Basics, Sorts
<1>2. Tool(q) \in ToolPromises /\ Tool(q)[1] = "call"
  BY <1>1, RunFields DEF Tool, Held
<1>3. Tool(q)[2] \in Threads /\ Tool(q)[3] \in 1..MaxCalls
  BY <1>2, Promises DEF ToolPromises
<1>4. Asked(q) \in Calls
  BY <1>3, Constants DEF Asked, Tool
<1>. QED
  BY <1>1, <1>4 DEF Awaiting, Asked, Tool

LEMMA StillServes ==
  ASSUME IInv, NEW w \in WaiterRecs, \E i \in DOMAIN waiters : waiters[i] = w,
         run'[w.by] = run[w.by], protocolFailed' => protocolFailed, lost \subseteq lost'
  PROVE  Serves(w)'
<1>1. Serves(w)
  BY Basics DEF Waits
<1>. QED
  BY <1>1 DEF Serves, Pumping, At, Note, Tool

(* A request that a step leaves as it is.                                  *)
LEMMA SameCarried ==
  ASSUME IInv, NEW q \in Requests, run'[q] = run[q], out'[q] = out[q], Aborted(q) => Aborted(q)',
         Pumping(q) => \A a \in DOMAIN waiters : waiters[a].by = q /\ waiters[a].on = At(q) /\ waiters[a].live =>
                         \E i \in DOMAIN waiters' : waiters'[i] = waiters[a],
         Pumping(q) /\ Held(q) => Untouched(Asked(q))' /\ Asked(q)[2] <= upstream'[At(q)].asked,
         Active(q) /\ At(q) = q /\ ~Aborted(q)' /\ q \notin lost' /\ ~protocolFailed' =>
           \A a \in DOMAIN queue : queue[a][2] = q =>
             q \in evicted' \/ \E i \in DOMAIN queue' : queue'[i] = queue[a]
  PROVE  Carried(q)
<1>1. ASSUME Pumping(q) PROVE Clauses(q)'
  <2>1. Awaiting(q)
    BY Basics
  <2>2. ASSUME NEW kind, Listens(q, kind) PROVE Listens(q, kind)'
    <3>1. PICK a \in DOMAIN waiters : waiters[a] = Waiter(kind, q, At(q))
      BY <2>2 DEF Listens
    <3>2. waiters[a].by = q /\ waiters[a].on = At(q) /\ waiters[a].live
      BY <3>1 DEF Waiter
    <3>3. \E i \in DOMAIN waiters' : waiters'[i] = waiters[a]
      BY <1>1, <3>2
    <3>. QED
      BY <3>1, <3>3 DEF Listens, Waiter, At
  <2>. QED
    BY <1>1, <2>1, <2>2 DEF Awaiting, Clauses, Note, Tool, Held, Asked, At
<1>2. ASSUME Active(q), At(q) = q, ~Aborted(q)', q \notin lost', ~protocolFailed', NEW k, Queued(q, k)
      PROVE  Queued(q, k)' \/ q \in evicted'
  <2>1. PICK a \in DOMAIN queue : queue[a] = <<"delta", q, k>>
    BY <1>2 DEF Queued
  <2>2. q \in evicted' \/ \E i \in DOMAIN queue' : queue'[i] = queue[a]
    BY <1>2, <2>1
  <2>. QED
    BY <2>1, <2>2 DEF Queued
<1>. QED
  BY <1>1, <1>2 DEF Carried

(* The end of a reply.                                                     *)
Closes(r, end) ==
  /\ Pumping(r) /\ end \in Ends /\ Finish(r, end)
  /\ end = "completed" => Note(r)[1] = "done"
  /\ UNCHANGED cancel /\ PumpFrame
  /\ Bounded(parkedTurns)' /\ Bounded(threadToolAcl)'
  /\ \A t : Contains(threadToolAcl, t)' => Contains(threadToolAcl, t)
  /\ ledger' \in [Calls -> L!Statuses] /\ answers' \in [Calls -> Nat]
  /\ \A c \in Calls :
       \/ ledger'[c] = ledger[c] /\ answers'[c] = answers[c]
       \/ /\ Held(r) /\ c = Asked(r)
          /\ \/ ledger'[c] = "unborn" /\ answers'[c] = 1
             \/ ledger'[c] = "pending" /\ answers'[c] = 0 /\ ~Aborted(r) /\ run[r].acl # {}
             \/ ledger'[c] = "cancelled" /\ answers'[c] = 0

LEMMA KeepCloses ==
  ASSUME IInv, NEW r \in Requests, NEW end, Closes(r, end)
  PROVE  IInv'
<1>1. /\ OnlyRun(r) /\ OnlyOut(r)
      /\ run'[r].pc = "done" /\ run'[r].at = At(r) /\ run'[r].tools = run[r].tools
      /\ run'[r].acl = {} /\ run'[r].note = None /\ run'[r].tool = None /\ run'[r].first = "none"
      /\ out'[r].text = out[r].text /\ out'[r].end = (IF Aborted(r) THEN "silent" ELSE end)
      /\ activeTurns' = activeTurns \ {r}
      /\ PurgesQueue(At(r)) /\ Len(queue') <= QueueLimit /\ PurgesWaiters(At(r))
  BY Basics, Finishes DEF Closes
<1>2. /\ upstream' = upstream /\ evicted' = evicted /\ lost' = lost /\ cancel' = cancel
      /\ down' = down /\ protocolFailed' = protocolFailed /\ faults' = faults /\ draining' \in BOOLEAN
  BY DEF Closes, PumpFrame, BeginFrame, PumpsRun, server
<1>3. /\ Shapes /\ Waits /\ Steered(r) /\ Allowed(r) /\ Awaiting(r) /\ InOrder(r) /\ Whole(r)
      /\ Active(r) /\ Alone(r) /\ At(r) \in Threads /\ ~Parked(At(r))
  BY Basics DEF Closes, Active, Pumping, Steered
<1>4. Shapes'
  BY <1>1, <1>2, <1>3 DEF Shapes, OnlyRun, OnlyOut, PurgesQueue, PurgesWaiters, Closes, Bounded
<1>5. \A c \in Calls : ledger'[c] # ledger[c] \/ answers'[c] # answers[c] =>
        /\ c[1] = At(r) /\ Untouched(c) /\ c[2] <= upstream[At(r)].asked
        /\ ledger'[c] = "pending" => ~Aborted(r) /\ run[r].acl # {}
        /\ c = Asked(r)
  BY <1>3 DEF Closes, Awaiting, Asked, Tool
<1>6. \A q \in Requests : Moved(q)
  <2>1. ASSUME NEW q \in Requests PROVE Moved(q)
    <3>1. Steered(q)
      BY Basics
    <3>2. CASE q = r
      BY <1>1, <1>2, <3>1, <3>2 DEF Moved, Active, Pumping, At
    <3>3. CASE q # r
      <4>1. run'[q] = run[q]
        BY <1>1, <3>3 DEF OnlyRun
      <4>. QED
        BY <1>1, <1>2, <3>1, <4>1 DEF Moved, Active, Pumping, Steered, Note, Tool
    <3>. QED
      BY <3>2, <3>3
  <2>. QED
    BY <2>1
<1>7. \A q \in Requests : Steered(q)' /\ Allowed(q)'
  <2>1. ~Active(r)'
    BY <1>1 DEF Active
  <2>2. \A c \in Calls : ledger'[c] = "pending" =>
            \/ ledger[c] = "pending"
            \/ \E p \in Requests : c[1] = At(p) /\ Active(p) /\ ~Active(p)' /\ ~Aborted(p)
    BY <1>3, <1>5, <2>1
  <2>. QED
    BY <1>6, <2>2, Onward DEF Closes
<1>8. \A t \in Threads : Calm(t)
  <2>1. ASSUME NEW t \in Threads PROVE Calm(t)
    <3>1. upstream[t].asked \in Nat
      BY <1>3, <2>1, Sorts, UpFields, Constants
    <3>. QED
      BY <1>1, <1>2, <2>1, <3>1 DEF Calm, PurgesQueue, Within
  <2>. QED
    BY <2>1
<1>9. Roads /\ Parks
  BY <1>3, <1>5, <1>6 DEF Roads, Parks, Moved, At
<1>10. Single' /\ \A c \in Calls : Counted(c)'
  <2>1. ASSUME NEW c \in Calls PROVE CallStep(c)
    BY <1>2, <1>5 DEF Closes, CallStep
  <2>2. ASSUME NEW c \in Calls, NEW d \in Calls, ledger'[c] = "pending", ledger'[d] = "pending",
               c[1] = d[1], ledger[c] # "pending"
        PROVE  c = d
    <3>1. c = Asked(r) /\ c[1] = At(r)
      BY <1>5, <2>2
    <3>2. ledger[d] # "pending"
      BY <1>3, <2>2, <3>1, Pending DEF Parked
    <3>. QED
      BY <1>5, <2>2, <3>1, <3>2
  <2>3. \A t \in Threads : upstream'[t].asked \in Nat /\ upstream'[t].asked >= upstream[t].asked
    BY <1>8 DEF Calm
  <2>. QED
    BY <2>1, <2>2, <2>3, Counts
<1>11. ASSUME NEW q \in Requests PROVE Awaiting(q)' /\ InOrder(q)' /\ Whole(q)'
  <2>1. CASE q # r
    <3>1. run'[q] = run[q] /\ out'[q] = out[q] /\ (Aborted(q) => Aborted(q)')
      BY <1>1, <1>2, <2>1 DEF OnlyRun, OnlyOut, Aborted
    <3>2. Active(q) => At(q) # At(r)
      BY <1>3, <2>1 DEF Alone
    <3>3. Pumping(q) => Active(q)
      BY DEF Pumping, Active
    <3>4. Pumping(q) => \A a \in DOMAIN waiters : waiters[a].by = q /\ waiters[a].on = At(q) /\ waiters[a].live =>
                         \E i \in DOMAIN waiters' : waiters'[i] = waiters[a]
      BY <1>1, <3>2, <3>3 DEF PurgesWaiters
    <3>5. Active(q) /\ At(q) = q => \A a \in DOMAIN queue : queue[a][2] = q =>
             q \in evicted' \/ \E i \in DOMAIN queue' : queue'[i] = queue[a]
      BY <1>1, <3>2 DEF PurgesQueue
    <3>6. ASSUME Pumping(q), Held(q)
          PROVE  Untouched(Asked(q))' /\ Asked(q)[2] <= upstream'[At(q)].asked
      <4>1. /\ Asked(q) \in Calls /\ Asked(q)[1] = At(q) /\ Untouched(Asked(q)) /\ Asked(q)' = Asked(q)
            /\ Asked(q)[2] <= upstream[At(q)].asked
        BY <3>1, <3>6, HeldCall DEF Asked
      <4>2. ledger'[Asked(q)] = ledger[Asked(q)] /\ answers'[Asked(q)] = answers[Asked(q)]
        BY <1>5, <3>2, <3>3, <3>6, <4>1
      <4>. QED
        BY <1>2, <4>1, <4>2 DEF Untouched
    <3>7. Carried(q)
      BY <3>1, <3>4, <3>5, <3>6, SameCarried
    <3>. QED
      BY <1>8, <1>9, <3>7, Carries, CarriesWhole
  <2>2. CASE q = r
    <3>1. Awaiting(r)'
      BY <1>1 DEF Awaiting, Pumping
    <3>2. InOrder(r)'
      BY <1>1, <1>3, Promises DEF InOrder, Pumping, Note, At
    <3>3. Whole(r)'
      <4>1. SUFFICES ASSUME Plain(r)' PROVE Whole(r)'
        BY DEF Whole
      <4>2. Plain(r) /\ r \in Threads
        BY <1>1, <4>1 DEF Plain, At, Declared, Threads
      <4>3. ~Parked(r)' /\ \A p \in Requests : At(p)' = r => p = r
        BY <1>9, <4>2, Spared
      <4>4. ~Active(r)'
        BY <1>1 DEF Active
      <4>5. ASSUME out'[r].end = "completed", r \notin evicted'
            PROVE  run'[r].pc = "done" /\ ~upstream'[r].on /\ \A k \in upstream'[r].said : Told(r, k)'
        <5>1. ~Aborted(r) /\ Note(r)[1] = "done"
          BY <1>1, <4>5 DEF Closes
        <5>2. \A k \in upstream[r].said : Told(r, k)
          BY <1>2, <1>3, <4>2, <4>5, <5>1 DEF Whole, Closes, Pumping
        <5>3. ~upstream[r].on
          BY <1>3, <4>2, <5>1 DEF InOrder, Plain
        <5>. QED
          BY <1>1, <1>2, <5>2, <5>3 DEF Told
      <4>. QED
        BY <4>3, <4>4, <4>5 DEF Whole
    <3>. QED
      BY <2>2, <3>1, <3>2, <3>3
  <2>. QED
    BY <2>1, <2>2
<1>12. Waits'
  <2>1. ASSUME NEW w \in WaiterRecs, \E i \in DOMAIN waiters' : waiters'[i] = w PROVE Serves(w)'
    <3>1. w.on # At(r) /\ \E i \in DOMAIN waiters : waiters[i] = w
      BY <1>1, <2>1 DEF PurgesWaiters, Within
    <3>2. w.by # r /\ w.by \in Requests
      BY <1>3, <3>1 DEF Waits, Serves, WaiterRecs
    <3>. QED
      BY <1>1, <1>2, <3>1, <3>2, StillServes DEF OnlyRun
  <2>. QED
    BY <1>1, <2>1, StillWaits DEF PurgesWaiters
<1>13. Buffers'
  BY <1>1, <1>2, <1>8, BuffersKept DEF PurgesQueue
<1>14. ASSUME NEW t \in Threads PROVE Speech(t)'
  <2>1. Moved(t)
    BY <1>6, Constants
  <2>2. Speech(t)
    BY Basics
  <2>. QED
    BY <1>2, <1>8, <2>1, <2>2, SpeechKept DEF Moved, At, Speech
<1>. QED
  BY <1>4, <1>7, <1>10, <1>11, <1>12, <1>13, <1>14 DEF IInv, Client

(* A pump that has been woken.                                             *)
LEMMA Woken ==
  ASSUME IInv, NEW r \in Requests, run[r].first # "none" \/ run[r].pc = "loop"
  PROVE  /\ Pumping(r) /\ Active(r) /\ At(r) \in Threads
         /\ run[r].first # "none" => run[r].pc = "race"
<1>1. Steered(r) /\ Awaiting(r)
  BY Basics
<1>2. Pumping(r)
  BY <1>1 DEF Steered, Pumping
<1>. QED
  BY <1>1, <1>2 DEF Steered, Awaiting, Pumping, Active

(* What a step that leaves the broker and the maps alone still says.       *)
LEMMA SameBooks ==
  ASSUME IInv, parkedTurns' = parkedTurns, threadToolAcl' = threadToolAcl
  PROVE  /\ Bounded(parkedTurns)' /\ Bounded(threadToolAcl)'
         /\ \A t : Contains(threadToolAcl, t)' => Contains(threadToolAcl, t)
BY Basics, Sorts DEF Bounded, Contains

LEMMA KeepStop ==
  ASSUME IInv, NEW r \in Requests, Stop(r)
  PROVE  IInv'
<1>1. Pumping(r) /\ "silent" \in Ends
  BY DEF Stop, Pumping, Ends
<1>2. Closes(r, "silent")
  BY <1>1, Basics, Sorts, SameBooks DEF Closes, Stop
<1>. QED
  BY <1>2, KeepCloses

LEMMA KeepNoteFailed ==
  ASSUME IInv, NEW r \in Requests, NoteFailed(r)
  PROVE  IInv'
<1>1. Pumping(r) /\ "error" \in Ends
  BY Woken DEF NoteFailed, Ends
<1>2. Closes(r, "error")
  BY <1>1, Basics, Sorts, SameBooks DEF Closes, NoteFailed
<1>. QED
  BY <1>2, KeepCloses

LEMMA KeepTakeTextGone ==
  ASSUME IInv, NEW r \in Requests, run[r].first = "note", Finish(r, "silent"),
         UNCHANGED <<parkedTurns, threadToolAcl, ledger, cancel, answers>>, PumpFrame
  PROVE  IInv'
<1>1. Pumping(r) /\ "silent" \in Ends
  BY Woken DEF Ends
<1>2. Closes(r, "silent")
  BY <1>1, Basics, Sorts, SameBooks DEF Closes
<1>. QED
  BY <1>2, KeepCloses

LEMMA KeepCallOverflows ==
  ASSUME IInv, NEW r \in Requests, CallOverflows(r)
  PROVE  IInv'
<1>1. Pumping(r) /\ "error" \in Ends
  BY Woken DEF CallOverflows, TakesCall, Ends
<1>2. Closes(r, "error")
  BY <1>1, Basics, Sorts, SameBooks DEF Closes, CallOverflows
<1>. QED
  BY <1>2, KeepCloses

LEMMA KeepRefuseCall ==
  ASSUME IInv, NEW r \in Requests, RefuseCall(r)
  PROVE  IInv'
<1>1. Pumping(r) /\ "error" \in Ends /\ Held(r)
  BY Woken DEF RefuseCall, TakesCall, Ends, Held, Tool
<1>2. Asked(r) \in Calls /\ Untouched(Asked(r)) /\ answers \in [Calls -> Nat] /\ ledger \in [Calls -> L!Statuses]
  BY <1>1, HeldCall, Basics, Sorts
<1>3. ledger' = ledger /\ answers' = [answers EXCEPT ![Asked(r)] = @ + 1]
  BY DEF RefuseCall
<1>4. answers' \in [Calls -> Nat] /\ answers'[Asked(r)] = 1 /\ \A c \in Calls : c # Asked(r) => answers'[c] = answers[c]
  BY <1>2, <1>3 DEF Untouched
<1>5. Closes(r, "error")
  BY <1>1, <1>2, <1>3, <1>4, SameBooks DEF Closes, RefuseCall, Untouched
<1>. QED
  BY <1>5, KeepCloses

LEMMA KeepParkCall ==
  ASSUME IInv, NEW r \in Requests, ParkCall(r)
  PROVE  IInv'
<1>1. Pumping(r) /\ "tool_calls" \in Ends /\ Held(r)
  BY Woken DEF ParkCall, TakesCall, Ends, Held, Tool
<1>2. Asked(r) \in Calls /\ Untouched(Asked(r)) /\ answers \in [Calls -> Nat] /\ ledger \in [Calls -> L!Statuses]
  BY <1>1, HeldCall, Basics, Sorts
<1>3. run[r].acl # {}
  BY DEF ParkCall, Accepted
<1>4. answers' = answers /\ ledger' = [ledger EXCEPT ![Asked(r)] = IF Aborted(r) THEN "cancelled" ELSE "pending"]
  BY DEF ParkCall, ParkFor, L!Park, L!ParkCancelled
<1>5. /\ ledger' \in [Calls -> L!Statuses]
      /\ ledger'[Asked(r)] = (IF Aborted(r) THEN "cancelled" ELSE "pending")
      /\ \A c \in Calls : c # Asked(r) => ledger'[c] = ledger[c]
  BY <1>2, <1>4 DEF L!Statuses, L!Fates
<1>6. Bounded(parkedTurns)' /\ Bounded(threadToolAcl)' /\ threadToolAcl' = threadToolAcl
  BY Basics, Sorts, Remembers DEF ParkCall, Bounded
<1>7. Closes(r, "tool_calls")
  BY <1>1, <1>2, <1>3, <1>4, <1>5, <1>6 DEF Closes, ParkCall, EndParked, Untouched, Contains
<1>. QED
  BY <1>7, KeepCloses

LEMMA KeepTakeTurnEnd ==
  ASSUME IInv, NEW r \in Requests, TakeTurnEnd(r)
  PROVE  IInv'
<1>1. Pumping(r) /\ {"completed", "error"} \subseteq Ends /\ Note(r)[1] = "done"
  BY Woken DEF TakeTurnEnd, Ends, Note
<1>2. PICK status \in {"completed", "error"} : Finish(r, status)
  BY DEF TakeTurnEnd
<1>3. /\ threadToolAcl' = Without(threadToolAcl, {At(r)})
      /\ parkedTurns' = Without(parkedTurns, {q \in Requests : At(q) = At(r)})
  BY DEF TakeTurnEnd, Forgotten, ParkedWithout
<1>4. /\ Bounded(parkedTurns)' /\ Bounded(threadToolAcl)'
      /\ \A t : Contains(threadToolAcl, t)' => Contains(threadToolAcl, t)
  <2>1. Bounded(threadToolAcl) /\ Bounded(parkedTurns)
    BY Basics, Sorts
  <2>2. Bounded(Without(threadToolAcl, {At(r)}))
        /\ \A t : Contains(Without(threadToolAcl, {At(r)}), t) => Contains(threadToolAcl, t)
    BY <2>1, Forgets
  <2>3. Bounded(Without(parkedTurns, {q \in Requests : At(q) = At(r)}))
    BY <2>1, Forgets
  <2>. QED
    BY <1>3, <2>2, <2>3 DEF Bounded, Contains
<1>5. Closes(r, status)
  BY <1>1, <1>2, <1>4, Basics, Sorts DEF Closes, TakeTurnEnd
<1>. QED
  BY <1>5, KeepCloses

(* A step of a pump that goes on.                                          *)
Proceeds(r) ==
  /\ OnlyRun(r) /\ OnlyOut(r)
  /\ UNCHANGED <<ledger, cancel, answers, parkedTurns>> /\ BeginFrame
  /\ run'[r].at = run[r].at /\ run'[r].tools = run[r].tools /\ run'[r].acl = run[r].acl
  /\ Active(r) /\ run[r].pc # "starting" /\ Pumping(r)'
  /\ activeTurns' \subseteq activeTurns \cup {r} /\ Bounded(threadToolAcl)'
  /\ \A t : Contains(threadToolAcl, t)' => Contains(threadToolAcl, t) \/ (t = r /\ At(r) = r)
  /\ queue' \in Seq(Lines) /\ Within(queue', queue) /\ Len(queue') <= QueueLimit
  /\ \A a \in DOMAIN queue : queue[a][2] # At(r) => \E i \in DOMAIN queue' : queue'[i] = queue[a]
  /\ waiters' \in Seq(WaiterRecs)
  /\ \A a \in DOMAIN waiters : waiters[a].by # r => \E i \in DOMAIN waiters' : waiters'[i] = waiters[a]

LEMMA KeepProceeds ==
  ASSUME IInv, NEW r \in Requests, Proceeds(r), Waits', Awaiting(r)', InOrder(r)',
         Plain(r) /\ ~Aborted(r) /\ r \notin evicted =>
           IF Note(r)'[1] = "done" THEN \A k \in upstream[r].said : Told(r, k)'
           ELSE r \in lost \/ protocolFailed \/ \A k \in upstream[r].said :
                  Told(r, k)' \/ Note(r)' = <<"delta", r, k>> \/ Queued(r, k)',
         out'[r].end = out[r].end
  PROVE  IInv'
<1>2. /\ upstream' = upstream /\ evicted' = evicted /\ lost' = lost /\ cancel' = cancel
      /\ down' = down /\ protocolFailed' = protocolFailed /\ faults' = faults /\ draining' \in BOOLEAN
      /\ ledger' = ledger /\ answers' = answers
  BY DEF Proceeds, PumpFrame, BeginFrame, PumpsRun, server
<1>3. /\ Shapes /\ Waits /\ Steered(r) /\ Allowed(r) /\ Awaiting(r) /\ InOrder(r) /\ Whole(r)
      /\ Active(r) /\ Alone(r) /\ At(r) \in Threads /\ ~Parked(At(r))
  BY Basics DEF Proceeds, Steered
<1>4. Shapes'
  BY <1>2, <1>3 DEF Shapes, OnlyRun, OnlyOut, Proceeds, Bounded
<1>6. \A q \in Requests : Moved(q)
  <2>1. ASSUME NEW q \in Requests PROVE Moved(q)
    <3>1. Steered(q)
      BY Basics
    <3>2. CASE q = r
      BY <1>2, <1>3, <3>1, <3>2 DEF Moved, Active, Pumping, At, Proceeds
    <3>3. CASE q # r
      <4>1. run'[q] = run[q] /\ (q \in activeTurns' => q \in activeTurns)
        BY <3>3 DEF OnlyRun, Proceeds
      <4>. QED
        BY <1>2, <3>1, <4>1 DEF Moved, Active, Pumping, Steered, Note, Tool
    <3>. QED
      BY <3>2, <3>3
  <2>. QED
    BY <2>1
<1>7. \A q \in Requests : Steered(q)' /\ Allowed(q)'
  <2>1. \A t : Contains(threadToolAcl, t)' =>
            Contains(threadToolAcl, t) \/ (t \in Requests /\ Active(t) /\ At(t) = t)
    BY <1>3 DEF Proceeds
  <2>2. \A c \in Calls : ledger'[c] = "pending" =>
            \/ ledger[c] = "pending"
            \/ \E p \in Requests : c[1] = At(p) /\ Active(p) /\ ~Active(p)' /\ ~Aborted(p)
    BY <1>2
  <2>. QED
    BY <1>6, <2>1, <2>2, Onward
<1>8. \A t \in Threads : Calm(t)
  <2>1. ASSUME NEW t \in Threads PROVE Calm(t)
    <3>1. upstream[t].asked \in Nat
      BY <1>3, <2>1, Sorts, UpFields, Constants
    <3>. QED
      BY <1>2, <2>1, <3>1 DEF Calm, Within, Proceeds
  <2>. QED
    BY <2>1
<1>9. Roads /\ Parks
  BY <1>2, <1>6 DEF Roads, Parks, Moved, At
<1>10. Single' /\ \A c \in Calls : Counted(c)'
  <2>1. ASSUME NEW c \in Calls PROVE CallStep(c)
    BY <1>2 DEF CallStep
  <2>3. \A t \in Threads : upstream'[t].asked \in Nat /\ upstream'[t].asked >= upstream[t].asked
    BY <1>8 DEF Calm
  <2>. QED
    BY <1>2, <2>1, <2>3, Counts
<1>11. ASSUME NEW q \in Requests PROVE Awaiting(q)' /\ InOrder(q)' /\ Whole(q)'
  <2>1. CASE q # r
    <3>1. run'[q] = run[q] /\ out'[q] = out[q] /\ (Aborted(q) => Aborted(q)')
      BY <1>2, <2>1 DEF OnlyRun, OnlyOut, Aborted, Proceeds
    <3>2. Active(q) => At(q) # At(r)
      BY <1>3, <2>1 DEF Alone
    <3>4. Pumping(q) => \A a \in DOMAIN waiters : waiters[a].by = q /\ waiters[a].on = At(q) /\ waiters[a].live =>
                         \E i \in DOMAIN waiters' : waiters'[i] = waiters[a]
      BY <2>1 DEF Proceeds
    <3>5. Active(q) /\ At(q) = q => \A a \in DOMAIN queue : queue[a][2] = q =>
             q \in evicted' \/ \E i \in DOMAIN queue' : queue'[i] = queue[a]
      BY <3>2 DEF Proceeds
    <3>6. ASSUME Pumping(q), Held(q)
          PROVE  Untouched(Asked(q))' /\ Asked(q)[2] <= upstream'[At(q)].asked
      BY <1>2, <3>1, <3>6, HeldCall DEF Untouched, Asked
    <3>7. Carried(q)
      BY <3>1, <3>4, <3>5, <3>6, SameCarried
    <3>. QED
      BY <1>8, <1>9, <3>7, Carries, CarriesWhole
  <2>2. CASE q = r
    <3>3. Whole(r)'
      <4>1. SUFFICES ASSUME Plain(r)' PROVE Whole(r)'
        BY DEF Whole
      <4>2. Plain(r) /\ r \in Threads
        BY <4>1 DEF Plain, At, Declared, Threads, Proceeds
      <4>3. ~Parked(r)' /\ \A p \in Requests : At(p)' = r => p = r
        BY <1>9, <4>2, Spared
      <4>4. ASSUME ~Aborted(r)', r \notin evicted'
            PROVE  IF Note(r)'[1] = "done" THEN \A k \in upstream'[r].said : Told(r, k)'
                   ELSE r \in lost' \/ protocolFailed' \/ \A k \in upstream'[r].said :
                     Told(r, k)' \/ Note(r)' = <<"delta", r, k>> \/ Queued(r, k)'
        BY <1>2, <4>2, <4>4 DEF Aborted
      <4>5. ~(out'[r].end = "completed" /\ r \notin evicted')
        <5>1. run[r].pc # "done"
          BY <1>3 DEF Active
        <5>. QED
          BY <1>2, <1>3, <4>2, <5>1 DEF Whole
      <4>. QED
        BY <4>3, <4>4, <4>5 DEF Whole
    <3>. QED
      BY <2>2, <3>3
  <2>. QED
    BY <2>1, <2>2
<1>13. Buffers'
  BY <1>2, <1>8, BuffersKept DEF Proceeds
<1>14. ASSUME NEW t \in Threads PROVE Speech(t)'
  <2>1. Moved(t)
    BY <1>6, Constants
  <2>2. Speech(t)
    BY Basics
  <2>. QED
    BY <1>2, <1>8, <2>1, <2>2, SpeechKept DEF Moved, At, Speech
<1>. QED
  BY <1>4, <1>7, <1>10, <1>11, <1>13, <1>14 DEF IInv, Client

(* A waiter that is armed.                                                 *)
LEMMA Arms ==
  ASSUME NEW v \in Seq(WaiterRecs), \A i, j \in DOMAIN v : v[i] = v[j] /\ v[i].live => i = j,
         NEW w \in WaiterRecs, \A i \in DOMAIN v : v[i] # w, waiters' = Append(v, w),
         \A u \in WaiterRecs : (\E i \in DOMAIN v : v[i] = u) => Serves(u)', Serves(w)'
  PROVE  /\ Waits' /\ waiters' \in Seq(WaiterRecs)
         /\ \E i \in DOMAIN waiters' : waiters'[i] = w
         /\ \A i \in DOMAIN v : i \in DOMAIN waiters' /\ waiters'[i] = v[i]
<1>1. /\ DOMAIN v = 1..Len(v) /\ Len(v) \in Nat /\ waiters' \in Seq(WaiterRecs)
      /\ DOMAIN waiters' = 1..(Len(v) + 1) /\ waiters'[Len(v) + 1] = w
      /\ \A i \in 1..Len(v) : waiters'[i] = v[i] /\ v[i] \in WaiterRecs
  OBVIOUS
<1>2. \A i \in 1..(Len(v) + 1) : i \in 1..Len(v) \/ i = Len(v) + 1
  BY <1>1
<1>3. ASSUME NEW i \in DOMAIN waiters', NEW u, u = waiters'[i] PROVE Serves(u)'
  <2>1. CASE i \in 1..Len(v)
    <3>1. u \in WaiterRecs /\ u = v[i] /\ i \in DOMAIN v
      BY <1>1, <1>3, <2>1
    <3>. QED
      BY <3>1
  <2>2. CASE i = Len(v) + 1
    BY <1>1, <1>3, <2>2
  <2>. QED
    BY <1>1, <1>2, <2>1, <2>2
<1>4. (\A i \in DOMAIN waiters : Serves(waiters[i]))'
  BY <1>3
<1>5. ASSUME NEW i \in DOMAIN waiters', NEW j \in DOMAIN waiters', waiters'[i] = waiters'[j], waiters'[i].live
      PROVE  i = j
  BY <1>1, <1>2, <1>5
<1>6. Waits'
  BY <1>4, <1>5 DEF Waits
<1>7. Len(v) + 1 \in DOMAIN waiters' /\ \A i \in DOMAIN v : i \in DOMAIN waiters'
  BY <1>1
<1>. QED
  BY <1>1, <1>6, <1>7

LEMMA KeepBegin ==
  ASSUME IInv, NEW r \in Requests, Begin(r)
  PROVE  IInv'
<1> DEFINE t == At(r)  tool == IF run[r].acl # {} THEN Waiting ELSE None
<1>1. /\ run[r].pc = "begin" /\ Active(r) /\ ~Pumping(r) /\ t \in Threads
      /\ Shapes /\ Waits /\ Steered(r) /\ Awaiting(r) /\ InOrder(r) /\ Whole(r)
      /\ Note(r) = None /\ Tool(r) = None /\ run[r].first = "none"
      /\ out[r].text = <<>> /\ out[r].end = "none"
  BY Basics DEF Begin, Active, Pumping, Steered, InOrder
<1>2. run' = [run EXCEPT ![r] = [[run[r] EXCEPT !.pc = "loop"] EXCEPT !.tool = tool]]
  BY <1>1, Sorts DEF Begin
<1>3. /\ OnlyRun(r) /\ run'[r].at = run[r].at /\ run'[r].tools = run[r].tools /\ run'[r].acl = run[r].acl
      /\ run'[r].pc = "loop" /\ run'[r].note = None /\ run'[r].tool = tool /\ run'[r].first = "none"
  <2>1. run \in [Requests -> RunRecs] /\ run[r] \in RunRecs
    BY <1>1, Sorts
  <2>2. [run[r] EXCEPT !.pc = "loop"] \in RunRecs /\ tool \in ToolPromises
    BY <2>1, RunFields DEF ToolPromises
  <2>3. [[run[r] EXCEPT !.pc = "loop"] EXCEPT !.tool = tool] \in RunRecs
    BY <2>2, RunFields
  <2>. QED
    BY <1>1, <1>2, <2>1, <2>3 DEF OnlyRun, Note, RunRecs
<1>4. /\ queue' = queue /\ out' = out /\ cancel' = cancel /\ OnlyOut(r) /\ activeTurns' = activeTurns \cup {r}
      /\ protocolFailed' = protocolFailed /\ lost' = lost /\ upstream' = upstream /\ evicted' = evicted
  BY <1>1, Sorts DEF Begin, BeginFrame, server, OnlyOut
<1>5. /\ Bounded(threadToolAcl)'
      /\ \A s : Contains(threadToolAcl, s)' => Contains(threadToolAcl, s) \/ (s = r /\ At(r) = r)
  <2>1. Bounded(threadToolAcl)
    BY <1>1, Sorts
  <2>2. /\ Bounded(Remembered(threadToolAcl, r))
        /\ \A s : Contains(Remembered(threadToolAcl, r), s) => s = r \/ Contains(threadToolAcl, s)
    BY <2>1, Remembers
  <2>3. threadToolAcl' = threadToolAcl \/ (threadToolAcl' = Remembered(threadToolAcl, r) /\ At(r) = r)
    BY DEF Begin
  <2>. QED
    BY <2>1, <2>2, <2>3 DEF Bounded, Contains
<1>6. \A u \in WaiterRecs : (\E i \in DOMAIN waiters : waiters[i] = u) => u.by # r /\ Serves(u)'
  <2>1. ASSUME NEW u \in WaiterRecs, \E i \in DOMAIN waiters : waiters[i] = u PROVE u.by # r /\ Serves(u)'
    <3>1. u.by # r /\ u.by \in Requests
      BY <1>1, <2>1 DEF Waits, Serves, WaiterRecs
    <3>. QED
      BY <1>3, <1>4, <2>1, <3>1, StillServes DEF OnlyRun
  <2>. QED
    BY <2>1
<1>7. /\ Waits' /\ waiters' \in Seq(WaiterRecs) /\ (run[r].acl # {} => Listens(r, "tool")')
      /\ \A a \in DOMAIN waiters : \E i \in DOMAIN waiters' : waiters'[i] = waiters[a]
  <2>0. waiters \in Seq(WaiterRecs)
    BY <1>1, Sorts
  <2>1. CASE run[r].acl # {}
    <3>0. PICK w : w = Waiter("tool", r, t)
      OBVIOUS
    <3>1. w \in WaiterRecs /\ w.by = r /\ w.on = t /\ w.kind = "tool" /\ w.live
      BY <1>1, <3>0 DEF Waiter, WaiterRecs
    <3>2. waiters' = Append(waiters, w)
      BY <2>1, <3>0 DEF Begin
    <3>3. Serves(w)'
      BY <1>3, <2>1, <3>1 DEF Serves, Pumping, At, Tool
    <3>4. \A i \in DOMAIN waiters : waiters[i] # w
      BY <1>6, <2>0, <3>1
    <3>5. \A i, j \in DOMAIN waiters : waiters[i] = waiters[j] /\ waiters[i].live => i = j
      BY <1>1 DEF Waits
    <3>6. /\ Waits' /\ waiters' \in Seq(WaiterRecs)
          /\ \E i \in DOMAIN waiters' : waiters'[i] = w
          /\ \A i \in DOMAIN waiters : i \in DOMAIN waiters' /\ waiters'[i] = waiters[i]
      BY <1>6, <2>0, <3>1, <3>2, <3>3, <3>4, <3>5, Arms
    <3>7. Listens(r, "tool")'
      BY <1>3, <3>0, <3>6 DEF Listens, At, Waiter
    <3>. QED
      BY <3>6, <3>7
  <2>2. CASE run[r].acl = {}
    <3>1. waiters' = waiters
      BY <2>2 DEF Begin
    <3>2. Waits'
      BY <1>6, <2>0, <3>1, WithinItself, StillWaits
    <3>. QED
      BY <2>0, <2>2, <3>1, <3>2
  <2>. QED
    BY <2>1, <2>2
<1>8. Within(queue, queue) /\ queue \in Seq(Lines) /\ Len(queue) <= QueueLimit
  BY <1>1, Sorts, WithinItself
<1>9. Proceeds(r)
  BY <1>1, <1>3, <1>4, <1>5, <1>7, <1>8 DEF Proceeds, Begin, Pumping
<1>10. Awaiting(r)'
  BY <1>3, <1>7, Promises DEF Awaiting, Note, Tool, Held
<1>11. InOrder(r)'
  BY <1>1, <1>3, <1>4, Promises DEF InOrder, Note
<1>12. Plain(r) /\ ~Aborted(r) /\ r \notin evicted =>
           IF Note(r)'[1] = "done" THEN \A k \in upstream[r].said : Told(r, k)'
           ELSE r \in lost \/ protocolFailed \/ \A k \in upstream[r].said :
                  Told(r, k)' \/ Note(r)' = <<"delta", r, k>> \/ Queued(r, k)'
  BY <1>1, <1>3, <1>4 DEF Whole, Told, Queued, Note
<1>. QED
  BY <1>4, <1>7, <1>9, <1>10, <1>11, <1>12, KeepProceeds

(* What a pump that waits finds: a failure, the first line for it, or      *)
(* nothing.                                                                *)
Finds(r, n) ==
  \/ n = Failed /\ queue' = queue /\ waiters' = waiters
  \/ /\ n = Waiting /\ queue' = queue /\ waiters' = Append(waiters, Waiter("note", r, At(r)))
     /\ Quieted(At(r)) /\ (protocolFailed => At(r) \in lost)
  \/ /\ At(r) \notin lost /\ ~protocolFailed /\ waiters' = waiters
     /\ \E i \in DOMAIN queue :
          /\ n = queue[i] /\ queue' = RemoveAt(queue, i) /\ n[2] = At(r)
          /\ \A j \in DOMAIN queue : queue[j][1] = "delta" /\ queue[j][2] = At(r) => n[1] = "delta" /\ i <= j

LEMMA AwaitFinds ==
  ASSUME IInv, NEW r \in Requests, Await(r)
  PROVE  \E n \in Notes : \E first \in {"none", "note", "tool"} :
           /\ n # None /\ Finds(r, n)
           /\ run' = [run EXCEPT ![r].pc = "race", ![r].note = n, ![r].first = first]
           /\ first = "none" => n = Waiting /\ ~Settled(Tool(r))
           /\ first = "note" => Settled(n)
           /\ first = "tool" => Settled(Tool(r))
<1> DEFINE t == At(r)
           broken == protocolFailed /\ t \notin lost
           i == IF broken \/ t \in lost THEN 0 ELSE NextBuffered(t)
           n == IF broken THEN Failed ELSE IF i # 0 THEN queue[i] ELSE Waiting
           first == IF Settled(run[r].tool) THEN "tool" ELSE IF Settled(n) THEN "note" ELSE "none"
<1>1. /\ run' = [run EXCEPT ![r].pc = "race", ![r].note = n, ![r].first = first]
      /\ queue' = (IF i = 0 THEN queue ELSE RemoveAt(queue, i))
      /\ waiters' = (IF n = Waiting THEN Append(waiters, Waiter("note", r, t)) ELSE waiters)
  BY DEF Await
<1>2. queue \in Seq(Lines) /\ Buffers /\ t = At(r)
  BY Basics, Sorts
<1>3. CASE broken
  <2>1. n = Failed /\ i = 0
    BY <1>3
  <2>. QED
    BY <1>1, <2>1, Promises DEF Finds, Notes, Tool
<1>4. CASE ~broken /\ t \in lost
  <2>1. n = Waiting /\ i = 0
    BY <1>4
  <2>2. Quieted(t)
    BY <1>2, <1>4 DEF Buffers, Quieted
  <2>. QED
    BY <1>1, <1>4, <2>1, <2>2, Promises DEF Finds, Notes, Tool
<1>5. CASE ~broken /\ t \notin lost
  <2>1. i = NextBuffered(t)
    BY <1>5
  <2>2. CASE i = 0
    <3>1. n = Waiting /\ Quieted(t)
      BY <1>2, <1>5, <2>1, <2>2, NextBuffereds
    <3>. QED
      BY <1>1, <1>5, <2>2, <3>1, Promises DEF Finds, Notes, Tool
  <2>3. CASE i # 0
    <3>1. /\ i \in DOMAIN queue /\ queue[i][2] = t
          /\ \A j \in DOMAIN queue : queue[j][1] = "delta" /\ queue[j][2] = t =>
               queue[i][1] = "delta" /\ i <= j
      BY <1>2, <2>1, <2>3, NextBuffereds, Zenon
    <3>2. n = queue[i] /\ n \in Lines
      BY <1>2, <1>5, <2>3, <3>1
    <3>3. queue' = RemoveAt(queue, i) /\ waiters' = waiters /\ n # Waiting /\ n # None /\ n \in Notes
      BY <1>1, <2>3, <3>2, Promises DEF Notes
    <3>4. Settled(n)
      BY <3>2, Promises
    <3>5. PICK m \in Notes, e \in {"none", "note", "tool"} : m = n /\ e = first
      BY <3>3
    <3>6. /\ run' = [run EXCEPT ![r].pc = "race", ![r].note = m, ![r].first = e]
          /\ e = "tool" => Settled(Tool(r))
          /\ e # "none" /\ Settled(m) /\ m # None
      BY <1>1, <3>3, <3>4, <3>5 DEF Tool
    <3>7. Finds(r, m)
      BY <1>5, <3>1, <3>2, <3>3, <3>5 DEF Finds
    <3>. QED
      BY <3>6, <3>7
  <2>. QED
    BY <2>2, <2>3
<1>. QED
  BY <1>3, <1>4, <1>5

LEMMA KeepAwait ==
  ASSUME IInv, NEW r \in Requests, Await(r)
  PROVE  IInv'
<1>1. PICK n \in Notes, first \in {"none", "note", "tool"} :
           /\ n # None /\ Finds(r, n)
           /\ run' = [run EXCEPT ![r].pc = "race", ![r].note = n, ![r].first = first]
           /\ first = "none" => n = Waiting /\ ~Settled(Tool(r))
           /\ first = "note" => Settled(n)
           /\ first = "tool" => Settled(Tool(r))
  BY AwaitFinds
<1>2. PICK t \in Threads : t = At(r)
  BY Woken DEF Await
<1>3. /\ run[r].pc = "loop" /\ Active(r) /\ Pumping(r) /\ ~Aborted(r)
      /\ Shapes /\ Waits /\ Buffers /\ Steered(r) /\ Awaiting(r) /\ InOrder(r) /\ Whole(r)
      /\ Note(r) = None /\ run[r].first = "none" /\ Speech(t)
  BY Basics DEF Await, Active, Pumping, Awaiting
<1>4. /\ OnlyRun(r) /\ run'[r].at = run[r].at /\ run'[r].tools = run[r].tools /\ run'[r].acl = run[r].acl
      /\ run'[r].pc = "race" /\ run'[r].note = n /\ run'[r].tool = run[r].tool /\ run'[r].first = first
      /\ run'[r].seen = run[r].seen
  <2>1. run \in [Requests -> RunRecs] /\ run[r] \in RunRecs
    BY <1>3, Sorts
  <2> DEFINE new == [[[run[r] EXCEPT !.pc = "race"] EXCEPT !.note = n] EXCEPT !.first = first]
  <2>2. [run[r] EXCEPT !.pc = "race"] \in RunRecs
    BY <2>1, RunFields
  <2>3. [[run[r] EXCEPT !.pc = "race"] EXCEPT !.note = n] \in RunRecs
    BY <2>2, RunFields
  <2>4. new \in RunRecs
    BY <2>3, RunFields
  <2>5. run' = [run EXCEPT ![r] = new]
    BY <1>1, <2>1
  <2>6. /\ new.at = run[r].at /\ new.tools = run[r].tools /\ new.acl = run[r].acl /\ new.pc = "race"
        /\ new.note = n /\ new.tool = run[r].tool /\ new.first = first /\ new.seen = run[r].seen
    BY <2>1 DEF RunRecs
  <2> HIDE DEF new
  <2>. QED
    BY <2>1, <2>4, <2>5, <2>6 DEF OnlyRun
<1>5. /\ out' = out /\ cancel' = cancel /\ OnlyOut(r) /\ activeTurns' = activeTurns /\ ledger' = ledger
      /\ threadToolAcl' = threadToolAcl /\ parkedTurns' = parkedTurns /\ answers' = answers
      /\ protocolFailed' = protocolFailed /\ lost' = lost /\ upstream' = upstream /\ evicted' = evicted
  BY <1>3, Sorts DEF Await, PumpFrame, BeginFrame, server, OnlyOut, books
<1>6. waiters \in Seq(WaiterRecs) /\ queue \in Seq(Lines) /\ Len(queue) <= QueueLimit /\ QueueLimit \in Nat
      /\ Len(queue) \in Nat
  BY <1>3, Sorts, Constants
<1>7. n = Waiting => /\ queue' = queue /\ waiters' = Append(waiters, Waiter("note", r, t))
                     /\ Quieted(t) /\ (protocolFailed => t \in lost)
  <2>1. \A i \in DOMAIN queue : queue[i] # Waiting
    BY <1>6, Promises
  <2>. QED
    BY <1>1, <1>2, <2>1, Promises DEF Finds
<1>8. /\ queue' \in Seq(Lines) /\ Within(queue', queue) /\ Len(queue') <= QueueLimit
      /\ \A a \in DOMAIN queue : queue[a] # n => \E i \in DOMAIN queue' : queue'[i] = queue[a]
  <2>1. CASE queue' = queue
    BY <1>6, <2>1, WithinItself
  <2>2. CASE \E i \in DOMAIN queue : n = queue[i] /\ queue' = RemoveAt(queue, i)
    <3>1. PICK i \in DOMAIN queue : n = queue[i] /\ queue' = RemoveAt(queue, i)
      BY <2>2
    <3>2. /\ queue' \in Seq(Lines) /\ Len(queue') = Len(queue) - 1 /\ Within(queue', queue)
          /\ \A a \in DOMAIN queue : a # i => \E j \in DOMAIN queue' : queue'[j] = queue[a]
      BY <1>6, <3>1, Removes
    <3>. QED
      BY <1>6, <3>1, <3>2
  <2>. QED
    BY <1>1, <2>1, <2>2 DEF Finds
<1>9. n \in Lines => n[2] = t /\ n[1] # "item" /\ (n[1] = "delta" => n[3] \in upstream[t].said)
                     /\ (n[1] = "done" => ~upstream[t].on)
                     /\ Later(t, n[3])' /\ t \notin lost /\ ~protocolFailed
                     /\ (n[1] # "delta" => \A k : ~Queued(t, k))
                     /\ \E i \in DOMAIN queue : queue[i] = n
  <2>1. SUFFICES ASSUME n \in Lines
                 PROVE  n[2] = t /\ n[1] # "item" /\ (n[1] = "delta" => n[3] \in upstream[t].said)
                     /\ (n[1] = "done" => ~upstream[t].on)
                     /\ Later(t, n[3])' /\ t \notin lost /\ ~protocolFailed
                     /\ (n[1] # "delta" => \A k : ~Queued(t, k))
                     /\ \E i \in DOMAIN queue : queue[i] = n
    OBVIOUS
  <2>2. PICK i \in DOMAIN queue :
          /\ n = queue[i] /\ queue' = RemoveAt(queue, i) /\ n[2] = t /\ t \notin lost /\ ~protocolFailed
          /\ \A j \in DOMAIN queue : queue[j][1] = "delta" /\ queue[j][2] = t => n[1] = "delta" /\ i <= j
    BY <1>1, <1>2, <2>1, Promises DEF Finds
  <2>3. n[1] # "item" /\ (n[1] = "delta" => n[3] \in upstream[t].said) /\ (n[1] = "done" => ~upstream[t].on)
    BY <1>3, <2>2 DEF Buffers
  <2>4. ASSUME NEW j \in DOMAIN queue', queue'[j][1] = "delta", queue'[j][2] = t PROVE n[3] < queue'[j][3]
    <3>1. /\ queue'[j] = (IF j < i THEN queue[j] ELSE queue[j + 1])
          /\ j \in DOMAIN queue /\ j + 1 \in DOMAIN queue
      <4>1. \A a \in DOMAIN RemoveAt(queue, i) :
              /\ RemoveAt(queue, i)[a] = (IF a < i THEN queue[a] ELSE queue[a + 1])
              /\ a \in DOMAIN queue /\ a + 1 \in DOMAIN queue
        BY <1>6, Removes, Zenon
      <4>. QED
        BY <2>2, <4>1
    <3>2. i \in Nat /\ j \in Nat /\ i \in 1..Len(queue) /\ j \in 1..Len(queue)
      BY <1>6, <3>1
    <3>3. ~(j < i)
      BY <2>2, <2>4, <3>1, <3>2
    <3>4. queue'[j] = queue[j + 1] /\ i < j + 1
      BY <3>1, <3>2, <3>3
    <3>. QED
      BY <1>3, <2>2, <2>4, <3>1, <3>4 DEF Buffers
  <2>5. Later(t, n[3])'
    BY <2>4 DEF Later
  <2>6. ASSUME n[1] # "delta", NEW k PROVE ~Queued(t, k)
    BY <2>2, <2>6 DEF Queued
  <2>. QED
    BY <2>2, <2>3, <2>5, <2>6
<1>10. \A u \in WaiterRecs : (\E i \in DOMAIN waiters : waiters[i] = u) =>
         Serves(u)' /\ ~(u.by = r /\ u.kind = "note" /\ u.live)
  <2>1. ASSUME NEW u \in WaiterRecs, \E i \in DOMAIN waiters : waiters[i] = u
        PROVE  Serves(u)' /\ ~(u.by = r /\ u.kind = "note" /\ u.live)
    <3>1. u.by \in Requests /\ Serves(u) /\ u.kind \in {"note", "tool"}
      BY <1>3, <2>1 DEF Waits, WaiterRecs
    <3>2. CASE u.by # r
      BY <1>4, <1>5, <2>1, <3>1, <3>2, StillServes DEF OnlyRun
    <3>3. CASE u.by = r
      <4>1. u.kind = "note" => ~u.live
        BY <1>3, <3>1, <3>3, Promises DEF Serves
      <4>. QED
        BY <1>4, <1>5, <3>1, <3>3, <4>1 DEF Serves, Pumping, At, Tool, Note
    <3>. QED
      BY <3>2, <3>3
  <2>. QED
    BY <2>1
<1>11. /\ Waits' /\ waiters' \in Seq(WaiterRecs) /\ (n = Waiting => Listens(r, "note")')
       /\ \A a \in DOMAIN waiters : \E i \in DOMAIN waiters' : waiters'[i] = waiters[a]
  <2>1. CASE n = Waiting
    <3>0. PICK w : w = Waiter("note", r, t)
      OBVIOUS
    <3>1. w \in WaiterRecs /\ w.by = r /\ w.on = t /\ w.kind = "note" /\ w.live
      BY <3>0 DEF Waiter, WaiterRecs
    <3>2. waiters' = Append(waiters, w) /\ (protocolFailed => t \in lost)
      BY <1>7, <2>1, <3>0
    <3>3. Serves(w)'
      BY <1>2, <1>4, <1>5, <2>1, <3>1, <3>2 DEF Serves, Pumping, At, Note
    <3>4. \A i \in DOMAIN waiters : waiters[i] # w
      BY <1>6, <1>10, <3>1
    <3>5. \A i, j \in DOMAIN waiters : waiters[i] = waiters[j] /\ waiters[i].live => i = j
      BY <1>3 DEF Waits
    <3>6. /\ Waits' /\ waiters' \in Seq(WaiterRecs)
          /\ \E i \in DOMAIN waiters' : waiters'[i] = w
          /\ \A i \in DOMAIN waiters : i \in DOMAIN waiters' /\ waiters'[i] = waiters[i]
      BY <1>6, <1>10, <3>1, <3>2, <3>3, <3>4, <3>5, Arms
    <3>7. Listens(r, "note")'
      BY <1>2, <1>4, <3>0, <3>6 DEF Listens, At, Waiter
    <3>. QED
      BY <3>6, <3>7
  <2>2. CASE n # Waiting
    <3>1. waiters' = waiters
      BY <1>1, <2>2 DEF Finds
    <3>2. Waits'
      BY <1>6, <1>10, <3>1, WithinItself, StillWaits
    <3>. QED
      BY <1>6, <2>2, <3>1, <3>2
  <2>. QED
    BY <2>1, <2>2
<1>12. Proceeds(r)
  <2>1. \A a \in DOMAIN queue : queue[a][2] # At(r) => \E i \in DOMAIN queue' : queue'[i] = queue[a]
    <3>1. ASSUME NEW a \in DOMAIN queue, queue[a][2] # t PROVE queue[a] # n
      <4>1. queue[a] \in Lines
        BY <1>6
      <4>. QED
        BY <1>9, <3>1, <4>1
    <3>. QED
      BY <1>2, <1>8, <3>1
  <2>2. Bounded(threadToolAcl)' /\ \A s : Contains(threadToolAcl, s)' => Contains(threadToolAcl, s)
    BY <1>5, SameBooks
  <2>. QED
    BY <1>3, <1>4, <1>5, <1>8, <1>11, <2>1, <2>2 DEF Proceeds, Await, PumpFrame, Pumping
<1>13. Awaiting(r)'
  <2>1. Tool(r) = Waiting => Listens(r, "tool")'
    <3>1. Tool(r) = Waiting => Listens(r, "tool")
      BY <1>3 DEF Awaiting
    <3>. QED
      BY <1>4, <1>11, <3>1 DEF Listens, At, Waiter
  <2>2. Held(r) => Untouched(Asked(r))'
    BY <1>3, <1>4, <1>5, HeldCall DEF Untouched, Asked
  <2>3. /\ run'[r].tool = None <=> run'[r].acl = {}
        /\ run'[r].note \in Lines => run'[r].note[2] = At(r)'
        /\ run'[r].tool[1] = "call" => run'[r].tool[2] = At(r)' /\ run'[r].tool[3] <= upstream'[At(r)'].asked
    BY <1>2, <1>3, <1>4, <1>5, <1>9 DEF Awaiting, Held, Tool, At
  <2>. QED
    BY <1>1, <1>4, <1>11, <2>1, <2>2, <2>3 DEF Awaiting, Note, Tool, Held
<1>14. InOrder(r)'
  <2>1. \A k : (Past(t, k) => Past(t, k)') /\ (Later(t, k) => Later(t, k)')
    BY <1>5, <1>8 DEF Past, Later, Within
  <2>2. ASSUME NEW i \in DOMAIN out[r].text, NEW k, k = out[r].text[i][2]
        PROVE  /\ k \in run'[r].seen /\ Past(t, k)' /\ Later(t, k)'
               /\ n[1] = "delta" => k < n[3]
               /\ n[1] = "item"  => k <= n[3]
    <3>1. k \in run[r].seen /\ Past(t, k) /\ Later(t, k)
      BY <1>2, <1>3, <2>2 DEF InOrder
    <3>2. n \notin Lines => n[1] # "delta" /\ n[1] # "item"
      BY <1>1, Promises DEF Notes
    <3>3. n[1] = "delta" => k < n[3]
      BY <1>9, <3>1, <3>2 DEF Later
    <3>4. n[1] # "item"
      BY <1>9, <3>2
    <3>. QED
      BY <1>4, <2>1, <3>1, <3>3, <3>4
  <2>3. ASSUME n \in Lines, NEW k, k = n[3]
        PROVE  n[1] \in {"delta", "item"} => Past(t, k)' /\ Later(t, k)'
    <3>1. HAVE n[1] \in {"delta", "item"}
    <3>2. k \in upstream[t].said /\ Later(t, k)'
      BY <1>9, <2>3, <3>1
    <3>3. Past(t, k)
      BY <1>3, <3>2 DEF Speech, Past
    <3>. QED
      BY <2>1, <3>2, <3>3
  <2>4. n = Waiting => Quieted(t)'
    BY <1>7 DEF Quieted
  <2>5. n[1] = "done" => ~upstream'[t].on
    BY <1>1, <1>5, <1>9, Promises DEF Notes
  <2>6. /\ \A i \in DOMAIN out'[r].text : out'[r].text[i][1] = t
        /\ \A i, j \in DOMAIN out'[r].text : i < j => out'[r].text[i][2] < out'[r].text[j][2]
    BY <1>2, <1>3, <1>5 DEF InOrder
  <2>7. n \in Lines => n[1] # "item"
    BY <1>9
  <2>8. At(r)' = t /\ Note(r)' = n /\ out'[r] = out[r]
    BY <1>2, <1>4, <1>5 DEF At, Note
  <2>. QED
    BY <1>4, <2>2, <2>3, <2>4, <2>5, <2>6, <2>7, <2>8 DEF InOrder
<1>15. Plain(r) /\ ~Aborted(r) /\ r \notin evicted =>
           IF Note(r)'[1] = "done" THEN \A k \in upstream[r].said : Told(r, k)'
           ELSE r \in lost \/ protocolFailed \/ \A k \in upstream[r].said :
                  Told(r, k)' \/ Note(r)' = <<"delta", r, k>> \/ Queued(r, k)'
  <2>1. SUFFICES ASSUME Plain(r), r \notin evicted, ~(r \in lost \/ protocolFailed)
                 PROVE  IF n[1] = "done" THEN \A k \in upstream[r].said : Told(r, k)'
                        ELSE \A k \in upstream[r].said : Told(r, k)' \/ n = <<"delta", r, k>> \/ Queued(r, k)'
    <3>1. t = r /\ (r \in lost \/ protocolFailed) => n[1] # "done"
      BY <1>1, <1>9, Promises DEF Notes
    <3>2. Plain(r) => t = r
      BY <1>2 DEF Plain
    <3>. QED
      BY <1>4, <3>1, <3>2 DEF Note
  <2>2. t = r /\ \A k \in upstream[r].said : Told(r, k) \/ Queued(r, k)
    <3>1. Note(r)[1] # "done" /\ \A k : Note(r) # <<"delta", r, k>>
      BY <1>3, Promises
    <3>. QED
      BY <1>2, <1>3, <2>1, <3>1 DEF Whole, Plain
  <2>3. \A k : Told(r, k)' <=> Told(r, k)
    BY <1>5 DEF Told
  <2>4. \A k : Queued(r, k) => n = <<"delta", r, k>> \/ Queued(r, k)'
    BY <1>8 DEF Queued
  <2>5. n[1] = "done" => \A k : ~Queued(r, k)
    BY <1>1, <1>9, <2>2, Promises DEF Notes
  <2>. QED
    BY <2>2, <2>3, <2>4, <2>5
<1>. QED
  BY <1>5, <1>11, <1>12, <1>13, <1>14, <1>15, KeepProceeds

(* The waiters when a pump gives up its notification waiter.               *)
LEMMA Abandons ==
  ASSUME IInv, NEW r \in Requests, NEW v, v = Abandoned(r)
  PROVE  /\ v \in Seq(WaiterRecs) /\ \A i, j \in DOMAIN v : v[i] = v[j] /\ v[i].live => i = j
         /\ \A i \in DOMAIN v : \E a \in DOMAIN waiters :
              /\ v[i].by = waiters[a].by /\ v[i].kind = waiters[a].kind /\ v[i].on = waiters[a].on
              /\ IF v[i].by = r /\ v[i].kind = "note" THEN ~v[i].live ELSE v[i] = waiters[a]
         /\ \A a \in DOMAIN waiters : waiters[a].by # r => \E i \in DOMAIN v : v[i] = waiters[a]
<1>1. waiters \in Seq(WaiterRecs) /\ Waits
  BY Basics, Sorts
<1>2. CASE At(r) \in lost
  <2> DEFINE S == {w \in Range(waiters) : w.by = r /\ w.kind = "note"}
  <2>1. v = Without(waiters, S)
    BY <1>2 DEF Abandoned
  <2>2. \A a \in DOMAIN waiters : waiters[a] \in S <=> waiters[a].by = r /\ waiters[a].kind = "note"
    BY DEF Range
  <2> HIDE DEF S
  <2>3. /\ v \in Seq(WaiterRecs) /\ Within(v, waiters) /\ \A i \in DOMAIN v : v[i] \notin S
        /\ \A a \in DOMAIN waiters : waiters[a] \notin S => \E i \in DOMAIN v : v[i] = waiters[a]
    BY <1>1, <2>1, Withouts
  <2>4. ASSUME NEW i \in DOMAIN v, NEW j \in DOMAIN v, v[i] = v[j], v[i].live PROVE i = j
    <3>1. \A k, l \in DOMAIN v : k < l /\ v[k].live => v[k] # v[l]
      <4>1. SUFFICES ASSUME NEW k \in DOMAIN v, NEW l \in DOMAIN v, k < l, v[k].live, v[k] = v[l] PROVE FALSE
        OBVIOUS
      <4>2. PICK a, b \in DOMAIN waiters : a < b /\ v[k] = waiters[a] /\ v[l] = waiters[b]
        BY <2>3, <4>1 DEF Within
      <4>3. a = b
        BY <1>1, <4>1, <4>2 DEF Waits
      <4>. QED
        BY <1>1, <4>2, <4>3
    <3>2. i \in Nat /\ j \in Nat
      BY <2>3, <2>4
    <3>. QED
      BY <2>4, <3>1, <3>2
  <2>5. \A i \in DOMAIN v : \E a \in DOMAIN waiters :
              /\ v[i] = waiters[a] /\ ~(v[i].by = r /\ v[i].kind = "note")
    BY <2>2, <2>3 DEF Within
  <2>. QED
    BY <2>2, <2>3, <2>4, <2>5
<1>3. CASE At(r) \notin lost
  <2>1. v = [i \in DOMAIN waiters |->
               IF waiters[i].by = r /\ waiters[i].kind = "note"
               THEN [waiters[i] EXCEPT !.live = FALSE] ELSE waiters[i]]
    BY <1>3 DEF Abandoned
  <2>2. DOMAIN waiters = 1..Len(waiters) /\ Len(waiters) \in Nat /\ \A i \in DOMAIN waiters : waiters[i] \in WaiterRecs
    BY <1>1
  <2>3. \A rec \in WaiterRecs : LET new == [rec EXCEPT !.live = FALSE] IN
          new \in WaiterRecs /\ new.by = rec.by /\ new.kind = rec.kind /\ new.on = rec.on /\ ~new.live
    BY DEF WaiterRecs
  <2>4. v \in [1..Len(waiters) -> WaiterRecs]
    BY <2>1, <2>2, <2>3
  <2>5. v \in Seq(WaiterRecs) /\ DOMAIN v = DOMAIN waiters
    BY <2>2, <2>4
  <2>6. \A i \in DOMAIN v :
          /\ v[i].by = waiters[i].by /\ v[i].kind = waiters[i].kind /\ v[i].on = waiters[i].on
          /\ IF v[i].by = r /\ v[i].kind = "note" THEN ~v[i].live ELSE v[i] = waiters[i]
    BY <2>1, <2>2, <2>3, <2>5
  <2>7. \A i, j \in DOMAIN v : v[i] = v[j] /\ v[i].live => i = j
    BY <1>1, <2>5, <2>6 DEF Waits
  <2>8. \A a \in DOMAIN waiters : waiters[a].by # r => v[a] = waiters[a]
    BY <2>5, <2>6
  <2>. QED
    BY <2>5, <2>6, <2>7, <2>8
<1>. QED
  BY <1>2, <1>3

LEMMA KeepToolReleased ==
  ASSUME IInv, NEW r \in Requests, ToolReleased(r)
  PROVE  IInv'
<1>1. PICK t \in Threads : t = At(r)
  BY Woken DEF ToolReleased
<1>2. PICK v : v = Abandoned(r)
  OBVIOUS
<1>3. /\ Active(r) /\ Pumping(r) /\ run[r].pc = "race"
      /\ Shapes /\ Waits /\ Steered(r) /\ Awaiting(r) /\ InOrder(r) /\ Whole(r) /\ Allowed(r)
      /\ Tool(r) = Released
  BY Basics, Woken DEF ToolReleased, Tool
<1>4. PICK tool \in {Waiting, Released} :
        /\ run' = [run EXCEPT ![r].pc = "loop", ![r].note = None, ![r].first = "none", ![r].tool = tool]
        /\ tool = Waiting => waiters' = Append(v, Waiter("tool", r, t))
        /\ tool = Released => waiters' = v
  BY <1>2, <1>1, Promises DEF ToolReleased, Rearm, GoOnWith
<1>5. /\ OnlyRun(r) /\ run'[r].at = run[r].at /\ run'[r].tools = run[r].tools /\ run'[r].acl = run[r].acl
      /\ run'[r].pc = "loop" /\ run'[r].note = None /\ run'[r].tool = tool /\ run'[r].first = "none"
      /\ run'[r].seen = run[r].seen
  <2>1. run \in [Requests -> RunRecs] /\ run[r] \in RunRecs /\ tool \in ToolPromises /\ None \in Notes
    BY <1>3, Sorts DEF ToolPromises, Notes
  <2> DEFINE new == [[[[run[r] EXCEPT !.pc = "loop"] EXCEPT !.note = None] EXCEPT !.first = "none"] EXCEPT !.tool = tool]
  <2>2. [run[r] EXCEPT !.pc = "loop"] \in RunRecs
    BY <2>1, RunFields
  <2>3. [[run[r] EXCEPT !.pc = "loop"] EXCEPT !.note = None] \in RunRecs
    BY <2>1, <2>2, RunFields
  <2>4. [[[run[r] EXCEPT !.pc = "loop"] EXCEPT !.note = None] EXCEPT !.first = "none"] \in RunRecs
    BY <2>3, RunFields
  <2>5. new \in RunRecs
    BY <2>1, <2>4, RunFields
  <2>6. run' = [run EXCEPT ![r] = new]
    BY <1>4, <2>1
  <2>7. /\ new.at = run[r].at /\ new.tools = run[r].tools /\ new.acl = run[r].acl /\ new.pc = "loop"
        /\ new.note = None /\ new.tool = tool /\ new.first = "none" /\ new.seen = run[r].seen
    BY <2>1 DEF RunRecs
  <2> HIDE DEF new
  <2>. QED
    BY <2>1, <2>5, <2>6, <2>7 DEF OnlyRun
<1>6. /\ out' = out /\ cancel' = cancel /\ OnlyOut(r) /\ activeTurns' = activeTurns /\ ledger' = ledger
      /\ threadToolAcl' = threadToolAcl /\ parkedTurns' = parkedTurns /\ answers' = answers /\ queue' = queue
      /\ protocolFailed' = protocolFailed /\ lost' = lost /\ upstream' = upstream /\ evicted' = evicted
  BY <1>3, Sorts DEF ToolReleased, PumpFrame, BeginFrame, server, OnlyOut, books
<1>7. /\ v \in Seq(WaiterRecs) /\ \A i, j \in DOMAIN v : v[i] = v[j] /\ v[i].live => i = j
      /\ \A i \in DOMAIN v : \E a \in DOMAIN waiters :
           /\ v[i].by = waiters[a].by /\ v[i].kind = waiters[a].kind /\ v[i].on = waiters[a].on
           /\ IF v[i].by = r /\ v[i].kind = "note" THEN ~v[i].live ELSE v[i] = waiters[a]
      /\ \A a \in DOMAIN waiters : waiters[a].by # r => \E i \in DOMAIN v : v[i] = waiters[a]
  BY <1>2, Abandons
<1>8. \A u \in WaiterRecs : (\E i \in DOMAIN v : v[i] = u) => Serves(u)' /\ (u.by = r => ~u.live)
  <2>1. ASSUME NEW u \in WaiterRecs, NEW i \in DOMAIN v, v[i] = u PROVE Serves(u)' /\ (u.by = r => ~u.live)
    <3>1. PICK a \in DOMAIN waiters :
           /\ u.by = waiters[a].by /\ u.kind = waiters[a].kind /\ u.on = waiters[a].on
           /\ IF u.by = r /\ u.kind = "note" THEN ~u.live ELSE u = waiters[a]
      BY <1>7, <2>1
    <3>2. Serves(waiters[a]) /\ u.by \in Requests /\ u.kind \in {"note", "tool"}
      BY <1>3, <2>1 DEF Waits, WaiterRecs
    <3>3. CASE u.by # r
      BY <1>5, <1>6, <3>1, <3>2, <3>3, StillServes DEF OnlyRun
    <3>4. CASE u.by = r
      <4>1. u.kind = "note" /\ ~u.live /\ run[r].acl # {}
        BY <1>3, <3>1, <3>2, <3>4, Promises DEF Serves, Awaiting
      <4>2. u.on = At(r) /\ (protocolFailed => u.on \in lost)
        BY <3>1, <3>2, <3>4, <4>1 DEF Serves
      <4>. QED
        BY <1>5, <1>6, <3>4, <4>1, <4>2 DEF Serves, Pumping, At
    <3>. QED
      BY <3>3, <3>4
  <2>. QED
    BY <2>1
<1>9. /\ Waits' /\ waiters' \in Seq(WaiterRecs) /\ (tool = Waiting => Listens(r, "tool")')
      /\ \A a \in DOMAIN waiters : waiters[a].by # r => \E i \in DOMAIN waiters' : waiters'[i] = waiters[a]
  <2>1. CASE tool = Waiting
    <3>0. PICK w : w = Waiter("tool", r, t)
      OBVIOUS
    <3>1. w \in WaiterRecs /\ w.by = r /\ w.on = t /\ w.kind = "tool" /\ w.live
      BY <3>0 DEF Waiter, WaiterRecs
    <3>2. waiters' = Append(v, w)
      BY <1>4, <2>1, <3>0
    <3>3. Serves(w)'
      BY <1>1, <1>5, <1>6, <2>1, <3>1, <3>2 DEF Serves, Pumping, At, Tool
    <3>4. \A i \in DOMAIN v : v[i] # w
      BY <1>7, <1>8, <3>1
    <3>6. /\ Waits' /\ waiters' \in Seq(WaiterRecs)
          /\ \E i \in DOMAIN waiters' : waiters'[i] = w
          /\ \A i \in DOMAIN v : i \in DOMAIN waiters' /\ waiters'[i] = v[i]
      BY <1>7, <1>8, <3>1, <3>2, <3>3, <3>4, Arms
    <3>7. Listens(r, "tool")'
      BY <1>1, <1>5, <3>0, <3>6 DEF Listens, At, Waiter
    <3>. QED
      BY <1>7, <3>6, <3>7
  <2>2. CASE tool = Released
    <3>1. waiters' = v
      BY <1>4, <2>2
    <3>2. ASSUME NEW i \in DOMAIN v, NEW u, u = v[i] PROVE Serves(u)'
      BY <1>7, <1>8, <3>2
    <3>3. (\A i \in DOMAIN waiters : Serves(waiters[i]))'
      BY <3>1, <3>2
    <3>4. Waits'
      BY <1>7, <3>1, <3>3 DEF Waits
    <3>. QED
      BY <1>7, <2>2, <3>1, <3>4, Promises
  <2>. QED
    BY <2>1, <2>2
<1>10. Proceeds(r)
  <2>1. queue \in Seq(Lines) /\ Within(queue, queue) /\ Len(queue) <= QueueLimit
    BY <1>3, Sorts, WithinItself
  <2>2. Bounded(threadToolAcl)' /\ \A s : Contains(threadToolAcl, s)' => Contains(threadToolAcl, s)
    BY <1>6, SameBooks
  <2>. QED
    BY <1>3, <1>5, <1>6, <1>9, <2>1, <2>2 DEF Proceeds, ToolReleased, PumpFrame, Pumping
<1>11. Awaiting(r)'
  <2>1. run[r].acl # {} /\ tool # None /\ tool[1] # "call"
    BY <1>3, Promises DEF Awaiting
  <2>. QED
    BY <1>5, <1>9, <2>1, Promises DEF Awaiting, Note, Tool, Held
<1>12. InOrder(r)'
  <2>1. \A k : (Past(t, k) => Past(t, k)') /\ (Later(t, k) => Later(t, k)')
    BY <1>6 DEF Past, Later
  <2>2. ASSUME NEW i \in DOMAIN out[r].text, NEW k, k = out[r].text[i][2]
        PROVE  k \in run'[r].seen /\ Past(t, k)' /\ Later(t, k)'
    BY <1>1, <1>3, <1>5, <2>1, <2>2 DEF InOrder
  <2>3. /\ \A i \in DOMAIN out'[r].text : out'[r].text[i][1] = t
        /\ \A i, j \in DOMAIN out'[r].text : i < j => out'[r].text[i][2] < out'[r].text[j][2]
    BY <1>1, <1>3, <1>6 DEF InOrder
  <2>4. At(r)' = t /\ Note(r)' = None /\ out'[r] = out[r]
    BY <1>1, <1>5, <1>6 DEF At, Note
  <2>. QED
    BY <1>5, <2>2, <2>3, <2>4, Promises DEF InOrder
<1>13. ~Plain(r)
  BY <1>3, Promises DEF Plain, Declared, Allowed, Awaiting
<1>. QED
  BY <1>6, <1>9, <1>10, <1>11, <1>12, <1>13, KeepProceeds

LEMMA Appends ==
  ASSUME NEW A, NEW s \in Seq(A), NEW e \in A
  PROVE  LET w == Append(s, e)  n == Len(s) + 1 IN
         /\ w \in Seq(A) /\ n \in DOMAIN w /\ w[n] = e
         /\ \A i \in DOMAIN s : i \in DOMAIN w /\ w[i] = s[i]
         /\ \A i \in DOMAIN w : i \in DOMAIN s \/ i = n
         /\ \A i \in DOMAIN w : i \in Nat /\ i <= n /\ n \in Nat
OBVIOUS

LEMMA KeepTakeText ==
  ASSUME IInv, NEW r \in Requests, TakeText(r)
  PROVE  IInv'
<1> DEFINE goes == ~(Aborted(r) /\ (HasText(r, run[r].note) \/ run[r].note[1] = "usage"))
<1>1. CASE ~goes
  <2>1. Finish(r, "silent") /\ run[r].first = "note"
        /\ UNCHANGED <<parkedTurns, threadToolAcl, ledger, cancel, answers>> /\ PumpFrame
    BY <1>1 DEF TakeText
  <2>. QED
    BY <2>1, KeepTakeTextGone
<1>2. CASE goes
  <2>1. PICK t \in Threads : t = At(r)
    BY Woken DEF TakeText
  <2>2. PICK n \in Lines : n = run[r].note
    <3>1. run[r].note \in Notes /\ run[r].note[1] \in {"delta", "item", "usage"}
      BY Basics, Sorts, RunFields DEF TakeText
    <3>. QED
      BY <3>1, Promises DEF Notes
  <2> DEFINE has == HasText(r, n)
             seen == IF has THEN run[r].seen \cup {n[3]} ELSE run[r].seen
             text == IF has THEN Append(out[r].text, <<n[2], n[3]>>) ELSE out[r].text
  <2>3. /\ Active(r) /\ Pumping(r) /\ run[r].pc = "race"
        /\ Shapes /\ Waits /\ Steered(r) /\ Awaiting(r) /\ InOrder(r) /\ Whole(r) /\ Allowed(r)
        /\ n[1] \in {"delta", "item", "usage"} /\ n[2] = t /\ n = Note(r)
        /\ has => n[1] \in {"delta", "item"} /\ n[3] \in 1..MaxItems
        /\ n[3] \in seen \/ ~has
    <3>1. Awaiting(r) /\ n[1] \in {"delta", "item", "usage"} /\ run[r].first = "note"
      BY <2>2, Basics DEF TakeText
    <3>2. n[2] = t
      BY <2>1, <2>2, <3>1, Woken DEF Awaiting, Note
    <3>3. has => n[1] \in {"delta", "item"} /\ n[3] \in 1..MaxItems
      BY <2>2, LineFields DEF HasText
    <3>. QED
      BY <2>2, <3>1, <3>2, <3>3, Woken, Basics DEF Note
  <2>4. /\ run' = [run EXCEPT ![r].pc = "loop", ![r].note = None, ![r].first = "none", ![r].seen = seen]
        /\ out' = IF has THEN [out EXCEPT ![r].text = text] ELSE out
    BY <1>2, <2>2, <2>3, Sorts DEF TakeText
  <2>5. /\ OnlyRun(r) /\ run'[r].at = run[r].at /\ run'[r].tools = run[r].tools /\ run'[r].acl = run[r].acl
        /\ run'[r].pc = "loop" /\ run'[r].note = None /\ run'[r].tool = run[r].tool /\ run'[r].first = "none"
        /\ run'[r].seen = seen
    <3>1. /\ run \in [Requests -> RunRecs] /\ run[r] \in RunRecs /\ None \in Notes
          /\ run[r].seen \in SUBSET (1..MaxItems)
      BY <2>3, Sorts, RunFields DEF Notes
    <3>2. seen \in SUBSET (1..MaxItems)
      BY <2>3, <3>1
    <3> HIDE DEF seen, has
    <3> DEFINE new == [[[[run[r] EXCEPT !.pc = "loop"] EXCEPT !.note = None] EXCEPT !.first = "none"] EXCEPT !.seen = seen]
    <3>3. [run[r] EXCEPT !.pc = "loop"] \in RunRecs
      BY <3>1, RunFields
    <3>4. [[run[r] EXCEPT !.pc = "loop"] EXCEPT !.note = None] \in RunRecs
      BY <3>1, <3>3, RunFields
    <3>5. [[[run[r] EXCEPT !.pc = "loop"] EXCEPT !.note = None] EXCEPT !.first = "none"] \in RunRecs
      BY <3>4, RunFields
    <3>6. new \in RunRecs
      BY <3>2, <3>5, RunFields
    <3>7. run' = [run EXCEPT ![r] = new]
      BY <2>4, <3>1
    <3>8. /\ new.at = run[r].at /\ new.tools = run[r].tools /\ new.acl = run[r].acl /\ new.pc = "loop"
          /\ new.note = None /\ new.tool = run[r].tool /\ new.first = "none" /\ new.seen = seen
      BY <3>1 DEF RunRecs
    <3> HIDE DEF new
    <3>. QED
      BY <3>1, <3>6, <3>7, <3>8 DEF OnlyRun
  <2>6. OnlyOut(r) /\ out'[r].text = text /\ out'[r].end = out[r].end
    <3>1. out \in [Requests -> OutRecs] /\ out[r] \in OutRecs /\ out[r].text \in Seq(Threads \X (1..MaxItems))
      BY <2>3, Sorts, OutFields
    <3>2. text \in Seq(Threads \X (1..MaxItems))
      <4>1. has => <<n[2], n[3]>> \in Threads \X (1..MaxItems)
        BY <2>3
      <4> HIDE DEF has
      <4>. QED
        BY <3>1, <4>1
    <3> HIDE DEF has, text
    <3>3. [out[r] EXCEPT !.text = text] \in OutRecs
      BY <3>1, <3>2, OutFields
    <3>4. CASE has
      BY <2>4, <3>1, <3>3, <3>4 DEF OnlyOut, OutRecs
    <3>5. CASE ~has
      BY <2>4, <3>1, <3>5 DEF OnlyOut, text
    <3>. QED
      BY <3>4, <3>5
  <2>7. /\ cancel' = cancel /\ activeTurns' = activeTurns /\ ledger' = ledger
        /\ threadToolAcl' = threadToolAcl /\ parkedTurns' = parkedTurns /\ answers' = answers
        /\ queue' = queue /\ waiters' = waiters
        /\ protocolFailed' = protocolFailed /\ lost' = lost /\ upstream' = upstream /\ evicted' = evicted
    BY <1>2, <2>2 DEF TakeText, PumpFrame, BeginFrame, server
  <2>8. waiters \in Seq(WaiterRecs) /\ queue \in Seq(Lines) /\ Len(queue) <= QueueLimit
    BY <2>3, Sorts
  <2>9. Waits'
    <3>1. ASSUME NEW u \in WaiterRecs, \E i \in DOMAIN waiters : waiters[i] = u PROVE Serves(u)'
      <4>1. u.by \in Requests /\ Serves(u) /\ u.kind \in {"note", "tool"}
        BY <2>3, <3>1 DEF Waits, WaiterRecs
      <4>2. CASE u.by # r
        BY <2>5, <2>7, <3>1, <4>1, <4>2, StillServes DEF OnlyRun
      <4>3. CASE u.by = r
        <5>1. u.kind = "note" => ~u.live
          BY <2>3, <4>1, <4>3, Promises DEF Serves
        <5>. QED
          BY <2>5, <2>7, <4>1, <4>3, <5>1 DEF Serves, Pumping, At, Tool, Note
      <4>. QED
        BY <4>2, <4>3
    <3>. QED
      BY <2>7, <2>8, <3>1, WithinItself, StillWaits
  <2>10. Proceeds(r)
    <3>1. Bounded(threadToolAcl)' /\ \A s : Contains(threadToolAcl, s)' => Contains(threadToolAcl, s)
      BY <2>7, SameBooks
    <3>2. Within(queue, queue)
      BY <2>8, WithinItself
    <3>. QED
      BY <2>3, <2>5, <2>6, <2>7, <2>8, <3>1, <3>2 DEF Proceeds, TakeText, PumpFrame, Pumping
  <2>11. Awaiting(r)'
    <3>1. Tool(r) = Waiting => Listens(r, "tool")'
      BY <2>3, <2>5, <2>7 DEF Awaiting, Listens, At, Waiter
    <3>2. Held(r) => Untouched(Asked(r))'
      BY <2>3, <2>5, <2>7, HeldCall DEF Untouched, Asked
    <3>3. /\ run'[r].tool = None <=> run'[r].acl = {}
          /\ run'[r].tool[1] = "call" => run'[r].tool[2] = At(r)' /\ run'[r].tool[3] <= upstream'[At(r)'].asked
      BY <2>3, <2>5, <2>7 DEF Awaiting, Held, Tool, At
    <3>. QED
      BY <2>5, <3>1, <3>2, <3>3, Promises DEF Awaiting, Note, Tool, Held
  <2> DEFINE old == out[r].text
  <2>12. /\ old \in Seq(Threads \X (1..MaxItems)) /\ \A i \in DOMAIN old : old[i][2] \in Nat
         /\ has => /\ Len(old) + 1 \in DOMAIN text /\ text[Len(old) + 1] = <<n[2], n[3]>>
                   /\ \A i \in DOMAIN old : i \in DOMAIN text /\ text[i] = old[i]
                   /\ \A i \in DOMAIN text : i \in DOMAIN old \/ i = Len(old) + 1
                   /\ \A i \in DOMAIN text : i \in Nat /\ i <= Len(old) + 1 /\ Len(old) + 1 \in Nat
         /\ ~has => text = old
    <3>1. old \in Seq(Threads \X (1..MaxItems))
      BY <2>3, Sorts, OutFields
    <3>2. has => <<n[2], n[3]>> \in Threads \X (1..MaxItems)
      BY <2>3
    <3>3. \A i \in DOMAIN old : old[i][2] \in Nat
      BY <3>1
    <3> HIDE DEF has, old
    <3>4. text = IF has THEN Append(old, <<n[2], n[3]>>) ELSE old
      BY DEF old
    <3> HIDE DEF text
    <3>5. CASE has
      <4>1. text = Append(old, <<n[2], n[3]>>)
        BY <3>4, <3>5
      <4>. QED
        BY <3>1, <3>2, <3>3, <3>5, <4>1, Appends
    <3>6. CASE ~has
      BY <3>1, <3>3, <3>4, <3>6
    <3>. QED
      BY <3>5, <3>6
  <2>13. \A i \in DOMAIN old : LET k == old[i][2] IN
           /\ old[i][1] = t /\ k \in run[r].seen /\ Past(t, k) /\ Later(t, k)
           /\ has => k < n[3]
    <3>1. ASSUME NEW i \in DOMAIN old
          PROVE  LET k == old[i][2] IN
                 /\ old[i][1] = t /\ k \in run[r].seen /\ Past(t, k) /\ Later(t, k)
                 /\ n[1] = "delta" => k < n[3]
                 /\ n[1] = "item" => k <= n[3]
      BY <2>1, <2>3, <3>1 DEF InOrder
    <3>2. has => n[1] = "delta" \/ (n[1] = "item" /\ n[3] \notin run[r].seen)
      BY <2>2 DEF HasText
    <3>3. has => n[3] \in Nat
      BY <2>3
    <3> HIDE DEF has
    <3>. QED
      BY <2>12, <3>1, <3>2, <3>3
  <2>14. has => Past(t, n[3]) /\ Later(t, n[3])
    BY <2>1, <2>3 DEF InOrder
  <2> HIDE DEF has, seen, text, old
  <2>15. \A i \in DOMAIN text : LET k == text[i][2] IN text[i][1] = t /\ k \in seen /\ Past(t, k) /\ Later(t, k)
    <3>1. CASE has
      BY <2>3, <2>12, <2>13, <2>14, <3>1 DEF seen
    <3>2. CASE ~has
      BY <2>12, <2>13, <3>2 DEF seen
    <3>. QED
      BY <3>1, <3>2
  <2>16. \A i, j \in DOMAIN text : i < j => text[i][2] < text[j][2]
    <3>1. \A i, j \in DOMAIN old : i < j => old[i][2] < old[j][2]
      BY <2>3 DEF InOrder, old
    <3>2. CASE has
      BY <2>12, <2>13, <3>1, <3>2
    <3>3. CASE ~has
      BY <2>12, <3>1, <3>3
    <3>. QED
      BY <3>2, <3>3
  <2>17. InOrder(r)'
    <3>1. \A k : (Past(t, k) => Past(t, k)') /\ (Later(t, k) => Later(t, k)')
      BY <2>7 DEF Past, Later
    <3>2. ASSUME NEW i \in DOMAIN text, NEW k, k = text[i][2]
          PROVE  k \in run'[r].seen /\ Past(t, k)' /\ Later(t, k)'
      BY <2>5, <2>15, <3>1, <3>2
    <3>3. \A i \in DOMAIN text : text[i][1] = t
      BY <2>15
    <3>4. At(r)' = t /\ Note(r)' = None /\ out'[r].text = text
      BY <2>1, <2>5, <2>6 DEF At, Note
    <3>. QED
      BY <2>5, <2>16, <3>2, <3>3, <3>4, Promises DEF InOrder
  <2>18. Plain(r) /\ ~Aborted(r) /\ r \notin evicted =>
           IF Note(r)'[1] = "done" THEN \A k \in upstream[r].said : Told(r, k)'
           ELSE r \in lost \/ protocolFailed \/ \A k \in upstream[r].said :
                  Told(r, k)' \/ Note(r)' = <<"delta", r, k>> \/ Queued(r, k)'
    <3>1. SUFFICES ASSUME Plain(r), ~Aborted(r), r \notin evicted, ~(r \in lost \/ protocolFailed),
                          NEW k \in upstream[r].said
                   PROVE  Told(r, k)' \/ Queued(r, k)'
      BY <2>5, Promises DEF Note
    <3>2. Told(r, k) \/ n = <<"delta", r, k>> \/ Queued(r, k)
      BY <2>3, <3>1 DEF Whole
    <3>3. Told(r, k) => Told(r, k)'
      <4>1. \A i \in DOMAIN old : i \in DOMAIN text /\ text[i] = old[i]
        BY <2>12
      <4>. QED
        BY <2>6, <4>1 DEF Told, old
    <3>4. Queued(r, k) => Queued(r, k)'
      BY <2>7 DEF Queued
    <3>5. ASSUME n = <<"delta", r, k>> PROVE Told(r, k)'
      <4>1. has /\ <<n[2], n[3]>> = <<r, k>>
        BY <3>5 DEF has, HasText
      <4>2. Len(old) + 1 \in DOMAIN text /\ text[Len(old) + 1] = <<r, k>>
        BY <2>12, <4>1
      <4>. QED
        BY <2>6, <4>2 DEF Told
    <3>. QED
      BY <3>2, <3>3, <3>4, <3>5
  <2>. QED
    BY <2>6, <2>9, <2>10, <2>11, <2>17, <2>18, KeepProceeds
<1>. QED
  BY <1>1, <1>2

-------------------------------------------------------------------------------
(* The steps that are not a pump's.                                        *)

(* A thread in a step that adds no line to the buffer.                     *)
Still(t) ==
  /\ Calm(t)
  /\ t \in lost' => t \in lost \/ \A i \in DOMAIN queue' : queue'[i][2] # t
  /\ At(t)' # t \/ run'[t].pc = "starting" => At(t) # t \/ run[t].pc = "starting"
  /\ upstream'[t].on => upstream[t].on \/ (At(t)' = t /\ run'[t].pc # "starting")
  /\ upstream'[t].asked # upstream[t].asked => upstream[t].on

LEMMA Keeps ==
  ASSUME IInv, Shapes', Waits', Within(queue', queue), Single' /\ \A c \in Calls : Counted(c)',
         \A t \in Threads : Still(t), Roads, Parks,
         \A q \in Requests : Steered(q)' /\ Allowed(q)',
         \A q \in Requests : Carried(q) \/ (Awaiting(q)' /\ InOrder(q)' /\ Whole(q)')
  PROVE  IInv'
<1>1. \A t \in Threads : Calm(t)
  BY DEF Still
<1>2. ASSUME NEW q \in Requests PROVE Awaiting(q)' /\ InOrder(q)' /\ Whole(q)'
  <2>1. ASSUME Carried(q) PROVE Awaiting(q)' /\ InOrder(q)' /\ Whole(q)'
    <3>1. Awaiting(q)' /\ InOrder(q)'
      BY <1>1, <2>1, Carries
    <3>2. Whole(q)'
      BY <1>1, <2>1, CarriesWhole
    <3>. QED
      BY <3>1, <3>2
  <2>. QED
    BY <2>1
<1>3. Buffers'
  <2>1. queue' \in Seq(Lines)
    BY DEF Shapes
  <2>. QED
    BY <1>1, <2>1, BuffersKept DEF Still
<1>4. \A t \in Threads : Speech(t)'
  BY SpeechKept DEF Still
<1>. QED
  BY <1>2, <1>3, <1>4 DEF IInv, Client

(* A step in which no call is parked.                                      *)
LEMMA NoneParked ==
  ASSUME IInv, \A c \in Calls : CallStep(c) /\ (ledger'[c] = "pending" => ledger[c] = "pending"),
         \A t \in Threads : upstream'[t].asked \in Nat /\ upstream'[t].asked >= upstream[t].asked
  PROVE  Single' /\ (\A c \in Calls : Counted(c)') /\ Parks
<1>1. Single' /\ (\A c \in Calls : Counted(c)')
  BY Counts
<1>. QED
  BY <1>1 DEF Parks

LEMMA SameUpstream ==
  ASSUME IInv
  PROVE  /\ \A t \in Threads : upstream[t].asked \in Nat
         /\ queue \in Seq(Lines) /\ Within(queue, queue) /\ waiters \in Seq(WaiterRecs)
<1>1. \A t \in Threads : upstream[t].asked \in Nat
  BY Basics, Sorts, UpFields, Constants
<1>2. queue \in Seq(Lines) /\ waiters \in Seq(WaiterRecs)
  BY Basics, Sorts
<1>. QED
  BY <1>1, <1>2, WithinItself

LEMMA KeepCallExpires ==
  ASSUME IInv, NEW c \in Calls, CallExpires(c)
  PROVE  IInv'
<1>1. /\ ledger' = [d \in Calls |-> IF d = c THEN "expired" ELSE ledger[d]] /\ ledger[c] = "pending"
      /\ run' = run /\ out' = out /\ cancel' = cancel /\ queue' = queue /\ waiters' = waiters
      /\ protocolFailed' = protocolFailed /\ activeTurns' = activeTurns /\ parkedTurns' = parkedTurns
      /\ threadToolAcl' = threadToolAcl /\ down' = down /\ lost' = lost /\ draining' = draining
      /\ upstream' = upstream /\ answers' = answers /\ evicted' = evicted
  BY DEF CallExpires, L!SettleSome, clientVars, books, server
<1>2. /\ Shapes /\ Waits /\ \A t \in Threads : upstream[t].asked \in Nat
      /\ queue \in Seq(Lines) /\ Within(queue, queue) /\ waiters \in Seq(WaiterRecs)
  BY Basics, SameUpstream
<1>3. Shapes'
  <2>1. ledger' \in [Calls -> L!Statuses]
    BY <1>1, <1>2, Sorts DEF L!Statuses, L!Fates
  <2>. QED
    BY <1>1, <1>2, <2>1 DEF Shapes, Bounded
<1>4. Waits'
  BY <1>1, <1>2 DEF Waits, Serves, Pumping, At, Note, Tool
<1>5. \A t \in Threads : Still(t)
  BY <1>1, <1>2 DEF Still, Calm, At
<1>6. Single' /\ (\A d \in Calls : Counted(d)') /\ Parks
  BY <1>1, <1>2, NoneParked DEF CallStep
<1>7. Roads
  BY <1>1 DEF Roads, At
<1>8. \A q \in Requests : Steered(q)' /\ Allowed(q)'
  <2>1. ASSUME NEW q \in Requests PROVE Moved(q)
    BY <1>1, <2>1, Basics DEF Moved, Active, Pumping, Steered, Note, Tool
  <2>. QED
    BY <1>1, <2>1, Onward DEF Contains
<1>9. ASSUME NEW q \in Requests PROVE Carried(q)
  <2>1. Pumping(q) /\ Held(q) => Untouched(Asked(q))' /\ Asked(q)[2] <= upstream'[At(q)].asked
    BY <1>1, HeldCall DEF Untouched, Asked
  <2>. QED
    BY <1>1, <2>1, SameCarried DEF Aborted
<1>. QED
  BY <1>1, <1>2, <1>3, <1>4, <1>5, <1>6, <1>7, <1>8, <1>9, Keeps

LEMMA KeepDisconnect ==
  ASSUME IInv, NEW r \in Requests, Disconnect(r)
  PROVE  IInv'
<1>1. /\ Active(r) /\ \A q \in Requests : (q # r => cancel'[q] = cancel[q])
      /\ cancel'[r] \in {"asked", "gone"} /\ cancel' \in [Requests -> {"no", "gone", "asked", "answered"}]
      /\ run' = run /\ out' = out /\ queue' = queue /\ waiters' = waiters
      /\ protocolFailed' = protocolFailed /\ activeTurns' = activeTurns /\ parkedTurns' = parkedTurns
      /\ threadToolAcl' = threadToolAcl /\ down' = down /\ lost' = lost /\ draining' = draining
      /\ upstream' = upstream /\ answers' = answers /\ evicted' = evicted /\ ledger' = ledger
  BY Basics, Sorts DEF Disconnect, RequestFrame, clientVars, Active
<1>2. /\ Shapes /\ Waits /\ \A t \in Threads : upstream[t].asked \in Nat
      /\ queue \in Seq(Lines) /\ Within(queue, queue) /\ waiters \in Seq(WaiterRecs)
  BY Basics, SameUpstream
<1>3. Shapes'
  BY <1>1, <1>2 DEF Shapes, Bounded
<1>4. Waits'
  BY <1>1, <1>2 DEF Waits, Serves, Pumping, At, Note, Tool
<1>5. \A t \in Threads : Still(t)
  BY <1>1, <1>2 DEF Still, Calm, At
<1>6. Single' /\ (\A d \in Calls : Counted(d)') /\ Parks
  BY <1>1, <1>2, NoneParked DEF CallStep
<1>7. Roads
  BY <1>1 DEF Roads, At
<1>8. ASSUME NEW q \in Requests PROVE Steered(q)' /\ Allowed(q)'
  <2>1. Steered(q) /\ Allowed(q) /\ Steered(r)
    BY Basics
  <2>2. Active(q) => \A p \in Requests : p # q /\ At(p) = At(q) => ~Active(p) /\ ~Aborted(p) /\ p # r
    BY <1>1, <2>1 DEF Steered, Alone
  <2>3. Active(q)' => Alone(q)'
    BY <1>1, <2>2 DEF Alone, Active, Aborted, At
  <2>4. Active(q) \/ Aborted(q)' => At(q) \in Threads /\ ~Parked(At(q))
    BY <1>1, <2>1 DEF Steered, Aborted
  <2>5. Parked(At(q))' <=> Parked(At(q))
    BY <1>1, Pending DEF Parked, At
  <2>6. run[q].pc = "idle" => run[q] = Fresh /\ cancel'[q] = "no"
    <3>1. q = r => run[q].pc # "idle"
      BY <1>1 DEF Active
    <3>. QED
      BY <1>1, <2>1, <3>1 DEF Steered
  <2>7. Steered(q)'
    BY <1>1, <2>1, <2>3, <2>4, <2>5, <2>6 DEF Steered, Active, Pumping, Note, Tool, At
  <2>8. Allowed(q)'
    BY <1>1, <2>1 DEF Allowed, Active, At, Declared, Contains
  <2>. QED
    BY <2>7, <2>8
<1>9. ASSUME NEW q \in Requests PROVE Carried(q)
  <2>1. Pumping(q) /\ Held(q) => Untouched(Asked(q))' /\ Asked(q)[2] <= upstream'[At(q)].asked
    BY <1>1, HeldCall DEF Untouched, Asked
  <2>2. Aborted(q) => Aborted(q)'
    BY <1>1 DEF Aborted
  <2>. QED
    BY <1>1, <2>1, <2>2, SameCarried
<1>. QED
  BY <1>1, <1>2, <1>3, <1>4, <1>5, <1>6, <1>7, <1>8, <1>9, Keeps

LEMMA KeepOpen ==
  ASSUME IInv, NEW r \in Requests, NEW names \in ToolSets, Open(r, names)
  PROVE  IInv'
<1>1. /\ run[r].pc = "idle" /\ r \in Threads
      /\ out' = out /\ queue' = queue /\ waiters' = waiters /\ cancel' = cancel /\ down' = FALSE
      /\ protocolFailed' = protocolFailed /\ activeTurns' = activeTurns /\ parkedTurns' = parkedTurns
      /\ threadToolAcl' = threadToolAcl /\ lost' = lost /\ draining' = draining
      /\ upstream' = upstream /\ answers' = answers /\ evicted' = evicted /\ ledger' = ledger
  BY DEF Open, Arrives, RequestFrame, clientVars, Threads
<1>2. /\ Shapes /\ Waits /\ \A t \in Threads : upstream[t].asked \in Nat
      /\ queue \in Seq(Lines) /\ Within(queue, queue) /\ waiters \in Seq(WaiterRecs)
      /\ Steered(r) /\ InOrder(r) /\ Speech(r)
  BY <1>1, Basics, SameUpstream
<1>3. run[r] = Fresh /\ cancel[r] = "no" /\ At(r) = Nobody /\ Nobody # r
      /\ ~Pumping(r) /\ ~Active(r) /\ ~Aborted(r)
  BY <1>1, <1>2, FreshFields, Constants DEF Steered, At, Pumping, Active, Aborted
<1>4. /\ OnlyRun(r) /\ run'[r].pc = "starting" /\ run'[r].at = r /\ run'[r].tools = names /\ run'[r].acl = names
      /\ run'[r].note = None /\ run'[r].tool = None /\ run'[r].first = "none"
  <2> DEFINE new == [[[[Fresh EXCEPT !.pc = "starting"] EXCEPT !.at = r] EXCEPT !.tools = names] EXCEPT !.acl = names]
  <2>0. run \in [Requests -> RunRecs] /\ r \in Threads \cup {Nobody} /\ names \in ToolSets \cup {{}}
    BY <1>1, <1>2, Sorts
  <2>1. [Fresh EXCEPT !.pc = "starting"] \in RunRecs
    BY FreshFields, RunFields
  <2>2. [[Fresh EXCEPT !.pc = "starting"] EXCEPT !.at = r] \in RunRecs
    BY <2>0, <2>1, RunFields
  <2>3. [[[Fresh EXCEPT !.pc = "starting"] EXCEPT !.at = r] EXCEPT !.tools = names] \in RunRecs
    BY <2>0, <2>2, RunFields
  <2>4. new \in RunRecs
    BY <2>0, <2>3, RunFields
  <2>5. run' = [run EXCEPT ![r] = new]
    BY DEF Open
  <2>6. /\ new.pc = "starting" /\ new.at = r /\ new.tools = names /\ new.acl = names
        /\ new.note = None /\ new.tool = None /\ new.first = "none"
    BY DEF Fresh
  <2> HIDE DEF new
  <2>. QED
    BY <2>0, <2>4, <2>5, <2>6 DEF OnlyRun
<1>5. Shapes'
  BY <1>1, <1>2, <1>4 DEF Shapes, Bounded, OnlyRun
<1>6. \A q \in Requests : q # r => run'[q] = run[q] /\ Steered(q) /\ Allowed(q) /\ At(q) # r
  <2>1. ASSUME NEW q \in Requests, q # r PROVE At(q) # r
    <3>1. At(q) \in Threads => At(At(q)) = At(q)
      BY Basics DEF Steered
    <3>. QED
      BY <1>1, <1>3, <3>1
  <2>. QED
    BY <1>4, <2>1, Basics DEF OnlyRun
<1>7. Waits'
  <2>1. ASSUME NEW u \in WaiterRecs, \E i \in DOMAIN waiters : waiters[i] = u PROVE Serves(u)'
    <3>1. u.by # r /\ u.by \in Requests
      BY <1>2, <1>3, <2>1 DEF Waits, Serves, WaiterRecs
    <3>. QED
      BY <1>1, <1>6, <2>1, <3>1, StillServes
  <2>. QED
    BY <1>1, <1>2, <2>1, WithinItself, StillWaits
<1>8. \A t \in Threads : Still(t)
  <2>1. ASSUME NEW t \in Threads PROVE Still(t)
    <3>1. CASE t = r
      BY <1>1, <1>2, <1>3, <3>1 DEF Still, Calm, Speech
    <3>2. CASE t # r
      <4>1. run'[t] = run[t]
        BY <1>6, <2>1, <3>2, Constants
      <4>. QED
        BY <1>1, <1>2, <4>1 DEF Still, Calm, At
    <3>. QED
      BY <3>1, <3>2
  <2>. QED
    BY <2>1
<1>9. Single' /\ (\A d \in Calls : Counted(d)') /\ Parks
  BY <1>1, <1>2, NoneParked DEF CallStep
<1>10. Roads
  BY <1>4, <1>6 DEF Roads, At
<1>11. ~Parked(r)
  <2>1. upstream[r].asked = 0
    BY <1>2, <1>3 DEF Speech
  <2>2. ASSUME NEW c \in Calls, c[1] = r PROVE ledger[c] = "unborn"
    <3>1. c[2] \in Nat /\ c[2] > 0
      BY <2>2, Constants
    <3>. QED
      BY <2>1, <2>2, <3>1, Basics DEF Counted, Untouched
  <2>. QED
    BY <2>2, Pending DEF Parked
<1>12. ASSUME NEW q \in Requests PROVE Steered(q)' /\ Allowed(q)'
  <2>1. CASE q = r
    <3>1. At(r)' = r /\ Active(r)' /\ ~Aborted(r)' /\ ~Pumping(r)' /\ r \notin activeTurns'
      BY <1>1, <1>2, <1>3, <1>4 DEF At, Active, Aborted, Pumping, Steered
    <3>2. Alone(r)'
      BY <1>6, <3>1 DEF Alone, At
    <3>3. ~Parked(r)'
      BY <1>1, <1>11, Pending DEF Parked
    <3>4. Steered(r)'
      BY <1>1, <1>4, <3>1, <3>2, <3>3 DEF Steered, Note, Tool
    <3>. QED
      BY <1>4, <2>1, <3>1, <3>4 DEF Allowed, Declared, At
  <2>2. CASE q # r
    <3>1. run'[q] = run[q] /\ Steered(q) /\ Allowed(q) /\ At(q) # r
      BY <1>6, <2>2
    <3>2. Alone(q) => Alone(q)'
      BY <1>1, <1>4, <1>6, <2>2, <3>1 DEF Alone, Active, Aborted, At
    <3>3. At(q) \in Threads => run'[At(q)] = run[At(q)]
      BY <1>6, <3>1, Constants
    <3>4. Parked(At(q))' <=> Parked(At(q))
      BY <1>1, <3>1, Pending DEF Parked, At
    <3>5. Steered(q)'
      BY <1>1, <3>1, <3>2, <3>3, <3>4 DEF Steered, Active, Aborted, Pumping, Note, Tool, At
    <3>6. Allowed(q)'
      BY <1>1, <3>1, <3>3 DEF Allowed, Active, At, Declared, Contains, Steered
    <3>. QED
      BY <3>5, <3>6
  <2>. QED
    BY <2>1, <2>2
<1>13. ASSUME NEW q \in Requests PROVE Carried(q) \/ (Awaiting(q)' /\ InOrder(q)' /\ Whole(q)')
  <2>1. CASE q = r
    <3>1. Awaiting(r)' /\ InOrder(r)'
      BY <1>1, <1>2, <1>4, Promises DEF Awaiting, InOrder, Pumping, Note
    <3>2. Whole(r)'
      <4>1. ~Parked(r)' /\ \A p \in Requests : At(p)' = r => p = r
        BY <1>1, <1>6, <1>11, Pending DEF Parked, At
      <4>2. out'[r].end = "none"
        BY <1>1, <1>2 DEF InOrder
      <4>. QED
        BY <1>4, <4>1, <4>2 DEF Whole
    <3>. QED
      BY <2>1, <3>1, <3>2
  <2>2. CASE q # r
    <3>1. Pumping(q) /\ Held(q) => Untouched(Asked(q))' /\ Asked(q)[2] <= upstream'[At(q)].asked
      BY <1>1, <1>6, <2>2, HeldCall DEF Untouched, Asked
    <3>2. run'[q] = run[q] /\ (Aborted(q) => Aborted(q)')
      BY <1>1, <1>6, <2>2 DEF Aborted
    <3>. QED
      BY <1>1, <3>1, <3>2, SameCarried
  <2>. QED
    BY <2>1, <2>2
<1>. QED
  BY <1>1, <1>2, <1>5, <1>7, <1>8, <1>9, <1>10, <1>12, <1>13, Keeps

LEMMA KeepContinue ==
  ASSUME IInv, NEW r \in Requests, NEW c \in Calls, NEW names \in ToolSets, Continue(r, c, names)
  PROVE  IInv'
<1> DEFINE t == c[1]  acl == AcceptedTools(t, names)
<1>1. /\ run[r].pc = "idle" /\ c \in L!Pending /\ ledger' = [d \in Calls |-> IF d = c THEN "resolved" ELSE ledger[d]]
      /\ answers' = [answers EXCEPT ![c] = @ + 1] /\ parkedTurns' = ParkedWithout(t)
      /\ out' = out /\ queue' = queue /\ waiters' = waiters /\ cancel' = cancel /\ down' = FALSE
      /\ protocolFailed' = protocolFailed /\ activeTurns' = activeTurns
      /\ threadToolAcl' = threadToolAcl /\ lost' = lost /\ draining' \in BOOLEAN
      /\ upstream' = upstream /\ evicted' = evicted
  BY DEF Continue, Arrives, RequestFrame, clientVars, Claim, L!SettleSome, PumpsRun
<1>2. /\ Shapes /\ Waits /\ \A s \in Threads : upstream[s].asked \in Nat
      /\ queue \in Seq(Lines) /\ Within(queue, queue) /\ waiters \in Seq(WaiterRecs)
      /\ Steered(r) /\ InOrder(r) /\ t \in Threads /\ Counted(c) /\ Speech(t) /\ Single
  BY Basics, SameUpstream, Constants
<1>3. /\ run[r] = Fresh /\ cancel[r] = "no" /\ At(r) = Nobody /\ Nobody # t
      /\ ~Pumping(r) /\ ~Active(r) /\ ~Aborted(r)
  BY <1>1, <1>2, FreshFields, Constants DEF Steered, At, Pumping, Active, Aborted
<1>4. At(t) = t /\ run[t].pc # "starting" /\ t # r /\ Parked(t) /\ ledger[c] = "pending"
  <2>1. ledger[c] = "pending" /\ Parked(t)
    BY <1>1, Pending DEF Parked
  <2>2. upstream[t].asked # 0
    <3>1. c[2] \in Nat /\ c[2] # 0
      BY Constants
    <3>2. ~(c[2] > upstream[t].asked)
      BY <1>2, <2>1 DEF Counted, Untouched
    <3>. QED
      BY <1>2, <3>1, <3>2
  <2>. QED
    BY <1>2, <1>3, <2>1, <2>2 DEF Speech
<1>5. acl \in ToolSets \cup {{}} /\ (Contains(threadToolAcl, t) => acl = run[t].tools)
  <2>1. run[t] \in RunRecs
    BY <1>2, Sorts, Constants
  <2>. QED
    BY <2>1, RunFields DEF AcceptedTools, Declared
<1>6. /\ OnlyRun(r) /\ run'[r].pc = "begin" /\ run'[r].at = t /\ run'[r].tools = names /\ run'[r].acl = acl
      /\ run'[r].note = None /\ run'[r].tool = None /\ run'[r].first = "none"
  <2> HIDE DEF acl
  <2> DEFINE new == [[[[Fresh EXCEPT !.pc = "begin"] EXCEPT !.at = t] EXCEPT !.tools = names] EXCEPT !.acl = acl]
  <2>0. run \in [Requests -> RunRecs] /\ t \in Threads \cup {Nobody} /\ names \in ToolSets \cup {{}}
    BY <1>2, Sorts
  <2>1. [Fresh EXCEPT !.pc = "begin"] \in RunRecs
    BY FreshFields, RunFields
  <2>2. [[Fresh EXCEPT !.pc = "begin"] EXCEPT !.at = t] \in RunRecs
    BY <2>0, <2>1, RunFields
  <2>3. [[[Fresh EXCEPT !.pc = "begin"] EXCEPT !.at = t] EXCEPT !.tools = names] \in RunRecs
    BY <2>0, <2>2, RunFields
  <2>4. new \in RunRecs
    BY <1>5, <2>3, RunFields
  <2>5. run' = [run EXCEPT ![r] = new]
    BY DEF Continue, acl
  <2>6. /\ new.pc = "begin" /\ new.at = t /\ new.tools = names /\ new.acl = acl
        /\ new.note = None /\ new.tool = None /\ new.first = "none"
    BY DEF Fresh
  <2> HIDE DEF new
  <2>. QED
    BY <2>0, <2>4, <2>5, <2>6 DEF OnlyRun
<1>7. /\ ledger' \in [Calls -> L!Statuses] /\ answers' \in [Calls -> Nat]
      /\ ledger'[c] = "resolved" /\ answers'[c] = answers[c] + 1
      /\ \A d \in Calls : d # c => ledger'[d] = ledger[d] /\ answers'[d] = answers[d]
  BY <1>1, <1>2, Sorts DEF L!Statuses, L!Fates
<1>8. Shapes'
  <2>1. Bounded(parkedTurns)'
    <3>1. Bounded(parkedTurns)
      BY <1>2, Sorts
    <3>2. Bounded(Without(parkedTurns, {q \in Requests : At(q) = t}))
      BY <3>1, Forgets
    <3>3. parkedTurns' = Without(parkedTurns, {q \in Requests : At(q) = t})
      BY <1>1 DEF ParkedWithout
    <3>. QED
      BY <3>2, <3>3 DEF Bounded
  <2>. QED
    BY <1>1, <1>2, <1>6, <1>7, <2>1 DEF Shapes, Bounded, OnlyRun
<1>9. \A q \in Requests : q # r => run'[q] = run[q] /\ Steered(q) /\ Allowed(q) /\
                                   (At(q) = t => ~Active(q) /\ ~Aborted(q))
  BY <1>4, <1>6, Basics DEF OnlyRun, Steered
<1>10. Waits'
  <2>1. ASSUME NEW u \in WaiterRecs, \E i \in DOMAIN waiters : waiters[i] = u PROVE Serves(u)'
    <3>1. u.by # r /\ u.by \in Requests
      BY <1>2, <1>3, <2>1 DEF Waits, Serves, WaiterRecs
    <3>. QED
      BY <1>1, <1>9, <2>1, <3>1, StillServes
  <2>. QED
    BY <1>1, <1>2, <2>1, WithinItself, StillWaits
<1>11. \A s \in Threads : Still(s)
  <2>1. ASSUME NEW s \in Threads PROVE Still(s)
    <3>1. CASE s = r
      <4>1. At(s) # s /\ s \in Requests
        BY <1>3, <2>1, <3>1, Constants
      <4>2. Speech(s)
        BY Basics
      <4>. QED
        BY <1>1, <1>2, <4>1, <4>2 DEF Still, Calm, Speech
    <3>2. CASE s # r
      <4>1. run'[s] = run[s]
        BY <1>9, <2>1, <3>2, Constants
      <4>. QED
        BY <1>1, <1>2, <4>1 DEF Still, Calm, At
    <3>. QED
      BY <3>1, <3>2
  <2>. QED
    BY <2>1
<1>12. Single' /\ (\A d \in Calls : Counted(d)') /\ Parks
  <2>1. \A d \in Calls : CallStep(d) /\ (ledger'[d] = "pending" => ledger[d] = "pending")
    BY <1>4, <1>7 DEF CallStep
  <2>. QED
    BY <1>1, <1>2, <2>1, NoneParked
<1>13. ASSUME NEW p \in Requests PROVE At(p)' = At(p) \/ (p = r /\ At(p)' = t)
  BY <1>6, <1>9 DEF At
<1>14. \A q \in Requests : At(q)' = t => Parked(t)
  BY <1>4
<1>15. Roads
  BY <1>4, <1>13 DEF Roads, Parked
<1>16. ~Parked(t)'
  <2>1. ASSUME NEW d \in Calls, ledger'[d] = "pending", d[1] = t PROVE FALSE
    <3>1. d # c /\ ledger[d] = "pending"
      BY <1>7, <2>1
    <3>. QED
      BY <1>1, <1>2, <2>1, <3>1, Pending DEF Single
  <2>. QED
    BY <2>1, Pending DEF Parked
<1>17. ASSUME NEW q \in Requests PROVE Steered(q)' /\ Allowed(q)'
  <2>1. CASE q = r
    <3>1. At(r)' = t /\ Active(r)' /\ ~Aborted(r)' /\ ~Pumping(r)' /\ r \notin activeTurns'
      BY <1>1, <1>2, <1>3, <1>6 DEF At, Active, Aborted, Pumping, Steered
    <3>2. Alone(r)'
      BY <1>1, <1>9, <3>1 DEF Alone, At, Active, Aborted
    <3>3. At(t)' = t /\ run'[t] = run[t]
      BY <1>2, <1>4, <1>9, Constants DEF At
    <3>4. Steered(r)'
      BY <1>2, <1>6, <1>16, <3>1, <3>2, <3>3 DEF Steered, Note, Tool
    <3>5. Allowed(r)'
      BY <1>1, <1>4, <1>5, <1>6, <3>1, <3>3 DEF Allowed, Declared, Contains
    <3>. QED
      BY <2>1, <3>4, <3>5
  <2>2. CASE q # r
    <3>1. run'[q] = run[q] /\ Steered(q) /\ Allowed(q) /\ (At(q) = t => ~Active(q) /\ ~Aborted(q))
      BY <1>9, <2>2
    <3>2. Active(q) /\ Alone(q) => Alone(q)'
      BY <1>1, <1>6, <1>9, <2>2, <3>1 DEF Alone, Active, Aborted, At
    <3>3. At(q) \in Threads => At(At(q)) = At(q) /\ At(q) # r
      <4>1. At(q) \in Threads => At(At(q)) = At(q)
        BY <3>1 DEF Steered
      <4>. QED
        BY <1>3, <4>1, Constants
    <3>4. At(q) \in Threads => run'[At(q)] = run[At(q)]
      BY <1>9, <3>3, Constants
    <3>5. Parked(At(q))' => Parked(At(q))
      BY <1>7, <3>1, Pending DEF Parked, At
    <3>6. Steered(q)'
      BY <1>1, <3>1, <3>2, <3>3, <3>4, <3>5 DEF Steered, Active, Aborted, Pumping, Note, Tool, At
    <3>7. Allowed(q)'
      BY <1>1, <3>1, <3>4 DEF Allowed, Active, At, Declared, Contains, Steered
    <3>. QED
      BY <3>6, <3>7
  <2>. QED
    BY <2>1, <2>2
<1>18. ASSUME NEW q \in Requests PROVE Carried(q) \/ (Awaiting(q)' /\ InOrder(q)' /\ Whole(q)')
  <2>1. CASE q = r
    <3>1. Awaiting(r)' /\ InOrder(r)'
      BY <1>1, <1>2, <1>6, Promises DEF Awaiting, InOrder, Pumping, Note
    <3>2. Whole(r)'
      BY <1>4, <1>6 DEF Whole, Plain, At
    <3>. QED
      BY <2>1, <3>1, <3>2
  <2>2. CASE q # r
    <3>1. Pumping(q) /\ Held(q) => Untouched(Asked(q))' /\ Asked(q)[2] <= upstream'[At(q)].asked
      <4>1. SUFFICES ASSUME Pumping(q), Held(q)
                     PROVE  Untouched(Asked(q))' /\ Asked(q)[2] <= upstream'[At(q)].asked
        OBVIOUS
      <4>2. Asked(q) \in Calls /\ Untouched(Asked(q)) /\ Asked(q)[2] <= upstream[At(q)].asked
        BY <4>1, HeldCall
      <4>3. Asked(q) # c /\ Asked(q)' = Asked(q)
        BY <1>4, <1>9, <2>2, <4>2 DEF Untouched, Asked
      <4>. QED
        BY <1>1, <1>7, <4>2, <4>3 DEF Untouched
    <3>2. run'[q] = run[q] /\ (Aborted(q) => Aborted(q)')
      BY <1>1, <1>9, <2>2 DEF Aborted
    <3>. QED
      BY <1>1, <3>1, <3>2, SameCarried
  <2>. QED
    BY <2>1, <2>2
<1>. QED
  BY <1>1, <1>2, <1>8, <1>10, <1>11, <1>12, <1>15, <1>17, <1>18, Keeps

(* A step of a request that is not pumping before or after it.             *)
LEMMA KeepTurns ==
  ASSUME IInv, NEW r \in Requests, OnlyRun(r), OnlyOut(r), ~Pumping(r), ~Pumping(r)', Moved(r),
         UNCHANGED <<queue, waiters, ledger, answers, protocolFailed, lost, evicted, activeTurns,
                     parkedTurns, threadToolAcl, cancel>>,
         down' \in BOOLEAN, draining' \in BOOLEAN,
         upstream' \in [Threads -> UpRecs], \A t \in Threads : Still(t),
         InOrder(r)', Plain(r)' => Whole(r)'
  PROVE  IInv'
<1>1. /\ Shapes /\ Waits /\ \A t \in Threads : upstream[t].asked \in Nat
      /\ queue \in Seq(Lines) /\ Within(queue, queue) /\ waiters \in Seq(WaiterRecs)
  BY Basics, SameUpstream
<1>2. Shapes'
  BY <1>1 DEF Shapes, Bounded, OnlyRun, OnlyOut
<1>3. \A q \in Requests : q # r => run'[q] = run[q] /\ out'[q] = out[q]
  BY DEF OnlyRun, OnlyOut
<1>4. Waits'
  <2>1. ASSUME NEW u \in WaiterRecs, \E i \in DOMAIN waiters : waiters[i] = u PROVE Serves(u)'
    <3>1. u.by # r /\ u.by \in Requests
      BY <1>1, <2>1 DEF Waits, Serves, WaiterRecs
    <3>. QED
      BY <1>3, <2>1, <3>1, StillServes
  <2>. QED
    BY <1>1, <2>1, WithinItself, StillWaits
<1>5. \A q \in Requests : Moved(q)
  <2>1. ASSUME NEW q \in Requests, q # r PROVE Moved(q)
    BY <1>3, <2>1, Basics DEF Moved, Active, Pumping, Steered, Note, Tool
  <2>. QED
    BY <2>1
<1>6. \A t \in Threads : upstream'[t].asked \in Nat /\ upstream'[t].asked >= upstream[t].asked
  BY DEF Still, Calm
<1>7. Single' /\ (\A d \in Calls : Counted(d)') /\ Parks
  BY <1>6, NoneParked DEF CallStep
<1>8. Roads
  BY <1>5 DEF Roads, Moved, At
<1>9. \A q \in Requests : Steered(q)' /\ Allowed(q)'
  BY <1>5, Onward DEF Contains
<1>10. ASSUME NEW q \in Requests PROVE Carried(q) \/ (Awaiting(q)' /\ InOrder(q)' /\ Whole(q)')
  <2>1. CASE q = r
    BY <2>1 DEF Awaiting, Whole
  <2>2. CASE q # r
    <3>1. Pumping(q) /\ Held(q) => Untouched(Asked(q))' /\ Asked(q)[2] <= upstream'[At(q)].asked
      <4>1. SUFFICES ASSUME Pumping(q), Held(q)
                     PROVE  Untouched(Asked(q))' /\ Asked(q)[2] <= upstream'[At(q)].asked
        OBVIOUS
      <4>2. /\ Asked(q) \in Calls /\ Untouched(Asked(q)) /\ Asked(q)[2] <= upstream[At(q)].asked
            /\ Asked(q)[1] = At(q)
        BY <4>1, HeldCall
      <4>3. Asked(q)' = Asked(q) /\ Asked(q)[2] \in Nat /\ At(q) \in Threads
        BY <1>3, <2>2, <4>2, Constants DEF Asked
      <4>. QED
        BY <1>1, <1>6, <4>2, <4>3 DEF Untouched
    <3>2. run'[q] = run[q] /\ (Aborted(q) => Aborted(q)')
      BY <1>3, <2>2 DEF Aborted
    <3>. QED
      BY <1>3, <2>2, <3>1, <3>2, SameCarried
  <2>. QED
    BY <2>1, <2>2
<1>. QED
  BY <1>1, <1>2, <1>4, <1>7, <1>8, <1>9, <1>10, Keeps

LEMMA KeepContinueUnmatched ==
  ASSUME IInv, NEW r \in Requests, ContinueUnmatched(r)
  PROVE  IInv'
<1>1. /\ run[r].pc = "idle" /\ run' = [run EXCEPT ![r] = [Fresh EXCEPT !.pc = "done"]]
      /\ out' = [out EXCEPT ![r].end = "error"] /\ down' = FALSE /\ draining' = draining
      /\ UNCHANGED <<queue, waiters, ledger, answers, protocolFailed, lost, evicted, activeTurns,
                     parkedTurns, threadToolAcl, cancel, upstream>>
  BY DEF ContinueUnmatched, Arrives, RequestFrame, clientVars
<1>2. /\ Shapes /\ Steered(r) /\ InOrder(r) /\ run \in [Requests -> RunRecs] /\ out \in [Requests -> OutRecs]
      /\ upstream \in [Threads -> UpRecs] /\ \A t \in Threads : upstream[t].asked \in Nat
  BY Basics, Sorts, SameUpstream
<1>3. run[r] = Fresh /\ out[r].text = <<>> /\ ~Pumping(r)
  BY <1>1, <1>2 DEF Steered, InOrder, Pumping
<1>4. /\ OnlyRun(r) /\ run'[r].pc = "done" /\ run'[r].at = Nobody /\ run'[r].tools = {}
      /\ run'[r].note = None /\ run'[r].tool = None /\ run'[r].first = "none"
  <2>1. [Fresh EXCEPT !.pc = "done"] \in RunRecs
    BY FreshFields, RunFields
  <2>. QED
    BY <1>1, <1>2, <2>1 DEF OnlyRun, Fresh
<1>5. OnlyOut(r) /\ out'[r].text = <<>>
  <2>1. [out[r] EXCEPT !.end = "error"] \in OutRecs /\ out[r] \in OutRecs
    BY <1>2, OutFields
  <2>. QED
    BY <1>1, <1>2, <1>3, <2>1 DEF OnlyOut, OutRecs
<1>6. Moved(r) /\ ~Pumping(r)'
  BY <1>1, <1>2, <1>3, <1>4, FreshFields DEF Moved, Active, Pumping, Steered
<1>7. \A t \in Threads : Still(t)
  <2>1. \A t \in Threads : run'[t].pc = "starting" => run[t].pc = "starting"
    BY <1>4, Constants DEF OnlyRun
  <2>2. \A t \in Threads : At(t)' = At(t)
    BY <1>3, <1>4, FreshFields, Constants DEF OnlyRun, At
  <2>. QED
    BY <1>1, <1>2, <2>1, <2>2 DEF Still, Calm
<1>8. InOrder(r)'
  BY <1>4, <1>5, <1>6, Promises DEF InOrder, Note
<1>9. ~Plain(r)'
  BY <1>4, Constants DEF Plain, At
<1>10. UNCHANGED <<queue, waiters, ledger, answers, protocolFailed, lost, evicted, activeTurns,
                     parkedTurns, threadToolAcl, cancel>> /\ upstream' = upstream
  BY <1>1
<1>11. down' \in BOOLEAN /\ draining' \in BOOLEAN
  BY <1>1, <1>2 DEF Shapes
<1>. QED
  BY <1>2, <1>3, <1>4, <1>5, <1>6, <1>7, <1>8, <1>9, <1>10, <1>11, KeepTurns

(* The answer to turn/start.                                               *)
LEMMA StartingRequest ==
  ASSUME IInv, NEW r \in Threads, Starting(r)
  PROVE  /\ r \in Requests /\ At(r) = r /\ ~Pumping(r) /\ Active(r)
         /\ Note(r) = None /\ Tool(r) = None /\ run[r].first = "none" /\ r \notin activeTurns
         /\ out[r].text = <<>> /\ out[r].end = "none" /\ upstream[r].said = {}
<1>1. r \in Requests /\ run[r].pc = "starting"
  BY Constants DEF Starting
<1>2. Steered(r) /\ InOrder(r) /\ Speech(r)
  BY <1>1, Basics
<1>. QED
  BY <1>1, <1>2 DEF Steered, InOrder, Speech, Pumping, Active

LEMMA KeepReceiveStarted ==
  ASSUME IInv, NEW r \in Threads, ReceiveStarted(r)
  PROVE  IInv'
<1>1. /\ run[r].pc = "starting" /\ run' = [run EXCEPT ![r].pc = "begin"]
      /\ upstream' = [upstream EXCEPT ![r].on = TRUE] /\ Starting(r)
      /\ UNCHANGED <<queue, waiters, ledger, answers, protocolFailed, lost, evicted, activeTurns,
                     parkedTurns, threadToolAcl, cancel, out, down, draining>>
  BY DEF ReceiveStarted, Starting, LineFrame, clientVars, books, server
<1>2. /\ Shapes /\ run \in [Requests -> RunRecs] /\ out \in [Requests -> OutRecs]
      /\ upstream \in [Threads -> UpRecs] /\ \A t \in Threads : upstream[t].asked \in Nat
  BY Basics, Sorts, SameUpstream
<1>3. /\ r \in Requests /\ At(r) = r /\ ~Pumping(r) /\ Active(r)
      /\ Note(r) = None /\ Tool(r) = None /\ run[r].first = "none" /\ r \notin activeTurns
      /\ out[r].text = <<>> /\ out[r].end = "none" /\ upstream[r].said = {}
      /\ Steered(r) /\ Whole(r)
  BY <1>1, StartingRequest, Basics
<1>4. /\ OnlyRun(r) /\ run'[r].pc = "begin" /\ run'[r].at = run[r].at /\ run'[r].tools = run[r].tools
      /\ run'[r].acl = run[r].acl
      /\ run'[r].note = None /\ run'[r].tool = None /\ run'[r].first = "none"
  <2>1. [run[r] EXCEPT !.pc = "begin"] \in RunRecs /\ run[r] \in RunRecs
    BY <1>2, <1>3, RunFields
  <2>. QED
    BY <1>1, <1>2, <1>3, <2>1 DEF OnlyRun, RunRecs, Note, Tool
<1>5. OnlyOut(r)
  BY <1>1, <1>2 DEF OnlyOut
<1>6. Moved(r) /\ ~Pumping(r)'
  BY <1>1, <1>3, <1>4 DEF Moved, Active, Pumping
<1>7. /\ upstream' \in [Threads -> UpRecs] /\ upstream'[r].said = upstream[r].said
      /\ \A t \in Threads : /\ upstream'[t].items = upstream[t].items /\ upstream'[t].said = upstream[t].said
                            /\ upstream'[t].asked = upstream[t].asked
                            /\ t # r => upstream'[t].on = upstream[t].on
  <2>1. [upstream[r] EXCEPT !.on = TRUE] \in UpRecs /\ upstream[r] \in UpRecs
    BY <1>2, UpFields
  <2>. QED
    BY <1>1, <1>2, <2>1 DEF UpRecs
<1>8. \A t \in Threads : Still(t)
  <2>1. \A t \in Threads : run'[t].pc = "starting" => run[t].pc = "starting"
    BY <1>4, Constants DEF OnlyRun
  <2>2. \A t \in Threads : At(t)' = At(t)
    BY <1>4, Constants DEF OnlyRun, At
  <2>. QED
    BY <1>1, <1>2, <1>3, <1>4, <1>7, <2>1, <2>2 DEF Still, Calm
<1>9. InOrder(r)'
  BY <1>1, <1>3, <1>4, <1>6, Promises DEF InOrder, Note
<1>10. Whole(r)'
  <2>1. SUFFICES ASSUME Plain(r)' PROVE Whole(r)'
    BY DEF Whole
  <2>2. Whole(r) /\ Plain(r)
    BY <1>3, <1>4, <2>1 DEF Plain, Declared, At
  <2>3. ~Parked(r)' /\ \A p \in Requests : At(p)' = r => p = r
    BY <1>1, <1>4, <2>2, Pending DEF Whole, Parked, At, OnlyRun
  <2>. QED
    BY <1>1, <1>3, <1>4, <1>7, <2>3, Promises DEF Whole, Note
<1>11. UNCHANGED <<queue, waiters, ledger, answers, protocolFailed, lost, evicted, activeTurns,
                     parkedTurns, threadToolAcl, cancel>>
  BY <1>1
<1>12. down' \in BOOLEAN /\ draining' \in BOOLEAN
  BY <1>1, <1>2 DEF Shapes
<1>. QED
  BY <1>3, <1>4, <1>5, <1>6, <1>7, <1>8, <1>9, <1>10, <1>11, <1>12, KeepTurns

LEMMA KeepReceiveRefusal ==
  ASSUME IInv, NEW r \in Threads, ReceiveRefusal(r)
  PROVE  IInv'
<1>1. /\ run[r].pc = "starting" /\ run' = [run EXCEPT ![r].pc = "done"]
      /\ out' = [out EXCEPT ![r] = FailedStart(r)] /\ Starting(r)
      /\ UNCHANGED <<queue, waiters, ledger, answers, protocolFailed, lost, evicted, activeTurns,
                     parkedTurns, threadToolAcl, cancel, upstream, down, draining>>
  BY DEF ReceiveRefusal, Starting, LineFrame, clientVars, books, server
<1>2. /\ Shapes /\ run \in [Requests -> RunRecs] /\ out \in [Requests -> OutRecs]
      /\ upstream \in [Threads -> UpRecs] /\ \A t \in Threads : upstream[t].asked \in Nat
  BY Basics, Sorts, SameUpstream
<1>3. /\ r \in Requests /\ At(r) = r /\ ~Pumping(r) /\ Active(r)
      /\ Note(r) = None /\ Tool(r) = None /\ run[r].first = "none" /\ r \notin activeTurns
      /\ out[r].text = <<>> /\ out[r].end = "none" /\ upstream[r].said = {}
      /\ Steered(r) /\ Whole(r)
  BY <1>1, StartingRequest, Basics
<1>4. /\ OnlyRun(r) /\ run'[r].pc = "done" /\ run'[r].at = run[r].at /\ run'[r].tools = run[r].tools
      /\ run'[r].note = None /\ run'[r].tool = None /\ run'[r].first = "none"
  <2>1. [run[r] EXCEPT !.pc = "done"] \in RunRecs /\ run[r] \in RunRecs
    BY <1>2, <1>3, RunFields
  <2>. QED
    BY <1>1, <1>2, <1>3, <2>1 DEF OnlyRun, RunRecs, Note, Tool
<1>5. OnlyOut(r) /\ out'[r].text = <<>> /\ out'[r].end \in {"silent", "error"}
  <2>1. FailedStart(r) \in OutRecs /\ out[r] \in OutRecs
    BY <1>2, <1>3, OutFields DEF FailedStart
  <2>2. FailedStart(r).text = out[r].text /\ FailedStart(r).end \in {"silent", "error"}
    BY <2>1 DEF FailedStart, OutRecs
  <2>. QED
    BY <1>1, <1>2, <1>3, <2>1, <2>2 DEF OnlyOut
<1>6. Moved(r) /\ ~Pumping(r)'
  BY <1>1, <1>3, <1>4 DEF Moved, Active, Pumping
<1>8. \A t \in Threads : Still(t)
  <2>1. \A t \in Threads : run'[t].pc = "starting" => run[t].pc = "starting"
    BY <1>4, Constants DEF OnlyRun
  <2>2. \A t \in Threads : At(t)' = At(t)
    BY <1>4, Constants DEF OnlyRun, At
  <2>. QED
    BY <1>1, <1>2, <1>3, <1>4, <2>1, <2>2 DEF Still, Calm
<1>9. InOrder(r)'
  BY <1>1, <1>3, <1>4, <1>5, <1>6, Promises DEF InOrder, Note
<1>10. Whole(r)'
  <2>1. SUFFICES ASSUME Plain(r)' PROVE Whole(r)'
    BY DEF Whole
  <2>2. Whole(r) /\ Plain(r)
    BY <1>3, <1>4, <2>1 DEF Plain, Declared, At
  <2>3. ~Parked(r)' /\ \A p \in Requests : At(p)' = r => p = r
    BY <1>1, <1>4, <2>2, Pending DEF Whole, Parked, At, OnlyRun
  <2>4. ~Active(r)' /\ out'[r].end # "completed"
    BY <1>4, <1>5 DEF Active
  <2>. QED
    BY <2>3, <2>4 DEF Whole
<1>11. UNCHANGED <<queue, waiters, ledger, answers, protocolFailed, lost, evicted, activeTurns,
                     parkedTurns, threadToolAcl, cancel>> /\ upstream' = upstream
  BY <1>1
<1>12. down' \in BOOLEAN /\ draining' \in BOOLEAN
  BY <1>1, <1>2 DEF Shapes
<1>. QED
  BY <1>2, <1>3, <1>4, <1>5, <1>6, <1>8, <1>9, <1>10, <1>11, <1>12, KeepTurns

LEMMA KeepReceiveInterrupted ==
  ASSUME IInv, NEW r \in Requests, ReceiveInterrupted(r)
  PROVE  IInv'
<1> DEFINE t == At(r)
<1>1. /\ cancel[r] = "asked" /\ cancel' = [cancel EXCEPT ![r] = "answered"]
      /\ upstream' = [upstream EXCEPT ![t].on = FALSE]
      /\ UNCHANGED <<queue, waiters, ledger, answers, protocolFailed, lost, evicted, activeTurns,
                     parkedTurns, threadToolAcl, run, out, down, draining>>
  BY DEF ReceiveInterrupted, LineFrame, clientVars, books, server
<1>2. /\ Shapes /\ Waits /\ \A s \in Threads : upstream[s].asked \in Nat
      /\ queue \in Seq(Lines) /\ Within(queue, queue) /\ waiters \in Seq(WaiterRecs)
      /\ cancel \in [Requests -> {"no", "gone", "asked", "answered"}]
      /\ upstream \in [Threads -> UpRecs] /\ t \in Threads
  BY <1>1, Basics, Sorts, SameUpstream DEF Steered, Aborted
<1>3. /\ cancel' \in [Requests -> {"no", "gone", "asked", "answered"}]
      /\ \A q \in Requests : cancel'[q] = "no" <=> cancel[q] = "no"
  BY <1>1, <1>2
<1>4. /\ upstream' \in [Threads -> UpRecs]
      /\ \A s \in Threads : /\ upstream'[s].items = upstream[s].items /\ upstream'[s].said = upstream[s].said
                            /\ upstream'[s].asked = upstream[s].asked
                            /\ upstream'[s].on => upstream[s].on
  <2>1. [upstream[t] EXCEPT !.on = FALSE] \in UpRecs /\ upstream[t] \in UpRecs
    BY <1>2, UpFields
  <2>. QED
    BY <1>1, <1>2, <2>1 DEF UpRecs
<1>5. Shapes'
  BY <1>1, <1>2, <1>3, <1>4 DEF Shapes, Bounded
<1>6. Waits'
  BY <1>1, <1>2 DEF Waits, Serves, Pumping, At, Note, Tool
<1>7. \A s \in Threads : Still(s)
  BY <1>1, <1>2, <1>4 DEF Still, Calm, At
<1>8. Single' /\ (\A d \in Calls : Counted(d)') /\ Parks
  <2>1. \A s \in Threads : upstream'[s].asked \in Nat /\ upstream'[s].asked >= upstream[s].asked
    BY <1>2, <1>4
  <2>. QED
    BY <1>1, <2>1, NoneParked DEF CallStep
<1>9. Roads
  BY <1>1 DEF Roads, At
<1>10. \A q \in Requests : Steered(q)' /\ Allowed(q)'
  <2>1. ASSUME NEW q \in Requests PROVE Moved(q)
    BY <1>1, <1>3, <2>1, Basics DEF Moved, Active, Pumping, Steered, Note, Tool
  <2>. QED
    BY <1>1, <2>1, Onward DEF Contains
<1>11. ASSUME NEW q \in Requests PROVE Carried(q)
  <2>1. ASSUME Pumping(q), Held(q)
        PROVE  Untouched(Asked(q))' /\ Asked(q)[2] <= upstream'[At(q)].asked
    <3>1. /\ Asked(q) \in Calls /\ Asked(q)[1] = At(q) /\ Untouched(Asked(q))
          /\ Asked(q)[2] <= upstream[At(q)].asked
      BY <2>1, HeldCall
    <3>2. At(q) \in Threads
      BY <3>1, Constants
    <3>. QED
      BY <1>1, <1>4, <3>1, <3>2 DEF Untouched, Asked
  <2>2. Aborted(q) => Aborted(q)'
    BY <1>3 DEF Aborted
  <2>. QED
    BY <1>1, <2>1, <2>2, SameCarried
<1>. QED
  BY <1>1, <1>2, <1>5, <1>6, <1>7, <1>8, <1>9, <1>10, <1>11, Keeps

(* A pump whose notification or tool waiter is rejected.                   *)
LEMMA Rejects ==
  ASSUME IInv, NEW q \in Requests, Pumping(q), NEW notes \in BOOLEAN, NEW tools \in BOOLEAN,
         NEW rec, rec = Rejected(q, notes, tools)
  PROVE  /\ rec \in RunRecs /\ rec.pc = run[q].pc /\ rec.at = run[q].at /\ rec.tools = run[q].tools
         /\ rec.acl = run[q].acl /\ rec.seen = run[q].seen
         /\ rec.note = (IF notes /\ run[q].note = Waiting THEN Failed ELSE run[q].note)
         /\ rec.tool = (IF tools /\ run[q].tool = Waiting THEN Released ELSE run[q].tool)
         /\ rec.pc = "loop" => rec.note = None /\ rec.first = "none"
         /\ rec.pc = "race" /\ rec.first = "none" => rec.note = Waiting /\ ~Settled(rec.tool)
         /\ rec.first = "note" => Settled(rec.note)
         /\ rec.first = "tool" => Settled(rec.tool)
<1> DEFINE note == IF notes /\ run[q].note = Waiting THEN Failed ELSE run[q].note
           tool == IF tools /\ run[q].tool = Waiting THEN Released ELSE run[q].tool
           first == IF run[q].pc # "race" \/ run[q].first # "none" THEN run[q].first
                    ELSE IF Settled(note) THEN "note"
                    ELSE IF Settled(tool) THEN "tool" ELSE "none"
<1>1. run[q] \in RunRecs /\ Awaiting(q) /\ run[q].pc \in {"loop", "race"}
  BY Basics, Sorts DEF Pumping
<1>2. note \in Notes /\ tool \in ToolPromises /\ first \in {"none", "note", "tool"}
  BY <1>1, RunFields DEF Notes, ToolPromises
<1>3. rec = [[[run[q] EXCEPT !.note = note] EXCEPT !.tool = tool] EXCEPT !.first = first]
  BY <1>1 DEF Rejected, RunRecs
<1>4. (note = run[q].note \/ (run[q].note = Waiting /\ Settled(note)))
      /\ (tool = run[q].tool \/ (run[q].tool = Waiting /\ Settled(tool)))
  <2>1. note = run[q].note \/ (run[q].note = Waiting /\ note = Failed)
    OBVIOUS
  <2>2. tool = run[q].tool \/ (run[q].tool = Waiting /\ tool = Released)
    OBVIOUS
  <2> HIDE DEF note, tool
  <2>. QED
    BY <2>1, <2>2, Promises DEF Settled
<1> HIDE DEF note, tool, first
<1>5. rec \in RunRecs
  <2>1. [run[q] EXCEPT !.note = note] \in RunRecs
    BY <1>1, <1>2, RunFields
  <2>2. [[run[q] EXCEPT !.note = note] EXCEPT !.tool = tool] \in RunRecs
    BY <1>2, <2>1, RunFields
  <2> DEFINE mid == [[run[q] EXCEPT !.note = note] EXCEPT !.tool = tool]
  <2> HIDE DEF mid
  <2>3. [mid EXCEPT !.first = first] \in RunRecs
    <3>1. mid \in RunRecs
      BY <2>2 DEF mid
    <3>. QED
      BY <1>2, <3>1, RunFields
  <2>. QED
    BY <1>3, <2>3 DEF mid
<1>6. /\ rec.pc = run[q].pc /\ rec.at = run[q].at /\ rec.tools = run[q].tools
      /\ rec.acl = run[q].acl /\ rec.seen = run[q].seen
      /\ rec.note = note /\ rec.tool = tool /\ rec.first = first
  BY <1>1, <1>3 DEF RunRecs
<1>7. /\ run[q].pc = "loop" => Note(q) = None /\ run[q].first = "none"
      /\ run[q].pc = "race" => Note(q) # None
      /\ run[q].first = "note" => Settled(Note(q))
      /\ run[q].first = "tool" => Settled(Tool(q))
  BY <1>1 DEF Awaiting, Pumping
<1>8. /\ rec.first = "note" => Settled(rec.note)
      /\ rec.first = "tool" => Settled(rec.tool)
  BY <1>4, <1>6, <1>7, Promises DEF Note, Tool, Settled, first
<1>9. rec.pc = "loop" => rec.note = None /\ rec.first = "none"
  BY <1>4, <1>6, <1>7, Promises DEF Note, first
<1>10. rec.pc = "race" /\ rec.first = "none" => rec.note = Waiting /\ ~Settled(rec.tool)
  BY <1>4, <1>6, <1>7, Promises DEF Note, Settled, first
<1>. QED
  BY <1>5, <1>6, <1>8, <1>9, <1>10 DEF note, tool

LEMMA RejectServes ==
  ASSUME IInv, NEW w \in WaiterRecs, \E i \in DOMAIN waiters : waiters[i] = w,
         NEW notes \in BOOLEAN, NEW tools \in BOOLEAN, run'[w.by] = Rejected(w.by, notes, tools),
         w.live => ~(IF w.kind = "note" THEN notes ELSE tools),
         w.kind = "note" /\ protocolFailed' => w.on \in lost'
  PROVE  Serves(w)'
<1>1. Serves(w) /\ w.by \in Requests
  BY Basics DEF Waits, WaiterRecs
<1> DEFINE q == w.by
<1>2. /\ run'[q].pc = run[q].pc /\ run'[q].at = run[q].at /\ run'[q].acl = run[q].acl
      /\ run'[q].note = (IF notes /\ run[q].note = Waiting THEN Failed ELSE run[q].note)
      /\ run'[q].tool = (IF tools /\ run[q].tool = Waiting THEN Released ELSE run[q].tool)
  BY <1>1, Rejects DEF Serves
<1>. QED
  BY <1>1, <1>2 DEF Serves, Pumping, At, Note, Tool

LEMMA RejectCarried ==
  ASSUME IInv, NEW q \in Requests, Pumping(q), NEW notes \in BOOLEAN, NEW tools \in BOOLEAN,
         run'[q] = Rejected(q, notes, tools), out'[q] = out[q], Aborted(q) => Aborted(q)',
         \A a \in DOMAIN waiters : waiters[a].by = q /\ waiters[a].on = At(q) /\ waiters[a].live =>
            (IF waiters[a].kind = "note" THEN notes ELSE tools) \/ \E i \in DOMAIN waiters' : waiters'[i] = waiters[a],
         Held(q) => Untouched(Asked(q))' /\ Asked(q)[2] <= upstream'[At(q)].asked,
         At(q) = q /\ ~Aborted(q)' /\ q \notin lost' /\ ~protocolFailed' =>
           \A a \in DOMAIN queue : queue[a][2] = q =>
             q \in evicted' \/ \E i \in DOMAIN queue' : queue'[i] = queue[a]
  PROVE  Carried(q)
<1> DEFINE rec == run'[q]
<1>1. /\ rec \in RunRecs /\ rec.pc = run[q].pc /\ rec.at = run[q].at /\ rec.tools = run[q].tools
      /\ rec.acl = run[q].acl /\ rec.seen = run[q].seen
      /\ rec.note = (IF notes /\ run[q].note = Waiting THEN Failed ELSE run[q].note)
      /\ rec.tool = (IF tools /\ run[q].tool = Waiting THEN Released ELSE run[q].tool)
      /\ rec.pc = "loop" => rec.note = None /\ rec.first = "none"
      /\ rec.pc = "race" /\ rec.first = "none" => rec.note = Waiting /\ ~Settled(rec.tool)
      /\ rec.first = "note" => Settled(rec.note)
      /\ rec.first = "tool" => Settled(rec.tool)
  BY Rejects
<1>2. Awaiting(q)
  BY Basics
<1>3. ASSUME NEW kind \in {"note", "tool"}, Listens(q, kind), ~(IF kind = "note" THEN notes ELSE tools)
      PROVE  Listens(q, kind)'
  <2>1. PICK a \in DOMAIN waiters : waiters[a] = Waiter(kind, q, At(q))
    BY <1>3 DEF Listens
  <2>2. waiters[a].by = q /\ waiters[a].on = At(q) /\ waiters[a].live /\ waiters[a].kind = kind
    BY <2>1 DEF Waiter
  <2>3. \E i \in DOMAIN waiters' : waiters'[i] = waiters[a]
    BY <1>3, <2>2
  <2>. QED
    BY <1>1, <2>1, <2>3 DEF Listens, Waiter, At
<1>4. rec.note = Waiting => Listens(q, "note")'
  BY <1>1, <1>2, <1>3, Promises DEF Awaiting, Note
<1>5. rec.tool = Waiting => Listens(q, "tool")'
  BY <1>1, <1>2, <1>3, Promises DEF Awaiting, Tool
<1>6. Held(q)' => Held(q) /\ rec.tool = run[q].tool
  BY <1>1, Promises DEF Held, Tool
<1>7. Held(q)' => /\ Tool(q)'[2] = At(q)' /\ Tool(q)'[3] <= upstream'[At(q)'].asked
                  /\ Untouched(Asked(q))'
  <2>1. Held(q) => Tool(q)[2] = At(q)
    BY <1>2 DEF Awaiting
  <2>2. At(q)' = At(q)
    BY <1>1 DEF At
  <2>. QED
    BY <1>6, <2>1, <2>2 DEF Asked, Tool
<1>8. Clauses(q)'
  BY <1>1, <1>4, <1>5, <1>7 DEF Clauses, Note, Tool
<1>9. ASSUME Active(q), At(q) = q, ~Aborted(q)', q \notin lost', ~protocolFailed', NEW k, Queued(q, k)
      PROVE  Queued(q, k)' \/ q \in evicted'
  <2>1. PICK a \in DOMAIN queue : queue[a] = <<"delta", q, k>>
    BY <1>9 DEF Queued
  <2>2. q \in evicted' \/ \E i \in DOMAIN queue' : queue'[i] = queue[a]
    BY <1>9, <2>1
  <2>. QED
    BY <2>1, <2>2 DEF Queued
<1>10. run'[q].tool = run[q].tool \/ (run[q].tool = Waiting /\ run'[q].tool # None)
  BY <1>1, Promises
<1>. QED
  BY <1>1, <1>8, <1>9, <1>10 DEF Carried

(* Two waiters of one kind for one pump are one.                           *)
LEMMA SameWaiter ==
  ASSUME NEW u \in WaiterRecs, NEW w \in WaiterRecs, u.kind = w.kind, u.by = w.by, u.on = w.on,
         u.live, w.live
  PROVE  u = w
<1>1. \A x \in WaiterRecs : x = [kind |-> x.kind, by |-> x.by, on |-> x.on, live |-> x.live]
  BY DEF WaiterRecs
<1>2. u.live = TRUE /\ w.live = TRUE
  <2>1. u.live \in BOOLEAN /\ w.live \in BOOLEAN
    BY DEF WaiterRecs
  <2>. QED
    BY <2>1
<1>. QED
  BY <1>1, <1>2, Zenon

LEMMA KeepWaiterExpires ==
  ASSUME IInv, WaiterExpires
  PROVE  IInv'
<1> DEFINE w == Head(waiters)  p == w.by
<1>1. /\ waiters # <<>> /\ waiters' = Tail(waiters)
      /\ run' = IF w.live THEN WithTimeout(w) ELSE run
      /\ UNCHANGED <<queue, ledger, answers, lost, evicted, protocolFailed, activeTurns,
                     parkedTurns, threadToolAcl, cancel, upstream, out, down>>
      /\ draining' \in BOOLEAN
  BY DEF WaiterExpires, PumpFrame, BeginFrame, PumpsRun, books, server
<1>2. /\ Shapes /\ Waits /\ \A t \in Threads : upstream[t].asked \in Nat
      /\ queue \in Seq(Lines) /\ Within(queue, queue) /\ waiters \in Seq(WaiterRecs)
      /\ run \in [Requests -> RunRecs]
  BY Basics, Sorts, SameUpstream
<1>3. /\ waiters' \in Seq(WaiterRecs) /\ w = waiters[1] /\ 1 \in DOMAIN waiters /\ w \in WaiterRecs
      /\ \A i \in DOMAIN waiters' : i + 1 \in DOMAIN waiters /\ waiters'[i] = waiters[i + 1] /\ i + 1 # 1
      /\ \A a \in DOMAIN waiters : a = 1 \/ \E i \in DOMAIN waiters' : waiters'[i] = waiters[a]
      /\ Within(waiters', waiters)
  <2>1. /\ waiters' \in Seq(WaiterRecs) /\ w = waiters[1] /\ 1 \in DOMAIN waiters
        /\ \A i \in DOMAIN waiters' : i + 1 \in DOMAIN waiters /\ waiters'[i] = waiters[i + 1]
        /\ \A a \in DOMAIN waiters : a = 1 \/ (a - 1 \in DOMAIN waiters' /\ waiters'[a - 1] = waiters[a])
        /\ Within(waiters', waiters)
    BY <1>1, <1>2, Tails
  <2>2. \A i \in DOMAIN waiters' : i + 1 # 1
    BY <2>1
  <2>3. waiters[1] \in WaiterRecs
    BY <1>2, <2>1
  <2> HIDE DEF w
  <2>4. \A a \in DOMAIN waiters : a = 1 \/ \E i \in DOMAIN waiters' : waiters'[i] = waiters[a]
    BY <2>1
  <2>. QED
    BY <2>1, <2>2, <2>3, <2>4
<1> HIDE DEF w
<1>4. Serves(w) /\ Pumping(p) /\ p \in Requests /\ w.kind \in {"note", "tool"}
  BY <1>2, <1>3 DEF Waits, Serves, WaiterRecs
<1>5. PICK notes \in BOOLEAN, tools \in BOOLEAN : notes = (w.kind = "note") /\ tools = (w.kind = "tool")
  OBVIOUS
<1>6. \/ w.live /\ run' = [run EXCEPT ![p] = Rejected(p, notes, tools)]
      \/ ~w.live /\ run' = run
  BY <1>1, <1>3, <1>5 DEF WithTimeout
<1>7. Rejected(p, notes, tools) \in RunRecs
  BY <1>4, Rejects
<1>8. /\ run' \in [Requests -> RunRecs]
      /\ \A q \in Requests : q # p \/ ~w.live => run'[q] = run[q]
      /\ w.live => run'[p] = Rejected(p, notes, tools)
  BY <1>2, <1>4, <1>6, <1>7
<1>9. Shapes'
  BY <1>1, <1>2, <1>3, <1>8 DEF Shapes, Bounded
<1>10. Waits'
  <2>1. ASSUME NEW u \in WaiterRecs, \E i \in DOMAIN waiters' : waiters'[i] = u PROVE Serves(u)'
    <3>1. PICK a \in DOMAIN waiters : waiters[a] = u /\ a # 1
      BY <1>3, <2>1
    <3>2. Serves(u) /\ u.by \in Requests
      BY <1>2, <3>1 DEF Waits, WaiterRecs
    <3>3. CASE u.by # p \/ ~w.live
      BY <1>1, <1>8, <3>1, <3>2, <3>3, StillServes
    <3>4. CASE u.by = p /\ w.live
      <4>1. u.live => u.kind # w.kind
        <5>1. SUFFICES ASSUME u.live, u.kind = w.kind PROVE FALSE
          OBVIOUS
        <5>2. u.on = w.on
          BY <1>4, <3>2, <3>4 DEF Serves
        <5>3. u = w
          BY <1>3, <3>4, <5>1, <5>2, SameWaiter
        <5>. QED
          BY <1>2, <1>3, <3>1, <5>1, <5>3 DEF Waits
      <4>2. u.live => ~(IF u.kind = "note" THEN notes ELSE tools)
        <5>1. u.kind \in {"note", "tool"}
          BY DEF WaiterRecs
        <5>. QED
          BY <1>4, <1>5, <4>1, <5>1
      <4>3. u.kind = "note" /\ protocolFailed' => u.on \in lost'
        BY <1>1, <3>2 DEF Serves
      <4>4. run'[u.by] = Rejected(u.by, notes, tools)
        BY <1>8, <3>4
      <4>. QED
        BY <1>7, <3>1, <4>2, <4>3, <4>4, RejectServes
    <3>. QED
      BY <3>3, <3>4
  <2>. QED
    BY <1>3, <2>1, StillWaits
<1>11. ASSUME NEW q \in Requests
       PROVE  /\ run'[q].pc = run[q].pc /\ run'[q].at = run[q].at /\ run'[q].tools = run[q].tools
              /\ run'[q].acl = run[q].acl /\ (~Pumping(q) => run'[q] = run[q])
  BY <1>4, <1>7, <1>8, Rejects
<1>12. \A t \in Threads : Still(t)
  BY <1>1, <1>2, <1>11, Constants DEF Still, Calm, At
<1>13. Single' /\ (\A d \in Calls : Counted(d)') /\ Parks
  BY <1>1, <1>2, NoneParked DEF CallStep
<1>14. Roads
  BY <1>11 DEF Roads, At
<1>15. \A q \in Requests : Steered(q)' /\ Allowed(q)'
  <2>1. ASSUME NEW q \in Requests PROVE Moved(q)
    <3>1. Steered(q)
      BY Basics
    <3>. QED
      BY <1>1, <1>11, <3>1 DEF Moved, Active, Pumping, Steered, Note, Tool
  <2>. QED
    BY <1>1, <2>1, Onward DEF Contains
<1>16. ASSUME NEW q \in Requests PROVE Carried(q)
  <2>1. \A a \in DOMAIN queue : \E i \in DOMAIN queue' : queue'[i] = queue[a]
    BY <1>1
  <2>2. CASE q # p \/ ~w.live
    <3>1. Pumping(q) /\ Held(q) => Untouched(Asked(q))' /\ Asked(q)[2] <= upstream'[At(q)].asked
      BY <1>1, <1>8, <2>2, HeldCall DEF Untouched, Asked
    <3>2. \A a \in DOMAIN waiters : waiters[a].by = q /\ waiters[a].live => a # 1
      BY <1>3, <2>2
    <3>. QED
      BY <1>1, <1>3, <1>8, <2>1, <2>2, <3>1, <3>2, SameCarried DEF Aborted
  <2>3. CASE q = p /\ w.live
    <3>1. Held(q) => Untouched(Asked(q))' /\ Asked(q)[2] <= upstream'[At(q)].asked
      <4>1. SUFFICES ASSUME Held(q) PROVE Untouched(Asked(q))' /\ Asked(q)[2] <= upstream'[At(q)].asked
        OBVIOUS
      <4>2. Asked(q) \in Calls /\ Untouched(Asked(q)) /\ Asked(q)[2] <= upstream[At(q)].asked
        BY <1>4, <2>3, <4>1, HeldCall
      <4>3. Asked(q)' = Asked(q)
        <5>1. run'[q].tool = run[q].tool
          BY <1>4, <1>7, <1>8, <2>3, <4>1, Rejects, Promises DEF Held, Tool
        <5>. QED
          BY <5>1 DEF Asked
      <4>. QED
        BY <1>1, <4>2, <4>3 DEF Untouched
    <3>2. \A a \in DOMAIN waiters :
            (IF waiters[a].kind = "note" THEN notes ELSE tools) \/ \E i \in DOMAIN waiters' : waiters'[i] = waiters[a]
      <4>1. IF waiters[1].kind = "note" THEN notes ELSE tools
        BY <1>3, <1>4, <1>5
      <4>. QED
        BY <1>3, <4>1
    <3>3. Pumping(q) /\ run'[q] = Rejected(q, notes, tools) /\ out'[q] = out[q] /\ (Aborted(q) => Aborted(q)')
      BY <1>1, <1>4, <1>8, <2>3 DEF Aborted
    <3>. QED
      BY <1>7, <2>1, <3>1, <3>2, <3>3, RejectCarried
  <2>. QED
    BY <2>2, <2>3
<1>. QED
  BY <1>1, <1>2, <1>9, <1>10, <1>12, <1>13, <1>14, <1>15, <1>16, Keeps

LEMMA KeepCancelCleanup ==
  ASSUME IInv, NEW r \in Requests, CancelCleanup(r)
  PROVE  IInv'
<1>0. PICK t : t = At(r)
  OBVIOUS
<1>1. /\ cancel[r] = "answered" /\ cancel' = [cancel EXCEPT ![r] = "gone"]
      /\ activeTurns' = activeTurns \ {r}
      /\ parkedTurns' = Without(parkedTurns, {r}) /\ threadToolAcl' = Without(threadToolAcl, {t})
      /\ ledger' = [c \in Calls |-> IF c \in {d \in L!Pending : d[1] = t} THEN "cancelled" ELSE ledger[c]]
      /\ UNCHANGED <<answers, lost, evicted, protocolFailed, upstream, out, down>>
      /\ draining' \in BOOLEAN
  BY <1>0 DEF CancelCleanup, PumpFrame, BeginFrame, PumpsRun, server, Forgotten, L!SettleSome
<1>2. \/ t \in lost /\ queue' = queue /\ waiters' = waiters /\ run' = run
      \/ /\ t \notin lost /\ queue' = QueueWithout(t) /\ waiters' = WaitersWithout(t)
         /\ run' = [q \in Requests |->
               IF Pumping(q) /\ At(q) = t THEN Rejected(q, TRUE, TRUE) ELSE run[q]]
  BY <1>0 DEF CancelCleanup
<1>3. /\ Shapes /\ Waits /\ \A s \in Threads : upstream[s].asked \in Nat
      /\ queue \in Seq(Lines) /\ Within(queue, queue) /\ waiters \in Seq(WaiterRecs) /\ Within(waiters, waiters)
      /\ run \in [Requests -> RunRecs] /\ ledger \in [Calls -> L!Statuses]
      /\ cancel \in [Requests -> {"no", "gone", "asked", "answered"}]
      /\ Bounded(parkedTurns) /\ Bounded(threadToolAcl) /\ Len(queue) <= QueueLimit
  BY Basics, Sorts, SameUpstream, WithinItself
<1>4. t \in Threads /\ Aborted(r) /\ Steered(r) /\ Aborted(r)'
  BY <1>0, <1>1, <1>3, Basics DEF Steered, Aborted
<1>5. \A q \in Requests :
        \/ run'[q] = run[q] /\ ~(Pumping(q) /\ At(q) = t /\ t \notin lost)
        \/ run'[q] = Rejected(q, TRUE, TRUE) /\ Pumping(q) /\ At(q) = t /\ t \notin lost
  BY <1>2
<1>6. /\ queue' \in Seq(Lines) /\ Len(queue') <= QueueLimit /\ Within(queue', queue)
      /\ \A a \in DOMAIN queue : queue[a][2] # t => \E i \in DOMAIN queue' : queue'[i] = queue[a]
  <2>1. CASE t \in lost
    BY <1>2, <1>3, <2>1
  <2>2. CASE t \notin lost
    BY <1>2, <1>3, <2>2, QueuePurged DEF PurgesQueue
  <2>. QED
    BY <2>1, <2>2
<1>7. /\ waiters' \in Seq(WaiterRecs) /\ Within(waiters', waiters)
      /\ \A a \in DOMAIN waiters : waiters[a].on # t \/ t \in lost => \E i \in DOMAIN waiters' : waiters'[i] = waiters[a]
      /\ \A i \in DOMAIN waiters' : waiters'[i].on # t \/ t \in lost
  <2>1. CASE t \in lost
    BY <1>2, <1>3, <2>1
  <2>2. CASE t \notin lost
    BY <1>2, <1>3, <2>2, WaitersPurged DEF PurgesWaiters
  <2>. QED
    BY <2>1, <2>2
<1>8. ASSUME NEW q \in Requests
      PROVE  /\ run'[q].pc = run[q].pc /\ run'[q].at = run[q].at /\ run'[q].tools = run[q].tools
             /\ run'[q].acl = run[q].acl /\ run'[q] \in RunRecs
             /\ ~Pumping(q) => run'[q] = run[q]
             /\ run[q].tool[1] = "call" => run'[q].tool = run[q].tool
  <2>1. CASE run'[q] = run[q]
    BY <1>3, <2>1
  <2>2. CASE run'[q] = Rejected(q, TRUE, TRUE) /\ Pumping(q)
    <3>0. PICK yes \in BOOLEAN : yes = TRUE
      OBVIOUS
    <3>1. PICK rec : rec = run'[q] /\ rec = Rejected(q, yes, yes)
      BY <2>2, <3>0
    <3>2. /\ rec \in RunRecs /\ rec.pc = run[q].pc /\ rec.at = run[q].at /\ rec.tools = run[q].tools
          /\ rec.acl = run[q].acl
          /\ rec.tool = (IF yes /\ run[q].tool = Waiting THEN Released ELSE run[q].tool)
      <4>1. Pumping(q)
        BY <2>2
      <4>. QED
        BY <3>1, <4>1, Rejects
    <3>. QED
      BY <2>2, <3>1, <3>2, Promises
  <2>. QED
    BY <1>5, <2>1, <2>2
<1>9. /\ run' \in [Requests -> RunRecs] /\ ledger' \in [Calls -> L!Statuses]
      /\ cancel' \in [Requests -> {"no", "gone", "asked", "answered"}]
      /\ \A q \in Requests : cancel'[q] = "no" <=> cancel[q] = "no"
  <2>1. run' \in [Requests -> RunRecs]
    <3>1. run' = [q \in Requests |-> run'[q]]
      BY <1>2, <1>3
    <3>. QED
      BY <1>8, <3>1
  <2>. QED
    BY <1>1, <1>3, <2>1 DEF L!Statuses, L!Fates
<1>10. Bounded(parkedTurns)' /\ Bounded(threadToolAcl)'
       /\ \A x : Contains(threadToolAcl, x)' => Contains(threadToolAcl, x)
  <2>1. /\ Bounded(Without(parkedTurns, {r})) /\ Bounded(Without(threadToolAcl, {t}))
        /\ \A x : Contains(Without(threadToolAcl, {t}), x) => Contains(threadToolAcl, x)
    BY <1>3, Forgets
  <2>. QED
    BY <1>1, <2>1 DEF Bounded, Contains
<1>11. Shapes'
  BY <1>1, <1>3, <1>6, <1>7, <1>9, <1>10 DEF Shapes
<1>12. Waits'
  <2>1. ASSUME NEW u \in WaiterRecs, \E i \in DOMAIN waiters' : waiters'[i] = u PROVE Serves(u)'
    <3>1. (\E i \in DOMAIN waiters : waiters[i] = u) /\ (u.on # t \/ t \in lost)
      BY <1>7, <2>1 DEF Within
    <3>2. Serves(u) /\ u.by \in Requests
      BY <1>3, <3>1 DEF Waits, WaiterRecs
    <3>3. run'[u.by] = run[u.by]
      BY <1>5, <3>1, <3>2 DEF Serves
    <3>. QED
      BY <1>1, <3>1, <3>3, StillServes
  <2>. QED
    BY <1>7, <2>1, StillWaits
<1>13. \A s \in Threads : Still(s)
  <2>1. \A i \in DOMAIN queue' : \E a \in DOMAIN queue : queue[a] = queue'[i]
    BY <1>6 DEF Within
  <2>. QED
    BY <1>1, <1>3, <1>6, <1>8, <2>1, Constants DEF Still, Calm, At
<1>14. \A c \in Calls : \/ ledger'[c] = ledger[c]
                        \/ ledger[c] = "pending" /\ ledger'[c] = "cancelled"
  BY <1>1, Pending
<1>15. Single' /\ (\A d \in Calls : Counted(d)') /\ Parks
  BY <1>1, <1>3, <1>14, NoneParked DEF CallStep
<1>16. Roads
  BY <1>8 DEF Roads, At
<1>17. \A q \in Requests : Steered(q)' /\ Allowed(q)'
  <2>1. ASSUME NEW q \in Requests PROVE Moved(q)
    <3>1. Steered(q)
      BY Basics
    <3>. QED
      BY <1>1, <1>8, <1>9, <3>1 DEF Moved, Active, Pumping, Steered, Note, Tool
  <2>. QED
    BY <1>10, <1>14, <2>1, Onward
<1>18. ASSUME NEW q \in Requests PROVE Carried(q)
  <2>1. ASSUME Active(q), At(q) = q, ~Aborted(q)', NEW a \in DOMAIN queue, queue[a][2] = q
        PROVE  \E i \in DOMAIN queue' : queue'[i] = queue[a]
    <3>1. q # r
      BY <1>4, <2>1
    <3>2. q # t
      <4>1. Alone(q)
        BY <2>1, Basics DEF Steered
      <4>. QED
        BY <1>0, <1>4, <2>1, <3>1, <4>1 DEF Alone
    <3>. QED
      BY <1>6, <2>1, <3>2
  <2>2. ASSUME Pumping(q), Held(q)
        PROVE  Untouched(Asked(q))' /\ Asked(q)[2] <= upstream'[At(q)].asked
    <3>1. Asked(q) \in Calls /\ Untouched(Asked(q)) /\ Asked(q)[2] <= upstream[At(q)].asked
      BY <2>2, HeldCall
    <3>2. Asked(q)' = Asked(q)
      BY <1>8, <2>2 DEF Asked, Held, Tool
    <3>. QED
      BY <1>1, <1>14, <3>1, <3>2 DEF Untouched
  <2>3. out'[q] = out[q] /\ (Aborted(q) => Aborted(q)') /\ (Pumping(q) => Active(q))
    BY <1>1, <1>9 DEF Aborted, Pumping, Active
  <2>4. CASE run'[q] = run[q] /\ ~(Pumping(q) /\ At(q) = t /\ t \notin lost)
    <3>1. Pumping(q) => \A a \in DOMAIN waiters : waiters[a].on = At(q) =>
                         \E i \in DOMAIN waiters' : waiters'[i] = waiters[a]
      BY <1>7, <2>4
    <3>. QED
      BY <2>1, <2>2, <2>3, <2>4, <3>1, SameCarried
  <2>5. CASE run'[q] = Rejected(q, TRUE, TRUE) /\ Pumping(q)
    BY <2>1, <2>2, <2>3, <2>5, RejectCarried
  <2>. QED
    BY <1>5, <2>4, <2>5
<1>. QED
  BY <1>6, <1>11, <1>12, <1>13, <1>15, <1>16, <1>17, <1>18, Keeps

LEMMA KeepReceiveGarbage ==
  ASSUME IInv, ReceiveGarbage
  PROVE  IInv'
<1>0. PICK yes \in BOOLEAN, no \in BOOLEAN : yes = TRUE /\ no = FALSE
  OBVIOUS
<1> DEFINE S == {w \in Range(waiters) : w.kind = "note" /\ w.on \notin lost}
<1>1. /\ protocolFailed' = TRUE /\ waiters' = Without(waiters, S)
      /\ queue' = queue \/ queue' = <<>>
      /\ run' = [q \in Requests |->
           IF Starting(q) THEN [run[q] EXCEPT !.pc = "done"]
           ELSE IF Pumping(q) /\ At(q) \notin lost THEN Rejected(q, yes, no)
           ELSE run[q]]
      /\ out' = [q \in Requests |-> IF Starting(q) THEN FailedStart(q) ELSE out[q]]
      /\ cancel' = [q \in Requests |-> IF cancel[q] = "asked" THEN "answered" ELSE cancel[q]]
      /\ UNCHANGED <<activeTurns, parkedTurns, threadToolAcl, ledger, down, lost, draining, upstream,
                     answers, evicted>>
  BY <1>0 DEF ReceiveGarbage, books, server
<1>2. /\ Shapes /\ Waits /\ \A t \in Threads : upstream[t].asked \in Nat
      /\ queue \in Seq(Lines) /\ Within(queue, queue) /\ waiters \in Seq(WaiterRecs)
      /\ run \in [Requests -> RunRecs] /\ out \in [Requests -> OutRecs] /\ Len(queue) <= QueueLimit
      /\ cancel \in [Requests -> {"no", "gone", "asked", "answered"}]
  BY Basics, Sorts, SameUpstream
<1>3. /\ waiters' \in Seq(WaiterRecs) /\ Within(waiters', waiters)
      /\ \A i \in DOMAIN waiters' : ~(waiters'[i].kind = "note" /\ waiters'[i].on \notin lost)
      /\ \A a \in DOMAIN waiters : ~(waiters[a].kind = "note" /\ waiters[a].on \notin lost) =>
           \E i \in DOMAIN waiters' : waiters'[i] = waiters[a]
  <2>1. \A a \in DOMAIN waiters : waiters[a] \in S <=> waiters[a].kind = "note" /\ waiters[a].on \notin lost
    BY DEF Range
  <2> HIDE DEF S
  <2>2. /\ waiters' \in Seq(WaiterRecs) /\ Within(waiters', waiters)
        /\ \A i \in DOMAIN waiters' : waiters'[i] \notin S
        /\ \A a \in DOMAIN waiters : waiters[a] \notin S => \E i \in DOMAIN waiters' : waiters'[i] = waiters[a]
    BY <1>1, <1>2, Withouts
  <2>3. ASSUME NEW i \in DOMAIN waiters' PROVE ~(waiters'[i].kind = "note" /\ waiters'[i].on \notin lost)
    <3>1. PICK a \in DOMAIN waiters : waiters'[i] = waiters[a]
      BY <2>2 DEF Within
    <3>. QED
      BY <2>1, <2>2, <3>1
  <2>. QED
    BY <2>1, <2>2, <2>3
<1>4. queue' \in Seq(Lines) /\ Len(queue') <= QueueLimit /\ Within(queue', queue)
  <2>1. Within(<<>>, queue) /\ <<>> \in Seq(Lines) /\ Len(<<>>) <= QueueLimit
    BY <1>2, Constants DEF Within
  <2>. QED
    BY <1>1, <1>2, <2>1
<1>5. ASSUME NEW q \in Requests
      PROVE  \/ /\ Starting(q) /\ run'[q] = [run[q] EXCEPT !.pc = "done"] /\ out'[q] = FailedStart(q)
             \/ /\ Pumping(q) /\ At(q) \notin lost /\ run'[q] = Rejected(q, yes, no) /\ out'[q] = out[q]
             \/ run'[q] = run[q] /\ ~(Pumping(q) /\ At(q) \notin lost) /\ out'[q] = out[q]
  BY <1>1 DEF Starting, Pumping
<1>6. ASSUME NEW q \in Requests, Starting(q)
      PROVE  /\ At(q) = q /\ ~Pumping(q) /\ Active(q) /\ Note(q) = None /\ Tool(q) = None
             /\ run[q].first = "none" /\ q \notin activeTurns /\ out[q].text = <<>>
             /\ run'[q] \in RunRecs /\ out'[q] \in OutRecs
             /\ run'[q].pc = "done" /\ run'[q].at = run[q].at /\ run'[q].tools = run[q].tools
             /\ run'[q].note = None /\ run'[q].tool = None /\ run'[q].first = "none"
             /\ out'[q].text = <<>> /\ out'[q].end \in {"silent", "error"}
  <2>1. q \in Threads
    BY <1>6, Basics DEF Starting, Steered, Active
  <2>2. /\ At(q) = q /\ ~Pumping(q) /\ Active(q) /\ Note(q) = None /\ Tool(q) = None
        /\ run[q].first = "none" /\ q \notin activeTurns /\ out[q].text = <<>>
    BY <1>6, <2>1, StartingRequest
  <2>3. run'[q] = [run[q] EXCEPT !.pc = "done"] /\ out'[q] = FailedStart(q)
    BY <1>1, <1>6
  <2>4. FailedStart(q) \in OutRecs /\ out[q] \in OutRecs
    BY <1>2, OutFields DEF FailedStart
  <2>5. FailedStart(q).text = out[q].text /\ FailedStart(q).end \in {"silent", "error"}
    BY <2>4 DEF FailedStart, OutRecs
  <2>6. [run[q] EXCEPT !.pc = "done"] \in RunRecs /\ run[q] \in RunRecs
    BY <1>2, RunFields
  <2>. QED
    BY <2>2, <2>3, <2>4, <2>5, <2>6 DEF RunRecs, Note, Tool
<1>7. ASSUME NEW q \in Requests, ~Starting(q)
      PROVE  /\ run'[q].pc = run[q].pc /\ run'[q].at = run[q].at /\ run'[q].tools = run[q].tools
             /\ run'[q].acl = run[q].acl /\ run'[q] \in RunRecs /\ out'[q] = out[q]
             /\ ~Pumping(q) => run'[q] = run[q]
             /\ run[q].tool[1] = "call" => run'[q].tool = run[q].tool
  <2>1. CASE run'[q] = run[q] /\ out'[q] = out[q]
    BY <1>2, <2>1
  <2>2. CASE Pumping(q) /\ run'[q] = Rejected(q, yes, no) /\ out'[q] = out[q]
    <3>1. Pumping(q)
      BY <2>2
    <3>2. PICK rec : rec = run'[q] /\ rec = Rejected(q, yes, no)
      BY <2>2
    <3>3. /\ rec \in RunRecs /\ rec.pc = run[q].pc /\ rec.at = run[q].at /\ rec.tools = run[q].tools
          /\ rec.acl = run[q].acl
          /\ rec.tool = (IF no /\ run[q].tool = Waiting THEN Released ELSE run[q].tool)
      BY <3>1, <3>2, Rejects
    <3>. QED
      BY <2>2, <3>2, <3>3, Promises
  <2>. QED
    BY <1>5, <1>7, <2>1, <2>2
<1>8. /\ run' \in [Requests -> RunRecs] /\ out' \in [Requests -> OutRecs]
      /\ cancel' \in [Requests -> {"no", "gone", "asked", "answered"}]
      /\ \A q \in Requests : cancel'[q] = "no" <=> cancel[q] = "no"
  <2>1. run' = [q \in Requests |-> run'[q]] /\ out' = [q \in Requests |-> out'[q]]
    BY <1>1
  <2>2. \A q \in Requests : run'[q] \in RunRecs /\ out'[q] \in OutRecs
    BY <1>2, <1>6, <1>7
  <2>3. /\ cancel' \in [Requests -> {"no", "gone", "asked", "answered"}]
        /\ \A q \in Requests : cancel'[q] = "no" <=> cancel[q] = "no"
    BY <1>1, <1>2
  <2>. QED
    BY <2>1, <2>2, <2>3
<1>9. Shapes'
  BY <1>1, <1>2, <1>3, <1>4, <1>8 DEF Shapes, Bounded
<1>10. Waits'
  <2>1. ASSUME NEW u \in WaiterRecs, \E i \in DOMAIN waiters' : waiters'[i] = u PROVE Serves(u)'
    <3>1. (\E i \in DOMAIN waiters : waiters[i] = u) /\ ~(u.kind = "note" /\ u.on \notin lost)
      BY <1>3, <2>1 DEF Within
    <3>2. Serves(u) /\ u.by \in Requests /\ u.kind \in {"note", "tool"}
      BY <1>2, <3>1 DEF Waits, WaiterRecs
    <3>3. ~Starting(u.by)
      BY <1>6, <3>2 DEF Serves
    <3>4. CASE run'[u.by] = run[u.by]
      BY <1>1, <3>1, <3>2, <3>4 DEF Serves, Pumping, At, Note, Tool
    <3>5. CASE run'[u.by] = Rejected(u.by, yes, no) /\ At(u.by) \notin lost
      <4>1. u.live => ~(IF u.kind = "note" THEN yes ELSE no)
        BY <1>0, <3>1, <3>2, <3>5 DEF Serves
      <4>2. u.kind = "note" /\ protocolFailed' => u.on \in lost'
        BY <1>1, <3>1
      <4>. QED
        BY <3>1, <3>5, <4>1, <4>2, RejectServes
    <3>. QED
      BY <1>5, <3>2, <3>3, <3>4, <3>5
  <2>. QED
    BY <1>3, <2>1, StillWaits
<1>11. ASSUME NEW q \in Requests
       PROVE  /\ run'[q].at = run[q].at /\ run'[q].tools = run[q].tools
              /\ Starting(q) \/ (run'[q].pc = run[q].pc /\ run'[q].acl = run[q].acl)
              /\ run'[q].pc = "starting" => run[q].pc = "starting"
  <2>1. CASE Starting(q)
    BY <1>6, <2>1 DEF Starting
  <2>2. CASE ~Starting(q)
    BY <1>7, <2>2
  <2>. QED
    BY <2>1, <2>2
<1>12. \A t \in Threads : Still(t)
  BY <1>1, <1>2, <1>4, <1>11, Constants DEF Still, Calm, At, Within
<1>13. Single' /\ (\A d \in Calls : Counted(d)') /\ Parks
  BY <1>1, <1>2, NoneParked DEF CallStep
<1>14. Roads
  BY <1>11 DEF Roads, At
<1>15. \A q \in Requests : Steered(q)' /\ Allowed(q)'
  <2>1. ASSUME NEW q \in Requests PROVE Moved(q)
    <3>1. Steered(q)
      BY Basics
    <3>2. CASE Starting(q)
      BY <1>1, <1>6, <1>8, <3>2 DEF Moved, Active, Pumping
    <3>3. CASE ~Starting(q)
      BY <1>1, <1>7, <1>8, <3>1, <3>3 DEF Moved, Active, Pumping, Steered, Note, Tool
    <3>. QED
      BY <3>2, <3>3
  <2>. QED
    BY <1>1, <2>1, Onward DEF Contains
<1>16. ASSUME NEW q \in Requests PROVE Carried(q) \/ (Awaiting(q)' /\ InOrder(q)' /\ Whole(q)')
  <2>1. CASE Starting(q)
    <3>1. Awaiting(q)'
      BY <1>6, <2>1 DEF Awaiting, Pumping
    <3>2. InOrder(q)'
      BY <1>6, <2>1, Promises DEF InOrder, Note, Pumping
    <3>3. Whole(q)'
      <4>1. SUFFICES ASSUME Plain(q)' PROVE Whole(q)'
        BY DEF Whole
      <4>2. Plain(q)
        BY <1>6, <2>1, <4>1 DEF Plain, Declared, At
      <4>3. ~Parked(q)' /\ \A p \in Requests : At(p)' = q => p = q
        BY <1>13, <1>14, <4>2, Spared
      <4>. QED
        BY <1>6, <2>1, <4>3 DEF Whole, Active
    <3>. QED
      BY <3>1, <3>2, <3>3
  <2>2. CASE ~Starting(q)
    <3>1. ASSUME Pumping(q), Held(q)
          PROVE  Untouched(Asked(q))' /\ Asked(q)[2] <= upstream'[At(q)].asked
      <4>1. Asked(q) \in Calls /\ Untouched(Asked(q)) /\ Asked(q)[2] <= upstream[At(q)].asked
        BY <3>1, HeldCall
      <4>2. Asked(q)' = Asked(q)
        BY <1>7, <2>2, <3>1 DEF Asked, Held, Tool
      <4>. QED
        BY <1>1, <4>1, <4>2 DEF Untouched
    <3>2. out'[q] = out[q] /\ (Aborted(q) => Aborted(q)') /\ protocolFailed'
      BY <1>1, <1>7, <1>8, <2>2 DEF Aborted
    <3>3. CASE run'[q] = run[q] /\ ~(Pumping(q) /\ At(q) \notin lost)
      <4>1. Pumping(q) => \A a \in DOMAIN waiters : waiters[a].on = At(q) =>
                           \E i \in DOMAIN waiters' : waiters'[i] = waiters[a]
        BY <1>3, <3>3
      <4>. QED
        BY <3>1, <3>2, <3>3, <4>1, SameCarried
    <3>4. CASE run'[q] = Rejected(q, yes, no) /\ Pumping(q)
      <4>1. \A a \in DOMAIN waiters :
              (IF waiters[a].kind = "note" THEN yes ELSE no) \/ \E i \in DOMAIN waiters' : waiters'[i] = waiters[a]
        BY <1>0, <1>3
      <4>. QED
        BY <3>1, <3>2, <3>4, <4>1, RejectCarried
    <3>. QED
      BY <1>5, <2>2, <3>3, <3>4
  <2>. QED
    BY <2>1, <2>2
<1>. QED
  BY <1>4, <1>9, <1>10, <1>12, <1>13, <1>14, <1>15, <1>16, Keeps

LEMMA KeepExit ==
  ASSUME IInv, Exit
  PROVE  IInv'
<1> DEFINE S == {w \in Range(waiters) : ~w.live}
<1>1. /\ protocolFailed' = FALSE /\ waiters' = Without(waiters, S) /\ queue' = <<>> /\ down' = TRUE
      /\ lost' = lost \cup {t \in Threads : At(t) = t}
      /\ ledger' = [c \in Calls |-> IF c \in L!Pending THEN "cancelled" ELSE ledger[c]]
      /\ cancel' = [q \in Requests |-> IF cancel[q] = "asked" THEN "gone" ELSE cancel[q]]
      /\ UNCHANGED <<run, activeTurns, parkedTurns, threadToolAcl, draining, upstream, answers, out,
                     evicted>>
  BY DEF Exit, books, L!SettleSome
<1>2. /\ Shapes /\ Waits /\ \A t \in Threads : upstream[t].asked \in Nat
      /\ queue \in Seq(Lines) /\ waiters \in Seq(WaiterRecs)
      /\ cancel \in [Requests -> {"no", "gone", "asked", "answered"}] /\ ledger \in [Calls -> L!Statuses]
  BY Basics, Sorts, SameUpstream
<1>3. /\ waiters' \in Seq(WaiterRecs) /\ Within(waiters', waiters)
      /\ \A a \in DOMAIN waiters : waiters[a].live => \E i \in DOMAIN waiters' : waiters'[i] = waiters[a]
  <2>1. \A a \in DOMAIN waiters : waiters[a] \in S <=> ~waiters[a].live
    BY DEF Range
  <2> HIDE DEF S
  <2>2. /\ waiters' \in Seq(WaiterRecs) /\ Within(waiters', waiters)
        /\ \A a \in DOMAIN waiters : waiters[a] \notin S => \E i \in DOMAIN waiters' : waiters'[i] = waiters[a]
    BY <1>1, <1>2, Withouts
  <2>. QED
    BY <2>1, <2>2
<1>4. queue' \in Seq(Lines) /\ Len(queue') <= QueueLimit /\ Within(queue', queue)
  <2>1. Within(<<>>, queue) /\ <<>> \in Seq(Lines) /\ Len(<<>>) <= QueueLimit
    BY <1>2, Constants DEF Within
  <2>. QED
    BY <1>1, <2>1
<1>5. /\ cancel' \in [Requests -> {"no", "gone", "asked", "answered"}]
      /\ \A q \in Requests : cancel'[q] = "no" <=> cancel[q] = "no"
      /\ ledger' \in [Calls -> L!Statuses] /\ lost' \subseteq Threads /\ lost \subseteq lost'
      /\ \A c \in Calls : \/ ledger'[c] = ledger[c]
                          \/ ledger[c] = "pending" /\ ledger'[c] = "cancelled"
  <2>1. lost \subseteq Threads
    BY <1>2, Sorts
  <2>. QED
    BY <1>1, <1>2, <2>1, Pending DEF L!Statuses, L!Fates
<1>6. Shapes'
  BY <1>1, <1>2, <1>3, <1>4, <1>5 DEF Shapes, Bounded
<1>7. Waits'
  <2>1. ASSUME NEW u \in WaiterRecs, \E i \in DOMAIN waiters' : waiters'[i] = u PROVE Serves(u)'
    <3>1. \E i \in DOMAIN waiters : waiters[i] = u
      BY <1>3, <2>1 DEF Within
    <3>. QED
      BY <1>1, <1>5, <3>1, StillServes
  <2>. QED
    BY <1>3, <2>1, StillWaits
<1>8. \A t \in Threads : Still(t)
  BY <1>1, <1>2 DEF Still, Calm, At
<1>9. Single' /\ (\A d \in Calls : Counted(d)') /\ Parks
  BY <1>1, <1>2, <1>5, NoneParked DEF CallStep
<1>10. Roads
  BY <1>1 DEF Roads, At
<1>11. \A q \in Requests : Steered(q)' /\ Allowed(q)'
  <2>1. ASSUME NEW q \in Requests PROVE Moved(q)
    BY <1>1, <1>5, <2>1, Basics DEF Moved, Active, Pumping, Steered, Note, Tool
  <2>. QED
    BY <1>1, <1>5, <2>1, Onward DEF Contains
<1>12. ASSUME NEW q \in Requests PROVE Carried(q)
  <2>1. ASSUME Pumping(q), Held(q)
        PROVE  Untouched(Asked(q))' /\ Asked(q)[2] <= upstream'[At(q)].asked
    <3>1. Asked(q) \in Calls /\ Untouched(Asked(q)) /\ Asked(q)[2] <= upstream[At(q)].asked
      BY <2>1, HeldCall
    <3>2. Asked(q)' = Asked(q)
      BY <1>1 DEF Asked
    <3>. QED
      BY <1>1, <1>5, <3>1, <3>2 DEF Untouched
  <2>2. Aborted(q) => Aborted(q)'
    BY <1>5 DEF Aborted
  <2>3. Active(q) /\ At(q) = q => q \in lost'
    BY <1>1, Basics DEF Steered
  <2>. QED
    BY <1>1, <1>3, <2>1, <2>2, <2>3, SameCarried
<1>. QED
  BY <1>4, <1>6, <1>7, <1>8, <1>9, <1>10, <1>11, <1>12, Keeps

(* A tool call that arrives.                                               *)
LEMMA KeepReceiveToolCall ==
  ASSUME IInv, NEW t \in Threads, NEW name \in WireTools, ReceiveToolCall(t, name)
  PROVE  IInv'
<1>0. PICK n, i, w : n = upstream[t].asked + 1 /\ i = Match("tool", t) /\ w = waiters[i]
  OBVIOUS
<1>1. /\ n <= MaxCalls /\ upstream[t].on /\ upstream' = [upstream EXCEPT ![t].asked = n]
      /\ UNCHANGED <<queue, protocolFailed, cancel, out, evicted, activeTurns, parkedTurns, threadToolAcl,
                     ledger, down, lost, draining>>
      /\ \/ /\ i = 0 /\ answers' = [answers EXCEPT ![<<t, n>>] = @ + 1]
            /\ waiters' = waiters /\ run' = run
         \/ /\ i # 0 /\ answers' = answers /\ waiters' = RemoveAt(waiters, i)
            /\ run' = [run EXCEPT ![w.by].tool = <<"call", t, n, name>>,
                  ![w.by].first = IF @ = "none" /\ run[w.by].pc = "race" THEN "tool" ELSE @]
  BY <1>0 DEF ReceiveToolCall, Speaks, LineFrame, books, server
<1>2. /\ Shapes /\ Waits /\ \A s \in Threads : upstream[s].asked \in Nat
      /\ queue \in Seq(Lines) /\ Within(queue, queue) /\ waiters \in Seq(WaiterRecs) /\ Within(waiters, waiters)
      /\ run \in [Requests -> RunRecs] /\ upstream \in [Threads -> UpRecs] /\ answers \in [Calls -> Nat]
  <2>1. Shapes /\ Waits
    BY Basics
  <2>2. /\ queue \in Seq(Lines) /\ waiters \in Seq(WaiterRecs)
        /\ run \in [Requests -> RunRecs] /\ upstream \in [Threads -> UpRecs] /\ answers \in [Calls -> Nat]
    BY <2>1, Sorts
  <2>3. Within(queue, queue) /\ Within(waiters, waiters)
    BY <2>2, WithinItself
  <2>. QED
    BY <2>1, <2>2, <2>3, SameUpstream
<1>3. n \in 1..MaxCalls /\ n \in Nat /\ n > upstream[t].asked /\ <<t, n>> \in Calls
  BY <1>0, <1>1, <1>2, Constants
<1>4. Untouched(<<t, n>>)
  <2>1. Counted(<<t, n>>)
    BY <1>3, Basics
  <2>. QED
    BY <1>3, <2>1 DEF Counted
<1>5. /\ upstream' \in [Threads -> UpRecs] /\ upstream'[t].asked = n
      /\ \A s \in Threads : /\ upstream'[s].items = upstream[s].items /\ upstream'[s].said = upstream[s].said
                            /\ upstream'[s].on = upstream[s].on
                            /\ s # t => upstream'[s].asked = upstream[s].asked
                            /\ upstream'[s].asked \in Nat /\ upstream'[s].asked >= upstream[s].asked
  <2>1. n \in 0..MaxCalls
    BY <1>3
  <2>2. [upstream[t] EXCEPT !.asked = n] \in UpRecs /\ upstream[t] \in UpRecs
    BY <1>2, <2>1, UpFields
  <2>3. /\ upstream' \in [Threads -> UpRecs] /\ upstream'[t].asked = n
        /\ upstream'[t].items = upstream[t].items /\ upstream'[t].said = upstream[t].said
        /\ upstream'[t].on = upstream[t].on
        /\ \A s \in Threads : s # t => upstream'[s] = upstream[s]
    BY <1>1, <1>2, <2>2 DEF UpRecs
  <2>. QED
    BY <1>2, <1>3, <2>3
<1>6. ASSUME NEW c \in Calls
      PROVE  /\ CallStep(c) /\ ledger'[c] = ledger[c]
             /\ c # <<t, n>> => answers'[c] = answers[c]
  <2>1. CASE answers' = answers
    BY <1>1, <2>1 DEF CallStep
  <2>2. CASE answers' = [answers EXCEPT ![<<t, n>>] = @ + 1]
    <3>1. CASE c = <<t, n>>
      <4>1. answers'[c] = 1 /\ answers[c] = 0 /\ ledger[c] = "unborn" /\ Untouched(c)
        BY <1>2, <1>3, <1>4, <2>2, <3>1 DEF Untouched
      <4>2. c[2] <= upstream'[c[1]].asked
        BY <1>3, <1>5, <3>1
      <4>. QED
        BY <1>1, <3>1, <4>1, <4>2 DEF CallStep
    <3>2. CASE c # <<t, n>>
      BY <1>1, <1>2, <2>2, <3>2 DEF CallStep
    <3>. QED
      BY <3>1, <3>2
  <2>. QED
    BY <1>1, <2>1, <2>2
<1>7. ASSUME NEW q \in Requests, Pumping(q), Held(q), run'[q].tool = run[q].tool
      PROVE  Untouched(Asked(q))' /\ Asked(q)[2] <= upstream'[At(q)].asked
  <2>1. /\ Asked(q) \in Calls /\ Asked(q)[1] = At(q) /\ Untouched(Asked(q))
        /\ Asked(q)[2] <= upstream[At(q)].asked
    BY <1>7, HeldCall
  <2>2. At(q) \in Threads /\ Asked(q)[2] \in Nat
    BY <2>1, Constants
  <2>3. Asked(q) # <<t, n>>
    BY <1>2, <1>3, <2>1, <2>2
  <2>4. Asked(q)' = Asked(q)
    BY <1>7 DEF Asked
  <2>. QED
    BY <1>2, <1>5, <1>6, <2>1, <2>2, <2>3, <2>4 DEF Untouched
<1>8. Single' /\ (\A d \in Calls : Counted(d)') /\ Parks
  BY <1>5, <1>6, NoneParked
<1>9. CASE /\ i = 0 /\ answers' = [answers EXCEPT ![<<t, n>>] = @ + 1]
           /\ waiters' = waiters /\ run' = run
  <2>1. answers' \in [Calls -> Nat]
    BY <1>2, <1>3, <1>9
  <2>2. Shapes'
    BY <1>1, <1>2, <1>5, <1>9, <2>1 DEF Shapes, Bounded
  <2>3. Waits'
    BY <1>1, <1>2, <1>9 DEF Waits, Serves, Pumping, At, Note, Tool
  <2>4. \A s \in Threads : Still(s)
    BY <1>1, <1>2, <1>5, <1>9 DEF Still, Calm, At
  <2>5. Roads
    BY <1>9 DEF Roads, At
  <2>6. \A q \in Requests : Steered(q)' /\ Allowed(q)'
    <3>1. ASSUME NEW q \in Requests PROVE Moved(q)
      BY <1>1, <1>9, <3>1, Basics DEF Moved, Active, Pumping, Steered, Note, Tool
    <3>. QED
      BY <1>1, <1>6, <3>1, Onward DEF Contains
  <2>7. ASSUME NEW q \in Requests PROVE Carried(q)
    BY <1>1, <1>7, <1>9, SameCarried DEF Aborted
  <2>. QED
    BY <1>1, <1>2, <1>8, <2>2, <2>3, <2>4, <2>5, <2>6, <2>7, Keeps
<1>10. CASE /\ i # 0 /\ answers' = answers /\ waiters' = RemoveAt(waiters, i)
            /\ run' = [run EXCEPT ![w.by].tool = <<"call", t, n, name>>,
                  ![w.by].first = IF @ = "none" /\ run[w.by].pc = "race" THEN "tool" ELSE @]
  <2>1. i \in DOMAIN waiters /\ w.kind = "tool" /\ w.on = t
    BY <1>0, <1>2, <1>10, Matches
  <2>2. /\ w \in WaiterRecs /\ Serves(w) /\ w.by \in Requests /\ Pumping(w.by) /\ At(w.by) = t
        /\ w.live /\ Tool(w.by) = Waiting
    <3>1. w \in WaiterRecs /\ Serves(w)
      BY <1>0, <1>2, <2>1 DEF Waits
    <3>2. w.by \in Requests
      BY <3>1 DEF WaiterRecs
    <3>. QED
      BY <2>1, <3>1, <3>2 DEF Serves
  <2>3. PICK p \in Requests : p = w.by
    BY <2>2
  <2>4. PICK call, first : /\ call = <<"call", t, n, name>>
                           /\ first = IF run[p].first = "none" /\ run[p].pc = "race" THEN "tool" ELSE run[p].first
    OBVIOUS
  <2>5. run' = [run EXCEPT ![p] = [[run[p] EXCEPT !.tool = call] EXCEPT !.first = first]]
    BY <1>2, <1>10, <2>3, <2>4
  <2>6. /\ OnlyRun(p) /\ run'[p].pc = run[p].pc /\ run'[p].at = run[p].at /\ run'[p].tools = run[p].tools
        /\ run'[p].acl = run[p].acl /\ run'[p].seen = run[p].seen /\ run'[p].note = run[p].note
        /\ run'[p].tool = call /\ run'[p].first = first
    <3>1. run[p] \in RunRecs
      BY <1>2
    <3>2. call \in ToolPromises /\ first \in {"none", "note", "tool"}
      BY <1>3, <2>4, <3>1, RunFields DEF ToolPromises
    <3>3. [run[p] EXCEPT !.tool = call] \in RunRecs
      BY <3>1, <3>2, RunFields
    <3>4. [[run[p] EXCEPT !.tool = call] EXCEPT !.first = first] \in RunRecs
      BY <3>2, <3>3, RunFields
    <3>. QED
      BY <1>2, <2>5, <3>1, <3>4 DEF OnlyRun, RunRecs
  <2>7. call[1] = "call" /\ call[2] = t /\ call[3] = n /\ call # None /\ call # Waiting /\ Settled(call)
    BY <2>4 DEF None, Waiting, Settled
  <2>8. /\ waiters' \in Seq(WaiterRecs) /\ Within(waiters', waiters)
        /\ \A j \in DOMAIN waiters' : \E a \in DOMAIN waiters : a # i /\ waiters'[j] = waiters[a]
        /\ \A a \in DOMAIN waiters : a # i => \E j \in DOMAIN waiters' : waiters'[j] = waiters[a]
    <3>1. /\ waiters' \in Seq(WaiterRecs) /\ Within(waiters', waiters)
          /\ \A a \in DOMAIN waiters : a # i => \E j \in DOMAIN waiters' : waiters'[j] = waiters[a]
          /\ \A j \in DOMAIN waiters' : /\ waiters'[j] = (IF j < i THEN waiters[j] ELSE waiters[j + 1])
                                        /\ j \in DOMAIN waiters /\ j + 1 \in DOMAIN waiters
      BY <1>2, <1>10, <2>1, Removes
    <3>2. \A j \in DOMAIN waiters' : j \in Nat /\ i \in Nat
      BY <1>2, <2>1, <3>1
    <3>3. ASSUME NEW j \in DOMAIN waiters' PROVE \E a \in DOMAIN waiters : a # i /\ waiters'[j] = waiters[a]
      <4>1. CASE j < i
        BY <3>1, <3>2, <4>1
      <4>2. CASE ~(j < i)
        <5>1. j + 1 # i
          BY <3>2, <4>2
        <5>. QED
          BY <3>1, <4>2, <5>1
      <4>. QED
        BY <4>1, <4>2
    <3>. QED
      BY <3>1, <3>3
  <2>9. Shapes'
    BY <1>1, <1>2, <1>5, <1>10, <2>6, <2>8 DEF Shapes, Bounded, OnlyRun
  <2>10. Waits'
    <3>1. ASSUME NEW u \in WaiterRecs, \E j \in DOMAIN waiters' : waiters'[j] = u PROVE Serves(u)'
      <4>1. PICK a \in DOMAIN waiters : a # i /\ waiters[a] = u
        BY <2>8, <3>1
      <4>2. Serves(u) /\ u.by \in Requests /\ u.kind \in {"note", "tool"}
        BY <1>2, <4>1 DEF Waits, WaiterRecs
      <4>3. CASE u.by # p
        BY <1>1, <2>6, <4>1, <4>2, <4>3, StillServes DEF OnlyRun
      <4>4. CASE u.by = p /\ u.kind = "note"
        BY <1>1, <2>6, <4>2, <4>4 DEF Serves, Pumping, At, Note
      <4>5. CASE u.by = p /\ u.kind = "tool"
        <5>1. u = w
          BY <2>1, <2>2, <2>3, <4>2, <4>5, SameWaiter DEF Serves
        <5>. QED
          BY <1>0, <1>2, <2>1, <2>2, <4>1, <5>1 DEF Waits
      <4>. QED
        BY <4>2, <4>3, <4>4, <4>5
    <3>. QED
      BY <2>8, <3>1, StillWaits
  <2>11. \A q \in Requests : run'[q].pc = run[q].pc /\ run'[q].at = run[q].at /\ run'[q].tools = run[q].tools
    BY <2>6 DEF OnlyRun
  <2>12. \A s \in Threads : Still(s)
    BY <1>1, <1>2, <1>5, <2>11, Constants DEF Still, Calm, At
  <2>13. Roads
    BY <2>11 DEF Roads, At
  <2>14. \A q \in Requests : Steered(q)' /\ Allowed(q)'
    <3>1. ASSUME NEW q \in Requests PROVE Moved(q)
      <4>1. Steered(q)
        BY Basics
      <4>2. CASE q = p
        BY <1>1, <2>2, <2>3, <2>6, <4>1, <4>2 DEF Moved, Active, Pumping
      <4>3. CASE q # p
        <5>1. run'[q] = run[q]
          BY <2>6, <4>3 DEF OnlyRun
        <5>. QED
          BY <1>1, <4>1, <5>1 DEF Moved, Active, Pumping, Steered, Note, Tool
      <4>. QED
        BY <4>2, <4>3
    <3>. QED
      BY <1>1, <1>6, <3>1, Onward DEF Contains
  <2>15. Carried(p)
    <3>1. Awaiting(p) /\ Pumping(p)
      BY <2>2, <2>3, Basics
    <3>2. Note(p) = Waiting => Listens(p, "note")'
      <4>1. SUFFICES ASSUME Note(p) = Waiting PROVE Listens(p, "note")'
        OBVIOUS
      <4>2. PICK a \in DOMAIN waiters : waiters[a] = Waiter("note", p, t)
        BY <2>2, <2>3, <3>1, <4>1 DEF Awaiting, Listens
      <4>3. a # i
        BY <1>0, <2>1, <4>2 DEF Waiter
      <4>4. \E j \in DOMAIN waiters' : waiters'[j] = Waiter("note", p, t)
        BY <2>8, <4>2, <4>3
      <4>5. At(p)' = t
        BY <2>2, <2>3, <2>6 DEF At
      <4>. QED
        BY <4>4, <4>5 DEF Listens, Waiter
    <3>3. Asked(p)' = <<t, n>> /\ Untouched(<<t, n>>)'
      BY <1>1, <1>4, <1>10, <2>6, <2>7 DEF Asked, Untouched
    <3>4. Clauses(p)'
      <4>1. /\ run'[p].pc = "loop" => run'[p].note = None /\ run'[p].first = "none"
            /\ ~(run'[p].pc = "race" /\ run'[p].first = "none")
            /\ run'[p].first = "note" => Settled(run'[p].note)
            /\ run'[p].first = "tool" => Settled(run'[p].tool)
        BY <2>4, <2>6, <2>7, <3>1 DEF Awaiting, Note, Tool
      <4>2. run'[p].tool # Waiting /\ At(p)' = t /\ upstream'[t].asked = n
        BY <1>5, <2>2, <2>3, <2>6, <2>7 DEF At
      <4>. QED
        BY <1>3, <2>6, <2>7, <3>2, <3>3, <4>1, <4>2 DEF Clauses, Note, Tool, Held
    <3>5. run[p].tool = Waiting /\ run'[p].tool # None
      BY <2>2, <2>3, <2>6, <2>7 DEF Tool
    <3>6. \A k : Queued(p, k) => Queued(p, k)'
      BY <1>1 DEF Queued
    <3>. QED
      BY <1>1, <2>6, <3>4, <3>5, <3>6 DEF Carried, Aborted
  <2>16. ASSUME NEW q \in Requests PROVE Carried(q)
    <3>1. CASE q # p
      <4>1. run'[q] = run[q] /\ out'[q] = out[q] /\ (Aborted(q) => Aborted(q)')
        BY <1>1, <2>6, <3>1 DEF OnlyRun, Aborted
      <4>2. \A a \in DOMAIN waiters : waiters[a].by = q =>
              \E j \in DOMAIN waiters' : waiters'[j] = waiters[a]
        BY <1>0, <2>3, <2>8, <3>1
      <4>3. \A a \in DOMAIN queue : \E j \in DOMAIN queue' : queue'[j] = queue[a]
        BY <1>1
      <4>. QED
        BY <1>7, <4>1, <4>2, <4>3, SameCarried
    <3>. QED
      BY <2>15, <3>1
  <2>. QED
    BY <1>1, <1>2, <1>8, <2>9, <2>10, <2>12, <2>13, <2>14, <2>16, Keeps
<1>. QED
  BY <1>1, <1>9, <1>10

-------------------------------------------------------------------------------
(* A notification that arrives.                                            *)

(* What thread t has said once it has said n.                              *)
Hears(n, t) ==
  /\ n \in Lines /\ t = n[2] /\ upstream[t].on /\ t \notin lost
  /\ upstream' \in [Threads -> UpRecs]
  /\ \A s \in Threads : s # t => upstream'[s] = upstream[s]
  /\ upstream'[t].asked = upstream[t].asked /\ upstream'[t].items >= upstream[t].items
  /\ upstream[t].said \subseteq upstream'[t].said
  /\ \A k \in upstream'[t].said : k \in upstream[t].said \/ n = <<"delta", t, k>>
  /\ \A k \in upstream'[t].said : k <= upstream'[t].items + 1
  /\ \A k \in Nat : Past(t, k) => Past(t, k)' /\ (n[1] = "delta" => k < n[3]) /\ (n[1] = "item" => k <= n[3])
  /\ n[1] \in {"delta", "item"} => Past(t, n[3])'
  /\ n[1] = "delta" => n[3] \in upstream'[t].said
  /\ n[1] = "item" => n[3] <= upstream'[t].items
  /\ n[1] = "done" => ~upstream'[t].on /\ upstream'[t].said = upstream[t].said

LEMMA Hearing ==
  ASSUME IInv, NEW t \in Threads, ReceiveText(t) \/ ReceiveUsage(t) \/ ReceiveTurnEnd(t)
  PROVE  \E n : Hears(n, t) /\ Notify(n)
<1>1. /\ upstream \in [Threads -> UpRecs] /\ upstream[t] \in UpRecs /\ Speech(t) /\ MaxItems \in Nat
      /\ t \notin lost /\ upstream[t].on = TRUE /\ upstream[t].on
  <2>1. upstream \in [Threads -> UpRecs] /\ Speech(t) /\ MaxItems \in Nat
    BY Basics, Sorts, Constants
  <2>2. t \notin lost /\ upstream[t].on
    BY DEF ReceiveText, ReceiveUsage, ReceiveTurnEnd, Speaks
  <2>3. upstream[t].on \in BOOLEAN
    BY <2>1, UpFields
  <2>. QED
    BY <2>1, <2>2, <2>3
<1>2. /\ upstream[t].items \in 0..MaxItems /\ upstream[t].said \in SUBSET (1..MaxItems)
      /\ \A k \in upstream[t].said : k <= upstream[t].items + 1
  BY <1>1, UpFields DEF Speech
<1>3. PICK item : item = upstream[t].items + 1
  OBVIOUS
<1>4. ASSUME item <= MaxItems, item \notin upstream[t].said,
             upstream' = [upstream EXCEPT ![t].said = @ \cup {item}]
      PROVE  Hears(<<"delta", t, item>>, t)
  <2>1. item \in 1..MaxItems /\ upstream[t].said \cup {item} \in SUBSET (1..MaxItems)
    BY <1>1, <1>2, <1>3, <1>4
  <2>2. [upstream[t] EXCEPT !.said = upstream[t].said \cup {item}] \in UpRecs
    BY <1>1, <2>1, UpFields
  <2>3. /\ upstream' \in [Threads -> UpRecs] /\ \A s \in Threads : s # t => upstream'[s] = upstream[s]
        /\ upstream'[t].asked = upstream[t].asked /\ upstream'[t].items = upstream[t].items
        /\ upstream'[t].said = upstream[t].said \cup {item}
    BY <1>1, <1>4, <2>2 DEF UpRecs
  <2>4. PICK n : n = <<"delta", t, item>>
    OBVIOUS
  <2>5. n \in Lines /\ n[1] = "delta" /\ n[2] = t /\ n[3] = item
    BY <2>1, <2>4 DEF Lines
  <2>6. \A k \in Nat : Past(t, k) => Past(t, k)' /\ k < item
    BY <1>1, <1>2, <1>3, <1>4, <2>3 DEF Past
  <2>7. Past(t, item)' /\ \A k \in upstream'[t].said : k <= upstream'[t].items + 1
    BY <1>2, <1>3, <2>1, <2>3 DEF Past
  <2>8. \A k \in upstream'[t].said : k \in upstream[t].said \/ n = <<"delta", t, k>>
    BY <2>3, <2>4
  <2>9. upstream'[t].items >= upstream[t].items
    BY <1>2, <2>3
  <2>10. Hears(n, t)
    BY <1>1, <2>3, <2>5, <2>6, <2>7, <2>8, <2>9 DEF Hears
  <2>. QED
    BY <2>4, <2>10
<1>5. ASSUME item <= MaxItems, upstream' = [upstream EXCEPT ![t].items = item]
      PROVE  Hears(<<"item", t, item>>, t)
  <2>1. item \in 1..MaxItems /\ item \in 0..MaxItems
    BY <1>1, <1>2, <1>3, <1>5
  <2>2. [upstream[t] EXCEPT !.items = item] \in UpRecs
    BY <1>1, <2>1, UpFields
  <2>3. /\ upstream' \in [Threads -> UpRecs] /\ \A s \in Threads : s # t => upstream'[s] = upstream[s]
        /\ upstream'[t].asked = upstream[t].asked /\ upstream'[t].items = item
        /\ upstream'[t].said = upstream[t].said
    BY <1>1, <1>5, <2>2 DEF UpRecs
  <2>4. PICK n : n = <<"item", t, item>>
    OBVIOUS
  <2>5. n \in Lines /\ n[1] = "item" /\ n[2] = t /\ n[3] = item
    BY <2>1, <2>4 DEF Lines
  <2>6. \A k \in Nat : Past(t, k) => Past(t, k)' /\ k <= item
    BY <1>1, <1>2, <1>3, <2>3 DEF Past
  <2>7. Past(t, item)' /\ \A k \in upstream'[t].said : k <= upstream'[t].items + 1
    BY <1>2, <1>3, <2>1, <2>3 DEF Past
  <2>8. upstream'[t].items >= upstream[t].items /\ item <= upstream'[t].items
    BY <1>2, <1>3, <2>1, <2>3
  <2>9. Hears(n, t)
    BY <1>1, <2>3, <2>5, <2>6, <2>7, <2>8 DEF Hears
  <2>. QED
    BY <2>4, <2>9
<1>6. ASSUME NEW n \in {<<"usage", t, 0>>, <<"done", t, 0>>}, upstream' \in [Threads -> UpRecs],
             \A s \in Threads : s # t => upstream'[s] = upstream[s],
             upstream'[t].asked = upstream[t].asked, upstream'[t].items = upstream[t].items,
             upstream'[t].said = upstream[t].said, n[1] = "done" => ~upstream'[t].on
      PROVE  Hears(n, t)
  <2>1. n \in Lines /\ n[1] \in {"usage", "done"} /\ n[2] = t
    BY <1>6 DEF Lines
  <2>2. \A k \in Nat : Past(t, k) => Past(t, k)'
    BY <1>6 DEF Past
  <2>3. upstream'[t].items >= upstream[t].items
    BY <1>2, <1>6
  <2>. QED
    BY <1>1, <1>2, <1>6, <2>1, <2>2, <2>3 DEF Hears
<1>7. CASE ReceiveText(t)
  BY <1>3, <1>4, <1>5, <1>7 DEF ReceiveText
<1>8. CASE ReceiveUsage(t)
  <2>1. upstream' = [upstream EXCEPT ![t].usage = @ + 1] /\ Notify(<<"usage", t, 0>>)
    BY <1>8 DEF ReceiveUsage
  <2>2. upstream[t].usage + 1 \in Nat
    BY <1>1, UpFields
  <2>3. [upstream[t] EXCEPT !.usage = upstream[t].usage + 1] \in UpRecs
    BY <1>1, <2>2, UpFields
  <2>4. /\ upstream' \in [Threads -> UpRecs] /\ \A s \in Threads : s # t => upstream'[s] = upstream[s]
        /\ upstream'[t].asked = upstream[t].asked /\ upstream'[t].items = upstream[t].items
        /\ upstream'[t].said = upstream[t].said
    BY <1>1, <2>1, <2>3 DEF UpRecs
  <2>5. Hears(<<"usage", t, 0>>, t)
    BY <1>6, <2>4
  <2>. QED
    BY <2>1, <2>5
<1>9. CASE ReceiveTurnEnd(t)
  <2>1. upstream' = [upstream EXCEPT ![t].on = FALSE] /\ Notify(<<"done", t, 0>>)
    BY <1>9 DEF ReceiveTurnEnd
  <2>2. [upstream[t] EXCEPT !.on = FALSE] \in UpRecs
    BY <1>1, UpFields
  <2>3. /\ upstream' \in [Threads -> UpRecs] /\ \A s \in Threads : s # t => upstream'[s] = upstream[s]
        /\ upstream'[t].asked = upstream[t].asked /\ upstream'[t].items = upstream[t].items
        /\ upstream'[t].said = upstream[t].said /\ ~upstream'[t].on
    BY <1>1, <2>1, <2>2 DEF UpRecs
  <2>4. Hears(<<"done", t, 0>>, t)
    BY <1>6, <2>3
  <2>. QED
    BY <2>1, <2>4
<1>. QED
  BY <1>7, <1>8, <1>9

(* The buffer after line n: what it held, in order, and n at its end.      *)
Queues(n) ==
  /\ queue' \in Seq(Lines) /\ Len(queue') <= QueueLimit
  /\ \A i \in DOMAIN queue' : queue'[i] = n \/ \E a \in DOMAIN queue : queue[a] = queue'[i]
  /\ \A i, j \in DOMAIN queue' : i < j => \E a \in DOMAIN queue :
       /\ queue'[i] = queue[a]
       /\ queue'[j] = n \/ \E b \in DOMAIN queue : a < b /\ queue'[j] = queue[b]
  /\ \A a \in DOMAIN queue : queue[a][2] # n[2] =>
       queue[a][2] \in evicted' \/ \E i \in DOMAIN queue' : queue'[i] = queue[a]
  /\ evicted \subseteq evicted'
  /\ n[1] = "item" => \A i \in DOMAIN queue' : \E a \in DOMAIN queue : queue[a] = queue'[i]

LEMMA Buffering ==
  ASSUME IInv, NEW n \in Lines, n[1] # "item", queue' = Buffered(n), evicted' = evicted \cup PushedOut(n)
  PROVE  /\ Queues(n) /\ \E i \in DOMAIN queue' : queue'[i] = n
         /\ \A a \in DOMAIN queue : queue[a][2] \in evicted' \/ \E i \in DOMAIN queue' : queue'[i] = queue[a]
<1> DEFINE N == Len(queue)  q == Append(queue, n)
<1>1. queue \in Seq(Lines) /\ N \in Nat /\ N <= QueueLimit /\ QueueLimit \in Nat \ {0}
  BY Basics, Sorts, Constants
<1>2. /\ q \in Seq(Lines) /\ Len(q) = N + 1 /\ q[N + 1] = n /\ DOMAIN q = 1..(N + 1)
      /\ \A a \in 1..N : q[a] = queue[a]
      /\ DOMAIN queue = 1..N
  BY <1>1
<1>3. /\ queue' = IF Len(q) > QueueLimit THEN Tail(q) ELSE q
      /\ PushedOut(n) = IF N = QueueLimit THEN {Head(q)[2]} ELSE {}
  BY DEF Buffered, PushedOut
<1> HIDE DEF q, N
<1>4. \A i, j \in 1..(N + 1) : i < j => i \in 1..N /\ (j \in 1..N \/ j = N + 1)
  BY <1>1
<1>5. CASE N = QueueLimit
  <2>1. /\ queue' = Tail(q) /\ q # <<>>
    BY <1>1, <1>2, <1>3, <1>5
  <2>2. /\ Tail(q) \in Seq(Lines) /\ Len(Tail(q)) = Len(q) - 1 /\ Head(q) = q[1]
        /\ \A i \in DOMAIN Tail(q) : i + 1 \in DOMAIN q /\ Tail(q)[i] = q[i + 1]
        /\ \A a \in DOMAIN q : a = 1 \/ (a - 1 \in DOMAIN Tail(q) /\ Tail(q)[a - 1] = q[a])
    BY <1>2, <2>1, Tails
  <2>3. /\ queue' \in Seq(Lines) /\ Len(queue') = N /\ DOMAIN queue' = 1..N
        /\ \A i \in 1..N : i + 1 \in 1..(N + 1) /\ queue'[i] = q[i + 1]
        /\ \A a \in 1..(N + 1) : a = 1 \/ \E i \in 1..N : queue'[i] = q[a]
    BY <1>1, <1>2, <2>1, <2>2
  <2>4. 1 \in 1..N /\ evicted' = evicted \cup {queue[1][2]}
    BY <1>1, <1>2, <1>3, <1>5, <2>2
  <2>5. \A a \in DOMAIN queue : queue[a][2] \in evicted' \/ \E i \in DOMAIN queue' : queue'[i] = queue[a]
    <3>1. ASSUME NEW a \in 1..N PROVE queue[a][2] \in evicted' \/ \E i \in 1..N : queue'[i] = queue[a]
      <4>1. a \in 1..(N + 1)
        BY <1>1
      <4>2. q[a] = queue[a]
        BY <1>2
      <4>3. CASE a = 1
        BY <2>4, <4>3
      <4>4. CASE \E i \in 1..N : queue'[i] = q[a]
        BY <4>2, <4>4
      <4>. QED
        BY <2>3, <4>1, <4>3, <4>4
    <3>. QED
      BY <1>2, <2>3, <3>1
  <2>6. \E i \in DOMAIN queue' : queue'[i] = n
    <3>1. N + 1 \in 1..(N + 1) /\ N + 1 # 1
      BY <1>1, <1>5
    <3>. QED
      BY <1>2, <2>3, <3>1
  <2>7. ASSUME NEW i \in DOMAIN queue', NEW j \in DOMAIN queue', i < j
        PROVE  \E a \in DOMAIN queue : /\ queue'[i] = queue[a]
                                       /\ queue'[j] = n \/ \E b \in DOMAIN queue : a < b /\ queue'[j] = queue[b]
    <3>1. i + 1 \in 1..N /\ queue'[i] = queue[i + 1] /\ i + 1 < j + 1 /\ j + 1 \in 1..(N + 1) /\ queue'[j] = q[j + 1]
      <4>1. i \in 1..N /\ j \in 1..N
        BY <2>3
      <4>2. i + 1 \in 1..N /\ i + 1 < j + 1
        BY <1>1, <2>7, <4>1
      <4>3. queue'[i] = q[i + 1] /\ queue'[j] = q[j + 1] /\ j + 1 \in 1..(N + 1)
        BY <2>3, <4>1
      <4>. QED
        BY <1>2, <4>2, <4>3
    <3>2. queue'[j] = n \/ (j + 1 \in 1..N /\ queue'[j] = queue[j + 1])
      <4>1. j + 1 = N + 1 \/ j + 1 \in 1..N
        BY <1>1, <3>1
      <4>. QED
        BY <1>2, <3>1, <4>1
    <3>. QED
      BY <1>2, <3>1, <3>2
  <2>8. \A i \in DOMAIN queue' : queue'[i] = n \/ \E a \in DOMAIN queue : queue[a] = queue'[i]
    <3>1. ASSUME NEW i \in 1..N PROVE queue'[i] = n \/ \E a \in 1..N : queue[a] = queue'[i]
      <4>1. i + 1 = N + 1 \/ i + 1 \in 1..N
        BY <1>1
      <4>2. queue'[i] = q[i + 1]
        BY <2>3
      <4>. QED
        BY <1>2, <4>1, <4>2
    <3>. QED
      BY <1>2, <2>3, <3>1
  <2>9. Queues(n)
    BY <1>1, <1>5, <2>3, <2>4, <2>5, <2>7, <2>8 DEF Queues
  <2>. QED
    BY <2>5, <2>6, <2>9
<1>6. CASE N # QueueLimit
  <2>1. queue' = q /\ evicted' = evicted /\ N + 1 <= QueueLimit
    BY <1>1, <1>2, <1>3, <1>6
  <2>2. N + 1 \in 1..(N + 1) /\ \A a \in 1..N : a \in 1..(N + 1)
    BY <1>1
  <2>3. \A a \in DOMAIN queue : \E i \in DOMAIN queue' : queue'[i] = queue[a]
    BY <1>2, <2>1, <2>2
  <2>4. \A i \in DOMAIN queue' : queue'[i] = n \/ \E a \in DOMAIN queue : queue[a] = queue'[i]
    <3>1. \A i \in 1..(N + 1) : i = N + 1 \/ i \in 1..N
      BY <1>1
    <3>. QED
      BY <1>2, <2>1, <3>1
  <2>5. ASSUME NEW i \in DOMAIN queue', NEW j \in DOMAIN queue', i < j
        PROVE  \E a \in DOMAIN queue : /\ queue'[i] = queue[a]
                                       /\ queue'[j] = n \/ \E b \in DOMAIN queue : a < b /\ queue'[j] = queue[b]
    <3>1. i \in 1..N /\ (j \in 1..N \/ j = N + 1)
      BY <1>2, <1>4, <2>1, <2>5
    <3>. QED
      BY <1>2, <2>1, <2>5, <3>1
  <2>6. Queues(n)
    BY <1>2, <2>1, <2>3, <2>4, <2>5 DEF Queues
  <2>. QED
    BY <1>2, <2>1, <2>2, <2>3, <2>6
<1>. QED
  BY <1>5, <1>6

LEMMA KeepHears ==
  ASSUME IInv, NEW t \in Threads, NEW n, Hears(n, t), Queues(n),
         UNCHANGED <<protocolFailed, cancel, answers, out, activeTurns, parkedTurns, threadToolAcl, ledger,
                     down, lost, draining>>,
         run' \in [Requests -> RunRecs], waiters' \in Seq(WaiterRecs), Waits',
         \A q \in Requests : /\ run'[q].pc = run[q].pc /\ run'[q].at = run[q].at
                             /\ run'[q].tools = run[q].tools /\ run'[q].acl = run[q].acl
                             /\ ~Pumping(q) \/ At(q) # t => run'[q] = run[q],
         \A a \in DOMAIN waiters : waiters[a].on # t => \E i \in DOMAIN waiters' : waiters'[i] = waiters[a],
         \A q \in Requests : At(q) = t /\ Active(q) => Awaiting(q)' /\ InOrder(q)' /\ Whole(q)'
  PROVE  IInv'
<1>1. /\ Shapes /\ Buffers /\ \A s \in Threads : upstream[s].asked \in Nat
      /\ queue \in Seq(Lines) /\ n \in Lines /\ n[2] = t /\ t \notin lost /\ upstream[t].on
      /\ upstream \in [Threads -> UpRecs]
  BY Basics, Sorts, SameUpstream DEF Hears
<1>2. /\ upstream' \in [Threads -> UpRecs] /\ upstream'[t].asked = upstream[t].asked
      /\ \A s \in Threads : s # t => upstream'[s] = upstream[s]
      /\ \A s \in Threads : upstream'[s].asked = upstream[s].asked
  BY DEF Hears
<1>3. queue' \in Seq(Lines) /\ Len(queue') <= QueueLimit /\ evicted \subseteq evicted'
  BY DEF Queues
<1>4. Shapes'
  BY <1>1, <1>2, <1>3 DEF Shapes, Bounded
<1>5. \A q \in Requests : Steered(q)' /\ Allowed(q)'
  <2>1. ASSUME NEW q \in Requests PROVE Moved(q)
    <3>1. Steered(q)
      BY Basics
    <3>. QED
      BY <3>1 DEF Moved, Active, Pumping, Steered, Note, Tool
  <2>. QED
    BY <2>1, Onward DEF Contains
<1>6. Single' /\ (\A d \in Calls : Counted(d)') /\ Parks
  <2>1. \A s \in Threads : upstream'[s].asked \in Nat /\ upstream'[s].asked >= upstream[s].asked
    BY <1>1, <1>2
  <2>. QED
    BY <2>1, NoneParked DEF CallStep
<1>7. Roads
  BY DEF Roads, At
<1>8. ASSUME NEW s \in Threads, s # t PROVE Calm(s)
  <2>1. \A i \in DOMAIN queue' : queue'[i][2] = s => \E a \in DOMAIN queue : queue[a] = queue'[i]
    BY <1>1, <1>8 DEF Queues
  <2>. QED
    BY <1>1, <1>2, <1>3, <1>8, <2>1 DEF Calm
<1>9. ASSUME NEW q \in Requests PROVE Awaiting(q)' /\ InOrder(q)' /\ Whole(q)'
  <2>1. CASE At(q) # t
    <3>1. Pumping(q) => \A a \in DOMAIN waiters : waiters[a].by = q /\ waiters[a].on = At(q) /\ waiters[a].live =>
                         \E i \in DOMAIN waiters' : waiters'[i] = waiters[a]
      BY <2>1
    <3>2. ASSUME Pumping(q), Held(q)
          PROVE  Untouched(Asked(q))' /\ Asked(q)[2] <= upstream'[At(q)].asked
      <4>1. /\ Asked(q) \in Calls /\ Asked(q)[1] = At(q) /\ Untouched(Asked(q))
            /\ Asked(q)[2] <= upstream[At(q)].asked
        BY <3>2, HeldCall
      <4>2. At(q) \in Threads /\ run'[q] = run[q]
        BY <2>1, <4>1, Constants
      <4>3. Asked(q)' = Asked(q)
        BY <4>2 DEF Asked
      <4>. QED
        BY <1>2, <4>1, <4>2, <4>3 DEF Untouched
    <3>3. Active(q) /\ At(q) = q => \A a \in DOMAIN queue : queue[a][2] = q =>
             q \in evicted' \/ \E i \in DOMAIN queue' : queue'[i] = queue[a]
      BY <1>1, <2>1 DEF Queues
    <3>4. Carried(q)
      <4>1. run'[q] = run[q] /\ out'[q] = out[q] /\ (Aborted(q) => Aborted(q)')
        BY <2>1 DEF Aborted
      <4>. QED
        BY <3>1, <3>2, <3>3, <4>1, SameCarried
    <3>. QED
      BY <1>6, <1>7, <1>8, <2>1, <3>4, Carries, CarriesWhole
  <2>2. CASE At(q) = t /\ Active(q)
    BY <2>2
  <2>3. CASE At(q) = t /\ ~Active(q)
    <3>1. ~Pumping(q) /\ run'[q] = run[q] /\ out'[q] = out[q] /\ InOrder(q) /\ Whole(q) /\ Steered(q)
      BY <2>3, Basics DEF Pumping, Active
    <3>2. Awaiting(q)'
      BY <3>1 DEF Awaiting, Pumping
    <3>3. InOrder(q)'
      <4>1. run[q].note = None
        BY <3>1 DEF Steered, Note
      <4>. QED
        BY <3>1, <4>1, Promises DEF InOrder, Pumping, Note, At
    <3>4. Whole(q)'
      <4>1. SUFFICES ASSUME Plain(q)' PROVE Whole(q)'
        BY DEF Whole
      <4>2. Plain(q) /\ q = t
        BY <2>3, <3>1, <4>1 DEF Plain, Declared, At
      <4>3. ~Parked(q)' /\ \A p \in Requests : At(p)' = q => p = q
        BY <1>6, <1>7, <4>2, Spared
      <4>4. ~Active(q)'
        BY <2>3 DEF Active
      <4>5. ~(out'[q].end = "completed" /\ q \notin evicted')
        BY <1>1, <1>3, <3>1, <4>2 DEF Whole
      <4>. QED
        BY <4>3, <4>4, <4>5 DEF Whole
    <3>. QED
      BY <3>2, <3>3, <3>4
  <2>. QED
    BY <2>1, <2>2, <2>3
<1>10. Buffers'
  <2>1. \A k \in upstream[t].said : k \in Nat /\ Past(t, k)
    <3>1. upstream[t].said \in SUBSET (1..MaxItems) /\ Speech(t)
      BY <1>1, UpFields, Basics
    <3>. QED
      BY <3>1 DEF Past, Speech
  <2>2. ASSUME NEW i \in DOMAIN queue'
        PROVE  LET e == queue'[i] IN
               /\ e[1] # "item" /\ e[2] \notin lost'
               /\ e[1] = "delta" => e[3] \in upstream'[e[2]].said
               /\ e[1] = "done" => ~upstream'[e[2]].on
    <3>1. PICK e : e = queue'[i]
      OBVIOUS
    <3>2. CASE \E a \in DOMAIN queue : queue[a] = e
      <4>1. PICK a \in DOMAIN queue : queue[a] = e
        BY <3>2
      <4>2. /\ e[1] # "item" /\ e[2] \notin lost /\ e[2] \in Threads
            /\ e[1] = "delta" => e[3] \in upstream[e[2]].said
            /\ e[1] = "done" => ~upstream[e[2]].on
        <5>1. e \in Lines
          BY <1>1, <4>1
        <5>. QED
          BY <1>1, <4>1, <5>1, LineFields DEF Buffers
      <4>3. upstream[t].said \subseteq upstream'[t].said
        BY DEF Hears
      <4>4. CASE e[2] = t
        BY <1>1, <3>1, <4>2, <4>3, <4>4
      <4>5. CASE e[2] # t
        BY <1>2, <3>1, <4>2, <4>5
      <4>. QED
        BY <4>4, <4>5
    <3>3. CASE ~\E a \in DOMAIN queue : queue[a] = e
      <4>1. e = n /\ n[1] # "item"
        BY <3>1, <3>3 DEF Queues
      <4>. QED
        BY <1>1, <3>1, <4>1 DEF Hears
    <3>. QED
      BY <3>2, <3>3
  <2>3. ASSUME NEW i \in DOMAIN queue', NEW j \in DOMAIN queue', i < j,
               queue'[i][1] = "delta", queue'[j][1] = "delta", queue'[i][2] = queue'[j][2]
        PROVE  queue'[i][3] < queue'[j][3]
    <3>1. PICK a \in DOMAIN queue : /\ queue'[i] = queue[a]
                                    /\ queue'[j] = n \/ \E b \in DOMAIN queue : a < b /\ queue'[j] = queue[b]
      BY <2>3 DEF Queues
    <3>2. CASE queue'[j] = n
      <4>1. queue[a][1] = "delta" /\ queue[a][2] = t /\ n[1] = "delta"
        BY <1>1, <2>3, <3>1, <3>2
      <4>2. queue[a][3] \in upstream[t].said
        BY <1>1, <4>1 DEF Buffers
      <4>. QED
        BY <2>1, <3>1, <3>2, <4>1, <4>2 DEF Hears
    <3>3. CASE \E b \in DOMAIN queue : a < b /\ queue'[j] = queue[b]
      BY <1>1, <2>3, <3>1, <3>3 DEF Buffers
    <3>. QED
      BY <3>1, <3>2, <3>3
  <2>. QED
    BY <2>2, <2>3 DEF Buffers
<1>11. ASSUME NEW s \in Threads PROVE Speech(s)'
  <2>1. CASE s # t
    <3>1. At(s)' = At(s) /\ run'[s].pc = run[s].pc /\ Speech(s)
      BY Constants, Basics DEF At
    <3>. QED
      BY <1>2, <1>8, <2>1, <3>1, SpeechKept DEF Speech
  <2>2. CASE s = t
    <3>1. At(t) = t /\ run[t].pc # "starting"
      BY <1>1, Basics DEF Speech
    <3>2. At(t)' = t /\ run'[t].pc # "starting"
      BY <3>1, Constants DEF At
    <3>. QED
      BY <2>2, <3>2 DEF Speech, Hears
  <2>. QED
    BY <2>1, <2>2
<1>. QED
  BY <1>4, <1>5, <1>6, <1>9, <1>10, <1>11 DEF IInv, Client

(* A request on the thread that speaks, when the line is not for it.       *)
LEMMA Overhears ==
  ASSUME IInv, NEW t \in Threads, NEW n, Hears(n, t), Queues(n),
         NEW q \in Requests, At(q) = t, Active(q),
         UNCHANGED <<run, cancel, answers, ledger, out, lost, protocolFailed>>,
         \A a \in DOMAIN waiters : waiters[a].by = q /\ waiters[a].live =>
            \E i \in DOMAIN waiters' : waiters'[i] = waiters[a],
         Note(q) = Waiting => Quieted(t)',
         Plain(q) => /\ \A a \in DOMAIN queue : queue[a][2] = t =>
                          t \in evicted' \/ \E i \in DOMAIN queue' : queue'[i] = queue[a]
                     /\ n[1] = "delta" => \E i \in DOMAIN queue' : queue'[i] = n
  PROVE  Awaiting(q)' /\ InOrder(q)' /\ Whole(q)'
<1>1. /\ Awaiting(q) /\ InOrder(q) /\ Whole(q) /\ At(q)' = t /\ Note(q)' = Note(q) /\ Tool(q)' = Tool(q)
      /\ \A p \in Requests : At(p)' = At(p)
      /\ queue \in Seq(Lines) /\ n \in Lines /\ n[2] = t /\ upstream[t].on /\ evicted \subseteq evicted'
  BY Basics, Sorts DEF Hears, Queues, At, Note, Tool
<1>2. upstream[t].items \in Nat /\ upstream'[t].items \in Nat /\ upstream'[t].items >= upstream[t].items
  <2>1. upstream[t] \in UpRecs /\ upstream'[t] \in UpRecs /\ upstream'[t].items >= upstream[t].items
    BY Basics, Sorts DEF Hears
  <2>. QED
    BY <2>1, UpFields, Constants
<1>3. ASSUME NEW kind, Listens(q, kind) PROVE Listens(q, kind)'
  <2>1. PICK a \in DOMAIN waiters : waiters[a] = Waiter(kind, q, At(q))
    BY <1>3 DEF Listens
  <2>2. waiters[a].by = q /\ waiters[a].live
    BY <2>1 DEF Waiter
  <2>3. \E i \in DOMAIN waiters' : waiters'[i] = Waiter(kind, q, At(q))
    BY <2>1, <2>2
  <2>. QED
    BY <1>1, <2>3 DEF Listens, Waiter
<1>4. Awaiting(q)'
  <2>1. upstream'[t].asked = upstream[t].asked
    BY DEF Hears
  <2>. QED
    BY <1>1, <1>3, <2>1 DEF Awaiting, Pumping, Note, Tool, Held, Asked, Untouched, At
<1>5. ASSUME NEW k \in Nat, Past(t, k), Later(t, k) PROVE Past(t, k)' /\ Later(t, k)'
  <2>1. Past(t, k)' /\ (n[1] = "delta" => k < n[3])
    BY <1>5 DEF Hears
  <2>2. ASSUME NEW i \in DOMAIN queue', queue'[i][1] = "delta", queue'[i][2] = t PROVE k < queue'[i][3]
    <3>1. queue'[i] = n \/ \E a \in DOMAIN queue : queue[a] = queue'[i]
      BY DEF Queues
    <3>. QED
      BY <1>5, <2>1, <2>2, <3>1 DEF Later
  <2>. QED
    BY <2>1, <2>2 DEF Later
<1>6. InOrder(q)'
  <2>1. out[q].text \in Seq(Threads \X (1..MaxItems)) /\ Note(q) \in Notes
    <3>1. out[q] \in OutRecs /\ run[q] \in RunRecs
      BY Basics, Sorts
    <3>. QED
      BY <3>1, OutFields, RunFields DEF Note
  <2>2. \A i \in DOMAIN out[q].text : out[q].text[i][2] \in Nat
    BY <2>1, Constants
  <2>3. ASSUME Note(q) \in Lines, Note(q)[1] \in {"delta", "item"}
        PROVE  Past(t, Note(q)[3])' /\ Later(t, Note(q)[3])'
    <3>1. Note(q)[3] \in Nat
      BY <2>3, LineFields, Constants
    <3>. QED
      BY <1>1, <1>5, <2>3, <3>1 DEF InOrder
  <2>4. Note(q) \in Lines /\ Note(q)[1] = "item" => Note(q)[3] <= upstream'[t].items
    <3>1. SUFFICES ASSUME Note(q) \in Lines, Note(q)[1] = "item" PROVE Note(q)[3] <= upstream'[t].items
      OBVIOUS
    <3>2. Note(q)[3] \in Nat /\ Note(q)[3] <= upstream[t].items
      BY <1>1, <3>1, LineFields, Constants DEF InOrder
    <3>. QED
      BY <1>2, <3>2
  <2>5. Pumping(q) => \A i \in DOMAIN out[q].text : LET k == out[q].text[i][2] IN
           /\ k \in run[q].seen /\ Past(t, k)' /\ Later(t, k)'
           /\ Note(q)[1] = "delta" => k < Note(q)[3]
           /\ Note(q)[1] = "item"  => k <= Note(q)[3]
    BY <1>1, <1>5, <2>2 DEF InOrder
  <2>6. Note(q)[1] # "done"
    BY <1>1 DEF InOrder
  <2>7. Pumping(q)' <=> Pumping(q)
    BY DEF Pumping
  <2>. QED
    BY <1>1, <2>3, <2>4, <2>5, <2>6, <2>7 DEF InOrder
<1>7. Whole(q)'
  <2>1. SUFFICES ASSUME Plain(q)' PROVE Whole(q)'
    BY DEF Whole
  <2>2. Plain(q) /\ q = t
    BY <1>1, <2>1 DEF Plain, Declared
  <2>3. ~Parked(q)' /\ \A p \in Requests : At(p)' = q => p = q
    <3>1. ~Parked(q) /\ \A p \in Requests : At(p) = q => p = q
      BY <1>1, <2>2 DEF Whole
    <3>. QED
      BY <1>1, <3>1, Pending DEF Parked
  <2>4. Note(q)[1] # "done"
    BY <1>1 DEF InOrder
  <2>5. ASSUME run[q].pc # "starting", ~Aborted(q), q \notin evicted', q \notin lost, ~protocolFailed,
               NEW k \in upstream'[q].said
        PROVE  Told(q, k) \/ Note(q) = <<"delta", q, k>> \/ Queued(q, k)'
    <3>1. CASE k \in upstream[q].said
      <4>1. Told(q, k) \/ Note(q) = <<"delta", q, k>> \/ Queued(q, k)
        BY <1>1, <2>2, <2>4, <2>5, <3>1 DEF Whole
      <4>2. Queued(q, k) => Queued(q, k)'
        BY <2>2, <2>5 DEF Queued
      <4>. QED
        BY <4>1, <4>2
    <3>2. CASE n = <<"delta", t, k>>
      BY <2>2, <3>2 DEF Queued
    <3>. QED
      BY <2>2, <3>1, <3>2 DEF Hears
  <2>6. ~(out'[q].end = "completed" /\ q \notin evicted')
    BY <1>1, <2>2 DEF Whole
  <2>7. \A k : Told(q, k)' <=> Told(q, k)
    BY DEF Told
  <2>. QED
    BY <1>1, <2>3, <2>4, <2>5, <2>6, <2>7 DEF Whole, Aborted
<1>. QED
  BY <1>4, <1>6, <1>7

(* A line nobody awaits any more, or that only an abandoned waiter gets.   *)
LEMMA KeepUnheard ==
  ASSUME IInv, NEW t \in Threads, NEW n, Hears(n, t), Queues(n),
         UNCHANGED <<run, protocolFailed, cancel, answers, out, activeTurns, parkedTurns, threadToolAcl,
                     ledger, down, lost, draining>>,
         waiters' \in Seq(WaiterRecs), Within(waiters', waiters),
         \A a \in DOMAIN waiters : waiters[a].on # t \/ waiters[a].live =>
            \E i \in DOMAIN waiters' : waiters'[i] = waiters[a],
         \/ /\ \A a \in DOMAIN waiters : ~(waiters[a].kind = "note" /\ waiters[a].on = t)
            /\ \A a \in DOMAIN queue : queue[a][2] = t =>
                 t \in evicted' \/ \E i \in DOMAIN queue' : queue'[i] = queue[a]
            /\ n[1] = "delta" => \E i \in DOMAIN queue' : queue'[i] = n
         \/ /\ \E a \in DOMAIN waiters : waiters[a].on = t /\ ~waiters[a].live
            /\ \A i \in DOMAIN queue' : \E a \in DOMAIN queue : queue[a] = queue'[i]
  PROVE  IInv'
<1>1. Waits /\ waiters \in Seq(WaiterRecs) /\ run \in [Requests -> RunRecs]
  BY Basics, Sorts
<1>2. Waits'
  <2>1. ASSUME NEW w \in WaiterRecs, \E i \in DOMAIN waiters' : waiters'[i] = w PROVE Serves(w)'
    <3>1. \E a \in DOMAIN waiters : waiters[a] = w
      BY <2>1 DEF Within
    <3>. QED
      BY <2>1, <3>1, StillServes
  <2>. QED
    BY <2>1, StillWaits
<1>3. ASSUME NEW q \in Requests, At(q) = t, Active(q) PROVE Awaiting(q)' /\ InOrder(q)' /\ Whole(q)'
  <2>1. CASE /\ \A a \in DOMAIN waiters : ~(waiters[a].kind = "note" /\ waiters[a].on = t)
             /\ \A a \in DOMAIN queue : queue[a][2] = t =>
                  t \in evicted' \/ \E i \in DOMAIN queue' : queue'[i] = queue[a]
             /\ n[1] = "delta" => \E i \in DOMAIN queue' : queue'[i] = n
    <3>1. Note(q) # Waiting
      <4>1. SUFFICES ASSUME Note(q) = Waiting PROVE FALSE
        OBVIOUS
      <4>2. Pumping(q)
        BY <4>1, Basics, Promises DEF Steered
      <4>3. Listens(q, "note")
        BY <4>1, <4>2, Basics DEF Awaiting
      <4>4. PICK a \in DOMAIN waiters : waiters[a] = Waiter("note", q, t)
        BY <1>3, <4>3 DEF Listens
      <4>5. waiters[a].kind = "note" /\ waiters[a].on = t
        BY <4>4 DEF Waiter
      <4>. QED
        BY <2>1, <4>5
    <3>. QED
      BY <1>3, <2>1, <3>1, Overhears
  <2>2. CASE /\ \E a \in DOMAIN waiters : waiters[a].on = t /\ ~waiters[a].live
             /\ \A i \in DOMAIN queue' : \E a \in DOMAIN queue : queue[a] = queue'[i]
    <3>1. Note(q) = Waiting => Quieted(t)'
      <4>1. Note(q) = Waiting => Quieted(t)
        BY <1>3, Basics DEF InOrder
      <4>. QED
        BY <2>2, <4>1 DEF Quieted
    <3>2. ~Plain(q)
      <4>1. SUFFICES ASSUME Plain(q) PROVE FALSE
        OBVIOUS
      <4>2. PICK a \in DOMAIN waiters : waiters[a].on = t /\ ~waiters[a].live
        BY <2>2
      <4>3. PICK w \in WaiterRecs : w = waiters[a]
        BY <1>1
      <4>4. w.by \in Requests /\ Serves(w) /\ w.on = t /\ ~w.live
        BY <1>1, <4>2, <4>3 DEF Waits, WaiterRecs
      <4>5. At(w.by) = t /\ run[w.by].acl # {}
        BY <4>4 DEF Serves
      <4>6. w.by = q
        <5>1. q = t
          BY <1>3, <4>1 DEF Plain
        <5>2. Whole(q)
          BY Basics
        <5>. QED
          BY <4>1, <4>4, <4>5, <5>1, <5>2 DEF Whole
      <4>7. run[q].acl = {}
        BY <1>3, <4>1, Basics DEF Allowed, Plain, Declared
      <4>. QED
        BY <4>5, <4>6, <4>7
    <3>. QED
      BY <1>3, <3>1, <3>2, Overhears
  <2>. QED
    BY <2>1, <2>2
<1>. QED
  BY <1>1, <1>2, <1>3, KeepHears

(* A line that the pump of its thread awaits.                              *)
Delivers(n, t, i) ==
  /\ i \in DOMAIN waiters /\ waiters[i].kind = "note" /\ waiters[i].on = t /\ waiters[i].live
  /\ waiters' = RemoveAt(waiters, i)
  /\ \A a \in DOMAIN queue' : \E b \in DOMAIN queue : queue[b] = queue'[a]
  /\ run' = [run EXCEPT ![waiters[i].by].note = n,
                        ![waiters[i].by].first = IF @ = "none" THEN "note" ELSE @]

LEMMA KeepHeard ==
  ASSUME IInv, NEW t \in Threads, NEW n, Hears(n, t), Queues(n), NEW i, Delivers(n, t, i),
         UNCHANGED <<protocolFailed, cancel, answers, out, activeTurns, parkedTurns, threadToolAcl,
                     ledger, down, lost, draining>>
  PROVE  IInv'
<1>0. PICK w : w = waiters[i]
  OBVIOUS
<1>00. /\ i \in DOMAIN waiters /\ w.kind = "note" /\ w.on = t /\ w.live
      /\ waiters' = RemoveAt(waiters, i)
      /\ \A a \in DOMAIN queue' : \E b \in DOMAIN queue : queue[b] = queue'[a]
  BY <1>0 DEF Delivers
<1>01. run' = [run EXCEPT ![w.by].note = n, ![w.by].first = IF @ = "none" THEN "note" ELSE @]
  BY <1>0 DEF Delivers
<1>1. /\ Waits /\ waiters \in Seq(WaiterRecs) /\ run \in [Requests -> RunRecs]
      /\ n \in Lines /\ n[2] = t /\ t \notin lost /\ evicted \subseteq evicted'
      /\ n # None /\ n # Waiting /\ Settled(n) /\ n \in Notes
  <2>1. n \in Lines
    BY DEF Hears
  <2>. QED
    BY <2>1, Basics, Sorts, Promises DEF Hears, Queues, Notes
<1>2. w \in WaiterRecs /\ Serves(w) /\ w.by \in Requests
  <2>1. w \in WaiterRecs /\ Serves(w)
    BY <1>0, <1>00, <1>1 DEF Waits
  <2>. QED
    BY <2>1 DEF WaiterRecs
<1>3. PICK p \in Requests : p = w.by
  BY <1>2
<1>4. Pumping(p) /\ At(p) = t /\ Note(p) = Waiting /\ ~protocolFailed /\ Active(p)
  BY <1>00, <1>1, <1>2, <1>3 DEF Serves, Pumping, Active
<1>5. Steered(p) /\ Awaiting(p) /\ InOrder(p) /\ Whole(p)
  BY Basics
<1>6. run[p].pc = "race" /\ Quieted(t)
  <2>1. run[p].pc # "loop" /\ Quieted(t)
    BY <1>4, <1>5, Promises DEF Awaiting, InOrder
  <2>. QED
    BY <1>4, <2>1 DEF Pumping
<1>7. Quieted(t)'
  BY <1>00, <1>6 DEF Quieted
<1>8. PICK first : first = IF run[p].first = "none" THEN "note" ELSE run[p].first
  OBVIOUS
<1>9. run' = [run EXCEPT ![p] = [[run[p] EXCEPT !.note = n] EXCEPT !.first = first]]
  BY <1>01, <1>1, <1>3, <1>8
<1>10. /\ OnlyRun(p) /\ run'[p].pc = run[p].pc /\ run'[p].at = run[p].at /\ run'[p].tools = run[p].tools
       /\ run'[p].acl = run[p].acl /\ run'[p].seen = run[p].seen /\ run'[p].note = n
       /\ run'[p].tool = run[p].tool /\ run'[p].first = first
  <2>1. run[p] \in RunRecs
    BY <1>1
  <2>2. first \in {"none", "note", "tool"}
    BY <1>8, <2>1, RunFields
  <2>3. [run[p] EXCEPT !.note = n] \in RunRecs
    BY <1>1, <2>1, RunFields
  <2>4. [[run[p] EXCEPT !.note = n] EXCEPT !.first = first] \in RunRecs
    BY <2>2, <2>3, RunFields
  <2>. QED
    BY <1>1, <1>9, <2>1, <2>4 DEF OnlyRun, RunRecs
<1>11. \A q \in Requests : /\ run'[q].pc = run[q].pc /\ run'[q].at = run[q].at
                           /\ run'[q].tools = run[q].tools /\ run'[q].acl = run[q].acl
                           /\ q # p => run'[q] = run[q]
  BY <1>10 DEF OnlyRun
<1>12. /\ waiters' \in Seq(WaiterRecs) /\ Within(waiters', waiters)
       /\ \A j \in DOMAIN waiters' : \E a \in DOMAIN waiters : a # i /\ waiters'[j] = waiters[a]
       /\ \A a \in DOMAIN waiters : a # i => \E j \in DOMAIN waiters' : waiters'[j] = waiters[a]
  <2>1. /\ waiters' \in Seq(WaiterRecs) /\ Within(waiters', waiters)
        /\ \A a \in DOMAIN waiters : a # i => \E j \in DOMAIN waiters' : waiters'[j] = waiters[a]
        /\ \A j \in DOMAIN waiters' : /\ waiters'[j] = (IF j < i THEN waiters[j] ELSE waiters[j + 1])
                                      /\ j \in DOMAIN waiters /\ j + 1 \in DOMAIN waiters
    <3>1. waiters \in Seq(WaiterRecs) /\ i \in DOMAIN waiters /\ waiters' = RemoveAt(waiters, i)
      BY <1>00, <1>1
    <3>. QED
      BY <3>1, Removes
  <2>2. \A j \in DOMAIN waiters' : j \in Nat /\ i \in Nat
    BY <1>00, <1>1, <2>1
  <2>3. ASSUME NEW j \in DOMAIN waiters' PROVE \E a \in DOMAIN waiters : a # i /\ waiters'[j] = waiters[a]
    <3>1. CASE j < i
      BY <2>1, <2>2, <3>1
    <3>2. CASE ~(j < i)
      <4>1. j + 1 # i
        BY <2>2, <3>2
      <4>. QED
        BY <2>1, <3>2, <4>1
    <3>. QED
      BY <3>1, <3>2
  <2>. QED
    BY <2>1, <2>3
<1>13. Waits'
  <2>1. ASSUME NEW u \in WaiterRecs, \E j \in DOMAIN waiters' : waiters'[j] = u PROVE Serves(u)'
    <3>1. PICK a \in DOMAIN waiters : a # i /\ waiters[a] = u
      BY <1>12, <2>1
    <3>2. Serves(u) /\ u.by \in Requests /\ u.kind \in {"note", "tool"}
      BY <1>1, <3>1 DEF Waits, WaiterRecs
    <3>3. CASE u.by # p
      BY <1>10, <3>1, <3>2, <3>3, StillServes DEF OnlyRun
    <3>4. CASE u.by = p /\ u.kind = "tool"
      BY <1>10, <3>2, <3>4 DEF Serves, Pumping, At, Tool
    <3>5. CASE u.by = p /\ u.kind = "note" /\ ~u.live
      BY <1>10, <3>2, <3>5 DEF Serves, Pumping, At, Note
    <3>6. CASE u.by = p /\ u.kind = "note" /\ u.live
      <4>1. u = w
        BY <1>00, <1>2, <1>3, <1>4, <3>2, <3>6, SameWaiter DEF Serves
      <4>. QED
        BY <1>0, <1>00, <1>1, <3>1, <4>1 DEF Waits
    <3>. QED
      BY <3>2, <3>3, <3>4, <3>5, <3>6
  <2>. QED
    BY <1>12, <2>1, StillWaits
<1>14. Awaiting(p)'
  <2>1. Tool(p) = Waiting => Listens(p, "tool")'
    <3>1. SUFFICES ASSUME Tool(p) = Waiting PROVE Listens(p, "tool")'
      OBVIOUS
    <3>2. PICK a \in DOMAIN waiters : waiters[a] = Waiter("tool", p, t)
      BY <1>4, <1>5, <3>1 DEF Awaiting, Listens
    <3>3. a # i
      BY <1>0, <1>00, <3>2 DEF Waiter
    <3>4. \E j \in DOMAIN waiters' : waiters'[j] = Waiter("tool", p, t)
      BY <1>12, <3>2, <3>3
    <3>5. At(p)' = t
      BY <1>4, <1>10 DEF At
    <3>. QED
      BY <3>4, <3>5 DEF Listens, Waiter
  <2>2. /\ first # "none" /\ (first = "note" => Settled(n))
        /\ first = "tool" => Settled(Tool(p))
    BY <1>1, <1>4, <1>5, <1>8 DEF Awaiting
  <2>3. Held(p) => /\ Tool(p)[2] = t /\ Tool(p)[3] <= upstream'[t].asked /\ Untouched(Asked(p))
    BY <1>4, <1>5 DEF Awaiting, Hears
  <2>4. Asked(p)' = Asked(p) /\ At(p)' = t /\ Tool(p)' = Tool(p) /\ Note(p)' = n
    BY <1>4, <1>10 DEF Asked, At, Tool, Note
  <2>5. Tool(p) = None <=> run[p].acl = {}
    BY <1>4, <1>5 DEF Awaiting
  <2>. QED
    BY <1>1, <1>6, <1>10, <2>1, <2>2, <2>3, <2>4, <2>5 DEF Awaiting, Held, Untouched
<1>15. InOrder(p)'
  <2>1. \A k : Later(t, k)'
    BY <1>7 DEF Quieted, Later
  <2>2. out[p].text \in Seq(Threads \X (1..MaxItems))
    <3>1. out[p] \in OutRecs
      BY Basics, Sorts
    <3>. QED
      BY <3>1, OutFields
  <2>3. \A a \in DOMAIN out[p].text : LET k == out[p].text[a][2] IN
          /\ k \in run[p].seen /\ Past(t, k)' /\ Later(t, k)'
          /\ n[1] = "delta" => k < n[3]
          /\ n[1] = "item"  => k <= n[3]
    <3>1. ASSUME NEW a \in DOMAIN out[p].text, NEW k, k = out[p].text[a][2]
          PROVE  /\ k \in run[p].seen /\ Past(t, k)'
                 /\ n[1] = "delta" => k < n[3]
                 /\ n[1] = "item"  => k <= n[3]
      <4>1. k \in Nat /\ k \in run[p].seen /\ Past(t, k)
        BY <1>4, <1>5, <2>2, <3>1, Constants DEF InOrder
      <4>. QED
        BY <4>1 DEF Hears
    <3>. QED
      BY <2>1, <3>1
  <2>4. /\ n[1] \in {"delta", "item"} => Past(t, n[3])'
        /\ n[1] = "item" => n[3] <= upstream'[t].items
        /\ n[1] = "done" => ~upstream'[t].on
    BY DEF Hears
  <2>5. At(p)' = t /\ Note(p)' = n /\ out'[p] = out[p] /\ run'[p].pc = "race" /\ run'[p].seen = run[p].seen
    BY <1>4, <1>6, <1>10 DEF At, Note
  <2>6. /\ \A a \in DOMAIN out[p].text : out[p].text[a][1] = t
        /\ \A a, b \in DOMAIN out[p].text : a < b => out[p].text[a][2] < out[p].text[b][2]
    BY <1>4, <1>5 DEF InOrder
  <2>. QED
    BY <1>1, <2>1, <2>3, <2>4, <2>5, <2>6 DEF InOrder
<1>16. Whole(p)'
  <2>1. SUFFICES ASSUME Plain(p)' PROVE Whole(p)'
    BY DEF Whole
  <2>2. Plain(p) /\ p = t
    BY <1>4, <1>11, <2>1, Constants DEF Plain, Declared, At
  <2>3. ~Parked(p)' /\ \A q \in Requests : At(q)' = p => q = p
    <3>1. ~Parked(p) /\ \A q \in Requests : At(q) = p => q = p
      BY <1>5, <2>2 DEF Whole
    <3>2. \A q \in Requests : At(q)' = At(q)
      BY <1>11 DEF At
    <3>. QED
      BY <3>1, <3>2, Pending DEF Parked
  <2>4. ASSUME ~Aborted(p), p \notin evicted', NEW k \in upstream[p].said PROVE Told(p, k)
    <3>1. Note(p)[1] # "done" /\ Note(p) # <<"delta", p, k>>
      <4>1. Waiting[1] = "waiting"
        BY Promises
      <4>. QED
        BY <1>4, <4>1
    <3>2. Told(p, k) \/ Queued(p, k)
      BY <1>1, <1>4, <1>5, <1>6, <2>2, <2>4, <3>1 DEF Whole
    <3>3. ~Queued(p, k)
      BY <1>6, <2>2 DEF Queued, Quieted
    <3>. QED
      BY <3>2, <3>3
  <2>5. ASSUME ~Aborted(p), p \notin evicted', NEW k \in upstream'[p].said
        PROVE  Told(p, k) \/ (n = <<"delta", p, k>> /\ n[1] # "done")
    <3>1. k \in upstream[p].said \/ n = <<"delta", t, k>>
      BY <2>2 DEF Hears
    <3>. QED
      BY <2>2, <2>4, <2>5, <3>1
  <2>6. ~(out'[p].end = "completed" /\ p \notin evicted')
    BY <1>1, <1>5, <1>6, <2>2 DEF Whole
  <2>7. (\A k : Told(p, k)' <=> Told(p, k)) /\ Note(p)' = n /\ (Aborted(p)' <=> Aborted(p))
    BY <1>10 DEF Told, Note, Aborted
  <2>8. ASSUME Active(p)', run'[p].pc # "starting", ~Aborted(p)', p \notin evicted'
        PROVE  IF Note(p)'[1] = "done" THEN \A k \in upstream'[p].said : Told(p, k)'
               ELSE \A k \in upstream'[p].said : Told(p, k)' \/ Note(p)' = <<"delta", p, k>>
    BY <2>5, <2>7, <2>8
  <2>. QED
    BY <2>3, <2>6, <2>8 DEF Whole
<1>17. ASSUME NEW q \in Requests, At(q) = t, Active(q) PROVE q = p
  BY <1>4, <1>5, <1>17 DEF Steered, Alone
<1>18. \A q \in Requests : ~Pumping(q) \/ At(q) # t => run'[q] = run[q]
  BY <1>4, <1>11
<1>19. \A a \in DOMAIN waiters : waiters[a].on # t => \E j \in DOMAIN waiters' : waiters'[j] = waiters[a]
  BY <1>0, <1>00, <1>12
<1>20. run' \in [Requests -> RunRecs]
  BY <1>10 DEF OnlyRun
<1>. QED
  BY <1>11, <1>12, <1>13, <1>14, <1>15, <1>16, <1>17, <1>18, <1>19, <1>20, KeepHears

LEMMA KeepNotify ==
  ASSUME IInv, NEW t \in Threads, NEW n, Hears(n, t), Notify(n)
  PROVE  IInv'
<1>0. PICK i, w : i = Match("note", t) /\ w = waiters[i]
  OBVIOUS
<1>1. /\ Shapes /\ Waits /\ waiters \in Seq(WaiterRecs) /\ Within(waiters, waiters) /\ queue \in Seq(Lines)
      /\ Len(queue) <= QueueLimit /\ n \in Lines /\ n[2] = t
      /\ n[1] \in {"delta", "item", "usage", "done"}
  <2>1. n \in Lines /\ n[2] = t
    BY DEF Hears
  <2>. QED
    BY <2>1, LineFields, Basics, Sorts, WithinItself
<1>2. /\ waiters' = IF i = 0 THEN waiters ELSE RemoveAt(waiters, i)
      /\ queue' = IF i # 0 /\ n[1] = "done" THEN QueueWithout(t)
                  ELSE IF i = 0 /\ n[1] \in Supported THEN Buffered(n) ELSE queue
      /\ evicted' = IF i = 0 /\ n[1] \in Supported THEN evicted \cup PushedOut(n) ELSE evicted
      /\ run' = IF i # 0 /\ w.live
                THEN [run EXCEPT ![w.by].note = n, ![w.by].first = IF @ = "none" THEN "note" ELSE @]
                ELSE run
      /\ UNCHANGED <<protocolFailed, cancel, answers, out, activeTurns, parkedTurns, threadToolAcl, ledger,
                     down, lost, draining>>
  BY <1>0, <1>1 DEF Notify, LineFrame, books, server
<1>3. \/ i = 0 /\ \A a \in DOMAIN waiters : ~(waiters[a].kind = "note" /\ waiters[a].on = t)
      \/ i # 0 /\ i \in DOMAIN waiters /\ w.kind = "note" /\ w.on = t
  BY <1>0, <1>1, Matches
<1>4. ASSUME evicted' = evicted, queue' \in Seq(Lines), Len(queue') <= QueueLimit, Within(queue', queue),
             \A a \in DOMAIN queue : queue[a][2] # t => \E j \in DOMAIN queue' : queue'[j] = queue[a]
      PROVE  Queues(n) /\ \A j \in DOMAIN queue' : \E a \in DOMAIN queue : queue[a] = queue'[j]
  <2>1. \A j \in DOMAIN queue' : \E a \in DOMAIN queue : queue[a] = queue'[j]
    BY <1>4 DEF Within
  <2>2. \A j, k \in DOMAIN queue' : j < k => \E a \in DOMAIN queue :
          queue'[j] = queue[a] /\ \E b \in DOMAIN queue : a < b /\ queue'[k] = queue[b]
    BY <1>4 DEF Within
  <2>. QED
    BY <1>1, <1>4, <2>1, <2>2 DEF Queues
<1>5. CASE i = 0 /\ n[1] \in Supported
  <2>1. n[1] # "item"
    BY <1>5 DEF Supported
  <2>2. /\ Queues(n) /\ \E j \in DOMAIN queue' : queue'[j] = n
        /\ \A a \in DOMAIN queue : queue[a][2] \in evicted' \/ \E j \in DOMAIN queue' : queue'[j] = queue[a]
    BY <1>1, <1>2, <1>5, <2>1, Buffering
  <2>. QED
    BY <1>1, <1>2, <1>3, <1>5, <2>2, KeepUnheard
<1>6. CASE i = 0 /\ n[1] \notin Supported
  <2>1. n[1] = "item" /\ queue' = queue /\ evicted' = evicted
    BY <1>1, <1>2, <1>6 DEF Supported
  <2>2. Within(queue, queue)
    BY <1>1, WithinItself
  <2>3. Queues(n)
    BY <1>1, <1>4, <2>1, <2>2
  <2>4. n[1] # "delta" /\ \A a \in DOMAIN queue : \E j \in DOMAIN queue' : queue'[j] = queue[a]
    BY <2>1
  <2>. QED
    BY <1>1, <1>2, <1>3, <1>6, <2>3, <2>4, KeepUnheard
<1>7. CASE i # 0
  <2>1. Queues(n) /\ \A j \in DOMAIN queue' : \E a \in DOMAIN queue : queue[a] = queue'[j]
    <3>1. CASE n[1] = "done"
      <4>1. PurgesQueue(t) /\ Len(queue') <= QueueLimit
        BY <1>1, <1>2, <1>7, <3>1, QueuePurged
      <4>. QED
        BY <1>2, <1>4, <1>7, <4>1 DEF PurgesQueue
    <3>2. CASE n[1] # "done"
      <4>1. Within(queue, queue)
        BY <1>1, WithinItself
      <4>. QED
        BY <1>1, <1>2, <1>4, <1>7, <3>2, <4>1
    <3>. QED
      BY <3>1, <3>2
  <2>2. waiters' = RemoveAt(waiters, i)
    BY <1>2, <1>7
  <2>3. CASE w.live
    <3>1. Delivers(n, t, i)
      BY <1>0, <1>2, <1>3, <1>7, <2>1, <2>2, <2>3 DEF Delivers
    <3>. QED
      BY <1>2, <2>1, <3>1, KeepHeard
  <2>4. CASE ~w.live
    <3>1. /\ waiters' \in Seq(WaiterRecs) /\ Within(waiters', waiters)
          /\ \A a \in DOMAIN waiters : a # i => \E j \in DOMAIN waiters' : waiters'[j] = waiters[a]
      BY <1>1, <1>3, <1>7, <2>2, Removes
    <3>2. \A a \in DOMAIN waiters : waiters[a].on # t \/ waiters[a].live =>
            \E j \in DOMAIN waiters' : waiters'[j] = waiters[a]
      BY <1>0, <1>3, <1>7, <2>4, <3>1
    <3>3. \E a \in DOMAIN waiters : waiters[a].on = t /\ ~waiters[a].live
      BY <1>0, <1>3, <1>7, <2>4
    <3>. QED
      BY <1>2, <1>7, <2>1, <2>4, <3>1, <3>2, <3>3, KeepUnheard
  <2>. QED
    BY <2>3, <2>4
<1>. QED
  BY <1>5, <1>6, <1>7

-------------------------------------------------------------------------------
(* The invariant holds in every state.                                     *)
LEMMA Starts ==
  ASSUME Init
  PROVE  IInv
<1>1. /\ run = [r \in Requests |-> Fresh] /\ activeTurns = {} /\ parkedTurns = <<>> /\ threadToolAcl = <<>>
      /\ ledger = [c \in Calls |-> "unborn"] /\ cancel = [r \in Requests |-> "no"]
      /\ down = TRUE /\ lost = {} /\ draining = FALSE
      /\ upstream = [t \in Threads |-> [on |-> FALSE, items |-> 0, said |-> {}, usage |-> 0, asked |-> 0]]
      /\ answers = [c \in Calls |-> 0] /\ out = [r \in Requests |-> [text |-> <<>>, end |-> "none"]]
      /\ queue = <<>> /\ waiters = <<>> /\ protocolFailed = FALSE
  BY DEF Init, ClientInit, L!LedgerInit
<1>2. DOMAIN queue = {} /\ DOMAIN waiters = {} /\ Len(queue) = 0
  BY <1>1
<1>3. /\ Fresh \in RunRecs /\ Fresh.pc = "idle" /\ Fresh.at = Nobody /\ Fresh.note = None
      /\ Fresh.tool = None /\ Fresh.first = "none"
  BY DEF Fresh, RunRecs, Notes, ToolPromises
<1>4. Shapes
  <2>1. Bounded(<<>>)
    BY Constants DEF Bounded
  <2>2. [on |-> FALSE, items |-> 0, said |-> {}, usage |-> 0, asked |-> 0] \in UpRecs
    BY Constants DEF UpRecs
  <2>3. [text |-> <<>>, end |-> "none"] \in OutRecs
    BY DEF OutRecs
  <2>4. "unborn" \in L!Statuses
    BY DEF L!Statuses
  <2>5. queue \in Seq(Lines) /\ Len(queue) <= QueueLimit /\ waiters \in Seq(WaiterRecs)
    BY <1>1, <1>2, Constants
  <2>6. /\ run \in [Requests -> RunRecs] /\ out \in [Requests -> OutRecs]
        /\ cancel \in [Requests -> {"no", "gone", "asked", "answered"}]
        /\ upstream \in [Threads -> UpRecs]
        /\ ledger \in [Calls -> L!Statuses] /\ answers \in [Calls -> Nat]
    BY <1>1, <1>3, <2>2, <2>3, <2>4
  <2>. QED
    BY <1>1, <2>1, <2>5, <2>6 DEF Shapes
<1>5. Waits /\ Buffers
  BY <1>2 DEF Waits, Buffers
<1>6. \A c \in Calls : ledger[c] = "unborn" /\ answers[c] = 0 /\ c \notin L!Pending
  BY <1>1, Pending
<1>7. Single /\ \A c \in Calls : Counted(c)
  BY <1>6, Pending DEF Single, Counted, Untouched
<1>8. \A r \in Requests : /\ run[r] = Fresh /\ cancel[r] = "no" /\ At(r) = Nobody
                          /\ out[r].text = <<>> /\ out[r].end = "none"
  BY <1>1, <1>3 DEF At
<1>9. ASSUME NEW t \in Threads PROVE Speech(t)
  <2>1. /\ upstream[t].on = FALSE /\ upstream[t].items = 0 /\ upstream[t].said = {} /\ upstream[t].asked = 0
    BY <1>1
  <2>. QED
    BY <1>2, <2>1 DEF Speech, Quieted
<1>10. ASSUME NEW r \in Requests PROVE Client(r)
  <2>1. /\ ~Active(r) /\ ~Pumping(r) /\ ~Aborted(r) /\ At(r) \notin Threads /\ At(r) # r
        /\ r \notin activeTurns /\ run[r].pc = "idle" /\ Note(r) = None /\ Tool(r) = None
        /\ run[r].first = "none" /\ None \notin Lines /\ None # Waiting /\ None[1] = "none"
    BY <1>1, <1>3, <1>8, Constants, Promises DEF Active, Pumping, Aborted, Note, Tool
  <2>2. Steered(r)
    BY <1>8, <2>1 DEF Steered
  <2>3. Allowed(r) /\ Awaiting(r) /\ Whole(r)
    BY <2>1 DEF Allowed, Awaiting, Whole, Plain
  <2>4. InOrder(r)
    <3>1. DOMAIN out[r].text = {}
      BY <1>8
    <3>. QED
      BY <1>8, <2>1, <3>1 DEF InOrder
  <2>. QED
    BY <2>2, <2>3, <2>4 DEF Client
<1>. QED
  BY <1>4, <1>5, <1>7, <1>9, <1>10 DEF IInv

LEMMA KeepRequest ==
  ASSUME IInv, NEW r \in Requests, Request(r)
  PROVE  IInv'
BY KeepOpen, KeepContinue, KeepContinueUnmatched, KeepDisconnect DEF Request

LEMMA KeepPumpStep ==
  ASSUME IInv, NEW r \in Requests, PumpStep(r)
  PROVE  IInv'
BY KeepBegin, KeepStop, KeepAwait, KeepToolReleased, KeepNoteFailed, KeepTakeText, KeepTakeTurnEnd,
   KeepRefuseCall, KeepCallOverflows, KeepParkCall, KeepCancelCleanup DEF PumpStep

LEMMA KeepOutput ==
  ASSUME IInv, NEW t \in Threads, Output(t)
  PROVE  IInv'
<1>1. ASSUME ReceiveText(t) \/ ReceiveUsage(t) \/ ReceiveTurnEnd(t) PROVE IInv'
  <2>1. PICK n : Hears(n, t) /\ Notify(n)
    BY <1>1, Hearing
  <2>. QED
    BY <2>1, KeepNotify
<1>. QED
  BY <1>1, KeepReceiveStarted, KeepReceiveRefusal, KeepReceiveToolCall DEF Output

LEMMA KeepNothing ==
  ASSUME IInv, UNCHANGED vars
  PROVE  IInv'
<1>1. UNCHANGED <<queue, waiters, protocolFailed, run, activeTurns, parkedTurns, threadToolAcl, ledger, cancel,
                  down, lost, draining, upstream, answers, out, evicted>>
  BY DEF vars, clientVars, books, server
<1>2. Shapes' /\ Waits' /\ Buffers'
  BY <1>1, Basics DEF Shapes, Bounded, Waits, Serves, Pumping, At, Note, Tool, Buffers
<1>3. \A c : c \in (L!Pending)' <=> c \in L!Pending
  BY <1>1, Pending
<1>4. Single' /\ \A c \in Calls : Counted(c)'
  BY <1>1, <1>3, Basics DEF Single, Counted, Untouched
<1>5. ASSUME NEW t \in Threads PROVE Speech(t)'
  BY <1>1, Basics DEF Speech, At, Quieted
<1>6. ASSUME NEW r \in Requests PROVE Client(r)'
  <2>1. Steered(r)' /\ Allowed(r)'
    BY <1>1, <1>3, Basics DEF Steered, Allowed, Active, Aborted, At, Parked, Alone, Pumping, Note, Tool,
                              Contains, Declared
  <2>2. Awaiting(r)'
    BY <1>1, Basics DEF Awaiting, Pumping, At, Note, Tool, Held, Untouched, Asked, Listens
  <2>3. InOrder(r)'
    BY <1>1, Basics DEF InOrder, Pumping, At, Note, Past, Later, Quieted
  <2>4. Whole(r)'
    <3>1. Whole(r) /\ (Parked(r)' <=> Parked(r)) /\ (Plain(r)' <=> Plain(r))
      BY <1>1, <1>3, Basics DEF Parked, Plain, At, Declared
    <3>2. \A k : (Told(r, k)' <=> Told(r, k)) /\ (Queued(r, k)' <=> Queued(r, k))
      BY <1>1 DEF Told, Queued
    <3>3. /\ (Active(r)' <=> Active(r)) /\ (Aborted(r)' <=> Aborted(r)) /\ Note(r)' = Note(r)
          /\ \A q \in Requests : At(q)' = At(q)
      BY <1>1 DEF Active, Aborted, Note, At
    <3>. QED
      BY <1>1, <3>1, <3>2, <3>3 DEF Whole
  <2>. QED
    BY <2>1, <2>2, <2>3, <2>4 DEF Client
<1>. QED
  BY <1>2, <1>4, <1>5, <1>6 DEF IInv

(* The inductive invariant: what every state of the adapter satisfies.     *)
THEOREM Invariant == Spec => []IInv
<1>1. Init => IInv
  BY Starts
<1>2. IInv /\ [Next]_vars => IInv'
  <2>. SUFFICES ASSUME IInv, [Next]_vars PROVE IInv'
    OBVIOUS
  <2>1. CASE \E r \in Requests : Request(r) \/ PumpStep(r) \/ ReceiveInterrupted(r)
    BY <2>1, KeepRequest, KeepPumpStep, KeepReceiveInterrupted
  <2>2. CASE \E t \in Threads : Output(t)
    BY <2>2, KeepOutput
  <2>3. CASE \E c \in Calls : CallExpires(c)
    BY <2>3, KeepCallExpires
  <2>4. CASE WaiterExpires
    BY <2>4, KeepWaiterExpires
  <2>5. CASE ReceiveGarbage
    BY <2>5, KeepReceiveGarbage
  <2>6. CASE Exit
    BY <2>6, KeepExit
  <2>7. CASE UNCHANGED vars
    BY <2>7, KeepNothing
  <2>. QED
    BY <2>1, <2>2, <2>3, <2>4, <2>5, <2>6, <2>7 DEF Next, Steady, Prompt
<1>. QED
  BY <1>1, <1>2, PTL DEF Spec

-------------------------------------------------------------------------------
(* What is remembered of a thread's declaration.                           *)

(* The map is in order of age: behind an entry stand only threads that     *)
(* began after it.                                                         *)
Aged(m, age) == \A i \in DOMAIN m : m[i] \in Threads /\ Len(m) <= age[m[i]] + i
Outrun(t) == later[t] >= MaxTracked
Kept(t)   == Contains(threadToolAcl, t) \/ Outrun(t)

(* A request accepts its thread's declaration, and as long as it may park  *)
(* a call that declaration is kept for the continuation.                   *)
Original(q) == Active(q) =>
  /\ run[q].acl = Declared(At(q)) \/ Outrun(At(q))
  /\ ~Aborted(q) /\ run[q].acl # {} /\ (At(q) # q \/ Pumping(q)) => Kept(At(q))
Memory ==
  /\ later \in [Threads -> Nat] /\ Aged(threadToolAcl, later)
  /\ \A c \in Calls : ledger[c] = "pending" => Kept(c[1])
  /\ \A q \in Requests : Original(q)

LEMMA ForgetsInOrder ==
  ASSUME NEW m, Bounded(m), NEW age \in [Threads -> Nat], Aged(m, age), NEW S
  PROVE  /\ Aged(Without(m, S), age)
         /\ \A t : Contains(m, t) /\ t \notin S => Contains(Without(m, S), t)
<1> DEFINE w == Without(m, S)
<1>1. m \in Seq(Requests) /\ Len(m) \in Nat /\ DOMAIN m = 1..Len(m)
  BY DEF Bounded
<1>2. w \in Seq(Requests) /\ Left(w, m, S, Len(m))
  BY <1>1, WithoutLeft
<1> HIDE DEF w
<1>3. DOMAIN w = 1..Len(w) /\ Len(w) \in Nat
  BY <1>2
<1>4. ASSUME NEW i \in 1..Len(w) PROVE w[i] \in Threads /\ Len(w) <= age[w[i]] + i
  <2>1. PICK a \in 1..Len(m) : w[i] = m[a] /\ Len(w) + a <= Len(m) + i
    BY <1>2 DEF Left
  <2>2. m[a] \in Threads /\ Len(m) <= age[m[a]] + a /\ age[m[a]] \in Nat
    BY <1>1 DEF Aged
  <2>. QED
    BY <1>1, <1>3, <2>1, <2>2
<1>5. \A a \in 1..Len(m) : m[a] \notin S => \E i \in 1..Len(w) : w[i] = m[a]
  BY <1>2 DEF Left
<1>6. \A t : Contains(m, t) /\ t \notin S => Contains(w, t)
  BY <1>1, <1>3, <1>5 DEF Contains
<1>. QED
  BY <1>3, <1>4, <1>6 DEF Aged, w

(* A thread that begins: the others are one thread older, and whoever is   *)
(* pushed out has MaxTracked threads behind it.                            *)
LEMMA RemembersInOrder ==
  ASSUME NEW m, Bounded(m), NEW age \in [Threads -> Nat], Aged(m, age), NEW x \in Threads,
         NEW aged, aged = [t \in Threads |-> IF t = x THEN 0 ELSE age[t] + 1]
  PROVE  /\ Aged(Remembered(m, x), aged) /\ Contains(Remembered(m, x), x)
         /\ \A t \in Threads : Contains(m, t) /\ t # x =>
              Contains(Remembered(m, x), t) \/ aged[t] >= MaxTracked
<1> DEFINE w == Without(m, {x})  a == Append(w, x)
<1>1. Bounded(w) /\ Aged(w, age) /\ \A t : Contains(m, t) /\ t # x => Contains(w, t)
  BY Forgets, ForgetsInOrder
<1>2. w \in Seq(Requests) /\ \A i \in DOMAIN w : w[i] # x
  BY Withouts DEF Bounded
<1>3. Remembered(m, x) = IF Len(a) > MaxTracked THEN Tail(a) ELSE a
  BY DEF Remembered
<1>4. MaxTracked \in Nat \ {0} /\ Threads \subseteq Requests
  BY Constants
<1> HIDE DEF w
<1>5. /\ a \in Seq(Requests) /\ Len(a) = Len(w) + 1 /\ a[Len(w) + 1] = x /\ Len(w) \in Nat
      /\ DOMAIN w = 1..Len(w) /\ DOMAIN a = 1..Len(a) /\ \A i \in 1..Len(w) : a[i] = w[i]
  BY <1>2, <1>4
<1> HIDE DEF a
<1>6. ASSUME NEW i \in 1..Len(a) PROVE a[i] \in Threads /\ Len(a) <= aged[a[i]] + i /\ aged[a[i]] \in Nat
  <2>1. CASE i \in 1..Len(w)
    <3>1. a[i] = w[i] /\ w[i] # x /\ w[i] \in Threads /\ Len(w) <= age[w[i]] + i /\ age[w[i]] \in Nat
      BY <1>1, <1>2, <1>5, <2>1 DEF Aged
    <3>2. aged[a[i]] = age[w[i]] + 1
      BY <3>1
    <3>. QED
      BY <1>5, <3>1, <3>2
  <2>2. CASE i = Len(w) + 1
    <3>1. a[i] = x /\ aged[x] = 0
      BY <1>5, <2>2
    <3>. QED
      BY <1>5, <2>2, <3>1
  <2>. QED
    BY <1>5, <2>1, <2>2
<1>7. \A t : (Contains(m, t) /\ t # x) \/ t = x => \E i \in 1..Len(a) : a[i] = t
  <2>1. \A t : Contains(w, t) => \E i \in 1..Len(w) : w[i] = t
    BY <1>5 DEF Contains
  <2>2. Len(w) + 1 \in 1..Len(a) /\ \A i \in 1..Len(w) : i \in 1..Len(a)
    BY <1>5
  <2>. QED
    BY <1>1, <1>5, <2>1, <2>2
<1>8. CASE Len(a) > MaxTracked
  <2>1. /\ Len(Tail(a)) = Len(a) - 1 /\ Tail(a) \in Seq(Requests) /\ DOMAIN Tail(a) = 1..(Len(a) - 1)
        /\ \A i \in 1..(Len(a) - 1) : Tail(a)[i] = a[i + 1]
    BY <1>4, <1>5, <1>8, Tails
  <2>2. ASSUME NEW i \in 1..(Len(a) - 1)
        PROVE  Tail(a)[i] \in Threads /\ Len(Tail(a)) <= aged[Tail(a)[i]] + i
    <3>1. i + 1 \in 1..Len(a) /\ Tail(a)[i] = a[i + 1]
      BY <1>5, <2>1
    <3>2. a[i + 1] \in Threads /\ Len(a) <= aged[a[i + 1]] + (i + 1) /\ aged[a[i + 1]] \in Nat
      BY <1>6, <3>1
    <3>. QED
      BY <1>5, <2>1, <3>1, <3>2
  <2>3. ASSUME NEW j \in 1..Len(a), ~Contains(Tail(a), a[j]) PROVE j = 1
    <3>1. j # 1 => j - 1 \in 1..(Len(a) - 1) /\ (j - 1) + 1 = j
      BY <1>5
    <3>. QED
      BY <2>1, <2>3, <3>1 DEF Contains
  <2>4. Len(a) <= aged[a[1]] + 1 /\ aged[a[1]] \in Nat
    <3>1. 1 \in 1..Len(a)
      BY <1>5
    <3>. QED
      BY <1>6, <3>1
  <2>5. aged[a[1]] >= MaxTracked
    BY <1>4, <1>5, <1>8, <2>4
  <2>6. ASSUME NEW t, Contains(m, t) /\ t # x PROVE Contains(Tail(a), t) \/ aged[t] >= MaxTracked
    <3>1. PICK j \in 1..Len(a) : a[j] = t
      BY <1>7, <2>6
    <3>. QED
      BY <2>3, <2>5, <3>1
  <2>7. Contains(Tail(a), x)
    <3>1. Len(w) + 1 \in 1..Len(a) /\ Len(w) + 1 # 1
      BY <1>4, <1>5, <1>8
    <3>. QED
      BY <1>5, <2>3, <3>1
  <2>. QED
    BY <1>3, <1>8, <2>1, <2>2, <2>6, <2>7 DEF Aged
<1>9. CASE ~(Len(a) > MaxTracked)
  <2>1. \A t : (\E i \in 1..Len(a) : a[i] = t) => Contains(a, t)
    BY <1>5 DEF Contains
  <2>. QED
    BY <1>3, <1>5, <1>6, <1>7, <1>9, <2>1 DEF Aged
<1>. QED
  BY <1>8, <1>9

(* A request that keeps its thread and what it accepts, or ends.           *)
Minds(q) ==
  /\ run'[q].at = run[q].at /\ run'[q].tools = run[q].tools
  /\ Active(q)' => /\ Active(q) /\ run'[q].acl = run[q].acl
                   /\ Pumping(q)' => Pumping(q) \/ At(q) # q
  /\ Aborted(q) => Aborted(q)'
Arrived(q) == run[q].pc = "idle" /\ Original(q)'

LEMMA Minding ==
  ASSUME IInv, Memory, \A q \in Requests : Minds(q) \/ Arrived(q),
         later' = later, Aged(threadToolAcl', later),
         \A c \in Calls : ledger'[c] = "pending" => ledger[c] = "pending" \/ Kept(c[1]),
         \A t : Contains(threadToolAcl, t) =>
           \/ Contains(threadToolAcl', t)
           \/ /\ \A c \in Calls : ledger'[c] = "pending" => c[1] # t
              /\ \A q \in Requests : Active(q)' /\ ~Aborted(q)' => At(q) # t
  PROVE  Memory'
<1>1. ASSUME NEW q \in Requests, Minds(q) PROVE Original(q)'
  <2>1. SUFFICES ASSUME Active(q)' PROVE Original(q)'
    BY DEF Original
  <2>2. Active(q) /\ Original(q) /\ Steered(q) /\ At(q)' = At(q) /\ run'[q].acl = run[q].acl
    BY <1>1, <2>1, Basics DEF Minds, Memory, At
  <2>3. At(q) \in Requests /\ At(q) \in Threads /\ At(At(q)) = At(q)
    BY <2>2, Constants DEF Steered
  <2>4. Declared(At(q))' = Declared(At(q))
    <3>1. run[At(q)].pc # "idle"
      <4>1. Steered(At(q))
        BY <2>3, Basics
      <4>. QED
        BY <2>3, <4>1, FreshFields, Constants DEF Steered, At
    <3>2. Minds(At(q))
      BY <2>3, <3>1 DEF Arrived
    <3>. QED
      BY <2>2, <3>2 DEF Minds, Declared
  <2>5. ASSUME ~Aborted(q)', run[q].acl # {}, At(q) # q \/ Pumping(q)' PROVE Kept(At(q))'
    <3>1. Kept(At(q))
      BY <1>1, <2>1, <2>2, <2>5 DEF Original, Minds
    <3>. QED
      BY <2>1, <2>2, <2>5, <3>1 DEF Kept, Outrun
  <2>. QED
    BY <2>2, <2>4, <2>5 DEF Original, Outrun
<1>2. ASSUME NEW c \in Calls, ledger'[c] = "pending" PROVE Kept(c[1])'
  <2>1. Kept(c[1])
    BY <1>2 DEF Memory
  <2>. QED
    BY <1>2, <2>1 DEF Kept, Outrun
<1>. QED
  BY <1>1, <1>2 DEF Memory, Arrived

LEMMA SameMind ==
  ASSUME NEW q, run'[q] = run[q], Aborted(q) => Aborted(q)'
  PROVE  Minds(q)
BY DEF Minds, Active, Pumping, At

(* A reply that ends.                                                      *)
LEMMA EndsMind ==
  ASSUME Shapes, NEW r \in Requests, NEW end \in Ends, Finish(r, end), cancel' = cancel
  PROVE  \A q \in Requests : Minds(q)
<1>1. OnlyRun(r) /\ run'[r].pc = "done" /\ run'[r].at = run[r].at /\ run'[r].tools = run[r].tools
  BY Finishes DEF At
<1>2. \A q \in Requests : Aborted(q)' <=> Aborted(q)
  BY DEF Aborted
<1>. QED
  BY <1>1, <1>2, SameMind DEF OnlyRun, Minds, Active

LEMMA MemoryThroughSteps ==
  ASSUME IInv, Memory, \A q \in Requests : Minds(q) \/ Arrived(q),
         later' = later, threadToolAcl' = threadToolAcl,
         \A c \in Calls : ledger'[c] = "pending" => ledger[c] = "pending" \/ Kept(c[1])
  PROVE  Memory'
BY Minding DEF Memory

(* One step of a pump.                                                     *)
LEMMA RememberStops ==
  ASSUME IInv, Memory, NEW r \in Requests, Stop(r) \/ NoteFailed(r) \/ CallOverflows(r) \/ RefuseCall(r)
  PROVE  Memory'
<1>1. later' = later /\ threadToolAcl' = threadToolAcl /\ ledger' = ledger /\ cancel' = cancel
  BY DEF Stop, NoteFailed, CallOverflows, RefuseCall, PumpFrame
<1>2. PICK end \in Ends : Finish(r, end)
  BY DEF Stop, NoteFailed, CallOverflows, RefuseCall, Ends
<1>3. \A q \in Requests : Minds(q)
  BY <1>1, <1>2, Basics, EndsMind
<1>. QED
  BY <1>1, <1>3, MemoryThroughSteps

LEMMA RememberParkCall ==
  ASSUME IInv, Memory, NEW r \in Requests, ParkCall(r)
  PROVE  Memory'
<1>1. later' = later /\ threadToolAcl' = threadToolAcl /\ cancel' = cancel /\ Finish(r, "tool_calls")
  BY DEF ParkCall, EndParked, PumpFrame
<1>2. \A q \in Requests : Minds(q)
  BY <1>1, Basics, EndsMind DEF Ends
<1>3. Pumping(r) /\ Active(r) /\ Held(r) /\ run[r].acl # {}
  BY Woken DEF ParkCall, TakesCall, Accepted, Held, Tool
<1>4. Asked(r) \in Calls /\ Asked(r)[1] = At(r)
  BY <1>3, HeldCall
<1>5. ledger' = [ledger EXCEPT ![Asked(r)] = IF Aborted(r) THEN "cancelled" ELSE "pending"]
  BY DEF ParkCall, ParkFor, L!Park, L!ParkCancelled
<1>6. ledger \in [Calls -> L!Statuses]
  BY Basics, Sorts
<1>7. ASSUME NEW c \in Calls, ledger'[c] = "pending" PROVE ledger[c] = "pending" \/ Kept(c[1])
  <2>1. CASE c # Asked(r)
    BY <1>4, <1>5, <1>6, <1>7, <2>1
  <2>2. CASE c = Asked(r)
    <3>1. ~Aborted(r)
      BY <1>4, <1>5, <1>6, <1>7, <2>2
    <3>2. Original(r)
      BY DEF Memory
    <3>. QED
      BY <1>3, <1>4, <2>2, <3>1, <3>2 DEF Original
  <2>. QED
    BY <2>1, <2>2
<1>. QED
  BY <1>1, <1>2, <1>7, MemoryThroughSteps

LEMMA RememberTakeTurnEnd ==
  ASSUME IInv, Memory, NEW r \in Requests, TakeTurnEnd(r)
  PROVE  Memory'
<1>1. /\ later' = later /\ ledger' = ledger /\ cancel' = cancel
      /\ threadToolAcl' = Without(threadToolAcl, {At(r)})
  BY DEF TakeTurnEnd, PumpFrame, Forgotten
<1>2. PICK end \in Ends : Finish(r, end)
  BY DEF TakeTurnEnd, Ends
<1>3. \A q \in Requests : Minds(q)
  BY <1>1, <1>2, Basics, EndsMind
<1>4. Steered(r) /\ Active(r)
  BY Basics, Woken DEF TakeTurnEnd
<1>5. /\ Aged(threadToolAcl', later)
      /\ \A t : Contains(threadToolAcl, t) /\ t # At(r) => Contains(threadToolAcl', t)
  BY <1>1, Basics, Sorts, ForgetsInOrder DEF Memory
<1>6. \A c \in Calls : ledger'[c] = "pending" => c[1] # At(r)
  BY <1>1, <1>4, Pending DEF Steered, Parked
<1>7. \A q \in Requests : Active(q)' => At(q) # At(r)
  <2>1. ~Active(r)'
    BY <1>2, Basics, Finishes DEF Active
  <2>. QED
    BY <1>3, <1>4, <2>1 DEF Steered, Alone, Minds
<1>. QED
  BY <1>1, <1>3, <1>5, <1>6, <1>7, Minding

LEMMA SameFields ==
  ASSUME NEW q, run'[q].pc = run[q].pc \/ (Pumping(q) /\ run'[q].pc \in {"loop", "race"}),
         run'[q].at = run[q].at, run'[q].tools = run[q].tools, run'[q].acl = run[q].acl,
         Aborted(q) => Aborted(q)'
  PROVE  Minds(q)
BY DEF Minds, Active, Pumping, At

(* The pump's own record is rewritten, but not whom it serves.             *)
Goes(r) == /\ \A q \in Requests : q # r => run'[q] = run[q]
           /\ run'[r].pc \in {"loop", "race"} /\ run'[r].at = run[r].at
           /\ run'[r].tools = run[r].tools /\ run'[r].acl = run[r].acl

LEMMA PumpMinds ==
  ASSUME NEW r \in Requests, Pumping(r), cancel' = cancel, Goes(r)
  PROVE  \A q \in Requests : Minds(q)
<1>1. \A q \in Requests : Aborted(q)' <=> Aborted(q)
  BY DEF Aborted
<1>. QED
  BY <1>1, SameMind, SameFields DEF Goes

LEMMA RememberGoesOn ==
  ASSUME IInv, Memory, NEW r \in Requests, Await(r) \/ ToolReleased(r)
  PROVE  Memory'
<1>1. Shapes /\ Pumping(r) /\ run \in [Requests -> RunRecs]
  BY Basics, Sorts, Woken DEF Await, ToolReleased
<1>2. later' = later /\ threadToolAcl' = threadToolAcl /\ ledger' = ledger /\ cancel' = cancel
  BY DEF Await, ToolReleased, PumpFrame, books
<1>3. CASE Await(r)
  <2>1. PICK n \in Notes, first \in {"none", "note", "tool"} :
          run' = [run EXCEPT ![r].pc = "race", ![r].note = n, ![r].first = first]
    BY <1>3, AwaitFinds
  <2>2. Goes(r)
    BY <1>1, <2>1 DEF RunRecs, Goes
  <2>. QED
    BY <1>1, <1>2, <2>2, PumpMinds, MemoryThroughSteps
<1>4. CASE ToolReleased(r)
  <2>1. PICK tool : run' = [run EXCEPT ![r].pc = "loop", ![r].note = None, ![r].first = "none",
                                       ![r].tool = tool]
    BY <1>4 DEF ToolReleased, Rearm, GoOnWith
  <2>2. Goes(r)
    BY <1>1, <2>1 DEF RunRecs, Goes
  <2>. QED
    BY <1>1, <1>2, <2>2, PumpMinds, MemoryThroughSteps
<1>. QED
  BY <1>3, <1>4

LEMMA RememberTakeText ==
  ASSUME IInv, Memory, NEW r \in Requests, TakeText(r)
  PROVE  Memory'
<1>1. Shapes /\ Pumping(r) /\ run \in [Requests -> RunRecs]
  BY Basics, Sorts, Woken DEF TakeText
<1>2. later' = later /\ threadToolAcl' = threadToolAcl /\ ledger' = ledger /\ cancel' = cancel
  BY DEF TakeText, PumpFrame
<1>3. CASE Finish(r, "silent")
  BY <1>1, <1>2, <1>3, EndsMind, MemoryThroughSteps DEF Ends
<1>4. CASE ~Finish(r, "silent")
  <2>1. PICK seen : run' = [run EXCEPT ![r].pc = "loop", ![r].note = None, ![r].first = "none",
                                       ![r].seen = seen]
    BY <1>4 DEF TakeText
  <2>2. Goes(r)
    BY <1>1, <2>1 DEF RunRecs, Goes
  <2>. QED
    BY <1>1, <1>2, <2>2, PumpMinds, MemoryThroughSteps
<1>. QED
  BY <1>3, <1>4

(* turn/start was answered: an opener's declaration is remembered.         *)
LEMMA RememberBegin ==
  ASSUME IInv, Memory, NEW r \in Requests, Begin(r)
  PROVE  Memory'
<1> DEFINE declares == At(r) = r /\ run[r].acl # {}
<1>1. Shapes /\ run \in [Requests -> RunRecs] /\ Bounded(threadToolAcl) /\ Steered(r) /\ Allowed(r)
  BY Basics, Sorts
<1>2. /\ run[r].pc = "begin" /\ Active(r) /\ At(r) \in Threads /\ Alone(r) /\ MaxTracked \in Nat
      /\ At(At(r)) = At(r) /\ ~Parked(At(r))
  BY <1>1, Constants DEF Begin, Active, Steered
<1>3. PICK tool : run' = [run EXCEPT ![r].pc = "loop", ![r].tool = tool]
  BY DEF Begin
<1>4. /\ \A q \in Requests : q # r => run'[q] = run[q]
      /\ run'[r].pc = "loop" /\ run'[r].at = run[r].at /\ run'[r].tools = run[r].tools
      /\ run'[r].acl = run[r].acl
  BY <1>1, <1>3 DEF RunRecs
<1>5. ledger' = ledger /\ cancel' = cancel
  BY DEF Begin
<1>6. \A q \in Requests : /\ At(q)' = At(q) /\ Declared(q)' = Declared(q) /\ (Aborted(q)' <=> Aborted(q))
                          /\ (Active(q)' <=> Active(q)) /\ run'[q].acl = run[q].acl
                          /\ q # r => (Pumping(q)' <=> Pumping(q))
  BY <1>2, <1>4, <1>5 DEF At, Declared, Aborted, Active, Pumping
<1>7. later \in [Threads -> Nat] /\ Aged(threadToolAcl, later)
      /\ \A q \in Requests : Original(q) /\ (Active(q) => At(q) \in Requests)
  <2>1. \A q \in Requests : Steered(q)
    BY Basics
  <2>. QED
    BY <2>1, Constants DEF Memory, Steered
<1>8. CASE ~declares
  <2>1. later' = later /\ threadToolAcl' = threadToolAcl
    BY <1>8 DEF Begin
  <2>2. \A t : Kept(t)' <=> Kept(t)
    BY <2>1 DEF Kept, Outrun
  <2>3. ASSUME NEW q \in Requests PROVE Original(q)'
    <3>1. CASE q # r
      BY <1>6, <1>7, <2>1, <2>2, <3>1 DEF Original, Outrun
    <3>2. CASE q = r
      <4>1. run[r].acl # {} => At(r) # r
        BY <1>8
      <4>. QED
        BY <1>6, <1>7, <2>1, <2>2, <3>2, <4>1 DEF Original, Outrun
    <3>. QED
      BY <3>1, <3>2
  <2>. QED
    BY <1>5, <1>7, <2>1, <2>2, <2>3 DEF Memory
<1>9. CASE declares
  <2>1. /\ later' = [t \in Threads |-> IF t = r THEN 0 ELSE later[t] + 1]
        /\ threadToolAcl' = Remembered(threadToolAcl, r)
    BY <1>9 DEF Begin
  <2>2. /\ Aged(threadToolAcl', later') /\ Contains(threadToolAcl', r)
        /\ \A t \in Threads : Contains(threadToolAcl, t) /\ t # r =>
             Contains(threadToolAcl', t) \/ later'[t] >= MaxTracked
    BY <1>1, <1>2, <1>7, <1>9, <2>1, RemembersInOrder
  <2>3. later' \in [Threads -> Nat] /\ \A t \in Threads : t # r => later'[t] = later[t] + 1 /\ later[t] \in Nat
    BY <1>7, <2>1
  <2>4. \A t \in Threads : t # r /\ Outrun(t) => Outrun(t)'
    BY <1>2, <2>3 DEF Outrun
  <2>5. Kept(r)' /\ \A t \in Threads : Kept(t) => Kept(t)'
    BY <2>2, <2>4 DEF Kept, Outrun
  <2>6. ASSUME NEW q \in Requests, Active(q)' PROVE Original(q)'
    <3>1. CASE q = r
      <4>1. run[r].acl = Declared(r)
        BY <1>1, <1>2, <1>9 DEF Allowed, Declared
      <4>. QED
        BY <1>2, <1>6, <1>9, <2>5, <3>1, <4>1 DEF Original
    <3>2. CASE q # r
      <4>1. At(q) # r /\ At(q) \in Threads /\ Active(q)
        <5>1. Active(q) /\ Steered(q)
          BY <1>6, <2>6, Basics
        <5>. QED
          BY <1>2, <1>9, <3>2, <5>1 DEF Steered, Alone
      <4>. QED
        BY <1>6, <1>7, <2>4, <2>5, <3>2, <4>1 DEF Original
    <3>. QED
      BY <3>1, <3>2
  <2>7. \A c \in Calls : ledger'[c] = "pending" => Kept(c[1])'
    BY <1>5, <2>5, Constants DEF Memory
  <2>8. \A q \in Requests : Original(q)'
    BY <2>6 DEF Original
  <2>. QED
    BY <2>2, <2>3, <2>7, <2>8 DEF Memory
<1>. QED
  BY <1>8, <1>9

(* cancel()'s finally forgets the thread: nobody comes back to it.         *)
LEMMA RememberCancelCleanup ==
  ASSUME IInv, Memory, NEW r \in Requests, CancelCleanup(r)
  PROVE  Memory'
<1> DEFINE t == At(r)
<1>1. /\ cancel[r] = "answered" /\ cancel' = [cancel EXCEPT ![r] = "gone"] /\ later' = later
      /\ threadToolAcl' = Without(threadToolAcl, {t})
      /\ ledger' = [c \in Calls |-> IF c \in {d \in L!Pending : d[1] = t} THEN "cancelled" ELSE ledger[c]]
      /\ \/ run' = run
         \/ run' = [q \in Requests |-> IF Pumping(q) /\ At(q) = t THEN Rejected(q, TRUE, TRUE) ELSE run[q]]
  BY DEF CancelCleanup, PumpFrame, Forgotten, L!SettleSome
<1>2. cancel \in [Requests -> {"no", "gone", "asked", "answered"}] /\ Bounded(threadToolAcl)
  BY Basics, Sorts
<1>3. Aborted(r) /\ \A q \in Requests : Aborted(q)' <=> Aborted(q)
  BY <1>1, <1>2 DEF Aborted
<1>4. ASSUME NEW q \in Requests PROVE Minds(q)
  <2>1. CASE run'[q] = run[q]
    BY <1>3, <2>1, SameMind
  <2>2. CASE run'[q] # run[q]
    <3>1. Pumping(q) /\ run'[q] = Rejected(q, TRUE, TRUE)
      BY <1>1, <2>2
    <3>2. PICK yes \in BOOLEAN : yes = TRUE
      OBVIOUS
    <3>3. PICK rec : rec = Rejected(q, yes, yes)
      OBVIOUS
    <3>4. rec.pc = run[q].pc /\ rec.at = run[q].at /\ rec.tools = run[q].tools /\ rec.acl = run[q].acl
      BY <3>1, <3>3, Rejects
    <3>. QED
      BY <1>3, <3>1, <3>2, <3>3, <3>4, SameFields
  <2>. QED
    BY <2>1, <2>2
<1>5. /\ Aged(threadToolAcl', later)
      /\ \A s : Contains(threadToolAcl, s) /\ s # t => Contains(threadToolAcl', s)
  BY <1>1, <1>2, ForgetsInOrder DEF Memory
<1>6. \A c \in Calls : ledger'[c] = "pending" => ledger[c] = "pending" /\ c[1] # t
  BY <1>1, Pending
<1>7. ASSUME NEW q \in Requests, Active(q)', ~Aborted(q)' PROVE At(q) # t
  <2>1. Active(q) /\ ~Aborted(q) /\ Steered(q)
    BY <1>3, <1>4, <1>7, Basics DEF Minds
  <2>2. q # r
    BY <1>3, <2>1
  <2>. QED
    BY <1>3, <2>1, <2>2 DEF Steered, Alone
<1>. QED
  BY <1>1, <1>4, <1>5, <1>6, <1>7, Minding

LEMMA RememberPumpStep ==
  ASSUME IInv, Memory, NEW r \in Requests, PumpStep(r)
  PROVE  Memory'
BY RememberStops, RememberParkCall, RememberTakeTurnEnd, RememberGoesOn, RememberTakeText, RememberBegin,
   RememberCancelCleanup DEF PumpStep

(* Requests.                                                               *)
LEMMA RememberOpen ==
  ASSUME IInv, Memory, NEW r \in Requests, NEW names \in ToolSets, Open(r, names)
  PROVE  Memory'
<1>1. /\ run[r].pc = "idle" /\ later' = later /\ threadToolAcl' = threadToolAcl /\ ledger' = ledger
      /\ cancel' = cancel
      /\ run' = [run EXCEPT ![r] = [Fresh EXCEPT !.pc = "starting", !.at = r, !.tools = names, !.acl = names]]
  BY DEF Open, Arrives, RequestFrame
<1>2. run \in [Requests -> RunRecs]
  BY Basics, Sorts
<1>3. run'[r].pc = "starting" /\ run'[r].at = r /\ run'[r].tools = names /\ run'[r].acl = names
  BY <1>1, <1>2 DEF Fresh
<1>4. Arrived(r)
  BY <1>1, <1>3 DEF Arrived, Original, At, Declared, Pumping
<1>5. \A q \in Requests : Minds(q) \/ Arrived(q)
  BY <1>1, <1>2, <1>4, SameMind DEF Aborted
<1>. QED
  BY <1>1, <1>5, MemoryThroughSteps

(* A continuation finds the declaration of the thread it comes to.         *)
LEMMA RememberContinue ==
  ASSUME IInv, Memory, NEW r \in Requests, NEW c \in Calls, NEW names \in ToolSets, Continue(r, c, names)
  PROVE  Memory'
<1> DEFINE t == c[1]  acl == AcceptedTools(t, names)
<1>1. /\ run[r].pc = "idle" /\ later' = later /\ threadToolAcl' = threadToolAcl /\ cancel' = cancel
      /\ ledger[c] = "pending" /\ ledger' = [d \in Calls |-> IF d = c THEN "resolved" ELSE ledger[d]]
      /\ run' = [run EXCEPT ![r] = [Fresh EXCEPT !.pc = "begin", !.at = t, !.tools = names, !.acl = acl]]
  BY Pending DEF Continue, Arrives, RequestFrame, Claim, L!SettleSome
<1>2. run \in [Requests -> RunRecs] /\ Steered(r) /\ t \in Threads /\ Threads \subseteq Requests
  BY Basics, Sorts, Constants
<1> HIDE DEF acl
<1>3. /\ run'[r].pc = "begin" /\ run'[r].at = t /\ run'[r].acl = acl
      /\ \A q \in Requests : q # r => run'[q] = run[q]
  BY <1>1, <1>2 DEF Fresh
<1>4. t # r
  <2>1. upstream[t].asked # 0
    <3>1. c[2] \in Nat /\ c[2] # 0
      BY Constants
    <3>2. Counted(c)
      BY Basics
    <3>3. ~(c[2] > upstream[t].asked)
      BY <1>1, <3>2 DEF Counted, Untouched
    <3>. QED
      BY <3>1, <3>3
  <2>2. At(t) = t
    <3>1. Speech(t)
      BY <1>2, Basics
    <3>. QED
      BY <2>1, <3>1 DEF Speech
  <2>. QED
    BY <1>1, <1>2, <2>2, FreshFields, Constants DEF Steered, At
<1>5. Kept(t) /\ (acl = Declared(t) \/ Outrun(t))
  <2>1. Kept(t)
    BY <1>1 DEF Memory
  <2>2. Contains(threadToolAcl, t) => acl = Declared(t)
    BY DEF acl, AcceptedTools
  <2>. QED
    BY <2>1, <2>2 DEF Kept
<1>6. Declared(t)' = Declared(t) /\ (Kept(t)' <=> Kept(t)) /\ (Outrun(t)' <=> Outrun(t))
  BY <1>1, <1>2, <1>3, <1>4 DEF Declared, Kept, Outrun
<1>7. Arrived(r)
  BY <1>1, <1>3, <1>5, <1>6 DEF Arrived, Original, At
<1>8. \A q \in Requests : Minds(q) \/ Arrived(q)
  BY <1>1, <1>3, <1>7, SameMind DEF Aborted
<1>. QED
  BY <1>1, <1>8, MemoryThroughSteps

LEMMA RememberRequest ==
  ASSUME IInv, Memory, NEW r \in Requests, Request(r)
  PROVE  Memory'
<1>0. /\ run \in [Requests -> RunRecs] /\ Steered(r)
      /\ cancel \in [Requests -> {"no", "gone", "asked", "answered"}]
  BY Basics, Sorts
<1>1. CASE ContinueUnmatched(r)
  <2>1. /\ run[r].pc = "idle" /\ later' = later /\ threadToolAcl' = threadToolAcl /\ ledger' = ledger
        /\ cancel' = cancel /\ run' = [run EXCEPT ![r] = [Fresh EXCEPT !.pc = "done"]]
    BY <1>1 DEF ContinueUnmatched, Arrives, RequestFrame
  <2>2. run'[r].pc = "done"
    BY <1>0, <2>1 DEF Fresh
  <2>3. Arrived(r)
    BY <2>1, <2>2 DEF Arrived, Original, Active
  <2>4. \A q \in Requests : Minds(q) \/ Arrived(q)
    BY <1>0, <2>1, <2>3, SameMind DEF Aborted
  <2>. QED
    BY <2>1, <2>4, MemoryThroughSteps
<1>2. CASE Disconnect(r)
  <2>1. later' = later /\ threadToolAcl' = threadToolAcl /\ ledger' = ledger /\ run' = run
    BY <1>2 DEF Disconnect, RequestFrame
  <2>2. \A q \in Requests : Aborted(q) => Aborted(q)'
    BY <1>0, <1>2 DEF Disconnect, Aborted
  <2>3. \A q \in Requests : Minds(q)
    BY <2>1, <2>2, SameMind
  <2>. QED
    BY <2>1, <2>3, MemoryThroughSteps
<1>. QED
  BY <1>1, <1>2, RememberOpen, RememberContinue DEF Request

(* Output, timers and the exit.                                            *)
LEMMA RememberOutput ==
  ASSUME IInv, Memory, NEW t \in Threads, Output(t)
  PROVE  Memory'
<1>0. run \in [Requests -> RunRecs] /\ t \in Requests
  BY Basics, Sorts, Constants
<1>1. later' = later /\ threadToolAcl' = threadToolAcl /\ ledger' = ledger /\ cancel' = cancel
  BY DEF Output, ReceiveStarted, ReceiveRefusal, ReceiveText, ReceiveUsage, ReceiveTurnEnd, ReceiveToolCall,
         Notify, LineFrame, books
<1>2. \A q \in Requests : Aborted(q) => Aborted(q)'
  BY <1>1 DEF Aborted
<1>3. ASSUME NEW q \in Requests PROVE Minds(q)
  <2>1. CASE ReceiveStarted(t) \/ ReceiveRefusal(t)
    <3>1. run[t].pc = "starting" /\ \E pc \in {"begin", "done"} : run' = [run EXCEPT ![t].pc = pc]
      BY <2>1 DEF ReceiveStarted, ReceiveRefusal, Starting
    <3>2. CASE q # t
      BY <1>0, <1>2, <3>1, <3>2, SameMind
    <3>3. CASE q = t
      <4>1. /\ run'[t].pc \in {"begin", "done"} /\ run'[t].at = run[t].at /\ run'[t].tools = run[t].tools
            /\ run'[t].acl = run[t].acl
        BY <1>0, <3>1 DEF RunRecs
      <4>. QED
        BY <1>2, <3>1, <3>3, <4>1 DEF Minds, Active, Pumping
    <3>. QED
      BY <3>2, <3>3
  <2>2. CASE \E n : Notify(n)
    <3>1. PICK w, n, first :
            run' = run \/ run' = [run EXCEPT ![w].note = n, ![w].first = first]
      BY <2>2 DEF Notify
    <3>2. /\ run'[q].pc = run[q].pc /\ run'[q].at = run[q].at /\ run'[q].tools = run[q].tools
          /\ run'[q].acl = run[q].acl
      <4>1. CASE run'[q] = run[q]
        BY <4>1
      <4>2. CASE run'[q] # run[q]
        <5>1. run' = [run EXCEPT ![w].note = n, ![w].first = first]
          BY <3>1, <4>2
        <5>2. q = w
          BY <1>0, <4>2, <5>1
        <5>. QED
          BY <1>0, <5>1, <5>2 DEF RunRecs
      <4>. QED
        BY <4>1, <4>2
    <3>. QED
      BY <1>2, <3>2, SameFields
  <2>3. CASE \E name \in WireTools : ReceiveToolCall(t, name)
    <3>0. PICK name \in WireTools : ReceiveToolCall(t, name)
      BY <2>3
    <3>1. PICK n, i, w : n = upstream[t].asked + 1 /\ i = Match("tool", t) /\ w = waiters[i]
      OBVIOUS
    <3>2. \/ run' = run
          \/ run' = [run EXCEPT ![w.by].tool = <<"call", t, n, name>>,
                  ![w.by].first = IF @ = "none" /\ run[w.by].pc = "race" THEN "tool" ELSE @]
      BY <3>0, <3>1 DEF ReceiveToolCall
    <3>3. /\ run'[q].pc = run[q].pc /\ run'[q].at = run[q].at /\ run'[q].tools = run[q].tools
          /\ run'[q].acl = run[q].acl
      <4>1. CASE run'[q] = run[q]
        BY <4>1
      <4>2. CASE run'[q] # run[q]
        <5>1. run' = [run EXCEPT ![w.by].tool = <<"call", t, n, name>>,
                ![w.by].first = IF @ = "none" /\ run[w.by].pc = "race" THEN "tool" ELSE @]
          BY <3>2, <4>2
        <5>2. q = w.by
          BY <1>0, <4>2, <5>1
        <5>. QED
          BY <1>0, <5>1, <5>2 DEF RunRecs
      <4>. QED
        BY <4>1, <4>2
    <3>. QED
      BY <1>2, <3>3, SameFields
  <2>. QED
    BY <2>1, <2>2, <2>3 DEF Output, ReceiveText, ReceiveUsage, ReceiveTurnEnd
<1>. QED
  BY <1>1, <1>3, MemoryThroughSteps

LEMMA RememberTimers ==
  ASSUME IInv, Memory, WaiterExpires \/ \E c \in Calls : CallExpires(c)
  PROVE  Memory'
<1>1. later' = later /\ threadToolAcl' = threadToolAcl /\ cancel' = cancel
  BY DEF WaiterExpires, CallExpires, PumpFrame, books
<1>2. \A q \in Requests : Aborted(q) => Aborted(q)'
  BY <1>1 DEF Aborted
<1>3. \A c \in Calls : ledger'[c] = "pending" => ledger[c] = "pending"
  BY DEF WaiterExpires, CallExpires, L!SettleSome
<1>4. CASE run' = run
  BY <1>1, <1>2, <1>3, <1>4, SameMind, MemoryThroughSteps
<1>5. CASE run' # run
  <2>1. PICK w : w = Head(waiters)
    OBVIOUS
  <2>2. /\ waiters # <<>> /\ w.live
        /\ run' = [run EXCEPT ![w.by] = Rejected(w.by, w.kind = "note", w.kind = "tool")]
    BY <1>5, <2>1 DEF WaiterExpires, CallExpires, WithTimeout
  <2>3. waiters \in Seq(WaiterRecs) /\ Waits /\ run \in [Requests -> RunRecs]
    BY Basics, Sorts
  <2>4. w.by \in Requests /\ Pumping(w.by)
    <3>1. 1 \in DOMAIN waiters /\ w = waiters[1] /\ w \in WaiterRecs
      BY <2>1, <2>2, <2>3
    <3>. QED
      BY <2>3, <3>1 DEF Waits, Serves, WaiterRecs
  <2>5. PICK notes \in BOOLEAN, tools \in BOOLEAN : notes = (w.kind = "note") /\ tools = (w.kind = "tool")
    OBVIOUS
  <2>6. PICK rec : rec = Rejected(w.by, notes, tools)
    OBVIOUS
  <2>7. /\ rec.pc = run[w.by].pc /\ rec.at = run[w.by].at /\ rec.tools = run[w.by].tools
        /\ rec.acl = run[w.by].acl
    BY <2>4, <2>6, Rejects
  <2>8. run'[w.by] = rec /\ \A q \in Requests : q # w.by => run'[q] = run[q]
    BY <2>2, <2>3, <2>4, <2>5, <2>6
  <2>9. \A q \in Requests : Minds(q)
    BY <1>2, <2>4, <2>7, <2>8, SameMind, SameFields
  <2>. QED
    BY <1>1, <1>3, <2>9, MemoryThroughSteps
<1>. QED
  BY <1>4, <1>5

LEMMA RememberBreaks ==
  ASSUME IInv, Memory, ReceiveGarbage \/ Exit \/ \E r \in Requests : ReceiveInterrupted(r)
  PROVE  Memory'
<1>0. run \in [Requests -> RunRecs] /\ cancel \in [Requests -> {"no", "gone", "asked", "answered"}]
  BY Basics, Sorts
<1>1. later' = later /\ threadToolAcl' = threadToolAcl
  BY DEF ReceiveGarbage, Exit, ReceiveInterrupted, LineFrame, books
<1>2. \A q \in Requests : Aborted(q) => Aborted(q)'
  BY <1>0 DEF ReceiveGarbage, Exit, ReceiveInterrupted, Aborted
<1>3. \A c \in Calls : ledger'[c] = "pending" => ledger[c] = "pending"
  BY DEF ReceiveGarbage, Exit, ReceiveInterrupted, LineFrame, L!SettleSome
<1>4. ASSUME NEW q \in Requests PROVE Minds(q)
  <2>1. CASE run'[q] = run[q]
    BY <1>2, <2>1, SameMind
  <2>2. CASE run'[q] # run[q]
    <3>1. /\ ReceiveGarbage
          /\ \/ Starting(q) /\ run'[q] = [run[q] EXCEPT !.pc = "done"]
             \/ Pumping(q) /\ run'[q] = Rejected(q, TRUE, FALSE)
      BY <2>2 DEF ReceiveGarbage, Exit, ReceiveInterrupted
    <3>2. CASE run'[q] = [run[q] EXCEPT !.pc = "done"]
      <4>1. run'[q].pc = "done" /\ run'[q].at = run[q].at /\ run'[q].tools = run[q].tools
        BY <1>0, <3>2 DEF RunRecs
      <4>. QED
        BY <1>2, <4>1 DEF Minds, Active
    <3>3. CASE Pumping(q) /\ run'[q] = Rejected(q, TRUE, FALSE)
      <4>0. PICK yes \in BOOLEAN, no \in BOOLEAN : yes = TRUE /\ no = FALSE
        OBVIOUS
      <4>1. PICK rec : rec = Rejected(q, yes, no)
        OBVIOUS
      <4>2. rec.pc = run[q].pc /\ rec.at = run[q].at /\ rec.tools = run[q].tools /\ rec.acl = run[q].acl
        BY <3>3, <4>1, Rejects
      <4>. QED
        BY <1>2, <3>3, <4>0, <4>1, <4>2, SameFields
    <3>. QED
      BY <3>1, <3>2, <3>3
  <2>. QED
    BY <2>1, <2>2
<1>. QED
  BY <1>1, <1>3, <1>4, MemoryThroughSteps

LEMMA RememberNothing ==
  ASSUME IInv, Memory, UNCHANGED vars
  PROVE  Memory'
<1>1. later' = later /\ threadToolAcl' = threadToolAcl /\ ledger' = ledger /\ cancel' = cancel /\ run' = run
  BY DEF vars, books
<1>2. \A q \in Requests : Minds(q)
  BY <1>1, SameMind DEF Aborted
<1>. QED
  BY <1>1, <1>2, MemoryThroughSteps

(* threadToolAcl forgets the declaration of a thread that may still be     *)
(* continued only when MAX_TRACKED_THREADS threads have begun after it.    *)
THEOREM DeclarationsKept == Spec => []Memory
<1>1. Init => Memory
  <2>1. SUFFICES ASSUME Init PROVE Memory
    OBVIOUS
  <2>2. /\ later = [t \in Threads |-> 0] /\ threadToolAcl = <<>> /\ run = [r \in Requests |-> Fresh]
        /\ ledger = [c \in Calls |-> "unborn"]
    BY <2>1 DEF Init, L!LedgerInit
  <2>3. DOMAIN threadToolAcl = {}
    BY <2>2
  <2>4. \A q \in Requests : ~Active(q)
    BY <2>2, FreshFields DEF Active
  <2>. QED
    BY <2>2, <2>3, <2>4 DEF Memory, Aged, Original
<1>2. IInv /\ Memory /\ [Next]_vars => Memory'
  <2>. SUFFICES ASSUME IInv, Memory, [Next]_vars PROVE Memory'
    OBVIOUS
  <2>1. CASE \E r \in Requests : Request(r) \/ PumpStep(r)
    BY <2>1, RememberRequest, RememberPumpStep
  <2>2. CASE \E t \in Threads : Output(t)
    BY <2>2, RememberOutput
  <2>3. CASE WaiterExpires \/ \E c \in Calls : CallExpires(c)
    BY <2>3, RememberTimers
  <2>4. CASE ReceiveGarbage \/ Exit \/ \E r \in Requests : ReceiveInterrupted(r)
    BY <2>4, RememberBreaks
  <2>5. CASE UNCHANGED vars
    BY <2>5, RememberNothing
  <2>. QED
    BY <2>1, <2>2, <2>3, <2>4, <2>5 DEF Next, Steady, Prompt
<1>. QED
  BY <1>1, <1>2, Invariant, PTL DEF Spec

-------------------------------------------------------------------------------
(* What the runs check.                                                    *)

(* The shape of the state holds, and with it the code's bounds on its maps *)
(* and on the buffer: MAX_TRACKED_THREADS and SCOPED_BUFFER_LIMIT.         *)
THEOREM Typed == Spec => []TypeOK
<1>1. IInv => TypeOK
  <2>. SUFFICES ASSUME IInv PROVE TypeOK
    OBVIOUS
  <2>1. Shapes
    BY Basics
  <2>2. Lines \subseteq Notifications
    BY Constants DEF Lines, Notifications, Kinds
  <2>3. Notes \subseteq NotePromises
    BY <2>2 DEF Notes, NotePromises
  <2>4. RunRecs \subseteq Runs
    <3>1. ASSUME NEW rec \in RunRecs PROVE rec \in Runs
      BY <2>3, <3>1 DEF RunRecs, Runs
    <3>. QED
      BY <3>1
  <2>5. run \in [Requests -> Runs]
    BY <2>1, <2>4, Sorts
  <2>6. queue \in Seq(Notifications) /\ Len(queue) <= QueueLimit
    BY <2>1, <2>2, Sorts
  <2>7. waiters \in Seq([kind : {"note", "tool"}, by : Requests, on : Threads, live : BOOLEAN])
    BY <2>1, Sorts DEF WaiterRecs
  <2>. QED
    BY <2>1, <2>5, <2>6, <2>7 DEF TypeOK, Shapes, Bounded
<1>. QED
  BY <1>1, Invariant, PTL

(* pumpTurn parks one call of a thread at most: the second of two calls in *)
(* one data event is not parked as well.                                   *)
THEOREM OneParked == Spec => []OneParkedPerThread
<1>1. IInv => OneParkedPerThread
  BY Basics DEF Single, OneParkedPerThread
<1>. QED
  BY <1>1, Invariant, PTL

(* No two pumps ever serve one thread, so discardScope, which knows only   *)
(* the thread, releases nobody else's waiters.                             *)
THEOREM OnePump == Spec => []OnePumpPerThread
<1>1. IInv => OnePumpPerThread
  BY Basics DEF Steered, Alone, Active, Pumping, OnePumpPerThread
<1>. QED
  BY <1>1, Invariant, PTL

(* No item/tool/call is answered twice on the wire, whoever answers it (a  *)
(* result, a refusal or the client's own decline), and none while parked.  *)
THEOREM NoDoubleAnswer == Spec => []AnsweredOnce
<1>1. IInv => AnsweredOnce
  BY Basics DEF Counted, AnsweredOnce
<1>. QED
  BY <1>1, Invariant, PTL

(* handleMessage gives a reply the text of its own thread only, and the    *)
(* pump passes it on in the order of its items, none of them twice.        *)
THEOREM FaithfulText == Spec => []TextFaithful
<1>1. IInv => TextFaithful
  BY Basics DEF InOrder, TextFaithful
<1>. QED
  BY <1>1, Invariant, PTL

(* A tool-free reply that ends with turn/completed holds every delta the   *)
(* app-server sent before it, unless bufferSupported dropped one.          *)
THEOREM CompletePlainReplies == Spec => []PlainReplyComplete
<1>1. IInv => PlainReplyComplete
  <2>. SUFFICES ASSUME IInv, NEW r \in PlainReplies \ evicted, NEW item \in upstream[r].said
                PROVE  \E i \in DOMAIN out[r].text : out[r].text[i] = <<r, item>>
    BY DEF PlainReplyComplete
  <2>1. r \in Requests /\ Plain(r) /\ out[r].end = "completed" /\ r \notin evicted
    BY Constants DEF PlainReplies, Plain, Threads
  <2>2. Whole(r)
    BY <2>1, Basics
  <2>. QED
    BY <2>1, <2>2 DEF Whole, Told
<1>. QED
  BY <1>1, Invariant, PTL

(* pumpTurn leaves no gap: when every pump is blocked, each of them has a  *)
(* waiter for its thread's notifications and, if it accepts tools and      *)
(* could still be given one, a waiter for a tool call.                     *)
THEOREM PumpsListen == Spec => []BlockedPumpsListen
<1>1. IInv => BlockedPumpsListen
  <2>. SUFFICES ASSUME IInv, Quiet, NEW r \in Requests, run[r].pc = "race"
                PROVE  Listens(r, "note") /\ (run[r].acl # {} => Listens(r, "tool"))
    BY DEF BlockedPumpsListen
  <2>1. Awaiting(r) /\ Pumping(r) /\ run[r].first = "none"
    BY Basics DEF Quiet, Runnable, Pumping
  <2>2. Note(r) = Waiting /\ ~Settled(Tool(r)) /\ (Tool(r) = None <=> run[r].acl = {})
    BY <2>1 DEF Awaiting
  <2>3. run[r].acl # {} => Tool(r) = Waiting
    BY <2>2 DEF Settled
  <2>. QED
    BY <2>1, <2>2, <2>3 DEF Awaiting
<1>. QED
  BY <1>1, Invariant, PTL

(* Whoever continues a thread is held to the tools that its opener         *)
(* declared, whatever it declares itself, until threadToolAcl has seen     *)
(* MAX_TRACKED_THREADS younger threads with tools.                         *)
THEOREM DeclarationHeld == Spec => []DeclarationHolds
<1>1. Memory => DeclarationHolds
  BY DEF Memory, Original, Outrun, Active, Pumping, DeclarationHolds
<1>. QED
  BY <1>1, DeclarationsKept, PTL

(* When cancel() and the reply it cancelled are both over, no active turn, *)
(* no parked call and no waiter of the thread is left behind.              *)
THEOREM CancelIsClean == Spec => []CancelLeavesNothing
<1>1. IInv => CancelLeavesNothing
  <2>. SUFFICES ASSUME IInv, NEW r \in Requests, run[r].pc = "done", cancel[r] = "gone"
                PROVE  /\ r \notin activeTurns
                       /\ \A c \in L!Pending : c[1] # At(r)
                       /\ \A i \in DOMAIN waiters : waiters[i].on # At(r)
    BY DEF CancelLeavesNothing
  <2>1. ~Pumping(r) /\ Aborted(r) /\ Steered(r)
    BY Basics DEF Pumping, Aborted
  <2>2. r \notin activeTurns /\ ~Parked(At(r))
    BY <2>1 DEF Steered
  <2>3. ASSUME NEW i \in DOMAIN waiters, waiters[i].on = At(r) PROVE FALSE
    <3>1. PICK w \in WaiterRecs : w = waiters[i]
      BY <2>3, Basics, Sorts
    <3>2. w.by \in Requests /\ Serves(w) /\ w.on = At(r)
      BY <2>3, <3>1, Basics DEF Waits, WaiterRecs
    <3>3. Pumping(w.by) /\ At(w.by) = At(r) /\ w.by # r
      BY <2>1, <3>2 DEF Serves
    <3>4. Alone(w.by)
      BY <3>2, <3>3, Basics DEF Steered, Active, Pumping
    <3>. QED
      BY <2>1, <3>3, <3>4 DEF Alone
  <2>. QED
    BY <2>2, <2>3 DEF Parked
<1>. QED
  BY <1>1, Invariant, PTL
===============================================================================
