-------------------------- MODULE SessionRegistryProofs --------------------------
(***************************************************************************)
(* What holds of the session registry for any Routers, runs and bounds.    *)
(* Two arguments are independent of each other: as long as no lock was     *)
(* taken from its holder, at most one Router is inside the critical        *)
(* section, so what it has counted is still an upper bound when it         *)
(* publishes; and a run in some Router's memory has its agy, its socket    *)
(* and its descriptor to itself, whatever the lock does.                   *)
(***************************************************************************)
EXTENDS SessionRegistry, FiniteSetTheorems, TLAPS

(* The inductive strengthening of the first argument.                      *)
LockOwned == \A p \in Routers : ~stolen /\ Inside(p) => lock.by = p

CountHolds ==
  \A p \in Routers : ~stolen =>
    /\ pc[p] = "visit" => files \subseteq todo[p] \cup survivors[p]
    /\ pc[p] \in {"sweep", "write", "rename"} =>
         files \subseteq survivors[p] /\ ~Full(p)

LockInv == TypeOK /\ LockOwned /\ CountHolds /\ WritersUndisturbed /\ BoundedUnlessStolen

(* And of the second.                                                      *)
Pending(p) == pc[p] \in {"open", "stat", "reclaim", "list", "visit", "sweep",
                         "write", "rename"}
RunsApart ==
  /\ \A p, q \in Routers : p # q => live[p] \cap live[q] = {}
  /\ \A p, q \in Routers : Pending(p) /\ Pending(q) /\ want[p] = want[q] => p = q
  /\ \A p, q \in Routers : Pending(p) => want[p] \notin live[q]
  /\ \A p \in Routers : Pending(p) =>
       /\ agy[want[p]] # "unborn"
       /\ want[p] \in sockets /\ want[p] \notin ending
  /\ \A p \in Routers : \A s \in live[p] :
       agy[s] # "unborn" /\ s \in sockets /\ s \notin ending
  /\ \A s \in ending : agy[s] # "unborn"
RunInv == TypeOK /\ RunsApart /\ RunsFindable

-------------------------------------------------------------------------------
(* A finite set of runs gains at most one by gaining an element, and none  *)
(* by being cut down.                                                      *)
LEMMA OneMore ==
  ASSUME NEW S \in SUBSET Runs, NEW T \in SUBSET Runs, NEW s \in Runs,
         T \subseteq S, Cardinality(S) < MaxLive
  PROVE  Cardinality(T \cup {s}) <= MaxLive
<1>1. IsFiniteSet(S) /\ IsFiniteSet(T)
  BY FS_Subset, NamesAssumption
<1>2. Cardinality(T) <= Cardinality(S) /\ Cardinality(T) \in Nat /\ Cardinality(S) \in Nat
  BY <1>1, FS_Subset, FS_CardinalityType
<1>3. Cardinality(T \cup {s}) \in {Cardinality(T), Cardinality(T) + 1}
  BY <1>1, <1>2, FS_AddElement
<1>. QED
  BY <1>2, <1>3, LiveAssumption

LEMMA NoMore ==
  ASSUME NEW S \in SUBSET Runs, NEW T \in SUBSET S, Cardinality(S) <= MaxLive
  PROVE  Cardinality(T) <= MaxLive
<1>1. IsFiniteSet(S)
  BY FS_Subset, NamesAssumption
<1>. QED
  BY <1>1, FS_Subset, FS_CardinalityType, LiveAssumption

(* Typing, one action at a time.                                           *)
LEMMA TypePreserved == TypeOK /\ [Next]_vars => TypeOK'
<1>. SUFFICES ASSUME TypeOK, [Next]_vars PROVE TypeOK'
  OBVIOUS
<1>. USE DEF TypeOK, Critical, disk, world, local
<1>1. ASSUME NEW p \in Routers, NEW s \in Runs, Register(p, s) PROVE TypeOK'
  BY <1>1, NamesAssumption DEF Register, Goto, Nothing
<1>2. ASSUME NEW p \in Routers, OpenLock(p) PROVE TypeOK'
  <2>1. Held(p) \in [by : Routers, old : BOOLEAN]
    BY DEF Held
  <2>2. lock' \in [by : Routers, old : BOOLEAN] \cup {Free}
    BY <1>2, <2>1 DEF OpenLock
  <2>. QED
    BY <1>2, <2>2 DEF OpenLock, Goto
<1>3. ASSUME NEW p \in Routers, StatLock(p) PROVE TypeOK'
  BY <1>3 DEF StatLock, Goto
<1>4. ASSUME NEW p \in Routers, LockRefused(p) PROVE TypeOK'
  <2>1. want[p] \in Runs
    BY <1>4 DEF LockRefused
  <2>. QED
    BY <1>4, <2>1 DEF LockRefused, Refuse, Leave, Goto
<1>5. ASSUME NEW p \in Routers, ReclaimLock(p) PROVE TypeOK'
  BY <1>5 DEF ReclaimLock, RemoveLock, Goto, Takes, Inside
<1>6. ASSUME NEW p \in Routers, List(p) PROVE TypeOK'
  BY <1>6 DEF List, Goto
<1>7. ASSUME NEW p \in Routers, NEW s \in Runs, Visit(p, s) PROVE TypeOK'
  BY <1>7 DEF Visit
<1>8. ASSUME NEW p \in Routers, Count(p) PROVE TypeOK'
  <2>1. want[p] \in Runs
    BY <1>8 DEF Count
  <2>. QED
    BY <1>8, <2>1 DEF Count, Refuse, Goto
<1>9. ASSUME NEW p \in Routers, SweepTemps(p) PROVE TypeOK'
  BY <1>9 DEF SweepTemps, Goto
<1>10. ASSUME NEW p \in Routers, WriteTemp(p) PROVE TypeOK'
  <2>1. want[p] \in Runs
    BY <1>10 DEF WriteTemp
  <2>. QED
    BY <1>10, <2>1 DEF WriteTemp, Goto
<1>11. ASSUME NEW p \in Routers, Rename(p) PROVE TypeOK'
  <2>1. want[p] \in Runs
    BY <1>11 DEF Rename
  <2>. QED
    BY <1>11, <2>1 DEF Rename, Refuse, Goto
<1>12. ASSUME NEW p \in Routers, Unlock(p) PROVE TypeOK'
  BY <1>12 DEF Unlock, RemoveLock, Leave, Goto, Takes, Inside
<1>13. ASSUME NEW p \in Routers, NEW s \in Runs, Release(p, s) PROVE TypeOK'
  BY <1>13 DEF Release
<1>14. ASSUME NEW s \in Runs, CloseControl(s) \/ LauncherSweeps(s) \/ AgyExits(s)
       PROVE TypeOK'
  BY <1>14 DEF CloseControl, LauncherSweeps, AgyExits
<1>15. ASSUME NEW p \in Routers, Crash(p) PROVE TypeOK'
  BY <1>15, LiveAssumption DEF Crash, Leave, Goto
<1>16. ASSUME NEW p \in Routers, Deadline(p) PROVE TypeOK'
  BY <1>16 DEF Deadline
<1>17. ASSUME LockAges \/ SlowHolder PROVE TypeOK'
  BY <1>17 DEF LockAges, SlowHolder, LeftBehind, Age, Free
<1>18. ASSUME UNCHANGED vars PROVE TypeOK'
  BY <1>18 DEF vars
<1>. QED
  BY <1>1, <1>2, <1>3, <1>4, <1>5, <1>6, <1>7, <1>8, <1>9, <1>10, <1>11, <1>12,
     <1>13, <1>14, <1>15, <1>16, <1>17, <1>18 DEF Next, Prompt, Step

-------------------------------------------------------------------------------
(* While no lock was stolen, the critical section has one Router in it.    *)
LEMMA Alone ==
  ASSUME LockInv, ~stolen, NEW p \in Routers, NEW q \in Routers, Inside(p), Inside(q)
  PROVE  p = q
  BY DEF LockInv, LockOwned

(* A step that lets nobody in, adds no descriptor, and leaves the lock's   *)
(* maker, the temp files and the variables of those inside alone.          *)
LEMMA Harmless ==
  ASSUME LockInv, TypeOK', files' \subseteq files, temps' = temps,
         lock'.by = lock.by, stolen' = stolen,
         \A q \in Routers : Inside(q)' =>
           /\ pc'[q] = pc[q] /\ want'[q] = want[q]
           /\ todo'[q] = todo[q] /\ survivors'[q] = survivors[q]
  PROVE  LockInv'
<1>. USE DEF LockInv
<1>1. LockOwned'
  BY DEF LockOwned, Inside
<1>2. CountHolds'
  BY DEF CountHolds, Inside, Critical, Full
<1>3. WritersUndisturbed'
  BY DEF WritersUndisturbed, Inside, Critical
<1>4. BoundedUnlessStolen'
  BY NoMore DEF BoundedUnlessStolen, TypeOK
<1>. QED
  BY <1>1, <1>2, <1>3, <1>4

(* A step after which nobody relies on the lock.                           *)
LEMMA Vacant ==
  ASSUME LockInv, TypeOK', files' \subseteq files, stolen => stolen',
         \A q \in Routers : ~stolen' => pc'[q] \notin Critical \ {"list"},
         \A q \in Routers : ~stolen' /\ Inside(q)' => lock'.by = q
  PROVE  LockInv'
<1>. USE DEF LockInv
<1>1. LockOwned' /\ CountHolds' /\ WritersUndisturbed'
  BY DEF LockOwned, CountHolds, WritersUndisturbed, Critical
<1>2. BoundedUnlessStolen'
  BY NoMore DEF BoundedUnlessStolen, TypeOK
<1>. QED
  BY <1>1, <1>2

(* Removing the lock from outside, or at the end of one's own critical     *)
(* section: either it is stolen, or nobody else was inside.                *)
LEMMA LockRemoved ==
  ASSUME LockInv, TypeOK', NEW p \in Routers, RemoveLock(p), files' = files,
         pc' = [pc EXCEPT ![p] = "open"] \/ pc' = [pc EXCEPT ![p] = "idle"],
         pc[p] \in {"reclaim", "unlock"}
  PROVE  LockInv'
<1>1. stolen => stolen'
  BY DEF RemoveLock
<1>2. ASSUME NEW q \in Routers, ~stolen' PROVE ~Inside(q)'
  <2>1. CASE q = p
    BY <2>1 DEF LockInv, TypeOK, Inside, Critical
  <2>2. CASE q # p
    <3>1. SUFFICES ASSUME Inside(q) PROVE FALSE
      BY <2>2 DEF Inside, LockInv, TypeOK
    <3>2. ~stolen /\ ~Takes(p) /\ lock.by = q
      BY <1>2, <3>1 DEF RemoveLock, LockInv, LockOwned
    <3>3. lock # Free
      BY <3>2, NamesAssumption DEF Free
    <3>. QED
      BY <2>2, <3>1, <3>2, <3>3 DEF Takes
  <2>. QED
    BY <2>1, <2>2
<1>. QED
  BY <1>1, <1>2, Vacant DEF Inside

(* A step of the Router inside that leaves the lock alone: the others need *)
(* no argument.                                                            *)
LEMMA InsideStep ==
  ASSUME LockInv, TypeOK', NEW p \in Routers, Inside(p),
         lock' = lock, stolen' = stolen,
         \A q \in Routers \ {p} : pc'[q] = pc[q],
         ~stolen => /\ pc'[p] = "visit" => files' \subseteq todo'[p] \cup survivors'[p]
                    /\ pc'[p] \in {"sweep", "write", "rename"} =>
                         files' \subseteq survivors'[p] /\ ~Full(p)'
                    /\ pc'[p] = "rename" => want'[p] \in temps'
                    /\ Cardinality(files') <= MaxLive
  PROVE  LockInv'
<1>1. ASSUME NEW q \in Routers, q # p, ~stolen PROVE ~Inside(q)'
  BY <1>1, Alone DEF Inside
<1>2. LockOwned'
  BY <1>1 DEF LockOwned, LockInv, Inside
<1>3. CountHolds'
  BY <1>1 DEF CountHolds, Inside, Critical
<1>4. WritersUndisturbed'
  BY <1>1 DEF WritersUndisturbed, Inside, Critical
<1>5. BoundedUnlessStolen'
  BY DEF BoundedUnlessStolen
<1>. QED
  BY <1>2, <1>3, <1>4, <1>5 DEF LockInv

LEMMA LockPreserved == LockInv /\ [Next]_vars => LockInv'
<1>. SUFFICES ASSUME LockInv, [Next]_vars PROVE LockInv'
  OBVIOUS
<1>0. TypeOK /\ TypeOK'
  BY TypePreserved DEF LockInv
<1>. USE <1>0
<1>1. ASSUME NEW p \in Routers, NEW s \in Runs, Register(p, s) PROVE LockInv'
  BY <1>1, Harmless DEF Register, Goto, Inside, Critical, disk, TypeOK
<1>2. ASSUME NEW p \in Routers, OpenLock(p) PROVE LockInv'
  <2>1. CASE lock = Free
    <3>1. ASSUME NEW q \in Routers, ~stolen PROVE ~Inside(q)
      BY <2>1, <3>1, NamesAssumption DEF Free, LockInv, LockOwned
    <3>2. lock'.by = p /\ pc' = [pc EXCEPT ![p] = "list"] /\ files' = files /\ stolen' = stolen
      BY <1>2, <2>1 DEF OpenLock, Available, Held, Goto
    <3>3. ASSUME NEW q \in Routers, ~stolen', q # p PROVE ~Inside(q)'
      BY <3>1, <3>2, <3>3 DEF Inside, TypeOK
    <3>4. pc'[p] = "list"
      BY <3>2 DEF TypeOK
    <3>. QED
      BY <3>2, <3>3, <3>4, Vacant DEF Inside
  <2>2. CASE lock # Free
    BY <1>2, <2>2, Harmless DEF OpenLock, Available, Goto, Inside, Critical, TypeOK
  <2>. QED
    BY <2>1, <2>2
<1>3. ASSUME NEW p \in Routers, StatLock(p) PROVE LockInv'
  BY <1>3, Harmless DEF StatLock, Goto, Inside, Critical, disk, TypeOK
<1>4. ASSUME NEW p \in Routers, LockRefused(p) PROVE LockInv'
  BY <1>4, Harmless DEF LockRefused, Leave, Goto, Inside, Critical, disk, TypeOK
<1>5. ASSUME NEW p \in Routers, ReclaimLock(p) PROVE LockInv'
  BY <1>5, LockRemoved DEF ReclaimLock, Goto
<1>6. ASSUME NEW p \in Routers, List(p) PROVE LockInv'
  <2>1. Inside(p) /\ pc'[p] = "visit" /\ files' \subseteq todo'[p] \cup survivors'[p]
    BY <1>6 DEF List, Goto, Inside, Critical, disk, TypeOK
  <2>. QED
    BY <1>6, <2>1, InsideStep
    DEF List, Goto, disk, TypeOK, LockInv, BoundedUnlessStolen
<1>7. ASSUME NEW p \in Routers, NEW s \in Runs, Visit(p, s) PROVE LockInv'
  <2>1. Inside(p) /\ pc' = pc /\ pc[p] = "visit" /\ files' \subseteq files
    BY <1>7 DEF Visit, Inside, Critical
  <2>2. ~stolen => files' \subseteq todo'[p] \cup survivors'[p]
    BY <1>7, <2>1 DEF Visit, LockInv, CountHolds, TypeOK
  <2>3. ~stolen => Cardinality(files') <= MaxLive
    BY <2>1, NoMore DEF LockInv, BoundedUnlessStolen, TypeOK
  <2>. QED
    BY <1>7, <2>1, <2>2, <2>3, InsideStep DEF Visit
<1>8. ASSUME NEW p \in Routers, Count(p) PROVE LockInv'
  <2>1. Inside(p) /\ files' = files /\ survivors' = survivors /\ lock' = lock
        /\ pc'[p] \in {"sweep", "unlock"} /\ (pc'[p] = "sweep" => ~Full(p)')
    BY <1>8 DEF Count, Goto, Inside, Critical, disk, TypeOK, Full
  <2>2. ~stolen => files \subseteq survivors[p]
    BY <1>8 DEF Count, LockInv, CountHolds
  <2>. QED
    BY <1>8, <2>1, <2>2, InsideStep
    DEF Count, Goto, TypeOK, LockInv, BoundedUnlessStolen
<1>9. ASSUME NEW p \in Routers, SweepTemps(p) PROVE LockInv'
  <2>1. Inside(p) /\ pc'[p] = "write"
    BY <1>9 DEF SweepTemps, Goto, Inside, Critical, TypeOK
  <2>2. ~stolen => files \subseteq survivors[p] /\ ~Full(p)'
    BY <1>9 DEF SweepTemps, LockInv, CountHolds, Full
  <2>. QED
    BY <1>9, <2>1, <2>2, InsideStep
    DEF SweepTemps, Goto, TypeOK, LockInv, BoundedUnlessStolen
<1>10. ASSUME NEW p \in Routers, WriteTemp(p) PROVE LockInv'
  <2>1. Inside(p) /\ pc'[p] = "rename" /\ want'[p] \in temps'
    BY <1>10 DEF WriteTemp, Goto, Inside, Critical, TypeOK
  <2>2. ~stolen => files \subseteq survivors[p] /\ ~Full(p)'
    BY <1>10 DEF WriteTemp, LockInv, CountHolds, Full
  <2>. QED
    BY <1>10, <2>1, <2>2, InsideStep
    DEF WriteTemp, Goto, TypeOK, LockInv, BoundedUnlessStolen
<1>11. ASSUME NEW p \in Routers, Rename(p) PROVE LockInv'
  <2>1. Inside(p) /\ pc'[p] = "unlock" /\ want[p] \in Runs
        /\ (files' = files \/ files' = files \cup {want[p]})
    BY <1>11 DEF Rename, Goto, Inside, Critical, TypeOK
  <2>2. ~stolen => files \subseteq survivors[p] /\ ~Full(p)
    BY <1>11 DEF Rename, LockInv, CountHolds
  <2>3. survivors[p] \in SUBSET Runs /\ Cardinality(survivors[p]) \in Nat
    BY FS_Subset, FS_CardinalityType, NamesAssumption DEF TypeOK
  <2>4. ASSUME ~stolen PROVE Cardinality(files') <= MaxLive
    <3>1. files \subseteq survivors[p] /\ Cardinality(survivors[p]) < MaxLive
      BY <2>2, <2>3, <2>4, LiveAssumption DEF Full
    <3>2. Cardinality(files \cup {want[p]}) <= MaxLive
      BY <2>1, <2>3, <3>1, OneMore DEF TypeOK
    <3>. QED
      BY <2>1, <2>4, <3>2 DEF LockInv, BoundedUnlessStolen
  <2>. QED
    BY <1>11, <2>1, <2>4, InsideStep DEF Rename, Goto, TypeOK
<1>12. ASSUME NEW p \in Routers, Unlock(p) PROVE LockInv'
  BY <1>12, LockRemoved DEF Unlock, Leave, Goto
<1>13. ASSUME NEW p \in Routers, NEW s \in Runs, Release(p, s) PROVE LockInv'
  BY <1>13, Harmless DEF Release
<1>14. ASSUME NEW s \in Runs, CloseControl(s) \/ LauncherSweeps(s) \/ AgyExits(s)
       PROVE LockInv'
  BY <1>14, Harmless DEF CloseControl, LauncherSweeps, AgyExits, disk, world, local
<1>15. ASSUME NEW p \in Routers, Crash(p) PROVE LockInv'
  BY <1>15, Harmless DEF Crash, Leave, Goto, Inside, Critical, disk, TypeOK
<1>16. ASSUME NEW p \in Routers, Deadline(p) PROVE LockInv'
  BY <1>16, Harmless DEF Deadline, disk
<1>17. ASSUME LockAges \/ SlowHolder PROVE LockInv'
  <2>1. lock'.by = lock.by
    BY <1>17 DEF LockAges, SlowHolder, LeftBehind, Age, TypeOK
  <2>. QED
    BY <1>17, <2>1, Harmless DEF LockAges, SlowHolder, LeftBehind, Age, world, local
<1>18. ASSUME UNCHANGED vars PROVE LockInv'
  BY <1>18, Harmless DEF vars, disk, world, local
<1>. QED
  BY <1>1, <1>2, <1>3, <1>4, <1>5, <1>6, <1>7, <1>8, <1>9, <1>10, <1>11, <1>12,
     <1>13, <1>14, <1>15, <1>16, <1>17, <1>18 DEF Next, Prompt, Step

-------------------------------------------------------------------------------
(* The second argument.  A step that changes no Router's memory or         *)
(* registration and spares what they hold.                                 *)
LEMMA Spared ==
  ASSUME RunInv, TypeOK', live' = live,
         \A q \in Routers : Pending(q)' => Pending(q) /\ want'[q] = want[q],
         \A q \in Routers : Pending(q)' => want[q] \notin ending',
         \A q \in Routers : \A s \in live[q] : s \notin ending',
         \A s \in ending' : agy[s] # "unborn",
         \A s \in Runs : agy'[s] = agy[s] \/ (agy[s] = "alive" /\ agy'[s] = "dead"),
         \A s \in sockets \ ending : s \in sockets',
         \A s \in Runs : Survives(s) /\ s \notin ending => s \in files'
  PROVE  RunInv'
<1>. USE DEF RunInv, TypeOK
<1>1. ASSUME NEW p \in Routers, Pending(p)' PROVE want'[p] = want[p] /\ want[p] \in Runs
  BY <1>1, NamesAssumption DEF Pending, Nothing
<1>2. RunsApart'
  BY <1>1 DEF RunsApart
<1>3. RunsFindable'
  BY DEF RunsApart, RunsFindable, Survives
<1>. QED
  BY <1>2, <1>3

LEMMA RunPreserved == RunInv /\ [Next]_vars => RunInv'
<1>. SUFFICES ASSUME RunInv, [Next]_vars PROVE RunInv'
  OBVIOUS
<1>0. TypeOK /\ TypeOK'
  BY TypePreserved DEF RunInv
<1>. USE <1>0
<1>1. ASSUME NEW p \in Routers, NEW s \in Runs, Register(p, s) PROVE RunInv'
  <2>1. /\ pc' = [pc EXCEPT ![p] = "open"] /\ want' = [want EXCEPT ![p] = s]
        /\ agy' = [agy EXCEPT ![s] = "alive"] /\ agy[s] = "unborn"
        /\ sockets' = sockets \cup {s}
        /\ UNCHANGED <<disk, ending, live>>
    BY <1>1 DEF Register, Goto
  <2>2. \A q \in Routers : s \notin live[q] /\ (Pending(q) => want[q] # s)
    BY <2>1 DEF RunInv, RunsApart
  <2>3. \A q \in Routers \ {p} : (Pending(q)' <=> Pending(q)) /\ want'[q] = want[q]
    BY <2>1 DEF Pending, TypeOK
  <2>4. want'[p] = s /\ agy'[s] = "alive" /\ s \in sockets'
        /\ \A t \in Runs \ {s} : agy'[t] = agy[t]
    BY <2>1 DEF TypeOK
  <2>5. s \notin ending
    BY <2>1 DEF RunInv, RunsApart
  <2>6. RunsApart'
    BY <2>1, <2>2, <2>3, <2>4, <2>5 DEF RunInv, RunsApart, TypeOK
  <2>7. RunsFindable'
    BY <2>1, <2>2, <2>4 DEF RunInv, RunsFindable, disk, TypeOK
  <2>. QED
    BY <2>6, <2>7 DEF RunInv
<1>2. ASSUME NEW p \in Routers,
             OpenLock(p) \/ StatLock(p) \/ ReclaimLock(p) \/ List(p) \/ SweepTemps(p)
             \/ WriteTemp(p) \/ Deadline(p) \/ Unlock(p)
      PROVE  RunInv'
  <2>1. UNCHANGED <<files, world, live>>
    BY <1>2 DEF OpenLock, StatLock, ReclaimLock, List, SweepTemps, WriteTemp,
                Deadline, Unlock, disk
  <2>2. \A q \in Routers : Pending(q)' => Pending(q) /\ want'[q] = want[q]
    BY <1>2 DEF OpenLock, StatLock, ReclaimLock, List, SweepTemps, WriteTemp,
                Deadline, Unlock, Leave, Goto, Pending, TypeOK
  <2>. QED
    BY <2>1, <2>2, Spared DEF world, Survives, RunInv, RunsApart
<1>3. ASSUME NEW p \in Routers, NEW s \in Runs, Visit(p, s) PROVE RunInv'
  <2>1. /\ UNCHANGED <<pc, want, world, live>>
        /\ \A t \in Runs : Survives(t) => t \in files'
    BY <1>3 DEF Visit, Survives
  <2>2. \A q \in Routers : Pending(q)' => Pending(q) /\ want'[q] = want[q]
    BY <2>1 DEF Pending
  <2>. QED
    BY <2>1, <2>2, Spared DEF world, RunInv, RunsApart
<1>4. ASSUME NEW p \in Routers, Count(p) \/ LockRefused(p) PROVE RunInv'
  <2>1. /\ UNCHANGED <<files, agy, sockets, live>> /\ Pending(p)
        /\ \A q \in Routers : Pending(q)' => Pending(q) /\ want'[q] = want[q]
        /\ ending' = ending \/ (ending' = ending \cup {want[p]} /\ ~Pending(p)')
    BY <1>4 DEF Count, LockRefused, Refuse, Leave, Goto, Pending, TypeOK, disk, world
  <2>2. /\ \A q \in Routers : Pending(q)' => want[q] \notin ending'
        /\ \A s \in ending' : agy[s] # "unborn"
    BY <2>1 DEF RunInv, RunsApart
  <2>3. \A q \in Routers : \A s \in live[q] : s \notin ending'
    BY <2>1 DEF RunInv, RunsApart
  <2>. QED
    BY <2>1, <2>2, <2>3, Spared DEF Survives
<1>5. ASSUME NEW p \in Routers, Rename(p) PROVE RunInv'
  <2>1. /\ UNCHANGED <<agy, sockets, want>> /\ Pending(p) /\ want[p] \in Runs
        /\ pc' = [pc EXCEPT ![p] = "unlock"]
    BY <1>5 DEF Rename, Refuse, Goto, Pending, TypeOK, world
  <2>2. /\ \A q \in Routers : Pending(q)' => Pending(q)
        /\ ~Pending(p)'
    BY <2>1 DEF Pending, TypeOK
  <2>3. CASE want[p] \in temps
    <3>1. /\ live' = [live EXCEPT ![p] = @ \cup {want[p]}]
          /\ files' = files \cup {want[p]} /\ ending' = ending
      BY <1>5, <2>3 DEF Rename, world
    <3>2. RunsApart'
      BY <2>1, <2>2, <3>1 DEF RunInv, RunsApart, TypeOK
    <3>3. RunsFindable'
      BY <2>1, <3>1 DEF RunInv, RunsApart, RunsFindable, TypeOK
    <3>. QED
      BY <3>2, <3>3 DEF RunInv
  <2>4. CASE want[p] \notin temps
    <3>1. live' = live /\ files' = files /\ ending' = ending \cup {want[p]}
      BY <1>5, <2>4 DEF Rename, Refuse
    <3>2. /\ \A q \in Routers : Pending(q)' => want[q] \notin ending'
          /\ \A s \in ending' : agy[s] # "unborn"
      BY <2>1, <2>2, <3>1 DEF RunInv, RunsApart
    <3>3. \A q \in Routers : \A s \in live[q] : s \notin ending'
      BY <2>1, <3>1 DEF RunInv, RunsApart
    <3>. QED
      BY <2>1, <2>2, <3>1, <3>2, <3>3, Spared DEF Survives
  <2>. QED
    BY <2>3, <2>4
<1>6. ASSUME NEW p \in Routers, NEW s \in Runs, Release(p, s) PROVE RunInv'
  <2>1. /\ UNCHANGED <<agy, sockets, pc, want>> /\ s \in live[p]
        /\ live' = [live EXCEPT ![p] = @ \ {s}]
        /\ files' = files \ {s} /\ ending' = ending \cup {s}
    BY <1>6 DEF Release
  <2>2. \A q \in Routers : live'[q] \subseteq live[q] /\ s \notin live'[q]
    BY <2>1 DEF RunInv, RunsApart, TypeOK
  <2>3. RunsApart'
    BY <2>1, <2>2 DEF RunInv, RunsApart, Pending
  <2>4. RunsFindable'
    BY <2>1, <2>2 DEF RunInv, RunsFindable
  <2>. QED
    BY <2>3, <2>4 DEF RunInv
<1>7. ASSUME NEW s \in Runs, CloseControl(s) \/ LauncherSweeps(s) \/ AgyExits(s)
      PROVE  RunInv'
  <2>1. /\ UNCHANGED <<pc, want, live, ending>>
        /\ \A t \in Runs : agy'[t] = agy[t] \/ (agy[t] = "alive" /\ agy'[t] = "dead")
        /\ \A t \in sockets \ ending : t \in sockets'
        /\ \A t \in Runs : Survives(t) => t \in files'
    BY <1>7 DEF CloseControl, LauncherSweeps, AgyExits, Survives, disk, world, local, TypeOK
  <2>2. \A q \in Routers : Pending(q)' => Pending(q) /\ want'[q] = want[q]
    BY <2>1 DEF Pending
  <2>. QED
    BY <2>1, <2>2, Spared DEF RunInv, RunsApart
<1>8. ASSUME NEW p \in Routers, Crash(p) PROVE RunInv'
  <2>1. /\ UNCHANGED <<files, agy, sockets, ending>>
        /\ live' = [live EXCEPT ![p] = {}]
        /\ \A q \in Routers : Pending(q)' => Pending(q) /\ want'[q] = want[q]
    BY <1>8 DEF Crash, Leave, Goto, Pending, disk, TypeOK
  <2>2. \A q \in Routers : live'[q] \subseteq live[q]
    BY <2>1 DEF TypeOK
  <2>3. RunsApart'
    BY <2>1, <2>2 DEF RunInv, RunsApart
  <2>4. RunsFindable'
    BY <2>1, <2>2 DEF RunInv, RunsFindable
  <2>. QED
    BY <2>3, <2>4 DEF RunInv
<1>9. ASSUME LockAges \/ SlowHolder \/ UNCHANGED vars PROVE RunInv'
  <2>1. UNCHANGED <<files, world, local>>
    BY <1>9 DEF LockAges, SlowHolder, LeftBehind, Age, vars, disk
  <2>. QED
    BY <2>1 DEF world, local, RunInv, RunsApart, RunsFindable, Pending
<1>. QED
  BY <1>1, <1>2, <1>3, <1>4, <1>5, <1>6, <1>7, <1>8, <1>9 DEF Next, Prompt, Step

-------------------------------------------------------------------------------
LEMMA InitInvs == Init => LockInv /\ RunInv
<1>. SUFFICES ASSUME Init PROVE LockInv /\ RunInv
  OBVIOUS
<1>1. TypeOK
  BY DEF Init, TypeOK, Free, Nothing
<1>2. LockOwned /\ CountHolds /\ WritersUndisturbed
  BY DEF Init, LockOwned, CountHolds, WritersUndisturbed, Inside, Critical
<1>3. BoundedUnlessStolen
  BY FS_EmptySet, LiveAssumption DEF Init, BoundedUnlessStolen
<1>4. RunsApart /\ RunsFindable
  BY DEF Init, RunsApart, RunsFindable, Pending
<1>. QED
  BY <1>1, <1>2, <1>3, <1>4 DEF LockInv, RunInv

(* Both invariants hold in every reachable state.                          *)
THEOREM RegistryInvariance == Spec => [](LockInv /\ RunInv)
<1>1. Init => LockInv /\ RunInv
  BY InitInvs
<1>2. LockInv /\ RunInv /\ [Next]_vars => (LockInv /\ RunInv)'
  BY LockPreserved, RunPreserved
<1>. QED
  BY <1>1, <1>2, PTL DEF Spec

(* Every reachable state of the registry is well typed.                    *)
THEOREM RegistryTyped == Spec => []TypeOK
<1>1. LockInv /\ RunInv => TypeOK
  BY DEF LockInv
<1>. QED
  BY <1>1, RegistryInvariance, PTL

(* removeAbandonedTempFiles never takes a live writer's temp file.         *)
THEOREM WritersSafe == Spec => []WritersUndisturbed
<1>1. LockInv /\ RunInv => WritersUndisturbed
  BY DEF LockInv
<1>. QED
  BY <1>1, RegistryInvariance, PTL

(* The descriptors of all Routers together respect the bound, as long as   *)
(* no lock was taken from its holder.                                      *)
THEOREM BoundKept == Spec => []BoundedUnlessStolen
<1>1. LockInv /\ RunInv => BoundedUnlessStolen
  BY DEF LockInv
<1>. QED
  BY <1>1, RegistryInvariance, PTL

(* A held run's descriptor and socket stay while its agy lives, also when  *)
(* locks are stolen.                                                       *)
THEOREM HeldRunsFindable == Spec => []RunsFindable
<1>1. LockInv /\ RunInv => RunsFindable
  BY DEF RunInv
<1>. QED
  BY <1>1, RegistryInvariance, PTL
===============================================================================
