---------------------------- MODULE SessionRegistry ----------------------------
(***************************************************************************)
(* The directory in which the Router processes of a machine publish one    *)
(* descriptor per parked Antigravity run, for the run's MCP launcher to    *)
(* find.  Source: src/src/bridge/session-registry.ts, mcp-bridge-launcher  *)
(* .ts, and the run's start and end in providers/antigravity/adapter.ts.   *)
(*                                                                         *)
(* Routers, launchers and agy processes are separate processes: every file *)
(* system call is a step of its own.  Within a Router `register` and       *)
(* `release` are synchronous, so a Router is in at most one of them.       *)
(*                                                                         *)
(* A run is named after its agy process, and a process id is not used      *)
(* again: a descriptor has one writer.                                     *)
(***************************************************************************)
EXTENDS Naturals, FiniteSets

CONSTANTS
  Routers,      \* processes that share the registry directory
  Runs,         \* agy processes, one per run, over all Routers' lives
  MaxLive,      \* SESSION_REGISTRY_MAX_LIVE (64 in the code)
  MaxCrashes    \* bound on this model: crashes in one behaviour

ASSUME LiveAssumption == MaxLive \in Nat \ {0} /\ MaxCrashes \in Nat
ASSUME NamesAssumption ==
  IsFiniteSet(Runs) /\ "nothing" \notin Runs /\ "nobody" \notin Routers

VARIABLES
  lock,         \* .lock: the Router that made it, and whether it looks stale
  files,        \* agy-<pid>.json: runs with a descriptor
  temps,        \* .tmp-agy-*: runs whose descriptor is being written
  agy,          \* run -> its provider process
  sockets,      \* runs whose control socket exists
  ending,       \* runs whose control channel is going to be closed
  pc, want,     \* Router -> where in register it is, and for which run
  late,         \* Router -> its lock deadline has passed
  todo,         \* Router -> directory entries not yet visited
  survivors,    \* Router -> the effective set, as far as it is known
  live,         \* Router -> the runs it holds in memory
  crashes,      \* bound on this model: counts towards MaxCrashes
  stolen        \* history: a lock was removed while its maker relied on it

disk  == <<lock, files, temps>>
world == <<agy, sockets, ending, crashes>>
local == <<pc, want, late, todo, survivors, live>>
vars  == <<disk, world, local, stolen>>

Free     == [by |-> "nobody", old |-> FALSE]
Held(p)  == [by |-> p, old |-> FALSE]
Nothing  == "nothing"
Critical == {"list", "visit", "sweep", "write", "rename", "unlock"}
Inside(p) == pc[p] \in Critical

Init ==
  /\ lock = Free /\ files = {} /\ temps = {}
  /\ agy = [s \in Runs |-> "unborn"] /\ sockets = {} /\ ending = {}
  /\ pc = [p \in Routers |-> "idle"]
  /\ want = [p \in Routers |-> Nothing]
  /\ late = [p \in Routers |-> FALSE]
  /\ todo = [p \in Routers |-> {}]
  /\ survivors = [p \in Routers |-> {}]
  /\ live = [p \in Routers |-> {}]
  /\ crashes = 0
  /\ stolen = FALSE

Goto(p, there) == pc' = [pc EXCEPT ![p] = there]

(* The end of register, with its local variables.                          *)
Leave(p) ==
  /\ Goto(p, "idle")
  /\ want' = [want EXCEPT ![p] = Nothing]
  /\ late' = [late EXCEPT ![p] = FALSE]
  /\ todo' = [todo EXCEPT ![p] = {}]
  /\ survivors' = [survivors EXCEPT ![p] = {}]

-------------------------------------------------------------------------------
(* A run starts: its control channel listens, agy is spawned, and register *)
(* is called with agy's process id.                                        *)
Register(p, s) ==
  /\ pc[p] = "idle" /\ agy[s] = "unborn"
  /\ agy' = [agy EXCEPT ![s] = "alive"]
  /\ sockets' = sockets \cup {s}
  /\ want' = [want EXCEPT ![p] = s]
  /\ Goto(p, "open")
  /\ UNCHANGED <<disk, ending, crashes, late, todo, survivors, live, stolen>>

(* A run that is refused is aborted and its control channel closed.        *)
Refuse(p) ==
  /\ ending' = ending \cup {want[p]}
  /\ UNCHANGED <<agy, sockets, crashes>>

(* openSync(".lock", "wx").  Mutant: without the x.                        *)
Overwritable == TRUE
Available == lock = Free

OpenLock(p) ==
  /\ pc[p] = "open"
  /\ IF Available THEN lock' = Held(p) /\ Goto(p, "list")
                    ELSE UNCHANGED lock /\ Goto(p, "stat")
  /\ UNCHANGED <<files, temps, world, want, late, todo, survivors, live, stolen>>

(* reclaimStaleLock's look at the lock.  One that has gone meanwhile is    *)
(* tried again at once, before the deadline is looked at.  Mutant: so is   *)
(* any other.                                                              *)
Patient(p) == FALSE
OutOfTime(p) == lock # Free /\ ~lock.old /\ late[p]

StatLock(p) ==
  /\ pc[p] = "stat" /\ ~OutOfTime(p)
  /\ IF lock.old THEN Goto(p, "reclaim") ELSE Goto(p, "open")
  /\ UNCHANGED <<disk, world, want, late, todo, survivors, live, stolen>>

LockRefused(p) ==
  /\ pc[p] = "stat" /\ OutOfTime(p)
  /\ Refuse(p) /\ Leave(p)
  /\ UNCHANGED <<disk, live, stolen>>

(* Removing the lock file removes whatever lock is there by now.           *)
Takes(p) == lock.by # p /\ lock # Free /\ \E q \in Routers : lock.by = q /\ Inside(q)
RemoveLock(p) ==
  /\ lock' = Free
  /\ stolen' = (stolen \/ Takes(p))

ReclaimLock(p) ==
  /\ pc[p] = "reclaim"
  /\ RemoveLock(p)
  /\ Goto(p, "open")
  /\ UNCHANGED <<files, temps, world, want, late, todo, survivors, live>>

-------------------------------------------------------------------------------
(* reconcileOnDisk: the directory is listed, and then each descriptor of   *)
(* another Router is judged and swept if its run cannot be live.           *)
List(p) ==
  /\ pc[p] = "list"
  /\ todo' = [todo EXCEPT ![p] = files \ live[p]]
  /\ survivors' = [survivors EXCEPT ![p] = live[p]]
  /\ Goto(p, "visit")
  /\ UNCHANGED <<disk, world, want, late, live, stolen>>

(* Mutant: only this Router's own runs survive.                            *)
OwnOnly(s)  == FALSE
Survives(s) == s \in files /\ agy[s] = "alive" /\ s \in sockets

Visit(p, s) ==
  /\ pc[p] = "visit" /\ s \in todo[p]
  /\ todo' = [todo EXCEPT ![p] = @ \ {s}]
  /\ IF Survives(s)
     THEN /\ survivors' = [survivors EXCEPT ![p] = @ \cup {s}]
          /\ UNCHANGED files
     ELSE files' = files \ {s} /\ UNCHANGED survivors
  /\ UNCHANGED <<lock, temps, world, pc, want, late, live, stolen>>

(* The capacity check.  Mutant: against this Router's own runs only.       *)
OwnFull(p) == Cardinality(live[p]) >= MaxLive
Full(p) == Cardinality(survivors[p]) >= MaxLive

Count(p) ==
  /\ pc[p] = "visit" /\ todo[p] = {}
  /\ IF Full(p) THEN Goto(p, "unlock") /\ Refuse(p)
                ELSE Goto(p, "sweep") /\ UNCHANGED world
  /\ UNCHANGED <<disk, want, late, todo, survivors, live, stolen>>

(* removeAbandonedTempFiles.                                               *)
SweepTemps(p) ==
  /\ pc[p] = "sweep"
  /\ temps' = {}
  /\ Goto(p, "write")
  /\ UNCHANGED <<lock, files, world, want, late, todo, survivors, live, stolen>>

(* publishDescriptor: the temp file, then the rename, which fails if       *)
(* another writer has swept the temp file away.                            *)
WriteTemp(p) ==
  /\ pc[p] = "write"
  /\ temps' = temps \cup {want[p]}
  /\ Goto(p, "rename")
  /\ UNCHANGED <<lock, files, world, want, late, todo, survivors, live, stolen>>

Rename(p) ==
  LET s == want[p] IN
  /\ pc[p] = "rename"
  /\ IF s \in temps
     THEN /\ files' = files \cup {s}
          /\ live' = [live EXCEPT ![p] = @ \cup {s}]
          /\ UNCHANGED world
     ELSE Refuse(p) /\ UNCHANGED <<files, live>>
  /\ temps' = temps \ {s}
  /\ Goto(p, "unlock")
  /\ UNCHANGED <<lock, want, late, todo, survivors, stolen>>

(* withDirectoryLock's finally.                                            *)
Unlock(p) ==
  /\ pc[p] = "unlock"
  /\ RemoveLock(p)
  /\ Leave(p)
  /\ UNCHANGED <<files, temps, world, live>>

-------------------------------------------------------------------------------
(* closeToolSession: the run is aborted, its descriptor released (without  *)
(* the lock), and then its control channel closed.                         *)
Release(p, s) ==
  /\ pc[p] = "idle" /\ s \in live[p]
  /\ files' = files \ {s}
  /\ live' = [live EXCEPT ![p] = @ \ {s}]
  /\ ending' = ending \cup {s}
  /\ UNCHANGED <<lock, temps, agy, sockets, crashes, pc, want, late, todo,
                 survivors, stolen>>

CloseControl(s) ==
  /\ s \in ending \cap sockets
  /\ sockets' = sockets \ {s}
  /\ UNCHANGED <<disk, agy, ending, crashes, local, stolen>>

(* readSessionDescriptor, by the launcher that runs under agy s: a         *)
(* descriptor whose run cannot be live is removed, without the lock.       *)
LauncherSweeps(s) ==
  /\ s \in files /\ ~Survives(s)
  /\ files' = files \ {s}
  /\ UNCHANGED <<lock, temps, world, local, stolen>>

(* External: agy ends, by itself, aborted, or with its Router.             *)
AgyExits(s) ==
  /\ agy[s] = "alive"
  /\ agy' = [agy EXCEPT ![s] = "dead"]
  /\ UNCHANGED <<disk, sockets, ending, crashes, local, stolen>>

(* A Router dies and is started again: its memory is gone, its files and   *)
(* sockets are not, nor is a lock it held.                                 *)
Crash(p) ==
  /\ crashes < MaxCrashes
  /\ crashes' = crashes + 1
  /\ Leave(p)
  /\ live' = [live EXCEPT ![p] = {}]
  /\ UNCHANGED <<disk, agy, sockets, ending, stolen>>

(* The two clocks: staleLockMs after a lock was made, and the deadline of  *)
(* a Router that waits for it.                                             *)
Age == lock' = [lock EXCEPT !.old = TRUE] /\ UNCHANGED <<files, temps, world, local, stolen>>
LeftBehind == lock # Free /\ ~lock.old /\ \A q \in Routers : lock.by = q => ~Inside(q)
LockAges == LeftBehind /\ Age
SlowHolder == lock # Free /\ ~lock.old /\ ~LeftBehind /\ Age

Deadline(p) ==
  /\ pc[p] \in {"open", "stat", "reclaim"} /\ ~late[p]
  /\ late' = [late EXCEPT ![p] = TRUE]
  /\ UNCHANGED <<disk, world, pc, want, todo, survivors, live, stolen>>

-------------------------------------------------------------------------------
Step(p) ==
  \/ OpenLock(p) \/ StatLock(p) \/ LockRefused(p) \/ ReclaimLock(p) \/ List(p)
  \/ \E s \in Runs : Visit(p, s)
  \/ Count(p) \/ SweepTemps(p) \/ WriteTemp(p) \/ Rename(p) \/ Unlock(p)

Prompt ==
  \/ \E p \in Routers : Step(p) \/ Crash(p) \/ Deadline(p)
  \/ \E p \in Routers, s \in Runs : Register(p, s) \/ Release(p, s)
  \/ \E s \in Runs : CloseControl(s) \/ LauncherSweeps(s) \/ AgyExits(s)
  \/ LockAges

Next == Prompt \/ SlowHolder

Spec == Init /\ [][Next]_vars

(* A Router that is in `register` goes on, and clocks advance.  Nobody is  *)
(* obliged to start a run, to end one, or to crash.                        *)
FairSpec == Spec /\ \A p \in Routers : WF_vars(Step(p)) /\ WF_vars(Deadline(p))

(* In which no critical section lasts as long as staleLockMs.              *)
PromptSpec == Init /\ [][Prompt]_vars

-------------------------------------------------------------------------------
TypeOK ==
  /\ lock \in [by : Routers, old : BOOLEAN] \cup {Free}
  /\ files \subseteq Runs /\ temps \subseteq Runs /\ sockets \subseteq Runs
  /\ ending \subseteq Runs
  /\ agy \in [Runs -> {"unborn", "alive", "dead"}]
  /\ pc \in [Routers -> {"idle", "open", "stat", "reclaim"} \cup Critical]
  /\ want \in [Routers -> Runs \cup {Nothing}]
  /\ \A p \in Routers : pc[p] = "idle" <=> want[p] = Nothing
  /\ late \in [Routers -> BOOLEAN]
  /\ todo \in [Routers -> SUBSET Runs] /\ survivors \in [Routers -> SUBSET Runs]
  /\ live \in [Routers -> SUBSET Runs]
  /\ crashes \in Nat /\ stolen \in BOOLEAN

(* "a matching file is guaranteed to be orphaned"                          *)
(* (removeAbandonedTempFiles): no writer ever finds its own temp file      *)
(* swept away by another, unless a lock was taken from its holder.         *)
WritersUndisturbed ==
  \A p \in Routers : pc[p] = "rename" /\ ~stolen => want[p] \in temps

(* Never more than MaxLive descriptors, counting all Routers' and those    *)
(* that crashed Routers left, unless a lock was taken from its holder.     *)
BoundedUnlessStolen == ~stolen => Cardinality(files) <= MaxLive

(* "its descriptor is never removed while the run is parked"               *)
(* (reconcileOnDisk): whatever other Routers and launchers sweep, the      *)
(* launcher of a run that is held and whose agy lives finds its descriptor.*)
RunsFindable ==
  \A p \in Routers : \A s \in live[p] : agy[s] = "alive" =>
    s \in files /\ s \in sockets

(* A registration ends, refused or not, though other Routers hold the lock *)
(* or have crashed with it ("past the bounded timeout the caller is        *)
(* refused", withDirectoryLock).                                           *)
RegisterEnds == \A p \in Routers : pc[p] # "idle" ~> pc[p] = "idle"

(* "two Router processes sharing one registry directory cannot each        *)
(* believe they are below the global maximum" (BridgeSessionRegistry).     *)
GloballyBounded == Cardinality(files) <= MaxLive
===============================================================================
