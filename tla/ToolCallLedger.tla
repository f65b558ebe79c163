---------------------------- MODULE ToolCallLedger ----------------------------
(***************************************************************************)
(* What the deferred tool broker promises to the adapters that share it,   *)
(* with none of its maps: a call is parked, and then settled exactly once, *)
(* as resolved, expired or cancelled.  Never more than MaxPending calls    *)
(* are parked, and every parked call is settled in the end.                *)
(***************************************************************************)
EXTENDS Naturals, FiniteSets

CONSTANTS Calls,       \* the identities of the calls that may be parked
          MaxPending   \* how many may be parked at once

VARIABLE status        \* call -> where it is in its life

Fates    == {"resolved", "expired", "cancelled"}
Statuses == {"unborn", "pending"} \cup Fates

Pending == {c \in Calls : status[c] = "pending"}

LedgerInit == status = [c \in Calls |-> "unborn"]

Park(c) ==
  /\ status[c] = "unborn"
  /\ Cardinality(Pending) < MaxPending
  /\ status' = [status EXCEPT ![c] = "pending"]

(* A call whose caller has already gone is parked and cancelled at once.   *)
ParkCancelled(c) ==
  /\ status[c] = "unborn"
  /\ status' = [status EXCEPT ![c] = "cancelled"]

(* Cancelling a scope settles several calls in one step; a claim settles   *)
(* one.                                                                    *)
SettleSome(S, how) ==
  /\ S \subseteq Pending
  /\ how = "resolved" => Cardinality(S) = 1
  /\ status' = [c \in Calls |-> IF c \in S THEN how ELSE status[c]]

LedgerNext ==
  \/ \E c \in Calls : Park(c) \/ ParkCancelled(c)
  \/ \E S \in SUBSET Pending, how \in Fates : SettleSome(S, how)

Ledger == LedgerInit /\ [][LedgerNext]_status

(* Every parked call is settled in the end.                                *)
Settles == \A c \in Calls : status[c] = "pending" ~> status[c] \in Fates

LedgerSpec == Ledger /\ Settles
===============================================================================
