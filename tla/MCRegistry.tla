------------------------------ MODULE MCRegistry ------------------------------
(***************************************************************************)
(* Values for TLC: two Routers.  No symmetry, since liveness is checked.   *)
(***************************************************************************)
EXTENDS SessionRegistry
===============================================================================
