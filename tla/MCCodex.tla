-------------------------------- MODULE MCCodex --------------------------------
(***************************************************************************)
(* Values for TLC.  A request declares no tools or the tool "a"; the       *)
(* app-server may ask for "a" or for the undeclared "b".                   *)
(***************************************************************************)
EXTENDS CodexAdapter

OpenerSymmetry == Permutations(Openers)
MCToolSets == {{}, {"a"}}
WideToolSets == {{"a"}, {"a", "b"}}
===============================================================================
