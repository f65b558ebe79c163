------------------------------- MODULE MCClaude -------------------------------
(***************************************************************************)
(* Values for TLC: one conversation, whose opener may be followed by up to *)
(* two continuations.                                                      *)
(***************************************************************************)
EXTENDS ClaudeAdapter
===============================================================================
