------------------------------- MODULE MCBroker -------------------------------
(***************************************************************************)
(* Values for TLC: two composite ids that differ only in the profile, and  *)
(* a third one in another provider's session.                              *)
(***************************************************************************)
EXTENDS DeferredToolBroker

Id(profile, provider, session) ==
  [profile |-> profile, provider |-> provider, sessionId |-> session]

MCKeys == {Id("CHAT", "chatgpt", "s1"), Id("AGENT", "chatgpt", "s1"),
           Id("AGENT", "claude", "s2")}
===============================================================================
