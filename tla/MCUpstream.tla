------------------------------ MODULE MCUpstream ------------------------------
(***************************************************************************)
(* Values for TLC: catalogs with an excluded model, a wire hint that       *)
(* contradicts the id, an id that names a spending path and an id listed   *)
(* twice; conversations with a failed result, a call whose arguments do    *)
(* not parse and a result without an id.                                   *)
(***************************************************************************)
EXTENDS UpstreamChat

Listed(id, hints, plans) == [id |-> id, hints |-> hints, plans |-> plans]
MCCatalogs ==
  {<<"command-code", <<Listed("claude", <<"other">>, <<>>),
                       Listed("glm", <<>>, <<"other", "excluded">>)>>>>,
   <<"command-code", <<Listed("claude", <<"chat", "messages">>, <<"included">>),
                       Listed("extra", <<>>, <<>>)>>>>,
   <<"command-code", <<Listed("glm", <<>>, <<>>),
                       Listed("glm", <<>>, <<"excluded">>)>>>>,
   <<"cavoti", <<Listed("other", <<>>, <<>>), Listed("pinned", <<>>, <<>>)>>>>,
   <<"cavoti", <<Listed("other", <<>>, <<>>)>>>>}

Message(role, call, error) == [role |-> role, call |-> call, error |-> error]
MCHistories ==
  {<<Message("user", "none", FALSE)>>,
   <<Message("system", "none", FALSE)>>,
   <<Message("user", "none", FALSE), Message("assistant", "a", FALSE),
     Message("tool", "a", TRUE)>>,
   <<Message("user", "none", FALSE), Message("assistant", "unparsable", FALSE)>>,
   <<Message("user", "none", FALSE), Message("tool", NoId, FALSE)>>}
===============================================================================
