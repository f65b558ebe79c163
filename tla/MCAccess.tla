------------------------------- MODULE MCAccess -------------------------------
(***************************************************************************)
(* Values for TLC: two names, of which one is registered; requests in      *)
(* which at most two aspects differ from a plain chat request; every       *)
(* provider, wire and capability.                                          *)
(***************************************************************************)
EXTENDS ToolAccess

CONSTANTS a, b, t1, t2

MCTokens == [chat |-> t1, agent |-> t2, legacy |-> t2]
MCGrants == {{}, {b}, {a, b}}
MCModels ==
  {m \in Model : m.wire = "anthropic" => m.provider = "command-code"}

Function(n) == [kind |-> "function", name |-> n]
Some == {Function(a), Function(b), Function(EmptyName),
         [kind |-> "hosted", name |-> a], [kind |-> "unknown", name |-> b]}
ToolLists == {<<>>} \cup {<<x>> : x \in Some} \cup {<<x, y>> : x, y \in Some}

Selections == ToolChoices \X Parallels
Histories  == (SUBSET {a, b}) \X (SUBSET {a, Stray, NoId})
Oddities   == ({"none"} \X {"ok", "malformed", "oversize"})
  \cup ({"temperature", "stop", "metadata", "max_tokens", "max_output_tokens"} \X {"ok"})

Make(l, s, h, o) ==
  [tools |-> l, choice |-> s[1], parallel |-> s[2], calls |-> h[1],
   results |-> h[2], control |-> o[1], body |-> o[2]]
Plain  == <<<<"absent">>, "absent">>
Silent == <<{}, {}>>
Normal == <<"none", "ok">>

MCRequests ==
  {Make(l, s, Silent, Normal) : l \in ToolLists, s \in Selections}
  \cup {Make(l, Plain, h, Normal) : l \in ToolLists, h \in Histories}
  \cup {Make(l, Plain, Silent, o) : l \in ToolLists, o \in Oddities}
  \cup {Make(<<>>, s, h, Normal) : s \in Selections, h \in Histories}
  \cup {Make(<<>>, s, Silent, o) : s \in Selections, o \in Oddities}
  \cup {Make(<<>>, Plain, h, o) : h \in Histories, o \in Oddities}
===============================================================================
