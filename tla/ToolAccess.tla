------------------------------ MODULE ToolAccess ------------------------------
(***************************************************************************)
(* What a request must pass before a provider runs: its credential, the    *)
(* parser of the surface it arrives on, the guard on its raw body, and the *)
(* tool-access decision that all three surfaces share.                     *)
(* Source: src/src/http (identity.ts, server.ts, openai-chat.ts,           *)
(* openai-responses.ts, anthropic-messages.ts) and src/src/core            *)
(* (tool-access-policy.ts, tool-policy.ts, tool-kind.ts,                   *)
(* scoped-actions.ts, request-controls.ts, protocol-capabilities.ts).      *)
(*                                                                         *)
(* A request is what its client means, and each surface reads it in that   *)
(* surface's own wire shape.  Everything here is a function of the request *)
(* and the configuration; the state is the one request being served.       *)
(***************************************************************************)
EXTENDS Naturals, Sequences, FiniteSets

CONSTANTS
  Names,       \* function names, which are also the ids of actions and calls
  EmptyName,   \* the name ""
  Stray,       \* an id no assistant call of the request has
  NoId,        \* a tool result without an id
  Tokens,      \* secrets
  NoToken,     \* an absent secret or header
  ServerTokens,\* the secrets cmmchatToken, codeRouterToken and legacyQoderToken
  Registered,  \* ids in the ScopedActionRegistry
  Grants,      \* the sets grantedActions may be
  Requests,    \* the requests that are asked
  Models       \* the models they are resolved to

Surfaces  == {"chat", "responses", "anthropic"}
Providers == {"chatgpt", "claude", "google", "command-code", "cavoti"}
FnNames   == Names \cup {EmptyName}
Kinds     == {"function", "namespace", "hosted", "unknown"}
Decl      == [kind : Kinds, name : FnNames]
Named(n)  == <<"named", n>>
ToolChoices   == {<<k>> : k \in {"absent", "auto", "none", "required"}}
               \cup {Named(n) : n \in Names}
Parallels == {"absent", "yes", "no"}

(* `calls` are the assistant's tool calls in the request's messages, and   *)
(* `results` the ids of its tool results; `control` is a further field of  *)
(* the body, and `body` says whether its other fields have their types.    *)
Request ==
  [tools : Seq(Decl), choice : ToolChoices, parallel : Parallels,
   calls : SUBSET Names, results : SUBSET (Names \cup {Stray, NoId}),
   control : STRING, body : {"ok", "malformed", "oversize"}]

Model == [provider : Providers, wire : {"openai", "anthropic"},
          capability : {"CHAT_AND_TOOLS", "CHAT_ONLY", "undefined"}]

(* assertDistinctServerTokens: the server starts with no other tokens.     *)
Distinct(t) ==
  /\ t.chat \in Tokens
  /\ t.chat \notin {t.agent, t.legacy}

ASSUME TokensAssumption ==
  /\ NoToken \notin Tokens
  /\ ServerTokens \in [chat : Tokens, agent : Tokens \cup {NoToken},
                       legacy : Tokens \cup {NoToken}]
  /\ Distinct(ServerTokens)
ASSUME NamesAssumption ==
  /\ EmptyName \notin Names /\ {Stray, NoId} \cap Names = {}
  /\ Registered \subseteq Names /\ Grants \subseteq SUBSET Names
ASSUME RequestsAssumption == Requests \subseteq Request /\ Models \subseteq Model

VARIABLES
  stage,    \* "unauthenticated", "authenticated" or "answered"
  profile,  \* surface -> the profile it takes the client for, or "nobody"
  granted,  \* grantedActions of the configuration
  model,    \* the model the registry resolves the request to
  asked,    \* the request
  answer    \* surface -> what it does with the request

vars == <<stage, profile, granted, model, asked, answer>>

-------------------------------------------------------------------------------
(* Outcomes.                                                               *)
Refused(code) == [to |-> code]
Passed        == [to |-> "next"]
IsRefused(o)  == o.to \notin {"next", "provider"}

(* The first of some checks that refuses, or the last.                     *)
First(checks) ==
  LET failing == {i \in 1..Len(checks) : IsRefused(checks[i])} IN
  IF failing = {} THEN checks[Len(checks)]
  ELSE checks[CHOOSE i \in failing : \A j \in failing : i <= j]

Check(ok, code) == IF ok THEN Passed ELSE Refused(code)

(* mapRouterErrorToHttp and anthropicErrorFor: the status of a code.       *)
ChatStatus(code) ==
  CASE code \in {"invalid_request", "unknown_provider", "unknown_model",
                 "unsupported_capability"} -> 400
    [] code = "provider_auth_required" -> 401
    [] OTHER -> 500
AnthropicStatus(code) ==
  CASE code \in {"invalid_request", "unknown_provider", "unknown_model",
                 "unsupported_capability"} -> 400
    [] code = "provider_auth_required" -> 401
    [] OTHER -> 500

(* matchCredential and the preHandler: the profile of the first secret     *)
(* that the one presented credential equals.  An API key is a credential   *)
(* on the Anthropic surface only, and next to a bearer token none is.      *)
ProfileOf(t, secret) ==
  IF secret = NoToken THEN "nobody"
  ELSE IF secret = t.chat THEN "CHAT"
  ELSE IF secret \in {t.agent, t.legacy} THEN "AGENT" ELSE "nobody"
Presented(s, bearer, key) ==
  IF s # "anthropic" \/ key = NoToken THEN bearer
  ELSE IF bearer # NoToken THEN NoToken ELSE key

-------------------------------------------------------------------------------
(* The parsers.                                                            *)
OpenAiUnsupported ==
  {"temperature", "top_p", "top_k", "stop", "stop_sequences",
   "presence_penalty", "frequency_penalty", "logit_bias", "n", "seed",
   "logprobs", "top_logprobs"}
ResponsesRejected == {"max_tokens"}
AnthropicUnsupported ==
  {"temperature", "top_p", "top_k", "stop_sequences", "metadata", "thinking",
   "service_tier", "container", "mcp_servers"}
AnthropicAccepted ==
  {"model", "messages", "system", "tools", "tool_choice", "stream", "max_tokens"}

(* rejectUnsupportedControls, and the Anthropic surface's accepted keys.   *)
(* Mutant: Responses refuses its own list and not the shared one.          *)
RefusesOwnList(s, control) ==
  /\ control # "none"
  /\ CASE s = "chat" -> control \in OpenAiUnsupported
       [] s = "responses" -> control \in ResponsesRejected
       [] s = "anthropic" -> control \notin AnthropicAccepted
ControlRefused(s, control) ==
  /\ control # "none"
  /\ CASE s = "chat" -> control \in OpenAiUnsupported
       [] s = "responses" -> control \in OpenAiUnsupported \cup ResponsesRejected
       [] s = "anthropic" -> control \notin AnthropicAccepted

(* classifyToolDeclarationType and representToolDeclaration: a declaration *)
(* that is not a client-owned function refuses the request.                *)
Functions(r) == Check(\A i \in 1..Len(r.tools) : r.tools[i].kind = "function",
                      "unsupported_capability")

(* assertToolResultsWithinBound.                                           *)
Within(r) == Check(r.body # "oversize", "invalid_request")

(* The internal choice.  Anthropic says "parallel" within tool_choice, so  *)
(* there a client that only wants to say that asks for `auto` as well.     *)
ChoiceOn(s, r) ==
  IF s = "anthropic" /\ r.choice = <<"absent">> /\ r.parallel # "absent"
  THEN <<"auto">> ELSE r.choice

(* The parsers, each with its checks in its order.  A tool result without  *)
(* an id is a message on the Chat surface; where it is an item or a block  *)
(* of its own (function_call_output, tool_result) it is malformed.         *)
(* Not modelled: an assistant's call in the history that is itself         *)
(* malformed, which Chat skips and the other two surfaces refuse; `calls`  *)
(* are those that are well formed.                                         *)
ChatParsed(r) ==
  First(<<Check(r.body # "malformed", "invalid_request"), Within(r), Functions(r)>>)
ResponsesMessages(r) ==
  Check(r.body # "malformed" /\ NoId \notin r.results, "invalid_request")
AnthropicMessages(r) ==
  Check(r.body # "malformed" /\ NoId \notin r.results, "invalid_request")
AnthropicParsed(r) == First(<<AnthropicMessages(r), Functions(r), Within(r)>>)

-------------------------------------------------------------------------------
(* rejectChatOnlyTools, on the raw body: for requests that cannot          *)
(* legitimately carry tools.                                               *)
Selects(s, r) == ChoiceOn(s, r) # <<"absent">> \/ r.parallel # "absent"
CarriesHistory(r) == r.calls # {} \/ r.results # {}
CarriesTools(s, r) == r.tools # <<>> \/ Selects(s, r) \/ CarriesHistory(r)

MayCarry(p, m, g) == m.capability = "CHAT_AND_TOOLS" /\ (p = "AGENT" \/ g # {})
Guard(s, r, p, m, g) ==
  Check(MayCarry(p, m, g) \/ ~CarriesTools(s, r), "unsupported_capability")

(* enforceProviderToolPolicy.  Mutant: Codex takes every choice.           *)
RepresentsAll(m, choice, parallel) ==
  m.provider \notin {"claude", "google"} \/ parallel = "absent"
Represents(m, choice, parallel) ==
  CASE m.provider = "chatgpt" ->
         choice \in {<<"absent">>, <<"auto">>} /\ parallel # "no"
    [] m.provider \in {"claude", "google"} ->
         choice \in {<<"absent">>, <<"auto">>} /\ parallel = "absent"
    [] OTHER -> TRUE

(* resolveToolAccess.                                                      *)
DeclNames(r)  == {r.tools[i].name : i \in 1..Len(r.tools)}
Correlated(r) == r.results \subseteq r.calls
ChoosesFrom(choice, names) == Len(choice) = 2 => choice[2] \in names

Capable(s, r, m) ==
  Check(m.capability = "CHAT_AND_TOOLS" \/ ~CarriesTools(s, r), "unsupported_capability")
Representable(s, r, m) ==
  Check(Represents(m, ChoiceOn(s, r), r.parallel), "unsupported_capability")

(* The tools that reach the provider: for CHAT in the Router's definition. *)
Canonical(r, by) == [i \in 1..Len(r.tools) |-> [name |-> r.tools[i].name, by |-> by]]
Forwarded(s, r, mode, by) ==
  [to |-> "provider", mode |-> mode, tools |-> Canonical(r, by),
   choice |-> ChoiceOn(s, r), parallel |-> r.parallel]

AgentAccess(s, r) ==
  IF ~ChoosesFrom(ChoiceOn(s, r), DeclNames(r)) THEN Refused("invalid_request")
  ELSE Forwarded(s, r, "agent", "client")

(* Mutant: what is registered is granted.                                  *)
GrantedAll(r, g) == DeclNames(r) \subseteq Registered
Granted(r, g)    == DeclNames(r) \subseteq Registered \cap g

UniqueNames(r) == /\ EmptyName \notin DeclNames(r)
                  /\ Cardinality(DeclNames(r)) = Len(r.tools)

ScopedAccess(s, r, g) ==
  First(<<Check(UniqueNames(r), "invalid_request"),
          Check(g # {} /\ Granted(r, g), "unsupported_capability"),
          Check(r.calls \subseteq DeclNames(r), "unsupported_capability"),
          Check(Correlated(r), "invalid_request"),
          Check(ChoosesFrom(ChoiceOn(s, r), DeclNames(r)), "invalid_request"),
          Forwarded(s, r, "scoped", "router")>>)

PlainAccess(s, r) ==
  IF Selects(s, r) \/ CarriesHistory(r) THEN Refused("unsupported_capability")
  ELSE Forwarded(s, r, "none", "router")

Decision(s, r, p, m, g) ==
  First(<<Capable(s, r, m), Representable(s, r, m),
          IF p = "AGENT" THEN AgentAccess(s, r)
          ELSE IF r.tools # <<>> THEN ScopedAccess(s, r, g)
          ELSE PlainAccess(s, r)>>)

-------------------------------------------------------------------------------
(* The handlers, up to adapter.run.  Responses guards the raw body before  *)
(* it parses the messages, and bounds them after.  Mutant: it forgets to.  *)
Controls(s, r) == Check(~ControlRefused(s, r.control), "unsupported_capability")

ChatHandler(r, p, m, g) ==
  First(<<Controls("chat", r), ChatParsed(r),
          Guard("chat", r, p, m, g), Decision("chat", r, p, m, g)>>)

ResponsesUnbounded(r, p, m, g) ==
  First(<<Controls("responses", r), Functions(r), Guard("responses", r, p, m, g),
          ResponsesMessages(r), Decision("responses", r, p, m, g)>>)
ResponsesHandler(r, p, m, g) ==
  First(<<Controls("responses", r), Functions(r), Guard("responses", r, p, m, g),
          ResponsesMessages(r), Within(r), Decision("responses", r, p, m, g)>>)

AnthropicHandler(r, p, m, g) ==
  First(<<Controls("anthropic", r), AnthropicParsed(r),
          Guard("anthropic", r, p, m, g), Decision("anthropic", r, p, m, g)>>)

Handler(s, r, p, m, g) ==
  CASE s = "chat"      -> ChatHandler(r, p, m, g)
    [] s = "responses" -> ResponsesHandler(r, p, m, g)
    [] s = "anthropic" -> AnthropicHandler(r, p, m, g)

(* What the adapters put on the provider's own wire: Command Code and      *)
(* Cavoti the choice itself (toChatWireToolChoice, toAnthropicToolChoice), *)
(* the others nothing.                                                     *)
ToAnthropic(m, o) ==
  [choice   |-> IF o.choice = <<"absent">> /\ o.parallel # "absent"
                THEN <<"auto">> ELSE o.choice,
   parallel |-> IF o.parallel = "no" THEN "no" ELSE "absent"]
Upstream(m, o) ==
  CASE m.provider \notin {"command-code", "cavoti"} ->
         [choice |-> <<"absent">>, parallel |-> "absent"]
    [] m.provider = "command-code" /\ m.wire = "anthropic" -> ToAnthropic(m, o)
    [] OTHER -> [choice |-> o.choice, parallel |-> o.parallel]

(* The published descriptor, protocolCapabilitiesFor.                      *)
Published(s, m) ==
  LET full == m.provider \in {"command-code", "cavoti"} IN
  [tools    |-> m.capability = "CHAT_AND_TOOLS",
   choice   |-> IF full THEN "full" ELSE "auto_only",
   parallel |-> full,
   refuses  |-> CASE s = "chat" -> OpenAiUnsupported
                  [] s = "responses" -> OpenAiUnsupported \cup ResponsesRejected
                  [] s = "anthropic" -> AnthropicUnsupported,
   supports |-> IF s = "responses" THEN {"max_output_tokens"} ELSE {"max_tokens"}]

-------------------------------------------------------------------------------
NoAnswer == [s \in Surfaces |-> [to |-> "none"]]
Unauthorized == Refused("router_unauthorized")
NoRequest == [tools |-> <<>>, choice |-> <<"absent">>, parallel |-> "absent",
              calls |-> {}, results |-> {}, control |-> "none", body |-> "ok"]

Init ==
  /\ stage = "unauthenticated" /\ profile = [s \in Surfaces |-> "nobody"]
  /\ granted \in Grants /\ model \in Models
  /\ asked = NoRequest /\ answer = NoAnswer

(* The preHandler, with the credentials of the request.                    *)
Authenticate(bearer, key) ==
  /\ stage = "unauthenticated"
  /\ profile' = [s \in Surfaces |-> ProfileOf(ServerTokens, Presented(s, bearer, key))]
  /\ stage' = "authenticated"
  /\ UNCHANGED <<granted, model, asked, answer>>

(* The request is put to every surface.                                    *)
Serve(r) ==
  /\ stage = "authenticated"
  /\ asked' = r
  /\ answer' = [s \in Surfaces |->
       IF profile[s] = "nobody" THEN Unauthorized
       ELSE Handler(s, r, profile[s], model, granted)]
  /\ stage' = "answered"
  /\ UNCHANGED <<profile, granted, model>>

Next ==
  \/ \E bearer, key \in Tokens \cup {NoToken} : Authenticate(bearer, key)
  \/ \E r \in Requests : Serve(r)

Spec == Init /\ [][Next]_vars

-------------------------------------------------------------------------------
Admitted(s) == answer[s].to = "provider"
Served(s)   == stage = "answered" /\ profile[s] # "nobody"

(* "An unrepresentable constraint must fail identically here and on        *)
(* /v1/chat/completions" (registerResponsesApi): a request that every      *)
(* surface can express is admitted by all that know its client or by none  *)
(* of them, with the same status, although they read the credential and    *)
(* the body differently and check it in different orders.                  *)
Expressible == asked.control = "none" /\ NoId \notin asked.results
StatusOn(s) == IF Admitted(s) THEN 200
               ELSE IF s = "anthropic" THEN AnthropicStatus(answer[s].to)
               ELSE ChatStatus(answer[s].to)
SurfacesAgree ==
  \A s, t \in Surfaces : Served(s) /\ Served(t) /\ Expressible =>
    /\ StatusOn(s) = StatusOn(t)
    /\ asked.body = "ok" => /\ answer[s].to = answer[t].to
                            /\ Admitted(s) => answer[s].tools = answer[t].tools

(* "Client-supplied definitions are never a grant, and an unallowed tool   *)
(* is rejected rather than stripped" (resolveToolAccess): what reaches a   *)
(* provider for CHAT is declared, registered, granted, and the Router's    *)
(* own definition, and its history names nothing else; and no tool         *)
(* semantics of any kind reach a model without them.                       *)
GrantsHold ==
  \A s \in Surfaces : Admitted(s) =>
    /\ Served(s) /\ Len(answer[s].tools) = Len(asked.tools)
    /\ model.capability # "CHAT_AND_TOOLS" => ~CarriesTools(s, asked)
    /\ profile[s] = "CHAT" =>
         /\ DeclNames(asked) \cup asked.calls \subseteq Registered \cap granted
         /\ \A i \in 1..Len(answer[s].tools) : answer[s].tools[i].by = "router"
         /\ asked.results \subseteq asked.calls
         /\ CarriesTools(s, asked) => granted # {}

(* "A constraint must NEVER be accepted and then silently discarded"       *)
(* (tool-policy.ts): what an admitted request says of the choice of tools  *)
(* and of parallel calls, its provider is told, or does by default.        *)
Meaning(c) ==
  [choice   |-> IF c.choice = <<"absent">> THEN <<"auto">> ELSE c.choice,
   parallel |-> IF c.parallel = "absent" THEN "yes" ELSE c.parallel]
ConstraintsReachProvider ==
  \A s \in Surfaces : Admitted(s) =>
    Meaning(Upstream(model, answer[s])) = Meaning(asked)

(* "publication and behavior cannot drift apart" (request-controls.ts):    *)
(* a control is refused that the model's descriptor calls unsupported, and *)
(* an agent's request that stays within the descriptor is admitted.        *)
WithinPublished(s) ==
  LET d == Published(s, model) IN
  /\ asked.body = "ok" /\ asked.control \in {"none"} \cup d.supports
  /\ \A i \in 1..Len(asked.tools) : asked.tools[i].kind = "function"
  /\ NoId \notin asked.results
  /\ CarriesTools(s, asked) => d.tools
  /\ d.choice = "auto_only" => asked.choice \in {<<"absent">>, <<"auto">>}
  /\ ~d.parallel => asked.parallel = "absent"
  /\ ChoosesFrom(asked.choice, DeclNames(asked))
PublishedIsEnforced ==
  \A s \in Surfaces : Served(s) =>
    /\ asked.control \in Published(s, model).refuses => ~Admitted(s)
    /\ profile[s] = "AGENT" /\ WithinPublished(s) => Admitted(s)
===============================================================================
