--------------------------- MODULE ToolAccessProofs ---------------------------
(***************************************************************************)
(* Proofs about the tool-access decision: for every set of names, every    *)
(* registry, every grant, every configuration of secrets and every request *)
(* of the request type, not only those that differ from a plain one in two *)
(* aspects.                                                                *)
(***************************************************************************)
EXTENDS ToolAccess, TLAPS

(* The state is the question that was put and the answers to it.           *)
IInv ==
  /\ stage \in {"unauthenticated", "authenticated", "answered"}
  /\ profile \in [Surfaces -> {"nobody", "CHAT", "AGENT"}]
  /\ \A s, t \in Surfaces :
       profile[s] # "nobody" /\ profile[t] # "nobody" => profile[s] = profile[t]
  /\ granted \in Grants /\ model \in Models
  /\ stage = "answered" =>
       /\ asked \in Requests
       /\ answer = [s \in Surfaces |->
            IF profile[s] = "nobody" THEN Unauthorized
            ELSE Handler(s, asked, profile[s], model, granted)]
  /\ stage # "answered" => answer = NoAnswer

-------------------------------------------------------------------------------
(* The first check that refuses is what a list of checks comes to, and     *)
(* without a refusal the last.                                             *)
LEMMA FirstRefusal ==
  ASSUME NEW checks, NEW k \in 1..Len(checks), Len(checks) \in Nat,
         IsRefused(checks[k]), \A j \in 1..(k - 1) : ~IsRefused(checks[j])
  PROVE  First(checks) = checks[k]
<1> DEFINE failing == {i \in 1..Len(checks) : IsRefused(checks[i])}
<1>1. k \in failing /\ \A j \in failing : k <= j
  OBVIOUS
<1>2. \A i \in failing : (\A j \in failing : i <= j) => i = k
  BY <1>1
<1>3. (CHOOSE i \in failing : \A j \in failing : i <= j) = k
  BY <1>1, <1>2
<1>. QED
  BY <1>1, <1>3 DEF First

LEMMA NoRefusal ==
  ASSUME NEW checks, \A i \in 1..Len(checks) : ~IsRefused(checks[i])
  PROVE  First(checks) = checks[Len(checks)]
BY DEF First

(* The lists the handlers use, written out.                                *)
LEMMA FirstOfThree ==
  ASSUME NEW s, NEW a, NEW b, NEW c, s = <<a, b, c>>
  PROVE  First(s) = IF IsRefused(a) THEN a ELSE IF IsRefused(b) THEN b ELSE c
<1>1. Len(s) = 3 /\ s[1] = a /\ s[2] = b /\ s[3] = c
  OBVIOUS
<1>2. IsRefused(s[1]) => First(s) = s[1]
  BY <1>1, FirstRefusal
<1>3. ~IsRefused(s[1]) /\ IsRefused(s[2]) => First(s) = s[2]
  BY <1>1, FirstRefusal
<1>4. ~IsRefused(s[1]) /\ ~IsRefused(s[2]) => First(s) = s[3]
  BY <1>1, FirstRefusal, NoRefusal, SMTT(30)
<1>. QED
  BY <1>1, <1>2, <1>3, <1>4

LEMMA FirstOfFour ==
  ASSUME NEW s, NEW a, NEW b, NEW c, NEW d, s = <<a, b, c, d>>
  PROVE  First(s) =
           IF IsRefused(a) THEN a
           ELSE IF IsRefused(b) THEN b
           ELSE IF IsRefused(c) THEN c ELSE d
<1>1. Len(s) = 4 /\ s[1] = a /\ s[2] = b /\ s[3] = c /\ s[4] = d
  OBVIOUS
<1>2. IsRefused(s[1]) => First(s) = s[1]
  BY <1>1, FirstRefusal
<1>3. ~IsRefused(s[1]) /\ IsRefused(s[2]) => First(s) = s[2]
  BY <1>1, FirstRefusal
<1>4. ~IsRefused(s[1]) /\ ~IsRefused(s[2]) /\ IsRefused(s[3]) => First(s) = s[3]
  BY <1>1, FirstRefusal
<1>5. ~IsRefused(s[1]) /\ ~IsRefused(s[2]) /\ ~IsRefused(s[3]) => First(s) = s[4]
  BY <1>1, FirstRefusal, NoRefusal
<1>. QED
  BY <1>1, <1>2, <1>3, <1>4, <1>5

LEMMA FirstOfSix ==
  ASSUME NEW s, NEW a, NEW b, NEW c, NEW d, NEW e, NEW f, s = <<a, b, c, d, e, f>>
  PROVE  First(s) =
           IF IsRefused(a) THEN a
           ELSE IF IsRefused(b) THEN b
           ELSE IF IsRefused(c) THEN c
           ELSE IF IsRefused(d) THEN d
           ELSE IF IsRefused(e) THEN e ELSE f
<1>1. Len(s) = 6 /\ s[1] = a /\ s[2] = b /\ s[3] = c /\ s[4] = d /\ s[5] = e /\ s[6] = f
  OBVIOUS
<1>2. IsRefused(s[1]) => First(s) = s[1]
  BY <1>1, FirstRefusal
<1>3. ~IsRefused(s[1]) /\ IsRefused(s[2]) => First(s) = s[2]
  BY <1>1, FirstRefusal
<1>4. ~IsRefused(s[1]) /\ ~IsRefused(s[2]) /\ IsRefused(s[3]) => First(s) = s[3]
  BY <1>1, FirstRefusal
<1>5. ~IsRefused(s[1]) /\ ~IsRefused(s[2]) /\ ~IsRefused(s[3]) /\ IsRefused(s[4]) => First(s) = s[4]
  BY <1>1, FirstRefusal
<1>6. ~IsRefused(s[1]) /\ ~IsRefused(s[2]) /\ ~IsRefused(s[3]) /\ ~IsRefused(s[4]) /\ IsRefused(s[5]) => First(s) = s[5]
  BY <1>1, FirstRefusal
<1>7. ~IsRefused(s[1]) /\ ~IsRefused(s[2]) /\ ~IsRefused(s[3]) /\ ~IsRefused(s[4]) /\ ~IsRefused(s[5]) => First(s) = s[6]
  BY <1>1, FirstRefusal, NoRefusal, SMTT(30)
<1>. QED
  BY <1>1, <1>2, <1>3, <1>4, <1>5, <1>6, <1>7

-------------------------------------------------------------------------------
(* What admission comes to.                                                *)
Codes == {"invalid_request", "unsupported_capability"}

LEMMA Checked ==
  ASSUME NEW ok, NEW code \in Codes
  PROVE  /\ IsRefused(Check(ok, code)) <=> ~ok
         /\ ok => Check(ok, code) = Passed
         /\ ~ok => Check(ok, code) = Refused(code)
         /\ Refused(code).to = code
BY DEF Check, IsRefused, Refused, Passed, Codes

(* A handler lets a request through to the decision if its controls, its   *)
(* body and its declarations are in order and it may carry tools or        *)
(* carries none.                                                           *)
Passes(s, r, p, m, g) ==
  /\ ~ControlRefused(s, r.control)
  /\ r.body \notin {"malformed", "oversize"}
  /\ s # "chat" => NoId \notin r.results
  /\ \A i \in 1..Len(r.tools) : r.tools[i].kind = "function"
  /\ MayCarry(p, m, g) \/ ~CarriesTools(s, r)

LEMMA ChecksOfRequest ==
  ASSUME NEW s \in Surfaces, NEW r, NEW p, NEW m, NEW g
  PROVE  /\ Controls(s, r) = IF ControlRefused(s, r.control)
                             THEN Refused("unsupported_capability") ELSE Passed
         /\ Functions(r) = IF \A i \in 1..Len(r.tools) : r.tools[i].kind = "function"
                           THEN Passed ELSE Refused("unsupported_capability")
         /\ Within(r) = IF r.body # "oversize" THEN Passed ELSE Refused("invalid_request")
         /\ Guard(s, r, p, m, g) = IF MayCarry(p, m, g) \/ ~CarriesTools(s, r)
                                   THEN Passed ELSE Refused("unsupported_capability")
         /\ ResponsesMessages(r) = IF r.body # "malformed" /\ NoId \notin r.results
                                   THEN Passed ELSE Refused("invalid_request")
         /\ AnthropicMessages(r) = IF r.body # "malformed" /\ NoId \notin r.results
                                   THEN Passed ELSE Refused("invalid_request")
         /\ ~IsRefused(Passed)
         /\ \A code \in Codes : IsRefused(Refused(code)) /\ Passed # Refused(code)
<1>1. ~IsRefused(Passed) /\ \A code \in Codes : IsRefused(Refused(code)) /\ Passed # Refused(code)
  BY DEF IsRefused, Passed, Refused, Codes
<1>2. QED
  BY <1>1 DEF Controls, Functions, Within, Guard, ResponsesMessages, AnthropicMessages, Check

LEMMA HandlerOutcome ==
  ASSUME NEW s \in Surfaces, NEW r, NEW p, NEW m, NEW g
  PROVE  LET o == Handler(s, r, p, m, g) IN
         /\ Passes(s, r, p, m, g) => o = Decision(s, r, p, m, g)
         /\ ~Passes(s, r, p, m, g) => o = Refused("unsupported_capability") \/ o = Refused("invalid_request")
         /\ /\ ~Passes(s, r, p, m, g) /\ r.body = "ok" /\ ~ControlRefused(s, r.control)
            /\ NoId \notin r.results
            => o = Refused("unsupported_capability")
<1> DEFINE us == Refused("unsupported_capability")
           ir == Refused("invalid_request")
           fn == \A i \in 1..Len(r.tools) : r.tools[i].kind = "function"
           may == MayCarry(p, m, g) \/ ~CarriesTools(s, r)
           d == Decision(s, r, p, m, g)
<1>0. IsRefused(us) /\ IsRefused(ir) /\ ~IsRefused(Passed)
  BY ChecksOfRequest DEF Codes
<1>c. Controls(s, r) = IF ControlRefused(s, r.control) THEN us ELSE Passed
  BY ChecksOfRequest
<1>f. Functions(r) = IF fn THEN Passed ELSE us
  BY ChecksOfRequest
<1>w. Within(r) = IF r.body # "oversize" THEN Passed ELSE ir
  BY ChecksOfRequest
<1>g. Guard(s, r, p, m, g) = IF may THEN Passed ELSE us
  BY ChecksOfRequest
<1>1. CASE s = "chat"
  <2> DEFINE malformed == Check(r.body # "malformed", "invalid_request")
             parsed == ChatParsed(r)
  <2>1. malformed = IF r.body # "malformed" THEN Passed ELSE ir
    BY DEF Check
  <2>2. parsed = IF IsRefused(malformed) THEN malformed
                 ELSE IF IsRefused(Within(r)) THEN Within(r) ELSE Functions(r)
    BY FirstOfThree DEF ChatParsed
  <2>3. Handler(s, r, p, m, g) =
          IF IsRefused(Controls(s, r)) THEN Controls(s, r)
          ELSE IF IsRefused(parsed) THEN parsed
          ELSE IF IsRefused(Guard(s, r, p, m, g)) THEN Guard(s, r, p, m, g) ELSE d
    BY <1>1, FirstOfFour DEF Handler, ChatHandler
  <2> HIDE DEF malformed, parsed, us, ir, d, fn, may
  <2>4. Passes(s, r, p, m, g) <=>
          /\ ~ControlRefused(s, r.control) /\ r.body # "malformed" /\ r.body # "oversize" /\ fn /\ may
    BY <1>1 DEF Passes, fn, may
  <2>5. r.body = "ok" => r.body # "malformed" /\ r.body # "oversize"
    OBVIOUS
  <2>6. parsed = IF r.body = "malformed" \/ r.body = "oversize" THEN ir ELSE IF fn THEN Passed ELSE us
    BY <1>0, <1>w, <1>f, <2>1, <2>2
  <2>. QED
    BY <1>0, <1>c, <1>g, <2>3, <2>4, <2>5, <2>6 DEF us, ir, d
<1>2. CASE s = "responses"
  <2> DEFINE messages == ResponsesMessages(r)
  <2>1. messages = IF r.body # "malformed" /\ NoId \notin r.results THEN Passed ELSE ir
    BY ChecksOfRequest
  <2>3. Handler(s, r, p, m, g) =
          IF IsRefused(Controls(s, r)) THEN Controls(s, r)
          ELSE IF IsRefused(Functions(r)) THEN Functions(r)
          ELSE IF IsRefused(Guard(s, r, p, m, g)) THEN Guard(s, r, p, m, g)
          ELSE IF IsRefused(messages) THEN messages
          ELSE IF IsRefused(Within(r)) THEN Within(r) ELSE d
    BY <1>2, FirstOfSix DEF Handler, ResponsesHandler
  <2> HIDE DEF messages, us, ir, d, fn, may
  <2>4. Passes(s, r, p, m, g) <=>
          /\ ~ControlRefused(s, r.control) /\ r.body # "malformed" /\ r.body # "oversize" /\ fn /\ may
          /\ NoId \notin r.results
    BY <1>2 DEF Passes, fn, may
  <2>5. r.body = "ok" => r.body # "malformed" /\ r.body # "oversize"
    OBVIOUS
  <2>. QED
    BY <1>0, <1>c, <1>f, <1>w, <1>g, <2>1, <2>3, <2>4, <2>5 DEF us, ir, d
<1>3. CASE s = "anthropic"
  <2> DEFINE messages == AnthropicMessages(r)
             parsed == AnthropicParsed(r)
  <2>1. messages = IF r.body # "malformed" /\ NoId \notin r.results THEN Passed ELSE ir
    BY ChecksOfRequest
  <2>2. parsed = IF IsRefused(messages) THEN messages
                 ELSE IF IsRefused(Functions(r)) THEN Functions(r) ELSE Within(r)
    BY FirstOfThree DEF AnthropicParsed
  <2>3. Handler(s, r, p, m, g) =
          IF IsRefused(Controls(s, r)) THEN Controls(s, r)
          ELSE IF IsRefused(parsed) THEN parsed
          ELSE IF IsRefused(Guard(s, r, p, m, g)) THEN Guard(s, r, p, m, g) ELSE d
    BY <1>3, FirstOfFour DEF Handler, AnthropicHandler
  <2> HIDE DEF messages, parsed, us, ir, d, fn, may
  <2>4. Passes(s, r, p, m, g) <=>
          /\ ~ControlRefused(s, r.control) /\ r.body # "malformed" /\ r.body # "oversize" /\ fn /\ may
          /\ NoId \notin r.results
    BY <1>3 DEF Passes, fn, may
  <2>5. r.body = "ok" => r.body # "malformed" /\ r.body # "oversize"
    OBVIOUS
  <2>6. parsed = IF r.body = "malformed" \/ NoId \in r.results THEN ir ELSE IF ~fn THEN us
                 ELSE IF r.body = "oversize" THEN ir ELSE Passed
    BY <1>0, <1>w, <1>f, <2>1, <2>2
  <2>. QED
    BY <1>0, <1>c, <1>g, <2>3, <2>4, <2>5, <2>6 DEF us, ir, d
<1>. QED
  BY <1>1, <1>2, <1>3 DEF Surfaces

-------------------------------------------------------------------------------
(* The decision.  Anthropic's reading of an absent choice as `auto` next   *)
(* to a word on parallel calls changes no condition of the decision.       *)
LEMMA SameOnEverySurface ==
  ASSUME NEW s \in Surfaces, NEW r \in Request, NEW m, NEW names
  PROVE  /\ Selects(s, r) <=> r.choice # <<"absent">> \/ r.parallel # "absent"
         /\ Represents(m, ChoiceOn(s, r), r.parallel) <=> Represents(m, r.choice, r.parallel)
         /\ ChoosesFrom(ChoiceOn(s, r), names) <=> ChoosesFrom(r.choice, names)
<1>1. \/ ChoiceOn(s, r) = r.choice
      \/ ChoiceOn(s, r) = <<"auto">> /\ r.choice = <<"absent">> /\ r.parallel # "absent"
  BY DEF ChoiceOn
<1>2. <<"auto">> # <<"absent">> /\ Len(<<"auto">>) = 1 /\ Len(<<"absent">>) = 1
  OBVIOUS
<1>3. CASE ChoiceOn(s, r) = r.choice
  BY <1>3 DEF Selects
<1>4. CASE ChoiceOn(s, r) = <<"auto">> /\ r.choice = <<"absent">> /\ r.parallel # "absent"
  <2>1. Selects(s, r)
    BY <1>4 DEF Selects
  <2>2. ChoosesFrom(ChoiceOn(s, r), names) /\ ChoosesFrom(r.choice, names)
    BY <1>2, <1>4 DEF ChoosesFrom
  <2>3. Represents(m, ChoiceOn(s, r), r.parallel) <=> Represents(m, r.choice, r.parallel)
    BY <1>4 DEF Represents
  <2>. QED
    BY <1>4, <2>1, <2>2, <2>3
<1>. QED
  BY <1>1, <1>3, <1>4

Carries(r) == \/ r.tools # <<>> \/ CarriesHistory(r)
              \/ r.choice # <<"absent">> \/ r.parallel # "absent"
AllowedScoped(r, g) ==
  /\ UniqueNames(r) /\ g # {} /\ Granted(r, g)
  /\ r.calls \subseteq DeclNames(r) /\ Correlated(r) /\ ChoosesFrom(r.choice, DeclNames(r))

(* What the decision lets through, said without an order.                  *)
Allowed(r, p, m, g) ==
  /\ m.capability = "CHAT_AND_TOOLS" \/ ~Carries(r)
  /\ Represents(m, r.choice, r.parallel)
  /\ p = "AGENT" => ChoosesFrom(r.choice, DeclNames(r))
  /\ p # "AGENT" /\ r.tools # <<>> => AllowedScoped(r, g)
  /\ p # "AGENT" /\ r.tools = <<>> => ~Carries(r)

(* The code with which it refuses, the same on every surface.              *)
ScopedCode(r, g) ==
  IF ~UniqueNames(r) THEN "invalid_request"
  ELSE IF ~(g # {} /\ Granted(r, g)) THEN "unsupported_capability"
  ELSE IF ~(r.calls \subseteq DeclNames(r)) THEN "unsupported_capability"
  ELSE "invalid_request"
RefusalCode(r, p, m, g) ==
  IF m.capability # "CHAT_AND_TOOLS" /\ Carries(r) THEN "unsupported_capability"
  ELSE IF ~Represents(m, r.choice, r.parallel) THEN "unsupported_capability"
  ELSE IF p = "AGENT" THEN "invalid_request"
  ELSE IF r.tools # <<>> THEN ScopedCode(r, g)
  ELSE "unsupported_capability"

ModeOf(r, p) == IF p = "AGENT" THEN "agent" ELSE IF r.tools # <<>> THEN "scoped" ELSE "none"
OwnerOf(p)   == IF p = "AGENT" THEN "client" ELSE "router"

LEMMA CarriesEverywhere ==
  ASSUME NEW s \in Surfaces, NEW r \in Request
  PROVE  CarriesTools(s, r) <=> Carries(r)
BY SameOnEverySurface DEF CarriesTools, Carries

LEMMA ForwardedIsAdmitted ==
  ASSUME NEW s, NEW r, NEW mode, NEW by
  PROVE  ~IsRefused(Forwarded(s, r, mode, by)) /\ Forwarded(s, r, mode, by).to = "provider"
BY DEF Forwarded, IsRefused

LEMMA ScopedOutcome ==
  ASSUME NEW s \in Surfaces, NEW r \in Request, NEW g
  PROVE  ScopedAccess(s, r, g) = IF AllowedScoped(r, g) THEN Forwarded(s, r, "scoped", "router")
                                 ELSE Refused(ScopedCode(r, g))
<1> DEFINE unique == UniqueNames(r)
           grant == g # {} /\ Granted(r, g)
           history == r.calls \subseteq DeclNames(r)
           correlated == Correlated(r)
           chosen == ChoosesFrom(r.choice, DeclNames(r))
           f == Forwarded(s, r, "scoped", "router")
           us == Refused("unsupported_capability")
           ir == Refused("invalid_request")
           c1 == Check(unique, "invalid_request")
           c2 == Check(grant, "unsupported_capability")
           c3 == Check(history, "unsupported_capability")
           c4 == Check(correlated, "invalid_request")
           c5 == Check(ChoosesFrom(ChoiceOn(s, r), DeclNames(r)), "invalid_request")
<1>1. ScopedAccess(s, r, g) =
        IF IsRefused(c1) THEN c1 ELSE IF IsRefused(c2) THEN c2 ELSE IF IsRefused(c3) THEN c3
        ELSE IF IsRefused(c4) THEN c4 ELSE IF IsRefused(c5) THEN c5 ELSE f
  BY FirstOfSix DEF ScopedAccess
<1>2. IsRefused(us) /\ IsRefused(ir) /\ ~IsRefused(Passed)
  BY ChecksOfRequest DEF Codes, IsRefused, Refused, Passed
<1>3. /\ c1 = IF unique THEN Passed ELSE ir
      /\ c2 = IF grant THEN Passed ELSE us
      /\ c3 = IF history THEN Passed ELSE us
      /\ c4 = IF correlated THEN Passed ELSE ir
  BY DEF Check
<1>4. c5 = IF chosen THEN Passed ELSE ir
  BY SameOnEverySurface DEF Check
<1>5. AllowedScoped(r, g) <=> unique /\ grant /\ history /\ correlated /\ chosen
  BY DEF AllowedScoped
<1>6. Refused(ScopedCode(r, g)) = IF ~unique THEN ir ELSE IF ~grant THEN us
                                  ELSE IF ~history THEN us ELSE ir
  BY DEF ScopedCode
<1> HIDE DEF unique, grant, history, correlated, chosen, f, us, ir, c1, c2, c3, c4, c5
<1>. QED
  BY <1>1, <1>2, <1>3, <1>4, <1>5, <1>6 DEF f

LEMMA DecisionOutcome ==
  ASSUME NEW s \in Surfaces, NEW r \in Request, NEW p, NEW m, NEW g
  PROVE  Decision(s, r, p, m, g) =
           IF Allowed(r, p, m, g) THEN Forwarded(s, r, ModeOf(r, p), OwnerOf(p))
           ELSE Refused(RefusalCode(r, p, m, g))
<1> DEFINE capable == m.capability = "CHAT_AND_TOOLS" \/ ~Carries(r)
           fits == Represents(m, r.choice, r.parallel)
           chosen == ChoosesFrom(r.choice, DeclNames(r))
           us == Refused("unsupported_capability")
           ir == Refused("invalid_request")
           access == IF p = "AGENT" THEN AgentAccess(s, r)
                     ELSE IF r.tools # <<>> THEN ScopedAccess(s, r, g)
                     ELSE PlainAccess(s, r)
<1>1. Decision(s, r, p, m, g) =
        IF IsRefused(Capable(s, r, m)) THEN Capable(s, r, m)
        ELSE IF IsRefused(Representable(s, r, m)) THEN Representable(s, r, m) ELSE access
  <2> HIDE DEF access
  <2>1. Decision(s, r, p, m, g) = First(<<Capable(s, r, m), Representable(s, r, m), access>>)
    BY DEF Decision, access
  <2>. QED
    BY <2>1, FirstOfThree
<1>2. IsRefused(us) /\ ~IsRefused(Passed)
  BY DEF IsRefused, Refused, Passed
<1>3. Capable(s, r, m) = IF capable THEN Passed ELSE us
  BY CarriesEverywhere DEF Capable, Check
<1>4. Representable(s, r, m) = IF fits THEN Passed ELSE us
  BY SameOnEverySurface DEF Representable, Check
<1>5. CASE p = "AGENT"
  <2>1. access = IF chosen THEN Forwarded(s, r, "agent", "client") ELSE ir
    BY <1>5, SameOnEverySurface DEF AgentAccess
  <2>2. Allowed(r, p, m, g) <=> capable /\ fits /\ chosen
    BY <1>5 DEF Allowed
  <2>3. ModeOf(r, p) = "agent" /\ OwnerOf(p) = "client"
    BY <1>5 DEF ModeOf, OwnerOf
  <2>4. Refused(RefusalCode(r, p, m, g)) = IF ~capable \/ ~fits THEN us ELSE ir
    BY <1>5 DEF RefusalCode
  <2> HIDE DEF capable, fits, chosen, us, ir, access
  <2>. QED
    BY <1>1, <1>2, <1>3, <1>4, <2>1, <2>2, <2>3, <2>4
<1>6. CASE p # "AGENT" /\ r.tools # <<>>
  <2> DEFINE scoped == AllowedScoped(r, g)
             sc == Refused(ScopedCode(r, g))
  <2>1. access = IF scoped THEN Forwarded(s, r, "scoped", "router") ELSE sc
    BY <1>6, ScopedOutcome
  <2>2. Allowed(r, p, m, g) <=> capable /\ fits /\ scoped
    BY <1>6 DEF Allowed
  <2>3. ModeOf(r, p) = "scoped" /\ OwnerOf(p) = "router"
    BY <1>6 DEF ModeOf, OwnerOf
  <2>4. Refused(RefusalCode(r, p, m, g)) = IF ~capable \/ ~fits THEN us ELSE sc
    BY <1>6 DEF RefusalCode
  <2> HIDE DEF capable, fits, scoped, us, sc, access
  <2>. QED
    BY <1>1, <1>2, <1>3, <1>4, <2>1, <2>2, <2>3, <2>4
<1>7. CASE p # "AGENT" /\ r.tools = <<>>
  <2>1. Selects(s, r) \/ CarriesHistory(r) <=> Carries(r)
    BY <1>7, SameOnEverySurface DEF Carries
  <2>2. access = IF ~Carries(r) THEN Forwarded(s, r, "none", "router") ELSE us
    BY <1>7, <2>1 DEF PlainAccess
  <2>3. Allowed(r, p, m, g) <=> capable /\ fits /\ ~Carries(r)
    BY <1>7 DEF Allowed
  <2>4. ModeOf(r, p) = "none" /\ OwnerOf(p) = "router"
    BY <1>7 DEF ModeOf, OwnerOf
  <2>5. Refused(RefusalCode(r, p, m, g)) = us
    BY <1>7 DEF RefusalCode
  <2> HIDE DEF capable, fits, us, access
  <2>. QED
    BY <1>1, <1>2, <1>3, <1>4, <2>2, <2>3, <2>4, <2>5
<1>. QED
  BY <1>5, <1>6, <1>7

-------------------------------------------------------------------------------
(* The states.                                                             *)
LEMMA ProfileTyped ==
  ASSUME NEW t, NEW secret
  PROVE  ProfileOf(t, secret) \in {"nobody", "CHAT", "AGENT"}
BY DEF ProfileOf

(* Two surfaces that know the client take it for the same profile: a key   *)
(* next to a bearer token makes the Anthropic surface know neither.        *)
LEMMA SameClient ==
  ASSUME NEW s \in Surfaces, NEW t \in Surfaces, NEW bearer, NEW key,
         ProfileOf(ServerTokens, Presented(s, bearer, key)) # "nobody",
         ProfileOf(ServerTokens, Presented(t, bearer, key)) # "nobody"
  PROVE  Presented(s, bearer, key) = Presented(t, bearer, key)
<1>1. Presented(s, bearer, key) # NoToken /\ Presented(t, bearer, key) # NoToken
  BY DEF ProfileOf
<1>. QED
  BY <1>1 DEF Presented

(* Whatever request is put with whatever credentials, the answers are what *)
(* the three handlers make of that one request, profile, model and grant.  *)
THEOREM Invariance == Spec => []IInv
<1>1. Init => IInv
  BY DEF Init, IInv
<1>2. IInv /\ [Next]_vars => IInv'
  <2> SUFFICES ASSUME IInv, [Next]_vars PROVE IInv'
    OBVIOUS
  <2>1. ASSUME NEW bearer \in Tokens \cup {NoToken}, NEW key \in Tokens \cup {NoToken},
               Authenticate(bearer, key)
        PROVE  IInv'
    <3>1. profile' \in [Surfaces -> {"nobody", "CHAT", "AGENT"}]
      BY <2>1, ProfileTyped DEF Authenticate
    <3>2. ASSUME NEW s \in Surfaces, NEW t \in Surfaces,
                 profile'[s] # "nobody", profile'[t] # "nobody"
          PROVE  profile'[s] = profile'[t]
      BY <2>1, <3>2, SameClient DEF Authenticate
    <3>3. stage = "unauthenticated" /\ stage' = "authenticated"
      BY <2>1 DEF Authenticate
    <3>. QED
      BY <2>1, <3>1, <3>2, <3>3 DEF Authenticate, IInv
  <2>2. ASSUME NEW r \in Requests, Serve(r)
        PROVE  IInv'
    BY <2>2 DEF Serve, IInv
  <2>3. CASE UNCHANGED vars
    BY <2>3 DEF vars, IInv
  <2>. QED
    BY <2>1, <2>2, <2>3 DEF Next
<1>. QED
  BY <1>1, <1>2, PTL DEF Spec

(* Only what was served is admitted.                                       *)
LEMMA OnlyServed ==
  ASSUME IInv, NEW s \in Surfaces, Admitted(s)
  PROVE  Served(s)
<1>1. answer[s].to = "provider"
  BY DEF Admitted
<1>2. NoAnswer[s].to # "provider" /\ Unauthorized.to # "provider"
  BY DEF NoAnswer, Unauthorized, Refused
<1>. QED
  BY <1>1, <1>2 DEF IInv, Served

Typed == asked \in Request /\ model \in Model

LEMMA AnswerOutcome ==
  ASSUME IInv, NEW s \in Surfaces, Served(s)
  PROVE  /\ Typed
         /\ Admitted(s) <=> /\ Passes(s, asked, profile[s], model, granted)
                            /\ Allowed(asked, profile[s], model, granted)
         /\ Admitted(s) =>
              answer[s] = Forwarded(s, asked, ModeOf(asked, profile[s]), OwnerOf(profile[s]))
         /\ ~Admitted(s) => answer[s].to \in Codes
         /\ Passes(s, asked, profile[s], model, granted) /\ ~Admitted(s) =>
              answer[s] = Refused(RefusalCode(asked, profile[s], model, granted))
         /\ /\ ~Passes(s, asked, profile[s], model, granted) /\ asked.body = "ok"
            /\ ~ControlRefused(s, asked.control) /\ NoId \notin asked.results
            => answer[s] = Refused("unsupported_capability")
<1> DEFINE passes == Passes(s, asked, profile[s], model, granted)
           allowed == Allowed(asked, profile[s], model, granted)
           f == Forwarded(s, asked, ModeOf(asked, profile[s]), OwnerOf(profile[s]))
           code == RefusalCode(asked, profile[s], model, granted)
           ready == /\ asked.body = "ok" /\ ~ControlRefused(s, asked.control)
                    /\ NoId \notin asked.results
<1>1. Typed
  BY RequestsAssumption DEF IInv, Served, Typed
<1>2. answer[s] = Handler(s, asked, profile[s], model, granted)
  BY DEF IInv, Served
<1>3. passes => answer[s] = IF allowed THEN f ELSE Refused(code)
  BY <1>1, <1>2, HandlerOutcome, DecisionOutcome DEF Typed
<1>4. /\ ~passes => answer[s] = Refused("unsupported_capability") \/ answer[s] = Refused("invalid_request")
      /\ ~passes /\ ready => answer[s] = Refused("unsupported_capability")
  BY <1>2, HandlerOutcome
<1>5. code \in Codes
  BY DEF RefusalCode, ScopedCode, Codes
<1>6. f.to = "provider"
  BY ForwardedIsAdmitted
<1>7. \A c \in Codes : Refused(c).to = c /\ c # "provider"
  BY DEF Refused, Codes
<1>8. {"unsupported_capability", "invalid_request"} \subseteq Codes
  BY DEF Codes
<1> HIDE DEF passes, allowed, f, code, ready
<1>9. Admitted(s) <=> answer[s].to = "provider"
  BY DEF Admitted
<1>10. CASE passes
  BY <1>1, <1>3, <1>5, <1>6, <1>7, <1>9, <1>10 DEF passes, allowed, f, code
<1>11. CASE ~passes
  BY <1>1, <1>4, <1>7, <1>8, <1>9, <1>11 DEF passes, allowed, f, code, ready
<1>. QED
  BY <1>10, <1>11

LEMMA PassesEverywhere ==
  ASSUME NEW s \in Surfaces, NEW t \in Surfaces, NEW r \in Request, NEW p, NEW m, NEW g,
         r.control = "none", NoId \notin r.results
  PROVE  Passes(s, r, p, m, g) <=> Passes(t, r, p, m, g)
BY CarriesEverywhere DEF Passes, ControlRefused

-------------------------------------------------------------------------------
(* The three surfaces decide alike (SurfacesAgree), although each parses   *)
(* the request its own way and orders its checks differently: the checks   *)
(* that differ in order refuse with codes of one status, and with the very *)
(* same code once the body is well formed.                                 *)
THEOREM SurfacesDecideAlike == Spec => []SurfacesAgree
<1>1. IInv => SurfacesAgree
  <2> SUFFICES ASSUME IInv, NEW s \in Surfaces, NEW t \in Surfaces,
                      Served(s), Served(t), Expressible
               PROVE  /\ StatusOn(s) = StatusOn(t)
                      /\ asked.body = "ok" =>
                           /\ answer[s].to = answer[t].to
                           /\ Admitted(s) => answer[s].tools = answer[t].tools
    BY DEF SurfacesAgree
  <2>1. /\ StatusOn(s) = IF Admitted(s) THEN 200 ELSE 400
        /\ StatusOn(t) = IF Admitted(t) THEN 200 ELSE 400
    BY AnswerOutcome DEF StatusOn, AnthropicStatus, ChatStatus, Codes
  <2>2. profile[s] = profile[t]
    BY DEF IInv, Served
  <2>3. /\ Admitted(s) <=> Admitted(t)
        /\ Passes(s, asked, profile[s], model, granted) <=> Passes(t, asked, profile[t], model, granted)
    BY <2>2, AnswerOutcome, PassesEverywhere DEF Expressible, Typed
  <2>4. ASSUME asked.body = "ok"
        PROVE  /\ answer[s].to = answer[t].to
               /\ Admitted(s) => answer[s].tools = answer[t].tools
    <3>1. ~ControlRefused(s, asked.control) /\ ~ControlRefused(t, asked.control)
      BY DEF ControlRefused, Expressible
    <3>2. CASE Admitted(s)
      <4>1. /\ answer[s] = Forwarded(s, asked, ModeOf(asked, profile[s]), OwnerOf(profile[s]))
            /\ answer[t] = Forwarded(t, asked, ModeOf(asked, profile[s]), OwnerOf(profile[s]))
        BY <2>2, <2>3, <3>2, AnswerOutcome
      <4>. QED
        BY <4>1 DEF Forwarded
    <3>3. CASE ~Admitted(s)
      <4>1. answer[s] = answer[t]
        BY <2>2, <2>3, <2>4, <3>1, <3>3, AnswerOutcome DEF Expressible
      <4>. QED
        BY <3>3, <4>1
    <3>. QED
      BY <3>2, <3>3
  <2>. QED
    BY <2>1, <2>3, <2>4
<1>. QED
  BY <1>1, Invariance, PTL

(* No provider runs with more than was granted (GrantsHold): for CHAT what *)
(* is declared and called is registered and granted, the definitions are   *)
(* the Router's, every result belongs to a call, and a model without tools *)
(* gets no tool semantics of any kind.                                     *)
THEOREM GrantsAreNotWidened == Spec => []GrantsHold
<1>1. IInv => GrantsHold
  <2> SUFFICES ASSUME IInv, NEW s \in Surfaces, Admitted(s), Served(s)
               PROVE  /\ Len(answer[s].tools) = Len(asked.tools)
                      /\ model.capability # "CHAT_AND_TOOLS" => ~CarriesTools(s, asked)
                      /\ profile[s] = "CHAT" =>
                           /\ DeclNames(asked) \cup asked.calls \subseteq Registered \cap granted
                           /\ \A i \in 1..Len(answer[s].tools) : answer[s].tools[i].by = "router"
                           /\ asked.results \subseteq asked.calls
                           /\ CarriesTools(s, asked) => granted # {}
    BY OnlyServed DEF GrantsHold
  <2>1. /\ Allowed(asked, profile[s], model, granted) /\ asked \in Request
        /\ answer[s] = Forwarded(s, asked, ModeOf(asked, profile[s]), OwnerOf(profile[s]))
    BY AnswerOutcome DEF Typed
  <2>2. answer[s].tools = Canonical(asked, OwnerOf(profile[s]))
    BY <2>1 DEF Forwarded
  <2>3. Len(asked.tools) \in Nat
    BY <2>1 DEF Request
  <2>4. /\ Len(answer[s].tools) = Len(asked.tools)
        /\ \A i \in 1..Len(asked.tools) : answer[s].tools[i].by = OwnerOf(profile[s])
    BY <2>2, <2>3 DEF Canonical
  <2>5. CarriesTools(s, asked) <=> Carries(asked)
    BY <2>1, CarriesEverywhere
  <2>6. model.capability # "CHAT_AND_TOOLS" => ~CarriesTools(s, asked)
    BY <2>1, <2>5 DEF Allowed
  <2>7. ASSUME profile[s] = "CHAT"
        PROVE  /\ DeclNames(asked) \cup asked.calls \subseteq Registered \cap granted
               /\ asked.results \subseteq asked.calls
               /\ Carries(asked) => granted # {}
    <3>1. CASE asked.tools # <<>>
      <4>1. AllowedScoped(asked, granted)
        BY <2>1, <2>7, <3>1 DEF Allowed
      <4>. QED
        BY <4>1 DEF AllowedScoped, Granted, Correlated
    <3>2. CASE asked.tools = <<>>
      <4>1. ~Carries(asked)
        BY <2>1, <2>7, <3>2 DEF Allowed
      <4>2. asked.calls = {} /\ asked.results = {}
        BY <4>1 DEF Carries, CarriesHistory
      <4>3. DeclNames(asked) = {}
        BY <3>2 DEF DeclNames
      <4>. QED
        BY <4>1, <4>2, <4>3
    <3>. QED
      BY <3>1, <3>2
  <2>8. profile[s] = "CHAT" => OwnerOf(profile[s]) = "router"
    BY DEF OwnerOf
  <2>. QED
    BY <2>4, <2>5, <2>6, <2>7, <2>8
<1>. QED
  BY <1>1, Invariance, PTL

-------------------------------------------------------------------------------
(* What a provider that takes only the default choice is told nothing of,  *)
(* the request did not ask for.                                            *)
LEMMA MeaningKept ==
  ASSUME NEW s \in Surfaces, NEW r \in Request, NEW m \in Model, NEW o,
         Represents(m, r.choice, r.parallel),
         o.choice = ChoiceOn(s, r), o.parallel = r.parallel
  PROVE  Meaning(Upstream(m, o)) = Meaning(r)
<1> DEFINE auto == <<"auto">>
           absent == <<"absent">>
<1>1. auto # absent /\ r.parallel \in {"absent", "yes", "no"}
  BY DEF Request, Parallels
<1>2. \/ o.choice = r.choice
      \/ o.choice = auto /\ r.choice = absent /\ r.parallel # "absent"
  BY DEF ChoiceOn
<1>3. Meaning(r) = [choice   |-> IF r.choice = absent THEN auto ELSE r.choice,
                    parallel |-> IF r.parallel = "absent" THEN "yes" ELSE r.parallel]
  BY DEF Meaning
<1>4. CASE m.provider \notin {"command-code", "cavoti"}
  <2>1. r.choice \in {absent, auto} /\ r.parallel # "no"
    BY <1>1, <1>4 DEF Represents, Model, Providers
  <2>2. Upstream(m, o) = [choice |-> absent, parallel |-> "absent"]
    BY <1>4 DEF Upstream
  <2>3. Meaning(Upstream(m, o)) = [choice |-> auto, parallel |-> "yes"]
    BY <2>2 DEF Meaning
  <2> HIDE DEF auto, absent
  <2>. QED
    BY <1>1, <1>3, <2>1, <2>3
<1>5. CASE m.provider = "command-code" /\ m.wire = "anthropic"
  <2>1. Upstream(m, o) = [choice   |-> IF o.choice = absent /\ o.parallel # "absent"
                                       THEN auto ELSE o.choice,
                          parallel |-> IF o.parallel = "no" THEN "no" ELSE "absent"]
    BY <1>5 DEF Upstream, ToAnthropic
  <2>2. Meaning(Upstream(m, o)) =
          [choice   |-> IF o.choice = absent THEN auto ELSE o.choice,
           parallel |-> IF o.parallel = "no" THEN "no" ELSE "yes"]
    BY <2>1 DEF Meaning
  <2> HIDE DEF auto, absent
  <2>. QED
    BY <1>1, <1>2, <1>3, <2>2
<1>6. CASE m.provider \in {"command-code", "cavoti"}
           /\ ~(m.provider = "command-code" /\ m.wire = "anthropic")
  <2>1. Upstream(m, o) = [choice |-> o.choice, parallel |-> o.parallel]
    BY <1>6 DEF Upstream
  <2>2. Meaning(Upstream(m, o)) = [choice   |-> IF o.choice = absent THEN auto ELSE o.choice,
                                   parallel |-> IF o.parallel = "absent" THEN "yes" ELSE o.parallel]
    BY <2>1 DEF Meaning
  <2> HIDE DEF auto, absent
  <2>. QED
    BY <1>1, <1>2, <1>3, <2>2
<1>. QED
  BY <1>4, <1>5, <1>6

(* No constraint is accepted and then dropped (ConstraintsReachProvider):  *)
(* what an admitted request says of the choice of tools and of parallel    *)
(* calls is what its provider is told, or does by default.                 *)
THEOREM ConstraintsAreKept == Spec => []ConstraintsReachProvider
<1>1. IInv => ConstraintsReachProvider
  <2> SUFFICES ASSUME IInv, NEW s \in Surfaces, Admitted(s), Served(s)
               PROVE  Meaning(Upstream(model, answer[s])) = Meaning(asked)
    BY OnlyServed DEF ConstraintsReachProvider
  <2>1. /\ Allowed(asked, profile[s], model, granted) /\ asked \in Request /\ model \in Model
        /\ answer[s] = Forwarded(s, asked, ModeOf(asked, profile[s]), OwnerOf(profile[s]))
    BY AnswerOutcome DEF Typed
  <2>2. Represents(model, asked.choice, asked.parallel)
    BY <2>1 DEF Allowed
  <2>3. answer[s].choice = ChoiceOn(s, asked) /\ answer[s].parallel = asked.parallel
    BY <2>1 DEF Forwarded
  <2>. QED
    BY <2>1, <2>2, <2>3, MeaningKept
<1>. QED
  BY <1>1, Invariance, PTL

(* Publication and behaviour do not drift apart (PublishedIsEnforced): a   *)
(* control the descriptor calls unsupported is refused, and an agent's     *)
(* request within the descriptor is admitted.                              *)
THEOREM DescriptorIsKept == Spec => []PublishedIsEnforced
<1>1. IInv => PublishedIsEnforced
  <2> SUFFICES ASSUME IInv, NEW s \in Surfaces, Served(s)
               PROVE  /\ asked.control \in Published(s, model).refuses => ~Admitted(s)
                      /\ profile[s] = "AGENT" /\ WithinPublished(s) => Admitted(s)
    BY DEF PublishedIsEnforced
  <2>1. ASSUME asked.control \in Published(s, model).refuses
        PROVE  ~Admitted(s)
    <3>1. ControlRefused(s, asked.control)
      BY <2>1 DEF Published, ControlRefused, OpenAiUnsupported, ResponsesRejected,
                  AnthropicUnsupported, AnthropicAccepted, Surfaces
    <3>. QED
      BY <3>1, AnswerOutcome DEF Passes
  <2>2. ASSUME profile[s] = "AGENT", WithinPublished(s)
        PROVE  Admitted(s)
    <3>1. asked \in Request /\ model \in Model
      BY AnswerOutcome DEF Typed
    <3>2. ~ControlRefused(s, asked.control)
      BY <2>2 DEF WithinPublished, Published, ControlRefused, OpenAiUnsupported,
                  ResponsesRejected, AnthropicAccepted, Surfaces
    <3>3. CarriesTools(s, asked) => model.capability = "CHAT_AND_TOOLS"
      BY <2>2 DEF WithinPublished, Published
    <3>4. Passes(s, asked, profile[s], model, granted)
      BY <2>2, <3>2, <3>3 DEF Passes, MayCarry, WithinPublished
    <3>5. model.provider \notin {"command-code", "cavoti"} =>
            asked.choice \in {<<"absent">>, <<"auto">>} /\ asked.parallel = "absent"
      BY <2>2 DEF WithinPublished, Published
    <3>6. Represents(model, asked.choice, asked.parallel)
      BY <3>5 DEF Represents
    <3>7. ChoosesFrom(asked.choice, DeclNames(asked))
      BY <2>2 DEF WithinPublished
    <3>8. Allowed(asked, profile[s], model, granted)
      BY <2>2, <3>1, <3>3, <3>6, <3>7, CarriesEverywhere DEF Allowed
    <3>. QED
      BY <3>4, <3>8, AnswerOutcome
  <2>. QED
    BY <2>1, <2>2
<1>. QED
  BY <1>1, Invariance, PTL
===============================================================================
