------------------------- MODULE CheckRequestProofs -------------------------
(***************************************************************************)
(* Proofs about CheckRequest, for any addresses, trusted proxies, routes,  *)
(* requests and configurations.                                            *)
(***************************************************************************)
EXTENDS CheckRequest, SequenceTheorems, WellFoundedInduction, TLAPS

-----------------------------------------------------------------------------
\* The inductive invariant.

Deciding == pc \in {"idle", "parse", "exempt", "decision", "waf", "captcha"}
Decided  == pc \in {"server", "done", "crashed"}

Uncounted == [a \in Actions |-> 0]
Once(b) == [a \in Actions |-> IF a = b THEN 1 ELSE 0]

RequestInv ==
    /\ cfg \in Configs /\ raw \in RawRequests \cup {NoRaw}
    /\ request.ip \in STRING /\ request.host \in Hosts
    /\ request.parsed <=> request.ip \in Addresses /\ request.method

\* What is counted, told and answered once Check has returned, and nothing before.
CountInv ==
    /\ pc \in {"idle", "parse", "exempt", "decision", "waf", "captcha", "server", "done", "crashed"}
    /\ status \in Nat /\ (Decided /\ action \in {"ban", "challenge"} => status # 0)
    /\ Deciding => action = "" /\ recorded = Uncounted /\ usage = Uncounted
    /\ Decided => /\ action \in Actions /\ recorded = Once(action)
                  /\ usage \in [Actions -> 0 .. 1] /\ \A a \in Actions : usage[a] > 0 => a = action
    /\ notified = IF pc \in {"done", "crashed"} THEN action ELSE ""
    /\ response = IF pc = "done" THEN ResponseFor(action, status) ELSE ""

\* A route names the host of the request.
Routed == \/ cfg.routes = <<>>
          \/ \E i \in DOMAIN cfg.routes : \E p \in cfg.routes[i].patterns : Names(p, request.host)

\* What must hold of the answers of the components for the request to pass.
MayPass ==
    /\ verdict \in {"failed", "error"} => cfg.failOpen /\ ~ request.challengePath
    /\ verdict \notin {"ban", "challenge", "unknown"}
    /\ request.challengePath => verdict # "disabled"
    /\ cfg.waf /\ decision \notin {"unasked", "captcha"} /\ Routed => asked # NoCall \/ verdict = "failed"

(* Who has been asked at each point, and why: AppSec only if the decision  *)
(* leaves it open, the CAPTCHA service if the one or the other demands it. *)
AskedInv ==
    /\ pc \in {"idle", "parse", "exempt", "decision"} => decision = "unasked"
    /\ pc \in {"idle", "parse", "exempt", "decision", "waf"} => verdict = "unasked" /\ asked = NoCall
    /\ pc = "waf" => decision \notin {"unasked", "ban", "captcha"}
    /\ pc = "captcha" => \/ decision = "captcha" /\ verdict = "unasked"
                         \/ decision # "ban" /\ verdict = "captcha" /\ asked # NoCall
    /\ decision = "ban" => Decided /\ action = "ban" /\ verdict = "unasked"
    /\ Decided /\ action = "allow" => MayPass
    /\ asked # NoCall => asked.ip = request.ip

IInv == RequestInv /\ CountInv /\ AskedInv

USE DEF askedVars, resultVars, countVars

-----------------------------------------------------------------------------
\* Facts about addresses and routes.

\* Every set of numbers has a least element, which Min chooses, and a bounded one a greatest.
LEMMA LeastNatural ==
    ASSUME NEW S, S \subseteq Nat, S # {}
    PROVE  \E x \in S : \A y \in S : x <= y
<1>. DEFINE Less == OpToRel(<, Nat)
<1>1. \E x \in S : \A y \in S : ~ (<<y, x>> \in Less)
  <2>. HIDE DEF Less
  <2>1. IsWellFoundedOn(Less, Nat)
    BY NatLessThanWellFounded DEF Less
  <2>. QED
    BY <2>1, WFMin
<1>2. PICK x \in S : \A y \in S : ~ (y < x)
  BY <1>1 DEF OpToRel
<1>. QED
  BY <1>2

LEMMA MinIn == ASSUME NEW S, S \subseteq Nat, S # {} PROVE Min(S) \in S
  BY LeastNatural DEF Min

LEMMA GreatestNatural ==
    ASSUME NEW S, NEW n \in Nat, S \subseteq 1 .. n, S # {}
    PROVE  \E x \in S : \A y \in S : x >= y
<1>. DEFINE T == {n - x : x \in S}
<1>1. T \subseteq Nat /\ T # {}
  <2>1. \A x \in S : x \in Int /\ n - x \in Nat
    OBVIOUS
  <2>2. PICK s \in S : TRUE
    OBVIOUS
  <2>3. n - s \in T
    BY <2>2
  <2>. QED
    BY <2>1, <2>3
<1>2. PICK t \in T : \A u \in T : t <= u
  <2>. HIDE DEF T
  <2>. QED
    BY <1>1, LeastNatural
<1>3. PICK x \in S : t = n - x
  OBVIOUS
<1>4. \A y \in S : n - x <= n - y
  BY <1>2, <1>3
<1>. QED
  BY <1>3, <1>4

LEMMA MaxIn == ASSUME NEW S, NEW n \in Nat, S \subseteq 1 .. n, S # {} PROVE Max(S) \in S
  BY GreatestNatural DEF Max

\* The address found is text, whatever headers were sent.
LEMMA ClientIsText ==
    ASSUME NEW r \in RawRequests \cup {NoRaw}, NEW trusted \in STRING
    PROVE  /\ ExtractRealIP(r, trusted).ip \in STRING
           /\ ExtractRealIP(r, trusted).parsed = (ExtractRealIP(r, trusted).ip \in Addresses)
<1>1. r.forwarded \in Seq(STRING) /\ r.xRealIP \in STRING /\ r.source \in STRING
  <2>1. CASE r \in RawRequests
    BY <2>1, RawAssumption
  <2>2. CASE r = NoRaw
    <3>1. /\ r.forwarded = <<>> /\ r.xRealIP = "" /\ r.source = ""
      BY <2>2 DEF NoRaw
    <3>. QED
      BY <3>1, EmptySeq, EmptyText
  <2>. QED
    BY <2>1, <2>2
<1>2. ClientEntries(r.forwarded) # {} => r.forwarded[Max(ClientEntries(r.forwarded))] \in STRING
  <2>1. ClientEntries(r.forwarded) \subseteq 1 .. Len(r.forwarded) /\ Len(r.forwarded) \in Nat
    BY <1>1, LenProperties DEF ClientEntries
  <2>2. ClientEntries(r.forwarded) # {} => Max(ClientEntries(r.forwarded)) \in 1 .. Len(r.forwarded)
    BY <2>1, MaxIn
  <2>. QED
    BY <1>1, <2>2, ElementOfSeq
<1>3. ExtractRealIP(r, trusted).ip \in STRING
  BY <1>1, <1>2 DEF ExtractRealIP
<1>4. ExtractRealIP(r, trusted).parsed = (ExtractRealIP(r, trusted).ip \in Addresses)
  BY Zenon DEF ExtractRealIP
<1>. QED
  BY <1>3, <1>4

(* Lower-casing keeps the length and the names of a host, so a pattern     *)
(* that names a host matches it.                                           *)
LEMMA NamesMatch ==
    ASSUME NEW p \in Seq([name : STRING, upper : BOOLEAN]), NEW h \in Hosts, Names(p, h)
    PROVE  ToLower(p) = <<Wildcard>> \/ labelsMatch(ToLower(p), normalizeHost(h))
<1>1. h.labels \in Seq([name : STRING, upper : BOOLEAN])
  BY DEF Hosts
<1>2. CASE p = <<Wildcard>>
  <2>. DEFINE q == <<Wildcard>>
  <2>1. DOMAIN q = {1} /\ q[1] = Wildcard /\ Wildcard.name = "*" /\ Label(Wildcard.name) = Wildcard
    BY DEF Wildcard, Label
  <2>2. ToLower(q) = [i \in {1} |-> Wildcard]
    BY <2>1 DEF ToLower
  <2>3. q = [i \in {1} |-> Wildcard]
    BY <2>1
  <2>. QED
    BY <1>2, <2>2, <2>3
<1>3. CASE Len(p) = Len(h.labels) /\ \A i \in DOMAIN p : p[i].name \in {"*", h.labels[i].name}
  <2>1. /\ DOMAIN ToLower(p) = 1 .. Len(p) /\ Len(p) \in Nat
        /\ DOMAIN normalizeHost(h) = 1 .. Len(h.labels) /\ Len(h.labels) \in Nat
    BY <1>1, LenProperties DEF ToLower, normalizeHost
  <2>2. Len(ToLower(p)) = Len(p) /\ Len(normalizeHost(h)) = Len(h.labels)
    BY <2>1
  <2>3. \A i \in DOMAIN ToLower(p) : ToLower(p)[i] \in {Wildcard, normalizeHost(h)[i]}
    BY <1>1, <1>3, <2>1, LenProperties DEF ToLower, normalizeHost, Wildcard
  <2>. QED
    BY <1>3, <2>2, <2>3 DEF labelsMatch
<1>. QED
  BY <1>2, <1>3 DEF Names

\* A request that a route names is sent to some listener.
LEMMA NamedIsRouted ==
    ASSUME NEW c \in Configs, NEW h \in Hosts, NEW i \in DOMAIN c.routes,
           NEW p \in c.routes[i].patterns, Names(p, h)
    PROVE  target(c.routes, h) # "none"
<1>1. c.routes \in Seq(Routes)
  BY ConfigAssumption
<1>2. DOMAIN c.routes = 1 .. Len(c.routes) /\ Len(c.routes) \in Nat
      /\ \A j \in DOMAIN c.routes : c.routes[j] \in Routes
  BY <1>1, LenProperties, ElementOfSeq
<1>3. p \in Seq([name : STRING, upper : BOOLEAN])
  BY <1>2 DEF Routes
<1>4. ToLower(p) \in NewWAF(c.routes)[i].patterns
  BY <1>2 DEF NewWAF, Routes
<1>5. i \in Matching(c.routes, h)
  BY <1>3, <1>4, NamesMatch DEF Matching, hostMatches
<1>6. Min(Matching(c.routes, h)) \in DOMAIN c.routes
  <2>1. Matching(c.routes, h) \subseteq DOMAIN c.routes
    BY DEF Matching
  <2>2. Matching(c.routes, h) \subseteq Nat /\ Matching(c.routes, h) # {}
    BY <1>2, <1>5, <2>1
  <2>3. Min(Matching(c.routes, h)) \in Matching(c.routes, h)
    BY <2>2, MinIn
  <2>. QED
    BY <2>1, <2>3
<1>. QED
  BY <1>2, <1>5, <1>6 DEF target, Routes

LEMMA RoutedIsSent ==
    ASSUME RequestInv, Routed
    PROVE  target(cfg.routes, request.host) # "none"
<1>1. CASE cfg.routes = <<>>
  BY <1>1 DEF target
<1>2. CASE \E i \in DOMAIN cfg.routes : \E p \in cfg.routes[i].patterns : Names(p, request.host)
  BY <1>2, NamedIsRouted DEF RequestInv
<1>. QED
  BY <1>1, <1>2 DEF Routed

-----------------------------------------------------------------------------
\* What Check counts when it returns, and what it leaves alone when it goes on.

LEMMA OnceCounts ==
    ASSUME NEW a \in Actions
    PROVE  /\ [Uncounted EXCEPT ![a] = @ + 1] = Once(a)
           /\ Uncounted \in [Actions -> 0 .. 1] /\ Once(a) \in [Actions -> 0 .. 1]
           /\ \A b \in Actions : /\ Uncounted[b] = 0
                                 /\ Once(a)[b] = IF b = a THEN 1 ELSE 0
  BY DEF Uncounted, Once

\* Every answer has a status, and that of a denial is never 0, whatever is configured.
LEMMA DenialHasStatus ==
    ASSUME cfg \in Configs, NEW a, NEW s \in StatusesOf(a)
    PROVE  s \in Nat /\ (a \in {"ban", "challenge"} => s # 0)
<1>1. cfg.banStatusCode \in Nat /\ AppSecStatuses \subseteq Nat
  BY ConfigAssumption
<1>2. getBanStatusCode \in Nat /\ getBanStatusCode # 0
  BY <1>1 DEF getBanStatusCode
<1>. QED
  BY <1>1, <1>2 DEF StatusesOf, buildChallengeResponse

LEMMA Recorded ==
    ASSUME RequestInv, CountInv, Deciding, NEW a \in Actions, recordFinalMetric(a),
           UNCHANGED <<notified, response>>
    PROVE  CountInv' /\ action' = a /\ pc' = "server"
<1>1. recorded = Uncounted /\ usage = Uncounted /\ notified = "" /\ response = ""
  BY DEF CountInv, Deciding
<1>2. recorded' = Once(a) /\ action' = a /\ pc' = "server"
  BY <1>1, OnceCounts DEF recordFinalMetric
<1>3. usage' \in {Uncounted, Once(a)}
  BY <1>1, OnceCounts DEF recordFinalMetric
<1>4. usage' \in [Actions -> 0 .. 1] /\ \A b \in Actions : usage'[b] > 0 => b = a
  BY <1>3, OnceCounts
<1>5. status' \in Nat /\ (a \in {"ban", "challenge"} => status' # 0)
  BY DenialHasStatus DEF recordFinalMetric, RequestInv
<1>. QED
  BY <1>1, <1>2, <1>4, <1>5 DEF CountInv, Deciding, Decided

LEMMA WentOn ==
    ASSUME CountInv, Deciding, NEW next \in {"decision", "waf", "captcha"}, GoOn(next),
           UNCHANGED <<notified, response>>
    PROVE  CountInv' /\ pc' = next
  BY DEF CountInv, Deciding, Decided, GoOn

-----------------------------------------------------------------------------
\* The invariant holds initially and every operation keeps it.

LEMMA NoHostIsHost == NoHost \in Hosts
<1>1. Label("") \in [name : STRING, upper : BOOLEAN]
  BY EmptyText DEF Label
<1>2. <<Label("")>> \in Seq([name : STRING, upper : BOOLEAN])
  <2>. DEFINE T == [name : STRING, upper : BOOLEAN]
              l == Label("")
  <2>1. l \in T
    BY <1>1
  <2>. HIDE DEF T, l
  <2>2. <<l>> \in Seq(T)
    BY <2>1
  <2>. QED
    BY <2>2 DEF T, l
<1>. QED
  BY <1>2 DEF NoHost, Hosts

LEMMA InitInv == ASSUME Init PROVE IInv
<1>1. RequestInv
  BY NoHostIsHost, EmptyText DEF Init, RequestInv, NoRequest
<1>2. CountInv
  BY DEF Init, CountInv, Deciding, Decided, Uncounted
<1>3. AskedInv
  BY DEF Init, AskedInv, Decided, NoCall
<1>. QED
  BY <1>1, <1>2, <1>3 DEF IInv

LEMMA ArriveInv == ASSUME IInv, Arrive PROVE IInv'
<1>1. RequestInv'
  BY DEF IInv, Arrive, RequestInv
<1>2. CountInv'
  BY DEF IInv, Arrive, CountInv, Deciding, Decided
<1>3. AskedInv'
  BY DEF IInv, Arrive, AskedInv, Decided
<1>. QED
  BY <1>1, <1>2, <1>3 DEF IInv

LEMMA ParseInv == ASSUME IInv, ParseCheckRequest PROVE IInv'
<1>1. RequestInv'
  <2>1. CASE ~ raw.http
    <3>1. request' = [NoRequest EXCEPT !.ip = raw.source]
      BY <2>1 DEF ParseCheckRequest
    <3>2. raw.source \in STRING
      <4>1. CASE raw \in RawRequests
        BY <4>1, RawAssumption
      <4>2. CASE raw = NoRaw
        BY <4>2, EmptyText DEF NoRaw
      <4>. QED
        BY <4>1, <4>2 DEF IInv, RequestInv
    <3>3. request'.ip \in STRING /\ request'.host \in Hosts /\ request'.parsed = FALSE
          /\ request'.method = FALSE
      BY <3>1, <3>2, NoHostIsHost DEF NoRequest
    <3>. QED
      BY <3>3 DEF IInv, RequestInv, ParseCheckRequest
  <2>2. CASE raw.http
    <3>. DEFINE trusted == IF cfg.trustedIPHeader THEN raw.trusted ELSE ""
                client == ExtractRealIP(raw, trusted)
    <3>1. raw \in RawRequests
      <4>1. raw # NoRaw
        <5>1. NoRaw.http = FALSE
          BY DEF NoRaw
        <5>2. raw = NoRaw => raw.http = FALSE
          BY <5>1
        <5>. QED
          BY <2>2, <5>2
      <4>. QED
        BY <4>1 DEF IInv, RequestInv
    <3>2. trusted \in STRING /\ raw.host \in Hosts
      BY <3>1, RawAssumption, EmptyText
    <3>3. client.ip \in STRING /\ client.parsed = (client.ip \in Addresses)
      BY <3>1, <3>2, ClientIsText
    <3>4. request'.ip = client.ip /\ request'.parsed = client.parsed /\ request'.method = TRUE
          /\ request'.host = raw.host
      BY <2>2 DEF ParseCheckRequest
    <3>5. request'.parsed = (request'.ip \in Addresses)
      BY <3>3, <3>4
    <3>6. request'.ip \in STRING /\ request'.host \in Hosts
      BY <3>2, <3>3, <3>4
    <3>. QED
      BY <3>4, <3>5, <3>6 DEF IInv, RequestInv, ParseCheckRequest
  <2>. QED
    BY <2>1, <2>2
<1>2. CountInv'
  BY DEF IInv, ParseCheckRequest, CountInv, Deciding, Decided
<1>3. AskedInv'
  BY DEF IInv, ParseCheckRequest, AskedInv, Decided
<1>. QED
  BY <1>1, <1>2, <1>3 DEF IInv

LEMMA ExemptInv == ASSUME IInv, checkExempt PROVE IInv'
<1>1. RequestInv'
  BY DEF IInv, checkExempt, RequestInv
<1>2. CASE isExemptIP(request)
  <2>1. CountInv' /\ action' = "allow" /\ pc' = "server"
    BY <1>2, Recorded DEF IInv, checkExempt, Actions, Deciding
  <2>2. AskedInv'
    BY <2>1 DEF IInv, checkExempt, AskedInv, MayPass, Decided
  <2>. QED
    BY <1>1, <2>1, <2>2 DEF IInv
<1>3. CASE ~ isExemptIP(request)
  <2>1. CountInv' /\ pc' = "decision"
    BY <1>3, WentOn DEF IInv, checkExempt, Deciding
  <2>2. AskedInv'
    BY <2>1 DEF IInv, checkExempt, AskedInv, Decided
  <2>. QED
    BY <1>1, <2>1, <2>2 DEF IInv
<1>. QED
  BY <1>2, <1>3

LEMMA DecisionInv == ASSUME IInv, checkDecisionCache PROVE IInv'
<1>1. RequestInv'
  BY DEF IInv, checkDecisionCache, RequestInv
<1>2. /\ pc = "decision" /\ verdict = "unasked" /\ asked = NoCall
      /\ decision' \in {"none", "error", "untyped", "ban", "captcha", "othertype"}
      /\ UNCHANGED <<cfg, request, verdict, asked, notified, response>>
  BY DEF IInv, checkDecisionCache, DecisionAnswers, AskedInv
<1>3. CASE decision' \in {"ban", "error"}
  <2>1. recordFinalMetric(decision')
    BY <1>3 DEF checkDecisionCache
  <2>2. CountInv' /\ action' = decision' /\ pc' = "server"
    BY <1>2, <1>3, <2>1, Recorded DEF IInv, Actions, Deciding
  <2>3. AskedInv'
    BY <1>2, <1>3, <2>2 DEF AskedInv, Decided
  <2>. QED
    BY <1>1, <2>2, <2>3 DEF IInv
<1>4. CASE decision' = "captcha"
  <2>1. CountInv' /\ pc' = "captcha"
    BY <1>2, <1>4, WentOn DEF IInv, checkDecisionCache, Deciding
  <2>2. AskedInv'
    BY <1>2, <1>4, <2>1 DEF AskedInv, Decided
  <2>. QED
    BY <1>1, <2>1, <2>2 DEF IInv
<1>5. CASE decision' \notin {"ban", "error", "captcha"}
  <2>1. CountInv' /\ pc' = "waf"
    BY <1>2, <1>5, WentOn DEF IInv, checkDecisionCache, Deciding
  <2>2. AskedInv'
    BY <1>2, <1>5, <2>1 DEF AskedInv, Decided
  <2>. QED
    BY <1>1, <2>1, <2>2 DEF IInv
<1>. QED
  BY <1>3, <1>4, <1>5

(* AppSec is told the client's address if it is asked, and it is asked if a*)
(* route names the host and the request has a method.                      *)
LEMMA Inspected ==
    ASSUME RequestInv, asked = NoCall, Inspect
    PROVE  \/ verdict' = "failed" /\ asked' = NoCall
           \/ verdict' = "unrouted" /\ asked' = NoCall /\ ~ Routed
           \/ /\ verdict' \in Actions \cup {"failed"}
              /\ asked' # NoCall /\ asked'.ip = request.ip
<1>1. CASE ~ request.method
  BY <1>1 DEF Inspect
<1>2. CASE request.method /\ target(cfg.routes, request.host) = "none"
  BY <1>2, RoutedIsSent DEF Inspect
<1>3. CASE request.method /\ target(cfg.routes, request.host) # "none"
  <2>1. verdict' \in Actions \cup {"failed"} /\ asked' = newForwardRequest
    BY <1>3 DEF Inspect
  <2>2. newForwardRequest.url # NoCall.url /\ newForwardRequest.ip = request.ip
    BY <1>3 DEF newForwardRequest, NoCall
  <2>. QED
    BY <2>1, <2>2
<1>. QED
  BY <1>1, <1>2, <1>3

LEMMA WafInv == ASSUME IInv, checkWAF PROVE IInv'
<1>1. RequestInv'
  BY DEF IInv, checkWAF, RequestInv
<1>2. /\ pc = "waf" /\ asked = NoCall /\ decision \notin {"unasked", "ban", "captcha"}
      /\ UNCHANGED <<cfg, request, decision, notified, response>>
  BY DEF IInv, checkWAF, AskedInv
<1>3. \/ verdict' = "disabled" /\ asked' = NoCall /\ ~ cfg.waf
      \/ verdict' = "failed" /\ asked' = NoCall
      \/ verdict' = "unrouted" /\ asked' = NoCall /\ ~ Routed
      \/ /\ verdict' \in Actions \cup {"failed"}
         /\ asked' # NoCall /\ asked'.ip = request.ip
  <2>1. CASE cfg.waf
    BY <1>2, <2>1, Inspected DEF IInv, checkWAF
  <2>2. CASE ~ cfg.waf
    BY <1>2, <2>2 DEF checkWAF
  <2>. QED
    BY <2>1, <2>2
<1>4. asked' # NoCall => asked'.ip = request'.ip
  BY <1>2, <1>3
<1>5. Routed' <=> Routed
  BY <1>2 DEF Routed
<1>6. ASSUME NEW a \in Actions, recordFinalMetric(a), a = "allow" => MayPass'
      PROVE  IInv'
  <2>1. CountInv' /\ action' = a /\ pc' = "server"
    BY <1>2, <1>6, Recorded DEF IInv, Deciding
  <2>2. AskedInv'
    BY <1>2, <1>4, <1>6, <2>1 DEF AskedInv, Decided
  <2>. QED
    BY <1>1, <2>1, <2>2 DEF IInv
<1>7. CASE verdict' = "disabled"
  <2>1. recordFinalMetric(IF request.challengePath THEN "ban" ELSE "allow")
    BY <1>7 DEF checkWAF
  <2>2. ~ request.challengePath => MayPass'
    BY <1>2, <1>3, <1>7 DEF MayPass, Actions
  <2>3. CASE request.challengePath
    BY <1>6, <2>1, <2>3 DEF Actions
  <2>4. CASE ~ request.challengePath
    BY <1>6, <2>1, <2>2, <2>4 DEF Actions
  <2>. QED
    BY <2>3, <2>4
<1>8. CASE verdict' \in {"failed", "error"}
  <2>1. wafFailure
    BY <1>8 DEF checkWAF
  <2>2. CASE request.challengePath
    BY <1>6, <2>1, <2>2 DEF Actions, wafFailure
  <2>3. CASE ~ request.challengePath /\ cfg.failOpen
    <3>1. MayPass'
      BY <1>2, <1>3, <1>8, <2>3 DEF MayPass
    <3>. QED
      BY <1>6, <2>1, <2>3, <3>1 DEF Actions, wafFailure
  <2>4. CASE ~ request.challengePath /\ ~ cfg.failOpen
    BY <1>6, <2>1, <2>4 DEF Actions, wafFailure
  <2>. QED
    BY <2>2, <2>3, <2>4
<1>9. CASE verdict' = "captcha"
  <2>1. CountInv' /\ pc' = "captcha"
    BY <1>2, <1>9, WentOn DEF IInv, checkWAF, Deciding
  <2>2. asked' # NoCall
    BY <1>3, <1>9
  <2>3. AskedInv'
    BY <1>2, <1>4, <1>9, <2>1, <2>2 DEF AskedInv, Decided
  <2>. QED
    BY <1>1, <2>1, <2>3 DEF IInv
<1>10. CASE verdict' = "unrouted"
  <2>1. recordFinalMetric("allow")
    BY <1>10 DEF checkWAF
  <2>2. MayPass'
    BY <1>2, <1>3, <1>5, <1>10 DEF MayPass, Actions
  <2>. QED
    BY <1>6, <2>1, <2>2 DEF Actions
<1>11. CASE verdict' \in Actions \ {"error", "captcha"}
  <2>1. recordFinalMetric(verdict')
    BY <1>11 DEF checkWAF, Actions
  <2>2. verdict' = "allow" => MayPass'
    BY <1>2, <1>3 DEF MayPass
  <2>. QED
    BY <1>6, <1>11, <2>1, <2>2
<1>. QED
  BY <1>3, <1>7, <1>8, <1>9, <1>10, <1>11

LEMMA CaptchaInv == ASSUME IInv, checkCaptcha PROVE IInv'
<1>1. RequestInv'
  BY DEF IInv, checkCaptcha, RequestInv
<1>2. pc = "captcha" /\ UNCHANGED <<cfg, request, decision, verdict, asked, notified, response>>
  BY DEF checkCaptcha
<1>3. PICK a \in {"allow", "captcha", "error"} : recordFinalMetric(a)
  BY DEF checkCaptcha
<1>4. CountInv' /\ action' = a /\ pc' = "server"
  BY <1>2, <1>3, Recorded DEF IInv, Actions, Deciding
<1>5. MayPass'
  BY <1>2 DEF IInv, AskedInv, MayPass, NoCall
<1>6. AskedInv'
  BY <1>2, <1>4, <1>5 DEF IInv, AskedInv, Decided
<1>. QED
  BY <1>1, <1>4, <1>6 DEF IInv

LEMMA ServerInv == ASSUME IInv, ServerCheck PROVE IInv'
<1>1. RequestInv'
  BY DEF IInv, ServerCheck, RequestInv
<1>2. CountInv'
  <2>1. /\ UNCHANGED <<action, status, recorded, usage>> /\ notified' = action
        /\ response = "" /\ Decided /\ Decided'
        /\ \/ pc' = "crashed" /\ response' = response
           \/ pc' = "done" /\ response' = ResponseFor(action, status)
    BY DEF IInv, CountInv, Decided, ServerCheck
  <2>2. response' = IF pc' = "done" THEN ResponseFor(action', status') ELSE ""
    BY <2>1
  <2>. QED
    BY <2>1, <2>2 DEF IInv, CountInv, Deciding, Decided
<1>3. AskedInv'
  <2>1. MayPass => MayPass'
    BY DEF ServerCheck, MayPass, Routed
  <2>2. pc = "server" /\ pc' \in {"done", "crashed"}
        /\ UNCHANGED <<request, decision, verdict, asked, action>>
    BY DEF ServerCheck
  <2>. QED
    BY <2>1, <2>2 DEF IInv, AskedInv, Decided
<1>. QED
  BY <1>1, <1>2, <1>3 DEF IInv

LEMMA FinishInv == ASSUME IInv, Finish PROVE IInv'
<1>1. RequestInv'
  BY NoHostIsHost, EmptyText DEF IInv, Finish, RequestInv, NoRequest
<1>2. CountInv'
  BY DEF Finish, CountInv, Deciding, Decided, Uncounted
<1>3. AskedInv'
  BY DEF Finish, AskedInv, Decided
<1>. QED
  BY <1>1, <1>2, <1>3 DEF IInv

LEMMA NextInv == ASSUME IInv, [Next]_vars PROVE IInv'
<1>1. CASE UNCHANGED vars
  <2>1. RequestInv'
    BY <1>1 DEF vars, IInv, RequestInv
  <2>2. CountInv'
    BY <1>1 DEF vars, IInv, CountInv, Deciding, Decided
  <2>3. AskedInv'
    BY <1>1 DEF vars, IInv, AskedInv, Decided, MayPass, Routed
  <2>. QED
    BY <2>1, <2>2, <2>3 DEF IInv
<1>2. CASE Next
  BY <1>2, ArriveInv, ParseInv, ExemptInv, DecisionInv, WafInv, CaptchaInv, ServerInv, FinishInv
     DEF Next, Evaluate
<1>. QED
  BY <1>1, <1>2

\* In every state of every run the three parts of the invariant hold.
THEOREM Invariant == Spec => []IInv
<1>. QED
  BY InitInv, NextInv, PTL DEF Spec

-----------------------------------------------------------------------------
\* The properties that follow.

LEMMA DoneMeans ==
    ASSUME IInv, pc = "done"
    PROVE  /\ action \in Actions /\ recorded = Once(action) /\ notified = action
           /\ \A a \in Actions : usage[a] > 0 => a = action
           /\ response = ResponseFor(action, status)
           /\ action \in {"ban", "challenge"} => status # 0
           /\ response = "ok" => action = "allow" /\ MayPass
<1>1. /\ action \in Actions /\ recorded = Once(action) /\ notified = action
      /\ \A a \in Actions : usage[a] > 0 => a = action
      /\ response = ResponseFor(action, status)
      /\ action \in {"ban", "challenge"} => status # 0
      /\ action = "allow" => MayPass
  BY DEF IInv, CountInv, AskedInv, Decided
<1>2. response = "ok" => action = "allow"
  BY <1>1 DEF Actions, ResponseFor, Denied
<1>. QED
  BY <1>1, <1>2

\* Every variable holds values of its kind and no action is counted twice for a request (Check).
THEOREM TypeCorrect == Spec => []TypeOK
<1>1. ASSUME IInv PROVE TypeOK
  <2>1. action \in Actions \cup {""} /\ notified \in Actions \cup {""}
    BY <1>1 DEF IInv, CountInv, Deciding, Decided
  <2>2. recorded \in [Actions -> 0 .. 1] /\ usage \in [Actions -> 0 .. 1]
    BY <1>1, OnceCounts DEF IInv, CountInv, Deciding, Decided, Uncounted, Once
  <2>. QED
    BY <1>1, <2>1, <2>2 DEF IInv, RequestInv, CountInv, TypeOK
<1>. QED
  BY <1>1, Invariant, PTL

(* Whatever the configuration, a ban that the decision cache answers with  *)
(* is what Envoy is told, and AppSec is not asked (checkDecisionCache).    *)
THEOREM BanAlwaysEnforced == Spec => []BanEnforced
<1>1. ASSUME IInv PROVE BanEnforced
  <2>1. SUFFICES ASSUME pc = "done", decision = "ban"
                 PROVE  response = "denied" /\ verdict = "unasked"
    BY DEF BanEnforced
  <2>2. action = "ban" /\ verdict = "unasked"
    BY <1>1, <2>1 DEF IInv, AskedInv
  <2>. QED
    BY <1>1, <2>1, <2>2, DoneMeans DEF ResponseFor, Denied
<1>. QED
  BY <1>1, Invariant, PTL

(* No request passes on a failed inspection unless failOpen says so, and   *)
(* none for a challenge path even then (wafFailure).                       *)
THEOREM FailureCloses == Spec => []FailsClosed
<1>1. ASSUME IInv PROVE FailsClosed
  BY <1>1, DoneMeans DEF FailsClosed, MayPass
<1>. QED
  BY <1>1, Invariant, PTL

(* For any routes and hosts, what a route names is inspected, and AppSec is*)
(* told the address the decision was looked up for (Inspect, target).      *)
THEOREM NamedIsInspected == Spec => []InspectedAsClient
<1>1. ASSUME IInv PROVE InspectedAsClient
  <2>1. asked # NoCall => asked.ip = request.ip
    BY <1>1 DEF IInv, AskedInv
  <2>2. ASSUME pc = "done", response = "ok", cfg.waf, decision \notin {"unasked", "captcha"}, Routed
        PROVE  asked # NoCall \/ verdict = "failed"
    BY <1>1, <2>2, DoneMeans DEF MayPass
  <2>. QED
    BY <2>1, <2>2 DEF InspectedAsClient, Routed
<1>. QED
  BY <1>1, Invariant, PTL

(* Each answer is counted once, under the action it follows from, and the  *)
(* webhook is told that action (recordFinalMetric, server.Check).          *)
THEOREM AlwaysCountedOnce == Spec => []CountedOnce
<1>1. ASSUME IInv PROVE CountedOnce
  <2>1. SUFFICES ASSUME pc = "done"
                 PROVE  /\ \A a \in Actions : recorded[a] = IF a = action THEN 1 ELSE 0
                        /\ \A a \in Actions : usage[a] > 0 => a = action
                        /\ notified = action
    BY DEF CountedOnce
  <2>2. /\ action \in Actions /\ recorded = Once(action) /\ notified = action
        /\ \A a \in Actions : usage[a] > 0 => a = action
    BY <1>1, <2>1, DoneMeans
  <2>. QED
    BY <2>2, OnceCounts
<1>. QED
  BY <1>1, Invariant, PTL

(* The entry that the outermost trusted proxy appended is the last that is *)
(* not a trusted proxy's, whatever the client wrote before it.             *)
LEMMA AppendedIsLast ==
    ASSUME NEW f \in Seq(STRING), NEW i \in DOMAIN f, Len(f) - i < MaxForwarded,
           f[i] \in Addresses, ~ isTrustedProxyAddr(f[i]),
           \A j \in i + 1 .. Len(f) : f[j] \in Addresses /\ isTrustedProxyAddr(f[j])
    PROVE  ClientEntries(f) # {} /\ Max(ClientEntries(f)) = i
<1>1. DOMAIN f = 1 .. Len(f) /\ Len(f) \in Nat /\ MaxForwarded \in Nat
  BY LenProperties, AddressAssumption
<1>2. i \in ClientEntries(f)
  BY <1>1 DEF ClientEntries
<1>3. \A j \in ClientEntries(f) : j \in 1 .. Len(f) /\ j <= i
  BY <1>1 DEF ClientEntries
<1>4. \A m \in ClientEntries(f) : (\A y \in ClientEntries(f) : m >= y) => m = i
  BY <1>1, <1>2, <1>3
<1>5. \A y \in ClientEntries(f) : i >= y
  BY <1>1, <1>3
<1>6. Max(ClientEntries(f)) \in ClientEntries(f)
      /\ \A y \in ClientEntries(f) : Max(ClientEntries(f)) >= y
  BY <1>2, <1>5 DEF Max
<1>. QED
  BY <1>2, <1>4, <1>6

(* The address a request is judged by is the one the outermost trusted     *)
(* proxy saw, for any headers and trusted proxies (ExtractRealIP).         *)
THEOREM ClientNeverForged == Spec => ClientNotForged
<1>1. ASSUME IInv, [Next]_vars
      PROVE  [ pc = "parse" /\ raw.http /\ ~ (cfg.trustedIPHeader /\ raw.trusted \in Addresses) =>
            \A i \in DOMAIN raw.forwarded :
                /\ Len(raw.forwarded) - i < MaxForwarded
                /\ raw.forwarded[i] \in Addresses /\ ~ isTrustedProxyAddr(raw.forwarded[i])
                /\ \A j \in i + 1 .. Len(raw.forwarded) :
                       raw.forwarded[j] \in Addresses /\ isTrustedProxyAddr(raw.forwarded[j])
                => request'.ip = raw.forwarded[i] /\ request'.parsed ]_vars
  <2>1. SUFFICES ASSUME ~ UNCHANGED vars, pc = "parse", raw.http,
                        ~ (cfg.trustedIPHeader /\ raw.trusted \in Addresses),
                        NEW i \in DOMAIN raw.forwarded,
                        Len(raw.forwarded) - i < MaxForwarded,
                        raw.forwarded[i] \in Addresses, ~ isTrustedProxyAddr(raw.forwarded[i]),
                        \A j \in i + 1 .. Len(raw.forwarded) :
                            raw.forwarded[j] \in Addresses /\ isTrustedProxyAddr(raw.forwarded[j])
                 PROVE  request'.ip = raw.forwarded[i] /\ request'.parsed
    OBVIOUS
  <2>2. ParseCheckRequest
    BY <1>1, <2>1 DEF Next, Evaluate, Arrive, checkExempt, checkDecisionCache, checkWAF,
                      checkCaptcha, ServerCheck, Finish
  <2>. DEFINE trusted == IF cfg.trustedIPHeader THEN raw.trusted ELSE ""
              client == ExtractRealIP(raw, trusted)
  <2>3. raw.forwarded \in Seq(STRING)
    <3>1. NoRaw.http = FALSE
      BY DEF NoRaw
    <3>2. raw = NoRaw => raw.http = FALSE
      BY <3>1
    <3>3. raw \in RawRequests
      BY <1>1, <2>1, <3>2 DEF IInv, RequestInv
    <3>. QED
      BY <3>3, RawAssumption
  <2>4. ClientEntries(raw.forwarded) # {} /\ Max(ClientEntries(raw.forwarded)) = i
    BY <2>1, <2>3, AppendedIsLast
  <2>5. trusted \notin Addresses
    BY <2>1, AddressAssumption
  <2>6. client = [ip |-> raw.forwarded[i], parsed |-> raw.forwarded[i] \in Addresses]
    BY <2>4, <2>5 DEF ExtractRealIP
  <2>7. request'.ip = client.ip /\ request'.parsed = client.parsed
    BY <2>1, <2>2 DEF ParseCheckRequest
  <2>. HIDE DEF client
  <2>8. client.ip = raw.forwarded[i] /\ client.parsed = (raw.forwarded[i] \in Addresses)
    BY <2>6
  <2>9. client.parsed = TRUE
    BY <2>1, <2>8
  <2>10. request'.ip = raw.forwarded[i]
    BY <2>7, <2>8
  <2>11. request'.parsed
    BY <2>7, <2>9, Zenon
  <2>. QED
    BY <2>10, <2>11
<1>. QED
  BY <1>1, Invariant, PTL DEF Spec, ClientNotForged

-----------------------------------------------------------------------------
\* Two promises no single stage of Check keeps.

(* An address on the exempt list is let through, and neither the decision  *)
(* cache nor AppSec is asked about it, under any configuration             *)
(* (checkExempt).                                                          *)
ExemptPasses ==
    pc = "done" /\ isExemptIP(request) =>
        response = "ok" /\ decision = "unasked" /\ verdict = "unasked" /\ asked = NoCall

(* If the decision cache or AppSec demands a CAPTCHA and the service is on *)
(* the request passes only with a cookie that the service found valid, by  *)
(* either of the two ways into checkCaptcha and whatever failOpen says.    *)
CaptchaDemanded ==
    pc = "done" /\ response = "ok" /\ cfg.captcha /\ "captcha" \in {decision, verdict} =>
        session = "valid" /\ request.token

\* Past the exempt list nobody is exempt, and a demanded CAPTCHA leads to the CAPTCHA service.
GateInv ==
    /\ pc \in {"decision", "waf", "captcha"} => ~ isExemptIP(request)
    /\ Decided /\ isExemptIP(request) =>
           action = "allow" /\ decision = "unasked" /\ verdict = "unasked" /\ asked = NoCall
    /\ Decided /\ action = "allow" /\ cfg.captcha /\ "captcha" \in {decision, verdict} =>
           session = "valid" /\ request.token

LEMMA GateInit == ASSUME Init PROVE GateInv
  BY DEF Init, GateInv, Decided

LEMMA GateNext == ASSUME IInv, GateInv, [Next]_vars PROVE GateInv'
<1>. USE DEF GateInv, Decided
<1>1. CASE UNCHANGED vars
  BY <1>1 DEF vars, isExemptIP
<1>2. CASE Arrive
  BY <1>2 DEF Arrive
<1>3. CASE ParseCheckRequest
  BY <1>3 DEF ParseCheckRequest
<1>4. CASE checkExempt
  BY <1>4 DEF checkExempt, recordFinalMetric, GoOn, isExemptIP, IInv, AskedInv
<1>5. CASE checkDecisionCache
  BY <1>5 DEF checkDecisionCache, DecisionAnswers, recordFinalMetric, GoOn, isExemptIP, IInv, AskedInv
<1>6. CASE checkWAF
  <2>1. ~ isExemptIP(request)' /\ decision' # "captcha"
    BY <1>6 DEF checkWAF, isExemptIP, IInv, AskedInv
  <2>2. ASSUME verdict' = "captcha" PROVE pc' = "captcha"
    BY <1>6, <2>2 DEF checkWAF, GoOn
  <2>. QED
    BY <2>1, <2>2
<1>7. CASE checkCaptcha
  <2>1. ~ isExemptIP(request)'
    BY <1>7 DEF checkCaptcha, isExemptIP
  <2>2. ASSUME action' = "allow", cfg.captcha PROVE session' = "valid" /\ request'.token
    BY <1>7, <2>2 DEF checkCaptcha, recordFinalMetric
  <2>3. cfg' = cfg
    BY <1>7 DEF checkCaptcha
  <2>. QED
    BY <2>1, <2>2, <2>3
<1>8. CASE ServerCheck
  BY <1>8 DEF ServerCheck, isExemptIP
<1>9. CASE Finish
  BY <1>9 DEF Finish
<1>. QED
  BY <1>1, <1>2, <1>3, <1>4, <1>5, <1>6, <1>7, <1>8, <1>9 DEF Next, Evaluate

LEMMA Gated == Spec => [](IInv /\ GateInv)
<1>1. IInv /\ GateInv /\ [Next]_vars => GateInv'
  BY GateNext
<1>. QED
  BY <1>1, GateInit, Invariant, PTL DEF Spec

(* Whatever is configured and answered, an exempt address passes and is    *)
(* not inspected (checkExempt, isExemptIP).                                *)
THEOREM ExemptAlwaysPasses == Spec => []ExemptPasses
<1>1. IInv /\ GateInv => ExemptPasses
  BY DoneMeans DEF GateInv, Decided, ExemptPasses, ResponseFor
<1>. QED
  BY <1>1, Gated, PTL

(* Neither failOpen nor a session cookie by itself gets a request past a   *)
(* CAPTCHA that the decision cache or AppSec demands (checkCaptcha).       *)
THEOREM CaptchaNotSkipped == Spec => []CaptchaDemanded
<1>1. IInv /\ GateInv => CaptchaDemanded
  BY DoneMeans DEF GateInv, Decided, CaptchaDemanded
<1>. QED
  BY <1>1, Gated, PTL
=============================================================================
