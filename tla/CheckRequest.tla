---------------------------- MODULE CheckRequest ----------------------------
(***************************************************************************)
(* One ext_authz request from server.Check through bouncer.Check: parsing, *)
(* exempt list, decision cache, CAPTCHA, AppSec, final metric, webhook     *)
(* notification, answer to Envoy.  The components it asks answer anything  *)
(* they may answer; what they do inside is modelled in DecisionCache and   *)
(* Captcha.  Requests share nothing here but counters, so one at a time is *)
(* followed; when it is answered another may arrive.                       *)
(*                                                                         *)
(* Strings the code lower-cases before it compares them (decision types,   *)
(* AppSec actions, header names) are values; "unknown" is any AppSec       *)
(* action the code has no case for, the empty one included.                *)
(***************************************************************************)
EXTENDS ClientAddress, WafRouting

CONSTANTS
    Configs,         \* the configurations to run under: which parts are enabled, failOpen, routes,
                     \* the status of a ban, 0 for none, whether bans show a page, and whether the
                     \* templates could be loaded
    RawRequests,     \* the requests Envoy may ask about
    AppSecStatuses   \* the http_status of AppSec's challenges, 0 if there is none

Routes == [patterns : SUBSET Seq([name : STRING, upper : BOOLEAN]), url : STRING \ {"none"}]
Hosts  == [labels : Seq([name : STRING, upper : BOOLEAN]), port : BOOLEAN]

\* The process starts only if the routes of an enabled WAF are valid.
newWAF(c) == c.waf => Validate(c.routes)

ASSUME ConfigAssumption ==
    /\ Configs \subseteq [bouncer : BOOLEAN, waf : BOOLEAN, failOpen : BOOLEAN, captcha : BOOLEAN,
                          metrics : BOOLEAN, trustedIPHeader : BOOLEAN, routes : Seq(Routes),
                          banStatusCode : Nat, showDeniedPage : BOOLEAN, templates : BOOLEAN]
    /\ \A c \in Configs : newWAF(c)
    /\ AppSecStatuses \subseteq Nat

(* Of a request: whether it describes an HTTP request at all, the socket   *)
(* address, the three headers an address may come from, host and kind of   *)
(* path, whether a session cookie is sent, and what the client put into a  *)
(* header of the name that tells AppSec the address.                       *)
ASSUME RawAssumption ==
    RawRequests \subseteq [http : BOOLEAN, source : STRING, forwarded : Seq(STRING),
                           xRealIP : STRING, trusted : STRING, host : Hosts,
                           challengePath : BOOLEAN, token : BOOLEAN, appsecIP : STRING]

VARIABLES
    cfg,       \* the configuration, fixed for the life of the process
    raw,       \* the request as Envoy sent it, until it is parsed
    request,   \* what ParseCheckRequest found in it
    pc,        \* "idle", "parse", the component to be asked next, "server", "done", "crashed"
    decision,  \* the decision cache's answer, "unasked" before
    verdict,   \* AppSec's answer, "unasked" before
    asked,     \* the call to AppSec: its URL and the address it was told
    session,   \* the CAPTCHA service's answer, "unasked" before
    action,    \* the action of the CheckedRequest, "" before
    status,    \* its HTTP status, 0 before
    recorded,  \* how often requests_total was incremented for each action and this request
    usage,     \* likewise the usage metrics reported to CrowdSec
    notified,  \* the action the notifier was given, "" before
    response   \* what Envoy is told, "" before

askedVars == <<decision, verdict, asked, session>>
resultVars == <<action, status>>
countVars == <<recorded, usage>>
vars == <<cfg, raw, request, pc, askedVars, resultVars, countVars, notified, response>>

Actions == {"allow", "ban", "captcha", "challenge", "error", "unknown"}

NoHost == [labels |-> <<Label("")>>, port |-> FALSE]
NoCall == [url |-> "none", ip |-> ""]

NoRaw == [http |-> FALSE, source |-> "", forwarded |-> <<>>, xRealIP |-> "", trusted |-> "",
          host |-> NoHost, challengePath |-> FALSE, token |-> FALSE, appsecIP |-> ""]

NoRequest == [ip |-> "", parsed |-> FALSE, method |-> FALSE, host |-> NoHost,
              challengePath |-> FALSE, token |-> FALSE, appsecIP |-> ""]

Init ==
    /\ cfg \in Configs
    /\ raw = NoRaw /\ request = NoRequest /\ pc = "idle"
    /\ decision = "unasked" /\ verdict = "unasked" /\ session = "unasked" /\ asked = NoCall
    /\ action = "" /\ status = 0 /\ notified = "" /\ response = ""
    /\ recorded = [a \in Actions |-> 0] /\ usage = [a \in Actions |-> 0]

Arrive ==
    /\ pc = "idle"
    /\ raw' \in RawRequests
    /\ pc' = "parse"
    /\ UNCHANGED <<cfg, request, askedVars, resultVars, countVars, notified, response>>

(* Without an HTTP request only the socket address is known, and it is not *)
(* parsed.  Cookies and headers are kept for the components that are on.   *)
ParseCheckRequest ==
    /\ pc = "parse"
    /\ request' =
         IF ~ raw.http THEN [NoRequest EXCEPT !.ip = raw.source]
         ELSE LET client == ExtractRealIP(raw, IF cfg.trustedIPHeader THEN raw.trusted ELSE "")
              IN  [ip |-> client.ip, parsed |-> client.parsed, method |-> TRUE, host |-> raw.host,
                   challengePath |-> raw.challengePath,
                   token    |-> cfg.captcha /\ raw.token,
                   appsecIP |-> IF cfg.waf THEN raw.appsecIP ELSE ""]
    /\ raw' = NoRaw
    /\ pc' = "exempt"
    /\ UNCHANGED <<cfg, askedVars, resultVars, countVars, notified, response>>

\* NewComponents makes a MetricsService for an enabled bouncer that is to report metrics.
HasMetricsService == cfg.bouncer /\ cfg.metrics

\* The keys of newRemediationMetrics.
remediationMetrics == {"allow", "ban", "captcha", "challenge"}

\* Mutant of getBanStatusCode: a status that is not configured is not replaced.
getBanStatusCodeConfigured == cfg.banStatusCode

getBanStatusCode == IF cfg.banStatusCode # 0 THEN cfg.banStatusCode ELSE 403

buildChallengeResponse(s) == IF s = 0 THEN getBanStatusCode ELSE s

\* The HTTP statuses a CheckedRequest with action a may have.
StatusesOf(a) ==
    CASE a = "allow"     -> {200}
      [] a = "captcha"   -> {302}
      [] a = "ban"       -> {getBanStatusCode}
      [] a = "challenge" -> {buildChallengeResponse(s) : s \in AppSecStatuses}
      [] OTHER           -> {500}

\* Mutant of recordFinalMetric: the helper and its caller both count.
recordFinalMetricTwice(a) ==
    /\ action' = a /\ status' \in StatusesOf(a)
    /\ recorded' = [recorded EXCEPT ![a] = @ + 2]
    /\ UNCHANGED usage
    /\ pc' = "server"

(* Check returns a, having counted it in requests_total and, if there is a *)
(* MetricsService and a remediation metric for it, in the usage metrics.   *)
recordFinalMetric(a) ==
    /\ action' = a /\ status' \in StatusesOf(a)
    /\ recorded' = [recorded EXCEPT ![a] = @ + 1]
    /\ IF HasMetricsService /\ a \in remediationMetrics
       THEN usage' = [usage EXCEPT ![a] = @ + 1]
       ELSE UNCHANGED usage
    /\ pc' = "server"

GoOn(next) == pc' = next /\ UNCHANGED <<resultVars, countVars>>

\* Mutant of checkExempt: the early return for an exempt client is not counted.
checkExemptUncounted ==
    /\ pc = "exempt"
    /\ IF isExemptIP(request)
       THEN action' = "allow" /\ status' = 200 /\ pc' = "server" /\ UNCHANGED countVars
       ELSE GoOn("decision")
    /\ UNCHANGED <<cfg, raw, request, askedVars, notified, response>>

checkExempt ==
    /\ pc = "exempt"
    /\ IF isExemptIP(request) THEN recordFinalMetric("allow") ELSE GoOn("decision")
    /\ UNCHANGED <<cfg, raw, request, askedVars, notified, response>>

(* GetDecision fails on an empty address only; the no-op cache of a        *)
(* disabled bouncer never finds anything.  Types other than ban and        *)
(* captcha, and decisions without a type, allow.                           *)
DecisionAnswers ==
    IF ~ cfg.bouncer THEN {"none"}
    ELSE IF request.ip = "" THEN {"error"}
    ELSE {"none", "untyped", "ban", "captcha", "othertype"}

\* Mutant of checkDecisionCache: a ban is left to AppSec to confirm.
checkDecisionCacheDeferred ==
    /\ pc = "decision"
    /\ decision' \in DecisionAnswers
    /\ CASE decision' = "error"   -> recordFinalMetric("error")
         [] decision' = "captcha" -> GoOn("captcha")
         [] OTHER                 -> GoOn("waf")
    /\ UNCHANGED <<cfg, raw, request, verdict, asked, session, notified, response>>

checkDecisionCache ==
    /\ pc = "decision"
    /\ decision' \in DecisionAnswers
    /\ CASE decision' = "ban"     -> recordFinalMetric("ban")
         [] decision' = "error"   -> recordFinalMetric("error")
         [] decision' = "captcha" -> GoOn("captcha")
         [] OTHER                 -> GoOn("waf")
    /\ UNCHANGED <<cfg, raw, request, verdict, asked, session, notified, response>>

\* Mutant of wafFailure: failOpen is looked at before the path.
wafFailureOpenFirst ==
    IF cfg.failOpen THEN recordFinalMetric("allow")
    ELSE IF request.challengePath THEN recordFinalMetric("ban")
    ELSE recordFinalMetric("error")

wafFailure ==
    IF request.challengePath THEN recordFinalMetric("ban")
    ELSE IF cfg.failOpen THEN recordFinalMetric("allow")
    ELSE recordFinalMetric("error")

\* Mutant of newForwardRequest: the client's own headers are copied last.
newForwardRequestCopiedLast ==
    [url |-> target(cfg.routes, request.host),
     ip  |-> IF request.appsecIP # "" THEN request.appsecIP ELSE request.ip]

\* The client's headers are copied first, then those for AppSec are set over them.
newForwardRequest ==
    [url |-> target(cfg.routes, request.host), ip |-> request.ip]

(* Inspect refuses a request without a method, lets one pass whose host no *)
(* route matches, and forwards the others: AppSec answers, or the call     *)
(* fails (transport, timeout, unreadable answer).                          *)
Inspect ==
    IF ~ request.method THEN verdict' = "failed" /\ UNCHANGED asked
    ELSE IF target(cfg.routes, request.host) = "none" THEN verdict' = "unrouted" /\ UNCHANGED asked
    ELSE verdict' \in Actions \cup {"failed"} /\ asked' = newForwardRequest

\* Mutant of checkWAF: a failed inspection starts the evaluation over, without a limit.
checkWAFRetrying ==
    /\ pc = "waf"
    /\ IF cfg.waf THEN Inspect ELSE verdict' = "disabled" /\ UNCHANGED asked
    /\ CASE verdict' = "disabled" ->
                recordFinalMetric(IF request.challengePath THEN "ban" ELSE "allow")
         [] verdict' = "failed" -> GoOn("decision")
         [] verdict' = "error" -> wafFailure
         [] verdict' = "captcha" -> GoOn("captcha")
         [] verdict' = "unrouted" -> recordFinalMetric("allow")
         [] OTHER -> recordFinalMetric(verdict')
    /\ UNCHANGED <<cfg, raw, request, decision, session, notified, response>>

checkWAF ==
    /\ pc = "waf"
    /\ IF cfg.waf THEN Inspect ELSE verdict' = "disabled" /\ UNCHANGED asked
    /\ CASE verdict' = "disabled" ->
                recordFinalMetric(IF request.challengePath THEN "ban" ELSE "allow")
         [] verdict' \in {"failed", "error"} -> wafFailure
         [] verdict' = "captcha" -> GoOn("captcha")
         [] verdict' = "unrouted" -> recordFinalMetric("allow")
         [] OTHER -> recordFinalMetric(verdict')
    /\ UNCHANGED <<cfg, raw, request, decision, session, notified, response>>

(* The CAPTCHA service is off, finds the session in the cookie valid,      *)
(* issues a challenge, or refuses the URL it would redirect back to.       *)
checkCaptcha ==
    /\ pc = "captcha"
    /\ session' \in IF ~ cfg.captcha THEN {"disabled"}
                   ELSE {"issued", "failed"} \cup (IF request.token THEN {"valid"} ELSE {})
    /\ recordFinalMetric(CASE session' \in {"disabled", "valid"} -> "allow"
                           [] session' = "issued" -> "captcha"
                           [] session' = "failed" -> "error")
    /\ UNCHANGED <<cfg, raw, request, decision, verdict, asked, notified, response>>

\* What Envoy makes of a denied response: status 0 is OK, and lets the request pass.
Denied(answer, s) == IF s = 0 THEN "ok" ELSE answer

\* server.Check: notify first, then answer according to the action.
ResponseFor(a, s) ==
    CASE a = "allow"     -> "ok"
      [] a = "captcha"   -> Denied("redirect", 302)
      [] a = "challenge" -> Denied("challenge page", s)
      [] a = "ban"       -> Denied("denied", s)
      [] a = "error"     -> "unavailable"
      [] OTHER           -> "internal"

(* A store that could not be created is passed on as a nil pointer in an   *)
(* interface, which the nil check lets through: rendering the page for a   *)
(* ban panics, and with the gRPC handler the process ends.  A template     *)
(* that fails to render only changes the body.                             *)
renderDeniedPanics == action = "ban" /\ cfg.showDeniedPage /\ ~ cfg.templates

\* Mutant of ServerCheck: the store is rendered whether a page is configured or not.
ServerCheckAlwaysRenders ==
    /\ pc = "server"
    /\ notified' = action
    /\ IF action = "ban" /\ ~ cfg.templates
       THEN pc' = "crashed" /\ UNCHANGED response
       ELSE pc' = "done" /\ response' = ResponseFor(action, status)
    /\ UNCHANGED <<cfg, raw, request, askedVars, resultVars, countVars>>

ServerCheck ==
    /\ pc = "server"
    /\ notified' = action
    /\ IF renderDeniedPanics
       THEN pc' = "crashed" /\ UNCHANGED response
       ELSE pc' = "done" /\ response' = ResponseFor(action, status)
    /\ UNCHANGED <<cfg, raw, request, askedVars, resultVars, countVars>>

(* The request is gone; the next one finds nothing of it.  A process that  *)
(* has crashed is started again.                                           *)
Finish ==
    /\ pc \in {"done", "crashed"}
    /\ raw' = NoRaw /\ request' = NoRequest /\ pc' = "idle"
    /\ decision' = "unasked" /\ verdict' = "unasked" /\ session' = "unasked" /\ asked' = NoCall
    /\ action' = "" /\ status' = 0 /\ notified' = "" /\ response' = ""
    /\ recorded' = [a \in Actions |-> 0] /\ usage' = [a \in Actions |-> 0]
    /\ UNCHANGED cfg

Evaluate == ParseCheckRequest \/ checkExempt \/ checkDecisionCache \/ checkWAF \/ checkCaptcha
            \/ ServerCheck

Next == Arrive \/ Evaluate \/ Finish

Spec == Init /\ [][Next]_vars

\* A request in progress goes on: every component it asks answers or times out.
FairSpec == Spec /\ WF_vars(Evaluate)

-----------------------------------------------------------------------------
\* Properties.

\* Every variable holds values of its kind; no action is counted twice.
TypeOK ==
    /\ cfg \in Configs /\ raw \in RawRequests \cup {NoRaw}
    /\ request.ip \in STRING
    /\ request.parsed <=> request.ip \in Addresses /\ request.method
    /\ pc \in {"idle", "parse", "exempt", "decision", "waf", "captcha", "server", "done", "crashed"}
    /\ action \in Actions \cup {""} /\ status \in Nat /\ notified \in Actions \cup {""}
    /\ recorded \in [Actions -> 0 .. 1] /\ usage \in [Actions -> 0 .. 1]

(* The address a request is judged by is the one the outermost trusted     *)
(* proxy saw: if behind an entry of X-Forwarded-For there are only trusted *)
(* proxies, and not too many of them, then nothing that stands in front of *)
(* it, and no other header than the trusted one, changes the outcome.      *)
ClientNotForged ==
    [][ pc = "parse" /\ raw.http /\ ~ (cfg.trustedIPHeader /\ raw.trusted \in Addresses) =>
            \A i \in DOMAIN raw.forwarded :
                /\ Len(raw.forwarded) - i < MaxForwarded
                /\ raw.forwarded[i] \in Addresses /\ ~ isTrustedProxyAddr(raw.forwarded[i])
                /\ \A j \in i + 1 .. Len(raw.forwarded) :
                       raw.forwarded[j] \in Addresses /\ isTrustedProxyAddr(raw.forwarded[j])
                => request'.ip = raw.forwarded[i] /\ request'.parsed ]_vars

(* A ban decision on a client that is not exempt denies the request under  *)
(* every configuration, with failOpen or without a status for bans, and    *)
(* AppSec is not even asked (docs/CONFIGURATION.md:93: "IP-based LAPI      *)
(* decisions are still enforced").                                         *)
BanEnforced ==
    pc = "done" /\ decision = "ban" => response = "denied" /\ verdict = "unasked"

(* No request passes on an AppSec failure unless failOpen is set, and none *)
(* for a challenge path even then; an AppSec action the code does not know *)
(* never passes.                                                           *)
FailsClosed ==
    pc = "done" /\ response = "ok" =>
        /\ verdict \in {"failed", "error"} => cfg.failOpen /\ ~ request.challengePath
        /\ verdict \notin {"ban", "challenge", "unknown"}
        /\ request.challengePath => verdict # "disabled"

\* A pattern names a host, however the host is spelled and whatever its port.
Names(pattern, host) ==
    \/ pattern = <<Wildcard>>
    \/ /\ Len(pattern) = Len(host.labels)
       /\ \A i \in DOMAIN pattern : pattern[i].name \in {"*", host.labels[i].name}

(* With AppSec on, a request that is neither exempt nor a matter for the   *)
(* CAPTCHA does not pass uninspected, or on a failure, when there are no   *)
(* routes or one of them names its host; and AppSec is told the address    *)
(* the decision was looked up for, whatever headers the client sent.       *)
InspectedAsClient ==
    /\ pc = "done" /\ response = "ok" /\ cfg.waf /\ decision \notin {"unasked", "captcha"}
          /\ (cfg.routes = <<>> \/ \E i \in DOMAIN cfg.routes :
                                       \E p \in cfg.routes[i].patterns : Names(p, request.host))
       => asked # NoCall \/ verdict = "failed"
    /\ asked # NoCall => asked.ip = request.ip

(* Each request is counted once, under the action that decides Envoy's     *)
(* answer; the usage metrics count no other, and the webhook is told that   *)
(* same action.                                                            *)
CountedOnce ==
    pc = "done" =>
        /\ \A a \in Actions : recorded[a] = IF a = action THEN 1 ELSE 0
        /\ \A a \in Actions : usage[a] > 0 => a = action
        /\ notified = action

(* Every request is answered, whatever the components do, if the templates *)
(* could be loaded or are not wanted; without them nothing but a ban goes  *)
(* unanswered (renderDeniedResponse).                                      *)
EveryRequestAnswered ==
    /\ pc = "parse" /\ (cfg.templates \/ ~ cfg.showDeniedPage) ~> pc = "done"
    /\ pc = "parse" ~> pc = "done" \/ (pc = "crashed" /\ action = "ban")
=============================================================================
