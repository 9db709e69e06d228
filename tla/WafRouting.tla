----------------------------- MODULE WafRouting -----------------------------
(***************************************************************************)
(* Which AppSec listener inspects a request (waf/waf.go).  A host is a     *)
(* sequence of labels, with a port or without; a label is its name and     *)
(* whether it is spelled in upper case.  A route has a set of patterns,    *)
(* sequences of labels too, and the URL of a listener.                     *)
(***************************************************************************)
EXTENDS Naturals, Sequences, FiniteSetsExt

Label(n) == [name |-> n, upper |-> FALSE]
Wildcard == Label("*")

ToLower(labels) == [i \in DOMAIN labels |-> Label(labels[i].name)]

\* The configured patterns are lower-cased once.
NewWAF(routes) ==
    [i \in DOMAIN routes |-> [routes[i] EXCEPT !.patterns = {ToLower(p) : p \in @}]]

(* config.WAF.Validate: every route has a host, and no host is listed twice*)
(* in any spelling.                                                        *)
Validate(routes) ==
    /\ \A i \in DOMAIN routes : routes[i].patterns # {}
    /\ \A i, j \in DOMAIN routes : \A p \in routes[i].patterns, q \in routes[j].patterns :
           ToLower(p) = ToLower(q) => i = j /\ p = q

\* Mutant of normalizeHost: the port stays, on the last label.
normalizeHostWithPort(host) ==
    IF host.port /\ host.labels # <<>>
    THEN [ToLower(host.labels) EXCEPT ![Len(host.labels)] = Label("with port")]
    ELSE ToLower(host.labels)

\* The port is dropped, if there is one.
normalizeHost(host) == ToLower(host.labels)

labelsMatch(pattern, labels) ==
    /\ Len(pattern) = Len(labels)
    /\ \A i \in DOMAIN pattern : pattern[i] \in {Wildcard, labels[i]}

hostMatches(patterns, labels) ==
    \E p \in patterns : p = <<Wildcard>> \/ labelsMatch(p, labels)

Matching(routes, host) ==
    {i \in DOMAIN routes : hostMatches(NewWAF(routes)[i].patterns, normalizeHost(host))}

\* The first route that matches; without routes everything goes to one URL.
target(routes, host) ==
    IF routes = <<>> THEN "appSecURL"
    ELSE IF Matching(routes, host) = {} THEN "none"
    ELSE routes[Min(Matching(routes, host))].url
=============================================================================
