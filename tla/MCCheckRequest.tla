--------------------------- MODULE MCCheckRequest ---------------------------
(* CheckRequest under every configuration, with and without two routes.    *)
(* Requests differ either in the headers an address may come from, or in   *)
(* host, path, cookie and forged header.                                   *)
EXTENDS CheckRequest, TLC

MCAddresses == {"office", "mallory", "proxy", "mapped proxy"}
MCUnmappedOf == [a \in MCAddresses |-> IF a = "mapped proxy" THEN "proxy" ELSE a]

Upper(n) == [name |-> n, upper |-> TRUE]

TwoRoutes ==
    << [patterns |-> {<<Label("api"), Upper("shop")>>}, url |-> "api-waf"],
       [patterns |-> {<<Wildcard, Label("shop")>>}, url |-> "default-waf"] >>

(* Without AppSec neither failOpen nor routes matter.  The templates are   *)
(* missing or not wanted, or bans have no status, with one setting of what *)
(* has nothing to do with them.                                            *)
AllConfigs ==
    {c \in [bouncer : BOOLEAN, waf : BOOLEAN, failOpen : BOOLEAN, captcha : BOOLEAN, metrics : BOOLEAN,
            trustedIPHeader : BOOLEAN, routes : {<<>>, TwoRoutes},
            banStatusCode : {0, 404}, showDeniedPage : BOOLEAN, templates : BOOLEAN] :
        /\ c.waf \/ (~ c.failOpen /\ c.routes = <<>>)
        /\ (c.showDeniedPage /\ c.templates /\ c.banStatusCode # 0)
             \/ (c.metrics /\ ~ c.trustedIPHeader /\ c.routes = <<>>)}

Host(labels, port) == [labels |-> labels, port |-> port]

Forwarded == UNION {[1 .. n -> {"office", "mallory", "mapped proxy", "junk"}] : n \in 0 .. 3}

AddressRaws ==
    [http : {TRUE}, source : {"proxy"}, forwarded : Forwarded, xRealIP : {"", "junk", "office"},
     trusted : {"", "junk", "mallory"}, host : {Host(<<Label("api"), Label("shop")>>, FALSE)},
     challengePath : {FALSE}, token : {FALSE}, appsecIP : {""}]

HostRaws ==
    [http : {TRUE}, source : {"mallory"}, forwarded : {<<>>}, xRealIP : {""}, trusted : {""},
     host : {Host(<<Upper("api"), Label("shop")>>, TRUE), Host(<<Label("www"), Label("shop")>>, FALSE),
             Host(<<Label("a"), Label("b"), Label("shop")>>, FALSE)},
     challengePath : BOOLEAN, token : BOOLEAN, appsecIP : {"", "office"}]

MCRawRequests == AddressRaws \cup HostRaws \cup {[NoRaw EXCEPT !.source = s] : s \in {"office", ""}}
=============================================================================
