------------------------------- MODULE MCServe -------------------------------
(* Serve with two HTTP requests from two addresses and two gRPC calls, each*)
(* a Check or a stream; one of them if there was an HTTP request as well.  *)
EXTENDS Serve, FiniteSets

SomeOptions == {{"http"}, {"http", "prometheus"}}

(* Two scenarios in one run, to bound it: HTTP traffic while the servers   *)
(* serve, or servers starting, failing and stopping with little traffic.   *)
Serving == enabled = {"grpc", "http"} /\ signal = "none" /\ ~ stop /\ \A c \in Calls : call[c] = "idle"
Quiet   == /\ ticks = 0 /\ refused = {}
           /\ Cardinality({w \in Workers : rpc[w] # "idle" \/ \E a \in IPs : w \in created[a]}) <= 1
           /\ Cardinality({a \in IPs : created[a] # {}}) <= 1
           /\ Cardinality({c \in Calls : call[c] # "idle"}) <= 1 \/ \A a \in IPs : created[a] = {}
TwoScenarios == Serving \/ Quiet
=============================================================================
