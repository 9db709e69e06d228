----------------------------- MODULE ServeProofs -----------------------------
(***************************************************************************)
(* Proofs about RateLimiter and Serve, for every number of requests,       *)
(* addresses, calls and configured servers.                                *)
(***************************************************************************)
EXTENDS Serve, TLAPS

-----------------------------------------------------------------------------
\* The rate limiter.

(* Why a bucket is worth one burst: it is in the map or on its way there,  *)
(* and what it has lost of its burst was let through.                      *)
LimiterInv ==
    /\ \A w \in Workers : rpc[w] = "set" => held[w] = w /\ w \in created[from[w]]
    /\ \A w \in Workers : rpc[w] = "allow" => held[w] \in created[from[w]]
    /\ \A a \in IPs : limiters[a] # NoWorker => limiters[a] \in created[a]
    /\ \A a \in IPs, w \in Workers :
           w \in created[a] /\ limiters[a] = NoWorker => rpc[w] = "set" /\ from[w] = a
    /\ \A a \in IPs, w \in Workers : w \in created[a] => tokens[a][w] + allowed[a] >= Burst

SpentInv ==
    /\ \A a \in IPs : created[a] = {} => allowed[a] = 0
    /\ \A a \in IPs, w \in Workers : created[a] = {w} => tokens[a][w] + allowed[a] <= Burst + ticks

RateInv == RateTypeOK /\ LimiterInv /\ SpentInv /\ RefusedOnlyWhenSpent

LEMMA RateInitInv == RateInit => RateInv
  BY LimiterAssumption DEF RateInit, RateInv, RateTypeOK, LimiterInv, SpentInv, RefusedOnlyWhenSpent

LEMMA ArriveStep ==
    ASSUME RateInv, NEW w \in Workers, NEW a \in IPs, Arrive(w, a)
    PROVE  RateInv'
<1> USE LimiterAssumption DEF Arrive, RateInv
<1>1. RateTypeOK'
  BY DEF RateTypeOK
<1>2. LimiterInv'
  BY DEF RateTypeOK, LimiterInv
<1>3. SpentInv' /\ RefusedOnlyWhenSpent'
  BY DEF RateTypeOK, SpentInv, RefusedOnlyWhenSpent
<1> QED
  BY <1>1, <1>2, <1>3

(* A worker that finds no limiter has made none for the address before: one*)
(* it made would be in the map, or the worker still about to store it.     *)
LEMMA GetLimiterStep ==
    ASSUME RateInv, NEW w \in Workers, GetLimiter(w)
    PROVE  RateInv'
<1> USE LimiterAssumption DEF RateInv
<1>1. /\ from[w] \in IPs /\ rpc[w] = "get"
      /\ UNCHANGED <<from, limiters, ticks, allowed, refused>>
  BY DEF GetLimiter, RateTypeOK
<1>2. RefusedOnlyWhenSpent'
  BY <1>1 DEF RefusedOnlyWhenSpent
<1>3. CASE limiters[from[w]] # NoWorker
  <2>1. /\ held' = [held EXCEPT ![w] = limiters[from[w]]]
        /\ rpc' = [rpc EXCEPT ![w] = "allow"]
        /\ UNCHANGED <<created, tokens>>
    BY <1>3 DEF GetLimiter
  <2>2. RateTypeOK'
    BY <1>1, <1>3, <2>1 DEF RateTypeOK
  <2>3. LimiterInv'
    BY <1>1, <1>3, <2>1 DEF RateTypeOK, LimiterInv
  <2>4. SpentInv'
    BY <1>1, <2>1 DEF SpentInv
  <2> QED
    BY <1>2, <2>2, <2>3, <2>4
<1>4. CASE limiters[from[w]] = NoWorker
  <2>1. /\ held' = [held EXCEPT ![w] = w]
        /\ rpc' = [rpc EXCEPT ![w] = "set"]
        /\ created' = [created EXCEPT ![from[w]] = @ \cup {w}]
        /\ tokens' = [tokens EXCEPT ![from[w]][w] = Burst]
    BY <1>4 DEF GetLimiter
  <2>2. w \notin created[from[w]]
    BY <1>1, <1>4 DEF RateTypeOK, LimiterInv
  <2>3. RateTypeOK'
    <3>1. tokens' \in [IPs -> [Workers -> 0 .. Burst]]
      BY <1>1, <2>1 DEF RateTypeOK
    <3>2. created' \in [IPs -> SUBSET Workers]
      BY <1>1, <2>1 DEF RateTypeOK
    <3> QED
      BY <1>1, <2>1, <3>1, <3>2 DEF RateTypeOK
  <2>4. \A a \in IPs, v \in Workers :
            tokens'[a][v] = IF a = from[w] /\ v = w THEN Burst ELSE tokens[a][v]
    BY <1>1, <2>1 DEF RateTypeOK
  <2>5. \A a \in IPs : created'[a] = IF a = from[w] THEN created[a] \cup {w} ELSE created[a]
    BY <1>1, <2>1 DEF RateTypeOK
  <2>6. LimiterInv'
    <3>1. /\ rpc'[w] = "set" /\ held'[w] = w
          /\ \A v \in Workers : v # w => rpc'[v] = rpc[v] /\ held'[v] = held[v]
      BY <2>1 DEF RateTypeOK
    <3>2. \A a \in IPs, v \in Workers : v \in created'[a] => tokens'[a][v] + allowed'[a] >= Burst
      <4> SUFFICES ASSUME NEW a \in IPs, NEW v \in Workers, v \in created'[a]
                   PROVE  tokens'[a][v] + allowed[a] >= Burst
        BY <1>1
      <4>1. CASE a = from[w] /\ v = w
        BY <2>4, <4>1 DEF RateTypeOK
      <4>2. CASE ~ (a = from[w] /\ v = w)
        <5>1. v \in created[a] /\ tokens'[a][v] = tokens[a][v]
          BY <2>4, <2>5, <4>2
        <5> QED
          BY <5>1 DEF LimiterInv
      <4> QED
        BY <4>1, <4>2
    <3>3. \A v \in Workers :
              /\ rpc'[v] = "set" => held'[v] = v /\ v \in created'[from'[v]]
              /\ rpc'[v] = "allow" => held'[v] \in created'[from'[v]]
      <4> SUFFICES ASSUME NEW v \in Workers
                   PROVE  /\ rpc'[v] = "set" => held'[v] = v /\ v \in created'[from[v]]
                          /\ rpc'[v] = "allow" => held'[v] \in created'[from[v]]
        BY <1>1
      <4>1. CASE v = w
        BY <1>1, <2>5, <3>1, <4>1
      <4>2. CASE v # w
        <5>1. rpc[v] # "idle" => from[v] \in IPs /\ created[from[v]] \subseteq created'[from[v]]
          BY <2>5 DEF RateTypeOK
        <5> QED
          BY <3>1, <4>2, <5>1 DEF LimiterInv
      <4> QED
        BY <4>1, <4>2
    <3>4. \A a \in IPs : limiters'[a] # NoWorker => limiters'[a] \in created'[a]
      BY <1>1, <2>5 DEF LimiterInv
    <3>5. ASSUME NEW a \in IPs, NEW v \in Workers, v \in created'[a], limiters'[a] = NoWorker
          PROVE  rpc'[v] = "set" /\ from'[v] = a
      <4>1. CASE v \in created[a]
        <5>1. rpc[v] = "set" /\ from[v] = a
          BY <1>1, <3>5, <4>1 DEF LimiterInv
        <5> QED
          BY <1>1, <3>1, <5>1
      <4>2. CASE v \notin created[a]
        <5>1. v = w /\ a = from[w]
          BY <2>5, <3>5, <4>2
        <5> QED
          BY <1>1, <3>1, <5>1
      <4> QED
        BY <4>1, <4>2
    <3> QED
      BY <3>2, <3>3, <3>4, <3>5 DEF LimiterInv
  <2>7. SpentInv'
    <3>1. \A a \in IPs : created'[a] = {} => allowed'[a] = 0
      BY <1>1, <2>5 DEF SpentInv
    <3>2. ASSUME NEW a \in IPs, NEW v \in Workers, created'[a] = {v}
          PROVE  tokens'[a][v] + allowed[a] <= Burst + ticks
      <4>1. CASE a = from[w]
        <5>1. created[a] \cup {w} = {v}
          BY <2>5, <3>2, <4>1
        <5>2. v = w
          BY <5>1
        <5>3. created[a] = {}
          BY <2>2, <4>1, <5>1, <5>2
        <5> QED
          BY <2>4, <4>1, <5>2, <5>3 DEF RateTypeOK, SpentInv
      <4>2. CASE a # from[w]
        BY <2>4, <2>5, <3>2, <4>2 DEF SpentInv
      <4> QED
        BY <4>1, <4>2
    <3> QED
      BY <1>1, <3>1, <3>2 DEF SpentInv
  <2> QED
    BY <1>2, <2>3, <2>6, <2>7
<1> QED
  BY <1>3, <1>4

LEMMA SetLimiterStep ==
    ASSUME RateInv, NEW w \in Workers, SetLimiter(w)
    PROVE  RateInv'
<1> USE LimiterAssumption DEF SetLimiter, RateInv
<1>1. RateTypeOK'
  BY DEF RateTypeOK, LimiterInv
<1>2. LimiterInv'
  BY DEF RateTypeOK, LimiterInv
<1>3. SpentInv' /\ RefusedOnlyWhenSpent'
  BY DEF RateTypeOK, SpentInv, RefusedOnlyWhenSpent
<1> QED
  BY <1>1, <1>2, <1>3

LEMMA AllowStep ==
    ASSUME RateInv, NEW w \in Workers, Allow(w)
    PROVE  RateInv'
<1> USE LimiterAssumption DEF RateInv
<1>1. /\ from[w] \in IPs /\ held[w] \in created[from[w]] /\ held[w] \in Workers
      /\ tokens[from[w]][held[w]] \in 0 .. Burst /\ rpc[w] = "allow"
      /\ held' = [held EXCEPT ![w] = NoWorker]
      /\ UNCHANGED <<limiters, created, ticks>>
  BY DEF Allow, RateTypeOK, LimiterInv
<1>2. CASE tokens[from[w]][held[w]] > 0
  <2>1. /\ tokens' = [tokens EXCEPT ![from[w]][held[w]] = @ - 1]
        /\ allowed' = [allowed EXCEPT ![from[w]] = @ + 1]
        /\ rpc' = [rpc EXCEPT ![w] = "handle"]
        /\ UNCHANGED <<from, refused>>
    BY <1>2 DEF Allow
  <2>2. RateTypeOK'
    <3>1. tokens' \in [IPs -> [Workers -> 0 .. Burst]]
      BY <1>1, <1>2, <2>1 DEF RateTypeOK
    <3> QED
      BY <1>1, <2>1, <3>1 DEF RateTypeOK
  <2>3. \A a \in IPs, v \in Workers :
            tokens'[a][v] = IF a = from[w] /\ v = held[w] THEN tokens[a][v] - 1 ELSE tokens[a][v]
    BY <1>1, <2>1 DEF RateTypeOK
  <2>4. \A a \in IPs : allowed'[a] = IF a = from[w] THEN allowed[a] + 1 ELSE allowed[a]
    BY <1>1, <2>1 DEF RateTypeOK
  <2>5. LimiterInv'
    <3>1. \A a \in IPs, v \in Workers : v \in created'[a] => tokens'[a][v] + allowed'[a] >= Burst
      BY <1>1, <2>3, <2>4 DEF RateTypeOK, LimiterInv
    <3>2. /\ rpc'[w] = "handle" /\ \A v \in Workers : v # w => rpc'[v] = rpc[v] /\ held'[v] = held[v]
          /\ UNCHANGED <<limiters, created, from>>
      BY <1>1, <2>1 DEF RateTypeOK
    <3> QED
      BY <1>1, <3>1, <3>2 DEF RateTypeOK, LimiterInv
  <2>6. SpentInv'
    <3>1. \A a \in IPs : created'[a] = {} => allowed'[a] = 0
      BY <1>1, <2>4 DEF SpentInv
    <3>2. ASSUME NEW a \in IPs, NEW v \in Workers, created[a] = {v}
          PROVE  tokens'[a][v] + allowed'[a] <= Burst + ticks
      <4>1. a = from[w] => v = held[w]
        BY <1>1, <3>2
      <4>2. tokens'[a][v] + allowed'[a] = tokens[a][v] + allowed[a]
        BY <2>3, <2>4, <4>1 DEF RateTypeOK
      <4> QED
        BY <3>2, <4>2 DEF SpentInv
    <3> QED
      BY <1>1, <3>1, <3>2 DEF SpentInv
  <2>7. RefusedOnlyWhenSpent'
    BY <2>1, <2>4 DEF RateTypeOK, RefusedOnlyWhenSpent
  <2> QED
    BY <2>2, <2>5, <2>6, <2>7
<1>3. CASE ~ tokens[from[w]][held[w]] > 0
  <2>1. /\ refused' = refused \cup {from[w]}
        /\ rpc' = [rpc EXCEPT ![w] = "idle"]
        /\ from' = [from EXCEPT ![w] = NoIP]
        /\ UNCHANGED <<tokens, allowed>>
    BY <1>3 DEF Allow
  <2>2. RateTypeOK'
    BY <1>1, <2>1 DEF RateTypeOK
  <2>3. LimiterInv'
    BY <1>1, <2>1 DEF RateTypeOK, LimiterInv
  <2>4. SpentInv'
    BY <1>1, <2>1 DEF SpentInv
  <2>5. allowed[from[w]] >= Burst
    BY <1>1, <1>3 DEF RateTypeOK, LimiterInv
  <2>6. RefusedOnlyWhenSpent'
    BY <2>1, <2>5 DEF RefusedOnlyWhenSpent
  <2> QED
    BY <2>2, <2>3, <2>4, <2>6
<1> QED
  BY <1>2, <1>3

LEMMA HandledStep ==
    ASSUME RateInv, NEW w \in Workers, Handled(w)
    PROVE  RateInv'
<1> USE LimiterAssumption DEF Handled, RateInv
<1>1. RateTypeOK'
  BY DEF RateTypeOK
<1>2. LimiterInv'
  BY DEF RateTypeOK, LimiterInv
<1>3. SpentInv' /\ RefusedOnlyWhenSpent'
  BY DEF RateTypeOK, SpentInv, RefusedOnlyWhenSpent
<1> QED
  BY <1>1, <1>2, <1>3

LEMMA TickStep ==
    ASSUME RateInv, Tick
    PROVE  RateInv'
<1> USE LimiterAssumption DEF RateInv
<1>1. /\ ticks < MaxTicks /\ ticks' = ticks + 1
      /\ UNCHANGED <<rpc, from, limiters, created, held, allowed, refused>>
  BY DEF Tick
<1>2. \A a \in IPs, w \in Workers :
          /\ tokens[a][w] \in 0 .. Burst
          /\ tokens'[a][w] = IF w \in created[a] /\ tokens[a][w] < Burst
                             THEN tokens[a][w] + 1 ELSE tokens[a][w]
  BY DEF Tick, RateTypeOK
<1>3. RateTypeOK'
  <2>1. tokens' \in [IPs -> [Workers -> 0 .. Burst]]
    BY <1>2 DEF Tick, RateTypeOK
  <2> QED
    BY <1>1, <2>1 DEF RateTypeOK
<1>4. LimiterInv'
  <2>1. \A a \in IPs, w \in Workers : w \in created'[a] => tokens'[a][w] + allowed'[a] >= Burst
    BY <1>1, <1>2 DEF RateTypeOK, LimiterInv
  <2> QED
    BY <1>1, <2>1 DEF LimiterInv
<1>5. SpentInv'
  BY <1>1, <1>2 DEF RateTypeOK, SpentInv
<1>6. RefusedOnlyWhenSpent'
  BY <1>1 DEF RefusedOnlyWhenSpent
<1> QED
  BY <1>3, <1>4, <1>5, <1>6

LEMMA RateUntouched == RateInv /\ UNCHANGED limiterVars => RateInv'
  BY DEF limiterVars, RateInv, RateTypeOK, LimiterInv, SpentInv, RefusedOnlyWhenSpent

LEMMA RateNextInv ==
    ASSUME RateInv, [RateNext]_limiterVars
    PROVE  RateInv'
  BY ArriveStep, GetLimiterStep, SetLimiterStep, AllowStep, HandledStep, TickStep, RateUntouched
     DEF RateNext, Work

LEMMA RateBounds ==
    ASSUME RateInv
    PROVE  BurstUnlessRaced
<1> SUFFICES ASSUME NEW a \in IPs, NEW w \in Workers, created[a] \subseteq {w}
             PROVE  allowed[a] <= Burst + ticks
  BY DEF BurstUnlessRaced
<1>1. created[a] = {} \/ created[a] = {w}
  OBVIOUS
<1>2. allowed[a] \in Nat /\ ticks \in Nat /\ tokens[a][w] \in Nat
  BY LimiterAssumption DEF RateInv, RateTypeOK
<1> QED
  BY <1>1, <1>2, LimiterAssumption DEF RateInv, SpentInv

-----------------------------------------------------------------------------
\* The process.

GroupTypeOK ==
    /\ {"grpc"} \subseteq enabled /\ enabled \subseteq Servers
    /\ main \in {"startup", "wait", "exited"} /\ exitStatus \in {"", "ok", "error"}
    /\ signal \in {"none", "sent", "read"} /\ stop \in BOOLEAN
    /\ firstError \in Servers \cup {NoServer}
    /\ srv \in [Servers -> {"absent", "start", "ready", "serving", "returned"}]
    /\ outcome \in [Servers -> {"", "ok", "failed", "stopped early"}]
    /\ stopper \in [Servers -> {"none", "waiting", "stopping", "done"}]
    /\ \A s \in Servers : srv[s] \in {"ready", "serving"} => stopper[s] # "none"
    /\ call \in [Calls -> {"idle", "open", "stream"}]

(* No call is open before the gRPC server serves, or once GracefulStop has *)
(* waited for the calls; only a failed server returns with calls open.     *)
CallInv ==
    /\ stopper["grpc"] = "done" \/ srv["grpc"] \in {"absent", "start", "ready"}
           => \A c \in Calls : call[c] = "idle"
    /\ outcome["grpc"] = "ok" => stopper["grpc"] = "done"
    /\ outcome["grpc"] = "stopped early" =>
           stopper["grpc"] \in {"stopping", "done"} /\ \A c \in Calls : call[c] = "idle"
    /\ srv["grpc"] = "returned" => outcome["grpc"] # ""

(* The context is done because of a signal or of an error, and of errors   *)
(* the one that came first is kept.                                        *)
StopInv ==
    /\ stop <=> signal = "read" \/ firstError # NoServer
    /\ \A s \in Servers : stopper[s] \in {"stopping", "done"} => stop
    /\ firstError = NoServer => \A s \in Servers : outcome[s] \in {"", "ok"}
    /\ \A s \in Servers : outcome[s] = "ok" => stop
    /\ \A s \in Servers : outcome[s] = "stopped early" => s = "grpc"
    /\ firstError # NoServer => outcome[firstError] \in {"failed", "stopped early"}
    /\ firstError # NoServer /\ signal # "read" => outcome[firstError] = "failed"

ExitInv ==
    /\ \A s \in Servers : srv[s] = "returned" <=> outcome[s] # ""
    /\ \A s \in Servers : srv[s] = "start" /\ s # "grpc" => stopper[s] # "none"
    /\ main = "startup" => \A s \in Servers : srv[s] = "absent"
    /\ main # "exited" => exitStatus = ""
    /\ main = "exited" /\ srv["grpc"] # "absent" =>
           /\ \A s \in enabled : srv[s] = "returned"
           /\ exitStatus = IF firstError = NoServer THEN "ok" ELSE "error"

GroupInv == GroupTypeOK /\ CallInv /\ StopInv /\ ExitInv

LEMMA TypeParts == TypeOK <=> RateTypeOK /\ GroupTypeOK
  BY DEF TypeOK, GroupTypeOK

LEMMA GroupInit == Init => GroupInv
<1> SUFFICES ASSUME Init PROVE GroupInv
  OBVIOUS
<1> USE ServeAssumption
<1>1. {"grpc"} \subseteq enabled /\ enabled \subseteq Servers
  <2>1. PICK o \in Options : enabled = {"grpc"} \cup o
    BY DEF Init
  <2> QED
    BY <2>1 DEF Servers
<1>2. GroupTypeOK
  BY <1>1 DEF Init, GroupTypeOK
<1>3. \A s \in Servers : srv[s] = "absent" /\ outcome[s] = "" /\ stopper[s] = "none"
  BY DEF Init
<1>4. "grpc" \in Servers
  BY DEF Servers
<1>5. CallInv
  BY <1>3, <1>4 DEF Init, CallInv
<1>6. StopInv
  BY <1>3 DEF Init, StopInv
<1>7. ExitInv
  BY <1>3, <1>4 DEF Init, ExitInv
<1> QED
  BY <1>2, <1>5, <1>6, <1>7 DEF GroupInv

\* A server's function may return res where Return is used in the model.
MayReturn(s, res) ==
    /\ Running /\ main = "wait" /\ srv[s] \notin {"absent", "returned"}
    /\ res = "ok" => stop /\ (s = "grpc" => stopper[s] = "done")
    /\ res = "stopped early" => /\ s = "grpc" /\ stop /\ srv[s] = "ready"
                                /\ stopper[s] \in {"stopping", "done"}

LEMMA ReturnStep ==
    ASSUME GroupInv, NEW s \in Servers, NEW res \in {"ok", "failed", "stopped early"},
           MayReturn(s, res), Return(s, res)
    PROVE  GroupInv'
<1> USE ServeAssumption DEF GroupInv
<1>1. /\ main = "wait" /\ "grpc" \in Servers
      /\ srv[s] \notin {"absent", "returned"}
      /\ srv' = [srv EXCEPT ![s] = "returned"]
      /\ outcome' = [outcome EXCEPT ![s] = res]
      /\ firstError' = IF res # "ok" /\ firstError = NoServer THEN s ELSE firstError
      /\ stop' = (stop \/ res # "ok")
      /\ UNCHANGED <<enabled, main, exitStatus, signal, stopper, call>>
  BY DEF Return, MayReturn, Servers
<1>2. GroupTypeOK'
  BY <1>1 DEF GroupTypeOK
<1>3. /\ srv'[s] = "returned" /\ outcome'[s] = res
      /\ \A t \in Servers : t # s => srv'[t] = srv[t] /\ outcome'[t] = outcome[t]
  BY <1>1 DEF GroupTypeOK
<1>4. CallInv'
  <2>1. CASE s = "grpc"
    BY <1>1, <1>3, <2>1 DEF CallInv, MayReturn
  <2>2. CASE s # "grpc"
    BY <1>1, <1>3, <2>2 DEF CallInv
  <2> QED
    BY <2>1, <2>2
<1>5. StopInv'
  <2>1. CASE res = "ok"
    <3>1. stop = TRUE /\ stop' = TRUE /\ firstError' = firstError
      BY <1>1, <2>1 DEF MayReturn, GroupTypeOK
    <3>2. firstError # s
      BY <1>1, <2>1 DEF StopInv, ExitInv
    <3>3. signal = "read" \/ firstError # NoServer
      BY <3>1 DEF StopInv
    <3>4. \A t \in Servers :
              /\ outcome'[t] \in {outcome[t], "ok"}
              /\ t = firstError => outcome'[t] = outcome[t]
      BY <1>3, <2>1, <3>2
    <3>5. firstError \in Servers \cup {NoServer}
      BY DEF GroupTypeOK
    <3> QED
      BY <1>1, <3>1, <3>3, <3>4, <3>5 DEF StopInv
  <2>2. CASE res # "ok" /\ firstError = NoServer
    BY <1>1, <1>3, <2>2 DEF StopInv, MayReturn, ExitInv
  <2>3. CASE res # "ok" /\ firstError # NoServer
    BY <1>1, <1>3, <2>3 DEF StopInv, MayReturn, ExitInv, GroupTypeOK
  <2> QED
    BY <2>1, <2>2, <2>3
<1>6. ExitInv'
  BY <1>1, <1>3 DEF ExitInv
<1> QED
  BY <1>2, <1>4, <1>5, <1>6

\* The steps that return from a server's function.
Returning(s) ==
    \/ ListenFails(s)
    \/ ServingFails(s)
    \/ HttpReturns(s) /\ s # "grpc"
    \/ HttpListen(s) /\ stopper[s] # "waiting" /\ s # "grpc"
    \/ s = "grpc" /\ GrpcReturns
    \/ s = "grpc" /\ GrpcServe /\ stopper[s] # "waiting"

LEMMA ReturningStep ==
    ASSUME GroupInv, NEW s \in Servers, Returning(s)
    PROVE  GroupInv'
<1> USE DEF GroupInv
<1>1. srv[s] \notin {"absent", "returned"} => main # "startup"
  BY DEF ExitInv
<1>2. stopper[s] \in {"none", "waiting", "stopping", "done"} /\ main \in {"startup", "wait", "exited"}
  BY DEF GroupTypeOK
<1>3. srv[s] \in {"ready", "serving"} /\ stopper[s] # "waiting" => stopper[s] \in {"stopping", "done"} /\ stop
  BY <1>2 DEF GroupTypeOK, StopInv
<1>4. CASE ListenFails(s)
  BY <1>1, <1>2, <1>4, ReturnStep DEF ListenFails, MayReturn, Running
<1>5. CASE ServingFails(s)
  BY <1>1, <1>2, <1>5, ReturnStep DEF ServingFails, MayReturn, Running
<1>6. CASE HttpReturns(s) /\ s # "grpc"
  BY <1>1, <1>2, <1>3, <1>6, ReturnStep DEF HttpReturns, MayReturn, Running
<1>7. CASE HttpListen(s) /\ stopper[s] # "waiting" /\ s # "grpc"
  <2>1. srv[s] = "start" /\ stopper[s] \in {"stopping", "done"} /\ stop
    BY <1>2, <1>7 DEF HttpListen, ExitInv, StopInv
  <2> QED
    BY <1>1, <1>2, <1>7, <2>1, ReturnStep DEF HttpListen, MayReturn, Running
<1>8. CASE s = "grpc" /\ GrpcReturns
  BY <1>1, <1>2, <1>3, <1>8, ReturnStep DEF GrpcReturns, MayReturn, Running
<1>9. CASE s = "grpc" /\ GrpcServe /\ stopper[s] # "waiting"
  BY <1>1, <1>2, <1>3, <1>9, ReturnStep DEF GrpcServe, MayReturn, Running
<1> QED
  BY <1>4, <1>5, <1>6, <1>7, <1>8, <1>9 DEF Returning

\* The steps before ServeDual waits, and the signal's.
LEMMA MainStep ==
    ASSUME GroupInv, StartupFails \/ ServeDual \/ Signal \/ ReadSignal \/ Exit
    PROVE  GroupInv'
<1> USE ServeAssumption DEF GroupInv
<1>0. "grpc" \in Servers /\ "grpc" \in enabled
  BY DEF GroupTypeOK, Servers
<1>1. CASE StartupFails
  BY <1>0, <1>1 DEF StartupFails, GroupTypeOK, CallInv, StopInv, ExitInv
<1>2. CASE ServeDual
  <2>1. /\ main = "startup" /\ main' = "wait" /\ \A s \in Servers : srv[s] = "absent"
        /\ UNCHANGED <<enabled, exitStatus, signal, stop, firstError, outcome, call>>
    BY <1>2 DEF ServeDual, ExitInv
  <2>2. /\ srv' = [s \in Servers |-> IF s \in enabled THEN "start" ELSE "absent"]
        /\ stopper' = [s \in Servers |-> IF s \in enabled \ {"grpc"} THEN "waiting" ELSE "none"]
    BY <1>2 DEF ServeDual
  <2>3. \A s \in Servers : outcome[s] = ""
    BY <2>1 DEF ExitInv, GroupTypeOK
  <2>4. GroupTypeOK'
    BY <2>1, <2>2 DEF GroupTypeOK
  <2>5. CallInv'
    BY <1>0, <2>1, <2>2, <2>3 DEF CallInv
  <2>6. StopInv'
    BY <2>1, <2>2 DEF StopInv
  <2>7. ExitInv'
    BY <2>1, <2>2, <2>3 DEF ExitInv
  <2> QED
    BY <2>4, <2>5, <2>6, <2>7
<1>3. CASE Signal
  BY <1>3 DEF Signal, GroupTypeOK, CallInv, StopInv, ExitInv
<1>4. CASE ReadSignal
  BY <1>4 DEF ReadSignal, Running, GroupTypeOK, CallInv, StopInv, ExitInv
<1>5. CASE Exit
  BY <1>0, <1>5 DEF Exit, GroupTypeOK, CallInv, StopInv, ExitInv
<1> QED
  BY <1>1, <1>2, <1>3, <1>4, <1>5

\* The steps of the servers, their stoppers and the calls that return from nothing.
LEMMA ServerStep ==
    ASSUME GroupInv,
           \/ GrpcListen
           \/ GrpcServe /\ stopper["grpc"] = "waiting"
           \/ \E s \in HttpServers : HttpListen(s) /\ stopper[s] = "waiting"
           \/ \E s \in Servers : BeginStop(s) \/ Stopped(s)
           \/ \E c \in Calls : OpenCall(c) \/ AnswerCall(c) \/ OpenStream(c) \/ EndStream(c)
    PROVE  GroupInv'
<1> USE DEF GroupInv
<1>0. "grpc" \in Servers /\ HttpServers \subseteq Servers /\ "grpc" \notin HttpServers
  BY DEF Servers, HttpServers
<1>1. CASE GrpcListen
  <2>1. GroupTypeOK'
    BY <1>0, <1>1 DEF GrpcListen, Running, GroupTypeOK
  <2>2. CallInv'
    <3>1. /\ srv["grpc"] = "start" /\ srv'["grpc"] = "ready" /\ stopper'["grpc"] = "waiting"
          /\ UNCHANGED <<outcome, call>>
      BY <1>0, <1>1 DEF GrpcListen, GroupTypeOK
    <3>2. outcome["grpc"] = ""
      BY <1>0, <3>1 DEF ExitInv
    <3> QED
      BY <3>1, <3>2 DEF CallInv
  <2>3. StopInv'
    BY <1>0, <1>1 DEF GrpcListen, Running, GroupTypeOK, StopInv
  <2>4. ExitInv'
    BY <1>0, <1>1 DEF GrpcListen, Running, GroupTypeOK, ExitInv
  <2> QED
    BY <2>1, <2>2, <2>3, <2>4
<1>2. CASE GrpcServe /\ stopper["grpc"] = "waiting"
  <2>1. GroupTypeOK'
    BY <1>0, <1>2 DEF GrpcServe, Running, GroupTypeOK
  <2>2. CallInv'
    BY <1>0, <1>2 DEF GrpcServe, Running, GroupTypeOK, CallInv
  <2>3. StopInv'
    BY <1>0, <1>2 DEF GrpcServe, Running, GroupTypeOK, StopInv
  <2>4. ExitInv'
    BY <1>0, <1>2 DEF GrpcServe, Running, GroupTypeOK, ExitInv
  <2> QED
    BY <2>1, <2>2, <2>3, <2>4
<1>3. ASSUME NEW s \in HttpServers, HttpListen(s), stopper[s] = "waiting" PROVE GroupInv'
  <2>1. GroupTypeOK'
    BY <1>0, <1>3 DEF HttpListen, Running, GroupTypeOK
  <2>2. CallInv'
    BY <1>0, <1>3 DEF HttpListen, Running, GroupTypeOK, CallInv
  <2>3. StopInv'
    BY <1>0, <1>3 DEF HttpListen, Running, GroupTypeOK, StopInv
  <2>4. ExitInv'
    BY <1>0, <1>3 DEF HttpListen, Running, GroupTypeOK, ExitInv
  <2> QED
    BY <2>1, <2>2, <2>3, <2>4
<1>4. ASSUME NEW s \in Servers, BeginStop(s) PROVE GroupInv'
  BY <1>0, <1>4 DEF BeginStop, Running, GroupTypeOK, CallInv, StopInv, ExitInv
<1>5. ASSUME NEW s \in Servers, Stopped(s) PROVE GroupInv'
  BY <1>0, <1>5 DEF Stopped, Running, GroupTypeOK, CallInv, StopInv, ExitInv
<1>6. ASSUME NEW c \in Calls, OpenCall(c) PROVE GroupInv'
  BY <1>0, <1>6 DEF OpenCall, Accepting, groupVars, Running, GroupTypeOK, CallInv, StopInv, ExitInv
<1>7. ASSUME NEW c \in Calls, AnswerCall(c) PROVE GroupInv'
  BY <1>0, <1>7 DEF AnswerCall, groupVars, Running, GroupTypeOK, CallInv, StopInv, ExitInv
<1>8. ASSUME NEW c \in Calls, OpenStream(c) PROVE GroupInv'
  BY <1>0, <1>8 DEF OpenStream, Accepting, groupVars, Running, GroupTypeOK, CallInv, StopInv, ExitInv
<1>9. ASSUME NEW c \in Calls, EndStream(c) PROVE GroupInv'
  BY <1>0, <1>9 DEF EndStream, groupVars, Running, GroupTypeOK, CallInv, StopInv, ExitInv
<1> QED
  BY <1>1, <1>2, <1>3, <1>4, <1>5, <1>6, <1>7, <1>8, <1>9

GroupUnchanged == UNCHANGED <<groupVars, call>>

LEMMA GroupUntouched == GroupInv /\ GroupUnchanged => GroupInv'
<1> SUFFICES ASSUME GroupInv, GroupUnchanged PROVE GroupInv'
  OBVIOUS
<1> USE DEF GroupUnchanged, groupVars, GroupInv
<1>1. GroupTypeOK'
  BY DEF GroupTypeOK
<1>2. CallInv'
  BY DEF CallInv
<1>3. StopInv'
  BY DEF StopInv
<1>4. ExitInv'
  BY DEF ExitInv
<1> QED
  BY <1>1, <1>2, <1>3, <1>4

LEMMA GroupNext ==
    ASSUME GroupInv, [Next]_vars
    PROVE  GroupInv'
<1>1. CASE Run
  <2>1. "grpc" \in Servers /\ HttpServers \subseteq Servers /\ "grpc" \notin HttpServers
    BY DEF Servers, HttpServers
  <2>2. CASE ServeDual \/ ReadSignal \/ Exit
    BY <2>2, MainStep
  <2>3. CASE GrpcListen \/ GrpcServe \/ GrpcReturns
    <3>1. CASE GrpcListen
      BY <3>1, ServerStep
    <3>2. CASE GrpcServe /\ stopper["grpc"] = "waiting"
      BY <3>2, ServerStep
    <3>3. CASE GrpcServe /\ stopper["grpc"] # "waiting"
      BY <2>1, <3>3, ReturningStep DEF Returning
    <3>4. CASE GrpcReturns
      BY <2>1, <3>4, ReturningStep DEF Returning
    <3> QED
      BY <2>3, <3>1, <3>2, <3>3, <3>4
  <2>4. ASSUME NEW s \in HttpServers, HttpListen(s) \/ HttpReturns(s) PROVE GroupInv'
    <3>1. CASE HttpListen(s) /\ stopper[s] = "waiting"
      BY <3>1, ServerStep
    <3>2. CASE ~ (HttpListen(s) /\ stopper[s] = "waiting")
      BY <2>1, <2>4, <3>2, ReturningStep DEF Returning
    <3> QED
      BY <3>1, <3>2
  <2>5. ASSUME NEW s \in Servers, BeginStop(s) \/ Stopped(s) PROVE GroupInv'
    BY <2>5, ServerStep
  <2> QED
    BY <1>1, <2>2, <2>3, <2>4, <2>5 DEF Run
<1>2. CASE Environment
  <2>1. CASE StartupFails \/ Signal
    BY <2>1, MainStep
  <2>2. CASE Time
    BY <2>2, GroupUntouched DEF Time, GroupUnchanged
  <2>3. ASSUME NEW s \in Servers, ListenFails(s) \/ ServingFails(s) PROVE GroupInv'
    BY <2>3, ReturningStep DEF Returning
  <2>4. ASSUME NEW c \in Calls, OpenCall(c) \/ OpenStream(c) \/ EndStream(c) PROVE GroupInv'
    BY <2>4, ServerStep
  <2>5. ASSUME NEW w \in Workers, NEW a \in IPs, ArriveHttp(w, a) PROVE GroupInv'
    BY <2>5, GroupUntouched DEF ArriveHttp, GroupUnchanged
  <2> QED
    BY <1>2, <2>1, <2>2, <2>3, <2>4, <2>5 DEF Environment
<1>3. ASSUME NEW c \in Calls, AnswerCall(c) PROVE GroupInv'
  BY <1>3, ServerStep
<1>4. ASSUME NEW w \in Workers, WorkHttp(w) PROVE GroupInv'
  BY <1>4, GroupUntouched DEF WorkHttp, GroupUnchanged
<1>5. CASE UNCHANGED vars
  BY <1>5, GroupUntouched DEF GroupUnchanged, vars
<1> QED
  BY <1>1, <1>2, <1>3, <1>4, <1>5 DEF Next

\* Every step of the process is a step of the rate limiter or leaves it alone.
LEMMA RateSteps == [Next]_vars => [RateNext]_limiterVars
<1> SUFFICES ASSUME [Next]_vars PROVE [RateNext]_limiterVars
  OBVIOUS
<1>1. CASE Run
  BY <1>1 DEF Run, ServeDual, ReadSignal, Exit, GrpcListen, GrpcServe, GrpcReturns, HttpListen,
              HttpReturns, BeginStop, Stopped, Return
<1>2. CASE Environment
  BY <1>2 DEF Environment, StartupFails, Signal, Time, ListenFails, ServingFails, OpenCall, OpenStream,
              EndStream, ArriveHttp, Return, RateNext
<1>3. ASSUME NEW c \in Calls, AnswerCall(c) PROVE [RateNext]_limiterVars
  BY <1>3 DEF AnswerCall
<1>4. ASSUME NEW w \in Workers, WorkHttp(w) PROVE [RateNext]_limiterVars
  BY <1>4 DEF WorkHttp, RateNext
<1>5. CASE UNCHANGED vars
  BY <1>5 DEF vars
<1> QED
  BY <1>1, <1>2, <1>3, <1>4, <1>5 DEF Next

IInv == RateInv /\ GroupInv

LEMMA Invariance == Spec => []IInv
<1>1. Init => IInv
  BY RateInitInv, GroupInit DEF Init, IInv
<1>2. IInv /\ [Next]_vars => IInv'
  BY RateNextInv, RateSteps, GroupNext DEF IInv
<1> QED
  BY <1>1, <1>2, PTL DEF Spec

-----------------------------------------------------------------------------
\* The theorems.

(* Every variable of the process and of its rate limiter keeps its type.   *)
THEOREM TypeCorrect == Spec => []TypeOK
<1>1. IInv => TypeOK
  BY TypeParts DEF IInv, RateInv, GroupInv
<1> QED
  BY <1>1, Invariance, PTL

(* An address whose first requests did not overlap is let through a burst  *)
(* and what time added, for any rate and burst.                            *)
THEOREM BurstHolds == Spec => []BurstUnlessRaced
<1>1. IInv => BurstUnlessRaced
  BY RateBounds DEF IInv
<1> QED
  BY <1>1, Invariance, PTL

(* Nobody is refused for what other addresses did.                         *)
THEOREM RefusalEarned == Spec => []RefusedOnlyWhenSpent
<1>1. IInv => RefusedOnlyWhenSpent
  BY DEF IInv, RateInv
<1> QED
  BY <1>1, Invariance, PTL

(* A limiter that is settled is never replaced.                            *)
THEOREM LimiterKept == Spec => LimiterForGood
<1>1. ASSUME RateInv, [RateNext]_limiterVars, NEW a \in IPs, Settled(a)
      PROVE  limiters'[a] = limiters[a] /\ Settled(a)'
  <2> USE DEF Settled, RateInv
  <2>1. ASSUME NEW w \in Workers, NEW b \in IPs, Arrive(w, b)
        PROVE  limiters'[a] = limiters[a] /\ Settled(a)'
    BY <1>1, <2>1 DEF Arrive, RateTypeOK
  <2>2. ASSUME NEW w \in Workers, GetLimiter(w)
        PROVE  limiters'[a] = limiters[a] /\ Settled(a)'
    BY <1>1, <2>2 DEF GetLimiter, RateTypeOK
  <2>3. ASSUME NEW w \in Workers, SetLimiter(w)
        PROVE  limiters'[a] = limiters[a] /\ Settled(a)'
    BY <1>1, <2>3 DEF SetLimiter, RateTypeOK
  <2>4. ASSUME NEW w \in Workers, Allow(w)
        PROVE  limiters'[a] = limiters[a] /\ Settled(a)'
    BY <1>1, <2>4 DEF Allow, RateTypeOK
  <2>5. ASSUME NEW w \in Workers, Handled(w)
        PROVE  limiters'[a] = limiters[a] /\ Settled(a)'
    BY <1>1, <2>5 DEF Handled, RateTypeOK
  <2>6. ASSUME Tick
        PROVE  limiters'[a] = limiters[a] /\ Settled(a)'
    BY <1>1, <2>6 DEF Tick
  <2>7. ASSUME UNCHANGED limiterVars
        PROVE  limiters'[a] = limiters[a] /\ Settled(a)'
    BY <1>1, <2>7 DEF limiterVars
  <2> QED
    BY <1>1, <2>1, <2>2, <2>3, <2>4, <2>5, <2>6, <2>7 DEF RateNext, Work
<1>2. IInv /\ [Next]_vars =>
          [\A a \in IPs : Settled(a) => limiters'[a] = limiters[a] /\ Settled(a)']_limiterVars
  BY <1>1, RateSteps DEF IInv
<1> QED
  BY <1>2, Invariance, PTL DEF Spec, LimiterForGood

(* No accepted Check goes unanswered, however the process is stopped,      *)
(* unless the gRPC server itself failed.                                   *)
THEOREM ChecksAnswered == Spec => []ChecksDrained
<1>1. ASSUME IInv, main = "exited", outcome["grpc"] # "failed", NEW c \in Calls
      PROVE  call[c] = "idle"
  <2>1. srv["grpc"] = "absent" \/ srv["grpc"] = "returned"
    BY <1>1 DEF IInv, GroupInv, ExitInv, GroupTypeOK
  <2>2. outcome["grpc"] \in {"", "ok", "stopped early"}
    BY <1>1 DEF IInv, GroupInv, GroupTypeOK, Servers
  <2> QED
    BY <1>1, <2>1, <2>2 DEF IInv, GroupInv, CallInv
<1>2. IInv => ChecksDrained
  BY <1>1 DEF ChecksDrained
<1> QED
  BY <1>2, Invariance, PTL

(* Success is reported for a stop by signal and for nothing else, and the  *)
(* error reported otherwise is the failure that began it.                  *)
THEOREM ExitExplained == Spec => []ExitTellsWhy
<1>1. ASSUME IInv, main = "exited", srv["grpc"] # "absent"
      PROVE  /\ exitStatus = "ok" => signal = "read" /\ \A s \in enabled : outcome[s] = "ok"
             /\ exitStatus = "error" =>
                    \/ Failed # {}
                    \/ signal = "read" /\ outcome["grpc"] = "stopped early"
             /\ exitStatus = "error" /\ signal # "read" => firstError \in Failed
  <2> USE DEF IInv, GroupInv
  <2>1. /\ \A s \in enabled : srv[s] = "returned" /\ s \in Servers
        /\ "grpc" \in enabled
        /\ exitStatus = IF firstError = NoServer THEN "ok" ELSE "error"
    BY <1>1 DEF ExitInv, GroupTypeOK
  <2>2. CASE firstError = NoServer
    <3>1. \A s \in enabled : outcome[s] = "ok"
      BY <1>1, <2>1, <2>2 DEF StopInv, ExitInv
    <3>2. signal = "read"
      BY <1>1, <2>1, <2>2, <3>1 DEF StopInv
    <3> QED
      BY <2>1, <2>2, <3>1, <3>2
  <2>3. CASE firstError # NoServer
    <3>1. firstError \in Servers
      BY <1>1, <2>3 DEF GroupTypeOK
    <3> QED
      BY <1>1, <2>1, <2>3, <3>1 DEF StopInv, Failed
  <2> QED
    BY <2>2, <2>3
<1>2. IInv => ExitTellsWhy
  BY <1>1 DEF ExitTellsWhy
<1> QED
  BY <1>2, Invariance, PTL
=============================================================================
