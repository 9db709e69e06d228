----------------------------- MODULE RateLimiter -----------------------------
(***************************************************************************)
(* The rate limiter in front of the CAPTCHA endpoints (server/ratelimit.go *)
(* and rateLimitMiddleware): a token bucket for every client address, in a *)
(* map that is read and written in two separate steps.                     *)
(*                                                                         *)
(* A limiter is created by a request that finds none for its address; it   *)
(* is named by that request's worker, who creates at most one for each     *)
(* address, because nothing is ever removed from the map.                  *)
(***************************************************************************)
EXTENDS Naturals

CONSTANTS
    Workers,   \* request goroutines of the HTTP server
    NoWorker,  \* no limiter
    IPs,       \* client addresses
    NoIP,      \* no request
    Burst,     \* tokens of a full bucket: 20
    MaxTicks   \* bound: how many tokens time adds to a bucket

ASSUME LimiterAssumption ==
    /\ NoWorker \notin Workers /\ NoIP \notin IPs
    /\ Burst \in Nat \ {0} /\ MaxTicks \in Nat

VARIABLES
    rpc,       \* "idle", "get", "set", "allow", "handle"
    from,      \* the address of each worker's request
    limiters,  \* the map: for each address the limiter stored, by its creator
    created,   \* for each address the limiters created
    held,      \* each worker's local variable limiter
    tokens,    \* the tokens left in each limiter of each address
    ticks,     \* how often time added a token
    allowed,   \* history: requests of each address that were let through
    refused    \* history: addresses of which a request was refused

limiterVars == <<rpc, from, limiters, created, held, tokens, ticks, allowed, refused>>

RateInit ==
    /\ rpc = [w \in Workers |-> "idle"]
    /\ from = [w \in Workers |-> NoIP]
    /\ limiters = [a \in IPs |-> NoWorker]
    /\ created = [a \in IPs |-> {}]
    /\ held = [w \in Workers |-> NoWorker]
    /\ tokens = [a \in IPs |-> [w \in Workers |-> 0]]
    /\ ticks = 0
    /\ allowed = [a \in IPs |-> 0] /\ refused = {}

\* A request of address a reaches rateLimitMiddleware.
Arrive(w, a) ==
    /\ rpc[w] = "idle"
    /\ rpc' = [rpc EXCEPT ![w] = "get"]
    /\ from' = [from EXCEPT ![w] = a]
    /\ UNCHANGED <<limiters, created, held, tokens, ticks, allowed, refused>>

\* Mutant of GetLimiter: a new bucket is empty.
GetLimiterEmpty(w) ==
    /\ rpc[w] = "get"
    /\ IF limiters[from[w]] # NoWorker
       THEN /\ held' = [held EXCEPT ![w] = limiters[from[w]]]
            /\ rpc' = [rpc EXCEPT ![w] = "allow"]
            /\ UNCHANGED <<created, tokens>>
       ELSE /\ held' = [held EXCEPT ![w] = w]
            /\ created' = [created EXCEPT ![from[w]] = @ \cup {w}]
            /\ tokens' = [tokens EXCEPT ![from[w]][w] = 0]
            /\ rpc' = [rpc EXCEPT ![w] = "set"]
    /\ UNCHANGED <<from, limiters, ticks, allowed, refused>>

\* Mutant of GetLimiter: a limiter is made for every request.
GetLimiterFresh(w) ==
    /\ rpc[w] = "get"
    /\ held' = [held EXCEPT ![w] = w]
    /\ created' = [created EXCEPT ![from[w]] = @ \cup {w}]
    /\ tokens' = [tokens EXCEPT ![from[w]][w] = Burst]
    /\ rpc' = [rpc EXCEPT ![w] = "set"]
    /\ UNCHANGED <<from, limiters, ticks, allowed, refused>>

\* getLimiter reads the map and, if the address is new, makes a full bucket.
GetLimiter(w) ==
    /\ rpc[w] = "get"
    /\ IF limiters[from[w]] # NoWorker
       THEN /\ held' = [held EXCEPT ![w] = limiters[from[w]]]
            /\ rpc' = [rpc EXCEPT ![w] = "allow"]
            /\ UNCHANGED <<created, tokens>>
       ELSE /\ held' = [held EXCEPT ![w] = w]
            /\ created' = [created EXCEPT ![from[w]] = @ \cup {w}]
            /\ tokens' = [tokens EXCEPT ![from[w]][w] = Burst]
            /\ rpc' = [rpc EXCEPT ![w] = "set"]
    /\ UNCHANGED <<from, limiters, ticks, allowed, refused>>

\* getLimiter stores the limiter it made, over another one if need be.
SetLimiter(w) ==
    /\ rpc[w] = "set"
    /\ limiters' = [limiters EXCEPT ![from[w]] = held[w]]
    /\ rpc' = [rpc EXCEPT ![w] = "allow"]
    /\ UNCHANGED <<from, created, held, tokens, ticks, allowed, refused>>

\* Allow takes a token, or refuses the request: 429, and the worker is free.
Allow(w) ==
    /\ rpc[w] = "allow"
    /\ IF tokens[from[w]][held[w]] > 0
       THEN /\ tokens' = [tokens EXCEPT ![from[w]][held[w]] = @ - 1]
            /\ allowed' = [allowed EXCEPT ![from[w]] = @ + 1]
            /\ rpc' = [rpc EXCEPT ![w] = "handle"]
            /\ UNCHANGED <<from, refused>>
       ELSE /\ refused' = refused \cup {from[w]}
            /\ rpc' = [rpc EXCEPT ![w] = "idle"]
            /\ from' = [from EXCEPT ![w] = NoIP]
            /\ UNCHANGED <<tokens, allowed>>
    /\ held' = [held EXCEPT ![w] = NoWorker]
    /\ UNCHANGED <<limiters, created, ticks>>

\* The handler behind the middleware returns.
Handled(w) ==
    /\ rpc[w] = "handle"
    /\ rpc' = [rpc EXCEPT ![w] = "idle"]
    /\ from' = [from EXCEPT ![w] = NoIP]
    /\ UNCHANGED <<limiters, created, held, tokens, ticks, allowed, refused>>

\* Time passes: every bucket that is not full gains a token (external).
Tick ==
    /\ ticks < MaxTicks
    /\ ticks' = ticks + 1
    /\ tokens' = [a \in IPs |-> [w \in Workers |->
                     IF w \in created[a] /\ tokens[a][w] < Burst THEN tokens[a][w] + 1
                     ELSE tokens[a][w]]]
    /\ UNCHANGED <<rpc, from, limiters, created, held, allowed, refused>>

\* What a request's goroutine does once it has arrived.
Work(w) == GetLimiter(w) \/ SetLimiter(w) \/ Allow(w) \/ Handled(w)

RateNext == Tick \/ \E w \in Workers : Work(w) \/ \E a \in IPs : Arrive(w, a)

RateSpec == RateInit /\ [][RateNext]_limiterVars

-----------------------------------------------------------------------------
\* Properties.

RateTypeOK ==
    /\ rpc \in [Workers -> {"idle", "get", "set", "allow", "handle"}]
    /\ from \in [Workers -> IPs \cup {NoIP}] /\ \A w \in Workers : rpc[w] # "idle" => from[w] \in IPs
    /\ limiters \in [IPs -> Workers \cup {NoWorker}]
    /\ created \in [IPs -> SUBSET Workers]
    /\ held \in [Workers -> Workers \cup {NoWorker}]
    /\ tokens \in [IPs -> [Workers -> 0 .. Burst]]
    /\ ticks \in 0 .. MaxTicks
    /\ allowed \in [IPs -> Nat] /\ refused \subseteq IPs

(* An address is let through at most a burst and what time added, counted  *)
(* over all its requests, unless two of its first requests overlapped and  *)
(* each made a limiter: then each of them is worth a burst (getLimiter).   *)
BurstUnlessRaced ==
    \A a \in IPs, w \in Workers : created[a] \subseteq {w} => allowed[a] <= Burst + ticks

(* A request is refused only after a full burst of its own address: what   *)
(* other addresses use up, and a limiter replaced by another, never counts *)
(* against it (rateLimitMiddleware).                                       *)
RefusedOnlyWhenSpent == \A a \in refused : allowed[a] >= Burst

\* The address has a limiter, and nobody has read the map before and is yet to write it.
Settled(a) == limiters[a] # NoWorker /\ \A w \in Workers : from[w] = a => rpc[w] # "set"

(* Once the first requests of an address are past getLimiter, its limiter  *)
(* is the same for good: a bucket that is used up is never exchanged for a *)
(* full one, however the requests that follow overlap.                     *)
LimiterForGood ==
    [][\A a \in IPs : Settled(a) => limiters'[a] = limiters[a] /\ Settled(a)']_limiterVars
=============================================================================
