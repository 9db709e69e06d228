------------------------------- MODULE Captcha -------------------------------
(***************************************************************************)
(* CAPTCHA challenges and sessions (captcha/captcha.go) with the two       *)
(* places that drive them: bouncer.checkCaptcha, which hands a visitor a   *)
(* challenge, and server.handleCaptchaVerify, which trades a solved one    *)
(* for a session cookie.                                                   *)
(*                                                                         *)
(* Both tokens are signed and kept by the browser; the service remembers   *)
(* only which challenges it may still accept (challengeCache) and a gauge  *)
(* of how many.  A verification asks the CAPTCHA provider over the network *)
(* between reading that cache and deleting from it, with no lock held; the *)
(* gauge is moved before or after the cache, in a step of its own.         *)
(*                                                                         *)
(* A token is what its claims say: signatures are never wrong, because a   *)
(* browser here presents only what the service gave it or a page it was    *)
(* sent to.  A session's claims are an id and an expiry; the challenge it  *)
(* was granted for and the address it was granted to are kept beside them  *)
(* as history.  A request that is let through on its cookie, one that is   *)
(* refused and a challenge page that is shown change nothing here and are  *)
(* not steps.                                                              *)
(***************************************************************************)
EXTENDS Integers, Sequences, FiniteSets

CONSTANTS
    Clients,            \* browsers
    IPs,                \* their addresses, as ExtractRealIP finds them
    Workers,            \* goroutines in handleCaptchaVerify
    ChallengeDuration, RequestTimeout, SessionDuration,
    ReplayModes,        \* the settings of replay protection considered
    CleanupRuns,        \* whether somebody called StartCleanup
    Faults,             \* "restart" of the process, "lost" replies, "roam": a browser changes address
    MaxTime,            \* bound on the clock
    MaxChallenges,      \* bound on the challenges issued
    MaxGrants           \* bound: a challenge is not posted again after so many grants

ASSUME DurationAssumption ==
    /\ ChallengeDuration \in Nat /\ RequestTimeout \in Nat /\ SessionDuration \in Nat
    /\ MaxTime \in Nat /\ MaxChallenges \in Nat /\ MaxGrants \in Nat
ASSUME SwitchAssumption ==
    /\ ReplayModes \subseteq BOOLEAN /\ CleanupRuns \in BOOLEAN
    /\ Faults \subseteq {"restart", "lost", "roam"}

VARIABLES
    ReplayProtection,   \* ~ DisableChallengeReplayProtection, never changed
    now,
    at,       \* the address of each browser
    jar,      \* the session cookie of each browser, NoSession if none
    issued,   \* the challenges ever issued, a challenge's id being its place
    stored,   \* the ids in challengeCache
    pending,  \* the captcha_pending_challenges gauge
    uncounted,\* the ids put into the cache and not yet counted by the gauge
    swept,    \* the id the cleanup has counted out and is about to delete, 0 if none
    pc,       \* "idle", "provider" (waiting for Provider.Verify), "deleted", "solved"
    req,      \* the request a worker is serving
    granted,  \* history: how many sessions were granted for each challenge
    missed    \* history: how many solved challenges were gone already when deleted

cache  == <<issued, stored, pending, uncounted, swept, missed>>
workers == <<pc, req, granted>>
vars == <<ReplayProtection, now, at, jar, cache, workers>>

NoSession == [chal |-> 0]
NoRequest == [chal |-> 0]

Ids == 1 .. Len(issued)

Init ==
    /\ ReplayProtection \in ReplayModes
    /\ now = 0
    /\ at \in [Clients -> IPs]
    /\ jar = [c \in Clients |-> NoSession]
    /\ issued = <<>> /\ stored = {} /\ pending = 0
    /\ uncounted = {} /\ swept = 0 /\ missed = 0
    /\ pc = [w \in Workers |-> "idle"] /\ req = [w \in Workers |-> NoRequest]
    /\ granted = [i \in 1 .. MaxChallenges |-> 0]

-----------------------------------------------------------------------------
\* Time, browsers and the process itself (external).

(* Provider.Verify is cancelled RequestTimeout after it was called.  What   *)
(* follows its answer waits for nobody, and takes no time on this clock.   *)
Tick ==
    /\ now < MaxTime
    /\ \A w \in Workers :
           pc[w] # "idle" => pc[w] = "provider" /\ now < req[w].start + RequestTimeout
    /\ now' = now + 1
    /\ UNCHANGED <<ReplayProtection, at, jar, cache, workers>>

Roam(c) ==
    /\ "roam" \in Faults
    /\ \E a \in IPs \ {at[c]} : at' = [at EXCEPT ![c] = a]
    /\ UNCHANGED <<ReplayProtection, now, jar, cache, workers>>

\* The process dies and comes back: its memory is gone, the browsers' tokens are not.
Restart ==
    /\ "restart" \in Faults /\ (stored # {} \/ \E w \in Workers : pc[w] # "idle")
    /\ stored' = {} /\ pending' = 0 /\ uncounted' = {} /\ swept' = 0 /\ missed' = 0
    /\ pc' = [w \in Workers |-> "idle"] /\ req' = [w \in Workers |-> NoRequest]
    /\ UNCHANGED <<ReplayProtection, now, at, jar, issued, granted>>

-----------------------------------------------------------------------------
\* A challenge is in nobody's hands before CreateSession, gauge and all, is done.
HandedOut == Ids \ uncounted

(* The cookie of a request: the session, if the browser has one, or a      *)
(* challenge token put in its place.                                       *)
Cookies(c) == {jar[c]} \cup {issued[i] : i \in HandedOut}

(* VerifySessionToken looks at signature and expiry, of any token signed   *)
(* with the key: an unexpired challenge passes for a session.              *)
VerifySessionToken(t) == t # NoSession /\ now < t.exp

RequiresCaptcha(t) == ~ VerifySessionToken(t)

\* Mutant of CreateSession: the challenge is stored without replay protection too.
CreateSessionAlwaysStored(c) ==
    /\ swept = 0 /\ Len(issued) < MaxChallenges
    /\ \E t \in Cookies(c) : RequiresCaptcha(t)
    /\ issued' = Append(issued, [ip |-> at[c], exp |-> now + ChallengeDuration])
    /\ stored' = stored \cup {Len(issued) + 1}
    /\ uncounted' = uncounted \cup {Len(issued) + 1}
    /\ UNCHANGED <<ReplayProtection, now, at, jar, pending, swept, missed, workers>>

(* checkCaptcha for a browser with a captcha decision: no session, so a    *)
(* challenge is signed and stored, unless the cleanup holds the cache.     *)
CreateSession(c) ==
    /\ swept = 0 /\ Len(issued) < MaxChallenges
    /\ \E t \in Cookies(c) : RequiresCaptcha(t)
    /\ issued' = Append(issued, [ip |-> at[c], exp |-> now + ChallengeDuration])
    /\ IF ReplayProtection
       THEN /\ stored' = stored \cup {Len(issued) + 1}
            /\ uncounted' = uncounted \cup {Len(issued) + 1}
       ELSE UNCHANGED <<stored, uncounted>>
    /\ UNCHANGED <<ReplayProtection, now, at, jar, pending, swept, missed, workers>>

\* The rest of CreateSession: the gauge goes up and the browser is redirected.
IncPending(i) ==
    /\ i \in uncounted
    /\ pending' = pending + 1 /\ uncounted' = uncounted \ {i}
    /\ UNCHANGED <<ReplayProtection, now, at, jar, issued, stored, swept, missed, workers>>

\* Mutant of CheckChallengeToken: the expiry claim is not looked at.
CheckChallengeTokenUndated(i) == issued[i].exp >= 0

CheckChallengeToken(i) == now < issued[i].exp

\* Mutant of VerifyIPHash: any known address will do.
VerifyIPHashAny(i, ip) == ip \in IPs

VerifyIPHash(i, ip) == issued[i].ip = ip

\* Mutant of VerifyResponse: the cache of unspent challenges is not consulted.
VerifyResponseUnchecked(w, c, i) ==
    /\ swept = 0 /\ pc[w] = "idle" /\ granted[i] < MaxGrants
    /\ CheckChallengeToken(i)
    /\ VerifyIPHash(i, at[c])
    /\ pc' = [pc EXCEPT ![w] = "provider"]
    /\ req' = [req EXCEPT ![w] = [chal |-> i, client |-> c, ip |-> at[c], start |-> now,
                              fresh |-> granted[i] = 0]]
    /\ UNCHANGED <<ReplayProtection, now, at, jar, cache, granted>>

(* The first half of a verification a browser posts for a challenge, its   *)
(* own or one whose link it was given: the token and the cache are         *)
(* checked, then the provider is asked.  fresh is history: no session had  *)
(* been granted for the challenge yet.                                     *)
VerifyResponse(w, c, i) ==
    /\ swept = 0 /\ pc[w] = "idle" /\ granted[i] < MaxGrants
    /\ CheckChallengeToken(i)
    /\ VerifyIPHash(i, at[c])
    /\ ReplayProtection => i \in stored
    /\ pc' = [pc EXCEPT ![w] = "provider"]
    /\ req' = [req EXCEPT ![w] = [chal |-> i, client |-> c, ip |-> at[c], start |-> now,
                              fresh |-> granted[i] = 0]]
    /\ UNCHANGED <<ReplayProtection, now, at, jar, cache, granted>>

\* The provider says no, fails or does not answer in time: the challenge stays.
ProviderRefuses(w) ==
    /\ pc[w] = "provider"
    /\ pc' = [pc EXCEPT ![w] = "idle"] /\ req' = [req EXCEPT ![w] = NoRequest]
    /\ UNCHANGED <<ReplayProtection, now, at, jar, cache, granted>>

\* Mutant of ProviderAccepts: the solved challenge is not deleted.
ProviderAcceptsKeeps(w) ==
    /\ pc[w] = "provider"
    /\ pc' = [pc EXCEPT ![w] = "solved"]
    /\ UNCHANGED <<ReplayProtection, now, at, jar, cache, req, granted>>

\* Mutant of ProviderAccepts: the gauge is left alone.
ProviderAcceptsUncounted(w) ==
    /\ swept = 0 /\ pc[w] = "provider"
    /\ stored' = stored \ {req[w].chal}
    /\ missed' = IF ReplayProtection /\ req[w].chal \notin stored THEN missed + 1 ELSE missed
    /\ pc' = [pc EXCEPT ![w] = "solved"]
    /\ UNCHANGED <<ReplayProtection, now, at, jar, issued, pending, uncounted, swept,
                   req, granted>>

(* The provider says yes: with replay protection the challenge is deleted, *)
(* whether or not it is still there.                                       *)
ProviderAccepts(w) ==
    /\ swept = 0 /\ pc[w] = "provider"
    /\ IF ReplayProtection
       THEN /\ stored' = stored \ {req[w].chal}
            /\ missed' = IF req[w].chal \in stored THEN missed ELSE missed + 1
            /\ pc' = [pc EXCEPT ![w] = "deleted"]
       ELSE /\ pc' = [pc EXCEPT ![w] = "solved"]
            /\ UNCHANGED <<stored, missed>>
    /\ UNCHANGED <<ReplayProtection, now, at, jar, issued, pending, uncounted, swept,
                   req, granted>>

\* Then the gauge goes down.
DecPending(w) ==
    /\ pc[w] = "deleted"
    /\ pending' = pending - 1
    /\ pc' = [pc EXCEPT ![w] = "solved"]
    /\ UNCHANGED <<ReplayProtection, now, at, jar, issued, stored, uncounted, swept, missed,
                   req, granted>>

Session(r) == [chal |-> r.chal, ip |-> r.ip, exp |-> now + SessionDuration]

\* Then a session is signed; the reply with the cookie may not reach the browser.
Grant(w) ==
    /\ pc[w] = "solved"
    /\ \/ jar' = [jar EXCEPT ![req[w].client] = Session(req[w])]
       \/ "lost" \in Faults /\ UNCHANGED jar
    /\ granted' = [granted EXCEPT ![req[w].chal] = @ + 1]
    /\ pc' = [pc EXCEPT ![w] = "idle"] /\ req' = [req EXCEPT ![w] = NoRequest]
    /\ UNCHANGED <<ReplayProtection, now, at, cache>>

\* Mutant of SweepCounts: an expired challenge is not taken off the gauge.
SweepCountsNothing(i) ==
    /\ CleanupRuns /\ swept = 0
    /\ i \in stored /\ issued[i].exp < now
    /\ swept' = i
    /\ UNCHANGED <<ReplayProtection, now, at, jar, issued, stored, pending, uncounted, missed,
                   workers>>

(* The cache's cleanup goroutine finds a challenge expired: its callback   *)
(* takes it off the gauge while the goroutine holds the cache's lock.      *)
SweepCounts(i) ==
    /\ CleanupRuns /\ swept = 0
    /\ i \in stored /\ issued[i].exp < now
    /\ pending' = pending - 1 /\ swept' = i
    /\ UNCHANGED <<ReplayProtection, now, at, jar, issued, stored, uncounted, missed, workers>>

(* Then the challenge is deleted.  The lock is given up here after every   *)
(* challenge, in the code after the last: this allows more, not less.      *)
SweepDeletes ==
    /\ swept # 0
    /\ stored' = stored \ {swept} /\ swept' = 0
    /\ UNCHANGED <<ReplayProtection, now, at, jar, issued, pending, uncounted, missed, workers>>

-----------------------------------------------------------------------------
Cleanup == SweepDeletes \/ \E i \in Ids : SweepCounts(i)

Worker(w) == ProviderRefuses(w) \/ ProviderAccepts(w) \/ DecPending(w) \/ Grant(w)

Next ==
    \/ Tick \/ Restart \/ Cleanup
    \/ \E c \in Clients : Roam(c) \/ CreateSession(c)
    \/ \E i \in Ids : IncPending(i)
    \/ \E w \in Workers, c \in Clients : \E i \in HandedOut : VerifyResponse(w, c, i)
    \/ \E w \in Workers : Worker(w)

Spec == Init /\ [][Next]_vars

(* The clock runs, requests are served to their end, and every provider    *)
(* call returns, by its timeout if not before.  The cleanup goroutine is   *)
(* scheduled if somebody started it (CleanupRuns), which serve does not.   *)
Fairness ==
    /\ WF_vars(Tick) /\ WF_vars(Cleanup)
    /\ \A i \in 1 .. MaxChallenges : WF_vars(i \in Ids /\ IncPending(i))
    /\ \A w \in Workers : WF_vars(Worker(w))

FairSpec == Spec /\ Fairness

-----------------------------------------------------------------------------
\* Properties.

Challenges == [ip : IPs, exp : Nat]
Sessions   == [chal : Nat, ip : IPs, exp : Nat]
Requests   == [chal : Nat, client : Clients, ip : IPs, start : Nat, fresh : BOOLEAN]

(* Every variable holds values of its kind; what is stored, and what a     *)
(* worker is verifying, was issued; with replay protection off nothing is  *)
(* ever stored or counted.                                                 *)
TypeOK ==
    /\ ReplayProtection \in BOOLEAN /\ now \in Nat
    /\ at \in [Clients -> IPs] /\ jar \in [Clients -> Sessions \cup {NoSession}]
    /\ issued \in Seq(Challenges)
    /\ stored \subseteq Ids /\ uncounted \subseteq Ids /\ swept \in stored \cup {0}
    /\ pending \in Int /\ missed \in Nat
    /\ ~ ReplayProtection => stored = {} /\ uncounted = {} /\ pending = 0 /\ missed = 0
    /\ pc \in [Workers -> {"idle", "provider", "solved"}
                              \cup (IF ReplayProtection THEN {"deleted"} ELSE {})]
    /\ req \in [Workers -> Requests \cup {NoRequest}]
    /\ \A w \in Workers : pc[w] # "idle" => req[w] \in Requests /\ req[w].chal \in Ids
    /\ granted \in [1 .. MaxChallenges -> Nat]

(* With replay protection, a verification that gets as far as the provider *)
(* was begun before any session had been granted for its challenge: once a *)
(* grant is complete the challenge is spent for every later request, in    *)
(* this process and after a restart (VerifyResponse).                      *)
SpentForLater ==
    ReplayProtection => \A w \in Workers : pc[w] = "provider" => req[w].fresh

(* A session was granted to the address its challenge was issued to,       *)
(* whoever's link the browser followed and wherever it moved meanwhile     *)
(* (VerifyIPHash).                                                         *)
GrantedToHolder ==
    \A c \in Clients : jar[c] # NoSession => jar[c].ip = issued[jar[c].chal].ip

(* However late the provider answers, no session outlives its challenge's  *)
(* issue by more than the three configured durations together.             *)
GrantBounded ==
    \A c \in Clients : jar[c] # NoSession =>
        jar[c].exp < issued[jar[c].chal].exp + RequestTimeout + SessionDuration

(* "By default, challenge tokens are single-use" (config/config.go:63).    *)
SingleUse == ReplayProtection => \A i \in Ids : granted[i] <= 1

\* The workers that have deleted a challenge and not yet taken it off the gauge.
Deleting == {w \in Workers : pc[w] = "deleted"}

(* The gauge of challenges awaiting verification (docs/METRICS.md:42) is   *)
(* moved apart from the cache, with no lock over both, by requests and by  *)
(* the cleanup.  It differs from the number of challenges the service      *)
(* would still accept by those under way between the two, and for good     *)
(* only downwards, by one for every solved challenge that another          *)
(* verification or the cleanup had removed already (VerifyResponse).       *)
PendingAccounted ==
    pending + Cardinality(uncounted) + missed + (IF swept = 0 THEN 0 ELSE 1)
        = Cardinality(stored) + Cardinality(Deleting)

(* A challenge that expires before it is solved leaves the cache in the    *)
(* end: docs/METRICS.md:43 counts "Challenge tokens that expired before    *)
(* verification", and the cleanup counts what it removes.                  *)
ExpiredForgotten ==
    \A i \in 1 .. MaxChallenges :
        (i \in stored /\ issued[i].exp < now) ~> (i \notin stored)

(* The tickets of ChallengeDesk are challenges with their addresses.       *)
(* Without replay protection all are taken: expiry is left to the clock.   *)
Ticket(i) == [chal |-> i, ip |-> issued[i].ip]
AllTickets  == {Ticket(i) : i \in Ids}
OpenTickets == {Ticket(i) : i \in IF ReplayProtection THEN stored ELSE Ids}

Claims == [w \in Workers |-> IF pc[w] = "idle" THEN NoRequest
                             ELSE [chal |-> req[w].chal, ip |-> req[w].ip]]

Held == [c \in Clients |-> IF jar[c] = NoSession THEN NoSession
                           ELSE [chal |-> jar[c].chal, ip |-> jar[c].ip]]

Desk == INSTANCE ChallengeDesk
        WITH Visitors <- Clients, Addresses <- IPs, Numbers <- 1 .. MaxChallenges,
             Clerks <- Workers, protected <- ReplayProtection, issued <- AllTickets,
             open <- OpenTickets, claims <- Claims, held <- Held

(* A challenge is a ticket: it buys sessions for its own address only, and *)
(* with replay protection once bought or forgotten it is taken from nobody,*)
(* although it is looked up and deleted at different times, memory is lost *)
(* in restarts, and replies are lost (VerifyResponse).                     *)
ImplementsDesk == Desk!Spec
=============================================================================
