# Verification of the Envoy Proxy CrowdSec bouncer

TLA+ models of the bouncer in `src/`, the TLC runs that check them on small
instances, and TLAPS proofs, for every instance, of the prefix index, the decision
cache, the CAPTCHA service, the request pipeline, the webhook, the usage metrics, the rate
limiter and the life of the process.

| module | models | checked by | proved in |
|---|---|---|---|
| `CidrIndex` | `buildIndex`, `cidrPrefix`, `lookup` of `decisions/cache.go`, as pure operators | `CidrLookup`, and through `DecisionCache` | `CidrIndexProofs` |
| `CidrLookup` | the index against a reference definition, over every cache content | run `cidr_lookup` | `CidrLookupProofs` |
| `DecisionService` | what the cache promises its callers (abstract) | refined by `DecisionCache` | |
| `DecisionCache` | `Sync`, `GetDecision`, the LAPI stream, `updateHealthStatus` | runs `cache_*` | `DecisionCacheProofs` |
| `ChallengeDesk` | what the CAPTCHA service promises (abstract) | refined by `Captcha` | |
| `Captcha` | `captcha/captcha.go` and the handlers that drive it | runs `captcha_*` | `CaptchaProofs` |
| `ClientAddress` | `ExtractRealIP` and the exempt list of `bouncer/bouncer.go`, as pure operators | through `CheckRequest` | |
| `WafRouting` | routing by host of `waf/waf.go`, `WAF.Validate`, as pure operators | through `CheckRequest` | |
| `CheckRequest` | `Server.Check`, `Bouncer.Check`, `ParseCheckRequest`, `WAF.Inspect` | run `check_request` | `CheckRequestProofs` |
| `Metrics` | `pkg/crowdsec/metrics.go` | runs `metrics`, `metrics_race` | `MetricsProofs` |
| `EventFeed` | what webhook delivery promises (abstract) | refined by `Webhook` | |
| `Webhook` | `webhook/webhook.go` | run `webhook` | `WebhookProofs` |
| `RateLimiter` | `server/ratelimit.go` and its middleware | through `Serve` | `ServeProofs` |
| `Serve` | `cmd/serve.go`, `ServeDual` and what it starts | run `serve` | `ServeProofs` |
| `MC...` | constants for TLC | | |

Run a check with `tlc -config X.cfg M`, a proof with `tlapm M.tla`.

## The system

Envoy sends every request to the bouncer (gRPC external authorization) and does
what the answer says.  The bouncer decides from four things, asked in this order:
a list of exempt addresses, the decisions that CrowdSec's local API (LAPI) has
streamed into a cache, the AppSec component (WAF), and a CAPTCHA.

| component | state | operations | works with |
|---|---|---|---|
| Decision cache, `decisions/cache.go` | map from value to decision, index of CIDR prefixes, known origins, size gauges, ready flag | `Sync` (one goroutine) applies streamed batches; `GetDecision` (every request) looks an address up | LAPI through a channel; request pipeline; health reporting |
| CAPTCHA service, `captcha/` | unspent challenges, pending gauge; challenge and session tokens live in the browser | `CreateSession`, `VerifyResponse`, `RequiresCaptcha`, cleanup | pipeline, HTTP endpoints, the provider over HTTP |
| Request pipeline, `bouncer/bouncer.go`, `server/server.go` | none of its own between requests | `ParseCheckRequest`, `Check` | all of the above; metrics, webhook |
| WAF client, `waf/waf.go` | routes | `Inspect` | AppSec over HTTP |
| Health reporting, `server/server.go` | readiness status | a ticker that stops once the cache is ready | decision cache |
| Usage metrics, `pkg/crowdsec/` | counters per label set | `Inc`, periodic send and reset | pipeline, LAPI |
| Webhook notifier, `webhook/` | bounded event channel, subscriptions | `Notify*` (requests) enqueue or drop; one goroutine delivers | pipeline, CAPTCHA endpoint, subscribers over HTTP |
| Rate limiter, `server/ratelimit.go` | a limiter per address | `Allow` from the middleware; nothing removes a limiter | HTTP endpoints |
| Lifecycle, `cmd/serve.go` | errgroup, signal context | start, graceful stop | everything |

`PROJECT.json` lists every component with its status, and the hazards with the
line where each bites.

What is hard here, and what makes each part correct:

- *Decision cache.*  Three kinds of goroutines and no common lock.  `Sync`
  changes the map one entry at a time, publishes the index later and only if
  the batch touched a range; a lookup reads the map first and the index later,
  with any number of those steps in between.  It is correct if no lookup misses
  a decision that was in force all along, none answers with one that was lifted
  before it began, and between batches map, index and gauges are exactly what
  the LAPI said.
- *Prefix index.*  IPv4-mapped addresses, masks, skipped host prefixes, two
  spellings of one prefix: the lookup must still return the most specific range.
- *CAPTCHA.*  Tokens outlive the process that issued them; the replay cache is
  read before a network call and written after it.  A solved challenge must buy
  one session, for the address it was issued to, of bounded length.
- *Usage metrics.*  Neither a count nor a report is atomic.  Correct would be
  that every request is reported once; what holds is less (see Findings).
- *Webhook.*  Requests must never wait for a subscriber.  What is not dropped
  must reach each of its subscribers at most once, in order, and one subscriber
  that is down must not keep it from the others.
- *Pipeline.*  The address a request is judged by must not be the client's to
  choose.  Seven ways out of one function.  A ban must win over everything,
  an AppSec failure must not open the door unless `failOpen` says so, and each
  request must be counted once under the action Envoy is given.  A denial must
  carry a status that Envoy reads as one.
- *Rate limiter.*  The map is read and written in two steps.  What may go wrong
  is that overlapping first requests get a burst each; what may not is that an
  address is refused because of another, or ever gets a fresh bucket again.
- *Lifecycle.*  Three servers, a goroutine that stops each, a signal handler,
  and an errgroup that keeps the first error.  Whatever begins the stop, the
  process must go down as a whole, answer the Checks it has accepted, and tell
  by its exit status why it ended.  Streams are its clients' to end.

## Modules and code

### CidrIndex

Addresses are numbers of `V4Bits` or `V6Bits` bits tagged with their family; the
IPv4-mapped block of IPv6 is the one whose high bits are `MappedHigh`.  What a
string parses to is part of the string: an address, a CIDR, `Blank` (empty),
`Junk` (unparsable) or `Nil` (a nil pointer).  `CidrPrefix` masks first and
tests `Is4In6` afterwards, as the code does, so the branch that rejects a mapped
prefix shorter than 96 bits is never taken: masking has already cleared the
mapped marker.  `buildIndex` returns the *set* of tables the loop can build,
because two values that mask to one prefix overwrite each other in the order of
a Go map.  A host-length range (/32, /128) is not indexed and, the map being
keyed by the CIDR string, not found at all; the tests of the repository expect
this.  So is a decision under another spelling of the address: the map compares
strings.

### CidrLookup

The pure part of `GetDecision` on a still cache.  The reference
(`MostSpecificWins`) knows nothing of masks or tables: a decision is a block of
consecutive addresses, and the answer has to be the exact entry or a smallest
block around the address.

### DecisionCache

| TLA+ | code |
|---|---|
| `Decide`, `End`, `LapiDown`, `LapiRecovers` | the LAPI (external) |
| `Pull`, `PullNil`, `Close` | `StreamBouncer.Run` and its unbuffered channel (external): one batch waits in `stream` |
| `Receive`, `ReceiveNil`, `Return` | the `select` at the head of `Sync` |
| `DeleteOne`, `AddOne` | one iteration of each loop, each a locked map operation |
| `PublishCounts` | `GetOriginCounts` and the gauges |
| `StoreIndex` | `buildIndex` and the atomic store, if `cidrChanged` |
| `Complete` | the first-batch flag and the connected gauge |
| `HealthTick` | a tick of `updateHealthStatus` |
| `Lookup`, `GetExact`, `GetIndexed`, `LookupNothing` | `GetDecision`, with its two reads as two steps |

`buildIndex` iterates over a map that only `Sync` itself writes, and
`GetOriginCounts` counts one, so both are one step.  `view`, `before`, `must` and
`may` are history: the LAPI's decisions as of the current and the previous
batch, and what a lookup under way has to find and may find.  A decision never
becomes active twice, which bounds the behaviours without any counter.

`OneDecisionPerValue` is an assumption about the LAPI, which deduplicates what
it streams: at most one decision in force per value.  `Sync` deletes by value,
and without the assumption the map loses entries (run `cache_shared_value`).

`DecisionService` is what callers may rely on, without map, index, stream or
program counter: whole lists arrive, the old and the new one hold side by side
until the new one has taken over, and an answer is one that could have been read
from the lists that held while it was asked for.  `DecisionCache` implements it:
`Receive` is `Arrives`, `Complete` is `TakesOver`, `Lookup` is `Ask`, the read
that ends `GetDecision` is `Answer`, and everything between is hidden.

### Captcha

A challenge is its claims (address, expiry), kept in `issued`; `stored` is the
`challengeCache`, `pending` the gauge.  `VerifyResponse` is the part of the
function before `Provider.Verify`, `ProviderRefuses` or `ProviderAccepts` (the
delete), `DecPending` (the gauge) and `Grant` (the session) the part after it:
other goroutines, the cleanup and a restart run in between.  `CreateSession` puts
a challenge into the cache and `IncPending` counts it; before that it is in
nobody's hands.  The cleanup counts an expired challenge out (`SweepCounts`) and
deletes it (`SweepDeletes`), and nobody reaches the cache meanwhile; the code
holds the lock for all expired challenges, the model gives it up after each.
What follows the provider's answer takes no time on the model's clock.
Signatures are not modelled: browsers present only tokens the service gave out,
but they may present one another's links.  Whether replay protection is on is
chosen at the start of a behaviour.  `Restart` empties the memory of the
process; the browsers keep their tokens.

`ChallengeDesk` is the same without tokens, clock and memory: a challenge is a
ticket for one address, taken in by a clerk and granted or rejected later.  With
replay protection a ticket that has bought a session, or was forgotten, is never
taken again; those already taken may still be served.  `Grant` is `Grant`;
`ProviderAccepts`, `SweepDeletes` and `Restart` are `Forget`, so that a restart
between the delete and the grant leaves a ticket spent for nothing; the gauge, the
clock and browsers that move are hidden.

### ClientAddress, WafRouting and CheckRequest

A request arrives raw: socket address, the three headers an address may come
from, host, kind of path, cookie, and a header of the name in which AppSec is
told the address, which a client may send too.  `ParseCheckRequest` turns it
into the record the stages work on; then exempt list, decision, WAF, CAPTCHA and
the answer to Envoy are a step each.  `ClientAddress` models header texts as
spellings that parse or do not, and prefixes as the set of plain addresses
inside them; entries are looked up after `Unmap`.  In `WafRouting` a host is a
sequence of labels with a flag for upper case, with a port or without.
`newWAF` and `WAF.Validate` restrict the configurations: the process does not
start with routes that name a host twice.

What the components answer is chosen by the step that asks them; the
configuration is chosen at the start.  `recorded`, `usage` and `notified` are
what the Prometheus counter, the usage metrics and the webhook were given;
`status` is the HTTP status of the answer, and `Denied` what Envoy makes of it.
Without templates (`serve` goes on when they cannot be loaded) `templateStore` is
a nil pointer inside an interface that is not nil: rendering the page for a ban
panics and the process crashes, which is a step to "crashed".  The
pipeline keeps nothing between requests, so requests do not interfere and one at
a time is enough.  Prometheus counters other than `requests_total` are
write-only and left out.

### Metrics

| TLA+ | code |
|---|---|
| `IncGet`, `IncSet` | the two locked calls inside `Inc` |
| `SnapshotKeys`, `SnapshotGet`, `SnapshotDone` | `GetSnapshot` inside `Calculate` |
| `SendAccepted`, `SendFails` | `Send`, where "lost" is a report that arrived and whose answer did not |
| `ResetDelete`, `ResetDone` | `Reset`, whose listing of keys is part of `SendAccepted` |
| `Stop` | the `ctx.Done()` branch of `Run` |

A metric without an entry has the value 0.  `raced` is history: the metrics of
which some `Inc` overlapped another `Inc`, or the window between a report's read
of the metric and its deletion.  The number of active decisions, which `Sync`
sets in the same map (`SetLevel`), is a level and not a count: what matters is
whether the LAPI is `told` of the value set last, and `missed` says that it was
set in the window of a report.

### Webhook and EventFeed

An event is its type and the order of its notification.  `enqueue` is the
`select` with a default; `Receive`, `send` and `Return` are the steps of the
goroutine in `Start`, a step per URL.  A post that fails or times out may or may
not have arrived.  `EventFeed` keeps one queue per subscriber where the code
keeps one channel and a loop variable: the refinement maps `waiting[u]` to the
event in hand, if `u` is still among its URLs, and the events in the channel that
`u` subscribes to.  The feed may drop an event only if `Capacity` others still
wait.  `subs` is the rest of the loop, as positions in the configuration's list
of subscriptions.

### RateLimiter and Serve

| TLA+ | code |
|---|---|
| `Arrive`, `ArriveHttp` | a request of some address at the HTTP server |
| `GetLimiter`, `SetLimiter` | `getLimiter`: the read of the map, and the write if the address is new |
| `Allow`, `Handled` | the middleware's decision, and the handler behind it |
| `Tick` | time, to `x/time/rate` (external) |
| `ServeDual`, `ListenFails`, `ServingFails`, `GrpcListen`, `GrpcServe`, `GrpcReturns`, `HttpListen`, `HttpReturns` | the functions in the errgroup |
| `BeginStop`, `Stopped` | the goroutine that waits for the group's context and calls `GracefulStop` or `Shutdown` |
| `Return`, `Exit` | what errgroup does with a result; `g.Wait` and the end of `RunE` |
| `Signal`, `ReadSignal` | SIGINT or SIGTERM and the goroutine that cancels the context |
| `OpenCall`, `AnswerCall` | a Check under way |
| `OpenStream`, `EndStream` | a health `Watch` or a reflection stream (both services are registered on the same server), which its client ends |

A limiter is named by the worker that made it: since nothing is removed from the
map, a worker makes at most one for each address.  `grpc.Server`, `http.Server`
and errgroup are external: `Serve` fails if `GracefulStop` came first, returns
after it otherwise; `ListenAndServe` returns when `Shutdown` begins.

## Runs

| run | question |
|---|---|
| `cidr_lookup` | Is the index a longest-prefix match? |
| `cache_lookup` | A batch ends one decision and begins another on the same address, or nested ranges that share a prefix, with a lookup at every step: is any decision missed, resurrected or forgotten, and do callers see the abstract service? |
| `cache_live` | Under fairness, through outages, nil batches and decisions without value, does every decision come into force and end, and does the service become ready? |
| `cache_shared_value` | violated: two decisions with one value |
| `captcha_concurrent` | Overlapping verifications, restarts, lost replies, roaming browsers: what are a challenge and a session good for, does the service implement the desk, and by what can the pending gauge be wrong?  The cleanup, which `serve` does not start, may or may not come in between. |
| `captcha_race` | violated: single use, when two verifications overlap |
| `captcha_no_cleanup` | violated: expired challenges, as `serve` wires the service |
| `check_request` | Every configuration and every answer: whose request it is, bans, failures, inspection, counting, an answer in the end. |
| `serve` | Servers fail to start, fail while serving or are stopped by a signal, with rate-limited requests, Checks and streams under way: does the process go down as a whole, and exit if no stream stays open, and is anybody let through twice or refused for nothing? |
| `webhook` | Does the channel with its delivery loop implement the feed, in order and at most once, and does every event taken get offered? |
| `metrics` | In which cases only can counts and the level go wrong, and is everything reported? |
| `metrics_race` | violated: every completed `Inc` counts |

Bounds, and why they are enough:

- *Widths.*  Two-bit IPv4 inside three-bit IPv6 has every prefix length from
  none to all, a mapped block with an inside and an outside, and masks that lose
  bits; `cidr_lookup` uses one and three bits so that it can try every pair of
  decisions.  The proofs hold for all widths.
- *Decisions.*  Two or three, chosen so that they collide: same value in
  sequence, nested ranges, one prefix spelled twice.  A property relates a
  lookup to one decision, and disturbing it takes one or two more.
- *Scenarios.*  `cache_lookup` is bounded by a constraint (`Scenarios` in
  `MCDecisionCache`): the decisions about an address, or those about ranges, in
  one behaviour, not both.  `serve` is bounded by `TwoScenarios`: HTTP traffic of
  two requests from two addresses while the servers serve, or servers that
  start, fail and stop with at most one request.  A constraint cuts the
  successors of a state outside it, so `StopsAltogether` is meaningful only if
  the servers' own steps stay inside; they do: `Quiet` speaks of HTTP traffic and
  of how many calls are open, which no step of a server changes, and `Serving`
  does not hold any more once anything has begun to stop.
  The proofs know no constraint.
- *Readers.*  One: readers write nothing, so a second cannot disturb the first.
  The proofs hold for any number.
- *Captcha.*  Two browsers, addresses, workers and challenges, each being what
  the races need.  `MaxTime`, `MaxChallenges` and `MaxGrants` bound the clock,
  the challenges issued and how often one may be granted before it is no longer
  posted; with durations of one tick a clock of three has expired challenges,
  expired sessions and answers that come after expiry.  Without replay
  protection, when challenges have nothing to do with one another, only one is
  issued (`OneUnprotected`).  The clock ends, so behaviours do: deadlock is not checked in these
  runs.
- *Requests.*  `MaxForwarded` is 2 for the code's 20, with header lists of up to
  three entries, so that entries are cut; four spellings of addresses, one each
  that is exempt, a client, a trusted proxy and a mapped trusted proxy.  Headers
  vary or host, path and cookie do, not both; missing templates and a ban
  without a status are tried with one setting of the unrelated switches.
- *Serve.*  Two workers, two addresses, a burst of 1 for the code's 20, one token
  from time: enough for two first requests to overlap, for a third to be
  refused, and for a used-up bucket to be refilled.  Two gRPC calls, each a Check
  or a stream; one of them in behaviours with an HTTP request.  The process ends, so deadlock is not checked.
- *Metrics.*  Two goroutines, two metrics, two counts each; one lost answer.
  The proof holds for any number of each.  `Run` may be stopped, so deadlock is
  not checked, nor in `webhook`, where the service may be stopped and the
  notifications are bounded.
- *Webhook.*  A channel of two, four events and three overlapping subscriptions
  to two URLs: full, empty and dropped all occur.

Every property of a passing run has a mutant, an operator beside the definition
it changes (a dropped flag, a missing delete, a swapped order), under which TLC
finds the property violated.

### Fairness

- `cache_live`: weak fairness of `Sync` and of the health ticker (the scheduler
  runs them); weak fairness of `LapiRecovers` (outages end) and strong fairness
  of `Pull` (the ticker in `Run` keeps pulling, and not every pull falls into an
  outage).  No decision, lookup, outage, nil answer or stop is ever owed.
- `captcha_no_cleanup`: the clock runs, requests are served to their end, and a
  provider call returns, by its timeout if not before.  The cleanup would be
  scheduled if it had been started; in this run, as in the program, it is not.
  `captcha_concurrent` and `captcha_race` assume no fairness.
- `check_request`: a request being evaluated goes on, because each component
  answers or its client times out.
- `serve`: weak fairness of the goroutines of the group, the signal handler and
  the main goroutine together (`Run`), and of the answer to a Check: everything
  Check waits for has a timeout.  The end of a stream is not owed: `GracefulStop`
  has no deadline, so `StopsAltogether` promises the exit only if no stream stays
  open for good, and otherwise that nothing but the gRPC server's wait for its
  calls is left.  `Stopped` for an HTTP server needs no more, as
  `Shutdown` has a deadline of five seconds.  Signals, faults, requests and the
  handlers' progress are never owed.
- `webhook`: weak fairness of the delivery goroutine; a post returns, by its
  timeout if not before.
- `metrics`: weak fairness of `Run` and of an `Inc` that has begun, and strong
  fairness of `SendAccepted`: not every report fails.

## Findings

- *Deleted by value* (`cache_shared_value`).  `Sync` removes the map entry for a
  deleted decision's value, whichever decision it holds.  If the LAPI holds a
  ban and a captcha on one address, the end of one removes the other.
- *Single use* (`captcha_race`).  Two verifications of one challenge that
  overlap in the provider call are both granted a session.  Both also decrement
  the pending gauge, which then undercounts and can fall below zero;
  `PendingAccounted` says that, but for what is under way between the gauge and
  the cache, this is the only way in which it errs.
- *Cleanup is never started* (`captcha_no_cleanup`).  Only tests call
  `StartCleanup`; challenges that nobody solves stay in memory.
- *Counts are lost* (`metrics_race`).  `Inc` is a read and a write, `Reset`
  deletes what was counted since the snapshot.  `ExactUnlessRaced` says, and
  `MetricsProofs` proves, that without such an overlap every count is reported
  exactly, but for a report whose answer was lost, which is told twice.

Of what the models show and no document contradicts:

- With `showDeniedPage` on, its default, and templates that cannot be loaded, the
  first ban ends the process (`EveryRequestAnswered` has to exempt this case).
- A level that `Sync` sets while a report is under way is deleted with the counts
  and told only after the next batch (`LevelToldUnlessMissed`).
- Overlapping first requests of one address are worth a burst each
  (`BurstUnlessRaced`).
- A signal before the gRPC server serves ends the process with status 1
  (`ExitTellsWhy`).  If the gRPC server itself fails nobody waits for its calls
  (`ChecksDrained`).  HTTP requests in flight may be cut off, since
  `ListenAndServe` returns while `Shutdown` still waits.  A second signal is
  ignored.
- A client that keeps a health `Watch` or a reflection stream open keeps the
  process from exiting after a signal: `GracefulStop` waits for it without a
  deadline (`StopsAltogether` has to except this case; `server.go:112-120`).

Also seen while reading, not checked by a run: `lapi_stream_connected` is set
with the first batch and lowered only when `Sync` returns, although
`docs/METRICS.md:23` lets it follow the stream (`cache.go:288`); challenges are
bound to an address, sessions are not, although `docs/CAPTCHA.md:39` says so of
both (`captcha.go:237`); `VerifySessionToken` does not look at what kind of token
it is given, so an unexpired challenge token sent as the cookie passes for a
session (`captcha.go:118`; `Cookies` has the case, and a request let through is no
step of `Captcha`); a request with a captcha decision is answered by the
CAPTCHA stage alone, so with a valid session (or CAPTCHA disabled) the WAF is
not asked (`bouncer.go:419`); the query string is kept in `URL.Path` and escaped
by `URL.String` (`bouncer.go:704`); the `"error"` label of
`captcha_verifications_total` is unreachable (`server.go:231`).

## Proofs

### The prefix index

`CidrIndexProofs` proves, for all widths and strings, that what the code does with
prefixes means what a reader expects of address ranges.  `Block(s)` is the set of
addresses a CIDR string spells, all that agree with it in the leading bits, and
`Meaning(d)` what a decision on it is about.

- *Powers of two.*  No backend knows 2^n.  That it is a natural number, and that
  2^(m+n) is their product, come from `FS_SUBSET` (a set of n elements has 2^n
  subsets): the laws are facts about counting subsets.
- *Blocks.*  Masking keeps the block, a block is an interval (`BlockIs`), and its
  size is 2 to the bits left (`BlockSize`).
- *Mapped addresses.*  `MappedIsLong`: a block inside the IPv4-mapped one has at
  least the prefix length at which the code starts subtracting; the assumption
  that `MappedHigh` is odd, as 0xffff is, is what makes it true.
- `CoversMeaning`: the test the index rests on, a prefix containing an unmapped
  address, is membership in `Meaning`; `LongerIsNarrower`: of two that contain an
  address the longer prefix is about fewer.
- `OrderDecidesLittle`: in whatever order the loop of `buildIndex` meets the map,
  a lookup answers from the same prefix; the order chooses only among decisions
  that mask to it.

A table that `buildIndex` can return holds exactly the prefixes of its decisions,
and a `lookup` in it returns a match of greatest length; existence of the longest
match is by well-founded induction on the distance to the full width, since the
operators choose from a set and recursion is not used.  With these,
`CidrLookupProofs` proves `MostSpecificWins` for every cache content
(`MostSpecificAnswer`).

### The decision cache

`DecisionCacheProofs` proves, for every set of decisions, origins, readers and
addresses, all widths and all faults:

| theorem | assumes | says |
|---|---|---|
| `TypeCorrect` | | `Spec => []TypeOK` |
| `NothingForeignHolds` | | map and index hold only what the last two batches reported |
| `LookupSoundHolds` | | no lookup answers with what was lifted before it began |
| `NothingLeftOver` | | between batches nothing that ended is left, and the gauges are exact |
| `UnsharedPromiseHolds`, `UnsharedLookupHolds` | | a decision that shares its value with none is held and found, whatever others do |
| `RangeNeverMissed` | | the same of an address in a range, in terms of `Meaning` and not of prefixes |
| `PromiseHolds`, `InSyncHolds`, `EveryValueHeldHolds` | `OneDecisionPerValue` | nothing is missing: in the middle of a batch, and between batches |
| `LookupCompleteHolds` | `OneDecisionPerValue` | no lookup misses a decision in force all along |
| `Implements` | `OneDecisionPerValue` | `Spec` implements `DecisionService` |

The division is what `cache_shared_value` shows on one behaviour.  Decisions that
share a value can make one another disappear, and nothing else: no decision
outlives its end because of it, no gauge is wrong, and no third decision is
missed.  `EveryValueHeldHolds` is the very property that run refutes, under the
assumption the run drops.

The `ASSUME`s of `CidrIndex` and `DecisionCache` apply throughout, and TLC
evaluates them in each run: widths are natural numbers, `MappedHigh` is odd and
fits, decisions and client addresses are finite sets, `Nil` is not a client
address.

None of these is inductive by itself: that the map is exact between batches
depends on where in the batch each decision has been handled, and on what the
batch was computed from.  The invariant `IInv` adds

- `LapiInv`: what is reported, what has gone since, and, if assumed, that at most
  one active decision has a value;
- `StreamInv`: the batch waiting in the channel turns `view` into what was
  reported, so deletions are of decisions in `view` and additions are not;
- `SyncInv`: what `toDelete` and `toAdd` may still hold at each program point;
- `MapInv`: the map holds besides what `view` has only what is still to be deleted,
  each under its own value; and it holds every decision of `view` that is not
  still to be added and is `Alone` on its value: no other decision has that
  value, or `OneDecisionPerValue` is assumed;
- `IndexInv`: the index agrees with the map unless a rebuild is due, and holds
  the prefixes of what was in force before the batch and still is;
- `GaugesInv`: every origin in the map is known, and once published the gauges
  are exact;
- `ReaderInv`: `must` is within what is promised, and `may` includes every view
  that a lookup under way has overlapped; one that is about to read the index
  has not missed an exact entry it had to find.

The proof has a lemma per action.  `LookupComplete` needs the two reads to be
related: an address missed in the map is covered by a range of `must` only if
that range is in the index now, because the index always holds what both views
promise.  `Implements` maps each action: most are hidden
(`HiddenStep`), `ReceiveArrives`, `CompleteTakesOver`, `LookupAsks` and
`AnswerCloses` are the abstract steps, and that an answer is a legal one is
soundness and completeness of the lookup again.

### The other components

`CaptchaProofs` proves `TypeOK`, the four safety invariants and the refinement, for
any browsers, addresses, workers, durations and bounds.  The invariant adds what
tokens that have left the process still say: a cookie agrees with the challenge
it was granted for (`JarInv`), a verification under way began before its
challenge expired and within the provider's timeout (`WorkerInv`), and with
replay protection what is stored or being verified has bought nothing from an
earlier request, and what is solved is stored no more (`SpentInv`).
`PendingAccounted` is a ledger: each step moves one of the cache and the gauge and
puts the difference on the account of what is under way, or of what was missed
(`missed`, the deletes that found nothing).  The finiteness of its sets is part of
the invariant.  `PendingAtRest` reads the ledger when nothing is under way.
`Implements` maps a stored challenge to an open ticket, a worker serving a
verification to a claim and a cookie to the ticket it was bought with, and shows
that `Captcha` implements `ChallengeDesk`.

The documented single use fails only by overlap, and two theorems say how far.
`OverlapBoundsGrants`: with replay protection a challenge buys at most as many
sessions as there are workers.  Its invariant (`OverlapInv`) is that the sessions a
challenge has bought and the verifications of it under way are together no more than the workers; `SpentInv` adds that nobody starts a
verification of one that has bought a session.  `SingleUseInTurn`: with one worker the property that
`captcha_race` refutes holds.

`CheckRequestProofs` proves every property of `CheckRequest` but liveness, for any
addresses, proxies, routes, hosts, requests and configurations that `newWAF`
accepts.  `IInv` has three parts: `RequestInv` (what parsing yields),
`CountInv` (nothing is counted before Check returns, one action after, with a
status that is not 0 if it denies) and `AskedInv` (who has been asked at each
point, and what must hold of the answers for the request to pass).
`NamedIsInspected` rests on `NamesMatch`: lower-casing a pattern and a host and
cutting the port keeps what a pattern names.  `ClientNeverForged` rests on
`AppendedIsLast`: the entry the outermost trusted proxy appended is the greatest
of those that are looked at.  `EmptyText` assumes that the empty string is a
string, which the provers do not know of a literal.

Two more theorems state promises that no single stage keeps and no run lists.
`ExemptAlwaysPasses`: an exempt address passes and nobody is asked about it.
`CaptchaNotSkipped`: with the CAPTCHA on, a request for which the decision cache
or AppSec demands one passes only with a session the service found valid,
whatever `failOpen` says.  Their invariant is `GateInv`, on top of `IInv`.

`WebhookProofs` proves `TypeOK`, `InOrderOnce` and that `Webhook` implements
`EventFeed`, for any subscriptions and capacity.  The invariant orders everything
by the events' numbers: what has arrived before the event in hand (`ArrivedInv`),
that before the channel (`DispatchInv`), and the channel in itself (`ChannelInv`).
Then an enqueue is `Take`, or `Drop` when the channel is full: every event in it
is a different one and waits for somebody (`ChannelWaits`), so the feed is full
too, and nothing is dropped while there is room.  A receive is hidden, and a post
is an `Offer` of the oldest event waiting for that subscriber.

`ServeProofs` proves the safety properties of `RateLimiter` and `Serve`, for any
number of requests, addresses, calls and servers.  For the limiter: a bucket
is in the map or on its way there, and what it has lost of its burst was let
through (`LimiterInv`); if only one was made for an address it has lost all that
was let through, but for what time added (`SpentInv`).  For the process
(`GroupInv`): when calls may be open, why the context is done, whose error is
kept, and what every server's state says of its stopper.  The two parts share
no variable, so each action is proved against one and leaves the other alone.

`MetricsProofs` proves `TypeOK`, `ExactUnlessRaced` and `LevelToldUnlessMissed` of
`Metrics`.  The invariant says of a metric that has not raced: at most one `Inc`
is under way and will write one more than the cache holds, and from the moment a
report has read the metric until it is deleted the report agrees with the cache;
and of the level (`LevelInv`) that in the window of a report the report holds it,
or the LAPI has been told, or it was set in a window.  `EveryIncCountsUnlessRaced`
turns the finding of `metrics_race` round: as long as no `Inc` has overlapped
another or a report, every completed one counts.

### Out of reach

Model-checked only: liveness (`EventuallyEnforced`, `EventuallyLifted`,
`EventuallyServing`, `EveryRequestAnswered`, `EventuallyOffered`, `EventuallyReported`), which the prover does not reach.  Every safety property of a passing run has a theorem.

## Not modelled

- The Prometheus wrappers, logging, the command line and the Helm chart change no
  state that a property could be about.  `bounce` asks the LAPI once per address
  and prints the answer.
- How viper reads the configuration, the HTML templates, CORS, the attributes of
  the cookie, the parsing of cookies and URLs and the payload of a webhook are
  data; where a setting matters it is a constant or a field of a configuration.
- Signatures, JWT encoding and HTTP are abstracted: a token is its claims, a call
  is its possible outcomes.
- The providers' HTTP exchange is one answer within the timeout.
- `Metrics.Dec` and `Cache.Cleanup` exist and nothing calls them.
- The no-op cache and CAPTCHA appear as configurations of `CheckRequest`; that the
  no-op cache is always ready is not modelled.

## Plan

What is left, in order of weight:

1. Compositions: `CheckRequest` with the decision cache and the CAPTCHA in place of
   arbitrary answers, through `DecisionService`, so that a ban the LAPI reports
   is shown to reach Envoy.
2. Runs for the divergences listed last under Findings: the connected gauge in an
   outage, sessions used from another address.
