---------------------------- MODULE DecisionCache ----------------------------
(***************************************************************************)
(* The decision cache (decisions/cache.go) between the CrowdSec local API, *)
(* which streams decisions into it, and the requests that look addresses   *)
(* up in it, with the readiness it reports (server.updateHealthStatus).    *)
(*                                                                         *)
(* Three kinds of processes share the cache without a common lock: the     *)
(* stream bouncer's Run goroutine, which pulls from the LAPI and hands     *)
(* batches over an unbuffered channel; the Sync goroutine, which applies a *)
(* batch one map operation at a time; and the request goroutines in        *)
(* GetDecision, which read the map first and the index later.              *)
(*                                                                         *)
(* A decision that has ended never returns, so behaviours need no bound    *)
(* but the size of Decisions.                                              *)
(***************************************************************************)
EXTENDS CidrIndex

CONSTANTS
    Origins,             \* origins a decision may carry
    NoOrigin,            \* a nil Origin
    Readers,             \* request goroutines
    ClientIPs,           \* the address strings requests are looked up under
    OneDecisionPerValue, \* whether the LAPI holds at most one active decision per value
    Faults               \* what may go wrong: "outage" of the LAPI, "nil" answers, "stop" of the stream

ASSUME OriginAssumption ==
    NoOrigin \notin Origins /\ \A d \in Decisions : d.origin \in Origins \cup {NoOrigin}
ASSUME ClientAssumption == ClientIPs \subseteq Strings \ {Nil} /\ IsFiniteSet(ClientIPs)
ASSUME UniqueAssumption == OneDecisionPerValue \in BOOLEAN
ASSUME FaultAssumption == Faults \subseteq {"outage", "nil", "stop"}

VARIABLES
    \* The LAPI and the stream bouncer's Run goroutine (external).
    life,        \* each decision is "future", "active" or "ended" at the LAPI
    lapiUp,      \* whether a pull would succeed
    reported,    \* decisions active at the last pull
    gone,        \* decisions that ended since the last pull
    stream,      \* what Run is blocked sending, NoBatch if nothing
    \* The Sync goroutine and its locals.
    syncPc,      \* "select", "deleted", "new", "publish", "index", "complete", "returned"
    toDelete,    \* entries of d.Deleted not yet handled
    toAdd,       \* entries of d.New not yet handled
    cidrChanged,
    ctxDone,     \* the context given to Sync is cancelled
    \* The Cache struct and what it publishes.
    decisions,   \* the map, NoDecision where it has no entry
    cidrs,       \* the published index
    knownOrigins,
    cacheSize,   \* the decision_cache_size gauge of each origin
    syncComplete,
    connected,   \* the lapi_stream_connected gauge
    readiness,   \* the readiness health status
    \* Request goroutines.
    pc,          \* "idle", "get" (about to read the map), "load" (about to read the index)
    ip,          \* the address being looked up, Blank when idle
    result,      \* what the last call returned
    \* History, read by no step of the program.
    view,        \* the LAPI's decisions as of the batch last received
    before,      \* as of the batch before it while it is being applied, else view
    must,        \* decisions in every view a lookup under way has overlapped
    may          \* decisions in some view a lookup under way has overlapped

lapiVars   == <<life, lapiUp, reported, gone>>
batchVars  == <<toDelete, toAdd, cidrChanged>>
cacheVars  == <<decisions, cidrs, knownOrigins, cacheSize>>
statusVars == <<syncComplete, connected, readiness>>
readerVars == <<pc, ip, result, must, may>>
viewVars   == <<view, before>>
syncVars   == <<syncPc, batchVars, cacheVars, statusVars, viewVars>>
vars == <<lapiVars, stream, ctxDone, syncVars, readerVars>>

NoBatch  == [kind |-> "none"]
NilBatch == [kind |-> "nil"]
Closed   == [kind |-> "closed"]
Batch(deleted, new, active) ==
    [kind |-> "batch", deleted |-> deleted, new |-> new, active |-> active]
Batches == [kind : {"batch"}, deleted : SUBSET Decisions, new : SUBSET Decisions,
            active : SUBSET Decisions]

Keys == {d.value : d \in Decisions} \cup ClientIPs

GetError == [kind |-> "error"]   \* GetDecision's error for an empty address

Cached == {decisions[k] : k \in Keys} \ {NoDecision}

Active == {d \in Decisions : life[d] = "active"}

Init ==
    /\ life = [d \in Decisions |-> "future"]
    /\ lapiUp = TRUE
    /\ reported = {} /\ gone = {} /\ stream = NoBatch
    /\ syncPc = "select" /\ toDelete = {} /\ toAdd = {} /\ cidrChanged = FALSE
    /\ ctxDone = FALSE
    /\ decisions = [k \in Keys |-> NoDecision]
    /\ cidrs = EmptyTable
    /\ knownOrigins = {} /\ cacheSize = [o \in Origins |-> 0]
    /\ syncComplete = FALSE /\ connected = FALSE /\ readiness = "NOT_SERVING"
    /\ pc = [r \in Readers |-> "idle"]
    /\ ip = [r \in Readers |-> Blank]
    /\ result = [r \in Readers |-> NoDecision]
    /\ view = {} /\ before = {}
    /\ must = [r \in Readers |-> {}] /\ may = [r \in Readers |-> {}]

-----------------------------------------------------------------------------
\* The LAPI and the stream bouncer (external).

\* A decision is added at the LAPI.
Decide(d) ==
    /\ life[d] = "future"
    /\ OneDecisionPerValue => \A e \in Active : e.value # d.value
    /\ life' = [life EXCEPT ![d] = "active"]
    /\ UNCHANGED <<lapiUp, reported, gone, stream, ctxDone, syncVars, readerVars>>

\* A decision expires or is deleted at the LAPI.
End(d) ==
    /\ life[d] = "active"
    /\ life' = [life EXCEPT ![d] = "ended"]
    /\ gone' = gone \cup {d}
    /\ UNCHANGED <<lapiUp, reported, stream, ctxDone, syncVars, readerVars>>

LapiDown ==
    /\ "outage" \in Faults /\ lapiUp
    /\ lapiUp' = FALSE
    /\ UNCHANGED <<life, reported, gone, stream, ctxDone, syncVars, readerVars>>

LapiRecovers ==
    /\ ~ lapiUp
    /\ lapiUp' = TRUE
    /\ UNCHANGED <<life, reported, gone, stream, ctxDone, syncVars, readerVars>>

(* Run pulls: everything active the first time, what changed since the     *)
(* last pull later on, with what ended in the meantime; then it blocks     *)
(* sending the answer.  A failed pull is retried and sends nothing.        *)
Pull ==
    /\ lapiUp /\ ~ ctxDone /\ stream = NoBatch
    /\ stream' = Batch(gone, Active \ reported, Active)
    /\ reported' = Active
    /\ gone' = {}
    /\ UNCHANGED <<life, lapiUp, ctxDone, syncVars, readerVars>>

\* A pull yields a nil answer without an error.
PullNil ==
    /\ "nil" \in Faults /\ lapiUp /\ ~ ctxDone /\ stream = NoBatch
    /\ stream' = NilBatch
    /\ UNCHANGED <<lapiVars, ctxDone, syncVars, readerVars>>

\* Run gives up and closes the channel: Sync provides for it.
Close ==
    /\ "stop" \in Faults /\ stream = NoBatch
    /\ stream' = Closed
    /\ UNCHANGED <<lapiVars, ctxDone, syncVars, readerVars>>

Cancel ==
    /\ "stop" \in Faults /\ ~ ctxDone
    /\ ctxDone' = TRUE
    /\ UNCHANGED <<lapiVars, stream, syncVars, readerVars>>

-----------------------------------------------------------------------------
\* Sync.

\* The select takes the ctx.Done case, or receives from the closed channel.
Return ==
    /\ syncPc = "select"
    /\ ctxDone \/ stream = Closed
    /\ syncPc' = "returned"
    /\ connected' = FALSE
    /\ UNCHANGED <<lapiVars, stream, ctxDone, batchVars, cacheVars, syncComplete, readiness,
                   viewVars, readerVars>>

ReceiveNil ==
    /\ syncPc = "select" /\ stream = NilBatch
    /\ stream' = NoBatch
    /\ UNCHANGED <<lapiVars, ctxDone, syncVars, readerVars>>

\* A lookup under way now overlaps the batch's view as well.
Overlap(active) ==
    /\ must' = [r \in Readers |-> must[r] \cap active]
    /\ may'  = [r \in Readers |-> IF pc[r] = "idle" THEN {} ELSE may[r] \cup active]
    /\ UNCHANGED <<pc, ip, result>>

Receive ==
    /\ syncPc = "select" /\ stream.kind = "batch"
    /\ syncPc' = "deleted"
    /\ toDelete' = stream.deleted /\ toAdd' = stream.new /\ cidrChanged' = FALSE
    /\ stream' = NoBatch
    /\ before' = IF syncComplete THEN view ELSE stream.active
    /\ view' = stream.active
    /\ Overlap(stream.active)
    /\ UNCHANGED <<lapiVars, ctxDone, cacheVars, statusVars>>

\* Mutant of DeleteOne: a deleted Range decision does not force a rebuild of the index.
DeleteOneUnflagged(d) ==
    /\ syncPc = "deleted" /\ d \in toDelete
    /\ toDelete' = toDelete \ {d}
    /\ decisions' = IF HasValue(d) THEN [decisions EXCEPT ![d.value] = NoDecision] ELSE decisions
    /\ UNCHANGED <<lapiVars, stream, ctxDone, syncPc, toAdd, cidrChanged, cidrs, knownOrigins,
                   cacheSize, statusVars, viewVars, readerVars>>

(* One iteration of the loop over d.Deleted: the map entry goes, whichever *)
(* decision it holds.  The order of the slice is the LAPI's.               *)
DeleteOne(d) ==
    /\ syncPc = "deleted" /\ d \in toDelete
    /\ toDelete' = toDelete \ {d}
    /\ IF HasValue(d)
       THEN /\ decisions' = [decisions EXCEPT ![d.value] = NoDecision]
            /\ cidrChanged' = (cidrChanged \/ isScope(d, "Range"))
       ELSE UNCHANGED <<decisions, cidrChanged>>
    /\ UNCHANGED <<lapiVars, stream, ctxDone, syncPc, toAdd, cidrs, knownOrigins, cacheSize,
                   statusVars, viewVars, readerVars>>

DeletedDone ==
    /\ syncPc = "deleted" /\ toDelete = {}
    /\ syncPc' = "new"
    /\ UNCHANGED <<lapiVars, stream, ctxDone, batchVars, cacheVars, statusVars, viewVars, readerVars>>

\* Mutant of AddOne: a new Range decision does not force a rebuild of the index.
AddOneUnflagged(d) ==
    /\ syncPc = "new" /\ d \in toAdd
    /\ toAdd' = toAdd \ {d}
    /\ IF HasValue(d)
       THEN /\ decisions' = [decisions EXCEPT ![d.value] = d]
            /\ knownOrigins' = knownOrigins \cup ({d.origin} \ {NoOrigin})
       ELSE UNCHANGED <<decisions, knownOrigins>>
    /\ UNCHANGED <<lapiVars, stream, ctxDone, syncPc, toDelete, cidrChanged, cidrs, cacheSize,
                   statusVars, viewVars, readerVars>>

AddOne(d) ==
    /\ syncPc = "new" /\ d \in toAdd
    /\ toAdd' = toAdd \ {d}
    /\ IF HasValue(d)
       THEN /\ decisions' = [decisions EXCEPT ![d.value] = d]
            /\ knownOrigins' = knownOrigins \cup ({d.origin} \ {NoOrigin})
            /\ cidrChanged' = (cidrChanged \/ isScope(d, "Range"))
       ELSE UNCHANGED <<decisions, knownOrigins, cidrChanged>>
    /\ UNCHANGED <<lapiVars, stream, ctxDone, syncPc, toDelete, cidrs, cacheSize,
                   statusVars, viewVars, readerVars>>

NewDone ==
    /\ syncPc = "new" /\ toAdd = {}
    /\ syncPc' = "publish"
    /\ UNCHANGED <<lapiVars, stream, ctxDone, batchVars, cacheVars, statusVars, viewVars, readerVars>>

\* How many map entries carry an origin.
CountOf(o) == Cardinality({k \in Keys : decisions[k] # NoDecision /\ decisions[k].origin = o})

\* Mutant of OriginCounts: only origins that still have an entry are counted.
OriginCountsLive == [o \in {o \in Origins : CountOf(o) > 0} |-> CountOf(o)]

(* GetOriginCounts lists the origins ever seen, then counts the entries;   *)
(* Sync, the only writer, sets a gauge for each origin in the result.      *)
OriginCounts == [o \in knownOrigins \cup {o \in Origins : CountOf(o) > 0} |-> CountOf(o)]

PublishCounts ==
    /\ syncPc = "publish"
    /\ syncPc' = "index"
    /\ cacheSize' = [o \in Origins |-> IF o \in DOMAIN OriginCounts THEN OriginCounts[o]
                                                                    ELSE cacheSize[o]]
    /\ UNCHANGED <<lapiVars, stream, ctxDone, batchVars, decisions, cidrs, knownOrigins,
                   statusVars, viewVars, readerVars>>

\* Mutant of StoreIndex: nothing is stored when no Range decision is left.
StoreIndexUnlessEmpty ==
    /\ syncPc = "index"
    /\ syncPc' = "complete"
    /\ IF cidrChanged /\ IndexedBy(Cached) # {} THEN cidrs' \in buildIndex(Cached) ELSE UNCHANGED cidrs
    /\ UNCHANGED <<lapiVars, stream, ctxDone, batchVars, decisions, knownOrigins, cacheSize,
                   statusVars, viewVars, readerVars>>

\* Mutant of StoreIndex: the published table is emptied and refilled in place.
StoreIndexInPlace ==
    /\ syncPc = "index"
    /\ IF cidrChanged /\ cidrs # EmptyTable
       THEN cidrs' = EmptyTable /\ UNCHANGED syncPc
       ELSE /\ syncPc' = "complete"
            /\ IF cidrChanged THEN cidrs' \in buildIndex(Cached) ELSE UNCHANGED cidrs
    /\ UNCHANGED <<lapiVars, stream, ctxDone, batchVars, decisions, knownOrigins, cacheSize,
                   statusVars, viewVars, readerVars>>

StoreIndex ==
    /\ syncPc = "index"
    /\ syncPc' = "complete"
    /\ IF cidrChanged THEN cidrs' \in buildIndex(Cached) ELSE UNCHANGED cidrs
    /\ UNCHANGED <<lapiVars, stream, ctxDone, batchVars, decisions, knownOrigins, cacheSize,
                   statusVars, viewVars, readerVars>>

\* Mutant of Complete: a first batch without a Range decision does not count as the initial sync.
CompleteIfChanged ==
    /\ syncPc = "complete"
    /\ syncPc' = "select"
    /\ syncComplete' = (syncComplete \/ cidrChanged)
    /\ connected' = (connected \/ (~ syncComplete /\ cidrChanged))
    /\ before' = view
    /\ UNCHANGED <<lapiVars, stream, ctxDone, batchVars, cacheVars, readiness, view, readerVars>>

\* The first completed batch makes the cache ready and the gauge 1.
Complete ==
    /\ syncPc = "complete"
    /\ syncPc' = "select"
    /\ syncComplete' = TRUE
    /\ connected' = (connected \/ ~ syncComplete)
    /\ before' = view
    /\ UNCHANGED <<lapiVars, stream, ctxDone, batchVars, cacheVars, readiness, view, readerVars>>

\* A tick of updateHealthStatus that finds the cache ready; there is no later one.
HealthTick ==
    /\ syncComplete /\ readiness = "NOT_SERVING"
    /\ readiness' = "SERVING"
    /\ UNCHANGED <<lapiVars, stream, ctxDone, syncPc, batchVars, cacheVars, syncComplete, connected,
                   viewVars, readerVars>>

-----------------------------------------------------------------------------
\* GetDecision.

Promised == IF syncComplete THEN before \cap view ELSE {}

\* The call returns res.
Answer(r, res) ==
    /\ pc' = [pc EXCEPT ![r] = "idle"]
    /\ result' = [result EXCEPT ![r] = res]
    /\ ip' = [ip EXCEPT ![r] = Blank]
    /\ must' = [must EXCEPT ![r] = {}] /\ may' = [may EXCEPT ![r] = {}]

LookupNothing(r) ==
    /\ pc[r] = "idle" /\ Blank \in ClientIPs
    /\ Answer(r, GetError)
    /\ UNCHANGED <<lapiVars, stream, ctxDone, syncVars>>

\* Mutant of Lookup: the empty address is looked up like any other.
LookupAny(r, s) ==
    /\ pc[r] = "idle"
    /\ pc' = [pc EXCEPT ![r] = "get"]
    /\ ip' = [ip EXCEPT ![r] = s]
    /\ result' = [result EXCEPT ![r] = NoDecision]
    /\ must' = [must EXCEPT ![r] = Promised]
    /\ may'  = [may EXCEPT ![r] = before \cup view]
    /\ UNCHANGED <<lapiVars, stream, ctxDone, syncVars>>

Lookup(r, s) ==
    /\ pc[r] = "idle" /\ s # Blank
    /\ pc' = [pc EXCEPT ![r] = "get"]
    /\ ip' = [ip EXCEPT ![r] = s]
    /\ result' = [result EXCEPT ![r] = NoDecision]
    /\ must' = [must EXCEPT ![r] = Promised]
    /\ may'  = [may EXCEPT ![r] = before \cup view]
    /\ UNCHANGED <<lapiVars, stream, ctxDone, syncVars>>

GetExact(r) ==
    /\ pc[r] = "get"
    /\ IF decisions[ip[r]] # NoDecision
       THEN Answer(r, decisions[ip[r]])
       ELSE /\ pc' = [pc EXCEPT ![r] = "load"]
            /\ UNCHANGED <<ip, result, must, may>>
    /\ UNCHANGED <<lapiVars, stream, ctxDone, syncVars>>

GetIndexed(r) ==
    /\ pc[r] = "load"
    /\ Answer(r, lookup(cidrs, ip[r]))
    /\ UNCHANGED <<lapiVars, stream, ctxDone, syncVars>>

-----------------------------------------------------------------------------
Lapi == Pull \/ LapiDown \/ LapiRecovers \/ PullNil \/ Close \/ \E d \in Decisions : Decide(d) \/ End(d)

Sync == \/ Return \/ ReceiveNil \/ Receive
        \/ \E d \in Decisions : DeleteOne(d) \/ AddOne(d)
        \/ DeletedDone \/ NewDone \/ PublishCounts \/ StoreIndex \/ Complete

GetDecision(r) == \/ LookupNothing(r) \/ \E s \in ClientIPs : Lookup(r, s)
                  \/ GetExact(r) \/ GetIndexed(r)

Next == Lapi \/ Cancel \/ Sync \/ HealthTick \/ \E r \in Readers : GetDecision(r)

Spec == Init /\ [][Next]_vars

(* The Go scheduler runs Sync and the health ticker.  Outages end, and     *)
(* Run's ticker keeps pulling: not every tick falls into an outage.        *)
(* Nobody owes a decision, a lookup, an outage, a nil answer or a stop.    *)
Fairness ==
    /\ WF_vars(Sync) /\ WF_vars(HealthTick)
    /\ WF_vars(LapiRecovers) /\ SF_vars(Pull)

FairSpec == Spec /\ Fairness

-----------------------------------------------------------------------------
\* Properties.

(* Every variable holds values of its kind; a request in GetDecision past  *)
(* its first check looks up a client address, never the empty string.      *)
TypeOK ==
    /\ life \in [Decisions -> {"future", "active", "ended"}]
    /\ lapiUp \in BOOLEAN
    /\ reported \subseteq Decisions /\ gone \subseteq Decisions
    /\ stream \in Batches \cup {NoBatch, NilBatch, Closed}
    /\ syncPc \in {"select", "deleted", "new", "publish", "index", "complete", "returned"}
    /\ toDelete \subseteq Decisions /\ toAdd \subseteq Decisions
    /\ cidrChanged \in BOOLEAN /\ ctxDone \in BOOLEAN
    /\ decisions \in [Keys -> Decisions \cup {NoDecision}]
    /\ cidrs \in Tables
    /\ knownOrigins \subseteq Origins /\ cacheSize \in [Origins -> Nat]
    /\ syncComplete \in BOOLEAN /\ connected \in BOOLEAN
    /\ readiness \in {"NOT_SERVING", "SERVING"}
    /\ pc \in [Readers -> {"idle", "get", "load"}]
    /\ ip \in [Readers -> ClientIPs \cup {Blank}]
    /\ \A r \in Readers : pc[r] # "idle" => ip[r] \in ClientIPs \ {Blank}
    /\ result \in [Readers -> Decisions \cup {NoDecision, GetError}]
    /\ view \subseteq Decisions /\ before \subseteq Decisions
    /\ must \in [Readers -> SUBSET Decisions] /\ may \in [Readers -> SUBSET Decisions]

Indexed == {cidrs[p] : p \in Prefixes} \ {NoDecision}

\* A lookup made now would find d, or for a range something as narrow.
Enforced(d) ==
    HasValue(d) => /\ decisions[d.value] = d
                   /\ IndexPrefix(d) # NoPrefix => cidrs[IndexPrefix(d)] # NoDecision

(* From readiness on, and in the middle of a batch as well, every decision *)
(* that the LAPI reports both before and after the batch can be found:     *)
(* deleting what ended and adding what began, in whatever order the slices *)
(* come, never opens a gap for a decision that did neither (Sync).         *)
PromiseKept == \A d \in Promised : Enforced(d)

(* The map and the index never hold a decision that neither the last batch *)
(* nor the one before it reports, although the index lags behind the map.  *)
NothingForeign == Cached \cup Indexed \subseteq before \cup view

MapExact    == Cached = {d \in view : HasValue(d)}
IndexExact  == cidrs \in buildIndex(Cached)
GaugesExact == \A o \in Origins : cacheSize[o] = CountOf(o)

(* Between batches the map holds exactly the decisions the LAPI reported,  *)
(* the index is one that buildIndex could build from them now, although it *)
(* is rebuilt only when a Range decision came or went, and the size gauge  *)
(* of every origin, also of one whose last decision is gone, is exact.     *)
InSync ==
    syncPc \in {"select", "returned"} => MapExact /\ IndexExact /\ GaugesExact

IsAbout(d, s) == d.value = s \/ Covers(d, s)

AsNarrow(d, e) == IndexPrefix(d) # NoPrefix /\ IndexPrefix(d).len >= IndexPrefix(e).len

(* The answer res is d itself, if d is on the address s, and as narrow as  *)
(* d, or on the address itself, if d is on a range around s.               *)
Meets(res, d, s) ==
    /\ d.value = s => res = d
    /\ Covers(d, s) => res # NoDecision /\ (res.value = s \/ AsNarrow(res, d))

Answers(r) == pc[r] # "idle" /\ pc'[r] = "idle"

(* A lookup answers with a decision about its address that the LAPI had    *)
(* reported at some time during the lookup: never with one that had been   *)
(* lifted before the lookup began.                                         *)
LookupSound ==
    [][\A r \in Readers : Answers(r) /\ result'[r] # NoDecision =>
            result'[r] \in may[r] /\ IsAbout(result'[r], ip[r])]_vars

(* Although it reads the map and the index at two different times, between *)
(* which batches may be applied, a lookup begun after readiness never      *)
(* misses a decision in force throughout: it returns the decision on the   *)
(* address itself, or one on a range at least as narrow.                   *)
LookupComplete ==
    [][\A r \in Readers : Answers(r) =>
            \A d \in must[r] : Meets(result'[r], d, ip[r])]_vars

Service == INSTANCE DecisionService
               WITH Addresses <- ClientIPs, ready <- syncComplete,
                    asking <- {r \in Readers : pc[r] # "idle"}

(* The cache implements DecisionService: map and index, filled entry by    *)
(* entry and read one after the other, behave like whole lists of the LAPI *)
(* that replace one another, from which every answer is read at once.      *)
ImplementsService == Service!Spec

(* A decision made at the LAPI is enforced in the end, unless it ends or   *)
(* the sync is stopped: lost pulls and batches in flight only delay it.    *)
EventuallyEnforced ==
    \A d \in Decisions :
        life[d] = "active" ~> (Enforced(d) \/ life[d] = "ended" \/ syncPc = "returned")

(* A decision that ends at the LAPI is dropped from the map and from the   *)
(* index for good.                                                         *)
EventuallyLifted ==
    \A d \in Decisions :
        life[d] = "ended" ~> ([](d \notin Cached \cup Indexed) \/ syncPc = "returned")

(* The readiness check reports SERVING in the end, by a ticker that polls  *)
(* a flag that is set once, even if the LAPI is down at the start.         *)
EventuallyServing == <>(readiness = "SERVING" \/ syncPc = "returned")

(* The cache holds the decisions synced from the local CrowdSec instance   *)
(* (docs/CROWDSEC.md:15): between batches there is an entry for the value  *)
(* of every decision in force.                                             *)
EveryValueHeld ==
    syncPc = "select" => \A d \in view : HasValue(d) => decisions[d.value] # NoDecision
=============================================================================
