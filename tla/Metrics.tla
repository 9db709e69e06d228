------------------------------- MODULE Metrics -------------------------------
(***************************************************************************)
(* The usage metrics (pkg/crowdsec/metrics.go): request goroutines count   *)
(* with Inc what recordFinalMetric tells them to, and the goroutine in Run *)
(* reports the counts to the LAPI and, if that succeeds, deletes them.  In *)
(* the same map Sync keeps the number of active decisions with Set         *)
(* (decisions/cache.go); the origins' entries are all set, reported and    *)
(* deleted alike, and one stands for them.                                 *)
(*                                                                         *)
(* Each operation on the underlying cache is locked and one step; nothing  *)
(* is locked across two of them.  Inc reads a count and writes it back;    *)
(* Calculate lists the keys and reads them one at a time; Reset lists the  *)
(* keys again and deletes them one at a time.                              *)
(***************************************************************************)
EXTENDS Naturals, FiniteSets

CONSTANTS
    Keys,      \* the keys of the remediation metrics
    Workers,   \* goroutines in recordFinalMetric
    Faults,    \* a report is "refused", or "lost": accepted, but the answer does not arrive;
               \* "stop": the context is cancelled
    MaxCount   \* bound on the Incs of each key

Active == "active_decisions"   \* the key Sync sets

ASSUME KeyAssumption == Active \notin Keys
ASSUME CountAssumption == MaxCount \in [Keys -> Nat]
ASSUME FaultAssumption == Faults \subseteq {"refused", "lost", "stop"}

VARIABLES
    cache,     \* the value of each metric, 0 if it has no entry
    pc,        \* of each worker: "idle" or "set", between Inc's read and its write
    key,       \* the metric being counted
    value,     \* what Inc read, plus one
    run,       \* the goroutine in Run: "tick", "snapshot", "send", "reset", "stopped"
    todo,      \* keys listed and not yet read, or not yet deleted
    report,    \* the values read by Calculate
    started,   \* history: Incs begun for each metric
    counted,   \* history: Incs completed
    accepted,  \* what the LAPI has been told in all (external)
    level,       \* whether there is an entry under Active: the level Sync set last
    levelReport, \* what Calculate read of it: "none", "latest", or "stale", set anew since
    raced,     \* history: metrics with an Inc that overlapped another Inc or a report's window
    doubled,   \* history: the counts in a report that was accepted without the sender learning it
    told,      \* history: the LAPI knows the level Sync set last
    missed     \* history: that level was set in the window of a report

workerVars == <<pc, key, value>>
runVars    == <<run, todo, report>>
history    == <<started, counted, raced>>
levelVars  == <<level, levelReport, told, missed>>
vars == <<cache, workerVars, runVars, history, accepted, doubled, levelVars>>

Zero == [k \in Keys |-> 0]
NoKey == "none"

Init ==
    /\ cache = Zero
    /\ pc = [w \in Workers |-> "idle"]
    /\ key = [w \in Workers |-> NoKey] /\ value = [w \in Workers |-> 0]
    /\ run = "tick" /\ todo = {} /\ report = Zero
    /\ started = Zero /\ counted = Zero /\ accepted = Zero
    /\ raced = {} /\ doubled = Zero
    /\ level = FALSE /\ levelReport = "none" /\ told = TRUE /\ missed = FALSE

Counting(k) == {w \in Workers : pc[w] = "set" /\ key[w] = k}

(* The window of a metric in a report: from the moment Calculate has read  *)
(* it, or has listed the keys without it, until Reset has deleted it, or   *)
(* has listed the keys without it.                                         *)
InWindow(k) ==
    \/ run = "snapshot" /\ k \notin todo
    \/ run = "send"
    \/ run = "reset" /\ k \in todo

-----------------------------------------------------------------------------
\* Inc.

IncGet(w, k) ==
    /\ pc[w] = "idle" /\ started[k] < MaxCount[k]
    /\ started' = [started EXCEPT ![k] = @ + 1]
    /\ pc' = [pc EXCEPT ![w] = "set"]
    /\ key' = [key EXCEPT ![w] = k]
    /\ value' = [value EXCEPT ![w] = cache[k] + 1]
    /\ raced' = IF Counting(k) # {} THEN raced \cup {k} ELSE raced
    /\ UNCHANGED <<cache, runVars, counted, accepted, doubled, levelVars>>

IncSet(w) ==
    /\ pc[w] = "set"
    /\ cache' = [cache EXCEPT ![key[w]] = value[w]]
    /\ counted' = [counted EXCEPT ![key[w]] = @ + 1]
    /\ raced' = IF InWindow(key[w]) THEN raced \cup {key[w]} ELSE raced
    /\ pc' = [pc EXCEPT ![w] = "idle"]
    /\ key' = [key EXCEPT ![w] = NoKey] /\ value' = [value EXCEPT ![w] = 0]
    /\ UNCHANGED <<runVars, started, accepted, doubled, levelVars>>

-----------------------------------------------------------------------------
(* Set, called by Sync for each batch: whatever the entry was, it is the   *)
(* new level.                                                              *)
SetLevel ==
    /\ level' = TRUE
    /\ levelReport' = IF levelReport = "latest" THEN "stale" ELSE levelReport
    /\ told' = FALSE /\ missed' = InWindow(Active)
    /\ UNCHANGED <<cache, workerVars, runVars, history, accepted, doubled>>

-----------------------------------------------------------------------------
\* Run.

Listed == {k \in Keys : cache[k] > 0} \cup {k \in {Active} : level}

\* A context cancelled earlier is seen here too: until then it makes a report fail.
Stop ==
    /\ run = "tick" /\ "stop" \in Faults
    /\ run' = "stopped"
    /\ UNCHANGED <<cache, workerVars, todo, report, history, accepted, doubled, levelVars>>

\* A tick: Calculate's snapshot lists the keys.
SnapshotKeys ==
    /\ run = "tick"
    /\ run' = "snapshot" /\ todo' = Listed
    /\ report' = Zero /\ levelReport' = "none"
    /\ UNCHANGED <<cache, workerVars, history, accepted, doubled, level, told, missed>>

SnapshotGet(k) ==
    /\ run = "snapshot" /\ k \in todo
    /\ report' = [report EXCEPT ![k] = cache[k]]
    /\ todo' = todo \ {k}
    /\ UNCHANGED <<cache, workerVars, run, history, accepted, doubled, levelVars>>

SnapshotGetLevel ==
    /\ run = "snapshot" /\ Active \in todo
    /\ levelReport' = "latest"
    /\ todo' = todo \ {Active}
    /\ UNCHANGED <<cache, workerVars, run, report, history, accepted, doubled, level, told, missed>>

SnapshotDone ==
    /\ run = "snapshot" /\ todo = {}
    /\ run' = "send"
    /\ UNCHANGED <<cache, workerVars, todo, report, history, accepted, doubled, levelVars>>

Added == [k \in Keys |-> accepted[k] + report[k]]

\* The report arrives.
Arrives == accepted' = Added /\ told' = (told \/ levelReport = "latest")

\* The LAPI accepts the report; Reset lists the keys.
SendAccepted ==
    /\ run = "send"
    /\ Arrives
    /\ run' = "reset" /\ todo' = Listed
    /\ UNCHANGED <<cache, workerVars, report, history, doubled, level, levelReport, missed>>

\* Mutant of SendFails: the counts are deleted although they were not sent.
SendFailsResets ==
    /\ run = "send" /\ Faults # {}
    /\ run' = "reset" /\ todo' = Listed
    /\ UNCHANGED <<cache, workerVars, report, history, accepted, doubled, levelVars>>

\* Mutant of SendFails: an error ends the loop.
SendFailsStops ==
    /\ run = "send" /\ Faults # {}
    /\ run' = "failed"
    /\ UNCHANGED <<cache, workerVars, todo, report, history, accepted, doubled, levelVars>>

(* The LAPI refuses or cannot be reached, or only its answer is lost: the  *)
(* counts stay.  One lost answer is enough to look at, and bounds accepted.*)
SendFails ==
    /\ run = "send"
    /\ \/ "refused" \in Faults /\ UNCHANGED <<accepted, doubled, told>>
       \/ "lost" \in Faults /\ doubled = Zero /\ Arrives /\ doubled' = report
    /\ run' = "tick" /\ report' = Zero /\ levelReport' = "none"
    /\ UNCHANGED <<cache, workerVars, todo, history, level, missed>>

ResetDelete(k) ==
    /\ run = "reset" /\ k \in todo
    /\ cache' = [cache EXCEPT ![k] = 0]
    /\ todo' = todo \ {k}
    /\ raced' = IF Counting(k) # {} THEN raced \cup {k} ELSE raced
    /\ UNCHANGED <<workerVars, run, report, started, counted, accepted, doubled, levelVars>>

ResetDeleteLevel ==
    /\ run = "reset" /\ Active \in todo
    /\ level' = FALSE
    /\ todo' = todo \ {Active}
    /\ UNCHANGED <<cache, workerVars, run, report, history, accepted, doubled, levelReport, told, missed>>

ResetDone ==
    /\ run = "reset" /\ todo = {}
    /\ run' = "tick" /\ report' = Zero /\ levelReport' = "none"
    /\ UNCHANGED <<cache, workerVars, todo, history, accepted, doubled, level, told, missed>>

-----------------------------------------------------------------------------
Inc(w) == (\E k \in Keys : IncGet(w, k)) \/ IncSet(w)

Run == \/ SnapshotKeys \/ SnapshotGetLevel \/ SnapshotDone
       \/ SendAccepted \/ SendFails \/ ResetDeleteLevel \/ ResetDone
       \/ \E k \in Keys : SnapshotGet(k) \/ ResetDelete(k)

Next == Run \/ Stop \/ SetLevel \/ \E w \in Workers : Inc(w)

Spec == Init /\ [][Next]_vars

\* Run ticks and goes on, an Inc begun is finished, and not every report fails.
FairSpec ==
    /\ Spec /\ WF_vars(Run) /\ SF_vars(SendAccepted)
    /\ \A w \in Workers : WF_vars(IncSet(w))

-----------------------------------------------------------------------------
\* Properties.

(* Every variable holds values of its kind; the keys to be handled are     *)
(* those with an entry.                                                    *)
TypeOK ==
    /\ cache \in [Keys -> Nat]
    /\ pc \in [Workers -> {"idle", "set"}]
    /\ key \in [Workers -> Keys \cup {NoKey}] /\ value \in [Workers -> Nat]
    /\ \A w \in Workers : pc[w] = "set" => key[w] \in Keys
    /\ run \in {"tick", "snapshot", "send", "reset", "stopped"}
    /\ todo \subseteq Listed /\ (run \in {"tick", "send", "stopped"} => todo = {})
    /\ report \in [Keys -> Nat]
    /\ started \in [Keys -> Nat] /\ counted \in [Keys -> Nat]
    /\ accepted \in [Keys -> Nat] /\ doubled \in [Keys -> Nat]
    /\ raced \subseteq Keys
    /\ level \in BOOLEAN /\ told \in BOOLEAN /\ missed \in BOOLEAN
    /\ levelReport \in {"none", "latest", "stale"}

\* What has been accepted but is still in the cache.
Sent(k) == IF run = "reset" /\ k \in todo THEN report[k] ELSE 0

(* Counts go wrong in no other way than by an Inc that overlaps another    *)
(* Inc of the same metric or the metric's window in a report: for every    *)
(* other metric what the LAPI was told and what is in the cache add up to  *)
(* the Incs, but for a report that was accepted without the sender         *)
(* learning it, which counts twice.  A refused report loses nothing.       *)
ExactUnlessRaced ==
    \A k \in Keys \ raced : accepted[k] + cache[k] = counted[k] + Sent(k) + doubled[k]

(* The level of active decisions shares its map with the counts Reset      *)
(* deletes.  Still, unless it was set in the window of a report, the level *)
(* Sync set last is never deleted before the LAPI has been told of it,     *)
(* however many reports fail.                                              *)
LevelToldUnlessMissed == level \/ told \/ missed

(* "Inc increments the value of a metric by 1" (pkg/crowdsec/metrics.go:97)*)
(* so every Inc that has returned was reported or is in the cache.         *)
EveryIncCounts ==
    \A k \in Keys : accepted[k] + cache[k] >= counted[k] + Sent(k)

(* Counts do not stay behind: whatever is in the cache is reported and     *)
(* deleted in the end, unless the LAPI fails for good or Run is stopped.   *)
EventuallyReported == \A k \in Keys : cache[k] > 0 ~> cache[k] = 0 \/ run = "stopped"
=============================================================================
