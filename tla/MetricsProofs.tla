---------------------------- MODULE MetricsProofs ----------------------------
(***************************************************************************)
(* Proofs about Metrics, for any metrics, goroutines, faults and bounds:   *)
(* its types, that only the two kinds of race named in raced make the      *)
(* counts wrong, that without them every Inc counts, and that a level not  *)
(* set in a window reaches the LAPI.                                       *)
(***************************************************************************)
EXTENDS Metrics, TLAPS

\* A count about to be written is not zero, so a listed metric stays listed.
Types ==
    /\ TypeOK
    /\ \A w \in Workers : pc[w] = "set" => value[w] > 0

(* While no Inc of k has raced, at most one is under way, it will write    *)
(* one more than what is in the cache, and within the window of a report   *)
(* the report agrees with the cache.                                       *)
Quiet(k) ==
    /\ \A v, w \in Counting(k) : v = w
    /\ \A w \in Counting(k) : value[w] = cache[k] + 1
    /\ InWindow(k) => report[k] = cache[k]
    /\ accepted[k] + cache[k] = counted[k] + Sent(k) + doubled[k]

IInv == Types /\ \A k \in Keys \ raced : Quiet(k)

USE DEF NoKey, workerVars, runVars, history, levelVars

-----------------------------------------------------------------------------
\* Types.

LEMMA TypesInit == Init => Types
<1>. SUFFICES ASSUME Init PROVE Types
  OBVIOUS
<1>1. level \in BOOLEAN /\ told \in BOOLEAN /\ missed \in BOOLEAN
  BY Zenon DEF Init
<1>2. todo \subseteq Listed
  BY DEF Init
<1>. QED
  BY <1>1, <1>2 DEF Init, Types, TypeOK, Zero

LEMMA TypesIncGet == ASSUME Types, NEW w \in Workers, NEW k \in Keys, IncGet(w, k) PROVE Types'
  BY KeyAssumption DEF Types, TypeOK, IncGet, Listed

LEMMA TypesIncSet == ASSUME Types, NEW w \in Workers, IncSet(w) PROVE Types'
<1>1. key[w] \in Keys /\ value[w] \in Nat \ {0}
  BY DEF Types, TypeOK, IncSet
<1>2. Listed \subseteq Listed'
  BY <1>1, KeyAssumption DEF Types, TypeOK, IncSet, Listed
<1>. QED
  BY <1>1, <1>2 DEF Types, TypeOK, IncSet

LEMMA TypesSetLevel == ASSUME Types, SetLevel PROVE Types'
<1>1. Listed \subseteq Listed'
  BY DEF SetLevel, Listed
<1>. QED
  BY <1>1 DEF Types, TypeOK, SetLevel, InWindow

LEMMA TypesRun == ASSUME Types, Run \/ Stop PROVE Types'
<1>1. CASE SnapshotKeys
  BY <1>1 DEF Types, TypeOK, SnapshotKeys, Listed, Zero
<1>2. ASSUME NEW k \in Keys, SnapshotGet(k) PROVE Types'
  BY <1>2 DEF Types, TypeOK, SnapshotGet, Listed
<1>3. CASE SnapshotDone
  BY <1>3 DEF Types, TypeOK, SnapshotDone, Listed
<1>4. CASE SendAccepted
  BY <1>4 DEF Types, TypeOK, SendAccepted, Arrives, Added, Listed
<1>5. CASE SendFails
  <2>1. told' \in BOOLEAN
    BY <1>5, Zenon DEF Types, TypeOK, SendFails, Arrives
  <2>2. accepted' \in [Keys -> Nat] /\ doubled' \in [Keys -> Nat]
    BY <1>5 DEF Types, TypeOK, SendFails, Arrives, Added
  <2>3. Listed' = Listed
    BY <1>5 DEF SendFails, Listed
  <2>. QED
    BY <1>5, <2>1, <2>2, <2>3 DEF Types, TypeOK, SendFails, Zero
<1>6. ASSUME NEW k \in Keys, ResetDelete(k) PROVE Types'
  <2>1. todo \subseteq Listed /\ k \in Keys /\ k # Active /\ k \notin todo'
    BY <1>6, KeyAssumption DEF Types, TypeOK, ResetDelete
  <2>2. cache' = [cache EXCEPT ![k] = 0] /\ cache \in [Keys -> Nat] /\ level' = level
    BY <1>6 DEF Types, TypeOK, ResetDelete
  <2>3. \A j \in Listed : j # k => j \in Listed'
    BY <2>1, <2>2 DEF Listed
  <2>4. todo' \subseteq Listed'
    BY <1>6, <2>1, <2>3 DEF ResetDelete
  <2>. QED
    BY <1>6, <2>2, <2>4 DEF Types, TypeOK, ResetDelete
<1>7. CASE ResetDone
  BY <1>7 DEF Types, TypeOK, ResetDone, Zero, Listed
<1>8. CASE Stop
  BY <1>8 DEF Types, TypeOK, Stop, Listed
<1>9. CASE SnapshotGetLevel
  BY <1>9 DEF Types, TypeOK, SnapshotGetLevel, Listed
<1>10. CASE ResetDeleteLevel
  <2>1. \A j \in Listed : j # Active => j \in Listed'
    BY <1>10 DEF ResetDeleteLevel, Listed
  <2>2. todo' \subseteq Listed'
    BY <1>10, <2>1 DEF Types, TypeOK, ResetDeleteLevel
  <2>. QED
    BY <1>10, <2>2 DEF Types, TypeOK, ResetDeleteLevel
<1>. QED
  BY <1>1, <1>2, <1>3, <1>4, <1>5, <1>6, <1>7, <1>8, <1>9, <1>10 DEF Run

LEMMA TypesNext == Types /\ [Next]_vars => Types'
<1>. SUFFICES ASSUME Types, [Next]_vars PROVE Types'
  OBVIOUS
<1>1. CASE Run \/ Stop
  BY <1>1, TypesRun
<1>2. CASE \E w \in Workers : Inc(w)
  BY <1>2, TypesIncGet, TypesIncSet DEF Inc
<1>3. CASE UNCHANGED vars
  BY <1>3 DEF Types, TypeOK, vars, Listed
<1>4. CASE SetLevel
  BY <1>4, TypesSetLevel
<1>. QED
  BY <1>1, <1>2, <1>3, <1>4 DEF Next

(* Every variable keeps to its type.                                       *)
THEOREM TypeCorrect == Spec => []TypeOK
<1>1. Types => TypeOK
  BY DEF Types
<1>. QED
  BY <1>1, TypesInit, TypesNext, PTL DEF Spec

-----------------------------------------------------------------------------
\* Counts.

LEMMA QuietInit == Init => \A k \in Keys : Quiet(k)
  BY DEF Init, Quiet, Counting, InWindow, Sent, Zero

LEMMA QuietIncGet ==
  ASSUME Types, NEW w \in Workers, NEW j \in Keys, IncGet(w, j),
         NEW k \in Keys \ raced', Quiet(k)
  PROVE  Quiet(k)'
<1>1. CASE j = k
  <2>1. Counting(k) = {} /\ Counting(k)' = {w} /\ value'[w] = cache[k] + 1
    BY <1>1 DEF IncGet, Counting, Types, TypeOK
  <2>. QED
    BY <2>1 DEF IncGet, Quiet, InWindow, Sent
<1>2. CASE j # k
  <2>1. Counting(k)' = Counting(k) /\ \A v \in Counting(k) : value'[v] = value[v]
    BY <1>2 DEF IncGet, Counting, Types, TypeOK
  <2>. QED
    BY <2>1 DEF IncGet, Quiet, InWindow, Sent
<1>. QED
  BY <1>1, <1>2

LEMMA QuietIncSet ==
  ASSUME Types, NEW w \in Workers, IncSet(w), NEW k \in Keys \ raced', Quiet(k)
  PROVE  Quiet(k)'
<1>1. CASE key[w] = k
  <2>1. ~ InWindow(k) /\ ~ InWindow(k)'
    BY <1>1 DEF IncSet, InWindow
  <2>2. Counting(k) = {w} /\ value[w] = cache[k] + 1
    BY <1>1 DEF IncSet, Counting, Quiet
  <2>3. Counting(k)' = {}
    BY <2>2 DEF IncSet, Counting, Types, TypeOK
  <2>4. Sent(k) = 0 /\ Sent(k)' = 0
    BY <2>1 DEF InWindow, Sent
  <2>5. cache'[k] = cache[k] + 1 /\ counted'[k] = counted[k] + 1
    BY <1>1, <2>2 DEF IncSet, Types, TypeOK
  <2>6. accepted'[k] = accepted[k] /\ doubled'[k] = doubled[k]
    BY DEF IncSet
  <2>7. /\ accepted[k] \in Nat /\ cache[k] \in Nat /\ counted[k] \in Nat /\ doubled[k] \in Nat
        /\ accepted[k] + cache[k] = counted[k] + doubled[k]
    BY <2>4 DEF Types, TypeOK, Quiet
  <2>8. accepted'[k] + cache'[k] = counted'[k] + Sent(k)' + doubled'[k]
    BY <2>4, <2>5, <2>6, <2>7
  <2>. QED
    BY <2>1, <2>3, <2>8 DEF Quiet
<1>2. CASE key[w] # k
  <2>1. Counting(k)' = Counting(k) /\ \A v \in Counting(k) : value'[v] = value[v]
    BY <1>2 DEF IncSet, Counting, Types, TypeOK
  <2>2. cache'[k] = cache[k] /\ counted'[k] = counted[k]
    BY <1>2 DEF IncSet, Types, TypeOK
  <2>. QED
    BY <2>1, <2>2 DEF IncSet, Quiet, InWindow, Sent
<1>. QED
  BY <1>1, <1>2

LEMMA QuietRun ==
  ASSUME Types, Run \/ Stop, NEW k \in Keys \ raced', Quiet(k)
  PROVE  Quiet(k)'
<1>0. /\ accepted[k] \in Nat /\ cache[k] \in Nat /\ counted[k] \in Nat /\ doubled[k] \in Nat
      /\ report[k] \in Nat
  BY DEF Types, TypeOK
<1>. DEFINE Same == UNCHANGED workerVars /\ cache'[k] = cache[k] /\ counted'[k] = counted[k]
<1>a. ASSUME Same, InWindow(k)' => report'[k] = cache[k],
             accepted'[k] + cache[k] = counted[k] + Sent(k)' + doubled'[k]
      PROVE  Quiet(k)'
  BY <1>a DEF Quiet, Counting
<1>1. CASE SnapshotKeys
  BY <1>0, <1>1, <1>a, KeyAssumption DEF SnapshotKeys, Quiet, InWindow, Sent, Listed, Zero
<1>2. ASSUME NEW j \in Keys, SnapshotGet(j) PROVE Quiet(k)'
  BY <1>0, <1>2, <1>a DEF SnapshotGet, Quiet, InWindow, Sent, Types, TypeOK
<1>3. CASE SnapshotDone
  BY <1>0, <1>3, <1>a DEF SnapshotDone, Quiet, InWindow, Sent
<1>4. CASE SendAccepted
  <2>1. report[k] = cache[k] /\ Sent(k) = 0
    BY <1>4 DEF SendAccepted, Quiet, InWindow, Sent
  <2>2. Sent(k)' = cache[k]
    BY <1>0, <1>4, <2>1, KeyAssumption DEF SendAccepted, Sent, Listed
  <2>3. accepted'[k] = accepted[k] + report[k]
    BY <1>4 DEF SendAccepted, Arrives, Added
  <2>. QED
    BY <1>0, <1>4, <1>a, <2>1, <2>2, <2>3 DEF SendAccepted, Arrives, Quiet
<1>5. CASE SendFails
  <2>1. report[k] = cache[k] /\ Sent(k) = 0 /\ Sent(k)' = 0 /\ ~ InWindow(k)'
    BY <1>5 DEF SendFails, Quiet, InWindow, Sent
  <2>2. accepted'[k] + cache[k] = counted[k] + doubled'[k]
    <3>1. CASE UNCHANGED <<accepted, doubled>>
      BY <1>0, <2>1, <3>1 DEF Quiet
    <3>2. CASE doubled = Zero /\ accepted' = Added /\ doubled' = report
      BY <1>0, <2>1, <3>2 DEF Quiet, Added, Zero
    <3>. QED
      BY <1>5, <3>1, <3>2 DEF SendFails, Arrives
  <2>. QED
    BY <1>0, <1>5, <1>a, <2>1, <2>2, doubled'[k] \in Nat DEF SendFails, Arrives
<1>6. ASSUME NEW j \in Keys, ResetDelete(j) PROVE Quiet(k)'
  <2>1. CASE j = k
    <3>1. Counting(k) = {} /\ Counting(k)' = {}
      BY <1>6, <2>1 DEF ResetDelete, Counting
    <3>2. report[k] = cache[k] /\ Sent(k) = report[k] /\ Sent(k)' = 0 /\ ~ InWindow(k)'
      BY <1>6, <2>1 DEF ResetDelete, Quiet, InWindow, Sent
    <3>3. cache'[k] = 0
      BY <1>6, <2>1 DEF ResetDelete, Types, TypeOK
    <3>4. accepted[k] = counted[k] + doubled[k]
      BY <1>0, <3>2 DEF Quiet
    <3>. QED
      BY <1>0, <1>6, <3>1, <3>2, <3>3, <3>4 DEF ResetDelete, Quiet
  <2>2. CASE j # k
    BY <1>0, <1>6, <1>a, <2>2 DEF ResetDelete, Quiet, InWindow, Sent, Types, TypeOK
  <2>. QED
    BY <2>1, <2>2
<1>7. CASE ResetDone
  BY <1>0, <1>7, <1>a DEF ResetDone, Quiet, InWindow, Sent
<1>8. CASE Stop
  BY <1>0, <1>8, <1>a DEF Stop, Quiet, InWindow, Sent
<1>9. CASE SnapshotGetLevel \/ ResetDeleteLevel
  <2>1. /\ InWindow(k)' => InWindow(k)
        /\ Sent(k)' = Sent(k)
    BY <1>9, KeyAssumption DEF SnapshotGetLevel, ResetDeleteLevel, InWindow, Sent
  <2>2. UNCHANGED <<cache, workerVars, report, counted, accepted, doubled>>
    BY <1>9 DEF SnapshotGetLevel, ResetDeleteLevel
  <2>. QED
    BY <2>1, <2>2 DEF Quiet, Counting
<1>. QED
  BY <1>1, <1>2, <1>3, <1>4, <1>5, <1>6, <1>7, <1>8, <1>9 DEF Run

\* What has raced stays in raced.
LEMMA RacedGrows == ASSUME [Next]_vars PROVE raced \subseteq raced'
  BY DEF Next, Inc, Run, Stop, IncGet, IncSet, SnapshotKeys, SnapshotGet, SnapshotDone, SendAccepted,
         SendFails, ResetDelete, ResetDone, SetLevel, SnapshotGetLevel, ResetDeleteLevel, vars

LEMMA IInvNext == IInv /\ [Next]_vars => IInv'
<1>. SUFFICES ASSUME IInv, [Next]_vars PROVE IInv'
  OBVIOUS
<1>1. Types /\ Types'
  BY TypesNext DEF IInv
<1>2. ASSUME NEW k \in Keys \ raced' PROVE Quiet(k)'
  <2>1. Quiet(k) /\ k \in Keys \ raced
    BY RacedGrows DEF IInv
  <2>2. CASE Run \/ Stop
    BY <1>1, <2>1, <2>2, QuietRun
  <2>3. CASE \E w \in Workers : Inc(w)
    BY <1>1, <2>1, <2>3, QuietIncGet, QuietIncSet DEF Inc
  <2>4. CASE UNCHANGED vars
    BY <2>1, <2>4 DEF vars, Quiet, Counting, InWindow, Sent
  <2>5. CASE SetLevel
    BY <2>1, <2>5 DEF SetLevel, Quiet, Counting, InWindow, Sent
  <2>. QED
    BY <2>2, <2>3, <2>4, <2>5 DEF Next
<1>. QED
  BY <1>1, <1>2 DEF IInv

(* Whatever the LAPI does with the reports, a metric none of whose Incs    *)
(* overlapped another or the window of a report is neither lost nor        *)
(* invented, and counted twice only in a report whose answer was lost.     *)
THEOREM ExactUnlessRacedHolds == Spec => []ExactUnlessRaced
<1>1. Init => IInv
  BY TypesInit, QuietInit DEF IInv
<1>2. IInv => ExactUnlessRaced
  BY DEF IInv, Quiet, ExactUnlessRaced
<1>. QED
  BY <1>1, <1>2, IInvNext, PTL DEF Spec

(* So an Inc that has returned counts, as its comment says, unless a metric*)
(* has raced: the run that refutes it needs a race (Inc, Reset).           *)
THEOREM EveryIncCountsUnlessRaced == Spec => [](raced = {} => EveryIncCounts)
<1>1. TypeOK /\ ExactUnlessRaced => (raced = {} => EveryIncCounts)
  <2>. SUFFICES ASSUME TypeOK, ExactUnlessRaced, raced = {}, NEW k \in Keys
                PROVE  accepted[k] + cache[k] >= counted[k] + Sent(k)
    BY DEF EveryIncCounts
  <2>1. accepted[k] + cache[k] = counted[k] + Sent(k) + doubled[k]
    BY DEF ExactUnlessRaced
  <2>2. counted[k] \in Nat /\ Sent(k) \in Nat /\ doubled[k] \in Nat
    BY DEF TypeOK, Sent
  <2>. QED
    BY <2>1, <2>2
<1>. QED
  BY <1>1, TypeCorrect, ExactUnlessRacedHolds, PTL

-----------------------------------------------------------------------------
\* The level.

(* In the window of a report the report holds the level, or the LAPI has   *)
(* been told of it, or it was set in a window; once the report has arrived *)
(* it need not hold it any more.                                           *)
LevelInv ==
    /\ LevelToldUnlessMissed
    /\ InWindow(Active) => (levelReport = "latest" /\ run # "reset") \/ told \/ missed

LEMMA LevelStep ==
  ASSUME Types, LevelInv, [Next]_vars
  PROVE  LevelInv'
<1>. USE DEF LevelInv, LevelToldUnlessMissed
<1>1. CASE SnapshotKeys
  BY <1>1, KeyAssumption DEF SnapshotKeys, InWindow, Listed
<1>2. CASE SnapshotGetLevel
  BY <1>2 DEF SnapshotGetLevel, InWindow
<1>3. CASE SnapshotDone
  BY <1>3 DEF SnapshotDone, InWindow
<1>4. CASE SendAccepted
  BY <1>4 DEF SendAccepted, Arrives, InWindow
<1>5. CASE SendFails
  BY <1>5 DEF SendFails, Arrives, InWindow
<1>6. CASE ResetDeleteLevel
  BY <1>6 DEF ResetDeleteLevel, InWindow
<1>7. CASE ResetDone
  BY <1>7 DEF ResetDone, InWindow
<1>8. ASSUME NEW k \in Keys, SnapshotGet(k) \/ ResetDelete(k) PROVE LevelInv'
  BY <1>8, KeyAssumption DEF SnapshotGet, ResetDelete, InWindow
<1>9. CASE SetLevel
  BY <1>9 DEF SetLevel, InWindow
<1>10. CASE Stop \/ UNCHANGED vars
  BY <1>10 DEF Stop, vars, InWindow
<1>11. CASE \E w \in Workers : Inc(w)
  BY <1>11 DEF Inc, IncGet, IncSet, InWindow
<1>. QED
  BY <1>1, <1>2, <1>3, <1>4, <1>5, <1>6, <1>7, <1>8, <1>9, <1>10, <1>11 DEF Next, Run

(* Reset never deletes a level the LAPI has not been told of, unless Sync  *)
(* set it while a report was under way.                                    *)
THEOREM LevelTold == Spec => []LevelToldUnlessMissed
<1>1. Init => LevelInv
  BY DEF Init, LevelInv, LevelToldUnlessMissed, InWindow
<1>2. LevelInv => LevelToldUnlessMissed
  BY DEF LevelInv
<1>3. Types /\ LevelInv /\ [Next]_vars => LevelInv'
  BY LevelStep
<1>. QED
  BY <1>1, <1>2, <1>3, TypesInit, TypesNext, PTL DEF Spec
=============================================================================
