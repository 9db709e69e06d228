------------------------- MODULE DecisionCacheProofs -------------------------
(***************************************************************************)
(* Proofs about DecisionCache, for every set of decisions, every address   *)
(* width and any number of concurrent lookups.                             *)
(***************************************************************************)
EXTENDS DecisionCache, CidrIndexProofs

-----------------------------------------------------------------------------
(* The inductive invariant.  It follows each decision from the LAPI over   *)
(* the channel into the map and the index.  What it says of entries that   *)
(* have to be there concerns the decisions no other decision can displace: *)
(* all of them when the LAPI keeps at most one active decision per value,  *)
(* otherwise those whose value no other decision has.  What it says of     *)
(* entries that must not be there concerns every decision.                 *)

Alone(d) == OneDecisionPerValue \/ \A e \in Decisions : e.value = d.value => e = d

Uniq(S) == \A d, e \in S : Alone(d) /\ d.value = e.value => d = e

(* What ended since the last pull is in gone; it shares no value with a    *)
(* decision that was reported and is still active.                         *)
LapiInv ==
    /\ Uniq(Active) /\ Uniq(reported)
    /\ \A d \in reported : life[d] # "future" /\ (life[d] = "ended" => d \in gone)
    /\ \A e \in gone : life[e] = "ended"
    /\ \A e \in gone, d \in reported : Alone(d) /\ life[d] = "active" => e.value # d.value

(* A batch in flight is the difference between what Sync knows and what    *)
(* the LAPI reported last.                                                 *)
StreamInv ==
    /\ stream.kind # "batch" => reported = view
    /\ stream.kind = "batch" =>
           /\ stream.active = reported
           /\ stream.new = reported \ view
           /\ view \ reported \subseteq stream.deleted
           /\ stream.deleted \cap reported = {}
           /\ \A e \in stream.deleted, d \in view \cap reported : Alone(d) => e.value # d.value

\* What is left of a batch, and what the program counter says about it.
SyncInv ==
    /\ Uniq(view)
    /\ syncPc # "deleted" => toDelete = {}
    /\ syncPc \notin {"deleted", "new"} => toAdd = {}
    /\ toAdd \subseteq view
    /\ \A e \in toDelete, d \in view \ toAdd : Alone(d) => e.value # d.value
    /\ syncPc \in {"select", "returned"} => before = view
    /\ syncComplete => before \cap toAdd = {}
    /\ ~ syncComplete /\ syncPc \in {"select", "returned"} => view = {}

(* The map holds every such decision of the view not still to be added,    *)
(* and besides only what is still to be deleted, each under its value.     *)
MapInv ==
    /\ \A d \in view \ toAdd : Alone(d) /\ HasValue(d) => decisions[d.value] = d
    /\ \A k \in Keys : decisions[k] # NoDecision =>
           /\ decisions[k].value = k /\ HasValue(decisions[k])
           /\ decisions[k] \in (view \ toAdd) \cup (toDelete \cap before)

\* The published table agrees with the map whenever no rebuild is due.
TableCurrent ==
    \A p \in Prefixes :
        /\ cidrs[p] # NoDecision => cidrs[p] \in view \cup toDelete
        /\ cidrs[p] = NoDecision => \A d \in Cached : IndexPrefix(d) # p

RebuildDue == cidrChanged /\ syncPc \in {"deleted", "new", "publish", "index"}

IndexInv ==
    /\ \A p \in Prefixes : cidrs[p] # NoDecision =>
           IndexPrefix(cidrs[p]) = p /\ cidrs[p] \in before \cup view
    /\ ~ RebuildDue => TableCurrent
    /\ syncComplete => \A d \in before \cap view :
           Alone(d) /\ IndexPrefix(d) # NoPrefix => cidrs[IndexPrefix(d)] # NoDecision

\* Every origin in the map is known; the gauges are exact once published.
GaugesInv ==
    /\ \A k \in Keys : decisions[k] # NoDecision =>
           decisions[k].origin \in knownOrigins \cup {NoOrigin}
    /\ \A o \in Origins \ knownOrigins : cacheSize[o] = 0
    /\ syncPc \notin {"deleted", "new", "publish"} => GaugesExact

(* What a lookup under way is promised and what it may see; once past the  *)
(* map it is owed no decision on the address itself.                       *)
ReaderInv ==
    \A r \in Readers :
        /\ pc[r] # "idle" => must[r] \subseteq Promised /\ before \cup view \subseteq may[r]
        /\ pc[r] = "load" => \A d \in must[r] : Alone(d) => d.value # ip[r]

IInv == /\ TypeOK /\ LapiInv /\ StreamInv /\ SyncInv
        /\ MapInv /\ IndexInv /\ GaugesInv /\ ReaderInv

-----------------------------------------------------------------------------
\* Facts about the map.

\* What the map holds are decisions of the LAPI.
LEMMA CachedAreDecisions ==
    ASSUME decisions \in [Keys -> Decisions \cup {NoDecision}]
    PROVE  Cached \subseteq Decisions
  BY DEF Cached

(* The map has finitely many keys, so an origin counts a natural number of *)
(* entries.                                                                *)
LEMMA CountOfType == \A o \in Origins : CountOf(o) \in Nat
<1> DEFINE Values == {d.value : d \in Decisions}
           f == [d \in Decisions |-> d.value]
<1>1. f \in Surjection(Decisions, Values)
  BY DEF Surjection
<1>2. IsFiniteSet(Values)
  BY <1>1, FS_Surjection, DecisionAssumption
<1>3. IsFiniteSet(Keys)
  BY <1>2, FS_Union, ClientAssumption DEF Keys
<1> QED
  BY <1>3, FS_Subset, FS_CardinalityType DEF CountOf

-----------------------------------------------------------------------------
\* Type correctness.

LEMMA AnswerType ==
    ASSUME TypeOK, NEW r \in Readers, NEW res \in Decisions \cup {NoDecision, GetError},
           Answer(r, res), UNCHANGED <<lapiVars, stream, ctxDone, syncVars>>
    PROVE  TypeOK'
  BY DEF TypeOK, Answer, lapiVars, syncVars, batchVars, cacheVars, statusVars, viewVars, Cached,
         Keys, Tables, Prefixes

LEMMA InitType == Init => TypeOK
<1> SUFFICES ASSUME Init PROVE TypeOK
  OBVIOUS
<1>1. EmptyTable \in Tables
  BY DEF EmptyTable, Tables
<1> QED
  BY <1>1 DEF Init, TypeOK, Batches, NoBatch

LEMMA NextType == TypeOK /\ [Next]_vars => TypeOK'
<1> SUFFICES ASSUME TypeOK, [Next]_vars PROVE TypeOK'
  OBVIOUS
<1> USE DEF lapiVars, batchVars, cacheVars, statusVars, readerVars, viewVars, syncVars
<1>1. ASSUME NEW d \in Decisions, Decide(d) PROVE TypeOK'
  BY <1>1 DEF TypeOK, Decide
<1>2. ASSUME NEW d \in Decisions, End(d) PROVE TypeOK'
  BY <1>2 DEF TypeOK, End
<1>3. CASE LapiDown
  BY <1>3 DEF TypeOK, LapiDown
<1>4. CASE LapiRecovers
  BY <1>4 DEF TypeOK, LapiRecovers
<1>5. CASE Pull
  <2>1. Active \subseteq Decisions
    BY DEF Active
  <2>2. stream' \in Batches
    BY <1>5, <2>1 DEF TypeOK, Pull, Batch, Batches
  <2> QED
    BY <1>5, <2>1, <2>2 DEF TypeOK, Pull
<1>6. CASE PullNil
  BY <1>6 DEF TypeOK, PullNil
<1>7. CASE Close
  BY <1>7 DEF TypeOK, Close
<1>8. CASE Cancel
  BY <1>8 DEF TypeOK, Cancel
<1>9. CASE Return
  BY <1>9 DEF TypeOK, Return
<1>10. CASE ReceiveNil
  BY <1>10 DEF TypeOK, ReceiveNil
<1>11. CASE Receive
  <2>1. stream \in Batches
    BY <1>11 DEF TypeOK, Receive, NoBatch, NilBatch, Closed
  <2>2. stream.deleted \subseteq Decisions /\ stream.new \subseteq Decisions /\ stream.active \subseteq Decisions
    BY <2>1 DEF Batches
  <2>3. must' \in [Readers -> SUBSET Decisions] /\ may' \in [Readers -> SUBSET Decisions]
    BY <1>11, <2>2 DEF TypeOK, Receive, Overlap
  <2> QED
    BY <1>11, <2>2, <2>3 DEF TypeOK, Receive, Overlap
<1>12. ASSUME NEW d \in Decisions, DeleteOne(d) PROVE TypeOK'
  BY <1>12 DEF TypeOK, DeleteOne, isScope
<1>13. ASSUME NEW d \in Decisions, AddOne(d) PROVE TypeOK'
  <2>1. knownOrigins' \subseteq Origins
    BY <1>13, OriginAssumption DEF TypeOK, AddOne
  <2> QED
    BY <1>13, <2>1 DEF TypeOK, AddOne, isScope
<1>14. CASE DeletedDone
  BY <1>14 DEF TypeOK, DeletedDone
<1>15. CASE NewDone
  BY <1>15 DEF TypeOK, NewDone
<1>16. CASE PublishCounts
  <2>1. \A o \in DOMAIN OriginCounts : o \in Origins => OriginCounts[o] \in Nat
    BY CountOfType DEF OriginCounts
  <2>2. cacheSize' \in [Origins -> Nat]
    <3> HIDE DEF OriginCounts
    <3> QED
      BY <1>16, <2>1 DEF TypeOK, PublishCounts
  <2> QED
    BY <1>16, <2>2 DEF TypeOK, PublishCounts
<1>17. CASE StoreIndex
  <2>1. cidrs' \in Tables
    BY <1>17, CachedAreDecisions, BuildIndexTable DEF TypeOK, StoreIndex
  <2> QED
    BY <1>17, <2>1 DEF TypeOK, StoreIndex
<1>18. CASE Complete
  BY <1>18 DEF TypeOK, Complete
<1>19. CASE HealthTick
  BY <1>19 DEF TypeOK, HealthTick
<1>20. ASSUME NEW r \in Readers, LookupNothing(r) PROVE TypeOK'
  BY <1>20, AnswerType DEF LookupNothing
<1>21. ASSUME NEW r \in Readers, NEW s \in ClientIPs, Lookup(r, s) PROVE TypeOK'
  <2>1. Promised \subseteq Decisions
    BY DEF TypeOK, Promised
  <2>2. must' \in [Readers -> SUBSET Decisions] /\ may' \in [Readers -> SUBSET Decisions]
    BY <1>21, <2>1 DEF TypeOK, Lookup
  <2> QED
    BY <1>21, <2>2 DEF TypeOK, Lookup
<1>22. ASSUME NEW r \in Readers, GetExact(r) PROVE TypeOK'
  <2>1. ip[r] \in Keys
    BY <1>22 DEF TypeOK, GetExact, Keys
  <2>2. CASE decisions[ip[r]] # NoDecision
    BY <1>22, <2>1, <2>2, AnswerType DEF TypeOK, GetExact
  <2>3. CASE decisions[ip[r]] = NoDecision
    BY <1>22, <2>3 DEF TypeOK, GetExact
  <2> QED
    BY <2>2, <2>3
<1>23. ASSUME NEW r \in Readers, GetIndexed(r) PROVE TypeOK'
  <2>1. lookup(cidrs, ip[r]) \in Decisions \cup {NoDecision}
    BY LookupType DEF TypeOK
  <2> QED
    BY <1>23, <2>1, AnswerType DEF GetIndexed
<1>24. CASE UNCHANGED vars
  BY <1>24 DEF TypeOK, vars
<1> QED
  BY <1>1, <1>2, <1>3, <1>4, <1>5, <1>6, <1>7, <1>8, <1>9, <1>10, <1>11, <1>12, <1>13, <1>14, <1>15,
     <1>16, <1>17, <1>18, <1>19, <1>20, <1>21, <1>22, <1>23, <1>24
     DEF Next, Lapi, Sync, GetDecision

(* Every variable holds values of its kind in every reachable state,       *)
(* whatever the LAPI holds: a lookup past its first check never runs on    *)
(* the empty address (GetDecision), counts are natural numbers, and the    *)
(* table published by buildIndex is defined on every prefix.               *)
THEOREM TypeCorrect == Spec => []TypeOK
<1> QED
  BY InitType, NextType, PTL DEF Spec

-----------------------------------------------------------------------------
\* The inductive invariant: what an action that leaves its variables alone preserves.

LEMMA LapiUntouched == LapiInv /\ UNCHANGED <<life, reported, gone>> => LapiInv'
  BY DEF LapiInv, Uniq, Active

LEMMA StreamUntouched == StreamInv /\ UNCHANGED <<stream, reported, view>> => StreamInv'
  BY DEF StreamInv

LEMMA SyncUntouched ==
    SyncInv /\ UNCHANGED <<syncPc, toDelete, toAdd, syncComplete, before, view>> => SyncInv'
  BY DEF SyncInv, Uniq

LEMMA MapUntouched ==
    MapInv /\ UNCHANGED <<decisions, toDelete, toAdd, before, view>> => MapInv'
  BY DEF MapInv

LEMMA IndexUntouched ==
    IndexInv /\ UNCHANGED <<cidrs, decisions, cidrChanged, toDelete, syncPc, syncComplete, before, view>>
        => IndexInv'
  BY DEF IndexInv, TableCurrent, RebuildDue, Cached

LEMMA GaugesUntouched ==
    GaugesInv /\ UNCHANGED <<decisions, knownOrigins, cacheSize, syncPc>> => GaugesInv'
  BY DEF GaugesInv, GaugesExact, CountOf

LEMMA ReaderUntouched ==
    ReaderInv /\ UNCHANGED <<pc, ip, must, may, syncComplete, before, view>> => ReaderInv'
  BY DEF ReaderInv, Promised

\* An action of the LAPI or of a request leaves the cache and Sync alone.
LEMMA SyncVarsUntouched ==
    IInv /\ UNCHANGED syncVars => SyncInv' /\ MapInv' /\ IndexInv' /\ GaugesInv'
  BY SyncUntouched, MapUntouched, IndexUntouched, GaugesUntouched
     DEF IInv, syncVars, batchVars, cacheVars, statusVars, viewVars

LEMMA InitInv == Init => IInv
<1> SUFFICES ASSUME Init PROVE IInv
  OBVIOUS
<1>1. TypeOK
  BY InitType
<1>2. LapiInv
  BY DEF Init, LapiInv, Uniq, Active
<1>3. StreamInv
  BY DEF Init, StreamInv, NoBatch
<1>4. SyncInv /\ MapInv /\ ReaderInv
  BY DEF Init, SyncInv, Uniq, MapInv, ReaderInv
<1>5. Cached = {} /\ \A k \in Keys : decisions[k] = NoDecision
  BY DEF Init, Cached
<1>6. IndexInv
  BY <1>5 DEF Init, IndexInv, TableCurrent, RebuildDue, EmptyTable
<1>7. \A o \in Origins : CountOf(o) = 0
  BY <1>5, FS_EmptySet DEF CountOf
<1>8. GaugesInv
  BY <1>5, <1>7 DEF Init, GaugesInv, GaugesExact
<1> QED
  BY <1>1, <1>2, <1>3, <1>4, <1>6, <1>8 DEF IInv

-----------------------------------------------------------------------------
\* The inductive invariant: the actions of the LAPI and the stream bouncer.

LEMMA LapiStep ==
    ASSUME IInv, Lapi \/ Cancel
    PROVE  IInv'
<1> USE DEF lapiVars, readerVars
<1>1. TypeOK'
  BY NextType DEF IInv, Next
<1>2. UNCHANGED syncVars /\ UNCHANGED readerVars
  BY DEF Lapi, Cancel, Decide, End, LapiDown, LapiRecovers, Pull, PullNil, Close
<1>3. SyncInv' /\ MapInv' /\ IndexInv' /\ GaugesInv'
  BY <1>2, SyncVarsUntouched
<1>4. ReaderInv' /\ UNCHANGED view
  BY <1>2, ReaderUntouched DEF IInv, syncVars, statusVars, viewVars
<1>5. LapiInv' /\ StreamInv'
  <2>1. ASSUME NEW d \in Decisions, Decide(d) PROVE LapiInv' /\ StreamInv'
    <3>1. Active' = Active \cup {d} /\ \A e \in Decisions : e # d => life'[e] = life[e]
      BY <2>1 DEF IInv, TypeOK, Decide, Active
    <3>2. d \notin reported
      BY <2>1 DEF IInv, LapiInv, Decide
    <3>3. Uniq(Active')
      <4>1. \A e \in Active : e \in Decisions /\ (Alone(d) \/ Alone(e)) /\ e.value = d.value => e = d
        BY <2>1 DEF Decide, Alone, Active
      <4> QED
        BY <3>1, <4>1 DEF IInv, LapiInv, Uniq, Active
    <3>4. UNCHANGED <<reported, gone>> /\ d \notin gone
      BY <2>1 DEF Decide, IInv, LapiInv
    <3>5. LapiInv'
      BY <3>1, <3>2, <3>3, <3>4 DEF IInv, TypeOK, LapiInv, Uniq
    <3> QED
      BY <2>1, <3>5, <1>4, StreamUntouched DEF IInv, Decide
  <2>2. ASSUME NEW d \in Decisions, End(d) PROVE LapiInv' /\ StreamInv'
    <3>1. Active' = Active \ {d} /\ life'[d] = "ended" /\ \A e \in Decisions : e # d => life'[e] = life[e]
      BY <2>2 DEF IInv, TypeOK, End, Active
    <3>2. \A e \in reported : Alone(e) /\ life[e] = "active" /\ e # d => e.value # d.value
      BY <2>2 DEF IInv, TypeOK, LapiInv, Uniq, Active, End
    <3>3. Uniq(Active')
      BY <3>1 DEF IInv, LapiInv, Uniq
    <3>4. UNCHANGED reported /\ gone' = gone \cup {d}
      BY <2>2 DEF End
    <3>5. LapiInv'
      BY <3>1, <3>2, <3>3, <3>4 DEF IInv, TypeOK, LapiInv, Uniq
    <3> QED
      BY <2>2, <3>5, <1>4, StreamUntouched DEF IInv, End
  <2>3. CASE Pull
    <3>1. reported = view
      BY <2>3 DEF IInv, StreamInv, Pull, NoBatch
    <3>2. reported' = Active /\ gone' = {} /\ UNCHANGED life /\ Active' = Active
      BY <2>3 DEF Pull, Active
    <3>3. \A d \in Active : d \in Decisions /\ life[d] = "active"
      BY DEF Active
    <3>4. LapiInv'
      BY <3>2, <3>3 DEF IInv, LapiInv, Uniq
    <3>5. view \ Active \subseteq gone
      BY <3>1 DEF IInv, TypeOK, LapiInv, Active
    <3>6. gone \cap Active = {}
      BY <3>3 DEF IInv, LapiInv
    <3>7. \A e \in gone, d \in view \cap Active : Alone(d) => e.value # d.value
      BY <3>1, <3>3 DEF IInv, LapiInv
    <3>8. stream' = Batch(gone, Active \ view, Active)
      BY <2>3, <3>1 DEF Pull
    <3>9. StreamInv'
      BY <1>4, <3>2, <3>5, <3>6, <3>7, <3>8 DEF StreamInv, Batch
    <3> QED
      BY <3>4, <3>9
  <2>4. CASE PullNil \/ Close
    <3>1. StreamInv'
      BY <2>4, <1>4 DEF IInv, StreamInv, PullNil, Close, NilBatch, Closed, NoBatch
    <3> QED
      BY <2>4, <3>1, LapiUntouched DEF IInv, PullNil, Close
  <2>5. CASE LapiDown \/ LapiRecovers \/ Cancel
    BY <2>5, <1>4, LapiUntouched, StreamUntouched DEF IInv, LapiDown, LapiRecovers, Cancel
  <2> QED
    BY <2>1, <2>2, <2>3, <2>4, <2>5 DEF Lapi
<1> QED
  BY <1>1, <1>3, <1>4, <1>5 DEF IInv

-----------------------------------------------------------------------------
\* The inductive invariant: the actions of Sync.

\* A value in the map is the value of a key; a decision of the map is cached.
LEMMA CachedFact ==
    ASSUME TypeOK
    PROVE  /\ \A k \in Keys : decisions[k] # NoDecision => decisions[k] \in Cached
           /\ \A d \in Cached : \E k \in Keys : decisions[k] = d /\ d # NoDecision
           /\ \A d \in Decisions : d.value \in Keys /\ d # NoDecision
  BY DecisionAssumption DEF Cached, Keys

\* With nothing left to delete or add, what the map holds is in the view.
LEMMA CachedInView ==
    ASSUME IInv, toDelete = {}, toAdd = {}
    PROVE  /\ \A d \in Cached : d \in view /\ HasValue(d)
           /\ \A d \in view : Alone(d) /\ HasValue(d) => d \in Cached
<1>1. \A d \in Cached : d \in view /\ HasValue(d)
  BY CachedFact DEF IInv, MapInv
<1>2. \A d \in view : Alone(d) /\ HasValue(d) => d \in Cached
  BY CachedFact DEF IInv, MapInv, TypeOK
<1> QED
  BY <1>1, <1>2

\* A decision with a prefix has a value and the scope Range.
LEMMA IndexedHasValue ==
    \A d : IndexPrefix(d) # NoPrefix => HasValue(d) /\ isScope(d, "Range")
  BY DEF IndexPrefix, HasValue, Nil

LEMMA PrefixFact ==
    /\ \A d \in Decisions : IndexPrefix(d) # NoPrefix => IndexPrefix(d) \in Prefixes
    /\ NoPrefix \notin Prefixes
  BY DEF Prefixes

LEMMA ReceiveStep ==
    ASSUME IInv, Receive
    PROVE  IInv'
<1>1. TypeOK'
  BY NextType DEF IInv, Next, Sync
<1>2. /\ stream.kind = "batch" /\ stream.active = reported /\ stream.new = reported \ view
      /\ view \ reported \subseteq stream.deleted /\ stream.deleted \cap reported = {}
      /\ \A e \in stream.deleted, d \in view \cap reported : Alone(d) => e.value # d.value
  BY DEF IInv, StreamInv, Receive
<1>3. /\ view' = reported /\ toAdd' = reported \ view /\ toDelete' = stream.deleted
      /\ syncPc = "select" /\ syncPc' = "deleted"
      /\ before' = IF syncComplete THEN view ELSE reported
  BY <1>2 DEF Receive
<1>4. UNCHANGED <<life, reported, gone, decisions, cidrs, knownOrigins, cacheSize, syncComplete>>
  BY DEF Receive, lapiVars, cacheVars, statusVars
<1>5. toDelete = {} /\ toAdd = {} /\ before = view /\ (~ syncComplete => view = {})
  BY <1>3 DEF IInv, SyncInv
<1>6. LapiInv'
  BY <1>4, LapiUntouched DEF IInv
<1>7. StreamInv'
  BY <1>3, <1>4 DEF Receive, StreamInv, NoBatch
<1>8. SyncInv'
  <2>1. Uniq(view')
    BY <1>3 DEF IInv, LapiInv
  <2> QED
    BY <1>2, <1>3, <1>4, <1>5, <2>1 DEF SyncInv, Uniq
<1>9. MapInv'
  BY <1>2, <1>3, <1>4, <1>5 DEF IInv, MapInv
<1>10. Cached' = Cached /\ \A d \in view : Alone(d) /\ HasValue(d) => d \in Cached
  BY <1>4, <1>5, CachedInView DEF Cached
<1>11. TableCurrent
  BY <1>3 DEF IInv, IndexInv, RebuildDue
<1>12. IndexInv'
  <2>1. \A p \in Prefixes : cidrs[p] # NoDecision =>
            IndexPrefix(cidrs[p]) = p /\ cidrs[p] \in before' \cup view'
    BY <1>3, <1>5 DEF IInv, IndexInv
  <2>2. TableCurrent'
    BY <1>2, <1>3, <1>4, <1>5, <1>10, <1>11 DEF TableCurrent
  <2>3. \A d \in before' \cap view' : syncComplete /\ Alone(d) /\ IndexPrefix(d) # NoPrefix =>
            cidrs[IndexPrefix(d)] # NoDecision
    BY <1>3, <1>10, <1>11, IndexedHasValue, PrefixFact DEF TableCurrent, IInv, TypeOK
  <2> QED
    BY <1>4, <2>1, <2>2, <2>3 DEF IndexInv
<1>13. GaugesInv'
  BY <1>3, <1>4 DEF IInv, GaugesInv
<1>14. ReaderInv'
  <2>1. /\ UNCHANGED <<pc, ip>>
        /\ must' = [r \in Readers |-> must[r] \cap reported]
        /\ may'  = [r \in Readers |-> IF pc[r] = "idle" THEN {} ELSE may[r] \cup reported]
    BY <1>2 DEF Receive, Overlap
  <2>2. Promised' = IF syncComplete THEN view \cap reported ELSE {}
    BY <1>3, <1>4 DEF Promised
  <2>3. Promised = IF syncComplete THEN view ELSE {}
    BY <1>5 DEF Promised
  <2> QED
    BY <1>3, <1>5, <2>1, <2>2, <2>3 DEF IInv, ReaderInv
<1> QED
  BY <1>1, <1>6, <1>7, <1>8, <1>9, <1>12, <1>13, <1>14 DEF IInv

LEMMA DeleteStep ==
    ASSUME IInv, NEW e \in Decisions, DeleteOne(e)
    PROVE  IInv'
<1>1. TypeOK'
  BY NextType DEF IInv, Next, Sync
<1>2. /\ syncPc = "deleted" /\ e \in toDelete /\ toDelete' = toDelete \ {e}
      /\ UNCHANGED <<life, reported, gone, stream, syncPc, toAdd, cidrs, knownOrigins, cacheSize,
                     syncComplete, before, view, pc, ip, must, may>>
  BY DEF DeleteOne, lapiVars, statusVars, viewVars, readerVars
<1>3. LapiInv' /\ StreamInv' /\ ReaderInv'
  BY <1>2, LapiUntouched, StreamUntouched, ReaderUntouched DEF IInv
<1>4. SyncInv'
  BY <1>2 DEF IInv, SyncInv
<1>5. \A k \in Keys : decisions'[k] = IF HasValue(e) /\ k = e.value THEN NoDecision ELSE decisions[k]
  BY DEF DeleteOne, IInv, TypeOK
<1>6. MapInv'
  <2>1. \A d \in view \ toAdd : (Alone(d) => d.value # e.value) /\ d.value \in Keys
    BY <1>2, CachedFact DEF IInv, SyncInv, TypeOK
  <2>2. \A d \in view \ toAdd : Alone(d) /\ HasValue(d) => decisions'[d.value] = d
    BY <1>5, <2>1 DEF IInv, MapInv
  <2>3. \A k \in Keys : decisions'[k] # NoDecision => decisions'[k] = decisions[k] /\ decisions[k] # e
    BY <1>5 DEF IInv, MapInv
  <2> QED
    BY <1>2, <2>2, <2>3 DEF IInv, MapInv
<1>7. IndexInv'
  <2>1. ASSUME ~ RebuildDue' PROVE TableCurrent'
    <3>1. ~ cidrChanged /\ ~ cidrChanged' /\ TableCurrent
      BY <1>2, <2>1 DEF DeleteOne, RebuildDue, IInv, IndexInv, TypeOK
    <3>2. IndexPrefix(e) = NoPrefix
      BY <3>1, IndexedHasValue DEF DeleteOne
    <3>3. \A p \in Prefixes : cidrs[p] # NoDecision => cidrs[p] # e
      BY <3>2, PrefixFact DEF IInv, IndexInv
    <3>4. Cached' \subseteq Cached
      BY <1>5 DEF Cached
    <3> QED
      BY <1>2, <3>1, <3>3, <3>4 DEF TableCurrent
  <2> QED
    BY <1>2, <2>1 DEF IInv, IndexInv
<1>8. GaugesInv'
  BY <1>2, <1>5 DEF IInv, GaugesInv
<1> QED
  BY <1>1, <1>3, <1>4, <1>6, <1>7, <1>8 DEF IInv

LEMMA AddStep ==
    ASSUME IInv, NEW e \in Decisions, AddOne(e)
    PROVE  IInv'
<1>1. TypeOK'
  BY NextType DEF IInv, Next, Sync
<1>2. /\ syncPc = "new" /\ e \in toAdd /\ toAdd' = toAdd \ {e} /\ e \in view
      /\ UNCHANGED <<life, reported, gone, stream, syncPc, toDelete, cidrs, cacheSize,
                     syncComplete, before, view, pc, ip, must, may>>
  BY DEF AddOne, lapiVars, statusVars, viewVars, readerVars, IInv, SyncInv
<1>3. LapiInv' /\ StreamInv' /\ ReaderInv'
  BY <1>2, LapiUntouched, StreamUntouched, ReaderUntouched DEF IInv
<1>4. toDelete = {} /\ Uniq(view) /\ (syncComplete => before \cap toAdd = {})
  BY <1>2 DEF IInv, SyncInv
<1>5. SyncInv'
  BY <1>2, <1>4 DEF IInv, SyncInv, Uniq
<1>6. \A k \in Keys : decisions'[k] = IF HasValue(e) /\ k = e.value THEN e ELSE decisions[k]
  BY DEF AddOne, IInv, TypeOK
<1>7. \A k \in Keys : decisions[k] # NoDecision =>
          decisions[k].value = k /\ HasValue(decisions[k]) /\ decisions[k] \in view \ toAdd
  BY <1>4 DEF IInv, MapInv
<1>8. MapInv'
  <2>1. \A d \in view \ toAdd : (Alone(d) => d.value # e.value) /\ d.value \in Keys
    BY <1>2, <1>4, CachedFact DEF Uniq, IInv, TypeOK
  <2>2. \A d \in view \ toAdd : Alone(d) /\ HasValue(d) => decisions'[d.value] = d
    BY <1>6, <2>1 DEF IInv, MapInv
  <2>3. HasValue(e) => decisions'[e.value] = e
    BY <1>6, CachedFact DEF IInv
  <2>4. \A k \in Keys : decisions'[k] # NoDecision =>
            decisions'[k].value = k /\ HasValue(decisions'[k]) /\ decisions'[k] \in view \ toAdd'
    BY <1>2, <1>6, <1>7
  <2> QED
    BY <1>2, <2>2, <2>3, <2>4 DEF MapInv
<1>9. IndexInv'
  <2>1. ASSUME ~ RebuildDue' PROVE TableCurrent'
    <3>1. ~ cidrChanged /\ ~ cidrChanged' /\ TableCurrent
      BY <1>2, <2>1 DEF AddOne, RebuildDue, IInv, IndexInv, TypeOK
    <3>2. IndexPrefix(e) = NoPrefix
      BY <3>1, IndexedHasValue DEF AddOne
    <3>3. Cached' \subseteq Cached \cup {e}
      BY <1>6 DEF Cached
    <3>4. \A p \in Prefixes : IndexPrefix(e) # p
      BY <3>2, PrefixFact
    <3> QED
      BY <1>2, <3>1, <3>3, <3>4 DEF TableCurrent
  <2> QED
    BY <1>2, <2>1 DEF IInv, IndexInv
<1>10. GaugesInv'
  <2>1. \A k \in Keys : decisions'[k] # NoDecision => decisions'[k].origin \in knownOrigins' \cup {NoOrigin}
    BY <1>6 DEF AddOne, IInv, GaugesInv
  <2>2. knownOrigins \subseteq knownOrigins'
    BY DEF AddOne
  <2> QED
    BY <1>2, <2>1, <2>2 DEF IInv, GaugesInv
<1> QED
  BY <1>1, <1>3, <1>5, <1>8, <1>9, <1>10 DEF IInv

LEMMA PublishStep ==
    ASSUME IInv, PublishCounts
    PROVE  IInv'
<1>1. TypeOK'
  BY NextType DEF IInv, Next, Sync
<1>2. /\ syncPc = "publish" /\ syncPc' = "index"
      /\ UNCHANGED <<life, reported, gone, stream, toDelete, toAdd, cidrChanged, decisions, cidrs,
                     knownOrigins, syncComplete, before, view, pc, ip, must, may>>
  BY DEF PublishCounts, lapiVars, batchVars, statusVars, viewVars, readerVars
<1>3. LapiInv' /\ StreamInv' /\ ReaderInv' /\ MapInv'
  BY <1>2, LapiUntouched, StreamUntouched, ReaderUntouched, MapUntouched DEF IInv
<1>4. SyncInv'
  BY <1>2 DEF IInv, SyncInv
<1>5. IndexInv'
  BY <1>2 DEF IInv, IndexInv, RebuildDue, TableCurrent, Cached
<1>6. GaugesInv'
  <2>1. \A o \in Origins : CountOf(o)' = CountOf(o) /\ CountOf(o) \in Nat
    BY <1>2, CountOfType DEF CountOf
  <2>2. ASSUME NEW o \in Origins, o \notin knownOrigins PROVE CountOf(o) = 0
    <3>1. {k \in Keys : decisions[k] # NoDecision /\ decisions[k].origin = o} = {}
      BY <2>2, OriginAssumption DEF IInv, GaugesInv
    <3> QED
      BY <3>1, FS_EmptySet DEF CountOf
  <2>3. ASSUME NEW o \in Origins PROVE cacheSize'[o] = CountOf(o)
    <3>1. CASE o \in knownOrigins
      BY <3>1 DEF PublishCounts, OriginCounts
    <3>2. CASE o \notin knownOrigins
      <4>1. CountOf(o) = 0 /\ cacheSize[o] = 0
        BY <2>2, <3>2 DEF IInv, GaugesInv
      <4>2. cacheSize'[o] = IF o \in DOMAIN OriginCounts THEN OriginCounts[o] ELSE cacheSize[o]
        BY DEF PublishCounts
      <4>3. o \in DOMAIN OriginCounts => OriginCounts[o] = CountOf(o)
        BY DEF OriginCounts
      <4> QED
        BY <4>1, <4>2, <4>3
    <3> QED
      BY <3>1, <3>2
  <2> QED
    BY <1>2, <2>1, <2>2, <2>3 DEF IInv, GaugesInv, GaugesExact
<1> QED
  BY <1>1, <1>3, <1>4, <1>5, <1>6 DEF IInv

LEMMA StoreIndexStep ==
    ASSUME IInv, StoreIndex
    PROVE  IInv'
<1>1. TypeOK'
  BY NextType DEF IInv, Next, Sync
<1>2. /\ syncPc = "index" /\ syncPc' = "complete"
      /\ UNCHANGED <<life, reported, gone, stream, toDelete, toAdd, cidrChanged, decisions,
                     knownOrigins, cacheSize, syncComplete, before, view, pc, ip, must, may>>
  BY DEF StoreIndex, lapiVars, batchVars, statusVars, viewVars, readerVars
<1>3. LapiInv' /\ StreamInv' /\ ReaderInv' /\ MapInv'
  BY <1>2, LapiUntouched, StreamUntouched, ReaderUntouched, MapUntouched DEF IInv
<1>4. SyncInv' /\ toDelete = {} /\ toAdd = {}
  BY <1>2 DEF IInv, SyncInv
<1>5. GaugesInv'
  BY <1>2 DEF IInv, GaugesInv, GaugesExact, CountOf
<1>6. /\ Cached' = Cached /\ Cached \subseteq view
      /\ \A d \in view : Alone(d) /\ HasValue(d) => d \in Cached
  BY <1>2, <1>4, CachedInView DEF Cached
<1>7. IndexInv'
  <2>1. CASE cidrChanged
    <3>1. Cached \subseteq Decisions /\ cidrs' \in buildIndex(Cached)
      BY <2>1, CachedAreDecisions DEF StoreIndex, IInv, TypeOK
    <3>2. /\ \A p \in Prefixes : cidrs'[p] # NoDecision => cidrs'[p] \in Cached /\ IndexPrefix(cidrs'[p]) = p
          /\ \A p \in Prefixes : cidrs'[p] = NoDecision => \A d \in Cached : IndexPrefix(d) # p
      BY <3>1, BuildIndexTable
    <3>3. \A d \in view : Alone(d) /\ IndexPrefix(d) # NoPrefix => cidrs'[IndexPrefix(d)] # NoDecision
      BY <1>6, <3>2, IndexedHasValue, PrefixFact DEF IInv, TypeOK
    <3>4. TableCurrent'
      BY <1>2, <1>6, <3>2 DEF TableCurrent
    <3> QED
      BY <1>2, <1>6, <3>2, <3>3, <3>4 DEF IndexInv
  <2>2. CASE ~ cidrChanged
    <3>1. UNCHANGED cidrs
      BY <2>2 DEF StoreIndex
    <3> QED
      BY <1>2, <2>2, <3>1 DEF IInv, IndexInv, RebuildDue, TableCurrent, Cached
  <2> QED
    BY <2>1, <2>2
<1> QED
  BY <1>1, <1>3, <1>4, <1>5, <1>7 DEF IInv

LEMMA CompleteStep ==
    ASSUME IInv, Complete
    PROVE  IInv'
<1>1. TypeOK'
  BY NextType DEF IInv, Next, Sync
<1>2. /\ syncPc = "complete" /\ syncPc' = "select" /\ syncComplete' = TRUE /\ before' = view
      /\ UNCHANGED <<life, reported, gone, stream, toDelete, toAdd, cidrChanged, decisions, cidrs,
                     knownOrigins, cacheSize, view, pc, ip, must, may>>
  BY DEF Complete, lapiVars, batchVars, cacheVars, readerVars
<1>3. LapiInv' /\ StreamInv'
  BY <1>2, LapiUntouched, StreamUntouched DEF IInv
<1>4. SyncInv' /\ toDelete = {} /\ toAdd = {}
  BY <1>2 DEF IInv, SyncInv
<1>5. MapInv'
  BY <1>2, <1>4 DEF IInv, MapInv
<1>6. GaugesInv'
  BY <1>2 DEF IInv, GaugesInv, GaugesExact, CountOf
<1>7. /\ Cached' = Cached /\ Cached \subseteq view
      /\ \A d \in view : Alone(d) /\ HasValue(d) => d \in Cached
  BY <1>2, <1>4, CachedInView DEF Cached
<1>8. IndexInv'
  <2>1. TableCurrent
    BY <1>2 DEF IInv, IndexInv, RebuildDue
  <2>2. \A p \in Prefixes : cidrs[p] # NoDecision => cidrs[p] \in view /\ IndexPrefix(cidrs[p]) = p
    BY <1>4, <2>1 DEF TableCurrent, IInv, IndexInv
  <2>3. \A d \in view : Alone(d) /\ IndexPrefix(d) # NoPrefix => cidrs[IndexPrefix(d)] # NoDecision
    BY <1>7, <2>1, IndexedHasValue, PrefixFact DEF TableCurrent, IInv, TypeOK
  <2> QED
    BY <1>2, <1>7, <2>1, <2>2, <2>3 DEF IndexInv, TableCurrent
<1>9. ReaderInv'
  BY <1>2 DEF IInv, ReaderInv, Promised
<1> QED
  BY <1>1, <1>3, <1>4, <1>5, <1>6, <1>8, <1>9 DEF IInv

\* The other actions of Sync move its program counter or only report.
LEMMA PlainSyncStep ==
    ASSUME IInv, Return \/ ReceiveNil \/ DeletedDone \/ NewDone \/ HealthTick
    PROVE  IInv'
<1>1. TypeOK'
  BY NextType DEF IInv, Next, Sync
<1>2. UNCHANGED <<life, reported, gone, toDelete, toAdd, cidrChanged, decisions, cidrs, knownOrigins,
                  cacheSize, syncComplete, before, view, pc, ip, must, may>>
  BY DEF Return, ReceiveNil, DeletedDone, NewDone, HealthTick, lapiVars, syncVars, batchVars,
         cacheVars, statusVars, viewVars, readerVars
<1>3. \/ syncPc' = syncPc
      \/ syncPc = "select" /\ syncPc' = "returned"
      \/ syncPc = "deleted" /\ toDelete = {} /\ syncPc' = "new"
      \/ syncPc = "new" /\ toAdd = {} /\ syncPc' = "publish"
  BY DEF Return, ReceiveNil, DeletedDone, NewDone, HealthTick, syncVars
<1>4. LapiInv' /\ ReaderInv' /\ MapInv'
  BY <1>2, LapiUntouched, ReaderUntouched, MapUntouched DEF IInv
<1>5. StreamInv'
  BY <1>2 DEF IInv, StreamInv, Return, ReceiveNil, DeletedDone, NewDone, HealthTick, NilBatch, NoBatch
<1>6. SyncInv'
  BY <1>2, <1>3 DEF IInv, SyncInv
<1>7. IndexInv'
  BY <1>2, <1>3 DEF IInv, IndexInv, RebuildDue, TableCurrent, Cached
<1>8. GaugesInv'
  BY <1>2, <1>3 DEF IInv, GaugesInv, GaugesExact, CountOf
<1> QED
  BY <1>1, <1>4, <1>5, <1>6, <1>7, <1>8 DEF IInv

-----------------------------------------------------------------------------
\* The inductive invariant: lookups.

LEMMA ReaderStep ==
    ASSUME IInv, NEW r \in Readers, GetDecision(r)
    PROVE  IInv'
<1>1. TypeOK'
  BY NextType DEF IInv, Next
<1>2. UNCHANGED <<life, reported, gone, stream, syncVars>>
  BY DEF GetDecision, LookupNothing, Lookup, GetExact, GetIndexed, lapiVars
<1>3. UNCHANGED <<syncComplete, before, view>> /\ Promised' = Promised
  BY <1>2 DEF syncVars, statusVars, viewVars, Promised
<1>4. SyncInv' /\ MapInv' /\ IndexInv' /\ GaugesInv'
  BY <1>2, SyncVarsUntouched
<1>5. LapiInv' /\ StreamInv'
  BY <1>2, <1>3, LapiUntouched, StreamUntouched DEF IInv
<1>6. ReaderInv'
  <2>1. ASSUME NEW res, Answer(r, res) PROVE ReaderInv'
    BY <1>3, <2>1 DEF Answer, IInv, TypeOK, ReaderInv
  <2>2. CASE LookupNothing(r)
    BY <2>1, <2>2 DEF LookupNothing
  <2>3. ASSUME NEW s \in ClientIPs, Lookup(r, s) PROVE ReaderInv'
    BY <1>3, <2>3 DEF Lookup, IInv, TypeOK, ReaderInv
  <2>4. CASE GetExact(r)
    <3>1. CASE decisions[ip[r]] # NoDecision
      BY <2>1, <2>4, <3>1 DEF GetExact
    <3>2. CASE decisions[ip[r]] = NoDecision
      <4>1. \A d \in must[r] : Alone(d) => d.value # ip[r]
        <5>1. must[r] \subseteq Promised /\ ip[r] # Nil
          BY <2>4, ClientAssumption DEF GetExact, IInv, ReaderInv, TypeOK
        <5>2. \A d \in Promised : d \in view \ toAdd /\ d \in Decisions
          BY DEF Promised, IInv, SyncInv, TypeOK
        <5>3. \A d \in view \ toAdd : Alone(d) /\ d.value # Nil => decisions[d.value] = d
          BY DEF IInv, MapInv, HasValue
        <5> QED
          BY <3>2, <5>1, <5>2, <5>3, DecisionAssumption
      <4>2. pc' = [pc EXCEPT ![r] = "load"] /\ UNCHANGED <<ip, must, may>>
        BY <2>4, <3>2 DEF GetExact
      <4> QED
        BY <1>3, <2>4, <4>1, <4>2 DEF GetExact, IInv, TypeOK, ReaderInv
    <3> QED
      BY <3>1, <3>2
  <2>5. CASE GetIndexed(r)
    BY <2>1, <2>5 DEF GetIndexed
  <2> QED
    BY <2>2, <2>3, <2>4, <2>5 DEF GetDecision
<1> QED
  BY <1>1, <1>4, <1>5, <1>6 DEF IInv

LEMMA NextInv ==
    ASSUME IInv, [Next]_vars
    PROVE  IInv'
<1>1. CASE Lapi \/ Cancel
  BY <1>1, LapiStep
<1>2. CASE Sync
  BY <1>2, ReceiveStep, DeleteStep, AddStep, PublishStep, StoreIndexStep, CompleteStep, PlainSyncStep
     DEF Sync
<1>3. CASE HealthTick
  BY <1>3, PlainSyncStep
<1>4. ASSUME NEW r \in Readers, GetDecision(r) PROVE IInv'
  BY <1>4, ReaderStep
<1>5. CASE UNCHANGED vars
  <2>1. TypeOK'
    BY NextType DEF IInv
  <2>2. UNCHANGED <<life, reported, gone, stream, syncVars, pc, ip, must, may>> /\ UNCHANGED syncVars
    BY <1>5 DEF vars, lapiVars, readerVars
  <2>3. UNCHANGED <<syncComplete, before, view>>
    BY <2>2 DEF syncVars, statusVars, viewVars
  <2> QED
    BY <2>1, <2>2, <2>3, LapiUntouched, StreamUntouched, SyncVarsUntouched, ReaderUntouched DEF IInv
<1> QED
  BY <1>1, <1>2, <1>3, <1>4, <1>5 DEF Next

\* The invariant holds of every reachable state, whatever the LAPI decides.
LEMMA Invariance == Spec => []IInv
<1>1. IInv /\ [Next]_vars => IInv'
  BY NextInv
<1> QED
  BY InitInv, <1>1, PTL DEF Spec

-----------------------------------------------------------------------------
\* The properties.

\* With one active decision per value no decision is displaced.
LEMMA AllAlone == ASSUME OneDecisionPerValue = TRUE PROVE \A d : Alone(d)
  BY DEF Alone

(* Sharing a value harms none but the decisions that share it: from        *)
(* readiness on, in the middle of a batch as well, the map and the index   *)
(* hold every decision that the LAPI reports before and after the batch    *)
(* and whose value no other decision has (Sync), whatever the others do.   *)
THEOREM UnsharedPromiseHolds == Spec => [](\A d \in Promised : Alone(d) => Enforced(d))
<1>1. ASSUME IInv, NEW d \in Promised, Alone(d) PROVE Enforced(d)
  <2>1. syncComplete /\ d \in before \cap view /\ d \notin toAdd
    BY <1>1 DEF Promised, IInv, SyncInv
  <2> QED
    BY <1>1, <2>1 DEF Enforced, IInv, MapInv, IndexInv
<1>2. IInv => \A d \in Promised : Alone(d) => Enforced(d)
  BY <1>1
<1> QED
  BY <1>2, Invariance, PTL

(* From readiness on, in the middle of a batch as well, the map and the    *)
(* index hold every decision that the LAPI reports before and after the    *)
(* batch (Sync), whatever the order of the slices and however many there   *)
(* are.                                                                    *)
THEOREM PromiseHolds ==
    ASSUME OneDecisionPerValue = TRUE
    PROVE  Spec => []PromiseKept
<1>1. (\A d \in Promised : Alone(d) => Enforced(d)) => PromiseKept
  BY AllAlone DEF PromiseKept
<1> QED
  BY <1>1, UnsharedPromiseHolds, PTL

(* The map and the index never hold a decision that neither the last batch *)
(* nor the one before it reports, also when the LAPI holds several         *)
(* decisions on one value, which overwrite and delete one another.         *)
THEOREM NothingForeignHolds == Spec => []NothingForeign
<1>1. ASSUME IInv PROVE NothingForeign
  <2>1. Cached \subseteq before \cup view
    BY <1>1, CachedFact DEF IInv, MapInv
  <2>2. Indexed \subseteq before \cup view
    BY <1>1 DEF Indexed, IInv, IndexInv
  <2> QED
    BY <2>1, <2>2 DEF NothingForeign
<1> QED
  BY <1>1, Invariance, PTL

(* Between batches nothing that ended is left in the map or in the index,  *)
(* and every origin's gauge is its count, whatever the LAPI decides.       *)
THEOREM NothingLeftOver ==
    Spec => [](syncPc \in {"select", "returned"} => Cached \cup Indexed \subseteq view /\ GaugesExact)
<1>1. ASSUME IInv, syncPc \in {"select", "returned"} PROVE Cached \cup Indexed \subseteq view /\ GaugesExact
  <2>1. toDelete = {} /\ toAdd = {} /\ before = view
    BY <1>1 DEF IInv, SyncInv
  <2>2. Cached \subseteq view
    BY <1>1, <2>1, CachedInView
  <2>3. Indexed \subseteq view
    BY <1>1, <2>1 DEF Indexed, IInv, IndexInv
  <2>4. GaugesExact
    BY <1>1 DEF IInv, GaugesInv
  <2> QED
    BY <2>2, <2>3, <2>4
<1>2. IInv => (syncPc \in {"select", "returned"} => Cached \cup Indexed \subseteq view /\ GaugesExact)
  BY <1>1
<1> QED
  BY <1>2, Invariance, PTL

(* Between batches the map is exactly the LAPI's list, the index one that  *)
(* buildIndex could build from it, and every origin's gauge its count.     *)
THEOREM InSyncHolds ==
    ASSUME OneDecisionPerValue = TRUE
    PROVE  Spec => []InSync
<1>1. ASSUME IInv, syncPc \in {"select", "returned"} PROVE MapExact /\ IndexExact /\ GaugesExact
  <2>1. toDelete = {} /\ toAdd = {}
    BY <1>1 DEF IInv, SyncInv
  <2>2. MapExact
    BY <1>1, <2>1, CachedInView, AllAlone DEF MapExact
  <2>3. IndexExact
    <3>1. Cached \subseteq Decisions /\ cidrs \in Tables
      BY <1>1, CachedAreDecisions DEF IInv, TypeOK
    <3>2. TableCurrent
      BY <1>1 DEF IInv, IndexInv, RebuildDue
    <3>3. \A p \in Prefixes : cidrs[p] # NoDecision => cidrs[p] \in view /\ IndexPrefix(cidrs[p]) = p
      BY <1>1, <2>1, <3>2 DEF TableCurrent, IInv, IndexInv
    <3>4. \A p \in Prefixes : cidrs[p] # NoDecision => cidrs[p] \in Cached
      BY <2>2, <3>3, IndexedHasValue, PrefixFact DEF MapExact
    <3>5. \A p \in Prefixes : cidrs[p] = NoDecision => \A d \in Cached : IndexPrefix(d) # p
      BY <3>2 DEF TableCurrent
    <3> QED
      BY <3>1, <3>3, <3>4, <3>5, TableIsBuilt DEF IndexExact
  <2>4. GaugesExact
    BY <1>1 DEF IInv, GaugesInv
  <2> QED
    BY <2>2, <2>3, <2>4
<1>2. IInv => InSync
  BY <1>1 DEF InSync
<1> QED
  BY <1>2, Invariance, PTL

(* With one active decision per value the cache holds, as the documentation*)
(* says, an entry for the value of every decision in force; the run that   *)
(* refutes it lets two decisions share a value (Sync deletes by value).    *)
THEOREM EveryValueHeldHolds ==
    ASSUME OneDecisionPerValue = TRUE
    PROVE  Spec => []EveryValueHeld
<1>1. ASSUME IInv, syncPc = "select", NEW d \in view, HasValue(d)
      PROVE  decisions[d.value] # NoDecision
  <2>1. toAdd = {} /\ d \in Decisions
    BY <1>1 DEF IInv, SyncInv, TypeOK
  <2>2. decisions[d.value] = d
    BY <1>1, <2>1, AllAlone DEF IInv, MapInv
  <2> QED
    BY <2>1, <2>2, DecisionAssumption
<1>2. IInv => EveryValueHeld
  BY <1>1 DEF EveryValueHeld
<1> QED
  BY <1>2, Invariance, PTL

\* A step in which a lookup answers is one of GetDecision's two reads.
LEMMA AnswerStep ==
    ASSUME TypeOK, [Next]_vars, NEW r \in Readers, Answers(r)
    PROVE  \/ /\ pc[r] = "get" /\ decisions[ip[r]] # NoDecision
              /\ result'[r] = decisions[ip[r]]
           \/ /\ pc[r] = "load"
              /\ result'[r] = lookup(cidrs, ip[r])
<1>1. pc' # pc
  BY DEF Answers
<1>2. PICK q \in Readers : GetDecision(q)
  BY <1>1 DEF Next, Lapi, Cancel, Sync, HealthTick, vars, readerVars, Decide, End, LapiDown, LapiRecovers,
     Pull, PullNil, Close, Return, ReceiveNil, Receive, Overlap, DeleteOne, DeletedDone, AddOne, NewDone,
     PublishCounts, StoreIndex, Complete
<1>3. q = r
  BY <1>2 DEF TypeOK, Answers, GetDecision, LookupNothing, Lookup, GetExact, GetIndexed, Answer
<1>4. GetExact(r) \/ GetIndexed(r)
  BY <1>2, <1>3 DEF TypeOK, Answers, GetDecision, LookupNothing, Lookup
<1> QED
  BY <1>4 DEF TypeOK, Answers, GetExact, GetIndexed, Answer

(* An answer is a decision about the address that some list told of while  *)
(* the lookup was under way.                                               *)
LEMMA AnswerSound ==
    ASSUME IInv, [Next]_vars, NEW r \in Readers, Answers(r), result'[r] # NoDecision
    PROVE  result'[r] \in may[r] /\ IsAbout(result'[r], ip[r])
<1>1. before \cup view \subseteq may[r] /\ ip[r] \in ClientIPs /\ ip[r] \in Keys
  BY DEF Answers, IInv, ReaderInv, TypeOK, Keys
<1>2. CASE pc[r] = "get" /\ decisions[ip[r]] # NoDecision /\ result'[r] = decisions[ip[r]]
  BY <1>1, <1>2 DEF IInv, MapInv, IsAbout
<1>3. CASE pc[r] = "load" /\ result'[r] = lookup(cidrs, ip[r])
  <2>1. PICK p \in Hits(cidrs, ip[r]) : result'[r] = cidrs[p] /\ ip[r].kind = "addr"
    BY <1>3, LookupLongest DEF IInv, TypeOK
  <2>2. p \in Prefixes /\ cidrs[p] # NoDecision /\ Contains(p, Unmap(ip[r]))
    BY <2>1 DEF Hits
  <2>3. IndexPrefix(cidrs[p]) = p /\ cidrs[p] \in before \cup view
    BY <2>2 DEF IInv, IndexInv
  <2>4. Covers(cidrs[p], ip[r])
    BY <2>1, <2>2, <2>3, PrefixFact DEF Covers
  <2> QED
    BY <1>1, <2>1, <2>3, <2>4 DEF IsAbout
<1> QED
  BY <1>2, <1>3, AnswerStep DEF IInv

\* An answer does justice to every decision in force throughout the lookup.
LEMMA AnswerComplete ==
    ASSUME IInv, [Next]_vars, NEW r \in Readers, Answers(r), NEW d \in must[r], Alone(d)
    PROVE  Meets(result'[r], d, ip[r])
<1>1. d \in Promised /\ ip[r] \in ClientIPs /\ ip[r] \in Keys /\ ip[r] # Nil
  BY ClientAssumption DEF Answers, IInv, ReaderInv, TypeOK, Keys
<1>2. d \in Decisions /\ d \in view \ toAdd /\ syncComplete /\ d \in before \cap view
  BY <1>1 DEF Promised, IInv, SyncInv, TypeOK
<1>3. CASE pc[r] = "get" /\ decisions[ip[r]] # NoDecision /\ result'[r] = decisions[ip[r]]
  <2>1. result'[r].value = ip[r]
    BY <1>1, <1>3 DEF IInv, MapInv
  <2>2. d.value = ip[r] => decisions[ip[r]] = d
    BY <1>1, <1>2 DEF IInv, MapInv, HasValue
  <2> QED
    BY <1>3, <2>1, <2>2 DEF Meets
<1>4. CASE pc[r] = "load" /\ result'[r] = lookup(cidrs, ip[r])
  <2>1. d.value # ip[r]
    BY <1>4 DEF IInv, ReaderInv
  <2>2. ASSUME Covers(d, ip[r]) PROVE result'[r] # NoDecision /\ AsNarrow(result'[r], d)
    <3>1. IndexPrefix(d) \in Prefixes /\ cidrs[IndexPrefix(d)] # NoDecision
      BY <1>2, <2>2, PrefixFact DEF Covers, IInv, IndexInv
    <3>2. IndexPrefix(d) \in Hits(cidrs, ip[r]) /\ ip[r].kind = "addr"
      BY <2>2, <3>1 DEF Covers, Hits
    <3>3. PICK p \in Hits(cidrs, ip[r]) :
              result'[r] = cidrs[p] /\ \A q \in Hits(cidrs, ip[r]) : q.len <= p.len
      <4>1. cidrs \in Tables
        BY DEF IInv, TypeOK
      <4> QED
        BY <1>4, <3>2, <4>1, LookupLongest
    <3>4. p \in Prefixes /\ cidrs[p] # NoDecision /\ IndexPrefix(cidrs[p]) = p
      BY <3>3 DEF Hits, IInv, IndexInv
    <3>5. IndexPrefix(d).len <= p.len /\ IndexPrefix(d).len \in 0 .. V6Bits /\ p.len \in 0 .. V6Bits
      BY <3>1, <3>2, <3>3, <3>4, PrefixLength
    <3> QED
      BY <3>3, <3>4, <3>5, PrefixFact, WidthAssumption DEF AsNarrow
  <2> QED
    BY <2>1, <2>2 DEF Meets
<1> QED
  BY <1>3, <1>4, AnswerStep DEF IInv

(* A lookup answers with a decision about its address that the LAPI had    *)
(* reported at some time during the lookup (GetDecision), although batches *)
(* may be applied between its two reads, and also when the LAPI holds      *)
(* several decisions on one value.                                         *)
THEOREM LookupSoundHolds == Spec => LookupSound
<1>1. IInv /\ [Next]_vars =>
        [\A r \in Readers : Answers(r) /\ result'[r] # NoDecision =>
            result'[r] \in may[r] /\ IsAbout(result'[r], ip[r])]_vars
  BY AnswerSound
<1> QED
  BY <1>1, Invariance, PTL DEF Spec, LookupSound

(* A lookup begun after readiness never misses a decision in force         *)
(* throughout whose value no other decision has: it returns the decision   *)
(* on the address itself, or one on a range at least as narrow (the two    *)
(* reads of GetDecision).                                                  *)
THEOREM UnsharedLookupHolds ==
    Spec => [][\A r \in Readers : Answers(r) =>
                   \A d \in must[r] : Alone(d) => Meets(result'[r], d, ip[r])]_vars
<1>1. IInv /\ [Next]_vars =>
        [\A r \in Readers : Answers(r) =>
            \A d \in must[r] : Alone(d) => Meets(result'[r], d, ip[r])]_vars
  BY AnswerComplete
<1> QED
  BY <1>1, Invariance, PTL DEF Spec

(* With one active decision per value it misses none.                      *)
THEOREM LookupCompleteHolds ==
    ASSUME OneDecisionPerValue = TRUE
    PROVE  Spec => LookupComplete
<1>1. IInv /\ [Next]_vars =>
        [\A r \in Readers : Answers(r) => \A d \in must[r] : Meets(result'[r], d, ip[r])]_vars
  BY AnswerComplete, AllAlone
<1> QED
  BY <1>1, Invariance, PTL DEF Spec, LookupComplete

(* The same, without prefixes: an address that such a decision names, by a *)
(* range in whatever spelling, is always answered, by the address itself or*)
(* by a decision on a range that holds the address and is no larger        *)
(* (buildIndex, GetDecision).                                              *)
THEOREM RangeNeverMissed ==
    Spec => [][\A r \in Readers : Answers(r) =>
                   \A d \in must[r] :
                       Alone(d) /\ CoversByRange(d, ip[r]) =>
                           LET res == result'[r]
                           IN  /\ res # NoDecision
                               /\ res.value = ip[r]
                                  \/ /\ CoversByRange(res, ip[r])
                                     /\ Cardinality(Meaning(res)) <= Cardinality(Meaning(d))]_vars
<1>. DEFINE Served(r, d, res) ==
                /\ res # NoDecision
                /\ res.value = ip[r]
                   \/ /\ CoversByRange(res, ip[r])
                      /\ Cardinality(Meaning(res)) <= Cardinality(Meaning(d))
<1>1. ASSUME IInv, [Next]_vars, NEW r \in Readers, Answers(r), NEW d \in must[r], Alone(d),
             CoversByRange(d, ip[r])
      PROVE  Served(r, d, result'[r])
  <2>1. d \in Decisions /\ ip[r] \in Strings
    BY <1>1, ClientAssumption DEF Answers, IInv, TypeOK
  <2>2. Covers(d, ip[r])
    BY <1>1, <2>1, CoversMeaning
  <2>3. result'[r] # NoDecision /\ (result'[r].value = ip[r] \/ AsNarrow(result'[r], d))
    BY <1>1, <2>2, AnswerComplete DEF Meets
  <2>4. result'[r] \in may[r] /\ IsAbout(result'[r], ip[r])
    BY <1>1, <2>3, AnswerSound
  <2>5. result'[r] \in Decisions
    BY <1>1, <2>4 DEF IInv, TypeOK
  <2>6. CASE result'[r].value = ip[r]
    BY <2>3, <2>6
  <2>7. CASE result'[r].value # ip[r]
    <3>1. Covers(result'[r], ip[r])
      BY <2>4, <2>7 DEF IsAbout
    <3>2. CoversByRange(result'[r], ip[r])
      BY <2>1, <2>5, <3>1, CoversMeaning
    <3>3. IndexPrefix(d).len <= IndexPrefix(result'[r]).len
      <4>1. AsNarrow(result'[r], d) /\ IndexPrefix(d) # NoPrefix
        BY <2>2, <2>3, <2>7 DEF Covers
      <4>2. IndexPrefix(d).len \in Nat /\ IndexPrefix(result'[r]).len \in Nat
        BY <2>1, <2>5, <4>1, MeaningIsPrefix DEF AsNarrow
      <4>. QED
        BY <4>1, <4>2 DEF AsNarrow
    <3>4. Cardinality(Meaning(result'[r])) <= Cardinality(Meaning(d))
      BY <2>1, <2>2, <2>5, <3>1, <3>3, LongerIsNarrower
    <3>. QED
      BY <2>3, <3>2, <3>4
  <2>. QED
    BY <2>6, <2>7
<1>2. IInv /\ [Next]_vars =>
        [\A r \in Readers : Answers(r) =>
            \A d \in must[r] : Alone(d) /\ CoversByRange(d, ip[r]) => Served(r, d, result'[r])]_vars
  BY <1>1
<1>. QED
  BY <1>2, Invariance, PTL DEF Spec

-----------------------------------------------------------------------------
\* The refinement: every step of the cache is a step of the service or none.

Asking == {r \in Readers : pc[r] # "idle"}

LEMMA InitImplements == Init => Service!Init
BY DEF Init, Service!Init

\* Steps of the LAPI, of the ticker, and most of Sync's change nothing the service knows of.
LEMMA HiddenStep ==
    ASSUME UNCHANGED <<view, before, syncComplete, pc, ip, result, must, may>>
    PROVE  UNCHANGED Service!vars
BY DEF Service!vars

LEMMA ReceiveArrives ==
    ASSUME IInv, Receive
    PROVE  Service!Arrives
<1>1. before = view
  BY DEF Receive, IInv, SyncInv
<1>2. stream.active \in SUBSET Decisions /\ view' = stream.active
  BY DEF Receive, IInv, TypeOK, Batches, NoBatch, NilBatch, Closed
<1>3. /\ must' = [r \in Readers |-> must[r] \cap view']
      /\ may' = [r \in Readers |-> IF r \in Asking THEN may[r] \cup view' ELSE {}]
  BY <1>2 DEF Receive, Overlap, Asking
<1> QED
  BY <1>1, <1>2, <1>3 DEF Receive, Overlap, statusVars, Service!Arrives, Asking

LEMMA CompleteTakesOver ==
    ASSUME Complete
    PROVE  Service!TakesOver
BY DEF Complete, readerVars, Service!TakesOver

LEMMA LookupAsks ==
    ASSUME IInv, NEW r \in Readers, NEW s \in ClientIPs, Lookup(r, s)
    PROVE  Service!Ask(r, s)
<1>1. Asking' = Asking \cup {r} /\ r \notin Asking
  BY DEF Lookup, IInv, TypeOK, Asking
<1> QED
  BY <1>1 DEF Lookup, Asking, Promised, syncVars, statusVars, viewVars, Service!Ask

\* A call that returns is no longer open.
LEMMA AnswerCloses ==
    ASSUME TypeOK, NEW r \in Readers, NEW res, Answer(r, res), UNCHANGED syncVars
    PROVE  Service!Close(r, res)
<1>1. Asking' = Asking \ {r}
  BY DEF Answer, TypeOK, Asking
<1> QED
  BY <1>1 DEF Answer, Asking, syncVars, statusVars, viewVars, Service!Close

LEMMA GetDecisionImplements ==
    ASSUME IInv, OneDecisionPerValue = TRUE, NEW r \in Readers, GetDecision(r)
    PROVE  [Service!Next]_(Service!vars)
<1> USE DEF Service!Next
<1>0. [Next]_vars
  BY DEF Next
<1>1. CASE LookupNothing(r)
  <2>1. Service!Close(r, GetError)
    BY <1>1, AnswerCloses DEF LookupNothing, IInv
  <2>2. Service!Refuse(r)
    BY <1>1, <2>1 DEF LookupNothing, Service!Refuse
  <2> QED
    BY <2>2
<1>2. CASE \E s \in ClientIPs : Lookup(r, s)
  BY <1>2, LookupAsks
<1>3. CASE GetExact(r) /\ decisions[ip[r]] = NoDecision
  <2>1. Asking' = Asking
    BY <1>3 DEF GetExact, IInv, TypeOK, Asking
  <2> QED
    BY <1>3, <2>1 DEF GetExact, Asking, syncVars, statusVars, viewVars, Service!vars
<1>4. ASSUME NEW res, res \in Decisions \cup {NoDecision}, pc[r] # "idle", Answer(r, res),
             UNCHANGED syncVars
      PROVE  [Service!Next]_(Service!vars)
  <2>1. Answers(r) /\ result'[r] = res
    BY <1>4 DEF Answer, Answers, IInv, TypeOK
  <2>2. r \in Asking /\ Service!Close(r, res)
    BY <1>4, AnswerCloses DEF Asking, IInv
  <2>3. res # NoDecision => res \in may[r] /\ IsAbout(res, ip[r])
    BY <1>0, <2>1, AnswerSound
  <2>4. \A d \in must[r] : Meets(res, d, ip[r])
    BY <1>0, <2>1, AnswerComplete, AllAlone
  <2>5. Service!Answer(r, res)
    BY <2>2, <2>3, <2>4 DEF Service!Answer, Asking
  <2> QED
    BY <1>4, <2>5
<1>5. CASE GetExact(r) /\ decisions[ip[r]] # NoDecision
  <2>1. ip[r] \in Keys
    BY <1>5 DEF GetExact, IInv, TypeOK, Keys
  <2> QED
    BY <1>4, <1>5, <2>1 DEF GetExact, IInv, TypeOK
<1>6. CASE GetIndexed(r)
  <2>1. lookup(cidrs, ip[r]) \in Decisions \cup {NoDecision}
    BY LookupType DEF IInv, TypeOK
  <2> QED
    BY <1>4, <1>6, <2>1 DEF GetIndexed
<1> QED
  BY <1>1, <1>2, <1>3, <1>5, <1>6 DEF GetDecision

LEMMA NextImplements ==
    ASSUME IInv, OneDecisionPerValue = TRUE, [Next]_vars
    PROVE  [Service!Next]_(Service!vars)
<1>1. CASE Receive
  BY <1>1, ReceiveArrives DEF Service!Next
<1>2. CASE Complete
  BY <1>2, CompleteTakesOver DEF Service!Next
<1>3. CASE Lapi \/ Cancel \/ HealthTick \/ UNCHANGED vars
  <2>1. UNCHANGED <<view, before, syncComplete, pc, ip, result, must, may>>
    BY <1>3 DEF Lapi, Pull, LapiDown, LapiRecovers, PullNil, Close, Decide, End, Cancel, HealthTick, vars,
       syncVars, statusVars, viewVars, readerVars
  <2> QED
    BY <2>1, HiddenStep
<1>4. ASSUME Sync, ~ Receive, ~ Complete PROVE UNCHANGED Service!vars
  <2>1. UNCHANGED <<view, before, syncComplete, pc, ip, result, must, may>>
    BY <1>4 DEF Sync, Return, ReceiveNil, DeleteOne, AddOne, DeletedDone, NewDone, PublishCounts, StoreIndex,
       syncVars, statusVars, viewVars, readerVars
  <2> QED
    BY <2>1, HiddenStep
<1>5. CASE \E r \in Readers : GetDecision(r)
  BY <1>5, GetDecisionImplements
<1> QED
  BY <1>1, <1>2, <1>3, <1>4, <1>5 DEF Next

(* The cache implements DecisionService, for any decisions and any number  *)
(* of lookups at once: entry by entry it behaves like whole lists of the   *)
(* LAPI, from which every answer is read at once (Sync, GetDecision).      *)
THEOREM Implements ==
    ASSUME OneDecisionPerValue = TRUE
    PROVE  Spec => ImplementsService
<1>1. IInv /\ [Next]_vars => [Service!Next]_(Service!vars)
  BY NextImplements
<1> QED
  BY <1>1, InitImplements, Invariance, PTL DEF Spec, ImplementsService, Service!Spec

=============================================================================
