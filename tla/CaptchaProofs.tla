---------------------------- MODULE CaptchaProofs ----------------------------
(***************************************************************************)
(* Proofs about Captcha, for any browsers, addresses, workers, durations,  *)
(* faults and bounds: its types, its four safety invariants, how often one *)
(* challenge can be spent, and that the service implements ChallengeDesk.  *)
(***************************************************************************)
EXTENDS Captcha, FiniteSetTheorems, SequenceTheorems, TLAPS

\* The challenges issued keep to their bound, and one not yet issued was never granted.
IssuedInv ==
    /\ Len(issued) <= MaxChallenges
    /\ \A i \in 1 .. MaxChallenges : i \notin Ids => granted[i] = 0

\* A cookie agrees with the challenge it was granted for.
JarInv ==
    \A c \in Clients : jar[c] # NoSession =>
        /\ jar[c] \in Sessions /\ jar[c].chal \in Ids
        /\ jar[c].ip = issued[jar[c].chal].ip
        /\ jar[c].exp < issued[jar[c].chal].exp + RequestTimeout + SessionDuration

(* A verification under way is for the address of its challenge; it began  *)
(* before that expired, and not longer ago than the provider is waited for.*)
WorkerInv ==
    \A w \in Workers : pc[w] # "idle" =>
        /\ req[w].ip = issued[req[w].chal].ip
        /\ req[w].start < issued[req[w].chal].exp
        /\ now <= req[w].start + RequestTimeout

(* What is stored has bought nothing yet, and neither had what the provider*)
(* is asked about; what has been solved is not stored any more.            *)
SpentInv ==
    ReplayProtection =>
        /\ \A i \in stored : granted[i] = 0
        /\ \A w \in Workers : pc[w] = "provider" => req[w].fresh
        /\ \A w \in Workers : pc[w] \in {"deleted", "solved"} => req[w].chal \notin stored

\* The gauge against the cache; the sets it is reckoned with are finite.
PendingInv ==
    /\ IsFiniteSet(stored) /\ IsFiniteSet(uncounted) /\ IsFiniteSet(Deleting)
    /\ PendingAccounted

IInv == TypeOK /\ IssuedInv /\ JarInv /\ WorkerInv /\ SpentInv /\ PendingInv

LEMMA InitInv == Init => IInv
<1>. SUFFICES ASSUME Init PROVE IInv
  OBVIOUS
<1>1. issued = <<>> /\ Len(issued) = 0 /\ Ids = {} /\ issued \in Seq(Challenges)
  BY DEF Init, Ids
<1>2. TypeOK
  BY <1>1, DurationAssumption, SwitchAssumption DEF Init, TypeOK
<1>3. IssuedInv /\ JarInv /\ WorkerInv /\ SpentInv
  BY <1>1, DurationAssumption DEF Init, IssuedInv, JarInv, WorkerInv, SpentInv
<1>4. PendingInv
  <2>1. Deleting = {}
    BY DEF Init, Deleting
  <2>. QED
    BY <2>1, FS_EmptySet DEF Init, PendingInv, PendingAccounted
<1>. QED
  BY <1>2, <1>3, <1>4 DEF IInv

\* Challenges issued earlier stay as they were when one more is issued.
LEMMA OneMore ==
  ASSUME issued \in Seq(Challenges), NEW x \in Challenges, issued' = Append(issued, x)
  PROVE  /\ issued' \in Seq(Challenges) /\ Len(issued') = Len(issued) + 1
         /\ \A i \in Ids : i \in Ids' /\ issued'[i] = issued[i]
         /\ Len(issued) \in Nat /\ Len(issued) + 1 \notin Ids /\ Len(issued) + 1 \in Ids'
  BY AppendProperties DEF Ids

\* The numbers the gauge is reckoned with are numbers.
LEMMA Reckoned ==
  ASSUME IInv
  PROVE  /\ Cardinality(stored) \in Nat /\ Cardinality(uncounted) \in Nat
         /\ Cardinality(Deleting) \in Nat /\ pending \in Int /\ missed \in Nat
  BY FS_CardinalityType DEF IInv, PendingInv, TypeOK

\* What moves neither cache nor gauge, nor who is between the two, keeps the ledger.
LEMMA LedgerKept ==
  ASSUME IInv, UNCHANGED <<stored, pending, uncounted, swept, missed, Deleting>>
  PROVE  PendingInv'
  BY DEF IInv, PendingInv, PendingAccounted

LEMMA TickInv == IInv /\ Tick => IInv'
<1>. SUFFICES ASSUME IInv, Tick PROVE IInv'
  OBVIOUS
<1>0. UNCHANGED <<ReplayProtection, at, jar, issued, stored, pending, uncounted, swept, missed,
                  pc, req, granted>>
  BY DEF Tick, cache, workers
<1>1. TypeOK'
  BY <1>0 DEF IInv, TypeOK, Tick, Ids
<1>2. WorkerInv'
  <2>. SUFFICES ASSUME NEW w \in Workers, pc[w] # "idle"
                PROVE  now + 1 <= req[w].start + RequestTimeout
    BY <1>0 DEF IInv, WorkerInv, Tick
  <2>1. now \in Nat /\ req[w].start \in Nat /\ now < req[w].start + RequestTimeout
    BY DEF IInv, TypeOK, Requests, Tick
  <2>. QED
    BY <2>1, DurationAssumption
<1>3. PendingInv'
  BY <1>0, LedgerKept DEF Deleting
<1>. QED
  BY <1>0, <1>1, <1>2, <1>3 DEF IInv, Ids, IssuedInv, JarInv, SpentInv

LEMMA RoamInv == ASSUME IInv, NEW c \in Clients, Roam(c) PROVE IInv'
<1>0. UNCHANGED <<ReplayProtection, now, jar, issued, stored, pending, uncounted, swept, missed,
                  pc, req, granted>>
  BY DEF Roam, cache, workers
<1>1. TypeOK'
  BY <1>0 DEF IInv, TypeOK, Roam, Ids
<1>2. PendingInv'
  BY <1>0, LedgerKept DEF Deleting
<1>. QED
  BY <1>0, <1>1, <1>2 DEF IInv, Ids, IssuedInv, JarInv, WorkerInv, SpentInv

LEMMA RestartInv == IInv /\ Restart => IInv'
<1>. SUFFICES ASSUME IInv, Restart PROVE IInv'
  OBVIOUS
<1>1. TypeOK'
  BY DEF IInv, TypeOK, Restart, Ids
<1>2. PendingInv'
  <2>1. Deleting' = {}
    BY DEF Restart, Deleting
  <2>. QED
    BY <2>1, FS_EmptySet DEF Restart, PendingInv, PendingAccounted
<1>. QED
  BY <1>1, <1>2 DEF IInv, Restart, Ids, IssuedInv, JarInv, WorkerInv, SpentInv

LEMMA CreateSessionInv == ASSUME IInv, NEW c \in Clients, CreateSession(c) PROVE IInv'
<1>. DEFINE x == [ip |-> at[c], exp |-> now + ChallengeDuration]
            n == Len(issued) + 1
<1>1. x \in Challenges /\ issued \in Seq(Challenges)
  BY DurationAssumption DEF IInv, TypeOK, Challenges
<1>2. issued' = Append(issued, x)
  BY DEF CreateSession
<1>. HIDE DEF x
<1>3. /\ issued' \in Seq(Challenges) /\ Len(issued') = Len(issued) + 1
      /\ \A i \in Ids : i \in Ids' /\ issued'[i] = issued[i]
      /\ Len(issued) \in Nat /\ n \notin Ids /\ n \in Ids'
  BY <1>1, <1>2, OneMore
<1>4. /\ ReplayProtection => stored' = stored \cup {n} /\ uncounted' = uncounted \cup {n}
      /\ ~ ReplayProtection => UNCHANGED <<stored, uncounted>>
      /\ UNCHANGED <<ReplayProtection, now, at, jar, pending, swept, missed, pc, req, granted>>
      /\ Len(issued) < MaxChallenges
  BY DEF CreateSession, workers
<1>. HIDE DEF n
<1>5. TypeOK'
  BY <1>3, <1>4 DEF IInv, TypeOK
<1>6. IssuedInv'
  BY <1>3, <1>4, DurationAssumption DEF IInv, IssuedInv
<1>7. JarInv'
  BY <1>3, <1>4 DEF IInv, JarInv
<1>8. WorkerInv'
  BY <1>3, <1>4 DEF IInv, TypeOK, WorkerInv
<1>9. SpentInv'
  <2>1. granted[n] = 0
    <3>1. n \in 1 .. MaxChallenges
      BY <1>3, <1>4, DurationAssumption DEF n
    <3>. QED
      BY <1>3, <3>1 DEF IInv, IssuedInv
  <2>2. \A w \in Workers : pc[w] # "idle" => req[w].chal # n
    BY <1>3 DEF IInv, TypeOK
  <2>. QED
    BY <1>4, <2>1, <2>2 DEF IInv, SpentInv
<1>10. PendingInv'
  <2>0. UNCHANGED Deleting
    BY <1>4 DEF Deleting
  <2>1. CASE ReplayProtection
    <3>1. n \notin stored /\ n \notin uncounted
      BY <1>3 DEF IInv, TypeOK
    <3>2. IsFiniteSet(stored) /\ IsFiniteSet(uncounted)
      BY DEF IInv, PendingInv
    <3>3. /\ IsFiniteSet(stored') /\ Cardinality(stored') = Cardinality(stored) + 1
          /\ IsFiniteSet(uncounted') /\ Cardinality(uncounted') = Cardinality(uncounted) + 1
      BY <1>4, <2>1, <3>1, <3>2, FS_AddElement
    <3>4. PendingAccounted'
      <4>. DEFINE k == IF swept = 0 THEN 0 ELSE 1
      <4>1. pending + Cardinality(uncounted) + missed + k = Cardinality(stored) + Cardinality(Deleting)
        BY DEF IInv, PendingInv, PendingAccounted
      <4>2. k \in Nat /\ (IF swept' = 0 THEN 0 ELSE 1) = k
        BY <1>4
      <4>. HIDE DEF k
      <4>3. pending + (Cardinality(uncounted) + 1) + missed + k = Cardinality(stored) + 1 + Cardinality(Deleting)
        BY <4>1, <4>2, Reckoned
      <4>. QED
        BY <1>4, <2>0, <3>3, <4>2, <4>3 DEF PendingAccounted
    <3>. QED
      BY <2>0, <3>3, <3>4 DEF IInv, PendingInv
  <2>2. CASE ~ ReplayProtection
    BY <1>4, <2>0, <2>2, LedgerKept
  <2>. QED
    BY <2>1, <2>2
<1>. QED
  BY <1>5, <1>6, <1>7, <1>8, <1>9, <1>10 DEF IInv

LEMMA IncPendingInv == ASSUME IInv, NEW i \in Ids, IncPending(i) PROVE IInv'
<1>1. /\ i \in uncounted /\ pending' = pending + 1 /\ uncounted' = uncounted \ {i}
      /\ UNCHANGED <<ReplayProtection, now, at, jar, issued, stored, swept, missed, pc, req, granted>>
  BY DEF IncPending, workers
<1>2. TypeOK'
  BY <1>1 DEF IInv, TypeOK, Ids
<1>3. PendingInv'
  <2>1. UNCHANGED Deleting
    BY <1>1 DEF Deleting
  <2>2. IsFiniteSet(uncounted') /\ Cardinality(uncounted') = Cardinality(uncounted) - 1
    BY <1>1, FS_RemoveElement DEF IInv, PendingInv
  <2>3. PendingAccounted'
    BY <1>1, <2>1, <2>2, Reckoned DEF IInv, PendingInv, PendingAccounted
  <2>. QED
    BY <1>1, <2>1, <2>2, <2>3 DEF IInv, PendingInv
<1>. QED
  BY <1>1, <1>2, <1>3 DEF IInv, Ids, IssuedInv, JarInv, WorkerInv, SpentInv

LEMMA VerifyResponseInv ==
  ASSUME IInv, NEW w \in Workers, NEW c \in Clients, NEW i \in Ids, VerifyResponse(w, c, i)
  PROVE  IInv'
<1>. DEFINE r == [chal |-> i, client |-> c, ip |-> at[c], start |-> now, fresh |-> granted[i] = 0]
<1>1. i \in Nat /\ i \in 1 .. MaxChallenges
  BY DurationAssumption DEF IInv, TypeOK, IssuedInv, Ids
<1>2. r \in Requests
  BY <1>1 DEF IInv, TypeOK, Requests
<1>3. /\ req' = [req EXCEPT ![w] = r] /\ pc[w] = "idle" /\ pc' = [pc EXCEPT ![w] = "provider"]
      /\ UNCHANGED <<ReplayProtection, now, at, jar, issued, stored, pending, uncounted, swept,
                     missed, granted>>
  BY DEF VerifyResponse, cache
<1>4. r.chal = i /\ r.ip = at[c] /\ r.start = now /\ r.fresh = (granted[i] = 0)
  OBVIOUS
<1>5. now < issued[i].exp /\ issued[i].ip = at[c] /\ (ReplayProtection => i \in stored)
  BY DEF VerifyResponse, CheckChallengeToken, VerifyIPHash
<1>. HIDE DEF r
<1>6. TypeOK'
  BY <1>2, <1>3, <1>4 DEF IInv, TypeOK, Ids
<1>7. WorkerInv'
  <2>1. now \in Nat
    BY DEF IInv, TypeOK
  <2>. QED
    BY <1>3, <1>4, <1>5, <2>1, DurationAssumption DEF IInv, TypeOK, WorkerInv
<1>8. SpentInv'
  <2>1. ReplayProtection => r.fresh
    BY <1>4, <1>5 DEF IInv, SpentInv
  <2>. QED
    BY <1>3, <2>1 DEF IInv, TypeOK, SpentInv
<1>9. PendingInv'
  <2>1. UNCHANGED Deleting
    BY <1>3 DEF Deleting, IInv, TypeOK
  <2>. QED
    BY <1>3, <2>1, LedgerKept
<1>. QED
  BY <1>3, <1>6, <1>7, <1>8, <1>9 DEF IInv, Ids, IssuedInv, JarInv

LEMMA ProviderRefusesInv == ASSUME IInv, NEW w \in Workers, ProviderRefuses(w) PROVE IInv'
<1>1. /\ pc[w] = "provider" /\ pc' = [pc EXCEPT ![w] = "idle"]
      /\ req' = [req EXCEPT ![w] = NoRequest]
      /\ UNCHANGED <<ReplayProtection, now, at, jar, issued, stored, pending, uncounted, swept,
                     missed, granted>>
  BY DEF ProviderRefuses, cache
<1>2. TypeOK'
  BY <1>1 DEF IInv, TypeOK, Ids
<1>3. WorkerInv' /\ SpentInv'
  BY <1>1 DEF IInv, TypeOK, WorkerInv, SpentInv
<1>4. PendingInv'
  <2>1. UNCHANGED Deleting
    BY <1>1 DEF Deleting, IInv, TypeOK
  <2>. QED
    BY <1>1, <2>1, LedgerKept
<1>. QED
  BY <1>1, <1>2, <1>3, <1>4 DEF IInv, Ids, IssuedInv, JarInv

LEMMA ProviderAcceptsInv == ASSUME IInv, NEW w \in Workers, ProviderAccepts(w) PROVE IInv'
<1>. DEFINE k == req[w].chal
<1>1. /\ swept = 0 /\ pc[w] = "provider" /\ k \in Ids
      /\ UNCHANGED <<ReplayProtection, now, at, jar, issued, pending, uncounted, swept, req, granted>>
  BY DEF ProviderAccepts, IInv, TypeOK
<1>2. ASSUME ReplayProtection
      PROVE  /\ stored' = stored \ {k} /\ pc' = [pc EXCEPT ![w] = "deleted"]
             /\ missed' = IF k \in stored THEN missed ELSE missed + 1
  BY <1>2 DEF ProviderAccepts
<1>3. ASSUME ~ ReplayProtection
      PROVE  pc' = [pc EXCEPT ![w] = "solved"] /\ UNCHANGED <<stored, missed>>
  BY <1>3 DEF ProviderAccepts
<1>. HIDE DEF k
<1>4. /\ pc' \in [Workers -> {"idle", "provider", "solved"}
                                \cup (IF ReplayProtection THEN {"deleted"} ELSE {})]
      /\ \A v \in Workers : v # w => pc'[v] = pc[v]
      /\ pc'[w] = IF ReplayProtection THEN "deleted" ELSE "solved"
  BY <1>2, <1>3 DEF IInv, TypeOK
<1>5. TypeOK'
  <2>1. stored' \subseteq Ids /\ missed' \in Nat /\ swept' \in stored' \cup {0}
    <3>1. stored \subseteq Ids /\ missed \in Nat
      BY DEF IInv, TypeOK
    <3>2. CASE ReplayProtection
      BY <1>1, <1>2, <3>1, <3>2
    <3>3. CASE ~ ReplayProtection
      BY <1>1, <1>3, <3>1, <3>3
    <3>. QED
      BY <3>2, <3>3
  <2>2. ~ ReplayProtection => stored' = {} /\ missed' = 0
    BY <1>3 DEF IInv, TypeOK
  <2>3. \A v \in Workers : pc'[v] # "idle" => pc[v] # "idle"
    BY <1>1, <1>4
  <2>4. \A v \in Workers : pc'[v] # "idle" => req'[v] \in Requests /\ req'[v].chal \in Ids
    BY <1>1, <2>3 DEF IInv, TypeOK
  <2>5. /\ ReplayProtection' = ReplayProtection /\ Ids' = Ids /\ uncounted' = uncounted
        /\ pending' = pending
    BY <1>1 DEF Ids
  <2>. QED
    BY <1>1, <1>4, <2>1, <2>2, <2>4, <2>5 DEF IInv, TypeOK
<1>6. WorkerInv'
  BY <1>1, <1>4 DEF IInv, WorkerInv
<1>7. SpentInv'
  <2>. SUFFICES ASSUME ReplayProtection PROVE SpentInv'
    BY <1>1 DEF SpentInv
  <2>1. \A i \in stored' : i \in stored /\ i # k
    BY <1>2
  <2>. QED
    BY <1>1, <1>4, <2>1 DEF IInv, SpentInv, k
<1>8. PendingInv'
  <2>1. CASE ReplayProtection
    <3>1. Deleting' = Deleting \cup {w} /\ w \notin Deleting
      BY <1>1, <1>4, <2>1 DEF Deleting
    <3>2. /\ IsFiniteSet(Deleting') /\ Cardinality(Deleting') = Cardinality(Deleting) + 1
      BY <3>1, FS_AddElement DEF IInv, PendingInv
    <3>3. /\ IsFiniteSet(stored')
          /\ Cardinality(stored') = IF k \in stored THEN Cardinality(stored) - 1 ELSE Cardinality(stored)
      BY <1>2, <2>1, FS_RemoveElement DEF IInv, PendingInv
    <3>4. PendingAccounted'
      <4>1. pending + Cardinality(uncounted) + missed = Cardinality(stored) + Cardinality(Deleting)
        BY <1>1, Reckoned DEF IInv, PendingInv, PendingAccounted
      <4>2. pending + Cardinality(uncounted) + missed' = Cardinality(stored') + Cardinality(Deleting')
        <5>1. missed' = IF k \in stored THEN missed ELSE missed + 1
          BY <1>2, <2>1
        <5>2. CASE k \in stored
          <6>1. missed' = missed /\ Cardinality(stored') = Cardinality(stored) - 1
            BY <3>3, <5>1, <5>2
          <6>. QED
            BY <3>2, <4>1, <6>1, Reckoned
        <5>3. CASE k \notin stored
          <6>1. missed' = missed + 1 /\ Cardinality(stored') = Cardinality(stored)
            BY <3>3, <5>1, <5>3
          <6>. QED
            BY <3>2, <4>1, <6>1, Reckoned
        <5>. QED
          BY <5>2, <5>3
      <4>3. /\ missed' \in Nat /\ pending' = pending /\ uncounted' = uncounted
            /\ (IF swept' = 0 THEN 0 ELSE 1) = 0
        BY <1>1, <1>5 DEF TypeOK
      <4>4. pending' + Cardinality(uncounted') + missed' + 0 = Cardinality(stored') + Cardinality(Deleting')
        BY <4>2, <4>3, Reckoned
      <4>. QED
        BY <4>3, <4>4 DEF PendingAccounted
    <3>. QED
      BY <1>1, <3>2, <3>3, <3>4 DEF IInv, PendingInv
  <2>2. CASE ~ ReplayProtection
    <3>1. UNCHANGED Deleting
      BY <1>1, <1>4, <2>2 DEF Deleting
    <3>. QED
      BY <1>1, <1>3, <2>2, <3>1, LedgerKept
  <2>. QED
    BY <2>1, <2>2
<1>. QED
  BY <1>1, <1>5, <1>6, <1>7, <1>8 DEF IInv, Ids, IssuedInv, JarInv

LEMMA DecPendingInv == ASSUME IInv, NEW w \in Workers, DecPending(w) PROVE IInv'
<1>1. /\ pc[w] = "deleted" /\ pending' = pending - 1 /\ pc' = [pc EXCEPT ![w] = "solved"]
      /\ UNCHANGED <<ReplayProtection, now, at, jar, issued, stored, uncounted, swept, missed,
                     req, granted>>
  BY DEF DecPending
<1>2. ReplayProtection
  BY <1>1 DEF IInv, TypeOK
<1>3. TypeOK'
  BY <1>1, <1>2 DEF IInv, TypeOK, Ids
<1>4. WorkerInv' /\ SpentInv'
  BY <1>1 DEF IInv, TypeOK, WorkerInv, SpentInv
<1>5. PendingInv'
  <2>1. Deleting' = Deleting \ {w} /\ w \in Deleting
    BY <1>1 DEF Deleting, IInv, TypeOK
  <2>2. IsFiniteSet(Deleting') /\ Cardinality(Deleting') = Cardinality(Deleting) - 1
    BY <2>1, FS_RemoveElement DEF IInv, PendingInv
  <2>3. PendingAccounted'
    BY <1>1, <2>2, Reckoned DEF IInv, PendingInv, PendingAccounted
  <2>. QED
    BY <1>1, <2>2, <2>3 DEF IInv, PendingInv
<1>. QED
  BY <1>1, <1>3, <1>4, <1>5 DEF IInv, Ids, IssuedInv, JarInv

LEMMA GrantInv == ASSUME IInv, NEW w \in Workers, Grant(w) PROVE IInv'
<1>. DEFINE k == req[w].chal
            s == Session(req[w])
<1>1. req[w] \in Requests /\ k \in Ids /\ k \in 1 .. MaxChallenges /\ req[w].client \in Clients
  BY DurationAssumption DEF IInv, TypeOK, IssuedInv, Grant, Ids, Requests
<1>2. s \in Sessions /\ s.chal = k /\ s.ip = req[w].ip /\ s.exp = now + SessionDuration
  BY <1>1, DurationAssumption DEF IInv, TypeOK, Session, Sessions, Requests
<1>3. /\ pc[w] = "solved"
      /\ pc' = [pc EXCEPT ![w] = "idle"] /\ req' = [req EXCEPT ![w] = NoRequest]
      /\ granted' = [granted EXCEPT ![k] = @ + 1]
      /\ jar' = [jar EXCEPT ![req[w].client] = s] \/ jar' = jar
      /\ UNCHANGED <<ReplayProtection, now, at, issued, stored, pending, uncounted, swept, missed>>
  BY DEF Grant, cache
<1>5. /\ req[w].ip = issued[k].ip /\ req[w].start < issued[k].exp
      /\ now <= req[w].start + RequestTimeout
  BY DEF IInv, WorkerInv, Grant
<1>6. now \in Nat /\ req[w].start \in Nat /\ issued[k].exp \in Nat
  <2>1. issued[k] \in Challenges
    BY <1>1, ElementOfSeq DEF IInv, TypeOK, Ids
  <2>. QED
    BY <1>1, <2>1 DEF IInv, TypeOK, Requests, Challenges
<1>. HIDE DEF k, s
<1>7. \A v \in Workers : pc'[v] # "idle" => req'[v] = req[v] /\ pc'[v] = pc[v]
  BY <1>3 DEF IInv, TypeOK
<1>8. TypeOK'
  <2>1. granted' \in [1 .. MaxChallenges -> Nat]
    BY <1>1, <1>3 DEF IInv, TypeOK
  <2>2. jar' \in [Clients -> Sessions \cup {NoSession}]
    BY <1>1, <1>2, <1>3 DEF IInv, TypeOK
  <2>. QED
    BY <1>3, <1>7, <2>1, <2>2 DEF IInv, TypeOK, Ids
<1>9. IssuedInv'
  BY <1>1, <1>3 DEF IInv, TypeOK, IssuedInv, Ids
<1>10. JarInv'
  <2>1. s.exp < issued[k].exp + RequestTimeout + SessionDuration
    BY <1>2, <1>5, <1>6, DurationAssumption
  <2>. QED
    BY <1>1, <1>2, <1>3, <1>5, <2>1 DEF IInv, TypeOK, JarInv, Ids
<1>11. WorkerInv'
  BY <1>3, <1>7 DEF IInv, WorkerInv
<1>12. SpentInv'
  <2>. SUFFICES ASSUME ReplayProtection PROVE SpentInv'
    BY <1>3 DEF SpentInv
  <2>1. \A i \in stored' : granted'[i] = 0
    <3>1. k \notin stored /\ \A i \in stored : granted[i] = 0
      BY <1>3 DEF IInv, SpentInv, k
    <3>2. \A i \in stored : i \in 1 .. MaxChallenges
      BY DurationAssumption DEF IInv, TypeOK, IssuedInv, Ids
    <3>. QED
      BY <1>1, <1>3, <3>1, <3>2 DEF IInv, TypeOK
  <2>. QED
    BY <1>3, <1>7, <2>1 DEF IInv, SpentInv
<1>13. PendingInv'
  <2>1. UNCHANGED Deleting
    BY <1>3 DEF Deleting, IInv, TypeOK
  <2>. QED
    BY <1>3, <2>1, LedgerKept
<1>. QED
  BY <1>8, <1>9, <1>10, <1>11, <1>12, <1>13 DEF IInv

LEMMA SweepCountsInv == ASSUME IInv, NEW i \in Ids, SweepCounts(i) PROVE IInv'
<1>1. /\ swept = 0 /\ i \in stored /\ pending' = pending - 1 /\ swept' = i /\ i # 0
      /\ UNCHANGED <<ReplayProtection, now, at, jar, issued, stored, uncounted, missed, pc, req, granted>>
  BY DEF SweepCounts, workers, Ids
<1>2. TypeOK'
  BY <1>1 DEF IInv, TypeOK, Ids
<1>3. PendingInv'
  <2>1. UNCHANGED Deleting
    BY <1>1 DEF Deleting
  <2>2. PendingAccounted'
    BY <1>1, <2>1, Reckoned DEF IInv, PendingInv, PendingAccounted
  <2>. QED
    BY <1>1, <2>1, <2>2 DEF IInv, PendingInv
<1>. QED
  BY <1>1, <1>2, <1>3 DEF IInv, Ids, IssuedInv, JarInv, WorkerInv, SpentInv

LEMMA SweepDeletesInv == IInv /\ SweepDeletes => IInv'
<1>. SUFFICES ASSUME IInv, SweepDeletes PROVE IInv'
  OBVIOUS
<1>1. /\ swept # 0 /\ stored' = stored \ {swept} /\ swept' = 0
      /\ UNCHANGED <<ReplayProtection, now, at, jar, issued, pending, uncounted, missed, pc, req, granted>>
  BY DEF SweepDeletes, workers
<1>2. swept \in stored
  BY <1>1 DEF IInv, TypeOK
<1>3. TypeOK'
  BY <1>1 DEF IInv, TypeOK, Ids
<1>4. PendingInv'
  <2>1. UNCHANGED Deleting
    BY <1>1 DEF Deleting
  <2>2. IsFiniteSet(stored') /\ Cardinality(stored') = Cardinality(stored) - 1
    BY <1>1, <1>2, FS_RemoveElement DEF IInv, PendingInv
  <2>3. PendingAccounted'
    BY <1>1, <2>1, <2>2, Reckoned DEF IInv, PendingInv, PendingAccounted
  <2>. QED
    BY <1>1, <2>1, <2>2, <2>3 DEF IInv, PendingInv
<1>. QED
  BY <1>1, <1>3, <1>4 DEF IInv, Ids, IssuedInv, JarInv, WorkerInv, SpentInv

LEMMA NextInv == IInv /\ [Next]_vars => IInv'
<1>. SUFFICES ASSUME IInv, [Next]_vars PROVE IInv'
  OBVIOUS
<1>1. CASE Tick \/ Restart
  BY <1>1, TickInv, RestartInv
<1>2. CASE Cleanup
  BY <1>2, SweepCountsInv, SweepDeletesInv DEF Cleanup
<1>3. CASE \E c \in Clients : Roam(c) \/ CreateSession(c)
  BY <1>3, RoamInv, CreateSessionInv
<1>4. CASE \E i \in Ids : IncPending(i)
  BY <1>4, IncPendingInv
<1>5. CASE \E w \in Workers, c \in Clients : \E i \in HandedOut : VerifyResponse(w, c, i)
  BY <1>5, VerifyResponseInv DEF HandedOut
<1>6. CASE \E w \in Workers : Worker(w)
  BY <1>6, ProviderRefusesInv, ProviderAcceptsInv, DecPendingInv, GrantInv DEF Worker
<1>7. CASE UNCHANGED vars
  <2>1. PendingInv'
    BY <1>7, LedgerKept DEF vars, cache, workers, Deleting
  <2>. QED
    BY <1>7, <2>1 DEF vars, cache, workers, IInv, TypeOK, Ids, IssuedInv, JarInv, WorkerInv, SpentInv
<1>. QED
  BY <1>1, <1>2, <1>3, <1>4, <1>5, <1>6, <1>7 DEF Next

-----------------------------------------------------------------------------
(* Every variable keeps to its type; without replay protection nothing is  *)
(* stored.                                                                 *)
THEOREM TypeCorrect == Spec => []TypeOK
<1>1. IInv => TypeOK
  BY DEF IInv
<1>. QED
  BY <1>1, InitInv, NextInv, PTL DEF Spec

(* A challenge that has bought a session is never verified again by a      *)
(* request that comes later, restarts and lost replies included.           *)
THEOREM SpentForLaterHolds == Spec => []SpentForLater
<1>1. IInv => SpentForLater
  BY DEF IInv, SpentInv, SpentForLater
<1>. QED
  BY <1>1, InitInv, NextInv, PTL DEF Spec

(* A session is only ever granted to the address its challenge was issued  *)
(* to.                                                                     *)
THEOREM GrantedToHolderHolds == Spec => []GrantedToHolder
<1>1. IInv => GrantedToHolder
  BY DEF IInv, JarInv, GrantedToHolder
<1>. QED
  BY <1>1, InitInv, NextInv, PTL DEF Spec

(* A session ends within the three durations of its challenge's issue.     *)
THEOREM GrantBoundedHolds == Spec => []GrantBounded
<1>1. IInv => GrantBounded
  BY DEF IInv, JarInv, GrantBounded
<1>. QED
  BY <1>1, InitInv, NextInv, PTL DEF Spec

(* The gauge errs by what is under way between it and the cache, and for   *)
(* good only downwards: by the solved challenges that were gone already.   *)
THEOREM PendingAccountedHolds == Spec => []PendingAccounted
<1>1. IInv => PendingAccounted
  BY DEF IInv, PendingInv
<1>. QED
  BY <1>1, InitInv, NextInv, PTL DEF Spec

(* So when no request and no cleanup is between the gauge and the cache,   *)
(* the gauge does not exceed the challenges the service would accept, and  *)
(* is their number if nothing was deleted twice.                           *)
THEOREM PendingAtRest ==
    Spec => [](uncounted = {} /\ swept = 0 /\ Deleting = {}
                   => /\ pending <= Cardinality(stored)
                      /\ missed = 0 => pending = Cardinality(stored))
<1>1. ASSUME IInv, uncounted = {}, swept = 0, Deleting = {}
      PROVE  pending <= Cardinality(stored) /\ (missed = 0 => pending = Cardinality(stored))
  <2>1. Cardinality(uncounted) = 0 /\ Cardinality(Deleting) = 0
    BY <1>1, FS_EmptySet
  <2>. QED
    BY <1>1, <2>1, Reckoned DEF IInv, PendingInv, PendingAccounted
<1>. QED
  BY <1>1, InitInv, NextInv, PTL DEF Spec

-----------------------------------------------------------------------------
\* How often one challenge can be spent.

Verifying(i) == {w \in Workers : pc[w] # "idle" /\ req[w].chal = i}

(* The workers that are verifying a challenge all found it unspent, and    *)
(* each can grant one session for it: a challenge buys no more sessions    *)
(* than there are workers to have been verifying it at one time.           *)
OverlapInv ==
    ReplayProtection =>
        \A i \in Ids : granted[i] + Cardinality(Verifying(i)) <= Cardinality(Workers)

LEMMA VerifyingType ==
    ASSUME IsFiniteSet(Workers), NEW i
    PROVE  /\ IsFiniteSet(Verifying(i)) /\ Cardinality(Verifying(i)) \in Nat
           /\ Cardinality(Workers) \in Nat /\ Cardinality(Verifying(i)) <= Cardinality(Workers)
  BY FS_Subset, FS_CardinalityType DEF Verifying

\* A step after which no challenge was granted more often or is verified by another worker.
LEMMA OverlapShrinks ==
    ASSUME IInv, OverlapInv, IsFiniteSet(Workers), UNCHANGED <<ReplayProtection, granted>>,
           Ids' = Ids, \A i \in Ids : Verifying(i)' \subseteq Verifying(i)
    PROVE  OverlapInv'
<1>. SUFFICES ASSUME ReplayProtection, NEW i \in Ids
              PROVE  granted[i] + Cardinality(Verifying(i)') <= Cardinality(Workers)
  BY DEF OverlapInv
<1>1. Cardinality(Verifying(i)') <= Cardinality(Verifying(i)) /\ Cardinality(Verifying(i)') \in Nat
  BY VerifyingType, FS_Subset, FS_CardinalityType
<1>2. granted[i] \in Nat
  BY DurationAssumption DEF IInv, TypeOK, IssuedInv, Ids
<1>. QED
  BY <1>1, <1>2, VerifyingType DEF OverlapInv

LEMMA OverlapCreate ==
    ASSUME IInv, OverlapInv, IsFiniteSet(Workers), NEW c \in Clients, CreateSession(c)
    PROVE  OverlapInv'
<1>. SUFFICES ASSUME ReplayProtection, NEW i \in Ids'
              PROVE  granted[i] + Cardinality(Verifying(i)) <= Cardinality(Workers)
  BY DEF OverlapInv, CreateSession, workers, Verifying
<1>1. CASE i \in Ids
  BY <1>1 DEF OverlapInv
<1>2. CASE i \notin Ids
  <2>1. i \in 1 .. MaxChallenges
    BY CreateSessionInv, DurationAssumption DEF IInv, IssuedInv, TypeOK, Ids
  <2>2. granted[i] = 0
    BY <1>2, <2>1 DEF IInv, IssuedInv
  <2>. QED
    BY <2>2, VerifyingType
<1>. QED
  BY <1>1, <1>2

LEMMA OverlapVerify ==
    ASSUME IInv, OverlapInv, IsFiniteSet(Workers),
           NEW w \in Workers, NEW c \in Clients, NEW i \in Ids, VerifyResponse(w, c, i)
    PROVE  OverlapInv'
<1>1. /\ UNCHANGED <<ReplayProtection, issued, granted>> /\ Ids' = Ids
      /\ ReplayProtection => i \in stored
      /\ \A v \in Workers : v # w => pc'[v] = pc[v] /\ req'[v] = req[v]
  BY DEF VerifyResponse, cache, Ids, IInv, TypeOK
<1>. SUFFICES ASSUME ReplayProtection, NEW j \in Ids
              PROVE  granted[j] + Cardinality(Verifying(j)') <= Cardinality(Workers)
  BY <1>1 DEF OverlapInv
<1>2. /\ IsFiniteSet(Verifying(j)') /\ Cardinality(Verifying(j)') \in Nat
      /\ Cardinality(Verifying(j)') <= Cardinality(Workers)
  <2>1. Verifying(j)' \subseteq Workers
    BY DEF Verifying
  <2>. QED
    BY <2>1, FS_Subset, FS_CardinalityType
<1>3. CASE j = i
  <2>1. granted[i] = 0
    BY <1>1 DEF IInv, SpentInv
  <2>. QED
    BY <1>2, <1>3, <2>1, VerifyingType
<1>4. CASE j # i
  <2>1. req'[w].chal = i
    BY DEF VerifyResponse, IInv, TypeOK
  <2>2. Verifying(j)' \subseteq Verifying(j)
    BY <1>1, <1>4, <2>1 DEF Verifying
  <2>3. Cardinality(Verifying(j)') <= Cardinality(Verifying(j))
    BY <2>2, VerifyingType, FS_Subset
  <2>4. granted[j] \in Nat
    BY DurationAssumption DEF IInv, TypeOK, IssuedInv, Ids
  <2>. QED
    BY <1>2, <2>3, <2>4, VerifyingType DEF OverlapInv
<1>. QED
  BY <1>3, <1>4

LEMMA OverlapGrant ==
    ASSUME IInv, OverlapInv, IsFiniteSet(Workers), NEW w \in Workers, Grant(w)
    PROVE  OverlapInv'
<1>. DEFINE k == req[w].chal
<1>1. /\ pc[w] = "solved" /\ k \in Ids /\ k \in 1 .. MaxChallenges
      /\ granted' = [granted EXCEPT ![k] = @ + 1]
      /\ UNCHANGED <<ReplayProtection, issued>> /\ Ids' = Ids
      /\ pc'[w] = "idle" /\ \A v \in Workers : v # w => pc'[v] = pc[v] /\ req'[v] = req[v]
  BY DurationAssumption DEF Grant, cache, Ids, IInv, TypeOK, IssuedInv
<1>. SUFFICES ASSUME ReplayProtection, NEW j \in Ids
              PROVE  granted'[j] + Cardinality(Verifying(j)') <= Cardinality(Workers)
  BY <1>1 DEF OverlapInv
<1>2. granted[j] \in Nat /\ granted'[j] = IF j = k THEN granted[j] + 1 ELSE granted[j]
  BY <1>1, DurationAssumption DEF IInv, TypeOK, IssuedInv, Ids
<1>3. Verifying(j)' = IF j = k THEN Verifying(j) \ {w} ELSE Verifying(j)
  BY <1>1 DEF Verifying
<1>4. j = k => w \in Verifying(j)
  BY <1>1 DEF Verifying
<1>5. Cardinality(Verifying(j)') = IF j = k THEN Cardinality(Verifying(j)) - 1 ELSE Cardinality(Verifying(j))
  BY <1>3, <1>4, VerifyingType, FS_RemoveElement
<1>. QED
  BY <1>2, <1>5, VerifyingType DEF OverlapInv

LEMMA OverlapNext ==
    ASSUME IsFiniteSet(Workers)
    PROVE  IInv /\ OverlapInv /\ [Next]_vars => OverlapInv'
<1>. SUFFICES ASSUME IInv, OverlapInv, [Next]_vars PROVE OverlapInv'
  OBVIOUS
<1>1. CASE \/ Tick \/ Restart \/ Cleanup \/ (\E c \in Clients : Roam(c))
           \/ (\E i \in Ids : IncPending(i)) \/ UNCHANGED vars
  <2>1. UNCHANGED <<ReplayProtection, granted>> /\ Ids' = Ids
    BY <1>1 DEF Tick, Restart, Cleanup, SweepCounts, SweepDeletes, Roam, IncPending, vars, cache, workers, Ids
  <2>2. UNCHANGED <<pc, req>> \/ pc' = [w \in Workers |-> "idle"]
    BY <1>1 DEF Tick, Restart, Cleanup, SweepCounts, SweepDeletes, Roam, IncPending, vars, cache, workers
  <2>3. \A i \in Ids : Verifying(i)' \subseteq Verifying(i)
    BY <2>2 DEF Verifying
  <2>. QED
    BY <2>1, <2>3, OverlapShrinks
<1>2. CASE \E c \in Clients : CreateSession(c)
  BY <1>2, OverlapCreate
<1>3. CASE \E w \in Workers, c \in Clients : \E i \in HandedOut : VerifyResponse(w, c, i)
  BY <1>3, OverlapVerify DEF HandedOut
<1>4. ASSUME NEW w \in Workers, ProviderRefuses(w) \/ ProviderAccepts(w) \/ DecPending(w)
      PROVE  OverlapInv'
  <2>1. UNCHANGED <<ReplayProtection, granted>> /\ Ids' = Ids
    BY <1>4 DEF ProviderRefuses, ProviderAccepts, DecPending, cache, Ids
  <2>2. pc[w] # "idle" /\ \A v \in Workers : v # w => pc'[v] = pc[v]
    BY <1>4 DEF ProviderRefuses, ProviderAccepts, DecPending, IInv, TypeOK
  <2>3. \A v \in Workers : pc'[v] # "idle" => req'[v] = req[v]
    BY <1>4 DEF ProviderRefuses, ProviderAccepts, DecPending, IInv, TypeOK
  <2>4. \A i \in Ids : Verifying(i)' \subseteq Verifying(i)
    BY <2>2, <2>3 DEF Verifying
  <2>. QED
    BY <2>1, <2>4, OverlapShrinks
<1>5. CASE \E w \in Workers : Grant(w)
  BY <1>5, OverlapGrant
<1>. QED
  BY <1>1, <1>2, <1>3, <1>4, <1>5 DEF Next, Worker

(* With replay protection a challenge buys at most as many sessions as     *)
(* there are workers, over all time, restarts, and requests: what breaks   *)
(* single use is only that several verifications of it wait for the        *)
(* provider at one time (VerifyResponse).                                  *)
THEOREM OverlapBoundsGrants ==
    ASSUME IsFiniteSet(Workers)
    PROVE  Spec => [](ReplayProtection => \A i \in Ids : granted[i] <= Cardinality(Workers))
<1>1. Init => OverlapInv
  BY DEF Init, OverlapInv, Ids
<1>2. IInv /\ OverlapInv => (ReplayProtection => \A i \in Ids : granted[i] <= Cardinality(Workers))
  <2>. SUFFICES ASSUME IInv, OverlapInv, ReplayProtection, NEW i \in Ids
                PROVE  granted[i] <= Cardinality(Workers)
    OBVIOUS
  <2>1. granted[i] \in Nat
    BY DurationAssumption DEF IInv, TypeOK, IssuedInv, Ids
  <2>. QED
    BY <2>1, VerifyingType DEF OverlapInv
<1>. QED
  BY <1>1, <1>2, OverlapNext, InitInv, NextInv, PTL DEF Spec

(* So where verifications are served one after another the comment of the  *)
(* configuration is right: challenge tokens are single-use.                *)
THEOREM SingleUseInTurn ==
    ASSUME NEW w, Workers = {w}
    PROVE  Spec => []SingleUse
<1>1. IsFiniteSet(Workers) /\ Cardinality(Workers) = 1
  BY FS_Singleton
<1>2. (ReplayProtection => \A i \in Ids : granted[i] <= Cardinality(Workers)) => SingleUse
  BY <1>1 DEF SingleUse
<1>3. Spec => [](ReplayProtection => \A i \in Ids : granted[i] <= Cardinality(Workers))
  BY <1>1, OverlapBoundsGrants
<1>. QED
  BY <1>2, <1>3, PTL

-----------------------------------------------------------------------------
\* The service implements ChallengeDesk.

LEMMA InitImplements == Init => Desk!Init
<1>. SUFFICES ASSUME Init PROVE Desk!Init
  OBVIOUS
<1>1. Ids = {} /\ stored = {}
  BY DEF Init, Ids
<1>2. AllTickets = {} /\ OpenTickets = {}
  BY <1>1 DEF AllTickets, OpenTickets
<1>3. Claims = [w \in Workers |-> Desk!Nothing] /\ Held = [c \in Clients |-> Desk!Nothing]
  BY DEF Init, Claims, Held, NoRequest, NoSession, Desk!Nothing
<1>4. ReplayProtection \in BOOLEAN
  BY SwitchAssumption DEF Init
<1>. QED
  BY <1>2, <1>3, <1>4 DEF Desk!Init

\* What does not touch the challenges leaves the tickets alone.
LEMMA TicketsKept ==
    ASSUME UNCHANGED issued
    PROVE  AllTickets' = AllTickets
           /\ (UNCHANGED <<ReplayProtection, stored>> => OpenTickets' = OpenTickets)
  BY DEF AllTickets, OpenTickets, Ids, Ticket

LEMMA ClaimsKept == ASSUME UNCHANGED <<pc, req>> PROVE Claims' = Claims
  BY DEF Claims

LEMMA HeldKept == ASSUME UNCHANGED jar PROVE Held' = Held
  BY DEF Held

LEMMA HiddenStep ==
    ASSUME UNCHANGED <<ReplayProtection, jar, issued, stored, pc, req>>
    PROVE  UNCHANGED Desk!vars
  BY TicketsKept, ClaimsKept, HeldKept DEF Desk!vars

LEMMA RestartForgets == ASSUME IInv, Restart PROVE Desk!Forget \/ Desk!Abandon
<1>1. UNCHANGED <<ReplayProtection, AllTickets, Held>>
  BY TicketsKept, HeldKept DEF Restart
<1>2. Claims' = [w \in Workers |-> Desk!Nothing]
  BY DEF Restart, Claims, NoRequest, Desk!Nothing
<1>3. CASE ReplayProtection
  <2>1. OpenTickets' = {}
    BY <1>1, <1>3 DEF Restart, OpenTickets
  <2>. QED
    BY <1>1, <1>2, <1>3, <2>1 DEF Desk!Forget
<1>4. CASE ~ ReplayProtection
  <2>1. OpenTickets' = OpenTickets
    BY <1>1, <1>4 DEF Restart, OpenTickets, Ids, Ticket
  <2>. QED
    BY <1>1, <1>2, <2>1 DEF Desk!Abandon
<1>. QED
  BY <1>3, <1>4

LEMMA CreateSessionIssues ==
    ASSUME IInv, NEW c \in Clients, CreateSession(c)
    PROVE  \E t \in Desk!Tickets : Desk!Issue(t)
<1>. DEFINE x == [ip |-> at[c], exp |-> now + ChallengeDuration]
<1>0. PICK n : n = Len(issued) + 1
  OBVIOUS
<1>. DEFINE t == [chal |-> n, ip |-> at[c]]
<1>1. x \in Challenges /\ issued \in Seq(Challenges) /\ at[c] \in IPs
  BY DurationAssumption DEF IInv, TypeOK, Challenges
<1>2. issued' = Append(issued, x) /\ x.ip = at[c]
  BY DEF CreateSession
<1>. HIDE DEF x
<1>3. /\ n \in 1 .. MaxChallenges /\ n \notin Ids
      /\ Ids' = Ids \cup {n} /\ issued'[n] = x
      /\ \A i \in Ids : issued'[i] = issued[i]
  <2>1. Len(issued) \in Nat /\ Len(issued) < MaxChallenges /\ Len(issued') = Len(issued) + 1
    BY <1>1, <1>2, LenProperties, AppendProperties DEF CreateSession
  <2>. QED
    BY <1>0, <1>1, <1>2, <2>1, AppendProperties, DurationAssumption DEF Ids
<1>4. t \in Desk!Tickets /\ t.chal = n
  BY <1>1, <1>3 DEF Desk!Tickets
<1>5. Ticket(n)' = t /\ \A i \in Ids : Ticket(i)' = Ticket(i)
  BY <1>2, <1>3 DEF Ticket
<1>6. \A u \in AllTickets : u.chal # n
  BY <1>3 DEF AllTickets, Ticket
<1>. HIDE DEF t
<1>7. AllTickets' = AllTickets \cup {t}
  BY <1>3, <1>5 DEF AllTickets
<1>8. OpenTickets' = OpenTickets \cup {t}
  <2>1. stored \subseteq Ids /\ ReplayProtection' = ReplayProtection
    BY DEF IInv, TypeOK, CreateSession
  <2>2. CASE ReplayProtection
    <3>1. stored' = stored \cup {n}
      BY <1>0, <2>2 DEF CreateSession
    <3>. QED
      BY <1>5, <2>1, <2>2, <3>1 DEF OpenTickets
  <2>3. CASE ~ ReplayProtection
    BY <1>3, <1>5, <2>1, <2>3 DEF OpenTickets
  <2>. QED
    BY <2>2, <2>3
<1>9. UNCHANGED <<ReplayProtection, Claims, Held>>
  BY ClaimsKept, HeldKept DEF CreateSession, workers
<1>10. Desk!Issue(t)
  BY <1>4, <1>6, <1>7, <1>8, <1>9 DEF Desk!Issue
<1>. QED
  BY <1>4, <1>10

\* A worker that serves a request has the ticket of its challenge, any other has none.
LEMMA ClaimOf ==
    ASSUME IInv, NEW w \in Workers
    PROVE  /\ pc[w] = "idle" => Claims[w] = Desk!Nothing
           /\ pc[w] # "idle" => /\ req[w].chal \in Ids /\ Claims[w] = Ticket(req[w].chal)
                                /\ Claims[w] # Desk!Nothing
<1>1. pc[w] = "idle" => Claims[w] = Desk!Nothing
  BY DEF Claims, NoRequest, Desk!Nothing
<1>2. ASSUME pc[w] # "idle"
      PROVE  /\ req[w].chal \in Ids /\ Claims[w] = Ticket(req[w].chal)
             /\ Claims[w] # Desk!Nothing
  <2>1. req[w].chal \in Ids /\ req[w].ip = issued[req[w].chal].ip
    BY <1>2 DEF IInv, TypeOK, WorkerInv
  <2>2. Claims[w] = Ticket(req[w].chal)
    BY <1>2, <2>1 DEF Claims, Ticket
  <2>3. Ticket(req[w].chal).chal # 0 /\ Desk!Nothing.chal = 0
    BY <2>1 DEF Ticket, Ids, Desk!Nothing
  <2>. QED
    BY <2>1, <2>2, <2>3
<1>. QED
  BY <1>1, <1>2

LEMMA VerifyResponseClaims ==
    ASSUME IInv, NEW w \in Workers, NEW c \in Clients, NEW i \in Ids, VerifyResponse(w, c, i)
    PROVE  \E t \in OpenTickets : Desk!Claim(w, t)
<1>1. /\ pc[w] = "idle" /\ issued[i].ip = at[c] /\ (ReplayProtection => i \in stored)
      /\ pc' = [pc EXCEPT ![w] = "provider"]
      /\ UNCHANGED <<ReplayProtection, jar, issued, stored>>
  BY DEF VerifyResponse, VerifyIPHash, cache
<1>2. Ticket(i) \in OpenTickets
  BY <1>1 DEF OpenTickets
<1>3. Claims' = [Claims EXCEPT ![w] = Ticket(i)]
  <2>. DEFINE r == [chal |-> i, client |-> c, ip |-> at[c], start |-> now, fresh |-> granted[i] = 0]
  <2>1. req' = [req EXCEPT ![w] = r] /\ r.chal = i /\ r.ip = at[c]
    BY DEF VerifyResponse
  <2>2. Ticket(i) = [chal |-> r.chal, ip |-> r.ip]
    BY <1>1, <2>1 DEF Ticket
  <2>3. DOMAIN req = Workers /\ DOMAIN pc = Workers
    BY DEF IInv, TypeOK
  <2>. HIDE DEF r
  <2>4. \A v \in Workers : Claims'[v] = IF v = w THEN Ticket(i) ELSE Claims[v]
    BY <1>1, <2>1, <2>2, <2>3 DEF Claims
  <2>. QED
    BY <2>4 DEF Claims
<1>4. UNCHANGED <<ReplayProtection, AllTickets, OpenTickets, Held>>
  BY <1>1, TicketsKept, HeldKept
<1>5. Desk!Claim(w, Ticket(i))
  BY <1>1, <1>3, <1>4, ClaimOf DEF Desk!Claim
<1>. QED
  BY <1>2, <1>5

\* A worker that is done has no ticket any more.
LEMMA ClaimEnds ==
    ASSUME IInv, NEW w \in Workers, pc' = [pc EXCEPT ![w] = "idle"],
           req' = [req EXCEPT ![w] = NoRequest]
    PROVE  Claims' = [Claims EXCEPT ![w] = Desk!Nothing]
<1>1. DOMAIN req = Workers /\ DOMAIN pc = Workers
  BY DEF IInv, TypeOK
<1>2. \A v \in Workers : Claims'[v] = IF v = w THEN Desk!Nothing ELSE Claims[v]
  BY <1>1 DEF Claims, NoRequest, Desk!Nothing
<1>. QED
  BY <1>2 DEF Claims

LEMMA RefusedRejects ==
    ASSUME IInv, NEW w \in Workers, ProviderRefuses(w)
    PROVE  Desk!Reject(w)
<1>1. Claims[w] # Desk!Nothing
  BY ClaimOf DEF ProviderRefuses
<1>2. Claims' = [Claims EXCEPT ![w] = Desk!Nothing]
  BY ClaimEnds DEF ProviderRefuses
<1>3. UNCHANGED <<ReplayProtection, AllTickets, OpenTickets, Held>>
  BY TicketsKept, HeldKept DEF ProviderRefuses, cache
<1>. QED
  BY <1>1, <1>2, <1>3 DEF Desk!Reject

\* Without a challenge the tickets that are still taken are fewer.
LEMMA FewerStored ==
    ASSUME ReplayProtection, UNCHANGED <<ReplayProtection, issued>>, stored' \subseteq stored
    PROVE  OpenTickets' \subseteq OpenTickets
  BY DEF OpenTickets, Ticket

\* A solved challenge is forgotten, if it was not already, before its session is signed.
LEMMA AcceptedForgets ==
    ASSUME IInv, NEW w \in Workers, ProviderAccepts(w)
    PROVE  Desk!Forget \/ UNCHANGED Desk!vars
<1>1. /\ pc[w] = "provider" /\ UNCHANGED <<ReplayProtection, jar, issued, req>>
      /\ pc'[w] # "idle" /\ \A v \in Workers : v # w => pc'[v] = pc[v]
      /\ ReplayProtection => stored' \subseteq stored
      /\ ~ ReplayProtection => stored' = stored
  BY DEF ProviderAccepts, IInv, TypeOK
<1>2. Claims' = Claims
  BY <1>1 DEF Claims
<1>3. UNCHANGED <<ReplayProtection, AllTickets, Held>>
  BY <1>1, TicketsKept, HeldKept
<1>4. CASE ReplayProtection
  BY <1>1, <1>2, <1>3, <1>4, FewerStored DEF Desk!Forget
<1>5. CASE ~ ReplayProtection
  BY <1>1, <1>2, <1>3, <1>5, TicketsKept DEF Desk!vars
<1>. QED
  BY <1>4, <1>5

LEMMA SignedGrants ==
    ASSUME IInv, NEW w \in Workers, Grant(w)
    PROVE  Desk!Grant(w)
<1>. DEFINE k == req[w].chal
            s == Session(req[w])
<1>1. /\ pc[w] = "solved" /\ pc' = [pc EXCEPT ![w] = "idle"] /\ req' = [req EXCEPT ![w] = NoRequest]
      /\ jar' = [jar EXCEPT ![req[w].client] = s] \/ jar' = jar
      /\ UNCHANGED <<ReplayProtection, issued, stored>>
  BY DEF Grant, cache
<1>2. k \in Ids /\ Claims[w] = Ticket(k) /\ Claims[w] # Desk!Nothing
  BY <1>1, ClaimOf
<1>3. Claims' = [Claims EXCEPT ![w] = Desk!Nothing]
  BY <1>1, ClaimEnds
<1>4. AllTickets' = AllTickets /\ OpenTickets' = OpenTickets
  BY <1>1, TicketsKept
<1>5. OpenTickets = IF ReplayProtection THEN OpenTickets \ {Claims[w]} ELSE OpenTickets
  <2>. SUFFICES ASSUME ReplayProtection PROVE Claims[w] \notin OpenTickets
    OBVIOUS
  <2>1. k \notin stored
    BY <1>1 DEF IInv, SpentInv
  <2>2. \A i \in stored : Ticket(i).chal = i /\ Ticket(k).chal = k
    BY DEF Ticket
  <2>. QED
    BY <1>2, <2>1, <2>2 DEF OpenTickets
<1>6. UNCHANGED Held \/ \E c \in Clients : Held' = [Held EXCEPT ![c] = Claims[w]]
  <2>1. CASE jar' = jar
    BY <2>1, HeldKept
  <2>2. CASE jar' = [jar EXCEPT ![req[w].client] = s]
    <3>1. req[w].client \in Clients /\ jar \in [Clients -> Sessions \cup {NoSession}]
      BY <1>1 DEF IInv, TypeOK, Requests
    <3>2. s.chal = k /\ s.ip = req[w].ip /\ s # NoSession
      <4>1. s.chal = k /\ s.ip = req[w].ip
        BY DEF Session
      <4>2. NoSession.chal = 0 /\ k # 0
        BY <1>2 DEF NoSession, Ids
      <4>. QED
        BY <4>1, <4>2
    <3>3. Claims[w] = [chal |-> s.chal, ip |-> s.ip]
      BY <1>1, <3>2 DEF Claims
    <3>. HIDE DEF s
    <3>4. \A c \in Clients : Held'[c] = IF c = req[w].client THEN Claims[w] ELSE Held[c]
      BY <2>2, <3>1, <3>2, <3>3 DEF Held
    <3>5. Held' = [Held EXCEPT ![req[w].client] = Claims[w]]
      BY <3>4 DEF Held
    <3>. QED
      BY <3>1, <3>5
  <2>. QED
    BY <1>1, <2>1, <2>2
<1>. QED
  BY <1>1, <1>2, <1>3, <1>4, <1>5, <1>6 DEF Desk!Grant

LEMMA SweepForgets == ASSUME IInv, SweepDeletes PROVE Desk!Forget
<1>1. /\ stored' \subseteq stored /\ stored # {}
      /\ UNCHANGED <<ReplayProtection, jar, issued, pc, req>>
  BY DEF SweepDeletes, IInv, TypeOK, workers
<1>2. ReplayProtection
  BY <1>1 DEF IInv, TypeOK
<1>. QED
  BY <1>1, <1>2, FewerStored, TicketsKept, ClaimsKept, HeldKept DEF Desk!Forget

LEMMA NextImplements == ASSUME IInv, [Next]_vars PROVE [Desk!Next]_(Desk!vars)
<1>1. CASE \/ Tick \/ (\E c \in Clients : Roam(c)) \/ (\E i \in Ids : IncPending(i) \/ SweepCounts(i))
           \/ UNCHANGED vars
  BY <1>1, HiddenStep DEF Tick, Roam, IncPending, SweepCounts, vars, cache, workers
<1>2. CASE Restart
  BY <1>2, RestartForgets DEF Desk!Next
<1>3. CASE SweepDeletes
  BY <1>3, SweepForgets DEF Desk!Next
<1>4. CASE \E c \in Clients : CreateSession(c)
  BY <1>4, CreateSessionIssues DEF Desk!Next
<1>5. CASE \E w \in Workers, c \in Clients : \E i \in HandedOut : VerifyResponse(w, c, i)
  BY <1>5, VerifyResponseClaims DEF Desk!Next, HandedOut
<1>6. CASE \E w \in Workers : ProviderRefuses(w)
  BY <1>6, RefusedRejects DEF Desk!Next
<1>7. CASE \E w \in Workers : ProviderAccepts(w)
  BY <1>7, AcceptedForgets DEF Desk!Next
<1>8. ASSUME NEW w \in Workers, DecPending(w) PROVE UNCHANGED Desk!vars
  <2>1. /\ pc[w] = "deleted" /\ pc' = [pc EXCEPT ![w] = "solved"]
        /\ UNCHANGED <<ReplayProtection, jar, issued, stored, req>>
    BY <1>8 DEF DecPending
  <2>2. Claims' = Claims
    BY <2>1 DEF Claims, IInv, TypeOK
  <2>. QED
    BY <2>1, <2>2, TicketsKept, HeldKept DEF Desk!vars
<1>9. CASE \E w \in Workers : Grant(w)
  BY <1>9, SignedGrants DEF Desk!Next
<1>. QED
  BY <1>1, <1>2, <1>3, <1>4, <1>5, <1>6, <1>7, <1>8, <1>9 DEF Next, Cleanup, Worker

(* The service, with its clock, restarts, lost replies and verifications   *)
(* that overlap, implements a desk that takes a ticket for its own address *)
(* and, with replay protection, none that has bought a session             *)
(* (VerifyResponse).                                                       *)
THEOREM Implements == Spec => ImplementsDesk
<1>. QED
  BY InitInv, NextInv, InitImplements, NextImplements, PTL DEF Spec, ImplementsDesk, Desk!Spec
=============================================================================
