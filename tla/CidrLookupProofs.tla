--------------------------- MODULE CidrLookupProofs ---------------------------
(***************************************************************************)
(* GetDecision on a still cache finds the most specific decision, for      *)
(* every width of addresses, every cache content and every client string.  *)
(***************************************************************************)
EXTENDS CidrLookup, CidrIndexProofs

\* The cache and its index stay as they were built; the answer is what GetDecision computes.
IInv ==
    /\ cached \subseteq Decisions /\ table \in buildIndex(cached)
    /\ ip \in Strings
    /\ ip # Blank => answer = IF \E d \in cached : d.value = ip
                              THEN CHOOSE d \in cached : d.value = ip
                              ELSE lookup(table, ip)

LEMMA CachesAreDecisions == ASSUME NEW c \in Caches PROVE c \subseteq Decisions
<1>1. PICK f \in [1 .. MaxCached -> Decisions] : c = {f[i] : i \in 1 .. MaxCached}
  BY DEF Caches
<1>. QED
  BY <1>1

LEMMA InitInv == Init => IInv
  BY CachesAreDecisions DEF Init, IInv, Strings

LEMMA NextInv == IInv /\ [Next]_vars => IInv'
<1>. SUFFICES ASSUME IInv, [Next]_vars PROVE IInv'
  OBVIOUS
<1>1. CASE UNCHANGED vars
  BY <1>1 DEF IInv, vars
<1>2. ASSUME NEW s \in Clients, GetDecision(s) PROVE IInv'
  BY <1>2, ClientAssumption DEF IInv, GetDecision
<1>. QED
  BY <1>1, <1>2 DEF Next

\* A table built from the cache hits only, and all, decisions whose range holds the address.
LEMMA HitsAreRanges ==
    ASSUME IInv, NEW s \in Strings, s.kind = "addr"
    PROVE  /\ \A p \in Hits(table, s) : table[p] \in cached /\ IndexPrefix(table[p]) = p
                                        /\ Covers(table[p], s)
           /\ \A d \in cached : Covers(d, s) => IndexPrefix(d) \in Hits(table, s)
<1>1. cached \subseteq Decisions /\ table \in buildIndex(cached)
  BY DEF IInv
<1>2. /\ \A p \in Prefixes : table[p] # NoDecision => table[p] \in cached /\ IndexPrefix(table[p]) = p
      /\ \A p \in Prefixes : table[p] = NoDecision => \A d \in cached : IndexPrefix(d) # p
  BY <1>1, BuildIndexTable
<1>3. \A p \in Hits(table, s) : p \in Prefixes /\ p # NoPrefix /\ table[p] # NoDecision
                                /\ Contains(p, Unmap(s))
  BY DEF Hits, Prefixes
<1>4. \A d \in cached : Covers(d, s) => IndexPrefix(d) \in Prefixes /\ Contains(IndexPrefix(d), Unmap(s))
  BY <1>1 DEF Covers, Prefixes
<1>5. \A p \in Hits(table, s) : table[p] \in cached /\ IndexPrefix(table[p]) = p /\ Covers(table[p], s)
  BY <1>2, <1>3 DEF Covers
<1>6. \A d \in cached : Covers(d, s) => IndexPrefix(d) \in Hits(table, s)
  BY <1>2, <1>4 DEF Hits
<1>. QED
  BY <1>5, <1>6

LEMMA LookupMostSpecific == IInv => MostSpecificWins
<1>. SUFFICES ASSUME IInv, ip # Blank PROVE MostSpecificWins
  BY DEF MostSpecificWins
<1>1. cached \subseteq Decisions /\ table \in Tables /\ ip \in Strings
  BY BuildIndexTable DEF IInv
<1>2. \A d \in cached : CoversByRange(d, ip) <=> Covers(d, ip)
  BY <1>1, CoversMeaning
<1>3. CASE ExactFor(ip) # {}
  <2>1. \E d \in cached : d.value = ip
    BY <1>3 DEF ExactFor
  <2>2. answer = CHOOSE d \in cached : d.value = ip
    BY <2>1 DEF IInv
  <2>3. answer \in ExactFor(ip)
    BY <2>1, <2>2 DEF ExactFor
  <2>. QED
    BY <1>3, <2>3 DEF MostSpecificWins
<1>4. CASE ExactFor(ip) = {}
  <2>1. answer = lookup(table, ip)
    BY <1>4 DEF IInv, ExactFor
  <2>2. CASE ip.kind # "addr" \/ Hits(table, ip) = {}
    <3>1. answer = NoDecision
      BY <2>1, <2>2 DEF lookup
    <3>2. RangesFor(ip) = {}
      <4>1. CASE ip.kind # "addr"
        BY <4>1 DEF RangesFor, CoversByRange
      <4>2. CASE ip.kind = "addr"
        BY <1>1, <1>2, <2>2, <4>2, HitsAreRanges DEF RangesFor
      <4>. QED
        BY <4>1, <4>2
    <3>. QED
      BY <1>4, <3>1, <3>2 DEF MostSpecificWins
  <2>3. CASE ip.kind = "addr" /\ Hits(table, ip) # {}
    <3>1. PICK p \in Hits(table, ip) : /\ answer = table[p]
                                       /\ \A q \in Hits(table, ip) : q.len <= p.len
      BY <1>1, <2>1, <2>3, LookupLongest
    <3>2. answer \in cached /\ IndexPrefix(answer) = p /\ Covers(answer, ip)
      BY <1>1, <2>3, <3>1, HitsAreRanges
    <3>3. answer \in RangesFor(ip)
      BY <1>2, <3>2 DEF RangesFor
    <3>4. ASSUME NEW d \in RangesFor(ip) PROVE AsNarrow(answer, d)
      <4>1. d \in cached /\ Covers(d, ip)
        BY <1>2, <3>4 DEF RangesFor
      <4>2. IndexPrefix(d).len <= IndexPrefix(answer).len
        BY <1>1, <2>3, <3>1, <3>2, <4>1, HitsAreRanges
      <4>. QED
        BY <1>1, <3>2, <4>1, <4>2, LongerIsNarrower DEF AsNarrow
    <3>. QED
      BY <1>4, <3>3, <3>4 DEF MostSpecificWins
  <2>. QED
    BY <2>2, <2>3
<1>. QED
  BY <1>3, <1>4

(* GetDecision answers with the decision on the client's own string, or    *)
(* else with one on the smallest range of addresses that contains it, as   *)
(* MostSpecificWins says without prefixes, masks or tables.                *)
THEOREM MostSpecificAnswer == Spec => []MostSpecificWins
<1>. QED
  BY InitInv, NextInv, LookupMostSpecific, PTL DEF Spec
=============================================================================
