----------------------------- MODULE CidrLookup -----------------------------
(***************************************************************************)
(* GetDecision on a cache nobody is writing to, over every small cache and *)
(* every client string, against a reference definition of the answer.      *)
(***************************************************************************)
EXTENDS CidrIndex

CONSTANTS Clients,   \* the client strings looked up
          MaxCached  \* bound: the most decisions cached at once

ASSUME ClientAssumption == Clients \subseteq Strings \ {Nil}
ASSUME MaxCachedAssumption == MaxCached \in Nat

VARIABLES cached,  \* the decisions in the cache, at most one per value
          table,   \* the index last built from them
          ip,      \* the client string of the last lookup
          answer   \* its answer

vars == <<cached, table, ip, answer>>

Caches == {c \in {{f[i] : i \in 1 .. MaxCached} : f \in [1 .. MaxCached -> Decisions]} :
             /\ \A d, e \in c : d.value = e.value => d = e
             /\ \A d \in c : HasValue(d)}

Init == /\ cached \in Caches
        /\ table \in buildIndex(cached)
        /\ ip = Blank /\ answer = NoDecision

\* GetDecision: the exact key first, the index second; an empty string is refused.
GetDecision(s) ==
    /\ s # Blank
    /\ ip' = s
    /\ answer' = IF \E d \in cached : d.value = s
                 THEN CHOOSE d \in cached : d.value = s
                 ELSE lookup(table, s)
    /\ UNCHANGED <<cached, table>>

Next == \E s \in Clients : GetDecision(s)

Spec == Init /\ [][Next]_vars

-----------------------------------------------------------------------------
\* The decisions that apply to a client string, and the smaller of two ranges.
ExactFor(s) == {d \in cached : d.value = s}
RangesFor(s) == {d \in cached : CoversByRange(d, s)}
AsNarrow(d, e) == Cardinality(Meaning(d)) <= Cardinality(Meaning(e))

(* GetDecision returns the decision stored under the client's own string   *)
(* if there is one, otherwise a decision on the smallest range of addresses*)
(* that contains the client, in whichever of its two spellings the client  *)
(* or the range came, and nothing only if no cached decision is about it.  *)
MostSpecificWins ==
    ip # Blank =>
        IF ExactFor(ip) # {} THEN answer \in ExactFor(ip)
        ELSE IF RangesFor(ip) = {} THEN answer = NoDecision
        ELSE /\ answer \in RangesFor(ip)
             /\ \A d \in RangesFor(ip) : AsNarrow(answer, d)

=============================================================================
