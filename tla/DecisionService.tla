--------------------------- MODULE DecisionService ---------------------------
(***************************************************************************)
(* What the decision cache promises its callers (decisions/cache.go, Sync  *)
(* and GetDecision), apart from how it keeps the decisions: the LAPI's     *)
(* list of decisions arrives as a whole, an old and a new list hold side   *)
(* by side until the new one has taken over, and every answer could have   *)
(* been read from one of the lists that held while it was asked for.       *)
(***************************************************************************)
CONSTANTS
    Readers,       \* those who ask
    Addresses,     \* what they ask about
    Blank,         \* an empty address
    Decisions,
    NoDecision,    \* nothing is known about the address
    GetError,      \* the answer to an empty address
    IsAbout(_, _), \* whether a decision is about an address
    Meets(_, _, _) \* whether an answer does justice to a decision, for an address

VARIABLES
    view,    \* the list that holds, or is taking over
    before,  \* the list that held until then
    ready,   \* whether some list has taken over
    asking,  \* those whose question is open
    ip,      \* what each of them asks about
    result,  \* the answer each got last
    must,    \* what was in every list that held since the question
    may      \* what was in one of them

vars == <<view, before, ready, asking, ip, result, must, may>>

Init ==
    /\ view = {} /\ before = {} /\ ready = FALSE
    /\ asking = {}
    /\ ip = [r \in Readers |-> Blank] /\ result = [r \in Readers |-> NoDecision]
    /\ must = [r \in Readers |-> {}] /\ may = [r \in Readers |-> {}]

\* A list arrives.  The first one replaces nothing.
Arrives ==
    /\ before = view
    /\ view' \in SUBSET Decisions
    /\ before' = IF ready THEN view ELSE view'
    /\ must' = [r \in Readers |-> must[r] \cap view']
    /\ may' = [r \in Readers |-> IF r \in asking THEN may[r] \cup view' ELSE {}]
    /\ UNCHANGED <<ready, asking, ip, result>>

\* It has taken over.
TakesOver ==
    /\ before' = view /\ ready' = TRUE
    /\ UNCHANGED <<view, asking, ip, result, must, may>>

Ask(r, s) ==
    /\ r \notin asking /\ s # Blank
    /\ asking' = asking \cup {r}
    /\ ip' = [ip EXCEPT ![r] = s]
    /\ result' = [result EXCEPT ![r] = NoDecision]
    /\ must' = [must EXCEPT ![r] = IF ready THEN before \cap view ELSE {}]
    /\ may' = [may EXCEPT ![r] = before \cup view]
    /\ UNCHANGED <<view, before, ready>>

Close(r, res) ==
    /\ asking' = asking \ {r}
    /\ ip' = [ip EXCEPT ![r] = Blank]
    /\ result' = [result EXCEPT ![r] = res]
    /\ must' = [must EXCEPT ![r] = {}] /\ may' = [may EXCEPT ![r] = {}]
    /\ UNCHANGED <<view, before, ready>>

Answer(r, res) ==
    /\ r \in asking
    /\ Close(r, res)
    /\ res # NoDecision => res \in may[r] /\ IsAbout(res, ip[r])
    /\ \A d \in must[r] : Meets(res, d, ip[r])

Refuse(r) ==
    /\ r \notin asking
    /\ Close(r, GetError)

Next == \/ Arrives
        \/ TakesOver
        \/ \E r \in Readers :
               \/ Refuse(r)
               \/ \E s \in Addresses : Ask(r, s)
               \/ \E res \in Decisions \cup {NoDecision} : Answer(r, res)

Spec == Init /\ [][Next]_vars
=============================================================================
