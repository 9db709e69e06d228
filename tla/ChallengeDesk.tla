---------------------------- MODULE ChallengeDesk ----------------------------
(***************************************************************************)
(* What the CAPTCHA service promises (config/config.go,                    *)
(* DisableChallengeReplayProtection, and docs/CAPTCHA.md), apart from      *)
(* tokens, clocks and the memory it keeps: a challenge is a ticket for one *)
(* address.  With replay protection a ticket that has bought a session, or *)
(* was forgotten, is never taken again; those who had handed it in before  *)
(* may still be served, once each.                                         *)
(***************************************************************************)
EXTENDS Naturals

CONSTANTS
    Visitors,   \* who may hold a session
    Addresses,  \* whom a ticket is issued to
    Numbers,    \* the numbers of tickets
    Clerks      \* who take tickets in

VARIABLES
    protected,  \* whether tickets are for one use
    issued,     \* the tickets issued
    open,       \* those that would be taken
    claims,     \* the ticket each clerk has taken in and is deciding about
    held        \* the ticket each visitor's session was bought with

vars == <<protected, issued, open, claims, held>>

Tickets == [chal : Numbers, ip : Addresses]
Nothing == [chal |-> 0]

Init ==
    /\ protected \in BOOLEAN
    /\ issued = {} /\ open = {}
    /\ claims = [w \in Clerks |-> Nothing]
    /\ held = [c \in Visitors |-> Nothing]

Issue(t) ==
    /\ \A u \in issued : u.chal # t.chal
    /\ issued' = issued \cup {t} /\ open' = open \cup {t}
    /\ UNCHANGED <<protected, claims, held>>

Claim(w, t) ==
    /\ claims[w] = Nothing
    /\ claims' = [claims EXCEPT ![w] = t]
    /\ UNCHANGED <<protected, issued, open, held>>

Reject(w) ==
    /\ claims[w] # Nothing
    /\ claims' = [claims EXCEPT ![w] = Nothing]
    /\ UNCHANGED <<protected, issued, open, held>>

\* A session is bought, whether or not the visitor gets to know of it.
Grant(w) ==
    /\ claims[w] # Nothing
    /\ claims' = [claims EXCEPT ![w] = Nothing]
    /\ open' = IF protected THEN open \ {claims[w]} ELSE open
    /\ UNCHANGED held \/ \E c \in Visitors : held' = [held EXCEPT ![c] = claims[w]]
    /\ UNCHANGED <<protected, issued>>

\* Old tickets are forgotten, or all of them with what was being decided.
Forget ==
    /\ protected /\ open' \in SUBSET open
    /\ claims' \in {claims, [w \in Clerks |-> Nothing]}
    /\ UNCHANGED <<protected, issued, held>>

\* Without protection there is nothing to forget but the decisions under way.
Abandon ==
    /\ claims' = [w \in Clerks |-> Nothing]
    /\ UNCHANGED <<protected, issued, open, held>>

Next == \/ Forget
        \/ Abandon
        \/ \E t \in Tickets : Issue(t)
        \/ \E w \in Clerks : Reject(w) \/ Grant(w) \/ \E t \in open : Claim(w, t)

Spec == Init /\ [][Next]_vars
=============================================================================
