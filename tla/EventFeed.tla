------------------------------ MODULE EventFeed ------------------------------
(***************************************************************************)
(* What webhook delivery promises (docs/WEBHOOKS.md, "Delivery"): an event *)
(* is taken for all of its subscribers or dropped for all of them, and only*)
(* dropped if as many as the feed has room for still wait for somebody;    *)
(* what is taken is offered to each subscriber once, the oldest first, and *)
(* is not offered again if it does not arrive.  Events are numbered as they*)
(* occur.                                                                  *)
(***************************************************************************)
EXTENDS Naturals, Sequences

CONSTANTS
    Urls,            \* subscribers
    Capacity,        \* how many events there is room for
    EventSet,        \* events, each with its number as id; those without a subscriber do not count
    SubscribersOf(_) \* the subscribers of an event

VARIABLES
    last,     \* the number of the last event that occurred
    waiting,  \* for each subscriber, the events taken and not yet offered
    received  \* for each subscriber, the events that arrived

vars == <<last, waiting, received>>

Init ==
    /\ last = 0
    /\ waiting = [u \in Urls |-> {}]
    /\ received = [u \in Urls |-> <<>>]

Take(e) ==
    /\ last' = e.id
    /\ waiting' = [u \in Urls |-> IF u \in SubscribersOf(e) THEN waiting[u] \cup {e} ELSE waiting[u]]
    /\ UNCHANGED received

\* Capacity events, one older than the next, wait for one subscriber or another.
Full ==
    \E queue \in [1 .. Capacity -> UNION {waiting[u] : u \in Urls}] :
        \A i, j \in 1 .. Capacity : i < j => queue[i].id < queue[j].id

Drop(e) ==
    /\ Full
    /\ last' = e.id
    /\ UNCHANGED <<waiting, received>>

Offer(u, e) ==
    /\ \A f \in waiting[u] : e.id <= f.id
    /\ waiting' = [waiting EXCEPT ![u] = @ \ {e}]
    /\ \/ received' = [received EXCEPT ![u] = Append(@, e)]
       \/ UNCHANGED received
    /\ UNCHANGED last

Next == \/ \E e \in EventSet : e.id = last + 1 /\ SubscribersOf(e) # {} /\ (Take(e) \/ Drop(e))
        \/ \E u \in Urls : \E e \in waiting[u] : Offer(u, e)

Spec == Init /\ [][Next]_vars
=============================================================================
