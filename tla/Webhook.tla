------------------------------- MODULE Webhook -------------------------------
(***************************************************************************)
(* The webhook notifier (webhook/webhook.go): request goroutines put       *)
(* events into a bounded channel without ever waiting, and one goroutine   *)
(* posts them to the URLs subscribed to their type, one after another.     *)
(*                                                                         *)
(* An event is its type and the order in which it was notified; the rest   *)
(* of the payload, signing included, is carried along.  Notifications of a *)
(* type nobody subscribed to, or of an action that has no type, change     *)
(* nothing and are not steps.                                              *)
(***************************************************************************)
EXTENDS Naturals, Sequences, FiniteSetsExt

CONSTANTS
    Subscriptions,  \* the configured list of [url, events]
    BufferSize,     \* capacity of the channel
    CanStop,        \* whether the context may be cancelled
    MaxEvents       \* bound on the notifications

ASSUME SubscriptionAssumption ==
    Subscriptions \in Seq([url : STRING, events : SUBSET STRING])
ASSUME BufferAssumption == BufferSize \in Nat \ {0} /\ MaxEvents \in Nat
ASSUME StopAssumption == CanStop \in BOOLEAN

VARIABLES
    events,    \* the channel
    pc,        \* Start's loop: "select", "dispatch" or "returned"
    event,     \* the event being dispatched
    subs,      \* the subscriptions it has still to be sent to
    ctxDone,
    notified,  \* how many events subscribers could have had
    received   \* what arrived at each URL (external)

vars == <<events, pc, event, subs, ctxDone, notified, received>>

\* parseEventType knows these; other names in a subscription are ignored.
EventTypes == {"request_blocked", "captcha_required", "captcha_verified", "request_allowed",
               "challenge_required"}

\* Of the actions of a CheckedRequest; "error" and unknown ones have no event.
eventTypeForAction ==
    [allow |-> "request_allowed", ban |-> "request_blocked", deny |-> "request_blocked",
     captcha |-> "captcha_required", challenge |-> "challenge_required"]

\* Mutant of buildSubsByEvent: a URL listed twice is kept twice.
buildSubsByEventTwice ==
    [t \in EventTypes |-> {i \in DOMAIN Subscriptions : t \in Subscriptions[i].events}]

(* For each event type the list of its URLs, as the positions of the       *)
(* subscriptions they come from: the list keeps the order of the           *)
(* configuration, and of several that name one URL only the first is in it.*)
buildSubsByEvent ==
    [t \in EventTypes |->
        {i \in DOMAIN Subscriptions :
            /\ t \in Subscriptions[i].events
            /\ \A j \in 1 .. i - 1 : t \in Subscriptions[j].events =>
                                        Subscriptions[j].url # Subscriptions[i].url}]

subscribedTo(t) == buildSubsByEvent[t] # {}

UrlsOf(positions) == {Subscriptions[i].url : i \in positions}

Urls == UrlsOf(DOMAIN Subscriptions)

NoEvent == [id |-> 0, type |-> "none"]

Init ==
    /\ events = <<>> /\ pc = "select" /\ event = NoEvent /\ subs = {}
    /\ ctxDone = FALSE /\ notified = 0
    /\ received = [u \in Urls |-> <<>>]

-----------------------------------------------------------------------------
\* Request goroutines.

\* Mutant of enqueue: the channel has no limit.
enqueueAlways(t) ==
    /\ notified' = notified + 1
    /\ events' = Append(events, [id |-> notified + 1, type |-> t])
    /\ UNCHANGED <<pc, event, subs, ctxDone, received>>

\* Mutant of enqueue: the last place in the channel is never used.
enqueueEarly(t) ==
    /\ notified' = notified + 1
    /\ events' = IF Len(events) + 1 < BufferSize
                 THEN Append(events, [id |-> notified + 1, type |-> t])
                 ELSE events
    /\ UNCHANGED <<pc, event, subs, ctxDone, received>>

\* A select with a default: a full channel drops the event.
enqueue(t) ==
    /\ notified' = notified + 1
    /\ events' = IF Len(events) < BufferSize
                 THEN Append(events, [id |-> notified + 1, type |-> t])
                 ELSE events
    /\ UNCHANGED <<pc, event, subs, ctxDone, received>>

NotifyCheckedRequest(a) ==
    /\ notified < MaxEvents
    /\ subscribedTo(eventTypeForAction[a])
    /\ enqueue(eventTypeForAction[a])

NotifyCaptchaVerified ==
    /\ notified < MaxEvents
    /\ subscribedTo("captcha_verified")
    /\ enqueue("captcha_verified")

-----------------------------------------------------------------------------
\* Start, with dispatch and send.

Cancel ==
    /\ CanStop /\ ~ ctxDone
    /\ ctxDone' = TRUE
    /\ UNCHANGED <<events, pc, event, subs, notified, received>>

\* Of two ready cases select takes either: events may be left in the channel.
Return ==
    /\ pc = "select" /\ ctxDone
    /\ pc' = "returned"
    /\ UNCHANGED <<events, event, subs, ctxDone, notified, received>>

Receive ==
    /\ pc = "select" /\ events # <<>>
    /\ event' = Head(events) /\ events' = Tail(events)
    /\ subs' = buildSubsByEvent[Head(events).type]
    /\ pc' = "dispatch"
    /\ UNCHANGED <<ctxDone, notified, received>>

\* The loop over the URLs goes on, or is done and select comes next.
Advance(rest) ==
    /\ subs' = rest
    /\ IF rest = {} THEN pc' = "select" /\ event' = NoEvent ELSE UNCHANGED <<pc, event>>
    /\ UNCHANGED <<events, ctxDone, notified>>

\* Whether a post that fails or times out arrived is not known.
MayArrive == \/ received' = [received EXCEPT ![Subscriptions[Min(subs)].url] = Append(@, event)]
             \/ UNCHANGED received

\* Mutant of send: an error ends the dispatch of the event.
sendBreaks ==
    /\ pc = "dispatch"
    /\ Advance(subs \ {Min(subs)}) \/ Advance({})
    /\ MayArrive

\* Mutant of send: an error ends the goroutine.
sendReturns ==
    /\ pc = "dispatch"
    /\ \/ Advance(subs \ {Min(subs)})
       \/ pc' = "returned" /\ UNCHANGED <<events, event, subs, ctxDone, notified>>
    /\ MayArrive

(* One iteration of the loop over the URLs: an answer, an error or a       *)
(* timeout is logged and the next URL follows.                             *)
send ==
    /\ pc = "dispatch"
    /\ Advance(subs \ {Min(subs)})
    /\ MayArrive

-----------------------------------------------------------------------------
Start == Return \/ Receive \/ send

Next ==
    \/ \E a \in DOMAIN eventTypeForAction : NotifyCheckedRequest(a)
    \/ NotifyCaptchaVerified \/ Cancel \/ Start

Spec == Init /\ [][Next]_vars

\* Start is scheduled; a send returns, by its timeout if not before.
FairSpec == Spec /\ WF_vars(Start)

-----------------------------------------------------------------------------
\* Properties.

Events == [id : 1 .. MaxEvents, type : EventTypes]

(* Every variable holds values of its kind; the channel keeps to its       *)
(* capacity, and a dispatch has a URL to go on with.                       *)
TypeOK ==
    /\ events \in Seq(Events) /\ Len(events) <= BufferSize
    /\ pc \in {"select", "dispatch", "returned"}
    /\ event \in Events \cup {NoEvent} /\ subs \subseteq DOMAIN Subscriptions
    /\ pc = "dispatch" <=> subs # {}
    /\ ctxDone \in BOOLEAN /\ notified \in 0 .. MaxEvents
    /\ received \in [Urls -> Seq(Events)]

(* A subscriber gets the events it subscribed to in the order they were    *)
(* notified and none of them twice, whatever fails or is dropped.          *)
InOrderOnce ==
    \A u \in Urls :
        /\ \A i, j \in DOMAIN received[u] : i < j => received[u][i].id < received[u][j].id
        /\ \A i \in DOMAIN received[u] : \E j \in DOMAIN Subscriptions :
               Subscriptions[j].url = u /\ received[u][i].type \in Subscriptions[j].events

SubscribersOf(e) == UrlsOf(buildSubsByEvent[e.type])

\* What u has still to be offered, of the event in hand and those in the channel.
Waiting(u) ==
    (IF u \in UrlsOf(subs) THEN {event} ELSE {})
      \cup {e \in {events[i] : i \in DOMAIN events} : u \in SubscribersOf(e)}

Feed == INSTANCE EventFeed WITH Capacity <- BufferSize, EventSet <- Events, last <- notified,
                                waiting <- [u \in Urls |-> Waiting(u)]

(* Channel and dispatch loop implement the promised feed: an event is      *)
(* taken for all of its subscribers or for none, none is dropped while     *)
(* there is room in the channel, and each is offered once.                 *)
ImplementsFeed == Feed!Spec

(* Every event that got into the channel is offered to each of its         *)
(* subscribers in the end, though posts to it or to others keep failing,   *)
(* unless the service is stopped.                                          *)
EventuallyOffered ==
    \A u \in Urls, i \in 1 .. MaxEvents :
        (\E e \in Waiting(u) : e.id = i) ~> (ctxDone \/ \A e \in Waiting(u) : e.id # i)
=============================================================================
