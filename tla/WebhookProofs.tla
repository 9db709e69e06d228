---------------------------- MODULE WebhookProofs ----------------------------
(***************************************************************************)
(* Proofs about Webhook, for any subscriptions, any capacity of the channel*)
(* and any number of events.                                               *)
(***************************************************************************)
EXTENDS Webhook, SequenceTheorems, WellFoundedInduction, TLAPS

-----------------------------------------------------------------------------
(* The inductive invariant: the numbers of the events grow from what has   *)
(* arrived over the event in hand to those in the channel.                 *)

\* The channel holds events in the order they were notified.
ChannelInv ==
    \A i \in DOMAIN events :
        /\ events[i].id <= notified /\ subscribedTo(events[i].type)
        /\ \A j \in DOMAIN events : i < j => events[i].id < events[j].id

\* The event in hand is older than those in the channel; what is left is of its own URLs.
DispatchInv ==
    pc = "dispatch" =>
        /\ event \in Events /\ event.id <= notified
        /\ \A i \in DOMAIN events : event.id < events[i].id
        /\ subs \subseteq buildSubsByEvent[event.type]

Subscribed(u, t) == \E j \in DOMAIN Subscriptions : Subscriptions[j].url = u /\ t \in Subscriptions[j].events

\* What has arrived at u is in order, older than all that waits for it, and was subscribed to.
ArrivedInv ==
    \A u \in Urls : \A i \in DOMAIN received[u] :
        /\ received[u][i].id <= notified
        /\ \A j \in DOMAIN received[u] : i < j => received[u][i].id < received[u][j].id
        /\ \A j \in DOMAIN events : received[u][i].id < events[j].id
        /\ pc = "dispatch" => /\ received[u][i].id <= event.id
                              /\ u \in UrlsOf(subs) => received[u][i].id < event.id
        /\ Subscribed(u, received[u][i].type)

IInv == TypeOK /\ ChannelInv /\ DispatchInv /\ ArrivedInv

-----------------------------------------------------------------------------
\* Facts about the subscriptions and about sequences.

\* Every set of numbers has a least element, which Min chooses.
LEMMA LeastNatural ==
    ASSUME NEW S, S \subseteq Nat, S # {}
    PROVE  \E x \in S : \A y \in S : x <= y
<1>. DEFINE Less == OpToRel(<, Nat)
<1>1. \E x \in S : \A y \in S : ~ (<<y, x>> \in Less)
  <2>. HIDE DEF Less
  <2>1. IsWellFoundedOn(Less, Nat)
    BY NatLessThanWellFounded DEF Less
  <2>. QED
    BY <2>1, WFMin
<1>2. PICK x \in S : \A y \in S : ~ (y < x)
  BY <1>1 DEF OpToRel
<1>. QED
  BY <1>2

LEMMA MinIn == ASSUME NEW S, S \subseteq Nat, S # {} PROVE Min(S) \in S
  BY LeastNatural DEF Min

LEMMA Positions == DOMAIN Subscriptions \subseteq Nat
  BY SubscriptionAssumption, LenProperties

LEMMA SubsByEvent ==
    ASSUME NEW t \in EventTypes
    PROVE  /\ buildSubsByEvent[t] \subseteq DOMAIN Subscriptions
           /\ \A i \in buildSubsByEvent[t] : t \in Subscriptions[i].events
           /\ \A i, j \in buildSubsByEvent[t] : Subscriptions[i].url = Subscriptions[j].url => i = j
<1>1. /\ buildSubsByEvent[t] \subseteq DOMAIN Subscriptions
      /\ \A i \in buildSubsByEvent[t] : t \in Subscriptions[i].events
      /\ \A i \in buildSubsByEvent[t] : \A j \in 1 .. i - 1 :
             t \in Subscriptions[j].events => Subscriptions[j].url # Subscriptions[i].url
  BY DEF buildSubsByEvent
<1>2. DOMAIN Subscriptions = 1 .. Len(Subscriptions) /\ Len(Subscriptions) \in Nat
  BY SubscriptionAssumption, LenProperties
<1>3. \A i, j \in buildSubsByEvent[t] : j < i => Subscriptions[i].url # Subscriptions[j].url
  BY <1>1, <1>2
<1>4. \A i, j \in buildSubsByEvent[t] : i = j \/ i < j \/ j < i
  BY <1>1, <1>2
<1>. QED
  BY <1>1, <1>3, <1>4

LEMMA Elements ==
    ASSUME NEW S, NEW s \in Seq(S)
    PROVE  /\ DOMAIN s = 1 .. Len(s) /\ Len(s) \in Nat
           /\ \A i \in DOMAIN s : s[i] \in S /\ i \in Nat
  OBVIOUS

LEMMA EventElements ==
    ASSUME NEW s \in Seq(Events)
    PROVE  /\ DOMAIN s = 1 .. Len(s) /\ Len(s) \in Nat
           /\ \A i \in DOMAIN s : s[i] \in Events /\ s[i].id \in Nat /\ i \in Nat
<1>1. /\ DOMAIN s = 1 .. Len(s) /\ Len(s) \in Nat
      /\ \A i \in DOMAIN s : s[i] \in Events /\ i \in Nat
  BY Elements
<1>2. \A e \in Events : e.id \in Nat
  BY BufferAssumption DEF Events
<1>. QED
  BY <1>1, <1>2

LEMMA Appended ==
    ASSUME NEW S, NEW s \in Seq(S), NEW e \in S
    PROVE  /\ Append(s, e) \in Seq(S) /\ Len(s) \in Nat /\ Len(Append(s, e)) = Len(s) + 1
           /\ DOMAIN s = 1 .. Len(s) /\ DOMAIN Append(s, e) = 1 .. Len(s) + 1
           /\ Append(s, e)[Len(s) + 1] = e
           /\ \A i \in DOMAIN s : Append(s, e)[i] = s[i]
  OBVIOUS

LEMMA Removed ==
    ASSUME NEW S, NEW s \in Seq(S), s # <<>>
    PROVE  /\ Head(s) \in S /\ Head(s) = s[1] /\ 1 \in DOMAIN s
           /\ Tail(s) \in Seq(S) /\ Len(s) \in Nat /\ Len(Tail(s)) = Len(s) - 1
           /\ \A i \in DOMAIN Tail(s) : /\ i \in Nat /\ i + 1 \in DOMAIN s /\ 1 < i + 1
                                        /\ Tail(s)[i] = s[i + 1]
  OBVIOUS

-----------------------------------------------------------------------------
\* The invariant holds initially and every operation keeps it.

LEMMA InitInv == ASSUME Init PROVE IInv
<1>1. TypeOK
  <2>1. <<>> \in Seq(Events) /\ Len(<<>>) = 0
    BY EmptySeq
  <2>2. received \in [Urls -> Seq(Events)]
    BY <2>1 DEF Init
  <2>3. events \in Seq(Events) /\ Len(events) <= BufferSize
    BY <2>1, BufferAssumption DEF Init
  <2>4. event \in Events \cup {NoEvent} /\ subs \subseteq DOMAIN Subscriptions
    BY DEF Init
  <2>6. ctxDone \in BOOLEAN /\ notified \in 0 .. MaxEvents
    <3>1. ctxDone \in BOOLEAN
      BY Zenon DEF Init
    <3>2. notified \in 0 .. MaxEvents
      BY BufferAssumption DEF Init
    <3>. QED
      BY <3>1, <3>2
  <2>5. pc \in {"select", "dispatch", "returned"} /\ (pc = "dispatch" <=> subs # {})
    BY DEF Init
  <2>. QED
    BY <2>2, <2>3, <2>4, <2>5, <2>6 DEF TypeOK
<1>2. ChannelInv /\ DispatchInv /\ ArrivedInv
  BY DEF Init, ChannelInv, DispatchInv, ArrivedInv
<1>. QED
  BY <1>1, <1>2 DEF IInv

LEMMA EnqueueInv == ASSUME IInv, NEW t \in EventTypes, subscribedTo(t), notified < MaxEvents, enqueue(t)
      PROVE  IInv'
<1>. DEFINE e == [id |-> notified + 1, type |-> t]
<1>1. notified \in Nat /\ notified' = notified + 1 /\ notified' \in 0 .. MaxEvents /\ e \in Events
      /\ e.id = notified + 1 /\ subscribedTo(e.type)
  BY BufferAssumption DEF IInv, TypeOK, Events, enqueue
<1>2. events' = IF Len(events) < BufferSize THEN Append(events, e) ELSE events
  BY DEF enqueue
<1>3. UNCHANGED <<pc, event, subs, ctxDone, received>>
  BY DEF enqueue
<1>. HIDE DEF e
<1>4. events \in Seq(Events) /\ Len(events) \in Nat /\ DOMAIN events = 1 .. Len(events)
      /\ \A i \in DOMAIN events : events[i] \in Events /\ events[i].id \in Nat
  <2>1. events \in Seq(Events)
    BY DEF IInv, TypeOK
  <2>. QED
    BY <2>1, EventElements
<1>5. /\ events' \in Seq(Events) /\ Len(events') <= BufferSize
      /\ DOMAIN events' = 1 .. Len(events') /\ Len(events') \in Nat
      /\ \A i \in DOMAIN events' : \/ i \in DOMAIN events /\ events'[i] = events[i]
                                   \/ i = Len(events) + 1 /\ events'[i] = e
  <2>1. CASE Len(events) < BufferSize
    BY <1>1, <1>2, <1>4, <2>1, Appended, BufferAssumption
  <2>2. CASE ~ (Len(events) < BufferSize)
    BY <1>2, <1>4, <2>2 DEF IInv, TypeOK
  <2>. QED
    BY <2>1, <2>2
<1>6. TypeOK'
  BY <1>1, <1>3, <1>5 DEF IInv, TypeOK
<1>7. ChannelInv'
  <2>1. \A i \in DOMAIN events : events[i].id < e.id
    BY <1>1, <1>4 DEF IInv, ChannelInv
  <2>2. \A i \in DOMAIN events' : events'[i].id <= notified' /\ subscribedTo(events'[i].type)
    BY <1>1, <1>4, <1>5 DEF IInv, ChannelInv
  <2>3. \A i, j \in DOMAIN events' : i < j => events'[i].id < events'[j].id
    BY <1>4, <1>5, <2>1 DEF IInv, ChannelInv
  <2>. QED
    BY <2>2, <2>3 DEF ChannelInv, subscribedTo
<1>8. DispatchInv'
  <2>1. SUFFICES ASSUME pc = "dispatch" PROVE DispatchInv'
    BY <1>3 DEF DispatchInv
  <2>2. event \in Events /\ event.id \in Nat /\ event.id <= notified
        /\ \A i \in DOMAIN events : event.id < events[i].id
    BY <2>1 DEF IInv, DispatchInv, Events
  <2>3. \A i \in DOMAIN events' : event.id < events'[i].id
    BY <1>1, <1>4, <1>5, <2>2
  <2>. QED
    BY <1>1, <1>3, <2>1, <2>2, <2>3 DEF IInv, DispatchInv
<1>9. ArrivedInv'
  <2>1. SUFFICES ASSUME NEW u \in Urls, NEW i \in DOMAIN received[u]
                 PROVE  /\ received[u][i].id <= notified'
                        /\ \A j \in DOMAIN events' : received[u][i].id < events'[j].id
    BY <1>3 DEF IInv, ArrivedInv
  <2>2. received[u][i].id \in Nat
    <3>1. received[u] \in Seq(Events)
      BY DEF IInv, TypeOK
    <3>. QED
      BY <3>1, EventElements
  <2>3. received[u][i].id <= notified /\ \A j \in DOMAIN events : received[u][i].id < events[j].id
    BY DEF IInv, ArrivedInv
  <2>. QED
    BY <1>1, <1>4, <1>5, <2>2, <2>3
<1>. QED
  BY <1>6, <1>7, <1>8, <1>9 DEF IInv

LEMMA ReceiveInv == ASSUME IInv, Receive PROVE IInv'
<1>1. /\ pc = "select" /\ events # <<>> /\ event' = Head(events) /\ events' = Tail(events)
      /\ subs' = buildSubsByEvent[Head(events).type] /\ pc' = "dispatch"
      /\ UNCHANGED <<ctxDone, notified, received>>
  BY DEF Receive
<1>2. events \in Seq(Events) /\ Len(events) <= BufferSize /\ Len(events) \in Nat
      /\ \A i \in DOMAIN events : events[i] \in Events /\ events[i].id \in Nat
  <2>1. events \in Seq(Events) /\ Len(events) <= BufferSize
    BY DEF IInv, TypeOK
  <2>. QED
    BY <2>1, EventElements
<1>3. /\ event' \in Events /\ event' = events[1] /\ 1 \in DOMAIN events
      /\ events' \in Seq(Events) /\ Len(events') <= BufferSize
      /\ \A i \in DOMAIN events' : /\ i \in Nat /\ i + 1 \in DOMAIN events /\ 1 < i + 1
                                   /\ events'[i] = events[i + 1]
  BY <1>1, <1>2, Removed, BufferAssumption
<1>4. subs' = buildSubsByEvent[event'.type] /\ event'.type \in EventTypes /\ subs' # {}
  BY <1>1, <1>3 DEF IInv, ChannelInv, subscribedTo, Events
<1>5. TypeOK'
  <2>1. subs' \subseteq DOMAIN Subscriptions
    BY <1>4, SubsByEvent
  <2>. QED
    BY <1>1, <1>3, <1>4, <2>1 DEF IInv, TypeOK
<1>6. ChannelInv'
  <2>1. \A i \in DOMAIN events :
           /\ events[i].id <= notified /\ subscribedTo(events[i].type)
           /\ \A j \in DOMAIN events : i < j => events[i].id < events[j].id
    BY DEF IInv, ChannelInv
  <2>2. \A i, j \in DOMAIN events' : i < j => i + 1 < j + 1
    BY <1>3
  <2>. QED
    BY <1>1, <1>3, <2>1, <2>2 DEF ChannelInv, subscribedTo
<1>7. DispatchInv'
  BY <1>1, <1>3, <1>4 DEF IInv, DispatchInv, ChannelInv
<1>8. ArrivedInv'
  <2>1. SUFFICES ASSUME NEW u \in Urls, NEW i \in DOMAIN received[u]
                 PROVE  /\ \A j \in DOMAIN events' : received[u][i].id < events'[j].id
                        /\ received[u][i].id <= event'.id /\ received[u][i].id < event'.id
    BY <1>1 DEF IInv, ArrivedInv
  <2>2. received[u][i].id \in Nat
    <3>1. received[u] \in Seq(Events)
      BY DEF IInv, TypeOK
    <3>. QED
      BY <3>1, EventElements
  <2>3. \A j \in DOMAIN events : received[u][i].id < events[j].id
    BY DEF IInv, ArrivedInv
  <2>. QED
    BY <1>2, <1>3, <2>2, <2>3
<1>. QED
  BY <1>5, <1>6, <1>7, <1>8 DEF IInv

LEMMA SendInv == ASSUME IInv, send PROVE IInv'
<1>. DEFINE m == Min(subs)
            v == Subscriptions[m].url
<1>1. /\ pc = "dispatch" /\ subs' = subs \ {m}
      /\ UNCHANGED <<events, ctxDone, notified>>
      /\ \/ subs' = {} /\ pc' = "select" /\ event' = NoEvent
         \/ subs' # {} /\ pc' = "dispatch" /\ event' = event
      /\ \/ received' = [received EXCEPT ![v] = Append(@, event)]
         \/ received' = received
  BY DEF send, Advance, MayArrive
<1>2. /\ event \in Events /\ event.id \in Nat /\ event.id <= notified /\ event.type \in EventTypes
      /\ \A i \in DOMAIN events : event.id < events[i].id
      /\ subs \subseteq buildSubsByEvent[event.type] /\ subs # {} /\ subs \subseteq DOMAIN Subscriptions
  BY <1>1 DEF IInv, TypeOK, DispatchInv, Events
<1>3. m \in subs
  BY <1>2, Positions, MinIn
<1>. HIDE DEF m
<1>4. /\ v \in UrlsOf(subs) /\ v \in Urls /\ Subscribed(v, event.type)
      /\ v \notin UrlsOf(subs') /\ UrlsOf(subs') \subseteq UrlsOf(subs)
  <2>1. v \in UrlsOf(subs) /\ v \in Urls /\ Subscribed(v, event.type)
    BY <1>2, <1>3, SubsByEvent DEF UrlsOf, Urls, Subscribed
  <2>2. \A i \in subs' : i \in subs /\ Subscriptions[i].url # v
    BY <1>1, <1>2, <1>3, SubsByEvent
  <2>. QED
    BY <2>1, <2>2 DEF UrlsOf
<1>. HIDE DEF v
<1>5. \A u \in Urls : received[u] \in Seq(Events)
  BY DEF IInv, TypeOK
<1>6. \A u \in Urls :
          /\ received'[u] \in Seq(Events)
          /\ \/ received'[u] = received[u]
             \/ u = v /\ received'[u] = Append(received[u], event)
  <2>1. received \in [Urls -> Seq(Events)]
    BY DEF IInv, TypeOK
  <2>2. CASE received' = received
    BY <1>5, <2>2
  <2>3. CASE received' = [received EXCEPT ![v] = Append(@, event)]
    BY <1>2, <1>4, <1>5, <2>1, <2>3, Appended
  <2>. QED
    BY <1>1, <2>2, <2>3
<1>7. TypeOK'
  <2>1. received' \in [Urls -> Seq(Events)]
    <3>1. received \in [Urls -> Seq(Events)]
      BY DEF IInv, TypeOK
    <3>2. CASE received' = received
      BY <3>1, <3>2
    <3>3. CASE received' = [received EXCEPT ![v] = Append(@, event)]
      BY <1>2, <1>4, <3>1, <3>3, Appended
    <3>. QED
      BY <1>1, <3>2, <3>3
  <2>2. event' \in Events \cup {NoEvent} /\ subs' \subseteq DOMAIN Subscriptions
        /\ (pc' = "dispatch" <=> subs' # {}) /\ pc' \in {"select", "dispatch", "returned"}
    BY <1>1, <1>2
  <2>. QED
    BY <1>1, <2>1, <2>2 DEF IInv, TypeOK
<1>8. ChannelInv'
  BY <1>1 DEF IInv, ChannelInv, subscribedTo
<1>9. DispatchInv'
  BY <1>1, <1>2 DEF DispatchInv
<1>10. ArrivedInv'
  <2>. SUFFICES ASSUME NEW u \in Urls
                PROVE  \A i \in DOMAIN received'[u] :
                          /\ received'[u][i].id <= notified
                          /\ \A j \in DOMAIN received'[u] :
                                 i < j => received'[u][i].id < received'[u][j].id
                          /\ \A j \in DOMAIN events : received'[u][i].id < events[j].id
                          /\ received'[u][i].id <= event.id
                          /\ u \in UrlsOf(subs') => received'[u][i].id < event.id
                          /\ Subscribed(u, received'[u][i].type)
    BY <1>1 DEF ArrivedInv, Subscribed
  <2>1. \A i \in DOMAIN received[u] :
            /\ i \in Nat /\ received[u][i].id \in Nat
            /\ received[u][i].id <= notified
            /\ \A j \in DOMAIN received[u] : i < j => received[u][i].id < received[u][j].id
            /\ \A j \in DOMAIN events : received[u][i].id < events[j].id
            /\ received[u][i].id <= event.id
            /\ u \in UrlsOf(subs) => received[u][i].id < event.id
            /\ Subscribed(u, received[u][i].type)
    BY <1>1, <1>5, EventElements DEF IInv, ArrivedInv
  <2>2. CASE received'[u] = received[u]
    BY <1>4, <2>1, <2>2
  <2>3. CASE u = v /\ received'[u] = Append(received[u], event)
    <3>1. /\ Len(received[u]) \in Nat /\ DOMAIN received[u] = 1 .. Len(received[u])
          /\ DOMAIN received'[u] = 1 .. Len(received[u]) + 1
          /\ received'[u][Len(received[u]) + 1] = event
          /\ \A i \in DOMAIN received[u] : received'[u][i] = received[u][i]
      BY <1>2, <1>5, <2>3, Appended
    <3>2. \A i \in DOMAIN received'[u] :
              \/ i \in DOMAIN received[u] /\ received'[u][i] = received[u][i]
              \/ i = Len(received[u]) + 1 /\ received'[u][i] = event
      BY <3>1
    <3>3. \A i \in DOMAIN received[u] : received[u][i].id < event.id
      BY <1>4, <2>1, <2>3
    <3>4. u \notin UrlsOf(subs') /\ Subscribed(u, event.type)
      BY <1>4, <2>3
    <3>5. ASSUME NEW i \in DOMAIN received'[u], NEW j \in DOMAIN received'[u], i < j
          PROVE  received'[u][i].id < received'[u][j].id
      BY <2>1, <3>1, <3>2, <3>3, <3>5
    <3>6. ASSUME NEW i \in DOMAIN received'[u]
          PROVE  /\ received'[u][i].id <= notified /\ received'[u][i].id <= event.id
                 /\ \A j \in DOMAIN events : received'[u][i].id < events[j].id
                 /\ Subscribed(u, received'[u][i].type)
      BY <1>2, <2>1, <3>2, <3>4
    <3>. QED
      BY <3>4, <3>5, <3>6
  <2>. QED
    BY <1>6, <2>2, <2>3
<1>. QED
  BY <1>7, <1>8, <1>9, <1>10 DEF IInv

LEMMA NextInv == ASSUME IInv, [Next]_vars PROVE IInv'
<1>1. CASE \E a \in DOMAIN eventTypeForAction : NotifyCheckedRequest(a)
  <2>1. PICK a \in DOMAIN eventTypeForAction : NotifyCheckedRequest(a)
    BY <1>1
  <2>2. eventTypeForAction[a] \in EventTypes
    BY DEF eventTypeForAction, EventTypes
  <2>. QED
    BY <2>1, <2>2, EnqueueInv DEF NotifyCheckedRequest
<1>2. CASE NotifyCaptchaVerified
  <2>1. "captcha_verified" \in EventTypes
    BY DEF EventTypes
  <2>. QED
    BY <1>2, <2>1, EnqueueInv DEF NotifyCaptchaVerified
<1>3. CASE Cancel
  BY <1>3 DEF Cancel, IInv, TypeOK, ChannelInv, DispatchInv, ArrivedInv, subscribedTo, Subscribed
<1>4. CASE Return
  <2>1. TypeOK'
    BY <1>4 DEF Return, IInv, TypeOK
  <2>. QED
    BY <1>4, <2>1 DEF Return, IInv, ChannelInv, DispatchInv, ArrivedInv, subscribedTo, Subscribed
<1>5. CASE UNCHANGED vars
  BY <1>5 DEF vars, IInv, TypeOK, ChannelInv, DispatchInv, ArrivedInv, subscribedTo, Subscribed
<1>. QED
  BY <1>1, <1>2, <1>3, <1>4, <1>5, ReceiveInv, SendInv DEF Next, Start

LEMMA Invariance == Spec => []IInv
<1>. QED
  BY InitInv, NextInv, PTL DEF Spec

-----------------------------------------------------------------------------
(* Every variable keeps to its type, the channel to its capacity, and the  *)
(* loop has a URL to post to whenever it is in a dispatch (Start).         *)
THEOREM TypeCorrect == Spec => []TypeOK
<1>1. IInv => TypeOK
  BY DEF IInv
<1>. QED
  BY <1>1, Invariance, PTL

(* Whatever is dropped, fails or arrives though it seemed to fail, each    *)
(* subscriber sees what it subscribed to, in order and at most once        *)
(* (buildSubsByEvent, enqueue, dispatch).                                  *)
THEOREM DeliveredInOrder == Spec => []InOrderOnce
<1>1. IInv => InOrderOnce
  BY DEF IInv, ArrivedInv, Subscribed, InOrderOnce
<1>. QED
  BY <1>1, Invariance, PTL

-----------------------------------------------------------------------------
\* The refinement: what each step does to the events that wait for a subscriber.

InChannel(e) == \E i \in DOMAIN events : e = events[i]

LEMMA WaitingIs ==
    ASSUME NEW u
    PROVE  /\ \A e : e \in Waiting(u) <=>
                 (e = event /\ u \in UrlsOf(subs)) \/ (InChannel(e) /\ u \in SubscribersOf(e))
           /\ \A e : e \in Waiting(u)' <=>
                 (e = event' /\ u \in UrlsOf(subs)') \/ (InChannel(e)' /\ u \in SubscribersOf(e))
<1>1. \A e : e \in Waiting(u) <=>
          (e = event /\ u \in UrlsOf(subs)) \/ (InChannel(e) /\ u \in SubscribersOf(e))
  BY DEF Waiting, InChannel
<1>2. \A e : e \in Waiting(u)' <=>
          (e = event' /\ u \in UrlsOf(subs)') \/ (InChannel(e)' /\ u \in SubscribersOf(e))
  BY DEF Waiting, InChannel
<1>. QED
  BY <1>1, <1>2

LEMMA UrlsOfNext == /\ UrlsOf(subs)' = UrlsOf(subs')
                    /\ UrlsOf({}) = {}
  BY DEF UrlsOf

\* Steps that leave channel, dispatch and deliveries alone are none of the feed's.
LEMMA SameWaiting ==
    ASSUME UNCHANGED <<events, event, subs, notified, received>>
    PROVE  UNCHANGED Feed!vars
  BY DEF Feed!vars, Waiting, UrlsOf

LEMMA InitImplements == Init => Feed!Init
<1>1. ASSUME Init, NEW u \in Urls PROVE Waiting(u) = {}
  <2>1. \A e : e \notin Waiting(u)
    BY <1>1, WaitingIs, UrlsOfNext DEF Init, InChannel
  <2>. QED
    BY <2>1
<1>. QED
  BY <1>1 DEF Init, Feed!Init

LEMMA HasSubscriber ==
    ASSUME NEW e, e.type \in EventTypes, subscribedTo(e.type)
    PROVE  \E u \in Urls : u \in SubscribersOf(e)
<1>1. PICK i \in buildSubsByEvent[e.type] : i \in DOMAIN Subscriptions
  BY SubsByEvent DEF subscribedTo
<1>. QED
  BY <1>1 DEF Urls, UrlsOf, SubscribersOf

\* Each event in the channel is different and waits for somebody: a full channel is a full feed.
LEMMA ChannelWaits ==
    ASSUME IInv, Len(events) >= BufferSize
    PROVE  Feed!Full
<1>. DEFINE Pending == UNION {[v \in Urls |-> Waiting(v)][u] : u \in Urls}
            queue == [i \in 1 .. BufferSize |-> events[i]]
<1>1. /\ BufferSize \in Nat /\ Len(events) \in Nat /\ DOMAIN events = 1 .. Len(events)
      /\ \A i \in DOMAIN events : events[i] \in Events
  <2>1. events \in Seq(Events)
    BY DEF IInv, TypeOK
  <2>. QED
    BY <2>1, EventElements, BufferAssumption
<1>2. 1 .. BufferSize \subseteq DOMAIN events
  BY <1>1
<1>3. ASSUME NEW i \in DOMAIN events PROVE events[i] \in Pending
  <2>1. events[i].type \in EventTypes /\ subscribedTo(events[i].type)
    BY <1>1 DEF IInv, ChannelInv, Events
  <2>2. PICK u \in Urls : u \in SubscribersOf(events[i])
    BY <2>1, HasSubscriber
  <2>3. events[i] \in Waiting(u)
    BY <2>2, WaitingIs DEF InChannel
  <2>. QED
    BY <2>3
<1>. HIDE DEF Pending
<1>4. queue \in [1 .. BufferSize -> Pending]
  BY <1>2, <1>3
<1>5. \A i, j \in 1 .. BufferSize : i < j => queue[i].id < queue[j].id
  BY <1>2 DEF IInv, ChannelInv
<1>. QED
  BY <1>4, <1>5 DEF Feed!Full, Pending

LEMMA EnqueueImplements ==
    ASSUME IInv, NEW t \in EventTypes, subscribedTo(t), notified < MaxEvents, enqueue(t)
    PROVE  Feed!Next
<1>. DEFINE e == [id |-> notified + 1, type |-> t]
<1>1. e \in Events /\ e.id = notified + 1 /\ notified' = e.id
  BY BufferAssumption DEF IInv, TypeOK, Events, enqueue
<1>2. /\ events' = IF Len(events) < BufferSize THEN Append(events, e) ELSE events
      /\ UNCHANGED <<event, subs, received>>
  BY DEF enqueue
<1>3. SubscribersOf(e) # {}
  BY HasSubscriber
<1>. HIDE DEF e
<1>4. CASE Len(events) < BufferSize
  <2>1. /\ Len(events) \in Nat /\ DOMAIN events = 1 .. Len(events)
        /\ DOMAIN events' = 1 .. Len(events) + 1 /\ events'[Len(events) + 1] = e
        /\ \A i \in DOMAIN events : events'[i] = events[i]
    <3>1. events \in Seq(Events)
      BY DEF IInv, TypeOK
    <3>. QED
      BY <1>1, <1>2, <1>4, <3>1, Appended
  <2>2. \A f : InChannel(f)' <=> f = e \/ InChannel(f)
    BY <2>1 DEF InChannel
  <2>3. ASSUME NEW u \in Urls
        PROVE  Waiting(u)' = IF u \in SubscribersOf(e) THEN Waiting(u) \cup {e} ELSE Waiting(u)
    <3>1. \A f : f \in Waiting(u)' <=> f \in Waiting(u) \/ (f = e /\ u \in SubscribersOf(e))
      BY <1>2, <2>2, WaitingIs, UrlsOfNext
    <3>. QED
      BY <3>1
  <2>4. Feed!Take(e)
    BY <1>1, <1>2, <2>3 DEF Feed!Take
  <2>. QED
    BY <1>1, <1>3, <2>4 DEF Feed!Next
<1>5. CASE ~ (Len(events) < BufferSize)
  <2>1. \A u \in Urls : Waiting(u)' = Waiting(u)
    BY <1>2, <1>5 DEF Waiting, UrlsOf
  <2>2. Feed!Full
    <3>1. Len(events) >= BufferSize
      BY <1>5, BufferAssumption, Elements DEF IInv, TypeOK
    <3>. QED
      BY <3>1, ChannelWaits
  <2>3. Feed!Drop(e)
    BY <1>1, <1>2, <2>1, <2>2 DEF Feed!Drop
  <2>. QED
    BY <1>1, <1>3, <2>3 DEF Feed!Next
<1>. QED
  BY <1>4, <1>5

\* The event in hand waits for exactly those it waited for in the channel.
LEMMA ReceiveImplements ==
    ASSUME IInv, Receive
    PROVE  UNCHANGED Feed!vars
<1>1. /\ events \in Seq(Events) /\ events # <<>> /\ event' = events[1] /\ events' = Tail(events)
      /\ subs' = buildSubsByEvent[event'.type] /\ subs = {}
      /\ UNCHANGED <<notified, received>>
  <2>1. events \in Seq(Events) /\ events # <<>> /\ subs = {}
    BY DEF IInv, TypeOK, Receive
  <2>. QED
    BY <2>1, Removed DEF Receive
<1>2. /\ Len(events) \in Nat /\ DOMAIN events = 1 .. Len(events) /\ 1 \in DOMAIN events
      /\ DOMAIN events' = 1 .. Len(events) - 1
      /\ \A i \in DOMAIN events' : events'[i] = events[i + 1]
  <2>1. events' \in Seq(Events) /\ Len(events') = Len(events) - 1
    BY <1>1, Removed
  <2>. QED
    BY <1>1, <2>1, Elements, Removed
<1>3. \A e : InChannel(e) <=> e = event' \/ InChannel(e)'
  <2>1. ASSUME NEW i \in DOMAIN events PROVE i = 1 \/ (i - 1 \in DOMAIN events' /\ events[i] = events'[i - 1])
    BY <1>2
  <2>2. ASSUME NEW i \in DOMAIN events' PROVE i + 1 \in DOMAIN events /\ events'[i] = events[i + 1]
    BY <1>2
  <2>3. \A e : InChannel(e) => e = event' \/ InChannel(e)'
    BY <1>1, <2>1 DEF InChannel
  <2>4. \A e : e = event' \/ InChannel(e)' => InChannel(e)
    BY <1>1, <1>2, <2>2 DEF InChannel
  <2>. QED
    BY <2>3, <2>4
<1>4. ASSUME NEW u \in Urls PROVE Waiting(u)' = Waiting(u)
  <2>1. u \in UrlsOf(subs)' <=> u \in SubscribersOf(event')
    BY <1>1, UrlsOfNext DEF SubscribersOf
  <2>2. u \notin UrlsOf(subs)
    BY <1>1, UrlsOfNext
  <2>3. \A e : e \in Waiting(u)' <=> e \in Waiting(u)
    BY <1>3, <2>1, <2>2, WaitingIs
  <2>. QED
    BY <2>3
<1>. QED
  BY <1>1, <1>4 DEF Feed!vars

\* A post offers the event in hand, the oldest that waits, to one subscriber.
LEMMA SendImplements ==
    ASSUME IInv, send
    PROVE  Feed!Next
<1>. DEFINE m == Min(subs)
            v == Subscriptions[m].url
<1>1. /\ pc = "dispatch" /\ subs' = subs \ {m}
      /\ UNCHANGED <<events, notified>>
      /\ subs' # {} => event' = event
      /\ \/ received' = [received EXCEPT ![v] = Append(@, event)]
         \/ received' = received
  BY DEF send, Advance, MayArrive
<1>2. /\ event \in Events /\ event.type \in EventTypes
      /\ \A i \in DOMAIN events : event.id < events[i].id /\ events[i].id \in Nat
      /\ event.id \in Nat
      /\ subs \subseteq buildSubsByEvent[event.type] /\ subs # {} /\ subs \subseteq DOMAIN Subscriptions
  <2>1. events \in Seq(Events)
    BY DEF IInv, TypeOK
  <2>2. \A i \in DOMAIN events : events[i].id \in Nat
    BY <2>1, EventElements
  <2>. QED
    BY <1>1, <2>2 DEF IInv, TypeOK, DispatchInv, Events
<1>3. m \in subs
  BY <1>2, Positions, MinIn
<1>. HIDE DEF m
<1>4. /\ v \in UrlsOf(subs) /\ v \in Urls /\ v \notin UrlsOf(subs')
      /\ \A u \in UrlsOf(subs) : u = v \/ u \in UrlsOf(subs')
      /\ UrlsOf(subs') \subseteq UrlsOf(subs)
  <2>1. v \in UrlsOf(subs) /\ v \in Urls
    BY <1>2, <1>3 DEF UrlsOf, Urls
  <2>2. \A i \in subs' : i \in subs /\ Subscriptions[i].url # v
    BY <1>1, <1>2, <1>3, SubsByEvent
  <2>3. \A i \in subs : i = m \/ i \in subs'
    BY <1>1
  <2>. QED
    BY <2>1, <2>2, <2>3 DEF UrlsOf
<1>. HIDE DEF v
<1>5. event \in Waiting(v) /\ \A f \in Waiting(v) : event.id <= f.id
  <2>1. \A f : InChannel(f) => event.id <= f.id
    BY <1>2 DEF InChannel
  <2>. QED
    BY <1>2, <1>4, <2>1, WaitingIs
<1>6. ~ InChannel(event) /\ \A e : InChannel(e)' <=> InChannel(e)
  BY <1>1, <1>2 DEF InChannel
<1>7. \A u : u \in UrlsOf(subs)' => event' = event
  BY <1>1, UrlsOfNext
<1>8. ASSUME NEW u \in Urls
      PROVE  Waiting(u)' = IF u = v THEN Waiting(u) \ {event} ELSE Waiting(u)
  <2>1. CASE u = v
    <3>1. \A f : f \in Waiting(u)' <=> f \in Waiting(u) /\ f # event
      BY <1>4, <1>6, <2>1, WaitingIs, UrlsOfNext
    <3>. QED
      BY <2>1, <3>1
  <2>2. CASE u # v
    <3>1. u \in UrlsOf(subs)' <=> u \in UrlsOf(subs)
      BY <1>4, <2>2, UrlsOfNext
    <3>2. \A f : f \in Waiting(u)' <=> f \in Waiting(u)
      BY <1>6, <1>7, <3>1, WaitingIs
    <3>. QED
      BY <2>2, <3>2
  <2>. QED
    BY <2>1, <2>2
<1>9. [u \in Urls |-> Waiting(u)]' =
          [[u \in Urls |-> Waiting(u)] EXCEPT ![v] = @ \ {event}]
  BY <1>4, <1>8
<1>10. Feed!Offer(v, event)
  BY <1>1, <1>4, <1>5, <1>9 DEF Feed!Offer
<1>. QED
  BY <1>4, <1>5, <1>10 DEF Feed!Next

LEMMA NextImplements == ASSUME IInv, [Next]_vars PROVE [Feed!Next]_(Feed!vars)
<1>1. CASE \E a \in DOMAIN eventTypeForAction : NotifyCheckedRequest(a)
  <2>1. PICK a \in DOMAIN eventTypeForAction : NotifyCheckedRequest(a)
    BY <1>1
  <2>2. eventTypeForAction[a] \in EventTypes
    BY DEF eventTypeForAction, EventTypes
  <2>. QED
    BY <2>1, <2>2, EnqueueImplements DEF NotifyCheckedRequest
<1>2. CASE NotifyCaptchaVerified
  <2>1. "captcha_verified" \in EventTypes
    BY DEF EventTypes
  <2>. QED
    BY <1>2, <2>1, EnqueueImplements DEF NotifyCaptchaVerified
<1>3. CASE Cancel \/ Return \/ UNCHANGED vars
  <2>1. UNCHANGED <<events, event, subs, notified, received>>
    BY <1>3 DEF Cancel, Return, vars
  <2>. QED
    BY <2>1, SameWaiting
<1>. QED
  BY <1>1, <1>2, <1>3, ReceiveImplements, SendImplements DEF Next, Start

(* The channel and the dispatch loop implement EventFeed, for any          *)
(* subscriptions: an event is taken for all of its subscribers or for none,*)
(* dropped only if the channel is full, and offered to each once (enqueue, *)
(* dispatch).                                                              *)
THEOREM Implements == Spec => ImplementsFeed
<1>1. IInv /\ [Next]_vars => [Feed!Next]_(Feed!vars)
  BY NextImplements
<1>. QED
  BY <1>1, InitImplements, Invariance, PTL DEF Spec, ImplementsFeed, Feed!Spec
=============================================================================
