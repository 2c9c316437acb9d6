------------------------------ MODULE EventBus ------------------------------
(***************************************************************************)
(* eaip.events.bus.EventBus: publications of several tasks of one event    *)
(* loop, to subscribers that come and go.                                  *)
(*                                                                         *)
(* publish() takes the matching subscriptions and awaits asyncio.gather of *)
(* one delivery each.  gather makes every delivery a task of its own and   *)
(* appends it to the ready queue of the event loop, which is first-in      *)
(* first-out, so that a delivery starts when all those ready before it     *)
(* have.  A delivery that has started is in its handler until that returns *)
(* or raises; a synchronous handler is one that ends at once.  A delivery  *)
(* that is cancelled before it starts never reaches its handler.           *)
(*                                                                         *)
(* The deliveries of one publication stand side by side in the queue, so   *)
(* that a cancellation from outside (a timeout, another task) finds all of *)
(* them started or none.  Only a handler can cancel its own publication    *)
(* between the two, and then gather() does not wait for the others: it     *)
(* ends with the first of its tasks that ends as cancelled.                *)
(***************************************************************************)
EXTENDS Naturals, Sequences, FiniteSets, SequencesExt

CONSTANTS
    Publications,   \* the publish() calls there are; each is made once
    Subscriptions,  \* the subscriptions there are; each is made once
    Wants,          \* the event_type and include_subclasses of each
    EventTypes,
    Supertypes,     \* the types an event of each type is an instance of
    NoType          \* of the event of a publication not made yet

ASSUME EventBusAssumption ==
    /\ NoType \notin EventTypes
    /\ Supertypes \in [EventTypes -> SUBSET EventTypes]
    /\ \A e \in EventTypes : e \in Supertypes[e]
    /\ Wants \in [Subscriptions -> [type : EventTypes, subs : BOOLEAN]]

VARIABLES
    entries,    \* self._entries
    subscribed, \* the subscriptions made so far
    event,      \* the type of the event of each publication
    matching,   \* the subscriptions each publish() found matching
    delivery,   \* where the delivery of a publication to a subscription is
    failures,   \* the failures list of each publication
    publisher,  \* where each publish() call is
    ready,      \* the deliveries in the event loop's ready queue
    own,        \* history: the publications a handler of their own cancelled
    made,       \* history: the publications in the order they were made
    calls       \* history: the publications each handler was called with

subscriptions == <<entries, subscribed>>
history       == <<made, calls>>
busVars == <<subscriptions, event, matching, delivery, failures, publisher, ready, own, history>>

(***************************************************************************)
(* A delivery is "ready" until it starts; "handling" it is in its handler, *)
(* "condemned" in one that has cancelled the publication, its own task     *)
(* included, and not awaited since.  A delivery that is "skipped" or       *)
(* "cancelled" ended as a cancelled task, before or in its handler.        *)
(***************************************************************************)
Handling   == {"handling", "condemned"}
Cancelled  == {"skipped", "cancelled"}
Settled    == {"done", "raised"} \cup Cancelled
Deliveries == {"none", "ready"} \cup Handling \cup Settled
Publishing == {"new", "gathering", "cancelling", "returned", "cancelled"}

BusTypeOK ==
    /\ entries \in Seq(Subscriptions)
    /\ IsInjective(entries)
    /\ ToSet(entries) \subseteq subscribed
    /\ subscribed \subseteq Subscriptions
    /\ event \in [Publications -> EventTypes \cup {NoType}]
    /\ matching \in [Publications -> SUBSET Subscriptions]
    /\ delivery \in [Publications -> [Subscriptions -> Deliveries]]
    /\ failures \in [Publications -> Seq(Subscriptions)]
    /\ publisher \in [Publications -> Publishing]
    /\ own \subseteq Publications
    /\ ready \in Seq(Publications \X Subscriptions)
    /\ \A p \in Publications, s \in Subscriptions :
          /\ delivery[p][s] = "ready" => <<p, s>> \in ToSet(ready)
          /\ s \in matching[p] <=> delivery[p][s] # "none"
          /\ delivery[p][s] = "ready" => publisher[p] \notin {"new", "returned"}
          /\ delivery[p][s] = "condemned" => p \in own
    /\ calls \in [Subscriptions -> Seq(Publications)]
    /\ \A s \in Subscriptions : ToSet(calls[s]) \subseteq ToSet(made)
    /\ made \in Seq(Publications)
    /\ IsInjective(made)
    /\ \A p \in Publications : p \in ToSet(made) <=> publisher[p] # "new"

BusInit ==
    /\ entries = <<>>
    /\ subscribed = {}
    /\ event = [p \in Publications |-> NoType]
    /\ matching = [p \in Publications |-> {}]
    /\ delivery = [p \in Publications |-> [s \in Subscriptions |-> "none"]]
    /\ failures = [p \in Publications |-> <<>>]
    /\ publisher = [p \in Publications |-> "new"]
    /\ ready = <<>>
    /\ own = {}
    /\ made = <<>>
    /\ calls = [s \in Subscriptions |-> <<>>]

-----------------------------------------------------------------------------
\* subscribe(): a DomainEvent type is what it takes; anything else is refused.
Subscribe(s) ==
    /\ s \notin subscribed
    /\ subscribed' = subscribed \cup {s}
    /\ entries' = Append(entries, s)
    /\ UNCHANGED <<event, matching, delivery, failures, publisher, ready, own, history>>

\* The list [x for x in q if x in S], as the only member of a set: those that
\* are in S in the order they have in q, which has none twice.
Filtered(q, S) ==
    {r \in SetToSeqs(ToSet(q) \cap S) :
        \A i, j \in DOMAIN r : i < j =>
            \E m, n \in DOMAIN q : m < n /\ q[m] = r[i] /\ q[n] = r[j]}

\* unsubscribe().
Unsubscribe(s) ==
    /\ s \in ToSet(entries)
    /\ entries' \in Filtered(entries, Subscriptions \ {s})
    /\ UNCHANGED <<subscribed, event, matching, delivery, failures, publisher, ready, own, history>>

\* clear().
Clear ==
    /\ entries # <<>>
    /\ entries' = <<>>
    /\ UNCHANGED <<subscribed, event, matching, delivery, failures, publisher, ready, own, history>>

\* _matches()
Matches(s, e) ==
    IF Wants[s].subs THEN Wants[s].type \in Supertypes[e] ELSE Wants[s].type = e

\* Mutant of Schedule: the deliveries jump the queue.
ScheduleFirst(p, q) ==
    ready' = [i \in DOMAIN q |-> <<p, q[i]>>] \o ready

\* gather() makes the deliveries of p to the subscriptions in q ready.
Schedule(p, q) ==
    ready' = ready \o [i \in DOMAIN q |-> <<p, q[i]>>]

\* publish(), up to its await; without a match it returns at once.
Publish(p) ==
    /\ publisher[p] = "new"
    /\ \E e \in EventTypes :
       \E q \in Filtered(entries, {s \in Subscriptions : Matches(s, e)}) :
          /\ event' = [event EXCEPT ![p] = e]
          /\ matching' = [matching EXCEPT ![p] = ToSet(q)]
          /\ delivery' = [delivery EXCEPT ![p] =
                             [s \in Subscriptions |-> IF s \in ToSet(q) THEN "ready"
                                                                        ELSE "none"]]
          /\ publisher' = [publisher EXCEPT ![p] =
                              IF q = <<>> THEN "returned" ELSE "gathering"]
          /\ Schedule(p, q)
    /\ made' = Append(made, p)
    /\ UNCHANGED <<subscriptions, failures, own, calls>>

\* Mutant of StartDelivery: a cancelled delivery is forgotten.
StartOrForget ==
    /\ ready # <<>>
    /\ LET p == Head(ready)[1]
           s == Head(ready)[2]
       IN  \/ /\ publisher[p] = "gathering"
              /\ delivery' = [delivery EXCEPT ![p][s] = "handling"]
              /\ calls' = [calls EXCEPT ![s] = Append(@, p)]
           \/ /\ publisher[p] \in {"cancelling", "cancelled"}
              /\ UNCHANGED <<delivery, calls>>
    /\ ready' = Tail(ready)
    /\ UNCHANGED <<subscriptions, event, matching, failures, publisher, own, made>>

\* The event loop takes the delivery at the head of its queue: it calls the
\* handler, or ends the delivery if it has been cancelled before.
StartDelivery ==
    /\ ready # <<>>
    /\ LET p == Head(ready)[1]
           s == Head(ready)[2]
       IN  \/ /\ publisher[p] = "gathering"
              /\ delivery' = [delivery EXCEPT ![p][s] = "handling"]
              /\ calls' = [calls EXCEPT ![s] = Append(@, p)]
           \/ /\ publisher[p] \in {"cancelling", "cancelled"}
              /\ delivery' = [delivery EXCEPT ![p][s] = "skipped"]
              /\ UNCHANGED calls
    /\ ready' = Tail(ready)
    /\ UNCHANGED <<subscriptions, event, matching, failures, publisher, own, made>>

\* How a delivery ends that would end in w: as cancelled, when its handler
\* cancelled the publication and did not await after that.
EndsAs(p, s, w) ==
    \/ delivery' = [delivery EXCEPT ![p][s] = w]
    \/ /\ delivery[p][s] = "condemned"
       /\ delivery' = [delivery EXCEPT ![p][s] = "cancelled"]

HandlerReturns(p, s) ==
    /\ delivery[p][s] \in Handling
    /\ EndsAs(p, s, "done")
    /\ UNCHANGED <<subscriptions, event, matching, failures, publisher, ready, own, history>>

\* Mutant of HandlerRaises: only an Exception is recorded, and not what a
\* cancellation raises.
RaisesUnrecorded(p, s) ==
    /\ delivery[p][s] \in Handling
    /\ EndsAs(p, s, "raised")
    /\ UNCHANGED <<subscriptions, event, matching, failures, publisher, ready, own, history>>

\* The handler raises, or is cancelled with its publication: both are caught
\* and recorded.
HandlerRaises(p, s) ==
    /\ delivery[p][s] \in Handling
    /\ EndsAs(p, s, "raised")
    /\ failures' = [failures EXCEPT ![p] = Append(@, s)]
    /\ UNCHANGED <<subscriptions, event, matching, publisher, ready, own, history>>

\* The task that publishes is cancelled: gather() cancels the deliveries and
\* goes on to wait for them.  One that handles may catch that and go on.
Cancel(p) ==
    /\ publisher[p] = "gathering"
    /\ \A r, s \in matching[p] : delivery[p][r] = "ready" => delivery[p][s] = "ready"
    /\ publisher' = [publisher EXCEPT ![p] = "cancelling"]
    /\ UNCHANGED <<subscriptions, event, matching, delivery, failures, ready, own, history>>

\* It is a handler of the publication that cancels it.
CancelOwn(p, s) ==
    /\ publisher[p] = "gathering"
    /\ delivery[p][s] = "handling"
    /\ delivery' = [delivery EXCEPT ![p][s] = "condemned"]
    /\ publisher' = [publisher EXCEPT ![p] = "cancelling"]
    /\ own' = own \cup {p}
    /\ UNCHANGED <<subscriptions, event, matching, failures, ready, history>>

AllSettled(p) == \A s \in matching[p] : delivery[p][s] \in Settled

\* Mutant of PublishEnds: the first delivery that is over ends the publication.
EndsWithFirst(p) ==
    /\ publisher[p] = "gathering"
    /\ \E s \in matching[p] : delivery[p][s] \in Settled
    /\ publisher' = [publisher EXCEPT ![p] = "returned"]
    /\ UNCHANGED <<subscriptions, event, matching, delivery, failures, ready, own, history>>

\* publish() returns the failures when all deliveries are over.  Cancelled, it
\* raises CancelledError then, or as soon as one of them ends as cancelled.
PublishEnds(p) ==
    /\ \/ /\ publisher[p] = "gathering"
          /\ AllSettled(p)
          /\ publisher' = [publisher EXCEPT ![p] = "returned"]
       \/ /\ publisher[p] = "cancelling"
          /\ AllSettled(p) \/ \E s \in matching[p] : delivery[p][s] \in Cancelled
          /\ publisher' = [publisher EXCEPT ![p] = "cancelled"]
    /\ UNCHANGED <<subscriptions, event, matching, delivery, failures, ready, own, history>>

HandlerEnds(p, s) == HandlerReturns(p, s) \/ HandlerRaises(p, s)

BusNext ==
    \/ \E s \in Subscriptions : Subscribe(s) \/ Unsubscribe(s)
    \/ Clear
    \/ \E p \in Publications : Publish(p) \/ Cancel(p) \/ PublishEnds(p)
    \/ StartDelivery
    \/ \E p \in Publications, s \in Subscriptions : HandlerEnds(p, s) \/ CancelOwn(p, s)

BusSpec == BusInit /\ [][BusNext]_busVars

\* The event loop runs what is ready, and handlers end.
FairBusSpec ==
    /\ BusSpec
    /\ WF_busVars(StartDelivery)
    /\ \A p \in Publications : WF_busVars(PublishEnds(p))
    /\ \A p \in Publications, s \in Subscriptions : WF_busVars(HandlerEnds(p, s))

-----------------------------------------------------------------------------
(***************************************************************************)
(* Safety.                                                                 *)
(***************************************************************************)

Count(q, x) == Cardinality({i \in DOMAIN q : q[i] = x})

\* "Errors never silently propagate to other subscribers": when publish() has
\* returned, each subscription that matched has been called exactly once,
\* whatever the other handlers did and whoever unsubscribed meanwhile, no
\* other subscription has been called, and the failures are those that
\* raised, once each.
ReturnAccounts ==
    \A p \in Publications : publisher[p] = "returned" =>
        \A s \in Subscriptions :
            /\ Count(calls[s], p) = IF s \in matching[p] THEN 1 ELSE 0
            /\ Count(failures[p], s) = IF delivery[p][s] = "raised" THEN 1 ELSE 0

\* However publish() ends, by return or by cancellation, no handler of its
\* event is still at work or starts later.  The exception is a publication
\* cancelled by a handler of its own, which may leave the others at work.
NothingOutlivesPublish ==
    \A p \in Publications :
        publisher[p] \in {"returned", "cancelled"} /\ p \notin own =>
            \A s \in Subscriptions : delivery[p][s] \notin Handling

\* The type invariant together with the one on what a publication leaves.
BusInv == BusTypeOK /\ NothingOutlivesPublish

\* A handler is called with events in the order they were published, though
\* the publications wait for their handlers at the same time.
InPublishOrder ==
    \A s \in Subscriptions : \A i, j \in DOMAIN made :
        \A m, n \in DOMAIN calls[s] :
            (i < j /\ calls[s][m] = made[i] /\ calls[s][n] = made[j]) => m < n

(***************************************************************************)
(* Liveness.                                                               *)
(***************************************************************************)

\* Every publication ends, cancelled or not.
Ends == \A p \in Publications :
            publisher[p] \in {"gathering", "cancelling"}
            ~> publisher[p] \in {"returned", "cancelled"}
=============================================================================
