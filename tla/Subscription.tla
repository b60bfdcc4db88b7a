----------------------------- MODULE Subscription -----------------------------
(***************************************************************************)
(* The subscription of one tenant: internal/usecase/billing.go (checkout,   *)
(* change of plan, cancellation, the provider's webhook), the snapshots of  *)
(* internal/billing/stripe_gateway.go, and the subscriptions of            *)
(* internal/repository/billing.go.                                         *)
(*                                                                         *)
(* Every request and every event reads the row, works on its copy and        *)
(* stores the whole row, without a transaction or a version.  The provider  *)
(* is external: its subscriptions move by our calls, by the customer's in   *)
(* its portal and by themselves, and each move is told in an event that may *)
(* be delivered late, out of order and more than once, until it is         *)
(* answered with success.  A checkout is told in two events, in the terms of *)
(* the session and in those of the subscription, which need not agree.     *)
(***************************************************************************)
EXTENDS Naturals, FiniteSets

CONSTANTS Actors,     \* requests and deliveries of events
          Plans,      \* the paid plans
          Trial,      \* the plan of the trial
          Other,      \* a price at the provider that is of no plan here
          Subs,       \* the provider's subscriptions
          MaxMoves,   \* bound on the events of the provider
          None

Status == {"trial", "pending", "active", "past_due", "cancelled"}

(* What a row keeps; the customer and the periods come with the subscription, *)
(* which is None before the first checkout.                                *)
Row == [plan: Plans \cup {Trial}, status: Status, sub: Subs \cup {None},
        cancelling: BOOLEAN]
TrialRow(p) == [plan |-> p, status |-> "trial", sub |-> None, cancelling |-> FALSE]

(* What the provider keeps of a subscription.  The metadata are the tenant   *)
(* and the plan of its checkout, or None when someone has cleared them.     *)
Subscribed == [price: Plans \cup {Other}, meta: Plans \cup {None}, status: Status,
               cancelling: BOOLEAN]

(* What an event or an answer comes to here; plan is None when it tells none. *)
Parsed == [plan: Plans \cup {None}, status: Status, sub: Subs, cancelling: BOOLEAN]
Event == [n: 1..MaxMoves, kind: {"checkout", "subscription"}, tenant: BOOLEAN, of: Parsed]

ASSUME SubscriptionAssumption ==
    /\ Trial \notin Plans
    /\ Other \notin Plans
    /\ None \notin Plans \cup {Trial} \cup Subs \cup Row \cup Subscribed
    /\ MaxMoves \in Nat

Asking == {"update", "cancel", "storePlan", "storeCancel"}
Step == Asking \cup {"idle", "current", "apply"}

VARIABLES
    row,       \* Row or None: the tenant's row
    stripe,    \* [Subs -> Subscribed or None]: the provider's subscriptions
    checkouts, \* SUBSET Plans: the sessions that are open
    moves,     \* Nat: how many events there have been
    sent,      \* SUBSET Event: the events, numbered in their order
    acked,     \* SUBSET Event: those that were answered with success
    pc,        \* [Actors -> Step]
    wants,     \* [Actors -> Plans or None]: the plan its request names
    seen,      \* [Actors -> Row or None]: the row as it was read, or as the
               \*   event is about to store it
    got,       \* [Actors -> Event or None]: the event, or the provider's answer
    top,       \* history, Nat: the latest event that was stored
    overtaken, \* history, SUBSET Actors: the requests under way of which an
               \*   event was stored since they read the row
    stale      \* history, BOOLEAN: the row was last stored by an event after a
               \*   later one, or by a request that was overtaken

providerVars == <<stripe, checkouts, moves, sent>>
actorVars == <<pc, wants, seen, got>>
historyVars == <<top, overtaken, stale>>
vars == <<row, providerVars, acked, actorVars, historyVars>>

At(a, s) == pc[a] = s
GoTo(a, s) == pc' = [pc EXCEPT ![a] = s]

(* A tenant signs up, or is bootstrapped, with a trial of the plan it names;  *)
(* it has no row when that failed on the way (module Accounts).             *)
Init ==
    /\ row \in {None} \cup {TrialRow(p) : p \in Plans \cup {Trial}}
    /\ stripe = [s \in Subs |-> None]
    /\ checkouts = {}
    /\ moves = 0
    /\ sent = {} /\ acked = {}
    /\ pc = [a \in Actors |-> "idle"]
    /\ wants = [a \in Actors |-> None]
    /\ seen = [a \in Actors |-> None]
    /\ got = [a \in Actors |-> None]
    /\ top = 0 /\ overtaken = {} /\ stale = FALSE
-----------------------------------------------------------------------------
(* What ParseWebhook, and for an answer domainSubscriptionFromStripe, makes  *)
(* of what the provider says.                                              *)

(* Variant: the plan that the checkout named goes first. *)
PlanNamedAtCheckout(x) == IF x.meta # None \/ x.price \notin Plans THEN x.meta ELSE x.price

(* The plan of a price, or of the metadata when the price is of none. *)
PlanOf(x) == IF x.price \in Plans THEN x.price ELSE x.meta

SubscriptionEvent(n, s, x) ==
    [n |-> n, kind |-> "subscription", tenant |-> x.meta # None,
     of |-> [plan |-> PlanOf(x), status |-> x.status, sub |-> s,
             cancelling |-> x.cancelling]]

(* checkout.session.completed: the plan and the payment are the session's. *)
CheckoutEvent(n, s, p, paid) ==
    [n |-> n, kind |-> "checkout", tenant |-> TRUE,
     of |-> [plan |-> p, status |-> IF paid THEN "active" ELSE "pending", sub |-> s,
             cancelling |-> FALSE]]
-----------------------------------------------------------------------------
(* The provider.                                                           *)

(* A subscription is now as x says, and an event will tell. *)
Moves(s, x) ==
    /\ moves < MaxMoves
    /\ moves' = moves + 1
    /\ stripe' = [stripe EXCEPT ![s] = x]
    /\ sent' = sent \cup {SubscriptionEvent(moves + 1, s, x)}

(* The customer completes a checkout.  A subscription is created, which may  *)
(* be active though the payment is still to come, and the two events tell of *)
(* it in either order.                                                     *)
Completes(p, s) ==
    /\ p \in checkouts
    /\ stripe[s] = None
    /\ moves + 2 <= MaxMoves
    /\ moves' = moves + 2
    /\ \E paid \in BOOLEAN, st \in {"active", "pending"}, k \in {1, 2} :
          LET x == [price |-> p, meta |-> p, status |-> st, cancelling |-> FALSE] IN
             /\ paid => st = "active"
             /\ stripe' = [stripe EXCEPT ![s] = x]
             /\ sent' = sent \cup {CheckoutEvent(moves + k, s, p, paid),
                                   SubscriptionEvent(moves + 3 - k, s, x)}
    /\ checkouts' = checkouts \ {p}
    /\ UNCHANGED <<row, acked, actorVars, historyVars>>

Live(s) == stripe[s] # None /\ stripe[s].status # "cancelled"

(* A payment fails or succeeds, the period ends, the customer changes the    *)
(* plan or cancels in the portal (OpenPortal), or the operator gives the    *)
(* subscription another price or clears its metadata.                      *)
Drifts(s) ==
    /\ Live(s)
    /\ \/ \E st \in {"active", "past_due", "cancelled"} \ {stripe[s].status} :
              Moves(s, [stripe[s] EXCEPT !.status = st])
       \/ \E p \in (Plans \cup {Other}) \ {stripe[s].price} :
              Moves(s, [stripe[s] EXCEPT !.price = p])
       \/ Moves(s, [stripe[s] EXCEPT !.cancelling = ~@])
       \/ stripe[s].meta # None /\ Moves(s, [stripe[s] EXCEPT !.meta = None])
    /\ UNCHANGED <<row, checkouts, acked, actorVars, historyVars>>
-----------------------------------------------------------------------------
(* The actor is done: its variables go out of scope. *)
Done(a) ==
    /\ GoTo(a, "idle")
    /\ wants' = [wants EXCEPT ![a] = None]
    /\ seen' = [seen EXCEPT ![a] = None]
    /\ got' = [got EXCEPT ![a] = None]

Ends(a) == Done(a) /\ overtaken' = overtaken \ {a}

Reads(a) == seen' = [seen EXCEPT ![a] = row]

CreateCheckout(p) ==
    /\ checkouts' = checkouts \cup {p}
    /\ UNCHANGED <<row, stripe, moves, sent, acked, actorVars, historyVars>>

(* ChangePlan: without a subscription that is active the answer is a link to *)
(* a checkout, and nothing is done when the plan is the active one.         *)
ChangePlan(a, p) ==
    /\ At(a, "idle")
    /\ row # None
    /\ ~(row.plan = p /\ row.status = "active")
    /\ IF row.sub = None \/ row.status # "active"
       THEN /\ checkouts' = checkouts \cup {p}
            /\ UNCHANGED actorVars
       ELSE /\ GoTo(a, "update")
            /\ wants' = [wants EXCEPT ![a] = p]
            /\ Reads(a)
            /\ UNCHANGED <<checkouts, got>>
    /\ UNCHANGED <<row, stripe, moves, sent, acked, historyVars>>

CancelSubscription(a) ==
    /\ At(a, "idle")
    /\ row # None
    /\ row.sub # None
    /\ GoTo(a, "cancel")
    /\ Reads(a)
    /\ UNCHANGED <<row, providerVars, acked, wants, got, historyVars>>

(* The provider does what it is asked, and answers with the subscription. *)
Calls(a, s, x) ==
    /\ Live(s)
    /\ Moves(s, x)
    /\ got' = [got EXCEPT ![a] = SubscriptionEvent(moves + 1, s, x)]

(* The provider's side of a change of plan, *)
UpdateSubscriptionPlan(a) ==
    /\ At(a, "update")
    /\ LET s == seen[a].sub IN Calls(a, s, [stripe[s] EXCEPT !.price = wants[a]])
    /\ GoTo(a, "storePlan")
    /\ UNCHANGED <<row, checkouts, acked, wants, seen, historyVars>>

(* and of a cancellation. *)
CancelAtProvider(a) ==
    /\ At(a, "cancel")
    /\ LET s == seen[a].sub IN Calls(a, s, [stripe[s] EXCEPT !.cancelling = TRUE])
    /\ GoTo(a, "storeCancel")
    /\ UNCHANGED <<row, checkouts, acked, wants, seen, historyVars>>

ProviderFails(a) ==
    /\ pc[a] \in {"update", "cancel"}
    /\ Ends(a)
    /\ UNCHANGED <<row, providerVars, acked, top, stale>>

(* What ChangePlan and CancelSubscription make of the row they read. *)
Result(a) ==
    IF At(a, "storePlan")
    THEN [got[a].of EXCEPT !.plan = wants[a]]
    ELSE [seen[a] EXCEPT !.status = got[a].of.status, !.cancelling = got[a].of.cancelling]

(* They store it, or the request fails after the provider has done its part. *)
Store(a) ==
    /\ pc[a] \in {"storePlan", "storeCancel"}
    /\ \/ row' = Result(a) /\ stale' = (a \in overtaken)
       \/ UNCHANGED <<row, stale>>
    /\ Ends(a)
    /\ UNCHANGED <<providerVars, acked, top>>
-----------------------------------------------------------------------------
(* What an event makes of the row: everything it tells is taken over.  When   *)
(* it tells no plan that of the row stays, and there has to be one.         *)
Applied(e) == IF e.of.plan # None THEN e.of ELSE [e.of EXCEPT !.plan = row.plan]

ReadsCurrent(a, e) ==
    /\ e.of.plan # None \/ row # None
    /\ GoTo(a, "apply")
    /\ seen' = [seen EXCEPT ![a] = Applied(e)]

(* HandleWebhook: an event is delivered, for the first time or again.  Its    *)
(* tenant is the one it names, or else the one whose row has the            *)
(* subscription.  Without a tenant or a plan it is refused, and will be      *)
(* delivered again.                                                        *)
Deliver(a, e) ==
    /\ At(a, "idle")
    /\ \/ e.tenant /\ ReadsCurrent(a, e)
       \/ /\ ~e.tenant /\ row # None /\ row.sub = e.of.sub
          /\ GoTo(a, "current")
          /\ UNCHANGED seen
    /\ got' = [got EXCEPT ![a] = e]
    /\ UNCHANGED <<row, providerVars, acked, wants, historyVars>>

ReadCurrent(a) ==
    /\ At(a, "current")
    /\ ReadsCurrent(a, got[a])
    /\ UNCHANGED <<row, providerVars, acked, wants, got, historyVars>>

Apply(a) ==
    /\ At(a, "apply")
    /\ row' = seen[a]
    /\ acked' = acked \cup {got[a]}
    /\ stale' = (got[a].n < top)
    /\ top' = IF got[a].n > top THEN got[a].n ELSE top
    /\ Done(a)
    /\ overtaken' = {b \in Actors : pc[b] \in Asking}
    /\ UNCHANGED providerVars

(* The error is returned, and the provider will try again. *)
ApplyFails(a) ==
    /\ pc[a] \in {"current", "apply"}
    /\ Ends(a)
    /\ UNCHANGED <<row, providerVars, acked, top, stale>>

(* The process ends and starts again. *)
Restart ==
    /\ pc' = [a \in Actors |-> "idle"]
    /\ wants' = [a \in Actors |-> None]
    /\ seen' = [a \in Actors |-> None]
    /\ got' = [a \in Actors |-> None]
    /\ overtaken' = {}
    /\ UNCHANGED <<row, providerVars, acked, top, stale>>
-----------------------------------------------------------------------------
Provider == \E s \in Subs : Drifts(s) \/ \E p \in Plans : Completes(p, s)
Requests(a) ==
    \/ \E p \in Plans : ChangePlan(a, p)
    \/ CancelSubscription(a)
    \/ UpdateSubscriptionPlan(a) \/ CancelAtProvider(a) \/ ProviderFails(a)
    \/ Store(a)
Webhooks(a) ==
    (\E e \in sent : Deliver(a, e)) \/ ReadCurrent(a) \/ Apply(a) \/ ApplyFails(a)

Next ==
    \/ Provider
    \/ \E p \in Plans : CreateCheckout(p)
    \/ \E a \in Actors : Requests(a) \/ Webhooks(a)
    \/ Restart

Spec == Init /\ [][Next]_vars
-----------------------------------------------------------------------------
TypeOK ==
    /\ row \in Row \cup {None}
    /\ stripe \in [Subs -> Subscribed \cup {None}]
    /\ checkouts \subseteq Plans
    /\ moves \in 0..MaxMoves
    /\ sent \subseteq Event
    /\ acked \subseteq sent
    /\ pc \in [Actors -> Step]
    /\ wants \in [Actors -> Plans \cup {None}]
    /\ seen \in [Actors -> Row \cup {None}]
    /\ got \in [Actors -> Event \cup {None}]
    /\ top \in 0..MaxMoves
    /\ overtaken \subseteq Actors
    /\ stale \in BOOLEAN

(* y says of e's subscription what the provider says of it now; a checkout    *)
(* may say that it is pending, for want of the payment.                     *)
Agrees(y, e) ==
    LET x == stripe[e.of.sub] IN
        /\ x # None
        /\ y.sub = e.of.sub
        /\ y.cancelling = x.cancelling
        /\ y.status = x.status \/ (e.kind = "checkout" /\ y.status = "pending")
        /\ x.price \in Plans => y.plan = x.price
        /\ x.price = Other /\ x.meta # None => y.plan = x.meta

(* Once every event was answered with success the row says what the provider *)
(* says of the subscription that moved last: its status, whether it is being *)
(* cancelled, and the plan of its price or else of its metadata; whatever    *)
(* requests, failures, restarts and repeated deliveries came between.  Not   *)
(* so while the row is as an event stored it after a later one, or a request *)
(* that an event had overtaken; and when the last event is that of a         *)
(* checkout still to be paid the row is pending although the subscription   *)
(* is active (ParseWebhook, HandleWebhook, ChangePlan, CancelSubscription).  *)
RowMirrors ==
    acked = sent /\ ~stale =>
        \A e \in sent : e.n = moves => row # None /\ Agrees(row, e)
=============================================================================
