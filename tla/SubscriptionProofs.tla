-------------------------- MODULE SubscriptionProofs --------------------------
(* Proofs about Subscription: its types, and that the row mirrors the         *)
(* provider's last word once every event was answered.                     *)
EXTENDS Subscription, TLAPS

USE SubscriptionAssumption

(* What a step of the provider may rely on: it adds events that are newer    *)
(* than all before, of which the last says what the subscription is now.    *)
Tells ==
    /\ moves' \in 0 .. MaxMoves /\ moves < moves'
    /\ stripe' \in [Subs -> Subscribed \cup {None}]
    /\ sent \subseteq sent' /\ sent' \subseteq Event
    /\ \A e \in sent' \ sent : moves < e.n /\ e.n <= moves'
    /\ \A e, f \in sent' \ sent : e.n = f.n => e = f
    /\ \A e \in sent' \ sent : e.n = moves' => Agrees(e.of, e)'

(* The event of a subscription is an event, and says what the subscription is. *)
LEMMA EventOfSubscription ==
    ASSUME NEW n \in 1 .. MaxMoves, NEW s \in Subs, NEW x \in Subscribed,
           NEW e, e = SubscriptionEvent(n, s, x)
    PROVE  /\ e \in Event
           /\ e.n = n /\ e.of.sub = s /\ e.of.cancelling = x.cancelling
           /\ e.of.status = x.status
           /\ x.price \in Plans => e.of.plan = x.price
           /\ x.price = Other => e.of.plan = x.meta
BY DEF SubscriptionEvent, PlanOf, Event, Parsed, Subscribed

(* A move of one subscription tells. *)
LEMMA MovesTell ==
    ASSUME TypeOK, NEW s \in Subs, NEW x \in Subscribed, Moves(s, x)
    PROVE  /\ Tells
           /\ moves' = moves + 1
           /\ SubscriptionEvent(moves + 1, s, x) \in sent'
           /\ SubscriptionEvent(moves + 1, s, x) \in Event
           /\ SubscriptionEvent(moves + 1, s, x).n = moves'
<1> PICK e : e = SubscriptionEvent(moves + 1, s, x)
  OBVIOUS
<1>1. /\ moves \in Nat /\ moves + 1 \in 1 .. MaxMoves /\ moves' = moves + 1
      /\ stripe' = [stripe EXCEPT ![s] = x] /\ sent' = sent \cup {e}
  BY DEF TypeOK, Moves
<1>2. /\ e \in Event
      /\ e.n = moves + 1 /\ e.of.sub = s /\ e.of.cancelling = x.cancelling
      /\ e.of.status = x.status
      /\ x.price \in Plans => e.of.plan = x.price
      /\ x.price = Other => e.of.plan = x.meta
  BY <1>1, EventOfSubscription
<1>3. stripe' \in [Subs -> Subscribed \cup {None}] /\ stripe'[s] = x /\ x # None
  BY <1>1 DEF TypeOK
<1>4. Agrees(e.of, e)'
  BY <1>2, <1>3 DEF Agrees
<1>5. /\ moves' \in 0 .. MaxMoves /\ moves < moves'
      /\ sent \subseteq sent' /\ sent' \subseteq Event
      /\ \A f \in sent' \ sent : f = e
  BY <1>1, <1>2 DEF TypeOK
<1>6. Tells
  BY <1>1, <1>2, <1>3, <1>4, <1>5 DEF Tells
<1> QED BY <1>1, <1>2, <1>6

(* So do the two events of a checkout, in either order. *)
LEMMA CompletesTells ==
    ASSUME TypeOK, NEW p \in Plans, NEW s \in Subs, Completes(p, s)
    PROVE  Tells
<1>1. PICK paid \in BOOLEAN, st \in {"active", "pending"}, k \in {1, 2} :
          LET x == [price |-> p, meta |-> p, status |-> st, cancelling |-> FALSE] IN
             /\ paid => st = "active"
             /\ stripe' = [stripe EXCEPT ![s] = x]
             /\ sent' = sent \cup {CheckoutEvent(moves + k, s, p, paid),
                                   SubscriptionEvent(moves + 3 - k, s, x)}
  BY DEF Completes
<1>2. PICK x : x = [price |-> p, meta |-> p, status |-> st, cancelling |-> FALSE]
  OBVIOUS
<1>3. PICK m : m = moves + k
  OBVIOUS
<1>4. PICK n : n = moves + 3 - k
  OBVIOUS
<1>5. PICK c : c = CheckoutEvent(m, s, p, paid)
  OBVIOUS
<1>6. PICK e : e = SubscriptionEvent(n, s, x)
  OBVIOUS
<1>7. /\ moves \in Nat /\ moves' \in 0 .. MaxMoves
      /\ m \in 1 .. MaxMoves /\ n \in 1 .. MaxMoves /\ m # n
      /\ moves < m /\ m <= moves'
      /\ moves < n /\ n <= moves'
      /\ moves < moves'
  BY <1>3, <1>4 DEF TypeOK, Completes
<1>8. /\ x \in Subscribed /\ x # None
      /\ x.price = p /\ x.meta = p /\ x.status = st /\ x.cancelling = FALSE
  <2>1. st \in Status
    BY DEF Status
  <2>2. x \in Subscribed
    BY <1>2, <2>1 DEF Subscribed
  <2> QED BY <1>2, <2>2
<1>9. stripe' = [stripe EXCEPT ![s] = x] /\ sent' = sent \cup {c, e}
      /\ (paid => st = "active")
  BY <1>1, <1>2, <1>3, <1>4, <1>5, <1>6
<1>10. /\ c \in Event /\ c.n = m
       /\ c.of.sub = s /\ c.of.cancelling = FALSE /\ c.of.plan = p
       /\ c.kind = "checkout" /\ c.of.status = IF paid THEN "active" ELSE "pending"
  <2>1. m \in 1 .. MaxMoves
    BY <1>7
  <2> QED BY <1>5, <2>1 DEF CheckoutEvent, Event, Parsed, Status
<1>11. /\ e \in Event /\ e.n = n
       /\ e.of.sub = s /\ e.of.cancelling = x.cancelling /\ e.of.status = x.status
       /\ x.price \in Plans => e.of.plan = x.price
       /\ x.price = Other => e.of.plan = x.meta
  BY <1>6, <1>7, <1>8, EventOfSubscription
<1>12. stripe' \in [Subs -> Subscribed \cup {None}] /\ stripe'[s] = x
  BY <1>8, <1>9 DEF TypeOK
<1>13. Agrees(c.of, c)'
  BY <1>8, <1>9, <1>10, <1>12 DEF Agrees
<1>14. Agrees(e.of, e)'
  BY <1>8, <1>11, <1>12 DEF Agrees
<1>15. \A f, g \in {c, e} : f.n = g.n => f = g
  BY <1>7, <1>10, <1>11
<1>16. \A f \in {c, e} : moves < f.n /\ f.n <= moves' /\ Agrees(f.of, f)'
  BY <1>7, <1>10, <1>11, <1>13, <1>14
<1>17. sent \subseteq sent' /\ sent' \subseteq Event /\ \A f \in sent' \ sent : f \in {c, e}
  BY <1>9, <1>10, <1>11 DEF TypeOK
<1> QED BY <1>7, <1>12, <1>15, <1>16, <1>17 DEF Tells

(* A live subscription, with what a move changes of it. *)
LEMMA LiveTypes ==
    ASSUME TypeOK, NEW s \in Subs, Live(s)
    PROVE  /\ stripe[s] \in Subscribed
           /\ \A st \in Status : [stripe[s] EXCEPT !.status = st] \in Subscribed
           /\ \A p \in Plans \cup {Other} : [stripe[s] EXCEPT !.price = p] \in Subscribed
           /\ [stripe[s] EXCEPT !.cancelling = ~@] \in Subscribed
           /\ [stripe[s] EXCEPT !.cancelling = TRUE] \in Subscribed
           /\ [stripe[s] EXCEPT !.meta = None] \in Subscribed
<1>1. stripe[s] \in Subscribed
  BY DEF TypeOK, Live
<1>2. stripe[s].cancelling \in BOOLEAN
  BY <1>1 DEF Subscribed
<1>3. (~stripe[s].cancelling) \in BOOLEAN
  OBVIOUS
<1>4. ASSUME NEW b \in BOOLEAN PROVE [stripe[s] EXCEPT !.cancelling = b] \in Subscribed
  BY <1>1 DEF Subscribed
<1> QED BY <1>1, <1>3, <1>4 DEF Subscribed

(* The steps of the provider alone. *)
LEMMA ProviderTells == ASSUME TypeOK, Provider PROVE Tells
<1>1. PICK s \in Subs : Drifts(s) \/ \E p \in Plans : Completes(p, s)
  BY DEF Provider
<1>2. CASE Drifts(s)
  <2>1. Live(s)
    BY <1>2 DEF Drifts
  <2>2. \E x \in Subscribed : Moves(s, x)
    <3>1. CASE \E st \in {"active", "past_due", "cancelled"} \ {stripe[s].status} :
                  Moves(s, [stripe[s] EXCEPT !.status = st])
      <4> PICK st \in Status : Moves(s, [stripe[s] EXCEPT !.status = st])
        BY <3>1 DEF Status
      <4> QED BY <2>1, LiveTypes
    <3>2. CASE \E p \in (Plans \cup {Other}) \ {stripe[s].price} :
                  Moves(s, [stripe[s] EXCEPT !.price = p])
      BY <2>1, <3>2, LiveTypes
    <3>3. CASE Moves(s, [stripe[s] EXCEPT !.cancelling = ~@])
      BY <2>1, <3>3, LiveTypes
    <3>4. CASE Moves(s, [stripe[s] EXCEPT !.meta = None])
      BY <2>1, <3>4, LiveTypes
    <3> QED BY <1>2, <3>1, <3>2, <3>3, <3>4 DEF Drifts
  <2> QED BY <2>2, MovesTell
<1>3. ASSUME NEW p \in Plans, Completes(p, s) PROVE Tells
  BY <1>3, CompletesTells
<1> QED BY <1>1, <1>2, <1>3
-----------------------------------------------------------------------------
(* The row y has all that the event e tells. *)
Takes(y, e) ==
    /\ y.sub = e.of.sub /\ y.status = e.of.status /\ y.cancelling = e.of.cancelling
    /\ e.of.plan # None => y.plan = e.of.plan

(* A request or a delivery has the local variables of its step. *)
Locals(a) ==
    /\ pc[a] \in Asking => seen[a] \in Row /\ seen[a].sub \in Subs
    /\ pc[a] \in {"update", "storePlan"} => wants[a] \in Plans
    /\ pc[a] \in {"storePlan", "storeCancel", "current", "apply"} => got[a] \in sent
    /\ pc[a] = "apply" => seen[a] \in Row /\ Takes(seen[a], got[a])

Typed == TypeOK /\ \A a \in Actors : Locals(a)

(* The row of a trial is a row, and no one is under way. *)
LEMMA InitTyped == Init => Typed
<1> SUFFICES ASSUME Init PROVE Typed
  OBVIOUS
<1>1. row \in Row \cup {None}
  <2>1. CASE row = None
    BY <2>1
  <2>2. CASE \E p \in Plans \cup {Trial} : row = TrialRow(p)
    <3> PICK p \in Plans \cup {Trial} : row = TrialRow(p)
      BY <2>2
    <3> QED BY DEF Row, TrialRow, Status
  <2> QED BY <2>1, <2>2 DEF Init
<1>2. moves \in 0 .. MaxMoves /\ top \in 0 .. MaxMoves
  BY DEF Init
<1>3. /\ stripe \in [Subs -> Subscribed \cup {None}]
      /\ pc \in [Actors -> Step]
      /\ wants \in [Actors -> Plans \cup {None}]
      /\ seen \in [Actors -> Row \cup {None}]
      /\ got \in [Actors -> Event \cup {None}]
  BY DEF Init, Step
<1>4. TypeOK
  BY <1>1, <1>2, <1>3 DEF Init, TypeOK
<1>5. \A a \in Actors : Locals(a)
  BY DEF Init, Locals, Asking
<1> QED BY <1>4, <1>5 DEF Typed

(* An actor that is done has no local variables to speak of. *)
LEMMA DoneTyped ==
    ASSUME Typed, NEW a \in Actors, Done(a), UNCHANGED sent
    PROVE  /\ pc' \in [Actors -> Step]
           /\ wants' \in [Actors -> Plans \cup {None}]
           /\ seen' \in [Actors -> Row \cup {None}]
           /\ got' \in [Actors -> Event \cup {None}]
           /\ \A b \in Actors : Locals(b)'
<1>1. /\ pc' \in [Actors -> Step]
      /\ wants' \in [Actors -> Plans \cup {None}]
      /\ seen' \in [Actors -> Row \cup {None}]
      /\ got' \in [Actors -> Event \cup {None}]
  BY DEF Typed, TypeOK, Done, GoTo, Step
<1>2. ASSUME NEW b \in Actors PROVE Locals(b)'
  <2>1. CASE b = a
    BY <2>1 DEF Typed, TypeOK, Done, GoTo, Locals, Asking
  <2>2. CASE b # a
    <3> pc'[b] = pc[b] /\ wants'[b] = wants[b] /\ seen'[b] = seen[b] /\ got'[b] = got[b]
      BY <2>2 DEF Typed, TypeOK, Done, GoTo
    <3> QED BY DEF Typed, Locals, Takes
  <2> QED BY <2>1, <2>2
<1> QED BY <1>1, <1>2

(* A step of the provider alone keeps the types. *)
LEMMA ProviderTyped == ASSUME Typed, Provider PROVE Typed'
<1>1. Tells
  BY ProviderTells DEF Typed
<1>2. UNCHANGED <<row, acked, actorVars, historyVars>> /\ checkouts' \subseteq Plans
  BY DEF Provider, Drifts, Completes, Typed, TypeOK
<1>3. TypeOK'
  BY <1>1, <1>2 DEF Tells, Typed, TypeOK, actorVars, historyVars
<1>4. \A a \in Actors : Locals(a)'
  BY <1>1, <1>2 DEF Tells, Typed, Locals, Takes, actorVars
<1> QED BY <1>3, <1>4 DEF Typed

(* A call to the provider: its answer is the event it will send. *)
LEMMA CallsTyped ==
    ASSUME Typed, NEW a \in Actors, UpdateSubscriptionPlan(a) \/ CancelAtProvider(a)
    PROVE  /\ Typed' /\ Tells
           /\ pc' \in {[pc EXCEPT ![a] = "storePlan"], [pc EXCEPT ![a] = "storeCancel"]}
           /\ \E e \in Event : e.n = moves' /\ got' = [got EXCEPT ![a] = e]
<1> DEFINE s == seen[a].sub
<1>1. seen[a] \in Row /\ s \in Subs /\ pc[a] \in {"update", "cancel"}
  BY DEF UpdateSubscriptionPlan, CancelAtProvider, At, Asking, Typed, Locals
<1>2. /\ UNCHANGED <<row, checkouts, acked, wants, seen, historyVars>>
      /\ pc' \in {[pc EXCEPT ![a] = "storePlan"], [pc EXCEPT ![a] = "storeCancel"]}
      /\ pc[a] = "cancel" => pc' = [pc EXCEPT ![a] = "storeCancel"]
  BY <1>1 DEF UpdateSubscriptionPlan, CancelAtProvider, GoTo, At
<1>3. \E x \in Subscribed : Calls(a, s, x)
  <2>1. CASE UpdateSubscriptionPlan(a)
    <3>1. Live(s) /\ wants[a] \in Plans
      BY <2>1 DEF UpdateSubscriptionPlan, Calls, At, Typed, Locals
    <3>2. [stripe[s] EXCEPT !.price = wants[a]] \in Subscribed
      BY <1>1, <3>1, LiveTypes DEF Typed
    <3> QED BY <2>1, <3>2 DEF UpdateSubscriptionPlan
  <2>2. CASE CancelAtProvider(a)
    <3>1. Live(s)
      BY <2>2 DEF CancelAtProvider, Calls
    <3>2. [stripe[s] EXCEPT !.cancelling = TRUE] \in Subscribed
      BY <1>1, <3>1, LiveTypes DEF Typed
    <3> QED BY <2>2, <3>2 DEF CancelAtProvider
  <2> QED BY <2>1, <2>2
<1>4. PICK x \in Subscribed : Calls(a, s, x)
  BY <1>3
<1>5. PICK e \in Event : e \in sent' /\ e.n = moves' /\ got' = [got EXCEPT ![a] = e]
  BY <1>1, <1>4, MovesTell DEF Calls, Typed
<1>6. Tells
  BY <1>1, <1>4, MovesTell DEF Calls, Typed
<1>7. TypeOK'
  BY <1>2, <1>5, <1>6 DEF Tells, Typed, TypeOK, Step, Asking, historyVars
<1>8. ASSUME NEW b \in Actors PROVE Locals(b)'
  <2>1. CASE b = a
    <3>1. /\ pc'[a] \in {"storePlan", "storeCancel"} /\ got'[a] = e
          /\ pc[a] = "cancel" => pc'[a] = "storeCancel"
          /\ seen'[a] = seen[a] /\ wants'[a] = wants[a]
      BY <1>2, <1>5 DEF Typed, TypeOK
    <3>2. pc'[a] = "storePlan" => wants[a] \in Plans
      BY <1>1, <3>1 DEF Typed, Locals
    <3> QED BY <1>1, <1>5, <2>1, <3>1, <3>2 DEF Locals
  <2>2. CASE b # a
    <3> /\ pc'[b] = pc[b] /\ wants'[b] = wants[b] /\ seen'[b] = seen[b] /\ got'[b] = got[b]
        /\ sent \subseteq sent'
      BY <1>2, <1>5, <1>6, <2>2 DEF Tells, Typed, TypeOK
    <3> QED BY DEF Typed, Locals, Takes
  <2> QED BY <2>1, <2>2
<1> QED BY <1>2, <1>5, <1>6, <1>7, <1>8 DEF Typed

(* Each step of a request keeps the types. *)
LEMMA RequestsTyped == ASSUME Typed, NEW a \in Actors, Requests(a) PROVE Typed'
<1>1. ASSUME NEW p \in Plans, ChangePlan(a, p) PROVE Typed'
  <2>1. CASE row.sub = None \/ row.status # "active"
    BY <1>1, <2>1 DEF ChangePlan, Typed, TypeOK, Locals, Takes, actorVars, historyVars
  <2>2. CASE ~(row.sub = None \/ row.status # "active")
    <3>1. row \in Row /\ row.sub \in Subs
      BY <1>1, <2>2 DEF ChangePlan, Typed, TypeOK, Row
    <3>2. /\ GoTo(a, "update") /\ Reads(a) /\ wants' = [wants EXCEPT ![a] = p]
          /\ UNCHANGED <<row, stripe, checkouts, moves, sent, acked, got, historyVars>>
      BY <1>1, <2>2 DEF ChangePlan
    <3>3. TypeOK'
      BY <3>1, <3>2 DEF Typed, TypeOK, GoTo, Reads, Step, Asking, historyVars
    <3>4. \A b \in Actors : Locals(b)'
      BY <3>1, <3>2 DEF Typed, TypeOK, Locals, Takes, GoTo, Reads
    <3> QED BY <3>3, <3>4 DEF Typed
  <2> QED BY <2>1, <2>2
<1>2. CASE CancelSubscription(a)
  <2>1. row \in Row /\ row.sub \in Subs
    BY <1>2 DEF CancelSubscription, Typed, TypeOK, Row
  <2>2. TypeOK'
    BY <1>2, <2>1 DEF CancelSubscription, providerVars, historyVars, Typed, TypeOK, GoTo,
                      Reads, Step, Asking
  <2>3. \A b \in Actors : Locals(b)'
    BY <1>2, <2>1 DEF CancelSubscription, providerVars, Typed, TypeOK, Locals, Takes,
                      GoTo, Reads
  <2> QED BY <2>2, <2>3 DEF Typed
<1>3. CASE UpdateSubscriptionPlan(a) \/ CancelAtProvider(a)
  BY <1>3, CallsTyped
<1>4. CASE ProviderFails(a)
  <2>1. Done(a) /\ overtaken' \subseteq Actors
        /\ UNCHANGED <<row, stripe, checkouts, moves, sent, acked, top, stale>>
    BY <1>4 DEF ProviderFails, Ends, providerVars, Typed, TypeOK
  <2> QED BY <2>1, DoneTyped DEF Typed, TypeOK
<1>5. CASE Store(a)
  <2>1. Result(a) \in Row
    <3>1. got[a].of \in Parsed /\ seen[a] \in Row
      BY <1>5 DEF Store, Typed, TypeOK, Locals, Event, Asking
    <3>2. CASE At(a, "storePlan")
      <4> wants[a] \in Plans
        BY <3>2 DEF At, Typed, Locals
      <4> QED BY <3>1, <3>2 DEF Result, Row, Parsed
    <3>3. CASE At(a, "storeCancel")
      BY <3>1, <3>3 DEF Result, At, Row, Parsed
    <3> QED BY <1>5, <3>2, <3>3 DEF Store, At
  <2>2. row' \in Row \cup {None} /\ stale' \in BOOLEAN
    <3>1. CASE row' = Result(a) /\ stale' = (a \in overtaken)
      BY <2>1, <3>1
    <3>2. CASE UNCHANGED <<row, stale>>
      BY <3>2 DEF Typed, TypeOK
    <3> QED BY <1>5, <3>1, <3>2 DEF Store
  <2>3. Done(a) /\ overtaken' \subseteq Actors
        /\ UNCHANGED <<stripe, checkouts, moves, sent, acked, top>>
    BY <1>5 DEF Store, Ends, providerVars, Typed, TypeOK
  <2> QED BY <2>2, <2>3, DoneTyped DEF Typed, TypeOK
<1> QED BY <1>1, <1>2, <1>3, <1>4, <1>5 DEF Requests

(* What an event makes of the row is a row that has all it tells. *)
LEMMA AppliedTakes ==
    ASSUME TypeOK, NEW e \in Event, e.of.plan # None \/ row # None
    PROVE  Applied(e) \in Row /\ Takes(Applied(e), e)
<1>1. e.of \in Parsed
  BY DEF Event
<1>2. CASE e.of.plan # None
  BY <1>1, <1>2 DEF Applied, Parsed, Row, Takes
<1>3. CASE e.of.plan = None
  <2> row \in Row
    BY <1>3 DEF TypeOK
  <2> QED BY <1>1, <1>3 DEF Applied, Parsed, Row, Takes
<1> QED BY <1>2, <1>3

(* Reading the current row leaves the delivery ready to store. *)
LEMMA ReadsTyped ==
    ASSUME Typed, NEW a \in Actors, NEW e \in sent, ReadsCurrent(a, e),
           got' = [got EXCEPT ![a] = e],
           UNCHANGED <<row, providerVars, acked, wants, historyVars>>
    PROVE  Typed'
<1>1. e \in Event /\ Applied(e) \in Row /\ Takes(Applied(e), e)
  BY AppliedTakes DEF ReadsCurrent, Typed, TypeOK
<1> DEFINE y == Applied(e)
<1>2. pc' = [pc EXCEPT ![a] = "apply"] /\ seen' = [seen EXCEPT ![a] = y]
  BY DEF ReadsCurrent, GoTo
<1>3. y \in Row /\ Takes(y, e)
  BY <1>1
<1> HIDE DEF y
<1>4. TypeOK'
  BY <1>1, <1>2, <1>3 DEF Typed, TypeOK, Step, providerVars, historyVars
<1>5. ASSUME NEW b \in Actors PROVE Locals(b)'
  <2>1. CASE b = a
    <3> pc'[a] = "apply" /\ seen'[a] = y /\ got'[a] = e /\ sent' = sent
      BY <1>2 DEF Typed, TypeOK, providerVars
    <3> QED BY <1>3, <2>1 DEF Locals, Asking, Takes
  <2>2. CASE b # a
    <3> /\ pc'[b] = pc[b] /\ wants'[b] = wants[b] /\ seen'[b] = seen[b] /\ got'[b] = got[b]
        /\ sent' = sent
      BY <1>2, <2>2 DEF Typed, TypeOK, providerVars
    <3> QED BY DEF Typed, Locals, Takes
  <2> QED BY <2>1, <2>2
<1> QED BY <1>4, <1>5 DEF Typed

(* Each step of a delivery keeps the types. *)
LEMMA WebhooksTyped == ASSUME Typed, NEW a \in Actors, Webhooks(a) PROVE Typed'
<1>1. ASSUME NEW e \in sent, Deliver(a, e) PROVE Typed'
  <2>1. CASE ReadsCurrent(a, e)
    BY <1>1, <2>1, ReadsTyped DEF Deliver
  <2>2. CASE GoTo(a, "current") /\ UNCHANGED seen
    <3>1. TypeOK'
      BY <1>1, <2>2 DEF Deliver, providerVars, historyVars, Typed, TypeOK, GoTo, Step
    <3>2. \A b \in Actors : Locals(b)'
      BY <1>1, <2>2 DEF Deliver, providerVars, Typed, TypeOK, Locals, Takes, GoTo, Asking
    <3> QED BY <3>1, <3>2 DEF Typed
  <2> QED BY <1>1, <2>1, <2>2 DEF Deliver
<1>2. CASE ReadCurrent(a)
  <2>1. got[a] \in sent /\ got' = [got EXCEPT ![a] = got[a]]
    BY <1>2 DEF ReadCurrent, At, Typed, TypeOK, Locals
  <2> QED BY <1>2, <2>1, ReadsTyped DEF ReadCurrent
<1>3. CASE Apply(a)
  <2>1. got[a] \in sent /\ got[a].n \in 1 .. MaxMoves /\ seen[a] \in Row
    BY <1>3 DEF Apply, At, Typed, TypeOK, Locals, Event
  <2>2. row' \in Row \cup {None} /\ acked' \subseteq sent
    BY <1>3, <2>1 DEF Apply, Typed, TypeOK
  <2>3. top' \in 0 .. MaxMoves
    BY <1>3, <2>1 DEF Apply, Typed, TypeOK
  <2>4. overtaken' \subseteq Actors /\ stale' \in BOOLEAN
    BY <1>3 DEF Apply, Typed, TypeOK
  <2>5. Done(a) /\ UNCHANGED <<stripe, checkouts, moves, sent>>
    BY <1>3 DEF Apply, providerVars
  <2> QED BY <2>2, <2>3, <2>4, <2>5, DoneTyped DEF Typed, TypeOK
<1>4. CASE ApplyFails(a)
  <2>1. Done(a) /\ overtaken' \subseteq Actors
        /\ UNCHANGED <<row, stripe, checkouts, moves, sent, acked, top, stale>>
    BY <1>4 DEF ApplyFails, Ends, providerVars, Typed, TypeOK
  <2> QED BY <2>1, DoneTyped DEF Typed, TypeOK
<1> QED BY <1>1, <1>2, <1>3, <1>4 DEF Webhooks

(* A restart leaves the types. *)
LEMMA RestartTyped == ASSUME Typed, Restart PROVE Typed'
BY DEF Typed, TypeOK, Locals, Restart, Step, Asking, providerVars

(* Every step keeps the types. *)
LEMMA StepTyped == Typed /\ [Next]_vars => Typed'
<1> SUFFICES ASSUME Typed, [Next]_vars PROVE Typed'
  OBVIOUS
<1>1. CASE Provider
  BY <1>1, ProviderTyped
<1>2. ASSUME NEW p \in Plans, CreateCheckout(p) PROVE Typed'
  BY <1>2 DEF CreateCheckout, Typed, TypeOK, Locals, Takes, actorVars, historyVars
<1>3. ASSUME NEW a \in Actors, Requests(a) PROVE Typed'
  BY <1>3, RequestsTyped
<1>4. ASSUME NEW a \in Actors, Webhooks(a) PROVE Typed'
  BY <1>4, WebhooksTyped
<1>5. CASE Restart
  BY <1>5, RestartTyped
<1>6. CASE UNCHANGED vars
  BY <1>6 DEF vars, providerVars, actorVars, historyVars, Typed, TypeOK, Locals, Takes
<1> QED BY <1>1, <1>2, <1>3, <1>4, <1>5, <1>6 DEF Next

(* The rows, the subscriptions, the events and the local variables of the    *)
(* requests keep their types (billing.go, stripe_gateway.go).              *)
THEOREM SubscriptionTypes == Spec => []TypeOK
<1>1. Spec => []Typed
  BY InitTyped, StepTyped, PTL DEF Spec
<1> QED BY <1>1, PTL DEF Typed
-----------------------------------------------------------------------------
(* The events are numbered in their order, and top is the latest stored. *)
Numbered ==
    /\ \A e \in sent : e.n <= moves
    /\ \A e, f \in sent : e.n = f.n => e = f
    /\ top <= moves
    /\ \A e \in acked : e.n <= top

(* A request that no event overtook will store what is newer than all of them. *)
Newer(a) == pc[a] \in {"storePlan", "storeCancel"} /\ a \notin overtaken => got[a].n > top

(* The latest event says what the provider does. *)
Told == \A e \in sent : e.n = moves => Agrees(e.of, e)

(* While the latest event is stored, and nothing older on top of it, the row  *)
(* has all that it tells.                                                  *)
Latest == ~stale /\ top = moves =>
              \A e \in sent : e.n = moves => row # None /\ Takes(row, e)

Mirroring == Numbered /\ (\A a \in Actors : Newer(a)) /\ Told /\ Latest

(* There are no events at first. *)
LEMMA InitMirrors == Init => Mirroring
BY DEF Init, Mirroring, Numbered, Newer, Told, Latest

(* Once the provider has told more, the latest event is not stored yet. *)
LEMMA TellsMirror ==
    ASSUME Typed, Mirroring, Tells, UNCHANGED <<acked, historyVars>>
    PROVE  Numbered' /\ Told' /\ Latest' /\ top < moves'
<1>1. /\ moves \in Nat /\ moves' \in Nat /\ top \in Nat /\ moves < moves' /\ top < moves'
      /\ \A e \in sent' : e.n \in Nat
      /\ \A e \in sent : e.n <= moves
      /\ \A e \in sent' \ sent : moves < e.n /\ e.n <= moves'
  BY DEF Tells, Typed, TypeOK, Event, Mirroring, Numbered
<1>2. UNCHANGED <<acked, top>>
  BY DEF historyVars
<1>3. Numbered'
  <2>1. \A e \in sent' : e.n <= moves'
    BY <1>1
  <2>2. ASSUME NEW e \in sent', NEW f \in sent', e.n = f.n PROVE e = f
    <3>1. CASE e \in sent /\ f \in sent
      BY <2>2, <3>1 DEF Mirroring, Numbered
    <3>2. CASE e \notin sent /\ f \notin sent
      BY <2>2, <3>2 DEF Tells
    <3>3. CASE (e \in sent /\ f \notin sent) \/ (e \notin sent /\ f \in sent)
      BY <1>1, <2>2, <3>3
    <3> QED BY <3>1, <3>2, <3>3
  <2> QED BY <1>1, <1>2, <2>1, <2>2 DEF Mirroring, Numbered
<1>4. Told'
  <2> SUFFICES ASSUME NEW e \in sent', e.n = moves' PROVE Agrees(e.of, e)'
    BY DEF Told
  <2>1. e \notin sent
    BY <1>1
  <2> QED BY <2>1 DEF Tells
<1>5. Latest'
  BY <1>1, <1>2 DEF Latest
<1> QED BY <1>1, <1>3, <1>4, <1>5

(* A step of the provider alone. *)
LEMMA ProviderMirrors == ASSUME Typed, Mirroring, Provider PROVE Mirroring'
<1>1. Tells
  BY ProviderTells DEF Typed
<1>2. UNCHANGED <<row, acked, actorVars, historyVars>>
  BY DEF Provider, Drifts, Completes
<1>3. Numbered' /\ Told' /\ Latest'
  BY <1>1, <1>2, TellsMirror
<1> QED BY <1>2, <1>3 DEF Mirroring, Newer, actorVars, historyVars

(* A step that stores nothing and keeps the answers. *)
LEMMA QuietMirrors ==
    ASSUME Typed, Mirroring, UNCHANGED <<row, stripe, moves, sent, acked, top, stale>>,
           \A b \in Actors : Newer(b)'
    PROVE  Mirroring'
BY DEF Mirroring, Numbered, Told, Agrees, Latest, Takes

(* Who ends has nothing to store. *)
LEMMA EndsNewer ==
    ASSUME Typed, Mirroring, NEW a \in Actors, Ends(a), UNCHANGED top
    PROVE  \A b \in Actors : Newer(b)'
BY DEF Mirroring, Newer, Ends, Done, GoTo, Typed, TypeOK

(* Of the requests only Store changes the row, with something newer than     *)
(* every event that was stored: that move is still to be told.             *)
LEMMA StoreMirrors == ASSUME Typed, Mirroring, NEW a \in Actors, Store(a) PROVE Mirroring'
<1>1. UNCHANGED <<stripe, moves, sent, acked, top>> /\ Ends(a)
  BY DEF Store, providerVars
<1>2. Numbered' /\ Told'
  BY <1>1 DEF Mirroring, Numbered, Told, Agrees
<1>3. \A b \in Actors : Newer(b)'
  BY <1>1, EndsNewer
<1>4. Latest'
  <2>1. CASE UNCHANGED <<row, stale>>
    BY <1>1, <2>1 DEF Mirroring, Latest, Takes
  <2>2. CASE stale' = (a \in overtaken)
    <3> SUFFICES ASSUME ~stale', top = moves PROVE FALSE
      BY <1>1 DEF Latest
    <3>1. got[a] \in sent /\ got[a].n > top
      BY <2>2 DEF Store, Mirroring, Newer, Typed, Locals
    <3>2. got[a].n \in Nat /\ got[a].n <= moves /\ top \in Nat
      BY <3>1 DEF Mirroring, Numbered, Typed, TypeOK, Event
    <3> QED BY <3>1, <3>2
  <2> QED BY <2>1, <2>2 DEF Store
<1> QED BY <1>2, <1>3, <1>4 DEF Mirroring

(* Each step of a request. *)
LEMMA RequestsMirror == ASSUME Typed, Mirroring, NEW a \in Actors, Requests(a) PROVE Mirroring'
<1>1. ASSUME NEW p \in Plans, ChangePlan(a, p) PROVE Mirroring'
  <2>1. UNCHANGED <<row, stripe, moves, sent, acked, top, stale>>
    BY <1>1 DEF ChangePlan, historyVars
  <2>2. ASSUME NEW b \in Actors PROVE Newer(b)'
    BY <1>1 DEF ChangePlan, actorVars, historyVars, GoTo, Mirroring, Newer, Typed, TypeOK
  <2> QED BY <2>1, <2>2, QuietMirrors
<1>2. CASE CancelSubscription(a)
  <2>1. UNCHANGED <<row, stripe, moves, sent, acked, top, stale>>
    BY <1>2 DEF CancelSubscription, providerVars, historyVars
  <2>2. ASSUME NEW b \in Actors PROVE Newer(b)'
    BY <1>2 DEF CancelSubscription, historyVars, GoTo, Mirroring, Newer, Typed, TypeOK
  <2> QED BY <2>1, <2>2, QuietMirrors
<1>3. CASE UpdateSubscriptionPlan(a) \/ CancelAtProvider(a)
  <2>1. PICK e \in Event : e.n = moves' /\ got' = [got EXCEPT ![a] = e]
    BY <1>3, CallsTyped
  <2>2. /\ Tells
        /\ pc' \in {[pc EXCEPT ![a] = "storePlan"], [pc EXCEPT ![a] = "storeCancel"]}
    BY <1>3, CallsTyped
  <2>3. UNCHANGED <<row, acked, historyVars>>
    BY <1>3 DEF UpdateSubscriptionPlan, CancelAtProvider
  <2>4. Numbered' /\ Told' /\ Latest' /\ top < moves'
    BY <2>2, <2>3, TellsMirror
  <2>5. ASSUME NEW b \in Actors PROVE Newer(b)'
    <3>1. CASE b = a
      BY <2>1, <2>3, <2>4, <3>1 DEF Newer, historyVars, Typed, TypeOK
    <3>2. CASE b # a
      BY <2>1, <2>2, <2>3, <3>2 DEF Mirroring, Newer, historyVars, Typed, TypeOK
    <3> QED BY <3>1, <3>2
  <2> QED BY <2>4, <2>5 DEF Mirroring
<1>4. CASE ProviderFails(a)
  <2>1. Ends(a) /\ UNCHANGED <<row, stripe, moves, sent, acked, top, stale>>
    BY <1>4 DEF ProviderFails, providerVars
  <2> QED BY <2>1, EndsNewer, QuietMirrors
<1>5. CASE Store(a)
  BY <1>5, StoreMirrors
<1> QED BY <1>1, <1>2, <1>3, <1>4, <1>5 DEF Requests

(* Each step of a delivery.  Who applies an event has every request under    *)
(* way overtaken.                                                          *)
LEMMA WebhooksMirror == ASSUME Typed, Mirroring, NEW a \in Actors, Webhooks(a) PROVE Mirroring'
<1>1. ASSUME NEW e \in sent, Deliver(a, e) PROVE Mirroring'
  <2>1. UNCHANGED <<row, stripe, moves, sent, acked, top, overtaken, stale>>
    BY <1>1 DEF Deliver, providerVars, historyVars
  <2>2. ASSUME NEW b \in Actors PROVE Newer(b)'
    BY <1>1, <2>1 DEF Deliver, ReadsCurrent, GoTo, Mirroring, Newer, Typed, TypeOK
  <2> QED BY <2>1, <2>2, QuietMirrors
<1>2. CASE ReadCurrent(a)
  <2>1. UNCHANGED <<row, stripe, moves, sent, acked, top, overtaken, stale, got>>
    BY <1>2 DEF ReadCurrent, providerVars, historyVars
  <2>2. ASSUME NEW b \in Actors PROVE Newer(b)'
    BY <1>2, <2>1 DEF ReadCurrent, ReadsCurrent, GoTo, Mirroring, Newer, Typed, TypeOK
  <2> QED BY <2>1, <2>2, QuietMirrors
<1>3. CASE Apply(a)
  <2>1. /\ got[a] \in sent /\ got[a].n \in Nat /\ got[a].n <= moves
        /\ seen[a] \in Row /\ Takes(seen[a], got[a])
        /\ top \in Nat /\ top <= moves
        /\ \A e \in sent : e.n \in Nat
    BY <1>3 DEF Apply, At, Typed, TypeOK, Locals, Event, Mirroring, Numbered
  <2>2. /\ UNCHANGED <<stripe, moves, sent>> /\ Done(a)
        /\ row' = seen[a]
        /\ acked' = acked \cup {got[a]}
        /\ stale' = (got[a].n < top)
        /\ top' = IF got[a].n > top THEN got[a].n ELSE top
        /\ overtaken' = {b \in Actors : pc[b] \in Asking}
    BY <1>3 DEF Apply, providerVars
  <2>3. Numbered' /\ Told'
    <3>1. acked \subseteq sent
      BY DEF Typed, TypeOK
    <3>2. Told'
      BY <2>2 DEF Mirroring, Told, Agrees
    <3> QED BY <2>1, <2>2, <3>1, <3>2 DEF Mirroring, Numbered
  <2>4. ASSUME NEW b \in Actors PROVE Newer(b)'
    BY <2>2 DEF Newer, Done, GoTo, Asking, Typed, TypeOK
  <2>5. Latest'
    <3> SUFFICES ASSUME ~stale', top' = moves, NEW e \in sent, e.n = moves
                 PROVE  row' # None /\ Takes(row', e)
      BY <2>2 DEF Latest
    <3>1. ~(got[a].n < top)
      BY <2>2
    <3>2. got[a].n = moves
      BY <2>1, <2>2, <3>1
    <3>3. got[a] = e
      BY <2>1, <3>2 DEF Mirroring, Numbered
    <3> QED BY <2>1, <2>2, <3>3
  <2> QED BY <2>3, <2>4, <2>5 DEF Mirroring
<1>4. CASE ApplyFails(a)
  <2>1. Ends(a) /\ UNCHANGED <<row, stripe, moves, sent, acked, top, stale>>
    BY <1>4 DEF ApplyFails, providerVars
  <2> QED BY <2>1, EndsNewer, QuietMirrors
<1> QED BY <1>1, <1>2, <1>3, <1>4 DEF Webhooks

(* Every step. *)
LEMMA StepMirrors == Typed /\ Mirroring /\ [Next]_vars => Mirroring'
<1> SUFFICES ASSUME Typed, Mirroring, [Next]_vars PROVE Mirroring'
  OBVIOUS
<1>1. CASE Provider
  BY <1>1, ProviderMirrors
<1>2. ASSUME NEW p \in Plans, CreateCheckout(p) PROVE Mirroring'
  <2>1. UNCHANGED <<row, stripe, moves, sent, acked, actorVars, historyVars>>
    BY <1>2 DEF CreateCheckout
  <2>2. \A b \in Actors : Newer(b)'
    BY <2>1 DEF Mirroring, Newer, actorVars, historyVars
  <2> QED BY <2>1, <2>2, QuietMirrors DEF historyVars
<1>3. ASSUME NEW a \in Actors, Requests(a) PROVE Mirroring'
  BY <1>3, RequestsMirror
<1>4. ASSUME NEW a \in Actors, Webhooks(a) PROVE Mirroring'
  BY <1>4, WebhooksMirror
<1>5. CASE Restart
  <2>1. \A b \in Actors : Newer(b)'
    BY <1>5 DEF Restart, Newer
  <2> QED BY <1>5, <2>1, QuietMirrors DEF Restart, providerVars
<1>6. CASE UNCHANGED vars
  <2>1. UNCHANGED <<row, stripe, moves, sent, acked, pc, got, overtaken, top, stale>>
    BY <1>6 DEF vars, providerVars, actorVars, historyVars
  <2>2. \A b \in Actors : Newer(b)'
    BY <2>1 DEF Mirroring, Newer
  <2> QED BY <2>1, <2>2, QuietMirrors
<1> QED BY <1>1, <1>2, <1>3, <1>4, <1>5, <1>6 DEF Next

(* Once every event was answered with success the row says what the provider *)
(* says of the subscription that moved last, a checkout still to be paid     *)
(* aside, unless the row is as an event stored it after a later one, or a    *)
(* request that an event had overtaken: HandleWebhook, ChangePlan,          *)
(* CancelSubscription.                                                     *)
THEOREM RowIsMirrored == Spec => []RowMirrors
<1>1. Spec => [](Typed /\ Mirroring)
  BY InitTyped, StepTyped, InitMirrors, StepMirrors, PTL DEF Spec
<1>2. Typed /\ Mirroring => RowMirrors
  <2> SUFFICES ASSUME Typed, Mirroring, acked = sent, ~stale,
                      NEW e \in sent, e.n = moves
               PROVE  row # None /\ Agrees(row, e)
    BY DEF RowMirrors
  <2>1. top = moves
    BY DEF Mirroring, Numbered, Typed, TypeOK, Event
  <2>2. row # None /\ Takes(row, e)
    BY <2>1 DEF Mirroring, Latest
  <2>3. Agrees(e.of, e)
    BY DEF Mirroring, Told
  <2>4. e.of.sub \in Subs /\ stripe[e.of.sub] \in Subscribed
    BY <2>3 DEF Agrees, Typed, TypeOK, Event, Parsed
  <2>5. Agrees(row, e)
    BY <2>2, <2>3, <2>4 DEF Agrees, Takes, Subscribed
  <2> QED BY <2>2, <2>5
<1> QED BY <1>1, <1>2, PTL
=============================================================================
